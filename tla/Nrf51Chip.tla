----------------------------- MODULE Nrf51Chip -----------------------------
(***************************************************************************)
(* Deferred interrupt servicing of the nRF51 chip                          *)
(* (chips/nrf51/src/chip.rs).  The interrupt service routine of a line     *)
(* masks the line in the NVIC and enqueues its NvicIdx on INTERRUPT_QUEUE; *)
(* the kernel main loop, while has_pending_interrupts(), calls             *)
(* service_pending_interrupts(), which dequeues one line, runs the         *)
(* handle_interrupt of the peripheral its match arm names (none for the    *)
(* `_` arm) and unmasks the line again.                                    *)
(*                                                                         *)
(* The ISR preempts the kernel loop between any two of its steps; the      *)
(* ISR itself runs to completion.  A peripheral's handle_interrupt is      *)
(* reduced to its effect here: it clears that peripheral's event.         *)
(***************************************************************************)
EXTENDS Naturals, Sequences, FiniteSets, Functions

CONSTANTS
  Lines,        \* NvicIdx values of the peripherals in the model
  Dispatched,   \* the lines service_pending_interrupts has a match arm for
  Enabled,      \* the lines the board enables in the NVIC before the loop
  IQ_SIZE,      \* entries INTERRUPT_QUEUE (over IQ_BUF) can hold
  NoLine        \* no line dequeued

ASSUME ChipAssumption ==
  /\ Dispatched \subseteq Lines
  /\ Enabled \subseteq Lines
  /\ IsFiniteSet(Enabled)
  /\ NoLine \notin Lines
  /\ IQ_SIZE \in Nat
  /\ Cardinality(Enabled) <= IQ_SIZE

VARIABLES
  evt,      \* lines whose peripheral event is asserted (interrupt request)
  nvic,     \* lines enabled in the NVIC
  queue,    \* INTERRUPT_QUEUE, oldest first
  cur,      \* the line service_pending_interrupts has dequeued
  stage     \* where service_pending_interrupts is: idle, dispatch, enable

vars == <<evt, nvic, queue, cur, stage>>

(* NRF51::new installs an empty INTERRUPT_QUEUE over IQ_BUF; the board has *)
(* enabled the NVIC lines in Enabled (alarm.enable_nvic()) and no event is  *)
(* asserted.                                                               *)
Init ==
  /\ evt = {}
  /\ nvic = Enabled
  /\ queue = <<>>
  /\ cur = NoLine
  /\ stage = "idle"

(* A peripheral asserts its event; it stays asserted until the            *)
(* peripheral's handle_interrupt clears it.                               *)
Raise(l) ==
  /\ l \notin evt
  /\ evt' = evt \cup {l}
  /\ UNCHANGED <<nvic, queue, cur, stage>>

(* RingBuffer::enqueue: refused, and the value dropped, when full.         *)
Enqueue(q, l) == IF Len(q) < IQ_SIZE THEN Append(q, l) ELSE q

(* The interrupt service routine of line l: nvic::disable, then enqueue.   *)
Isr(l) ==
  /\ l \in evt /\ l \in nvic
  /\ nvic' = nvic \ {l}
  /\ queue' = Enqueue(queue, l)
  /\ UNCHANGED <<evt, cur, stage>>

HasPendingInterrupts == queue # <<>>

\* Mutant: nvic::enable issued before the match, as the dequeue happens.
ServiceDequeueEnableFirst ==
  /\ stage = "idle" /\ HasPendingInterrupts
  /\ cur' = Head(queue) /\ queue' = Tail(queue)
  /\ nvic' = nvic \cup {Head(queue)}
  /\ stage' = "dispatch"
  /\ UNCHANGED evt

(* The kernel loop sees has_pending_interrupts() and                       *)
(* service_pending_interrupts() dequeues the oldest line.                  *)
ServiceDequeue ==
  /\ stage = "idle" /\ HasPendingInterrupts
  /\ cur' = Head(queue) /\ queue' = Tail(queue)
  /\ stage' = "dispatch"
  /\ UNCHANGED <<evt, nvic>>

(* The match: a dispatched line runs its peripheral's handle_interrupt,   *)
(* which clears the event; the `_` arm does nothing.                       *)
HandleInterrupt(l) == IF l \in Dispatched THEN evt \ {l} ELSE evt

\* Mutant: a match arm that returns (the commented-out UART0 arm), so the
\* line is never unmasked again.
ServiceDispatchReturns ==
  /\ stage = "dispatch"
  /\ evt' = HandleInterrupt(cur)
  /\ IF cur \in Dispatched
     THEN stage' = "idle" /\ cur' = NoLine
     ELSE stage' = "enable" /\ UNCHANGED cur
  /\ UNCHANGED <<nvic, queue>>

ServiceDispatch ==
  /\ stage = "dispatch"
  /\ evt' = HandleInterrupt(cur)
  /\ stage' = "enable"
  /\ UNCHANGED <<nvic, queue, cur>>

\* Mutant: the dequeued line is not forgotten when servicing ends.
ServiceEnableKeepsCur ==
  /\ stage = "enable"
  /\ nvic' = nvic \cup {cur}
  /\ stage' = "idle"
  /\ UNCHANGED <<evt, queue, cur>>

(* nvic::enable(interrupt) closes service_pending_interrupts.              *)
ServiceEnable ==
  /\ stage = "enable"
  /\ nvic' = nvic \cup {cur}
  /\ cur' = NoLine /\ stage' = "idle"
  /\ UNCHANGED <<evt, queue>>

Next ==
  \/ \E l \in Lines : Raise(l) \/ Isr(l)
  \/ ServiceDequeue
  \/ ServiceDispatch
  \/ ServiceEnable

(* The kernel main loop keeps servicing while interrupts are queued, and   *)
(* the NVIC takes an enabled, requested interrupt; peripherals need not    *)
(* raise anything.                                                         *)
Fairness ==
  /\ WF_vars(ServiceDequeue) /\ WF_vars(ServiceDispatch) /\ WF_vars(ServiceEnable)
  /\ \A l \in Lines : WF_vars(Isr(l))

Spec == Init /\ [][Next]_vars /\ Fairness

-----------------------------------------------------------------------------
TypeOK ==
  /\ evt \subseteq Lines
  /\ nvic \subseteq Lines
  /\ queue \in Seq(Lines)
  /\ cur \in Lines \cup {NoLine}
  /\ stage \in {"idle", "dispatch", "enable"}
  /\ (stage = "idle") <=> (cur = NoLine)

(* Masking discipline of the ISR and service_pending_interrupts: a line   *)
(* is queued at most once; a queued line or the line being serviced is     *)
(* masked in the NVIC; and the enabled lines are exactly those unmasked,   *)
(* queued or being serviced, so no interrupt is ever dropped               *)
(* (INTERRUPT_QUEUE never fills up), no line stays masked for good and     *)
(* nvic::enable never unmasks a line the board left disabled.              *)
LineDiscipline ==
  /\ IsInjective(queue)
  /\ cur \notin Range(queue)
  /\ nvic \cap (Range(queue) \cup {cur}) = {}
  /\ nvic \cup Range(queue) \cup ({cur} \ {NoLine}) = Enabled

(* service_pending_interrupts implements InterruptService: each step is a *)
(* Raise, a Handle or a stutter of the pending events, and every event of *)
(* a line that is both enabled and dispatched is eventually handled.       *)
IS == INSTANCE InterruptService
        WITH pending <- evt, Dispatched <- Dispatched \cap Enabled
ServiceRefinement == IS!Spec
=============================================================================
