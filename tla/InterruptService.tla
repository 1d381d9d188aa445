-------------------------- MODULE InterruptService --------------------------
(***************************************************************************)
(* What deferred interrupt servicing promises the peripheral drivers of   *)
(* the nRF51 chip: an event a peripheral asserts stays pending until that *)
(* peripheral's handle_interrupt clears it, and the handler of every line *)
(* the chip dispatches is eventually run for each pending event.  How the *)
(* event travels (NVIC, the ISR, the interrupt queue, the kernel loop) is  *)
(* left out; Nrf51Chip refines this specification.                        *)
(***************************************************************************)
CONSTANTS
  Lines,        \* the interrupt lines of the peripherals
  Dispatched    \* the lines whose events reach a handler

VARIABLE pending  \* lines whose peripheral event is asserted

(* A peripheral asserts its event.                                         *)
Raise(l) ==
  /\ l \notin pending
  /\ pending' = pending \cup {l}

(* The peripheral's handler runs and clears its event.                     *)
Handle(l) ==
  /\ l \in pending
  /\ pending' = pending \ {l}

Init == pending = {}

Next ==
  \/ \E l \in Lines : Raise(l)
  \/ \E l \in Dispatched : Handle(l)

Spec == Init /\ [][Next]_pending /\ \A l \in Dispatched : WF_pending(Handle(l))
=============================================================================
