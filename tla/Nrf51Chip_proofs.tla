-------------------------- MODULE Nrf51Chip_proofs --------------------------
(***************************************************************************)
(* Proofs about the deferred interrupt servicing of the nRF51 chip, for   *)
(* every set of lines, every set of dispatched lines, every finite set of *)
(* lines the board enables and every queue at least as large as it.       *)
(***************************************************************************)
EXTENDS Nrf51Chip, FiniteSetTheorems, SequenceTheorems, TLAPS

(* Appending a value that is not yet in an injective sequence keeps it    *)
(* injective and adds the value to its range.                             *)
LEMMA AppendFresh ==
  ASSUME NEW S, NEW q \in Seq(S), IsInjective(q), NEW x \in S, x \notin Range(q)
  PROVE  /\ Append(q, x) \in Seq(S)
         /\ IsInjective(Append(q, x))
         /\ Range(Append(q, x)) = Range(q) \cup {x}
<1>1. /\ Append(q, x) \in Seq(S)
      /\ Len(Append(q, x)) = Len(q) + 1
      /\ \A i \in 1..Len(q) : Append(q, x)[i] = q[i]
      /\ Append(q, x)[Len(q) + 1] = x
  BY AppendProperties
<1>2. Len(q) \in Nat /\ DOMAIN q = 1..Len(q) /\ DOMAIN Append(q, x) = 1..Len(q) + 1
  BY <1>1, LenProperties
<1>3. Range(q) = {q[i] : i \in 1..Len(q)}
  BY RangeEquality
<1>4. Range(Append(q, x)) = {Append(q, x)[i] : i \in 1..Len(q) + 1}
  BY <1>1, RangeEquality
<1>5. \A i \in 1..Len(q) : q[i] # x
  BY <1>3
<1>6. IsInjective(Append(q, x))
  <2> SUFFICES ASSUME NEW i \in 1..Len(q) + 1, NEW j \in 1..Len(q) + 1,
                      Append(q, x)[i] = Append(q, x)[j]
               PROVE  i = j
    BY <1>2 DEF IsInjective
  <2>1. CASE i \in 1..Len(q) /\ j \in 1..Len(q)
    BY <2>1, <1>1, <1>2 DEF IsInjective
  <2>2. CASE i \in 1..Len(q) /\ j = Len(q) + 1
    BY <2>2, <1>1, <1>5
  <2>3. CASE i = Len(q) + 1 /\ j \in 1..Len(q)
    BY <2>3, <1>1, <1>5
  <2>4. CASE i = Len(q) + 1 /\ j = Len(q) + 1
    BY <2>4
  <2>. QED  BY <2>1, <2>2, <2>3, <2>4, <1>2
<1>7. Range(Append(q, x)) = Range(q) \cup {x}
  <2>1. ASSUME NEW i \in 1..Len(q) + 1 PROVE Append(q, x)[i] \in Range(q) \cup {x}
    BY <1>1, <1>2, <1>3
  <2>2. ASSUME NEW i \in 1..Len(q) PROVE q[i] \in Range(Append(q, x))
    BY <1>1, <1>2, <1>4
  <2>3. x \in Range(Append(q, x))
    BY <1>1, <1>2, <1>4
  <2>. QED  BY <2>1, <2>2, <2>3, <1>3, <1>4
<1>. QED  BY <1>1, <1>6, <1>7

(* Removing the head of an injective sequence keeps it injective and      *)
(* removes exactly the head from its range.                               *)
LEMMA TailFresh ==
  ASSUME NEW S, NEW q \in Seq(S), q # << >>, IsInjective(q)
  PROVE  /\ Head(q) \in S
         /\ Tail(q) \in Seq(S)
         /\ IsInjective(Tail(q))
         /\ Range(Tail(q)) = Range(q) \ {Head(q)}
<1>1. /\ Head(q) \in S
      /\ Tail(q) \in Seq(S)
      /\ Len(Tail(q)) = Len(q) - 1
      /\ \A i \in 1..Len(Tail(q)) : Tail(q)[i] = q[i + 1]
  BY HeadTailProperties
<1>2. /\ Len(q) \in Nat \ {0} /\ Head(q) = q[1]
      /\ DOMAIN q = 1..Len(q) /\ DOMAIN Tail(q) = 1..Len(Tail(q))
  BY <1>1, EmptySeq, LenProperties
<1>3. Range(q) = {q[i] : i \in 1..Len(q)}
  BY RangeEquality
<1>4. Range(Tail(q)) = {Tail(q)[i] : i \in 1..Len(Tail(q))}
  BY <1>1, RangeEquality
<1>5. IsInjective(Tail(q))
  <2> SUFFICES ASSUME NEW i \in 1..Len(Tail(q)), NEW j \in 1..Len(Tail(q)), Tail(q)[i] = Tail(q)[j]
               PROVE  i = j
    BY <1>2 DEF IsInjective
  <2>1. q[i + 1] = q[j + 1] /\ i + 1 \in DOMAIN q /\ j + 1 \in DOMAIN q
    BY <1>1, <1>2
  <2>. QED  BY <2>1 DEF IsInjective
<1>6. Range(Tail(q)) = Range(q) \ {Head(q)}
  <2>1. ASSUME NEW i \in 1..Len(Tail(q)) PROVE Tail(q)[i] \in Range(q) \ {Head(q)}
    <3>1. Tail(q)[i] = q[i + 1] /\ i + 1 \in DOMAIN q /\ 1 \in DOMAIN q /\ i + 1 # 1
      BY <1>1, <1>2
    <3>2. q[i + 1] # q[1]
      BY <3>1 DEF IsInjective
    <3>. QED  BY <3>1, <3>2, <1>2, <1>3
  <2>2. ASSUME NEW i \in 1..Len(q), q[i] # Head(q) PROVE q[i] \in Range(Tail(q))
    <3>1. i # 1 /\ i - 1 \in 1..Len(Tail(q))
      BY <2>2, <1>1, <1>2
    <3>. QED  BY <3>1, <1>1, <1>4
  <2>. QED  BY <2>1, <2>2, <1>3, <1>4
<1>. QED  BY <1>1, <1>5, <1>6

(* An injective sequence over a finite set is at most as long as the set  *)
(* is large.                                                               *)
LEMMA InjectiveLength ==
  ASSUME NEW S, IsFiniteSet(S), NEW q \in Seq(S), IsInjective(q)
  PROVE  Len(q) <= Cardinality(S)
<1>1. Len(q) \in Nat /\ q \in [1..Len(q) -> S]
  BY LenProperties
<1>2. q \in Injection(1..Len(q), S)
  BY <1>1 DEF Injection, IsInjective
<1>3. Cardinality(1..Len(q)) <= Cardinality(S)
  BY <1>2, FS_Injection
<1>4. Cardinality(1..Len(q)) = Len(q)
  BY <1>1, FS_Interval
<1>. QED  BY <1>3, <1>4

(* The ISR never finds INTERRUPT_QUEUE full: the queue holds each of the  *)
(* other enabled lines at most once.                                       *)
LEMMA IsrRoom ==
  ASSUME NEW q \in Seq(Lines), IsInjective(q), Range(q) \subseteq Enabled,
         NEW l \in Enabled, l \notin Range(q)
  PROVE  Len(q) < IQ_SIZE
<1>1. IsFiniteSet(Enabled \ {l}) /\ Cardinality(Enabled \ {l}) = Cardinality(Enabled) - 1
  BY ChipAssumption, FS_RemoveElement, FS_Subset
<1>2. q \in Seq(Enabled \ {l})
  BY RangeEquality
<1>3. Len(q) <= Cardinality(Enabled \ {l})
  BY <1>1, <1>2, InjectiveLength
<1>4. Cardinality(Enabled) \in Nat
  BY ChipAssumption, FS_CardinalityType
<1>. QED  BY <1>1, <1>3, <1>4, ChipAssumption

-----------------------------------------------------------------------------
(* TypeOK and LineDiscipline together are inductive.                       *)
Inv == TypeOK /\ LineDiscipline

LEMMA InitInv == Init => Inv
<1> SUFFICES ASSUME Init PROVE Inv
  OBVIOUS
<1>1. << >> \in Seq(Lines)
  BY EmptySeq
<1>2. Range(<< >>) = {} /\ IsInjective(<< >>)
  BY DEF Range, IsInjective
<1>. QED  BY <1>1, <1>2, ChipAssumption DEF Init, Inv, TypeOK, LineDiscipline

LEMMA NextInv == Inv /\ [Next]_vars => Inv'
<1> SUFFICES ASSUME Inv, [Next]_vars PROVE Inv'
  OBVIOUS
<1>0. /\ queue \in Seq(Lines) /\ IsInjective(queue)
      /\ Range(queue) \subseteq Enabled /\ nvic \subseteq Enabled
      /\ nvic \cap (Range(queue) \cup {cur}) = {} /\ cur \notin Range(queue)
      /\ nvic \cup Range(queue) \cup ({cur} \ {NoLine}) = Enabled
  BY DEF Inv, TypeOK, LineDiscipline
<1>1. ASSUME NEW l \in Lines, Raise(l) PROVE Inv'
  BY <1>1 DEF Raise, Inv, TypeOK, LineDiscipline
<1>2. ASSUME NEW l \in Lines, Isr(l) PROVE Inv'
  <2>1. l \in nvic /\ l \in Enabled /\ l \notin Range(queue) /\ l # cur
    BY <1>0, <1>2 DEF Isr
  <2>2. Len(queue) < IQ_SIZE
    BY <1>0, <2>1, IsrRoom
  <2>3. queue' = Append(queue, l) /\ nvic' = nvic \ {l} /\ UNCHANGED <<evt, cur, stage>>
    BY <1>2, <2>2 DEF Isr, Enqueue
  <2>4. /\ queue' \in Seq(Lines)
        /\ IsInjective(queue')
        /\ Range(queue') = Range(queue) \cup {l}
    BY <1>0, <2>1, <2>3, AppendFresh
  <2>5. TypeOK'
    BY <2>3, <2>4 DEF Inv, TypeOK
  <2>6. LineDiscipline'
    BY <1>0, <2>1, <2>3, <2>4 DEF LineDiscipline
  <2>. QED  BY <2>5, <2>6 DEF Inv
<1>3. CASE ServiceDequeue
  <2>1. queue # << >> /\ cur = NoLine
    BY <1>3 DEF ServiceDequeue, HasPendingInterrupts, Inv, TypeOK
  <2>2. /\ Head(queue) \in Lines
        /\ Tail(queue) \in Seq(Lines)
        /\ IsInjective(Tail(queue))
        /\ Range(Tail(queue)) = Range(queue) \ {Head(queue)}
    BY <1>0, <2>1, TailFresh
  <2>3. Head(queue) \in Range(queue)
    BY <1>0, <2>1, <2>2, RangeEquality, EmptySeq, LenProperties
  <2>4. /\ cur' = Head(queue) /\ queue' = Tail(queue) /\ stage' = "dispatch"
        /\ UNCHANGED <<evt, nvic>>
    BY <1>3 DEF ServiceDequeue
  <2>5. TypeOK'
    BY <2>2, <2>4, ChipAssumption DEF Inv, TypeOK
  <2>6. LineDiscipline'
    BY <1>0, <2>1, <2>2, <2>3, <2>4, ChipAssumption DEF LineDiscipline
  <2>. QED  BY <2>5, <2>6 DEF Inv
<1>4. CASE ServiceDispatch
  BY <1>4 DEF ServiceDispatch, HandleInterrupt, Inv, TypeOK, LineDiscipline
<1>5. CASE ServiceEnable
  <2>1. cur \in Lines
    BY <1>5 DEF ServiceEnable, Inv, TypeOK
  <2>2. queue' = queue /\ Range(queue') = Range(queue)
    BY <1>5 DEF ServiceEnable
  <2>3. nvic' = nvic \cup {cur} /\ cur' = NoLine /\ stage' = "idle" /\ evt' = evt
    BY <1>5 DEF ServiceEnable
  <2>4. TypeOK'
    BY <2>1, <2>2, <2>3 DEF Inv, TypeOK
  <2>5. NoLine \notin Range(queue) /\ NoLine \notin nvic /\ cur # NoLine
    BY <1>0, <2>1, ChipAssumption, RangeOfSeq DEF Inv, TypeOK
  <2>6. LineDiscipline'
    BY <1>0, <2>2, <2>3, <2>5 DEF Inv, LineDiscipline
  <2>. QED  BY <2>4, <2>6 DEF Inv
<1>6. CASE UNCHANGED vars
  BY <1>6 DEF vars, Inv, TypeOK, LineDiscipline
<1>. QED  BY <1>1, <1>2, <1>3, <1>4, <1>5, <1>6 DEF Next

(* Masking discipline (LineDiscipline, checked by chip_service): for every *)
(* set of enabled lines and every INTERRUPT_QUEUE at least as large, the  *)
(* ISR and                                                                 *)
(* service_pending_interrupts queue each line at most once, keep a queued *)
(* or serviced line masked and never lose a line: the enqueue in the ISR  *)
(* never finds the queue full.                                            *)
THEOREM MaskingDiscipline == Spec => []LineDiscipline
<1>1. Init => Inv
  BY InitInv
<1>2. Inv /\ [Next]_vars => Inv'
  BY NextInv
<1>3. Inv => LineDiscipline
  BY DEF Inv
<1>. QED  BY <1>1, <1>2, <1>3, PTL DEF Spec

(* Type correctness of the chip model (TypeOK, checked by chip_service):  *)
(* the queue holds lines only and service_pending_interrupts holds a      *)
(* dequeued line exactly while it is not idle.                            *)
THEOREM TypeCorrect == Spec => []TypeOK
<1>1. Inv => TypeOK
  BY DEF Inv
<1>. QED  BY <1>1, InitInv, NextInv, PTL DEF Spec

(* Each step of the chip is a step of InterruptService on the asserted    *)
(* events, or leaves them alone: only the handler of a dispatched line     *)
(* clears an event, that line is enabled (the invariant), and only a       *)
(* peripheral raises one.                                                  *)
LEMMA StepRefines == Inv /\ [Next]_vars => [IS!Next]_evt
<1> SUFFICES ASSUME Inv, [Next]_vars PROVE [IS!Next]_evt
  OBVIOUS
<1>0. stage = "dispatch" => cur \in Enabled
  BY ChipAssumption DEF Inv, TypeOK, LineDiscipline
<1>1. ASSUME NEW l \in Lines, Raise(l) PROVE IS!Next
  BY <1>1 DEF Raise, IS!Next, IS!Raise
<1>2. CASE ServiceDispatch /\ cur \in Dispatched /\ cur \in evt
  BY <1>0, <1>2 DEF ServiceDispatch, HandleInterrupt, IS!Next, IS!Handle
<1>3. CASE ServiceDispatch /\ ~(cur \in Dispatched /\ cur \in evt)
  BY <1>3 DEF ServiceDispatch, HandleInterrupt
<1>4. ASSUME NEW l \in Lines, Isr(l) PROVE UNCHANGED evt
  BY <1>4 DEF Isr
<1>. QED  BY <1>1, <1>2, <1>3, <1>4
          DEF Next, vars, ServiceDequeue, ServiceDispatch, ServiceEnable

(* Safety part of ServiceRefinement (checked by chip_service, liveness    *)
(* included): for every set of enabled lines, the chip's initial state   *)
(* is one of InterruptService and every step of the chip is a step or a stutter of  *)
(* it, with the asserted events as its pending set.                        *)
THEOREM RefinesInterruptService == Spec => IS!Init /\ [][IS!Next]_evt
<1>1. Init => IS!Init
  BY DEF Init, IS!Init
<1>2. Inv /\ [Next]_vars => [IS!Next]_evt
  BY StepRefines
<1>. QED  BY <1>1, <1>2, InitInv, NextInv, PTL DEF Spec
=============================================================================
