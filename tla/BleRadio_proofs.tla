---------------------------- MODULE BleRadio_proofs ----------------------------
(***************************************************************************)
(* Proofs about the radio driver model BleRadio, for every value of its   *)
(* constants.                                                              *)
(***************************************************************************)
EXTENDS BleRadio, TLAPS

(* Each register write of the driver keeps the driver/peripheral record   *)
(* well formed.                                                            *)
LEMMA RegisterWritesType ==
  ASSUME NEW r \in RadioType, NEW E, NEW I \in SUBSET Interrupts
  PROVE  /\ TaskTxen(r) \in RadioType
         /\ TaskRxen(r) \in RadioType
         /\ RxDisabled(r) \in RadioType
         /\ TaskDisable(r) \in RadioType
         /\ ClearEvents(r, E) \in RadioType
         /\ EnableInterrupt(r, I) \in RadioType
         /\ ClearInterrupt(r, E) \in RadioType
         /\ DisableAllInterrupts(r) \in RadioType
<1>1. TaskTxen(r) \in RadioType /\ TaskRxen(r) \in RadioType
  BY DEF TaskTxen, TaskRxen, RadioType, HwStates
<1>2. RxDisabled(r) \in RadioType
  BY DEF RxDisabled, RadioType, HwStates, Events
<1>3. TaskDisable(r) \in RadioType
  BY <1>2 DEF TaskDisable, RadioType, HwStates
<1>4. ClearEvents(r, E) \in RadioType /\ EnableInterrupt(r, I) \in RadioType
  BY DEF ClearEvents, EnableInterrupt, RadioType
<1>5. ClearInterrupt(r, E) \in RadioType /\ DisableAllInterrupts(r) \in RadioType
  BY DEF ClearInterrupt, DisableAllInterrupts, RadioType
<1>. QED  BY <1>1, <1>2, <1>3, <1>4, <1>5

(* The driver routines built from those writes keep it well formed too.   *)
LEMMA DriverRoutinesType ==
  ASSUME NEW r \in RadioType
  PROVE  /\ SetupTx(r) \in RadioType
         /\ Tx(r) \in RadioType
         /\ SetupRx(r) \in RadioType
         /\ Rx(r) \in RadioType
         /\ DisableRadio(r) \in RadioType
         /\ ScheduleTxAfterTifs(r) \in RadioType
         /\ ScheduleRxAfterTifs(r) \in RadioType
         /\ BleInitialize(r) \in RadioType
<1>1. SetupTx(r) \in RadioType
  <2>1. ClearEvents(r, {"READY", "END", "DISABLED"}) \in RadioType
    BY RegisterWritesType
  <2>2. [ClearEvents(r, {"READY", "END", "DISABLED"})
           EXCEPT !.packetptr = "TX", !.state = "TX",
                  !.shorts = {"END_DISABLE", "READY_START"}] \in RadioType
    BY <2>1 DEF RadioType, RadioStates, Shorts
  <2>. QED  BY <2>2, RegisterWritesType DEF SetupTx, Interrupts
<1>2. Tx(r) \in RadioType
  BY <1>1, RegisterWritesType DEF Tx
<1>3. ASSUME NEW s \in RadioType PROVE SetupRx(s) \in RadioType
  <2>1. ClearEvents(s, {"ADDRESS", "BCMATCH", "CRCOK"}) \in RadioType
    BY RegisterWritesType
  <2>2. [ClearEvents(s, {"ADDRESS", "BCMATCH", "CRCOK"})
           EXCEPT !.packetptr = "RX", !.ppi = @ \ {20}, !.state = "RX",
                  !.shorts = {"END_DISABLE", "READY_START", "ADDRESS_BCSTART"}]
          \in RadioType
    BY <2>1 DEF RadioType, RadioStates, Shorts
  <2>. QED  BY <2>2, RegisterWritesType DEF SetupRx, Interrupts
<1>5. Rx(r) \in RadioType
  <2>1. ClearEvents(DisableAllInterrupts(r), {"END", "DISABLED"}) \in RadioType
    BY RegisterWritesType
  <2>. QED  BY <2>1, <1>3, RegisterWritesType DEF Rx
<1>6. DisableRadio(r) \in RadioType
  <2>1. [DisableAllInterrupts(r) EXCEPT !.shorts = {}] \in RadioType
    BY RegisterWritesType DEF RadioType
  <2>2. TaskDisable([DisableAllInterrupts(r) EXCEPT !.shorts = {}]) \in RadioType
    BY <2>1, RegisterWritesType
  <2>. QED  BY <2>2 DEF DisableRadio, RadioType, RadioStates
<1>7. ScheduleTxAfterTifs(r) \in RadioType
  BY DEF ScheduleTxAfterTifs, RadioType, PpiChannels
<1>8. ScheduleRxAfterTifs(r) \in RadioType
  BY DEF ScheduleRxAfterTifs, RadioType, PpiChannels
<1>9. BleInitialize(r) \in RadioType
  BY DEF BleInitialize, RadioType, RadioStates
<1>. QED  BY <1>1, <1>2, <1>3, <1>5, <1>6, <1>7, <1>8, <1>9

(* The initial state: a powered-off radio, no clients, no fault.           *)
LEMMA InitTypeOK == Init => TypeOK
BY ConstAssumption DEF Init, TypeOK, RadioType, RadioStates, PhyTransitions,
   HwStates, Pcs, Faults, ClientKinds

(* The peripheral's steps keep the state well formed.                      *)
LEMMA PeripheralTypeOK == TypeOK /\ Peripheral => TypeOK'
<1> SUFFICES ASSUME TypeOK, Peripheral PROVE TypeOK'
  OBVIOUS
<1>1. radio \in RadioType /\ wraps \in 0..MaxWraps
  BY DEF TypeOK
<1>2. CASE HwRampUp
  BY <1>1, <1>2 DEF HwRampUp, TypeOK, RadioType, HwStates, Events
<1>3. CASE HwAddressMatch
  BY <1>1, <1>3 DEF HwAddressMatch, TypeOK, RadioType, HwStates, Events
<1>4. CASE HwBcMatch
  BY <1>1, <1>4 DEF HwBcMatch, TypeOK, RadioType, Events
<1>5. CASE HwRxEnd
  <2>1. PICK crcOk \in BOOLEAN :
          LET r == [radio EXCEPT
                      !.events = @ \cup {"END"} \cup (IF crcOk THEN {"CRCOK"} ELSE {}),
                      !.hw = "RXIDLE", !.bcc = "off"]
          IN radio' = IF "END_DISABLE" \in radio.shorts THEN RxDisabled(r) ELSE r
    BY <1>5 DEF HwRxEnd
  <2>2. [radio EXCEPT
           !.events = @ \cup {"END"} \cup (IF crcOk THEN {"CRCOK"} ELSE {}),
           !.hw = "RXIDLE", !.bcc = "off"] \in RadioType
    BY <1>1 DEF RadioType, HwStates, Events
  <2>3. radio' \in RadioType
    BY <2>1, <2>2, RegisterWritesType
  <2>. QED  BY <2>3, <1>5 DEF HwRxEnd, TypeOK
<1>6. CASE HwTxEnd
  BY <1>1, <1>6 DEF HwTxEnd, TypeOK, RadioType, HwStates, Events
<1>7. CASE HwDisableDone
  BY <1>1, <1>7 DEF HwDisableDone, TypeOK, RadioType, HwStates, Events
<1>8. CASE HwCompare
  <2>1. LET t == IF 20 \in radio.ppi THEN TaskTxen(radio) ELSE radio
        IN (IF 21 \in radio.ppi THEN TaskRxen(t) ELSE t) \in RadioType
    BY <1>1, RegisterWritesType
  <2>2. radio' \in RadioType
    BY <1>1, <1>8, <2>1 DEF HwCompare, RadioType
  <2>. QED  BY <2>2, <1>8 DEF HwCompare, TypeOK
<1>9. CASE TimerWrap
  BY <1>1, <1>9, ConstAssumption DEF TimerWrap, TypeOK, RadioType
<1>. QED  BY <1>2, <1>3, <1>4, <1>5, <1>6, <1>7, <1>8, <1>9 DEF Peripheral

(* The phases of handle_interrupt keep the state well formed.              *)
LEMMA InterruptTypeOK == TypeOK /\ Interrupt => TypeOK'
<1> SUFFICES ASSUME TypeOK, Interrupt PROVE TypeOK'
  OBVIOUS
<1>1. radio \in RadioType /\ snap \subseteq Interrupts
  BY DEF TypeOK
<1>2. CASE IrqEnter
  BY <1>1, <1>2, RegisterWritesType DEF IrqEnter, TypeOK, RadioType, Pcs
<1>3. CASE HandleAddressEvent
  BY <1>1, <1>3, RegisterWritesType DEF HandleAddressEvent, TypeOK, Pcs
<1>4. CASE SkipAddress
  BY <1>4 DEF SkipAddress, TypeOK, Pcs
<1>5. CASE AddressSpinExit
  <2>1. [DisableAllInterrupts(radio) EXCEPT !.shorts = {}] \in RadioType
    BY <1>1 DEF DisableAllInterrupts, RadioType
  <2>2. ASSUME NEW act \in ReadActions, ReceiveStartResult(act)
        PROVE  radio' \in RadioType /\ pc' \in Pcs /\ snap' \subseteq Interrupts
                 /\ rxFrame' \in {"none", "open"}
    <3>1. EnableInterrupt(radio, {"END"}) \in RadioType
      BY <1>1, RegisterWritesType DEF Interrupts
    <3>2. EnableInterrupt([radio EXCEPT !.transition = "MoveToTX"], {"END"}) \in RadioType
      <4>1. [radio EXCEPT !.transition = "MoveToTX"] \in RadioType
        BY <1>1 DEF RadioType, PhyTransitions
      <4>. QED  BY <4>1, RegisterWritesType DEF Interrupts
    <3>3. DisableRadio(radio) \in RadioType
      BY <1>1, DriverRoutinesType
    <3>. QED  BY <2>2, <1>1, <3>1, <3>2, <3>3, TypeOK
                 DEF ReceiveStartResult, ReadActions, Pcs, TypeOK
  <2>. QED  BY <1>1, <1>5, <2>1, <2>2 DEF AddressSpinExit, TypeOK, Pcs, Faults
<1>6. CASE SkipFrameDone
  BY <1>1, <1>6, DriverRoutinesType DEF SkipFrameDone, TypeOK, Pcs
<1>7. CASE HandleDisabled
  <2> DEFINE r == ClearEvents(ClearInterrupt(radio, {"DISABLED"}), {"DISABLED", "END"})
  <2>1. r \in RadioType
    BY <1>1, RegisterWritesType
  <2>2. ScheduleRxAfterTifs(SetupRx(r)) \in RadioType
    BY <2>1, DriverRoutinesType
  <2>3. ClearEvents(radio, {"DISABLED"}) \in RadioType
    BY <1>1, RegisterWritesType
  <2>. QED  BY <1>7, <2>1, <2>2, <2>3 DEF HandleDisabled, HandleTxEndEvent, TypeOK, Pcs, Faults
<1>8. CASE SkipDisabled
  BY <1>8 DEF SkipDisabled, TypeOK, Pcs
<1>9. CASE TxEndMoveToTXDone
  BY <1>1, <1>9, DriverRoutinesType DEF TxEndMoveToTXDone, TypeOK, Pcs
<1>10. CASE HandleRxEnd
  <2> DEFINE r == [ClearInterrupt(ClearEvents(radio, {"END"}), {"END"})
                     EXCEPT !.ppi = @ \ {21}]
  <2>1. r \in RadioType
    <3>1. ClearInterrupt(ClearEvents(radio, {"END"}), {"END"}) \in RadioType
      BY <1>1, RegisterWritesType
    <3>. QED  BY <3>1 DEF RadioType
  <2>2. /\ ScheduleTxAfterTifs(SetupTx(r)) \in RadioType
        /\ DisableRadio(r) \in RadioType
    BY <2>1, DriverRoutinesType
  <2>. QED  BY <1>10, <2>1, <2>2 DEF HandleRxEnd, TypeOK, Pcs, Faults
<1>11. CASE SkipEnd
  BY <1>11 DEF SkipEnd, TypeOK, Pcs
<1>12. CASE RxEndMoveToRXDone
  BY <1>1, <1>12, DriverRoutinesType DEF RxEndMoveToRXDone, TypeOK, Pcs
<1>13. CASE RxEndNoneDone
  <2>1. /\ Tx(radio) \in RadioType
        /\ ScheduleTxAfterTifs(radio) \in RadioType
    BY <1>1, DriverRoutinesType
  <2>2. PICK ans \in AdvertisementDone :
          radio' = CASE ans = "TX"               -> Tx(radio)
                     [] ans = "RespondAfterTifs" -> ScheduleTxAfterTifs(radio)
                     [] ans = "GoToSleep"        -> radio
    BY <1>13 DEF RxEndNoneDone
  <2>3. ans \in {"TX", "RespondAfterTifs", "GoToSleep"}
    BY ConstAssumption DEF AdvertisementDone
  <2>4. radio' \in RadioType
    BY <1>1, <2>1, <2>2, <2>3
  <2>. QED  BY <1>13, <2>4 DEF RxEndNoneDone, TypeOK, Pcs
<1>. QED  BY <1>2, <1>3, <1>4, <1>5, <1>6, <1>7, <1>8, <1>9, <1>10, <1>11,
             <1>12, <1>13 DEF Interrupt

(* The calls of the link layer keep the state well formed.                 *)
LEMMA LinkLayerTypeOK == TypeOK /\ LinkLayer => TypeOK'
<1> SUFFICES ASSUME TypeOK, LinkLayer PROVE TypeOK'
  OBVIOUS
<1>1. radio \in RadioType
  BY DEF TypeOK
<1>2. BleInitialize(radio) \in RadioType
  BY <1>1, DriverRoutinesType
<1>3. CASE TransmitAdvertisement
  BY <1>2, <1>3, DriverRoutinesType DEF TransmitAdvertisement, TypeOK
<1>4. CASE ReceiveAdvertisement
  <2>1. Rx(BleInitialize(radio)) \in RadioType
    BY <1>2, DriverRoutinesType
  <2>2. EnableInterrupt(Rx(BleInitialize(radio)), {"ADDRESS"}) \in RadioType
    BY <2>1, RegisterWritesType DEF Interrupts
  <2>. QED  BY <1>4, <2>2 DEF ReceiveAdvertisement, TypeOK
<1>5. CASE \E p \in TxPowerInputs : SetTxPower(p)
  BY <1>5 DEF SetTxPower, TypeOK
<1>6. CASE \E c \in Channels : SetChannel(c)
  BY <1>6 DEF SetChannel, TypeOK, Faults
<1>7. CASE \E t \in PhyTransitions : SetTransitionState(t)
  BY <1>1, <1>7 DEF SetTransitionState, TypeOK, RadioType
<1>8. CASE \E k \in ClientKinds : SetClient(k)
  BY <1>8 DEF SetClient, TypeOK
<1>. QED  BY <1>3, <1>4, <1>5, <1>6, <1>7, <1>8 DEF LinkLayer

(* Every step of the system keeps the state well formed.                   *)
LEMMA NextTypeOK == TypeOK /\ [Next]_vars => TypeOK'
<1> SUFFICES ASSUME TypeOK, [Next]_vars PROVE TypeOK'
  OBVIOUS
<1>1. CASE Peripheral      BY <1>1, PeripheralTypeOK
<1>2. CASE Interrupt       BY <1>2, InterruptTypeOK
<1>3. CASE LinkLayer       BY <1>3, LinkLayerTypeOK
<1>4. CASE Halted          BY <1>4 DEF Halted, vars, TypeOK
<1>5. CASE UNCHANGED vars  BY <1>5 DEF vars, TypeOK
<1>. QED  BY <1>1, <1>2, <1>3, <1>4, <1>5 DEF Next

(* Type correctness of the driver model: in every behaviour, for every     *)
(* choice of the constants, the driver cells, the peripheral registers the *)
(* driver touches, the handler's phase and the link-layer settings stay    *)
(* in their types (TypeOK, checked by radio_quiescent).                    *)
THEOREM TypeCorrect == Spec => []TypeOK
BY InitTypeOK, NextTypeOK, PTL DEF Spec
-----------------------------------------------------------------------------
(* DMA ownership.  BufferDiscipline holds when the link layer keeps the    *)
(* discipline of spec section 5 (QuiescentCalls), TIMER0 never wraps onto  *)
(* a stale compare (MaxWraps = 0), the receiver's disable completes at     *)
(* once (RxDisableInstant) and advertisement_done never answers            *)
(* RespondAfterTifs; each of these four fails in a run of its own.         *)
RadioHyp ==
  /\ QuiescentCalls = TRUE
  /\ MaxWraps = 0
  /\ RxDisableInstant = TRUE
  /\ AdvAnswers \subseteq {"TX", "GoToSleep"}

(* The driver's state fixes the DMA pointer, the family of RADIO.STATE and *)
(* the shortcuts a running receiver has.                                   *)
StateHw ==
  /\ radio.state = "TX" =>
       radio.packetptr = "TX" /\ radio.hw \in TxActive \cup {"TXDISABLE", "DISABLED"}
  /\ radio.state = "RX" => radio.packetptr = "RX" /\ radio.hw \in RxActive \cup {"DISABLED"}
  /\ radio.state \in {"Initialized", "Uninitialized"} => radio.hw \in {"DISABLED", "TXDISABLE"}
  /\ radio.hw \in RxActive => "END_DISABLE" \in radio.shorts
  /\ radio.hw \in {"RXRU", "RXIDLE", "RX"} => "ADDRESS" \in radio.inten

(* An armed T_IFS compare starts the transceiver the driver has set up.    *)
Armed ==
  /\ radio.cc0 = "armed" /\ 20 \in radio.ppi =>
       radio.state = "TX" /\ radio.hw \in TxActive \cup {"DISABLED"}
  /\ radio.cc0 = "armed" /\ 21 \in radio.ppi =>
       \/ radio.state = "RX" /\ "END_DISABLE" \in radio.shorts
       \/ radio.state = "TX" /\ radio.hw \in TxActive
  /\ radio.cc0 = "armed" /\ radio.ppi \cap {20, 21} # {} =>
       radio.events \cap {"DISABLED", "END"} = {}
  /\ radio.cc0 = "armed" /\ 21 \in radio.ppi /\ radio.hw = "DISABLED" =>
       "ADDRESS" \notin radio.events /\ "ADDRESS" \in radio.inten /\ pc # "addrSpin"

(* What a pending event says of RADIO.STATE.                               *)
EventsHw ==
  /\ "DISABLED" \in radio.events => radio.hw = "DISABLED"
  /\ "END" \in radio.events => radio.hw \notin RxActive
  /\ "ADDRESS" \in radio.events =>
       "ADDRESS" \in radio.inten /\ radio.state = "RX" /\ radio.hw \in {"RXFRAME", "DISABLED"}

(* What each phase of handle_interrupt may assume of the radio.            *)
Phases ==
  /\ "READY" \notin radio.inten
  /\ "END" \in radio.inten => radio.inten = {"END"} /\ radio.state = "RX" /\ rxFrame = "open"
  /\ "END" \in snap =>
       /\ snap = {"END"} /\ pc \notin {"addrSpin", "skipWait", "txEndWait"}
       /\ pc \in {"address", "disabled", "end"} /\ fault = "none" =>
            /\ radio.state = "RX" /\ radio.hw = "DISABLED"
            /\ "END" \in radio.events /\ radio.inten = {"END"}
  /\ pc = "address" => radio.inten = snap
  /\ pc = "addrSpin" => radio.state = "RX" /\ radio.inten = {}
  /\ pc \in {"skipWait", "rxEndRxWait", "rxEndNoneWait"} =>
       radio.state = "Initialized" /\ radio.ppi \cap {20, 21} = {}
  /\ pc = "txEndWait" =>
       radio.hw = "DISABLED" /\ radio.state # "RX" /\ ~(radio.cc0 = "armed" /\ radio.ppi \cap {20, 21} # {})

BufferInv == TypeOK /\ StateHw /\ Armed /\ EventsHw /\ Phases

(* Two register images that differ at most in RADIO.STATE.                *)
OnlyHw(a, b) ==
  /\ a.state = b.state /\ a.transition = b.transition /\ a.events = b.events
  /\ a.inten = b.inten /\ a.shorts = b.shorts /\ a.packetptr = b.packetptr
  /\ a.ppi = b.ppi /\ a.cc0 = b.cc0 /\ a.bcc = b.bcc

(* TXEN and RXEN start a ramp-up from DISABLED and touch nothing else.     *)
LEMMA TaskFields ==
  ASSUME NEW r \in RadioType
  PROVE  /\ OnlyHw(TaskTxen(r), r) /\ OnlyHw(TaskRxen(r), r)
         /\ TaskTxen(r).hw = IF r.hw = "DISABLED" THEN "TXRU" ELSE r.hw
         /\ TaskRxen(r).hw = IF r.hw = "DISABLED" THEN "RXRU" ELSE r.hw
  BY DEF TaskTxen, TaskRxen, OnlyHw, RadioType

(* What tx(), setup_rx()/rx(), disable() and the T_IFS schedulers leave  *)
(* in the registers, field by field.                                       *)
LEMMA SetupTxFields ==
  ASSUME NEW r \in RadioType
  PROVE  /\ SetupTx(r) \in RadioType
         /\ SetupTx(r).state = "TX" /\ SetupTx(r).packetptr = "TX"
         /\ SetupTx(r).hw = r.hw
         /\ SetupTx(r).events = r.events \ {"READY", "END", "DISABLED"}
         /\ SetupTx(r).inten = r.inten \cup {"DISABLED"}
         /\ SetupTx(r).shorts = {"END_DISABLE", "READY_START"}
         /\ SetupTx(r).ppi = r.ppi /\ SetupTx(r).cc0 = r.cc0
<1>1. SetupTx(r) \in RadioType
  BY DriverRoutinesType
<1>. QED  BY <1>1 DEF SetupTx, EnableInterrupt, ClearEvents, RadioType

LEMMA TxFields ==
  ASSUME NEW r \in RadioType
  PROVE  /\ Tx(r) \in RadioType
         /\ Tx(r).state = "TX" /\ Tx(r).packetptr = "TX"
         /\ Tx(r).hw = IF r.hw = "DISABLED" THEN "TXRU" ELSE r.hw
         /\ Tx(r).events = r.events \ {"READY", "END", "DISABLED"}
         /\ Tx(r).inten = r.inten \cup {"DISABLED"}
         /\ Tx(r).shorts = {"END_DISABLE", "READY_START"}
         /\ Tx(r).ppi = r.ppi /\ Tx(r).cc0 = r.cc0
<1>1. SetupTx(r) \in RadioType /\ SetupTx(r).hw = r.hw
  BY SetupTxFields
<1>2. OnlyHw(Tx(r), SetupTx(r))
      /\ Tx(r).hw = IF SetupTx(r).hw = "DISABLED" THEN "TXRU" ELSE SetupTx(r).hw
  BY <1>1, TaskFields DEF Tx
<1>3. Tx(r) \in RadioType
  BY DriverRoutinesType
<1>. QED  BY <1>1, <1>2, <1>3, SetupTxFields DEF OnlyHw

LEMMA SetupRxFields ==
  ASSUME NEW r \in RadioType
  PROVE  /\ SetupRx(r) \in RadioType
         /\ SetupRx(r).state = "RX" /\ SetupRx(r).packetptr = "RX"
         /\ SetupRx(r).hw = r.hw
         /\ SetupRx(r).events = r.events \ {"ADDRESS", "BCMATCH", "CRCOK"}
         /\ SetupRx(r).inten = r.inten \cup {"ADDRESS"}
         /\ SetupRx(r).shorts = {"END_DISABLE", "READY_START", "ADDRESS_BCSTART"}
         /\ SetupRx(r).ppi = r.ppi \ {20} /\ SetupRx(r).cc0 = r.cc0
<1>1. SetupRx(r) \in RadioType
  BY DriverRoutinesType
<1>. QED  BY <1>1 DEF SetupRx, EnableInterrupt, ClearEvents, RadioType

LEMMA RxFields ==
  ASSUME NEW r \in RadioType
  PROVE  /\ Rx(r) \in RadioType
         /\ Rx(r).state = "RX" /\ Rx(r).packetptr = "RX"
         /\ Rx(r).hw = IF r.hw = "DISABLED" THEN "RXRU" ELSE r.hw
         /\ Rx(r).events =
              r.events \ {"END", "DISABLED", "ADDRESS", "BCMATCH", "CRCOK"}
         /\ Rx(r).inten = {"ADDRESS"}
         /\ Rx(r).shorts = {"END_DISABLE", "READY_START", "ADDRESS_BCSTART"}
         /\ Rx(r).ppi = r.ppi \ {20} /\ Rx(r).cc0 = r.cc0
<1> DEFINE c == ClearEvents(DisableAllInterrupts(r), {"END", "DISABLED"})
<1>1. c \in RadioType
  BY RegisterWritesType
<1>2. c.hw = r.hw /\ c.events = r.events \ {"END", "DISABLED"}
      /\ c.inten = {} /\ c.ppi = r.ppi /\ c.cc0 = r.cc0
  BY DEF ClearEvents, DisableAllInterrupts, RadioType
<1>3. /\ SetupRx(c) \in RadioType
      /\ SetupRx(c).state = "RX" /\ SetupRx(c).packetptr = "RX"
      /\ SetupRx(c).hw = c.hw /\ SetupRx(c).events = c.events \ {"ADDRESS", "BCMATCH", "CRCOK"}
      /\ SetupRx(c).inten = c.inten \cup {"ADDRESS"}
      /\ SetupRx(c).shorts = {"END_DISABLE", "READY_START", "ADDRESS_BCSTART"}
      /\ SetupRx(c).ppi = c.ppi \ {20} /\ SetupRx(c).cc0 = c.cc0
  BY <1>1, SetupRxFields
<1>4. OnlyHw(Rx(r), SetupRx(c))
      /\ Rx(r).hw = IF SetupRx(c).hw = "DISABLED" THEN "RXRU" ELSE SetupRx(c).hw
  BY <1>3, TaskFields DEF Rx
<1>5. Rx(r) \in RadioType
  BY DriverRoutinesType
<1>. QED  BY <1>2, <1>3, <1>4, <1>5 DEF OnlyHw

LEMMA TaskDisableFields ==
  ASSUME NEW d \in RadioType, RxDisableInstant = TRUE,
         d.hw \in {"DISABLED", "RXFRAME"}
  PROVE  /\ TaskDisable(d) \in RadioType
         /\ TaskDisable(d).hw = "DISABLED"
         /\ TaskDisable(d).events \subseteq d.events \cup {"DISABLED"}
         /\ TaskDisable(d).inten = d.inten /\ TaskDisable(d).shorts = d.shorts
         /\ TaskDisable(d).ppi = d.ppi
<1>1. TaskDisable(d) \in RadioType
  BY RegisterWritesType
<1>2. CASE d.hw = "DISABLED"
  <2>1. TaskDisable(d) = d
    BY <1>2 DEF TaskDisable, RxActive, TxActive
  <2>. QED  BY <1>1, <1>2, <2>1
<1>3. CASE d.hw = "RXFRAME"
  <2>1. TaskDisable(d) = RxDisabled(d)
    BY <1>3 DEF TaskDisable, RxActive, TxActive
  <2>2. RxDisabled(d) = [d EXCEPT !.hw = "DISABLED", !.events = @ \cup {"DISABLED"}]
    BY DEF RxDisabled
  <2>. QED  BY <1>1, <2>1, <2>2 DEF RadioType
<1>. QED  BY <1>2, <1>3

LEMMA DisableRadioFields ==
  ASSUME NEW r \in RadioType, RxDisableInstant = TRUE,
         r.hw \in {"DISABLED", "RXFRAME"}
  PROVE  /\ DisableRadio(r) \in RadioType
         /\ DisableRadio(r).state = "Initialized"
         /\ DisableRadio(r).hw = "DISABLED"
         /\ DisableRadio(r).events \subseteq r.events \cup {"DISABLED"}
         /\ DisableRadio(r).inten = {} /\ DisableRadio(r).shorts = {}
         /\ DisableRadio(r).ppi = r.ppi \ {20, 21}
<1>1. [DisableAllInterrupts(r) EXCEPT !.shorts = {}] \in RadioType
  BY DEF DisableAllInterrupts, RadioType
<1>2. /\ [DisableAllInterrupts(r) EXCEPT !.shorts = {}].hw = r.hw
      /\ [DisableAllInterrupts(r) EXCEPT !.shorts = {}].events = r.events
      /\ [DisableAllInterrupts(r) EXCEPT !.shorts = {}].inten = {}
      /\ [DisableAllInterrupts(r) EXCEPT !.shorts = {}].shorts = {}
      /\ [DisableAllInterrupts(r) EXCEPT !.shorts = {}].ppi = r.ppi
  BY DEF DisableAllInterrupts, RadioType
<1>3. LET t == TaskDisable([DisableAllInterrupts(r) EXCEPT !.shorts = {}])
      IN  /\ t \in RadioType /\ t.hw = "DISABLED"
          /\ t.events \subseteq r.events \cup {"DISABLED"}
          /\ t.inten = {} /\ t.shorts = {} /\ t.ppi = r.ppi
  BY <1>1, <1>2, TaskDisableFields
<1>4. DisableRadio(r) \in RadioType
  BY DriverRoutinesType
<1>. QED  BY <1>3, <1>4 DEF DisableRadio, RadioType

(* A step that leaves every register the invariant reads, the handler's   *)
(* phase, its snapshot and the frame alone keeps BufferInv.               *)
LEMMA BufferFrame ==
  ASSUME TypeOK', StateHw, Armed, EventsHw, Phases,
         radio'.state = radio.state, radio'.hw = radio.hw,
         radio'.packetptr = radio.packetptr, radio'.shorts = radio.shorts,
         radio'.events = radio.events, radio'.inten = radio.inten,
         radio'.ppi = radio.ppi, radio'.cc0 = radio.cc0,
         pc' = pc, snap' = snap, rxFrame' = rxFrame,
         fault' = "none" => fault = "none"
  PROVE  BufferInv'
<1>1. StateHw'
  BY DEF StateHw
<1>2. Armed'
  BY DEF Armed
<1>3. EventsHw'
  BY DEF EventsHw
<1>4. Phases'
  BY DEF Phases
<1>. QED  BY <1>1, <1>2, <1>3, <1>4 DEF BufferInv

LEMMA PeripheralBufferInv ==
  ASSUME RadioHyp
  PROVE  BufferInv /\ Peripheral => BufferInv'
<1> SUFFICES ASSUME BufferInv, Peripheral PROVE BufferInv'
  OBVIOUS
<1>0. TypeOK'
  BY PeripheralTypeOK DEF BufferInv
<1>a. radio \in RadioType
  BY DEF BufferInv, TypeOK
<1>b. StateHw /\ Armed /\ EventsHw /\ Phases
  BY DEF BufferInv
<1>f. fault' = fault
  BY DEF Peripheral, HwRampUp, HwAddressMatch, HwBcMatch, HwRxEnd, HwTxEnd,
         HwDisableDone, HwCompare, TimerWrap
<1>2. CASE HwRampUp
  BY <1>b, <1>f, <1>0, <1>a, <1>2 DEF HwRampUp, BufferInv, StateHw, Armed, EventsHw, Phases,
                          RxActive, TxActive
<1>3. CASE HwAddressMatch
  <2>1. radio.state = "RX" /\ "ADDRESS" \in radio.inten /\ "END_DISABLE" \in radio.shorts
    BY <1>b, <1>a, <1>3 DEF HwAddressMatch, StateHw, RxActive, TxActive, RadioType,
                      RadioStates
  <2>2. radio.hw = "RX" /\ radio'.hw = "RXFRAME" /\ radio'.events = radio.events \cup {"ADDRESS"}
        /\ radio'.state = radio.state /\ radio'.inten = radio.inten
        /\ radio'.shorts = radio.shorts /\ radio'.packetptr = radio.packetptr
        /\ radio'.ppi = radio.ppi /\ radio'.cc0 = radio.cc0
        /\ UNCHANGED <<pc, snap, rxFrame>>
    BY <1>a, <1>3 DEF HwAddressMatch
  <2>3. StateHw'
    BY <1>b, <2>1, <2>2 DEF StateHw, RxActive, TxActive
  <2>4. Armed'
    BY <1>b, <2>1, <2>2 DEF Armed, TxActive
  <2>5. EventsHw'
    BY <1>b, <2>1, <2>2 DEF EventsHw, RxActive
  <2>6. Phases'
    BY <1>b, <1>f, <2>2 DEF Phases
  <2>. QED  BY <1>0, <2>3, <2>4, <2>5, <2>6 DEF BufferInv
<1>4. CASE HwBcMatch
  BY <1>b, <1>f, <1>0, <1>a, <1>4 DEF HwBcMatch, BufferInv, StateHw, Armed, EventsHw, Phases,
                          RxActive, TxActive
<1>5. CASE HwRxEnd
  BY <1>0, <1>a, <1>5 DEF HwRxEnd, RadioHyp, RxDisabled, TurnaroundPending,
                          BufferInv, StateHw, Armed, EventsHw, Phases, RxActive, TxActive
<1>6. CASE HwTxEnd
  BY <1>b, <1>f, <1>0, <1>a, <1>6 DEF HwTxEnd, BufferInv, TurnaroundPending, StateHw, Armed,
                          EventsHw, Phases, RxActive, TxActive
<1>7. CASE HwDisableDone
  BY <1>b, <1>f, <1>0, <1>a, <1>7 DEF HwDisableDone, BufferInv, Disabling, StateHw, Armed,
                          EventsHw, Phases, RxActive, TxActive
<1>8. CASE HwCompare
  <2>1. 20 \in radio.ppi \/ 21 \in radio.ppi =>
          "DISABLED" \notin radio.events /\ "END" \notin radio.events
    BY <1>b, <1>8 DEF HwCompare, Armed
  <2>2. radio.hw = "DISABLED" /\ 21 \in radio.ppi =>
          "ADDRESS" \notin radio.events /\ "ADDRESS" \in radio.inten /\ pc # "addrSpin"
    BY <1>b, <1>8 DEF HwCompare, Armed
  <2>3. pc = "txEndWait" => 20 \notin radio.ppi /\ 21 \notin radio.ppi
    BY <1>b, <1>f, <1>8 DEF HwCompare, Phases
  <2>4. 20 \in radio.ppi => radio.state = "TX" /\ radio.hw \in TxActive \cup {"DISABLED"}
    BY <1>b, <1>8 DEF HwCompare, Armed
  <2>5. 21 \in radio.ppi =>
          (radio.state = "RX" /\ "END_DISABLE" \in radio.shorts)
          \/ (radio.state = "TX" /\ radio.hw \in TxActive)
    BY <1>b, <1>8 DEF HwCompare, Armed
  <2> DEFINE t == IF 20 \in radio.ppi THEN TaskTxen(radio) ELSE radio
             u == IF 21 \in radio.ppi THEN TaskRxen(t) ELSE t
  <2>b. radio' = [u EXCEPT !.cc0 = "fired"] \/ radio' = [radio EXCEPT !.cc0 = "fired"]
    BY <1>8 DEF HwCompare
  <2>c. t \in RadioType /\ OnlyHw(t, radio)
        /\ t.hw = IF 20 \in radio.ppi /\ radio.hw = "DISABLED" THEN "TXRU" ELSE radio.hw
    <3>1. CASE 20 \in radio.ppi
      BY <1>a, <3>1, TaskFields, RegisterWritesType
    <3>2. CASE 20 \notin radio.ppi
      BY <1>a, <3>2 DEF OnlyHw
    <3>. QED  BY <3>1, <3>2
  <2>d. u \in RadioType /\ OnlyHw(u, radio)
        /\ u.hw = IF 21 \in radio.ppi /\ t.hw = "DISABLED" THEN "RXRU" ELSE t.hw
    <3>1. CASE 21 \in radio.ppi
      BY <2>c, <3>1, TaskFields, RegisterWritesType DEF OnlyHw
    <3>2. CASE 21 \notin radio.ppi
      BY <2>c, <3>2
    <3>. QED  BY <3>1, <3>2
  <2>6. /\ radio'.cc0 = "fired"
        /\ radio'.events = radio.events /\ radio'.state = radio.state
        /\ radio'.inten = radio.inten /\ radio'.shorts = radio.shorts
        /\ radio'.packetptr = radio.packetptr /\ radio'.ppi = radio.ppi
    BY <1>a, <2>b, <2>d DEF RadioType, OnlyHw
  <2>e. UNCHANGED <<pc, snap, rxFrame>>
    BY <1>8 DEF HwCompare
  <2>7. \/ radio'.hw = radio.hw
        \/ radio.hw = "DISABLED" /\ 20 \in radio.ppi /\ radio'.hw = "TXRU"
        \/ radio.hw = "DISABLED" /\ 21 \in radio.ppi /\ 20 \notin radio.ppi
           /\ radio'.hw = "RXRU"
    BY <1>a, <2>b, <2>c, <2>d DEF RadioType
  <2>8. StateHw'
    BY <1>b, <2>2, <2>4, <2>5, <2>6, <2>7, <2>e DEF StateHw, RxActive, TxActive
  <2>9. Armed'
    BY <1>b, <2>6 DEF Armed
  <2>10. EventsHw'
    BY <1>b, <2>1, <2>2, <2>4, <2>6, <2>7, <2>e DEF EventsHw, RxActive, TxActive
  <2>11. Phases'
    BY <1>b, <1>f, <2>1, <2>3, <2>4, <2>6, <2>7, <2>e DEF Phases
  <2>. QED  BY <1>0, <2>8, <2>9, <2>10, <2>11 DEF BufferInv
<1>9. CASE TimerWrap
  BY <1>9 DEF TimerWrap, RadioHyp, BufferInv, TypeOK
<1>. QED  BY <1>2, <1>3, <1>4, <1>5, <1>6, <1>7, <1>8, <1>9 DEF Peripheral

(* advertisement_done's answer, TX or GoToSleep, acted on by a handler    *)
(* phase that found the radio disabled outside RX and no PPI channel of    *)
(* T_IFS armed: tx() or nothing.  A frame's END still in the snapshot is   *)
(* allowed when the handler returns.                                       *)
LEMMA TxFromQuiet ==
  ASSUME BufferInv,
         radio.hw = "DISABLED", radio.state # "RX",
         ~(radio.cc0 = "armed" /\ (20 \in radio.ppi \/ 21 \in radio.ppi)),
         "END" \in snap => pc' = "idle",
         radio' = Tx(radio) \/ radio' = radio,
         pc' \in {"disabled", "end", "idle"}, snap' \subseteq snap, rxFrame' = rxFrame
  PROVE  StateHw' /\ Armed' /\ EventsHw' /\ Phases'
<1>a. radio \in RadioType
  BY DEF BufferInv, TypeOK
<1>b. StateHw /\ Armed /\ EventsHw /\ Phases
  BY DEF BufferInv
<1>1. "ADDRESS" \notin radio.events /\ "END" \notin radio.inten /\ "READY" \notin radio.inten
  BY <1>b DEF EventsHw, Phases
<1>2. "END" \in snap' => snap' = {"END"} /\ pc' = "idle"
  BY <1>b DEF Phases
<1>3. CASE radio' = radio
  BY <1>b, <1>1, <1>2, <1>3 DEF StateHw, Armed, EventsHw, Phases
<1>4. CASE radio' = Tx(radio)
  <2>1. /\ radio'.state = "TX" /\ radio'.packetptr = "TX" /\ radio'.hw = "TXRU"
        /\ radio'.events = radio.events \ {"READY", "END", "DISABLED"}
        /\ radio'.inten = radio.inten \cup {"DISABLED"}
        /\ radio'.ppi = radio.ppi /\ radio'.cc0 = radio.cc0
    BY <1>a, <1>4, TxFields
  <2>2. StateHw'
    BY <2>1 DEF StateHw, TxActive, RxActive
  <2>3. Armed'
    BY <2>1 DEF Armed, TxActive
  <2>4. EventsHw'
    BY <1>1, <2>1 DEF EventsHw, RxActive
  <2>5. Phases'
    BY <1>1, <1>2, <2>1 DEF Phases
  <2>. QED  BY <2>2, <2>3, <2>4, <2>5
<1>. QED  BY <1>3, <1>4

(* The handler's phases.  Each step starts from what the invariant says   *)
(* of the radio at that phase.                                             *)
LEMMA InterruptBufferInv ==
  ASSUME RadioHyp
  PROVE  BufferInv /\ Interrupt => BufferInv'
<1> SUFFICES ASSUME BufferInv, Interrupt PROVE BufferInv'
  OBVIOUS
<1>0. TypeOK'
  BY InterruptTypeOK DEF BufferInv
<1>a. radio \in RadioType /\ snap \subseteq Interrupts
  BY DEF BufferInv, TypeOK
<1>b. StateHw /\ Armed /\ EventsHw /\ Phases
  BY DEF BufferInv
<1>f. fault = "none"
  BY DEF Interrupt
<1>1. CASE IrqEnter
  <2>1. radio' = radio /\ snap' = radio.inten /\ pc' = "address" /\ rxFrame' = rxFrame
    BY <1>b, <1>f, <1>1 DEF IrqEnter, Phases
  <2>2. "END" \in radio.inten =>
          /\ radio.inten = {"END"} /\ radio.state = "RX"
          /\ "END" \in radio.events /\ radio.hw = "DISABLED"
    BY <1>a, <1>b, <1>f, <1>1 DEF IrqEnter, Pending, StateHw, EventsHw, Phases, RadioType,
                            RadioStates, RxActive, TxActive
  <2>3. StateHw' /\ EventsHw'
    BY <1>b, <2>1 DEF StateHw, EventsHw
  <2>4. Armed'
    BY <1>b, <2>1 DEF Armed
  <2>5. Phases'
    BY <1>b, <1>f, <2>1, <2>2 DEF Phases
  <2>. QED  BY <1>0, <2>3, <2>4, <2>5 DEF BufferInv
<1>2. CASE HandleAddressEvent
  <2>1. pc = "address" /\ "ADDRESS" \in snap /\ "ADDRESS" \in radio.events
    BY <1>2 DEF HandleAddressEvent, Fires
  <2>2. /\ radio.state = "RX" /\ radio.hw \in {"RXFRAME", "DISABLED"}
        /\ radio.inten = snap /\ radio.inten \subseteq {"ADDRESS", "DISABLED"}
        /\ "END" \notin snap
    <3>1. radio.state = "RX" /\ radio.hw \in {"RXFRAME", "DISABLED"}
      BY <1>b, <2>1 DEF EventsHw
    <3>2. radio.inten = snap /\ "END" \notin snap /\ "READY" \notin radio.inten
      BY <1>b, <2>1 DEF Phases
    <3>. QED  BY <1>a, <3>1, <3>2 DEF Interrupts
  <2>3. /\ radio'.state = radio.state /\ radio'.hw = radio.hw
        /\ radio'.packetptr = radio.packetptr /\ radio'.shorts = radio.shorts
        /\ radio'.ppi = radio.ppi /\ radio'.cc0 = radio.cc0
        /\ radio'.events = radio.events \ {"ADDRESS"}
        /\ radio'.inten = radio.inten \ {"DISABLED", "ADDRESS"}
        /\ pc' = "addrSpin" /\ UNCHANGED <<snap, rxFrame>>
    BY <1>a, <1>2 DEF HandleAddressEvent, ClearInterrupt, ClearEvents, RadioType
  <2>4. radio'.inten = {}
    BY <2>2, <2>3
  <2>5. StateHw'
    BY <1>b, <2>2, <2>3, <2>4 DEF StateHw
  <2>6. Armed'
    BY <1>b, <2>1, <2>3 DEF Armed
  <2>7. EventsHw'
    BY <1>b, <2>3 DEF EventsHw
  <2>8. Phases'
    BY <2>2, <2>3, <2>4 DEF Phases
  <2>. QED  BY <1>0, <2>5, <2>6, <2>7, <2>8 DEF BufferInv
<1>3. CASE SkipAddress
  BY <1>0, <1>b, <1>f, <1>3 DEF SkipAddress, BufferInv, StateHw, Armed, EventsHw, Phases
<1>4. CASE AddressSpinExit
  <2>1. /\ pc = "addrSpin" /\ radio.state = "RX" /\ radio.inten = {}
        /\ radio.packetptr = "RX"
        /\ radio.hw \in {"RXFRAME", "DISABLED"}
        /\ "ADDRESS" \notin radio.events /\ "END" \notin snap
        /\ ~(radio.cc0 = "armed" /\ 21 \in radio.ppi /\ radio.hw = "DISABLED")
        /\ ~(radio.cc0 = "armed" /\ 20 \in radio.ppi)
    BY <1>a, <1>b, <1>f, <1>4 DEF AddressSpinExit, StateHw, Armed, EventsHw, Phases,
                            RadioType, RxActive
  <2>2. CASE "BCMATCH" \notin radio.events
    <3>a. radio.hw = "DISABLED"
      BY <1>4, <2>2 DEF AddressSpinExit
    <3>b. /\ radio'.state = radio.state /\ radio'.hw = radio.hw
          /\ radio'.packetptr = radio.packetptr /\ radio'.shorts = {}
          /\ radio'.ppi = radio.ppi /\ radio'.cc0 = radio.cc0
          /\ radio'.events = radio.events /\ radio'.inten = {}
          /\ pc' = "disabled" /\ UNCHANGED <<snap, rxFrame>>
      BY <1>a, <1>4, <2>2 DEF AddressSpinExit, DisableAllInterrupts, RadioType
    <3>. QED  BY <1>0, <1>b, <1>f, <2>1, <3>a, <3>b DEF BufferInv, StateHw, Armed, EventsHw,
                                               Phases, RxActive
  <2>3. CASE "BCMATCH" \in radio.events /\ "rx" \notin clients
    <3>a. UNCHANGED <<radio, pc, snap, rxFrame>>
      BY <1>4, <2>3 DEF AddressSpinExit
    <3>. QED  BY <1>0, <1>b, <1>f, <3>a, BufferFrame
  <2>4. CASE "BCMATCH" \in radio.events /\ "rx" \in clients
    <3>a. PICK act \in ReadActions : ReceiveStartResult(act)
      BY <1>4, <2>4 DEF AddressSpinExit
    <3>b. CASE act \in {"ReadFrameAndStayRX", "ReadFrameAndMoveToTX"}
      <4>1. /\ radio'.state = radio.state /\ radio'.hw = radio.hw
            /\ radio'.packetptr = radio.packetptr /\ radio'.shorts = radio.shorts
            /\ radio'.ppi = radio.ppi /\ radio'.cc0 = radio.cc0
            /\ radio'.events = radio.events /\ radio'.inten = {"END"}
            /\ pc' = "disabled" /\ snap' = snap \ {"DISABLED"} /\ rxFrame' = "open"
        <5>1. \/ radio' = EnableInterrupt(radio, {"END"})
              \/ radio' = EnableInterrupt([radio EXCEPT !.transition = "MoveToTX"], {"END"})
          BY <3>a, <3>b DEF ReceiveStartResult
        <5>2. pc' = "disabled" /\ snap' = snap \ {"DISABLED"} /\ rxFrame' = "open"
          BY <3>a, <3>b DEF ReceiveStartResult
        <5>3. CASE radio' = EnableInterrupt(radio, {"END"})
          BY <1>a, <2>1, <5>2, <5>3 DEF EnableInterrupt, RadioType
        <5>4. CASE radio' = EnableInterrupt([radio EXCEPT !.transition = "MoveToTX"], {"END"})
          BY <1>a, <2>1, <5>2, <5>4 DEF EnableInterrupt, RadioType
        <5>. QED  BY <5>1, <5>3, <5>4
      <4>. QED  BY <1>0, <1>b, <1>f, <2>1, <4>1 DEF BufferInv, StateHw, Armed, EventsHw,
                                             Phases, RxActive
    <3>c. CASE act = "SkipFrame"
      <4>1. radio' = DisableRadio(radio) /\ pc' = "skipWait" /\ UNCHANGED <<snap, rxFrame>>
        BY <3>a, <3>c DEF ReceiveStartResult
      <4>2. /\ radio'.state = "Initialized" /\ radio'.hw = "DISABLED"
            /\ radio'.events \subseteq radio.events \cup {"DISABLED"}
            /\ radio'.inten = {} /\ radio'.shorts = {}
            /\ radio'.ppi = radio.ppi \ {20, 21}
        BY <1>a, <2>1, <4>1, DisableRadioFields DEF RadioHyp
      <4>. QED  BY <1>0, <1>b, <1>f, <2>1, <4>1, <4>2 DEF BufferInv, StateHw, Armed,
                                                  EventsHw, Phases, RxActive
    <3>. QED  BY <3>b, <3>c DEF ReadActions
  <2>. QED  BY <2>2, <2>3, <2>4
<1>c. AdvertisementDone \subseteq {"TX", "GoToSleep"}
  BY DEF AdvertisementDone, RadioHyp
<1>5. CASE SkipFrameDone
  <2>1. /\ radio.state = "Initialized" /\ radio.hw = "DISABLED"
        /\ 20 \notin radio.ppi /\ 21 \notin radio.ppi /\ "END" \notin snap
    BY <1>b, <1>f, <1>5 DEF SkipFrameDone, Settled, Disabling, StateHw, Phases
  <2>2. radio' = Tx(radio) \/ radio' = radio
    BY <1>c, <1>5 DEF SkipFrameDone
  <2>3. pc' = "disabled" /\ snap' \subseteq snap /\ rxFrame' = rxFrame
    BY <1>5 DEF SkipFrameDone
  <2>. QED  BY <1>0, <2>1, <2>2, <2>3, TxFromQuiet DEF BufferInv
<1>6. CASE HandleDisabled
  <2>1. /\ pc = "disabled" /\ "DISABLED" \in snap /\ "DISABLED" \in radio.events
        /\ radio.hw = "DISABLED" /\ "END" \notin snap
        /\ UNCHANGED <<snap, rxFrame>>
    BY <1>b, <1>f, <1>6 DEF HandleDisabled, HandleTxEndEvent, Fires, EventsHw, Phases
  <2>2. CASE radio.state = "RX"
    <3>1. radio' = ClearEvents(radio, {"DISABLED"}) /\ pc' = "end"
      BY <1>6, <2>2 DEF HandleDisabled, HandleTxEndEvent
    <3>2. /\ radio'.state = radio.state /\ radio'.hw = radio.hw
          /\ radio'.packetptr = radio.packetptr /\ radio'.shorts = radio.shorts
          /\ radio'.ppi = radio.ppi /\ radio'.cc0 = radio.cc0
          /\ radio'.events = radio.events \ {"DISABLED"} /\ radio'.inten = radio.inten
      BY <1>a, <3>1 DEF ClearEvents, RadioType
    <3>. QED  BY <1>0, <1>b, <1>f, <2>1, <3>1, <3>2 DEF BufferInv, StateHw, Armed, EventsHw,
                                                Phases
  <2>3. CASE radio.state = "Uninitialized"
    <3>1. UNCHANGED <<radio, pc>>
      BY <1>6, <2>3 DEF HandleDisabled, HandleTxEndEvent
    <3>. QED  BY <1>0, <1>b, <1>f, <2>1, <3>1 DEF BufferInv, StateHw, Armed, EventsHw, Phases
  <2>4. CASE radio.state \notin {"RX", "Uninitialized"}
    <3> DEFINE r == ClearEvents(ClearInterrupt(radio, {"DISABLED"}), {"DISABLED", "END"})
    <3>1. \/ radio.transition = "MoveToRX" /\ radio' = ScheduleRxAfterTifs(SetupRx(r))
             /\ pc' = "end"
          \/ radio.transition = "MoveToTX" /\ radio' = r /\ pc' = "txEndWait"
          \/ radio.transition = "None" /\ radio' = r /\ pc' = "end"
      BY <1>6, <2>4 DEF HandleDisabled, HandleTxEndEvent
    <3>2. /\ r \in RadioType
          /\ r.state = radio.state /\ r.hw = radio.hw
          /\ r.packetptr = radio.packetptr /\ r.shorts = radio.shorts
          /\ r.ppi = radio.ppi /\ r.cc0 = radio.cc0
          /\ r.events = radio.events \ {"DISABLED", "END"}
          /\ r.inten = radio.inten \ {"DISABLED"}
      BY <1>a DEF ClearEvents, ClearInterrupt, RadioType
    <3>3. /\ "END" \notin radio.inten /\ "READY" \notin radio.inten
          /\ "ADDRESS" \notin radio.events
          /\ ~(radio.cc0 = "armed" /\ (20 \in radio.ppi \/ 21 \in radio.ppi))
      BY <1>b, <1>f, <2>1, <2>4 DEF Armed, EventsHw, Phases
    <3>4. CASE radio' = ScheduleRxAfterTifs(SetupRx(r)) /\ pc' = "end"
      <4>1. /\ radio'.state = "RX" /\ radio'.packetptr = "RX" /\ radio'.hw = "DISABLED"
            /\ radio'.events = r.events \ {"ADDRESS", "BCMATCH", "CRCOK"}
            /\ radio'.inten = r.inten \cup {"ADDRESS"}
            /\ radio'.shorts = {"END_DISABLE", "READY_START", "ADDRESS_BCSTART"}
            /\ radio'.ppi = (radio.ppi \ {20}) \cup {21} /\ radio'.cc0 = "armed"
        BY <2>1, <3>2, <3>4, SetupRxFields DEF ScheduleRxAfterTifs, RadioType
      <4>2. StateHw' /\ EventsHw'
        BY <3>2, <3>3, <4>1 DEF StateHw, EventsHw, RxActive
      <4>3. Armed'
        BY <3>2, <3>4, <4>1 DEF Armed
      <4>4. Phases'
        BY <1>b, <1>f, <2>1, <3>2, <3>3, <3>4, <4>1 DEF Phases
      <4>. QED  BY <1>0, <4>2, <4>3, <4>4 DEF BufferInv
    <3>5. CASE radio' = r
      <4>1. pc' \in {"txEndWait", "end"}
        BY <3>1, <3>5
      <4>. QED  BY <1>0, <1>b, <1>f, <2>1, <2>4, <3>2, <3>3, <3>5, <4>1
                 DEF BufferInv, StateHw, Armed, EventsHw, Phases
    <3>. QED  BY <3>1, <3>4, <3>5
  <2>. QED  BY <2>2, <2>3, <2>4
<1>7. CASE SkipDisabled
  <2>1. /\ radio' = radio /\ snap' = snap /\ rxFrame' = rxFrame
        /\ pc = "disabled" /\ pc' = "end"
    BY <1>7 DEF SkipDisabled
  <2>2. StateHw' /\ Armed' /\ EventsHw'
    BY <1>b, <2>1 DEF StateHw, Armed, EventsHw
  <2>3. Phases'
    BY <1>b, <1>f, <2>1 DEF Phases
  <2>. QED  BY <1>0, <2>2, <2>3 DEF BufferInv
<1>8. CASE TxEndMoveToTXDone
  <2>1. /\ radio.hw = "DISABLED" /\ radio.state # "RX" /\ "END" \notin snap
        /\ ~(radio.cc0 = "armed" /\ (20 \in radio.ppi \/ 21 \in radio.ppi))
    BY <1>b, <1>f, <1>8 DEF TxEndMoveToTXDone, Phases
  <2>2. radio' = Tx(radio) \/ radio' = radio
    BY <1>c, <1>8 DEF TxEndMoveToTXDone
  <2>3. pc' = "end" /\ snap' \subseteq snap /\ rxFrame' = rxFrame
    BY <1>8 DEF TxEndMoveToTXDone
  <2>. QED  BY <1>0, <2>1, <2>2, <2>3, TxFromQuiet DEF BufferInv
<1>9. CASE HandleRxEnd
  <2>1. /\ pc = "end" /\ snap = {"END"} /\ "END" \in radio.events
        /\ radio.state = "RX" /\ radio.hw = "DISABLED" /\ radio.inten = {"END"}
        /\ "ADDRESS" \notin radio.events
        /\ UNCHANGED snap
    BY <1>b, <1>f, <1>9 DEF HandleRxEnd, Fires, EventsHw, Phases
  <2> DEFINE r == [ClearInterrupt(ClearEvents(radio, {"END"}), {"END"})
                     EXCEPT !.ppi = @ \ {21}]
  <2>2. /\ r \in RadioType
        /\ r.state = "RX" /\ r.hw = "DISABLED" /\ r.inten = {}
        /\ r.events = radio.events \ {"END"} /\ r.ppi = radio.ppi \ {21}
        /\ r.cc0 = radio.cc0 /\ r.packetptr = radio.packetptr
    BY <1>a, <2>1 DEF ClearEvents, ClearInterrupt, RadioType
  <2>3. CASE "rx" \notin clients
    <3>1. /\ radio' = r /\ pc' = pc /\ rxFrame' = rxFrame /\ snap' = snap
          /\ fault' = "NoRxClient"
      BY <1>9, <2>3 DEF HandleRxEnd
    <3>2. StateHw' /\ EventsHw'
      BY <1>b, <2>1, <2>2, <3>1 DEF StateHw, EventsHw, RxActive, TxActive
    <3>3. Armed'
      BY <1>b, <2>1, <2>2, <3>1 DEF Armed
    <3>4. Phases'
      BY <2>1, <2>2, <3>1 DEF Phases
    <3>. QED  BY <1>0, <3>2, <3>3, <3>4 DEF BufferInv
  <2>4. CASE radio' = ScheduleTxAfterTifs(SetupTx(r)) /\ pc' = "idle"
    <3>1. /\ radio'.state = "TX" /\ radio'.packetptr = "TX" /\ radio'.hw = "DISABLED"
          /\ radio'.events = r.events \ {"READY", "END", "DISABLED"}
          /\ radio'.inten = {"DISABLED"}
          /\ radio'.ppi = (radio.ppi \ {21}) \cup {20} /\ radio'.cc0 = "armed"
      BY <2>2, <2>4, SetupTxFields DEF ScheduleTxAfterTifs, RadioType
    <3>2. StateHw' /\ EventsHw'
      BY <2>1, <2>2, <3>1 DEF StateHw, EventsHw, TxActive, RxActive
    <3>3. Armed'
      BY <2>2, <3>1 DEF Armed, TxActive
    <3>4. Phases'
      BY <2>1, <2>4, <3>1 DEF Phases
    <3>. QED  BY <1>0, <3>2, <3>3, <3>4 DEF BufferInv
  <2>5. CASE radio' = DisableRadio(r) /\ pc' \in {"rxEndRxWait", "rxEndNoneWait"}
    <3>1. /\ radio'.state = "Initialized" /\ radio'.hw = "DISABLED"
          /\ radio'.events \subseteq r.events \cup {"DISABLED"}
          /\ radio'.inten = {} /\ radio'.ppi = r.ppi \ {20, 21}
      BY <2>2, <2>5, DisableRadioFields DEF RadioHyp
    <3>. QED  BY <1>0, <2>1, <2>2, <2>5, <3>1
               DEF BufferInv, StateHw, Armed, EventsHw, Phases, RxActive
  <2>. QED  BY <2>3, <2>4, <2>5, <1>9 DEF HandleRxEnd
<1>10. CASE SkipEnd
  <2>1. /\ radio' = radio /\ snap' = snap /\ rxFrame' = rxFrame
        /\ pc = "end" /\ pc' = "idle"
    BY <1>10 DEF SkipEnd
  <2>2. StateHw' /\ Armed' /\ EventsHw'
    BY <1>b, <2>1 DEF StateHw, Armed, EventsHw
  <2>3. Phases'
    BY <1>b, <1>f, <2>1 DEF Phases
  <2>. QED  BY <1>0, <2>2, <2>3 DEF BufferInv
<1>11. CASE RxEndMoveToRXDone
  <2>1. /\ radio.state = "Initialized" /\ radio.hw = "DISABLED"
        /\ 20 \notin radio.ppi /\ 21 \notin radio.ppi
        /\ "ADDRESS" \notin radio.events /\ "END" \notin radio.inten
    BY <1>b, <1>f, <1>11 DEF RxEndMoveToRXDone, Settled, Disabling, StateHw, EventsHw, Phases
  <2>2. /\ SetupRx(radio) \in RadioType /\ SetupRx(radio).hw = "DISABLED"
        /\ SetupRx(radio).ppi = radio.ppi \ {20} /\ SetupRx(radio).cc0 = radio.cc0
    BY <1>a, <2>1, SetupRxFields
  <2>3. /\ radio'.state = "RX" /\ radio'.packetptr = "RX" /\ radio'.hw = "RXRU"
        /\ radio'.events \subseteq radio.events \ {"END", "DISABLED", "ADDRESS"}
        /\ radio'.inten = {"ADDRESS"}
        /\ radio'.shorts = {"END_DISABLE", "READY_START", "ADDRESS_BCSTART"}
        /\ radio'.ppi = radio.ppi \ {20} /\ radio'.cc0 = radio.cc0
    <3>1. radio' = Rx(SetupRx(radio))
      BY <1>11 DEF RxEndMoveToRXDone
    <3>2. SetupRx(radio).events \subseteq radio.events
      BY <1>a, SetupRxFields
    <3>. QED  BY <2>2, <3>1, <3>2, RxFields
  <2>4. pc' = "idle" /\ UNCHANGED <<snap, rxFrame>>
    BY <1>11 DEF RxEndMoveToRXDone
  <2>. QED  BY <1>0, <1>b, <1>f, <2>1, <2>3, <2>4
             DEF BufferInv, StateHw, Armed, EventsHw, Phases, RxActive
<1>12. CASE RxEndNoneDone
  <2>1. /\ radio.state = "Initialized" /\ radio.hw = "DISABLED"
        /\ 20 \notin radio.ppi /\ 21 \notin radio.ppi
    BY <1>b, <1>f, <1>12 DEF RxEndNoneDone, Settled, Disabling, StateHw, Phases
  <2>2. radio' = Tx(radio) \/ radio' = radio
    BY <1>c, <1>12 DEF RxEndNoneDone
  <2>3. pc' = "idle" /\ snap' \subseteq snap /\ rxFrame' = rxFrame
    BY <1>12 DEF RxEndNoneDone
  <2>. QED  BY <1>0, <2>1, <2>2, <2>3, TxFromQuiet DEF BufferInv
<1>. QED  BY <1>1, <1>2, <1>3, <1>4, <1>5, <1>6, <1>7, <1>8, <1>9, <1>10, <1>11, <1>12
          DEF Interrupt

(* The link layer's calls, made from a quiet radio (QuiescentCalls).      *)
LEMMA LinkLayerBufferInv ==
  ASSUME RadioHyp
  PROVE  BufferInv /\ LinkLayer => BufferInv'
<1> SUFFICES ASSUME BufferInv, LinkLayer PROVE BufferInv'
  OBVIOUS
<1>0. TypeOK'
  BY LinkLayerTypeOK DEF BufferInv
<1>a. radio \in RadioType
  BY DEF BufferInv, TypeOK
<1>b. StateHw /\ Armed /\ EventsHw /\ Phases
  BY DEF BufferInv
<1>f. fault = "none"
  BY DEF LinkLayer, TransmitAdvertisement, ReceiveAdvertisement, SetTxPower,
         SetChannel, SetTransitionState, SetClient, Thread
<1>c. Thread /\ Quiet => /\ radio.hw = "DISABLED" /\ pc = "idle"
                         /\ "ADDRESS" \notin radio.events /\ "END" \notin radio.inten
  BY <1>b, <1>f DEF RadioHyp, Thread, Quiet, Pending, EventsHw, Phases
<1>d. /\ BleInitialize(radio) \in RadioType
      /\ BleInitialize(radio).hw = radio.hw
      /\ BleInitialize(radio).events = radio.events
      /\ BleInitialize(radio).inten = radio.inten
      /\ BleInitialize(radio).ppi = radio.ppi
      /\ BleInitialize(radio).cc0 = radio.cc0
  BY <1>a, DriverRoutinesType DEF BleInitialize
<1>1. CASE TransmitAdvertisement
  <2>1. radio.hw = "DISABLED" /\ "ADDRESS" \notin radio.events /\ pc = "idle"
        /\ "END" \notin radio.inten /\ UNCHANGED <<pc, snap, rxFrame>>
    BY <1>c, <1>1 DEF TransmitAdvertisement
  <2>2. /\ radio'.state = "TX" /\ radio'.packetptr = "TX" /\ radio'.hw = "TXRU"
        /\ radio'.events = radio.events \ {"READY", "END", "DISABLED"}
        /\ radio'.inten = radio.inten \cup {"DISABLED"}
        /\ radio'.ppi = radio.ppi /\ radio'.cc0 = radio.cc0
    BY <1>1, <1>d, <2>1, TxFields DEF TransmitAdvertisement
  <2>3. StateHw' /\ EventsHw'
    BY <2>1, <2>2 DEF StateHw, EventsHw, TxActive, RxActive
  <2>4. Armed'
    BY <2>2 DEF Armed, TxActive
  <2>5. Phases'
    BY <1>b, <1>f, <2>1, <2>2 DEF Phases
  <2>. QED  BY <1>0, <2>3, <2>4, <2>5 DEF BufferInv
<1>2. CASE ReceiveAdvertisement
  <2>1. radio.hw = "DISABLED" /\ UNCHANGED <<pc, snap, rxFrame>> /\ pc = "idle"
    BY <1>c, <1>2 DEF ReceiveAdvertisement
  <2>2. /\ Rx(BleInitialize(radio)) \in RadioType
        /\ Rx(BleInitialize(radio)).state = "RX"
        /\ Rx(BleInitialize(radio)).packetptr = "RX"
        /\ Rx(BleInitialize(radio)).hw = "RXRU"
        /\ Rx(BleInitialize(radio)).events \subseteq
             radio.events \ {"END", "DISABLED", "ADDRESS"}
        /\ Rx(BleInitialize(radio)).inten = {"ADDRESS"}
        /\ Rx(BleInitialize(radio)).shorts =
             {"END_DISABLE", "READY_START", "ADDRESS_BCSTART"}
        /\ Rx(BleInitialize(radio)).ppi = radio.ppi \ {20}
        /\ Rx(BleInitialize(radio)).cc0 = radio.cc0
    BY <1>d, <2>1, RxFields
  <2>3. /\ radio'.state = "RX" /\ radio'.packetptr = "RX" /\ radio'.hw = "RXRU"
        /\ radio'.events \subseteq radio.events \ {"END", "DISABLED", "ADDRESS"}
        /\ radio'.inten = {"ADDRESS"}
        /\ radio'.shorts = {"END_DISABLE", "READY_START", "ADDRESS_BCSTART"}
        /\ radio'.ppi = radio.ppi \ {20} /\ radio'.cc0 = radio.cc0
    BY <1>2, <2>2 DEF ReceiveAdvertisement, EnableInterrupt, RadioType
  <2>4. StateHw' /\ EventsHw'
    BY <2>3 DEF StateHw, EventsHw, RxActive
  <2>5. Armed'
    BY <2>3 DEF Armed
  <2>6. Phases'
    BY <1>b, <1>f, <2>1, <2>3 DEF Phases
  <2>. QED  BY <1>0, <2>4, <2>5, <2>6 DEF BufferInv
<1>3. CASE \/ \E p \in TxPowerInputs : SetTxPower(p)
           \/ \E c \in Channels : SetChannel(c)
           \/ \E k \in ClientKinds : SetClient(k)
  <2>1. UNCHANGED <<radio, pc, snap, rxFrame>>
    BY <1>3 DEF SetTxPower, SetChannel, SetClient
  <2>. QED  BY <1>0, <1>b, <1>f, <2>1, BufferFrame
<1>4. CASE \E t \in PhyTransitions : SetTransitionState(t)
  <2>1. /\ radio'.state = radio.state /\ radio'.hw = radio.hw
        /\ radio'.packetptr = radio.packetptr /\ radio'.shorts = radio.shorts
        /\ radio'.events = radio.events /\ radio'.inten = radio.inten
        /\ radio'.ppi = radio.ppi /\ radio'.cc0 = radio.cc0
        /\ UNCHANGED <<pc, snap, rxFrame>>
    BY <1>a, <1>4 DEF SetTransitionState, RadioType
  <2>. QED  BY <1>0, <1>b, <1>f, <2>1, BufferFrame
<1>. QED  BY <1>1, <1>2, <1>3, <1>4 DEF LinkLayer

LEMMA InitBufferInv == Init => BufferInv
<1> SUFFICES ASSUME Init PROVE BufferInv
  OBVIOUS
<1>1. /\ radio.state = "Uninitialized" /\ radio.hw = "DISABLED"
      /\ radio.events = {} /\ radio.inten = {} /\ radio.ppi = {}
      /\ radio.cc0 = "unset" /\ pc = "idle" /\ snap = {}
  BY DEF Init
<1>2. StateHw /\ Armed /\ EventsHw
  BY <1>1 DEF StateHw, Armed, EventsHw, RxActive, TxActive
<1>3. Phases
  BY <1>1 DEF Phases
<1>. QED  BY <1>2, <1>3, InitTypeOK DEF BufferInv

LEMMA NextBufferInv ==
  ASSUME RadioHyp
  PROVE  BufferInv /\ [Next]_vars => BufferInv'
<1> SUFFICES ASSUME BufferInv, [Next]_vars PROVE BufferInv'
  OBVIOUS
<1>1. CASE Peripheral      BY <1>1, PeripheralBufferInv
<1>2. CASE Interrupt       BY <1>2, InterruptBufferInv
<1>3. CASE LinkLayer       BY <1>3, LinkLayerBufferInv
<1>4. CASE Halted \/ UNCHANGED vars
  <2>1. UNCHANGED vars
    BY <1>4 DEF Halted
  <2>2. TypeOK'
    BY NextTypeOK DEF BufferInv
  <2>3. /\ radio' = radio /\ pc' = pc /\ snap' = snap /\ rxFrame' = rxFrame
        /\ fault' = fault
    BY <2>1 DEF vars
  <2>. QED  BY <2>2, <2>3, BufferFrame DEF BufferInv
<1>. QED  BY <1>1, <1>2, <1>3, <1>4 DEF Next

(* DMA ownership (BufferDiscipline, checked by radio_quiescent): whenever  *)
(* the transmitter is active the EasyDMA pointer is the TX buffer and the  *)
(* driver is in TX, and whenever the receiver is active the pointer is the *)
(* RX buffer and the driver is in RX -- for every TX power and channel     *)
(* set, as long as the link layer calls only on a quiet radio, TIMER0      *)
(* never wraps onto a stale T_IFS compare, the receiver's disable is       *)
(* immediate and advertisement_done never answers RespondAfterTifs         *)
(* (RadioHyp).  The first is the caller's discipline of spec sections 3  *)
(* and 5; radio_stale_ppi_wrap and radio_rx_disable_lag break the property *)
(* without the second and the third, and RespondAfterTifs arms TXEN on a   *)
(* radio that setup_tx never prepared (the path of                         *)
(* radio_respond_after_tifs).                                              *)
THEOREM BufferDisciplineHolds ==
  ASSUME RadioHyp
  PROVE  Spec => []BufferDiscipline
<1>1. Init => BufferInv
  BY InitBufferInv
<1>2. BufferInv /\ [Next]_vars => BufferInv'
  BY NextBufferInv
<1>3. BufferInv => BufferDiscipline
  BY DEF BufferInv, StateHw, BufferDiscipline, TxActive, RxActive, TypeOK, RadioType,
         RadioStates
<1>. QED  BY <1>1, <1>2, <1>3, PTL DEF Spec

-----------------------------------------------------------------------------
(* The RxClient contract.  Only handle_rx_end_event closes an accepted     *)
(* frame, and only receive_start's acceptance enables the END interrupt,   *)
(* so an END the handler snapshotted belongs to an open frame.             *)
EndInv ==
  /\ "END" \in radio.inten => rxFrame = "open"
  /\ "END" \in snap /\ pc \notin {"idle", "rxEndRxWait", "rxEndNoneWait"} =>
       rxFrame = "open"

ReceiveInv == TypeOK /\ EndInv

(* Which interrupts each routine leaves enabled, for any register image.  *)
LEMMA RoutineInten ==
  ASSUME NEW r \in RadioType
  PROVE  /\ DisableRadio(r).inten = {}
         /\ ScheduleTxAfterTifs(r).inten = r.inten
         /\ ScheduleRxAfterTifs(r).inten = r.inten
         /\ BleInitialize(r).inten = r.inten
<1>1. [DisableAllInterrupts(r) EXCEPT !.shorts = {}] \in RadioType
      /\ [DisableAllInterrupts(r) EXCEPT !.shorts = {}].inten = {}
  BY DEF DisableAllInterrupts, RadioType
<1>2. ASSUME NEW d \in RadioType PROVE TaskDisable(d).inten = d.inten
  <2>1. CASE d.hw \in RxActive
    BY <2>1 DEF TaskDisable, RxDisabled, RadioType, RxActive, TxActive
  <2>2. CASE d.hw \in TxActive
    BY <2>2 DEF TaskDisable, RadioType, RxActive, TxActive
  <2>3. CASE d.hw \notin RxActive \cup TxActive
    BY <2>3 DEF TaskDisable
  <2>. QED  BY <2>1, <2>2, <2>3
<1>3. TaskDisable([DisableAllInterrupts(r) EXCEPT !.shorts = {}]) \in RadioType
  BY <1>1, RegisterWritesType
<1>4. DisableRadio(r).inten = {}
  BY <1>1, <1>2, <1>3 DEF DisableRadio, RadioType
<1>. QED  BY <1>4 DEF ScheduleTxAfterTifs, ScheduleRxAfterTifs, BleInitialize, RadioType

(* The peripheral never touches INTEN or the handler's state.            *)
LEMMA PeripheralInten ==
  ASSUME TypeOK, Peripheral
  PROVE  radio'.inten = radio.inten /\ UNCHANGED <<pc, snap, rxFrame>>
<1>a. radio \in RadioType
  BY DEF TypeOK
<1>1. UNCHANGED <<pc, snap, rxFrame>>
  BY DEF Peripheral, HwRampUp, HwAddressMatch, HwBcMatch, HwRxEnd, HwTxEnd,
         HwDisableDone, HwCompare, TimerWrap
<1>2. CASE HwRampUp \/ HwAddressMatch \/ HwBcMatch \/ HwTxEnd \/ HwDisableDone
           \/ TimerWrap
  BY <1>a, <1>2 DEF HwRampUp, HwAddressMatch, HwBcMatch, HwTxEnd, HwDisableDone,
                    TimerWrap, RadioType
<1>3. CASE HwRxEnd
  <2>1. PICK crcOk \in BOOLEAN :
          LET r == [radio EXCEPT
                      !.events = @ \cup {"END"} \cup (IF crcOk THEN {"CRCOK"} ELSE {}),
                      !.hw = "RXIDLE", !.bcc = "off"]
          IN radio' = IF "END_DISABLE" \in radio.shorts THEN RxDisabled(r) ELSE r
    BY <1>3 DEF HwRxEnd
  <2> DEFINE r == [radio EXCEPT
                     !.events = @ \cup {"END"} \cup (IF crcOk THEN {"CRCOK"} ELSE {}),
                     !.hw = "RXIDLE", !.bcc = "off"]
  <2>2. r \in RadioType /\ r.inten = radio.inten
    BY <1>a DEF RadioType, Events, HwStates
  <2>3. RxDisabled(r).inten = r.inten
    BY <2>2 DEF RxDisabled, RadioType
  <2>. QED  BY <1>1, <2>1, <2>2, <2>3
<1>4. CASE HwCompare
  <2> DEFINE t == IF 20 \in radio.ppi THEN TaskTxen(radio) ELSE radio
             u == IF 21 \in radio.ppi THEN TaskRxen(t) ELSE t
  <2>1. radio' = [u EXCEPT !.cc0 = "fired"] \/ radio' = [radio EXCEPT !.cc0 = "fired"]
    BY <1>4 DEF HwCompare
  <2>2. t \in RadioType /\ t.inten = radio.inten
    BY <1>a, TaskFields, RegisterWritesType DEF OnlyHw
  <2>3. u \in RadioType /\ u.inten = radio.inten
    BY <2>2, TaskFields, RegisterWritesType DEF OnlyHw
  <2>4. [u EXCEPT !.cc0 = "fired"].inten = u.inten
    BY <2>3 DEF RadioType
  <2>5. [radio EXCEPT !.cc0 = "fired"].inten = radio.inten
    BY <1>a DEF RadioType
  <2>. QED  BY <1>1, <2>1, <2>3, <2>4, <2>5
<1>. QED  BY <1>1, <1>2, <1>3, <1>4 DEF Peripheral

(* A step that enables no END, keeps the frame history, only shrinks the  *)
(* snapshot and does not leave the handler's idle or receive-end phases    *)
(* keeps EndInv.                                                           *)
LEMMA EndFrame ==
  ASSUME EndInv,
         "END" \in radio'.inten => "END" \in radio.inten,
         rxFrame' = rxFrame, snap' \subseteq snap,
         pc' \notin {"idle", "rxEndRxWait", "rxEndNoneWait"} =>
           pc \notin {"idle", "rxEndRxWait", "rxEndNoneWait"}
  PROVE  EndInv'
BY DEF EndInv

LEMMA NextReceiveInv == ReceiveInv /\ [Next]_vars => ReceiveInv'
<1> SUFFICES ASSUME TypeOK, EndInv, [Next]_vars PROVE EndInv'
  BY NextTypeOK DEF ReceiveInv
<1>a. radio \in RadioType
  BY DEF TypeOK
<1> DEFINE Done == {"idle", "rxEndRxWait", "rxEndNoneWait"}
<1>1. CASE Peripheral
  BY <1>1, PeripheralInten, EndFrame
<1>2. CASE IrqEnter
  <2>1. /\ "END" \in radio'.inten => "END" \in radio.inten
        /\ snap' = radio.inten /\ rxFrame' = rxFrame
    BY <1>a, <1>2 DEF IrqEnter, ClearInterrupt, RadioType
  <2>. QED  BY <2>1 DEF EndInv
<1>3. CASE HandleAddressEvent
  <2>1. /\ radio'.inten = radio.inten \ {"DISABLED", "ADDRESS"}
        /\ rxFrame' = rxFrame /\ snap' = snap /\ pc = "address" /\ pc' = "addrSpin"
    BY <1>a, <1>3 DEF HandleAddressEvent, ClearInterrupt, ClearEvents, RadioType
  <2>. QED  BY <2>1, EndFrame
<1>3b. CASE SkipAddress \/ SkipDisabled \/ SkipEnd
  <2>1. /\ radio' = radio /\ rxFrame' = rxFrame /\ snap' = snap
        /\ pc' \notin Done => pc \notin Done
    BY <1>3b DEF SkipAddress, SkipDisabled, SkipEnd
  <2>. QED  BY <2>1, EndFrame
<1>4. CASE AddressSpinExit
  <2>1. pc = "addrSpin" /\ pc \notin Done
    BY <1>4 DEF AddressSpinExit
  <2>2. CASE "BCMATCH" \notin radio.events
    <3>1. /\ radio'.inten = {} /\ rxFrame' = rxFrame /\ snap' = snap
          /\ pc' = "disabled"
      BY <1>a, <1>4, <2>2 DEF AddressSpinExit, DisableAllInterrupts, RadioType
    <3>. QED  BY <2>1, <3>1, EndFrame
  <2>3. CASE "BCMATCH" \in radio.events /\ "rx" \notin clients
    <3>1. radio' = radio /\ pc' = pc /\ snap' = snap /\ rxFrame' = rxFrame
      BY <1>4, <2>3 DEF AddressSpinExit
    <3>. QED  BY <3>1, EndFrame
  <2>4. CASE "BCMATCH" \in radio.events /\ "rx" \in clients
    <3>1. PICK act \in ReadActions : ReceiveStartResult(act)
      BY <1>4, <2>4 DEF AddressSpinExit
    <3>2. CASE act \in {"ReadFrameAndStayRX", "ReadFrameAndMoveToTX"}
      <4>1. rxFrame' = "open"
        BY <3>1, <3>2 DEF ReceiveStartResult
      <4>. QED  BY <4>1 DEF EndInv
    <3>3. CASE act = "SkipFrame"
      <4>1. /\ radio' = DisableRadio(radio) /\ pc' = "skipWait"
            /\ snap' = snap /\ rxFrame' = rxFrame
        BY <3>1, <3>3 DEF ReceiveStartResult
      <4>2. radio'.inten = {}
        BY <1>a, <4>1, RoutineInten
      <4>. QED  BY <2>1, <4>1, <4>2, EndFrame
    <3>. QED  BY <3>2, <3>3 DEF ReadActions
  <2>. QED  BY <2>2, <2>3, <2>4
<1>5. CASE SkipFrameDone \/ TxEndMoveToTXDone
  <2>1. /\ radio' \in {Tx(radio), radio}
        /\ rxFrame' = rxFrame /\ snap' \subseteq snap
        /\ pc \in {"skipWait", "txEndWait"}
    BY <1>5 DEF SkipFrameDone, TxEndMoveToTXDone
  <2>2. "END" \in radio'.inten => "END" \in radio.inten
    BY <1>a, <2>1, TxFields
  <2>. QED  BY <2>1, <2>2, EndFrame
<1>5b. CASE RxEndNoneDone
  <2>1. /\ radio' \in {Tx(radio), ScheduleTxAfterTifs(radio), radio}
        /\ rxFrame' = rxFrame /\ snap' = snap /\ pc' = "idle"
    BY <1>5b, ConstAssumption DEF RxEndNoneDone, AdvertisementDone
  <2>2. "END" \in radio'.inten => "END" \in radio.inten
    BY <1>a, <2>1, TxFields, RoutineInten
  <2>. QED  BY <2>1, <2>2, EndFrame
<1>6. CASE HandleDisabled
  <2>1. pc = "disabled" /\ pc' \in {"disabled", "end", "txEndWait"}
        /\ UNCHANGED <<snap, rxFrame>>
    BY <1>6 DEF HandleDisabled, HandleTxEndEvent
  <2> DEFINE r == ClearEvents(ClearInterrupt(radio, {"DISABLED"}), {"DISABLED", "END"})
  <2>2. r \in RadioType /\ r.inten = radio.inten \ {"DISABLED"}
    BY <1>a, RegisterWritesType DEF ClearEvents, ClearInterrupt, RadioType
  <2>3. ScheduleRxAfterTifs(SetupRx(r)).inten = r.inten \cup {"ADDRESS"}
    BY <2>2, SetupRxFields, RoutineInten
  <2>4. radio' \in {ClearEvents(radio, {"DISABLED"}), radio, ScheduleRxAfterTifs(SetupRx(r)), r}
    BY <1>6 DEF HandleDisabled, HandleTxEndEvent
  <2>5. ClearEvents(radio, {"DISABLED"}).inten = radio.inten
    BY <1>a DEF ClearEvents, RadioType
  <2>6. "END" \in radio'.inten => "END" \in radio.inten
    BY <2>2, <2>3, <2>4, <2>5
  <2>. QED  BY <2>1, <2>6, EndFrame
<1>7. CASE HandleRxEnd
  <2> DEFINE r == [ClearInterrupt(ClearEvents(radio, {"END"}), {"END"})
                     EXCEPT !.ppi = @ \ {21}]
  <2>0. r \in RadioType /\ "END" \notin r.inten
    BY <1>a DEF ClearEvents, ClearInterrupt, RadioType
  <2>1. CASE "rx" \notin clients
    <3>1. radio' = r /\ pc' = pc /\ snap' = snap /\ rxFrame' = rxFrame
      BY <1>7, <2>1 DEF HandleRxEnd
    <3>. QED  BY <2>0, <3>1, EndFrame
  <2>2. CASE "rx" \in clients
    <3>1. r \in RadioType /\ "END" \notin r.inten
      BY <2>0
    <3>2. ScheduleTxAfterTifs(SetupTx(r)).inten = r.inten \cup {"DISABLED"}
      BY <3>1, SetupTxFields, RoutineInten
    <3>3. DisableRadio(r).inten = {}
      BY <3>1, RoutineInten
    <3>4. /\ radio' \in {ScheduleTxAfterTifs(SetupTx(r)), DisableRadio(r)}
          /\ pc' \in Done
      BY <1>7, <2>2 DEF HandleRxEnd
    <3>. QED  BY <3>1, <3>2, <3>3, <3>4 DEF EndInv
  <2>. QED  BY <2>1, <2>2
<1>8. CASE RxEndMoveToRXDone
  <2>1. radio' = Rx(SetupRx(radio)) /\ pc' = "idle" /\ UNCHANGED <<snap, rxFrame>>
    BY <1>8 DEF RxEndMoveToRXDone
  <2>2. radio'.inten = {"ADDRESS"}
    BY <1>a, <2>1, SetupRxFields, RxFields
  <2>. QED  BY <2>1, <2>2, EndFrame
<1>9. CASE LinkLayer
  <2>1. pc = "idle" /\ UNCHANGED <<pc, snap, rxFrame>>
    BY <1>9 DEF LinkLayer, Thread, TransmitAdvertisement, ReceiveAdvertisement,
                SetTxPower, SetChannel, SetTransitionState, SetClient
  <2>2. BleInitialize(radio) \in RadioType /\ BleInitialize(radio).inten = radio.inten
    BY <1>a, DriverRoutinesType, RoutineInten
  <2>3. Rx(BleInitialize(radio)) \in RadioType /\ Rx(BleInitialize(radio)).inten = {"ADDRESS"}
    BY <2>2, RxFields
  <2>4. \/ radio' = Tx(BleInitialize(radio))
        \/ radio' = EnableInterrupt(Rx(BleInitialize(radio)), {"ADDRESS"})
        \/ radio' = radio
        \/ radio' = [radio EXCEPT !.transition = radio'.transition]
    BY <1>9 DEF LinkLayer, TransmitAdvertisement, ReceiveAdvertisement,
                SetTxPower, SetChannel, SetTransitionState, SetClient
  <2>5. "END" \in radio'.inten => "END" \in radio.inten
    BY <1>a, <2>2, <2>3, <2>4, TxFields DEF EnableInterrupt, RadioType
  <2>. QED  BY <2>1, <2>5, EndFrame
<1>10. CASE Halted \/ UNCHANGED vars
  BY <1>10, EndFrame DEF Halted, vars
<1>. QED  BY <1>1, <1>2, <1>3, <1>3b, <1>4, <1>5, <1>5b, <1>6, <1>7, <1>8, <1>9, <1>10
          DEF Next, Interrupt

LEMMA InitReceiveInv == Init => ReceiveInv
BY InitTypeOK DEF Init, ReceiveInv, EndInv

\* The RxClient contract of radio.rs, for every value of the constants that
\* ConstAssumption allows and with no further hypothesis: handle_rx_end_event
\* calls rx_client.receive_end only while a frame accepted by receive_start
\* (ReadFrameAndStayRX or ReadFrameAndMoveToTX in handle_address_event) is open.
THEOREM ReceiveEndOnlyAfterStart == Spec => ReceiveEndAfterStart
<1>1. Spec => []ReceiveInv
  BY InitReceiveInv, NextReceiveInv, PTL DEF Spec
<1>2. ReceiveInv => (HandleRxEnd /\ "rx" \in clients => rxFrame = "open")
  BY DEF ReceiveInv, EndInv, HandleRxEnd, Fires
<1>. QED  BY <1>1, <1>2, PTL DEF ReceiveEndAfterStart

=============================================================================
