------------------------------- MODULE BleRadio -------------------------------
(***************************************************************************)
(* The nRF52 BLE radio driver (src/chips/nrf52/src/radio.rs) together      *)
(* with the part of the RADIO peripheral, the PPI fabric and TIMER0 that   *)
(* the driver drives.                                                      *)
(*                                                                         *)
(* The driver fields (state, transition) and the peripheral registers the  *)
(* driver reads or writes live in one record, `radio`, so that a driver    *)
(* routine that performs several register writes in a row is modelled as  *)
(* the composition of record transformers, in the order of the code.      *)
(*                                                                         *)
(* Control context.  Tock services interrupts from the kernel main loop    *)
(* (see src/src/chips/nrf51/src/chip.rs): handle_interrupt and the calls   *)
(* of the upper link layer are serialised, never preempt one another, and  *)
(* each runs to completion except where it busy-waits on the hardware.     *)
(* `pc` records where handle_interrupt is paused; the peripheral keeps     *)
(* running in parallel with every step.                                    *)
(***************************************************************************)
EXTENDS Naturals, FiniteSets

CONSTANTS
  TxPowers,        \* the TxPower levels TxPower::try_from accepts
  TxPowerInputs,   \* the u8 values the link layer may pass to set_tx_power
  Channels,        \* RadioChannel values the link layer may select
  AdvAnswers,      \* the TxImmediate answers advertisement_done may return
  QuiescentCalls,  \* TRUE: the link layer starts a TX/RX only on a Disabled radio
  MaxWraps,        \* bound on the number of wrap-arounds of the 32-bit TIMER0
  RxDisableInstant \* TRUE: RXDISABLE completes before software can observe it

ASSUME ConstAssumption ==
  /\ TxPowers \subseteq TxPowerInputs
  /\ Channels # {}
  /\ AdvAnswers \subseteq {"TX", "RespondAfterTifs", "GoToSleep"}
  /\ QuiescentCalls \in BOOLEAN
  /\ MaxWraps \in Nat
  /\ RxDisableInstant \in BOOLEAN

VARIABLES
  radio,     \* driver cells and peripheral registers, see RadioType
  pc,        \* where the (deferred) interrupt handler is paused
  snap,      \* handle_interrupt's local copy `enabled_interrupts`
  clients,   \* which of rx_client, tx_client, advertisement_client are set
  channel,   \* Radio.channel
  txPower,   \* Radio.tx_power
  wraps,     \* TIMER0 wrap-arounds so far (bounded by MaxWraps)
  fault,     \* a panic / failed assertion halts the kernel
  rxFrame    \* history: has the RxClient accepted a frame it has not seen end?

vars == <<radio, pc, snap, clients, channel, txPower, wraps, fault, rxFrame>>

-----------------------------------------------------------------------------
(* Value sets.                                                             *)

RadioStates == {"TX", "RX", "Initialized", "Uninitialized"}
PhyTransitions == {"None", "MoveToRX", "MoveToTX"}
ReadActions == {"ReadFrameAndStayRX", "ReadFrameAndMoveToTX", "SkipFrame"}
ClientKinds == {"rx", "tx", "adv"}
NoChannel == "none"

\* RADIO.STATE; RXFRAME is RX with an address-matched frame on the air.
HwStates == {"DISABLED", "RXRU", "RXIDLE", "RX", "RXFRAME", "RXDISABLE",
             "TXRU", "TXIDLE", "TX", "TXDISABLE"}
Disabling == {"RXDISABLE", "TXDISABLE"}
RxActive == {"RXRU", "RXIDLE", "RX", "RXFRAME"}
TxActive == {"TXRU", "TXIDLE", "TX"}
Events == {"READY", "ADDRESS", "END", "DISABLED", "BCMATCH", "CRCOK"}
Interrupts == {"READY", "ADDRESS", "END", "DISABLED"}
Shorts == {"READY_START", "END_DISABLE", "ADDRESS_BCSTART"}
PpiChannels == {20, 21}     \* CH20: CC[0] -> TXEN, CH21: CC[0] -> RXEN
Pcs == {"idle", "address", "addrSpin", "skipWait", "disabled", "txEndWait",
        "end", "rxEndRxWait", "rxEndNoneWait"}
Faults == {"none", "NoRxClient", "UninitIrq", "ChannelBusy"}

RadioType ==
  [state: RadioStates, transition: PhyTransitions,
   hw: HwStates, events: SUBSET Events, inten: SUBSET Interrupts,
   shorts: SUBSET Shorts, packetptr: {"TX", "RX", "none"},
   ppi: SUBSET PpiChannels, cc0: {"unset", "armed", "fired"},
   bcc: {"off", "counting", "matched"}]

-----------------------------------------------------------------------------
(* Peripheral tasks and register writes, as record transformers.           *)

TaskTxen(r) == [r EXCEPT !.hw = IF @ = "DISABLED" THEN "TXRU" ELSE @]
TaskRxen(r) == [r EXCEPT !.hw = IF @ = "DISABLED" THEN "RXRU" ELSE @]
\* The receiver's disable either completes at once (raising DISABLED) or
\* is visible as RXDISABLE for a while, depending on RxDisableInstant.
RxDisabled(r) ==
  IF RxDisableInstant
  THEN [r EXCEPT !.hw = "DISABLED", !.events = @ \cup {"DISABLED"}]
  ELSE [r EXCEPT !.hw = "RXDISABLE"]
TaskDisable(r) ==
  CASE r.hw \in RxActive -> RxDisabled(r)
    [] r.hw \in TxActive -> [r EXCEPT !.hw = "TXDISABLE"]
    [] OTHER             -> r
ClearEvents(r, E) == [r EXCEPT !.events = @ \ E]
EnableInterrupt(r, I) == [r EXCEPT !.inten = @ \cup I]
ClearInterrupt(r, I) == [r EXCEPT !.inten = @ \ I]
DisableAllInterrupts(r) == [r EXCEPT !.inten = {}]

-----------------------------------------------------------------------------
(* Driver routines (radio.rs), each the composition of its writes.         *)

\* Mutant: setup_tx without RADIO_SHORTS_READY_START.
SetupTxNoReadyStart(r) ==
  EnableInterrupt(
    [ClearEvents(r, {"READY", "END", "DISABLED"})
       EXCEPT !.packetptr = "TX", !.state = "TX", !.shorts = {"END_DISABLE"}],
    {"DISABLED"})

SetupTx(r) ==
  EnableInterrupt(
    [ClearEvents(r, {"READY", "END", "DISABLED"})
       EXCEPT !.packetptr = "TX", !.state = "TX",
              !.shorts = {"END_DISABLE", "READY_START"}],
    {"DISABLED"})

\* tx(): the leading wait_until_disabled is the guard `hw \notin Disabling`
\* of every action that calls it.
Tx(r) == TaskTxen(SetupTx(r))

\* Mutant: setup_rx without set_dma_ptr_rx.
SetupRxKeepsDmaPtr(r) ==
  EnableInterrupt(
    [ClearEvents(r, {"ADDRESS", "BCMATCH", "CRCOK"})
       EXCEPT !.ppi = @ \ {20}, !.state = "RX",
              !.shorts = {"END_DISABLE", "READY_START", "ADDRESS_BCSTART"}],
    {"ADDRESS"})

SetupRx(r) ==
  EnableInterrupt(
    [ClearEvents(r, {"ADDRESS", "BCMATCH", "CRCOK"})
       EXCEPT !.packetptr = "RX", !.ppi = @ \ {20}, !.state = "RX",
              !.shorts = {"END_DISABLE", "READY_START", "ADDRESS_BCSTART"}],
    {"ADDRESS"})

Rx(r) == TaskRxen(SetupRx(ClearEvents(DisableAllInterrupts(r), {"END", "DISABLED"})))

DisableRadio(r) ==
  [TaskDisable([DisableAllInterrupts(r) EXCEPT !.shorts = {}])
     EXCEPT !.ppi = @ \ {20, 21}, !.state = "Initialized"]

\* Mutant: schedule_tx_after_t_ifs enabling the wrong PPI channel (CH23).
ScheduleTxWrongChannel(r) == [r EXCEPT !.cc0 = "armed", !.ppi = @ \cup {23}]
ScheduleTxAfterTifs(r) == [r EXCEPT !.cc0 = "armed", !.ppi = @ \cup {20}]
ScheduleRxAfterTifs(r) == [r EXCEPT !.cc0 = "armed", !.ppi = @ \cup {21}]

BleInitialize(r) ==
  IF r.state = "Uninitialized" THEN [r EXCEPT !.state = "Initialized"] ELSE r

\* advertisement_client.map_or(GoToSleep, |c| c.advertisement_done())
AdvertisementDone == IF "adv" \in clients THEN AdvAnswers ELSE {"GoToSleep"}

\* The interrupt line is raised by an enabled interrupt whose event is set.
Pending == \E i \in radio.inten : i \in radio.events
Fires(i) == i \in snap /\ i \in radio.events
Settled == radio.hw \notin Disabling       \* wait_until_disabled returns

\* Timing.  CC[0] is programmed for CC[2] + 100 (TX) or CC[2] + 105 (RX)
\* us, CC[2] being the END of the packet just handled; a packet started
\* after that END needs at least 40 us ramp-up and 80 us on air.  So no
\* packet ends while a T_IFS compare is still armed.
TurnaroundPending == radio.cc0 = "armed"

-----------------------------------------------------------------------------
Init ==
  /\ radio = [state |-> "Uninitialized", transition |-> "None",
              hw |-> "DISABLED", events |-> {}, inten |-> {}, shorts |-> {},
              packetptr |-> "none", ppi |-> {}, cc0 |-> "unset", bcc |-> "off"]
  /\ pc = "idle"
  /\ snap = {}
  /\ clients = {}
  /\ channel = NoChannel
  /\ txPower \in TxPowers
  /\ wraps = 0
  /\ fault = "none"
  /\ rxFrame = "none"

-----------------------------------------------------------------------------
(* The peripheral.                                                         *)

\* RXRU/TXRU -> READY; the READY_START short starts the transceiver.
HwRampUp ==
  /\ radio.hw \in {"RXRU", "TXRU"}
  /\ radio' = [radio EXCEPT
                 !.events = @ \cup {"READY"},
                 !.hw = IF "READY_START" \in radio.shorts
                        THEN IF @ = "RXRU" THEN "RX" ELSE "TX"
                        ELSE IF @ = "RXRU" THEN "RXIDLE" ELSE "TXIDLE"]
  /\ UNCHANGED <<pc, snap, clients, channel, txPower, wraps, fault, rxFrame>>

\* A frame with our access address arrives; ADDRESS_BCSTART starts the
\* bit counter.
HwAddressMatch ==
  /\ radio.hw = "RX"
  /\ radio' = [radio EXCEPT !.hw = "RXFRAME", !.events = @ \cup {"ADDRESS"},
                 !.bcc = IF "ADDRESS_BCSTART" \in radio.shorts
                         THEN "counting" ELSE "off"]
  /\ UNCHANGED <<pc, snap, clients, channel, txPower, wraps, fault, rxFrame>>

\* BCC = 8 bits after the address: the LENGTH byte is in RX_PAYLOAD.
HwBcMatch ==
  /\ radio.hw = "RXFRAME" /\ radio.bcc = "counting"
  /\ radio' = [radio EXCEPT !.bcc = "matched", !.events = @ \cup {"BCMATCH"}]
  /\ UNCHANGED <<pc, snap, clients, channel, txPower, wraps, fault, rxFrame>>

HwRxEnd ==
  /\ radio.hw = "RXFRAME" /\ radio.bcc # "counting" /\ ~TurnaroundPending
  /\ \E crcOk \in BOOLEAN :
       LET r == [radio EXCEPT
                   !.events = @ \cup {"END"} \cup (IF crcOk THEN {"CRCOK"} ELSE {}),
                   !.hw = "RXIDLE", !.bcc = "off"]
       IN radio' = IF "END_DISABLE" \in radio.shorts THEN RxDisabled(r) ELSE r
  /\ UNCHANGED <<pc, snap, clients, channel, txPower, wraps, fault, rxFrame>>

HwTxEnd ==
  /\ radio.hw = "TX" /\ ~TurnaroundPending
  /\ radio' = [radio EXCEPT !.events = @ \cup {"END"},
                 !.hw = IF "END_DISABLE" \in radio.shorts THEN "TXDISABLE" ELSE "TXIDLE"]
  /\ UNCHANGED <<pc, snap, clients, channel, txPower, wraps, fault, rxFrame>>

HwDisableDone ==
  /\ radio.hw \in Disabling
  /\ radio' = [radio EXCEPT !.hw = "DISABLED", !.events = @ \cup {"DISABLED"}]
  /\ UNCHANGED <<pc, snap, clients, channel, txPower, wraps, fault, rxFrame>>

\* TIMER0 reaches CC[0]: PPI CH20 / CH21 trigger TXEN / RXEN.  When the
\* software programmed CC[0] after that instant had passed, the compare
\* is missed until the counter wraps.
HwCompare ==
  /\ radio.cc0 = "armed"
  /\ \/ radio' = [LET t == IF 20 \in radio.ppi THEN TaskTxen(radio) ELSE radio
                  IN IF 21 \in radio.ppi THEN TaskRxen(t) ELSE t
                    EXCEPT !.cc0 = "fired"]
     \/ radio' = [radio EXCEPT !.cc0 = "fired"]
  /\ UNCHANGED <<pc, snap, clients, channel, txPower, wraps, fault, rxFrame>>

\* 2^32 us after a compare the counter equals CC[0] again.
TimerWrap ==
  /\ radio.cc0 = "fired" /\ wraps < MaxWraps
  /\ radio' = [radio EXCEPT !.cc0 = "armed"]
  /\ wraps' = wraps + 1
  /\ UNCHANGED <<pc, snap, clients, channel, txPower, fault, rxFrame>>

Peripheral ==
  HwRampUp \/ HwAddressMatch \/ HwBcMatch \/ HwRxEnd \/ HwTxEnd
    \/ HwDisableDone \/ HwCompare \/ TimerWrap

-----------------------------------------------------------------------------
(* handle_interrupt, split at its busy-waits.                              *)

\* Entry: read intenclr into enabled_interrupts; the READY branch only
\* masks the READY interrupt.
IrqEnter ==
  /\ pc = "idle" /\ fault = "none" /\ Pending
  /\ snap' = radio.inten
  /\ radio' = IF "READY" \in radio.inten /\ "READY" \in radio.events
              THEN ClearInterrupt(radio, {"READY"}) ELSE radio
  /\ pc' = "address"
  /\ UNCHANGED <<clients, channel, txPower, wraps, fault, rxFrame>>

\* handle_address_event, up to its spin on BCMATCH / DISABLED.
HandleAddressEvent ==
  /\ pc = "address" /\ Fires("ADDRESS")
  /\ radio' = ClearInterrupt(ClearEvents(radio, {"ADDRESS"}), {"DISABLED", "ADDRESS"})
  /\ pc' = "addrSpin"
  /\ UNCHANGED <<snap, clients, channel, txPower, wraps, fault, rxFrame>>

SkipAddress ==
  /\ pc = "address" /\ ~Fires("ADDRESS")
  /\ pc' = "disabled"
  /\ UNCHANGED <<radio, snap, clients, channel, txPower, wraps, fault, rxFrame>>

\* The spin ends on BCMATCH (then rx_client.receive_start(RX_PAYLOAD,
\* RX_PAYLOAD[1] + 2), or a panic without an rx_client), or on a radio
\* that reached DISABLED first (abort: handle_address_event returns false).
\* Mutant: ReadFrameAndStayRX without enable_interrupt(END).
ReceiveStartResultNoEndInt(act) ==
  CASE act = "ReadFrameAndStayRX" ->
         /\ radio' = radio
         /\ rxFrame' = "open" /\ snap' = snap \ {"DISABLED"} /\ pc' = "disabled"
    [] act = "ReadFrameAndMoveToTX" ->
         /\ radio' = EnableInterrupt([radio EXCEPT !.transition = "MoveToTX"], {"END"})
         /\ rxFrame' = "open" /\ snap' = snap \ {"DISABLED"} /\ pc' = "disabled"
    [] act = "SkipFrame" ->
         /\ radio' = DisableRadio(radio)
         /\ pc' = "skipWait" /\ UNCHANGED <<snap, rxFrame>>

ReceiveStartResult(act) ==
  CASE act = "ReadFrameAndStayRX" ->
         /\ radio' = EnableInterrupt(radio, {"END"})
         /\ rxFrame' = "open" /\ snap' = snap \ {"DISABLED"} /\ pc' = "disabled"
    [] act = "ReadFrameAndMoveToTX" ->
         /\ radio' = EnableInterrupt([radio EXCEPT !.transition = "MoveToTX"], {"END"})
         /\ rxFrame' = "open" /\ snap' = snap \ {"DISABLED"} /\ pc' = "disabled"
    [] act = "SkipFrame" ->
         /\ radio' = DisableRadio(radio)
         /\ pc' = "skipWait" /\ UNCHANGED <<snap, rxFrame>>

AddressSpinExit ==
  /\ pc = "addrSpin"
  /\ "BCMATCH" \in radio.events \/ radio.hw = "DISABLED"
  /\ IF "BCMATCH" \notin radio.events
     THEN /\ radio' = [DisableAllInterrupts(radio) EXCEPT !.shorts = {}]
          /\ pc' = "disabled" /\ UNCHANGED <<snap, fault, rxFrame>>
     ELSE IF "rx" \notin clients
     THEN fault' = "NoRxClient" /\ UNCHANGED <<radio, pc, snap, rxFrame>>
     ELSE UNCHANGED fault /\ \E act \in ReadActions : ReceiveStartResult(act)
  /\ UNCHANGED <<clients, channel, txPower, wraps>>

\* SkipFrame, after wait_until_disabled: advertisement_done, maybe tx();
\* handle_address_event returns true, which masks DISABLED.
SkipFrameDone ==
  /\ pc = "skipWait" /\ Settled
  /\ \E ans \in AdvertisementDone :
       radio' = IF ans = "TX" THEN Tx(radio) ELSE radio
  /\ snap' = snap \ {"DISABLED"}
  /\ pc' = "disabled"
  /\ UNCHANGED <<clients, channel, txPower, wraps, fault, rxFrame>>

\* handle_tx_end_event up to its MoveToTX wait: the clears, then MoveToRX
\* re-arms the receiver for T_IFS, None only asserts.
HandleTxEndEvent ==
  LET r == ClearEvents(ClearInterrupt(radio, {"DISABLED"}), {"DISABLED", "END"})
  IN \/ /\ radio.transition = "MoveToRX"
        /\ radio' = ScheduleRxAfterTifs(SetupRx(r))
        /\ pc' = "end"
     \/ /\ radio.transition = "MoveToTX"
        /\ radio' = r
        /\ pc' = "txEndWait"
     \/ /\ radio.transition = "None"
        /\ radio' = r
        /\ pc' = "end"

\* DISABLED branch.  In RX it reports timer_expired; in Uninitialized it
\* panics; otherwise handle_tx_end_event.
HandleDisabled ==
  /\ pc = "disabled" /\ Fires("DISABLED")
  /\ CASE radio.state = "RX" ->
          /\ radio' = ClearEvents(radio, {"DISABLED"})
          /\ pc' = "end" /\ UNCHANGED fault
     [] radio.state = "Uninitialized" ->
          /\ fault' = "UninitIrq" /\ UNCHANGED <<radio, pc>>
     [] OTHER ->
          /\ UNCHANGED fault
          /\ HandleTxEndEvent
  /\ UNCHANGED <<snap, clients, channel, txPower, wraps, rxFrame>>

SkipDisabled ==
  /\ pc = "disabled" /\ ~Fires("DISABLED")
  /\ pc' = "end"
  /\ UNCHANGED <<radio, snap, clients, channel, txPower, wraps, fault, rxFrame>>

\* handle_tx_end_event, MoveToTX, after wait_until_disabled.
TxEndMoveToTXDone ==
  /\ pc = "txEndWait" /\ Settled
  /\ \E ans \in AdvertisementDone :
       radio' = IF ans = "TX" THEN Tx(radio) ELSE radio
  /\ pc' = "end"
  /\ UNCHANGED <<snap, clients, channel, txPower, wraps, fault, rxFrame>>

\* END branch: handle_rx_end_event up to rx_client.receive_end.
\* Mutant: handle_rx_end_event without clear_interrupt(END).
HandleRxEndKeepsEndInt ==
  /\ pc = "end" /\ Fires("END")
  /\ LET r == [ClearEvents(radio, {"END"}) EXCEPT !.ppi = @ \ {21}]
     IN IF "rx" \notin clients
        THEN fault' = "NoRxClient" /\ radio' = r /\ UNCHANGED <<pc, rxFrame>>
        ELSE /\ rxFrame' = "none"
             /\ UNCHANGED fault
             /\ \/ radio' = ScheduleTxAfterTifs(SetupTx(r)) /\ pc' = "idle"
                \/ radio' = DisableRadio(r) /\ pc' = "rxEndRxWait"
                \/ radio' = DisableRadio(r) /\ pc' = "rxEndNoneWait"
  /\ UNCHANGED <<snap, clients, channel, txPower, wraps>>

HandleRxEnd ==
  /\ pc = "end" /\ Fires("END")
  /\ LET r == [ClearInterrupt(ClearEvents(radio, {"END"}), {"END"})
                 EXCEPT !.ppi = @ \ {21}]
     IN IF "rx" \notin clients
        THEN fault' = "NoRxClient" /\ radio' = r /\ UNCHANGED <<pc, rxFrame>>
        ELSE /\ rxFrame' = "none"
             /\ UNCHANGED fault
             /\ \/ radio' = ScheduleTxAfterTifs(SetupTx(r)) /\ pc' = "idle"
                \/ radio' = DisableRadio(r) /\ pc' = "rxEndRxWait"
                \/ radio' = DisableRadio(r) /\ pc' = "rxEndNoneWait"
  /\ UNCHANGED <<snap, clients, channel, txPower, wraps>>

SkipEnd ==
  /\ pc = "end" /\ ~Fires("END")
  /\ pc' = "idle"
  /\ UNCHANGED <<radio, snap, clients, channel, txPower, wraps, fault, rxFrame>>

\* receive_end returned MoveToRX: after the wait, setup_rx(); rx().
RxEndMoveToRXDone ==
  /\ pc = "rxEndRxWait" /\ Settled
  /\ radio' = Rx(SetupRx(radio))
  /\ pc' = "idle"
  /\ UNCHANGED <<snap, clients, channel, txPower, wraps, fault, rxFrame>>

\* receive_end returned None: after the wait, advertisement_done decides.
RxEndNoneDone ==
  /\ pc = "rxEndNoneWait" /\ Settled
  /\ \E ans \in AdvertisementDone :
       radio' = CASE ans = "TX"               -> Tx(radio)
                  [] ans = "RespondAfterTifs" -> ScheduleTxAfterTifs(radio)
                  [] ans = "GoToSleep"        -> radio
  /\ pc' = "idle"
  /\ UNCHANGED <<snap, clients, channel, txPower, wraps, fault, rxFrame>>

\* A panic ends the handler: rust_begin_unwind never returns to it.
Interrupt ==
  /\ fault = "none"
  /\ \/ IrqEnter \/ HandleAddressEvent \/ SkipAddress
     \/ AddressSpinExit \/ SkipFrameDone
     \/ HandleDisabled \/ SkipDisabled \/ TxEndMoveToTXDone
     \/ HandleRxEnd \/ SkipEnd \/ RxEndMoveToRXDone \/ RxEndNoneDone

-----------------------------------------------------------------------------
(* Calls of the link layer (thread context, between handler runs).         *)

Thread == pc = "idle" /\ fault = "none"
\* With QuiescentCalls the link layer only starts an operation on a
\* Disabled radio (the discipline of spec section 5), not while it still
\* waits for receive_end of a frame it accepted, and not while a radio
\* interrupt is waiting in the kernel's queue.
Quiet == QuiescentCalls => radio.hw = "DISABLED" /\ rxFrame = "none" /\ ~Pending

TransmitAdvertisement ==
  /\ Thread /\ Settled /\ Quiet
  /\ radio' = Tx(BleInitialize(radio))
  /\ UNCHANGED <<pc, snap, clients, channel, txPower, wraps, fault, rxFrame>>

ReceiveAdvertisement ==
  /\ Thread /\ Settled /\ Quiet
  /\ radio' = EnableInterrupt(Rx(BleInitialize(radio)), {"ADDRESS"})
  /\ UNCHANGED <<pc, snap, clients, channel, txPower, wraps, fault, rxFrame>>

SetTxPower(p) ==
  /\ Thread
  /\ txPower' = IF p \in TxPowers THEN p ELSE txPower
  /\ UNCHANGED <<radio, pc, snap, clients, channel, wraps, fault, rxFrame>>

\* ble_set_channel asserts that RADIO.STATE is DISABLED.
SetChannel(c) ==
  /\ Thread
  /\ IF radio.hw = "DISABLED"
     THEN channel' = c /\ UNCHANGED fault
     ELSE fault' = "ChannelBusy" /\ UNCHANGED channel
  /\ UNCHANGED <<radio, pc, snap, clients, txPower, wraps, rxFrame>>

SetTransitionState(t) ==
  /\ Thread
  /\ radio' = [radio EXCEPT !.transition = t]
  /\ UNCHANGED <<pc, snap, clients, channel, txPower, wraps, fault, rxFrame>>

SetClient(k) ==
  /\ Thread
  /\ clients' = clients \cup {k}
  /\ UNCHANGED <<radio, pc, snap, channel, txPower, wraps, fault, rxFrame>>

LinkLayer ==
  \/ TransmitAdvertisement \/ ReceiveAdvertisement
  \/ \E p \in TxPowerInputs : SetTxPower(p)
  \/ \E c \in Channels : SetChannel(c)
  \/ \E t \in PhyTransitions : SetTransitionState(t)
  \/ \E k \in ClientKinds : SetClient(k)

\* A panic ends in rust_begin_unwind's endless LED loop.
Halted ==
  /\ fault # "none"
  /\ UNCHANGED vars

Next == Peripheral \/ Interrupt \/ LinkLayer \/ Halted

\* The peripheral makes progress, TIMER0 runs, and the kernel main loop
\* services a pending radio interrupt and finishes a started handler.
Fairness ==
  /\ WF_vars(HwRampUp) /\ WF_vars(HwBcMatch) /\ WF_vars(HwRxEnd)
  /\ WF_vars(HwTxEnd) /\ WF_vars(HwDisableDone) /\ WF_vars(HwCompare)
  /\ WF_vars(Interrupt)

Spec == Init /\ [][Next]_vars /\ Fairness

-----------------------------------------------------------------------------
(* Properties.                                                             *)

TypeOK ==
  /\ radio \in RadioType
  /\ pc \in Pcs
  /\ snap \subseteq Interrupts
  /\ clients \subseteq ClientKinds
  /\ channel \in Channels \cup {NoChannel}
  /\ txPower \in TxPowers
  /\ wraps \in 0..MaxWraps
  /\ fault \in Faults
  /\ rxFrame \in {"none", "open"}

\* DMA ownership (spec section 3): the peripheral runs its transmitter only
\* on TX_PAYLOAD while the driver is in TX, and its receiver only on
\* RX_PAYLOAD while the driver is in RX.  Broken by any path that triggers
\* TXEN/RXEN (directly or through PPI) without the matching setup_tx /
\* setup_rx.
BufferDiscipline ==
  /\ radio.hw \in TxActive => radio.packetptr = "TX" /\ radio.state = "TX"
  /\ radio.hw \in RxActive => radio.packetptr = "RX" /\ radio.state = "RX"

\* The RxClient contract: receive_end is only ever called for a frame the
\* client accepted in receive_start (ReadFrameAndStayRX/MoveToTX).
ReceiveEndAfterStart ==
  [][HandleRxEnd /\ "rx" \in clients => rxFrame = "open"]_vars

\* Every transmission the driver starts comes to an end: the transmitter
\* never stays ramped up (e.g. in TXIDLE with no READY->START shortcut).
TxCompletes == \A s \in TxActive : radio.hw = s ~> radio.hw = "DISABLED"

\* Every frame the RxClient accepted is eventually ended by receive_end
\* (unless the kernel has panicked).
FrameEnds == rxFrame = "open" ~> (rxFrame = "none" \/ fault # "none")
=============================================================================
