# TLA+ models of the nRF52 BLE radio driver, the hopping engine and nRF51 deferred interrupts

This directory holds TLA+ specifications of the three cores of the repository:

- the BLE physical-layer radio driver `src/chips/nrf52/src/radio.rs`;
- the connection channel-hopping engine `src/chips/nrf5x/src/ble_connection.rs`;
- the nRF51 chip's deferred interrupt servicing `src/src/chips/nrf51/src/chip.rs`.

For each there are TLC model-checking runs and TLAPS proofs.
`PROJECT.json` lists every component, run, mutant, map entry, finding, hazard and theorem.

## The system

| Part | Source | What it does |
|---|---|---|
| Radio Core | `radio.rs` `Radio` | Driver state `state`/`transition`. `tx`, `rx`, `setup_tx`, `setup_rx`, `disable_radio`, `schedule_{tx,rx}_after_t_ifs`, `ble_initialize`. `handle_interrupt`, with the ADDRESS path (`handle_address_event`), the DISABLED path (`handle_tx_end_event`) and the END path (`handle_rx_end_event`). The link-layer calls of `BleAdvertisementDriver` and `BleConfig`. |
| PPI gate and TIMER0 | `radio.rs` (`enable_ppi`, `disable_ppi`, `set_cc0`) | PPI CH20 (CC[0] → TXEN) and CH21 (CC[0] → RXEN) make the T_IFS turnaround hardware-driven. |
| RADIO peripheral | hardware (nRF52 RADIO) | The state machine DISABLED/RU/IDLE/active/DISABLE, events, shortcuts and interrupt enables that the driver programs. |
| Hopping engine | `ble_connection.rs` `ConnectionData` | `new`, `update_lldata`, `expand_channel_map`, `next_channel` (BLE channel selection algorithm #1). |
| Deferred interrupts | `src/src/chips/nrf51/src/chip.rs` `NRF51` | `NRF51::new` installs `INTERRUPT_QUEUE` over `IQ_BUF`. `has_pending_interrupts` and `service_pending_interrupts` (dequeue, match on the line, `nvic::enable`) run from the kernel main loop. The ISR that masks a line and enqueues it is outside the repository. |
| Board, crate root | `main.rs`, `lib.rs` | Bring-up, process loading and the panic handler (an endless LED loop). |

**How the parts interact.** Tock runs `handle_interrupt` from the kernel main loop (`service_pending_interrupts`). The handler and the link-layer calls into the driver are therefore serialised, and neither preempts the other. The peripheral, the PPI fabric and TIMER0 run concurrently with both. The driver's only synchronisation with the hardware is busy-waiting: `wait_until_disabled`, and the spin on BCMATCH in `handle_address_event`.

## Modules

### `BleRadio.tla`: the driver, composed with the peripheral

- **State.** The driver cells and the registers the driver touches are one record, `radio`:
  - `state`, `transition`;
  - `hw` (RADIO.STATE), `events`, `inten`, `shorts`;
  - `packetptr` (TX_PAYLOAD or RX_PAYLOAD);
  - `ppi` (the enabled channels among CH20/CH21);
  - `cc0` (unset, armed or fired);
  - `bcc` (the bit counter).

  Besides the record:
  - `pc` is where `handle_interrupt` is paused at a busy-wait;
  - `snap` is the handler's local `enabled_interrupts`;
  - `clients` records which callbacks are registered;
  - `channel` and `txPower` are the settings from `BleConfig`;
  - `wraps` counts TIMER0 wrap-arounds;
  - `fault` is set by a panic or a failed assertion;
  - `rxFrame` is a history variable: a frame accepted by `receive_start` and not yet ended.
- **Register writes** are record transformers: `TaskTxen`, `ClearEvents`, `EnableInterrupt`, and so on. A driver routine is their composition, in code order. `SetupTx(r)` is one example; `Tx(r) == TaskTxen(SetupTx(r))` is another.
- **The handler** is split at its busy-waits into actions that follow the code's branch order:
  - entry: `IrqEnter`;
  - ADDRESS: `HandleAddressEvent` / `SkipAddress`, `AddressSpinExit`, `SkipFrameDone`;
  - DISABLED: `HandleDisabled` / `SkipDisabled`, with `HandleTxEndEvent` (`handle_tx_end_event` up to its wait) and `TxEndMoveToTXDone`;
  - END: `HandleRxEnd` / `SkipEnd`, `RxEndMoveToRXDone`, `RxEndNoneDone`.

  Each action ends at the next point where the code spins on the hardware, which lets the peripheral move between steps. A panic ends the handler, since `rust_begin_unwind` never returns: `Interrupt` is enabled only while `fault = "none"`. The writes made before a panic are kept. With no receive client, `HandleRxEnd` still clears END, its interrupt and PPI CH21 (`radio.rs:361-367`) before it panics at 382.
- **The peripheral** is modelled from the spec's hardware description and marked `spec_modelled` in the map:
  - `HwRampUp`, `HwAddressMatch`, `HwBcMatch`, `HwRxEnd`, `HwTxEnd` and `HwDisableDone`;
  - `HwCompare`: the T_IFS compare fires TXEN/RXEN through the enabled PPI channels, or is *missed* because CC[0] was written after the deadline;
  - `TimerWrap`: a missed or fired compare matches again after 2^32 µs, bounded by `MaxWraps`.
- **Timing abstraction.** `TurnaroundPending` encodes one fact: no packet ends while a T_IFS compare is armed. The reason is that CC[0] is END + ~100 µs, while any packet started after that END needs at least 40 µs of ramp-up plus 80 µs on air.
- **The link layer** (`TransmitAdvertisement`, `ReceiveAdvertisement`, `SetTxPower`, `SetChannel`, `SetTransitionState`, `SetClient`) calls only between handler runs. With `QuiescentCalls` it calls only when:
  - the radio is DISABLED;
  - no radio interrupt is pending;
  - no accepted frame awaits `receive_end`.

  This is the calling discipline of spec section 5. Without it, calls are unrestricted.
- **Constants** let a run choose:
  - the answers `advertisement_done` may give (`AdvAnswers`);
  - whether RXDISABLE completes instantly (`RxDisableInstant`);
  - the wrap bound (`MaxWraps`).

### `BleConnection.tla`: the hopping engine

- `conn` holds the `ConnectionData` fields.
- `ExpandChannelMap` is the 40-bit expansion of the 5-byte `chm`.
- `RemapTable` is the table `next_channel` builds: the used channels in order, then zeros. Each channel's position comes from `Rank`.
- `NextChannel` stores `last_unmapped` and either returns the unmapped channel or remaps it. It panics (`fault`) when the modulus `number_used_channels` is 0.
- `New` and `UpdateLLData` model the constructor and `update_lldata`. Updating keeps `last_unmapped` and `hop_increment`, as the code does.
- The history variable `window` holds the channels returned since the map was last loaded, at most the last 37.

### `InterruptService.tla`: what deferred servicing promises

- One variable, `pending`: the lines whose peripheral event is asserted.
- `Raise(l)` asserts an event; `Handle(l)` clears it, for a line in `Dispatched` only.
- Weak fairness on every `Handle(l)`: an event of a dispatched line is eventually handled.

This is the contract a peripheral driver relies on. It says nothing of the NVIC, the queue or the kernel loop.

### `Nrf51Chip.tla`: `chip.rs`, the ISR and the kernel loop

- **State.**
  - `evt`: asserted peripheral events;
  - `nvic`: the enabled NVIC lines;
  - `queue`: `INTERRUPT_QUEUE`, oldest first;
  - `cur`: the line `service_pending_interrupts` dequeued;
  - `stage`: where that function is (idle, dispatch, enable).
- **From `chip.rs`.**
  - `Init`: `NRF51::new` (lines 11-22), with an empty queue. The NVIC starts with the lines the board enables before the kernel loop: the constant `Enabled`. The nRF51 board enables only TIMER1, through `alarm.enable_nvic()` (`main.rs:215`).
  - `HasPendingInterrupts` (56-58).
  - `service_pending_interrupts` is split at the points where an ISR can preempt it:
    - `ServiceDequeue` (38-40);
    - `ServiceDispatch` with `HandleInterrupt` (the match, 40-50; the `_` arm does nothing);
    - `ServiceEnable` (`nvic::enable`, 51-54).
- **Spec-modelled** (not in the repository): the ISR `Isr(l)` masks the line and enqueues it; `Enqueue` is `RingBuffer::enqueue`, which drops the value when full; `Raise(l)` is a peripheral asserting its event.
- **Constants.** `Lines`, `Dispatched ⊆ Lines` (the lines with a match arm), `Enabled ⊆ Lines` (the lines the board enables), `IQ_SIZE` and `NoLine`. `ChipAssumption` requires `Enabled` to be finite, with at least as many queue slots as enabled lines. A line the board never enables is never taken by the ISR, so it is never queued.
- **Refinement.** `IS == INSTANCE InterruptService WITH pending <- evt, Dispatched <- Dispatched \cap Enabled`, and `ServiceRefinement == IS!Spec`. `Raise` maps to `Raise`, `ServiceDispatch` of a dispatched line maps to `Handle`, and every other step is a stutter of `evt`.

### MC modules and configurations

- `MC_BleRadio.tla` gives the model values:
  - two TX power levels plus one unsupported input;
  - one channel;
  - the `advertisement_done` answer sets.
- `MC_BleConnection.tla` gives:
  - the channel maps of the spec's examples, plus a two-channel map and the all-zero map;
  - hop bytes 5 (with SCA bits set), 7 and 16;
  - a map with the RFU bit of channel 37 set.
- `MC_Nrf51Chip.tla` gives:
  - the six lines TIMER1, RTC1, GPIOTE, TIMER0, UART0 (each with a match arm) and POWER_CLOCK (none);
  - `Enabled = {TIMER1}`, as on the board;
  - `IQ_SIZE = 1`, exactly one slot per enabled line. A line queued twice would overflow the queue and be caught.

## Runs

| Run | Checks | Result and meaning |
|---|---|---|
| `radio_quiescent` | TypeOK, BufferDiscipline, ReceiveEndAfterStart, TxCompletes, FrameEnds | **Pass.** Assumes quiescent calls, instant RXDISABLE and no wrap. The transceiver only runs on the buffer matching the driver state, `receive_end` only follows an accepted `receive_start`, and every TX and every accepted frame completes. |
| `radio_wrap` | ReceiveEndAfterStart, TxCompletes, FrameEnds | **Pass.** Same, with one TIMER0 wrap: the missed-compare paths do not break the callback contract or completion. |
| `radio_stale_ppi_wrap` | BufferDiscipline | **Violation.** `setup_tx` never disables CH21. After a missed MoveToRX compare and a later `tx()`, the wrap fires RXEN with `packetptr` = TX_PAYLOAD. |
| `radio_respond_after_tifs` | TxCompletes | **Violation.** `receive_end` returns None, then `advertisement_done` answers RespondAfterTifs. TXEN is armed after `disable_radio` cleared the shortcuts and without `setup_tx`, and the radio wedges in TXIDLE. |
| `radio_rx_disable_lag` | BufferDiscipline | **Violation.** If RXDISABLE is still in progress, the MoveToTX path's `setup_tx` (no wait) takes the receiver's late DISABLED for the response's end. |
| `hop_valid_maps` | TypeOK, SelectsUsedChannel, Coverage, DataChannelOnly | **Pass.** `next_channel` returns only used channels and covers every used channel in any 37 consecutive calls under one map. It returns data channels only. This holds across map updates; the all-zero map reaches the division-by-zero panic. |
| `hop_rfu_bits` | DataChannelOnly | **Violation.** With an RFU bit set, the remapping returns advertising channel 37. |
| `chip_service` | TypeOK, LineDiscipline, ServiceRefinement | **Pass.** A line is queued at most once, and a queued or serviced line stays masked. Every line the board enabled is enabled, queued or being serviced, so the queue never overflows and no such line stays masked. The chip implements `InterruptService`, including the fairness of `Handle`, for the enabled lines that have match arms. |

Every property of a passing run has a mutant in `PROJECT.json`. Each mutant is a plausible bug in the mapped definition, and TLC finds the property violated when the definition is replaced by it. The mutants are:

- `setup_tx` without READY_START;
- `setup_rx` without `set_dma_ptr_rx`;
- ReadFrameAndStayRX without enabling END;
- `handle_rx_end_event` without `clear_interrupt(END)`;
- the wrong PPI channel;
- the hop without its 5-bit mask;
- the remapping table shifted by one;
- the unmapped channel taken modulo 40;
- `expand_channel_map` reading each byte most significant bit first;
- `service_pending_interrupts` calling `nvic::enable` at the dequeue, before the match;
- a match arm that returns before `nvic::enable` (the commented-out UART0 arm);
- a service that does not forget the dequeued line.

**Bounds.**
- One channel and two power levels suffice: the radio properties do not depend on which channel or power is set, only on whether the set succeeds.
- `MaxWraps = 1` is enough for a stale compare to fire once into a later operation.
- The three `advertisement_done` answers and the three `ReadAction`s/`PhyTransition`s are enumerated in full.
- For the hopping engine, the maps cover every branch of `next_channel`: used, remapped, and divide-by-zero. The window of 37 is the full period of the hop sequence.
- For the chip, the board's configuration: one enabled line and a queue of one slot. Every order in which the ISR can preempt the three steps of a service is explored, and any double enqueue would overflow. The other lines are present but never enabled, so a model that wrongly took them would be caught by `LineDiscipline`. The proofs cover every finite set of enabled lines and every queue at least as large.

**Fairness.**
- Weak fairness on the peripheral's own progress (ramp-up, bit counter, END, disable, compare): the hardware completes these in bounded time.
- Weak fairness on the interrupt handler: the kernel main loop services every queued interrupt, and a started handler runs to its end.
- None on the link layer (it may stop calling), and none on the wrap.
- For the chip, weak fairness on the three service steps (the kernel main loop services while `has_pending_interrupts()`), and on each `Isr(l)` (the NVIC takes an enabled, requested interrupt). None on `Raise`: peripherals need not raise anything.
- The handler fairness of `BleRadio` assumes a chip that dispatches RADIO, such as the nRF52 for which `radio.rs` is written. The nRF51 board of this repository neither enables nor dispatches RADIO.
- `chip_service` does not check deadlock. When nothing is queued, the kernel loop sleeps, and peripherals need not raise anything, so the chip may legitimately stop.

## Proofs (TLAPS)

- `BleRadio_proofs.tla`: `THEOREM TypeCorrect == Spec => []TypeOK` for every value of the constants, from `ConstAssumption`. The lemmas:
  - `RegisterWritesType`: each register write preserves the record type;
  - `DriverRoutinesType`: each driver routine does too;
  - `InitTypeOK`;
  - `PeripheralTypeOK`, `InterruptTypeOK` and `LinkLayerTypeOK`, one case per action;
  - `NextTypeOK`.

  TypeOK is inductive as it stands, so no strengthening is needed.
- `BleRadio_proofs.tla`: `THEOREM BufferDisciplineHolds`. It assumes `RadioHyp`, the settings of run `radio_quiescent`:
  - `QuiescentCalls`;
  - `MaxWraps = 0`;
  - `RxDisableInstant`;
  - advertisement_done answers only TX or GoToSleep.

  It proves `Spec => []BufferDiscipline` for every TX power set, channel set and answer set within those. Each hypothesis is needed:
  - `QuiescentCalls` is the caller's discipline of spec sections 3 and 5 (`tx()` or `rx()` on a busy radio is outside the driver's contract);
  - without the next two, runs `radio_stale_ppi_wrap` and `radio_rx_disable_lag` break the property;
  - RespondAfterTifs arms TXEN on a radio that `setup_tx` never prepared, the path of `radio_respond_after_tifs`.
  - BufferDiscipline is far from inductive. The strengthening `BufferInv == TypeOK /\ StateHw /\ Armed /\ EventsHw /\ Phases`, checked first with TLC on the reachable states of `radio_quiescent`, says:
    - `StateHw`: the driver state fixes `packetptr` and the family of RADIO.STATE; a running receiver has END_DISABLE, and ADDRESS enabled until the frame starts.
    - `Armed`: an armed T_IFS compare starts the transceiver that was set up. Its channel CH20 belongs to TX, and CH21 to RX or to a running TX. While it is armed, no DISABLED or END is pending, and the handler is not in the address spin.
    - `EventsHw`: a pending DISABLED means the radio is disabled, and a pending END means the receiver has stopped. A pending ADDRESS means RX with ADDRESS enabled.
    - `Phases`: what each pause point of `handle_interrupt` may assume. For example, END in the snapshot means a single-END snapshot of a disabled RX radio, and the busy-waits after `disable_radio` see Initialized with the PPI channels off.
  - The lemmas give the registers each routine leaves, field by field: `TaskFields`, `SetupTxFields`, `TxFields`, `SetupRxFields`, `RxFields`, `TaskDisableFields` and `DisableRadioFields`.
  - `TxFromQuiet` covers the three handler phases that end in `tx()` or nothing.
  - `BufferFrame` covers the steps that leave every register the invariant reads, the handler phase, the snapshot and the frame unchanged.
  - `PeripheralBufferInv`, `InterruptBufferInv` and `LinkLayerBufferInv` take one case per action, with one step per conjunct the action can disturb.
- `BleRadio_proofs.tla`: `THEOREM ReceiveEndOnlyAfterStart == Spec => ReceiveEndAfterStart`. It holds for every value of the constants allowed by `ConstAssumption`, with no further hypothesis: busy link-layer calls, timer wraps, RXDISABLE lag and RespondAfterTifs answers are all allowed. Runs `radio_quiescent` and `radio_wrap` check it.
  - It does not rest on `BufferInv`. It uses the smaller strengthening `ReceiveInv == TypeOK /\ EndInv`, checked first with TLC on all six radio configurations. `EndInv` says:
    - END is enabled only while an accepted frame is open;
    - if END is in the handler's snapshot, the handler is still inside a run and has not yet reached `receive_end`, so the frame is open.
  - The argument: only `receive_start`'s accepting answers enable END, and they open the frame. `handle_rx_end_event` clears END and closes the frame in one step. Every other routine either leaves END alone or clears it: `disable_radio` clears all interrupts, `rx()` leaves only ADDRESS, and `setup_tx` adds only DISABLED. `IrqEnter` takes the snapshot from the enabled set, so a snapshot with END implies an open frame.
  - `RoutineInten` and `PeripheralInten` give the interrupt-enable effect of each routine and of the peripheral. `EndFrame` reduces each case to three facts: END is not newly enabled, the snapshot does not grow, and the handler does not return from a finished run into a live one. `NextReceiveInv` takes one case per action.
- `BleConnection_proofs.tla`: `THEOREM TypeCorrect == Spec => []TypeOK` for every set of channel maps and hop bytes, from `ConnAssumption`. The lemmas:
  - the bit weights `2^j` are positive;
  - the expanded map is 0/1-valued;
  - `number_used_channels ≤ 40` (from `FS_Subset` and `FS_Interval`);
  - every remapping-table entry is a channel index;
  - `Record` keeps the window within 37 entries.

  Together these show that `next_channel`'s modulus is in range, and that the table lookup stays inside the 40-entry table whenever it does not panic.
- `BleConnection_proofs.tla`: `THEOREM DataChannelsOnly`. Assume every map a peer sends has its reserved bits clear (`RfuBitsClear`: the last chm byte is below 32). Then `Spec => []DataChannelOnly`. Without that assumption the property fails: run `hop_rfu_bits` shows it.
  - DataChannelOnly is not inductive alone, because the remapping path returns a table entry. The proof therefore uses `DataInv == TypeOK /\ AdvertisingUnused /\ DataChannelOnly`, where `AdvertisingUnused` says channels 37..39 are not marked used.
  - `ExpandAdvertisingUnused` shows that expansion preserves `AdvertisingUnused`, by the three cases of bits 5..7 of byte 5.
  - `RemapTableData` shows that every table entry is either a used channel or the fill value 0, and so is below 37.
  - The unmapped path is below 37 by its modulus. `update_lldata` and `new` re-establish `AdvertisingUnused` from the hypothesis.
- `BleConnection_proofs.tla`: `THEOREM UsedChannelsOnly == Spec => []SelectsUsedChannel`, for every set of maps and hop bytes, with no further assumption.
  - The strengthening `UsedInv` adds that `number_used_channels` equals the count of the map's ones.
  - `RankRange`, `RankStrict` and `RankOnto` show that `Rank` maps the used channels one-to-one onto `0 .. number_used_channels - 1`. Ontoness comes from `FS_Injection` on two sets of equal size.
  - `RemapTableUsed` follows: every table entry below the count is a used channel. The index `last_unmapped % number_used_channels` is always below the count.
  - `RecordUsed` shows that appending a used channel to the sliding window keeps every entry used.
- `BleConnection_proofs.tla`: `THEOREM CoverageHolds`. It assumes `RfuBitsClear` and `HopIncrementNonZero` for every peer input, and proves `Spec => []Coverage`.
  - `HopIncrementNonZero` says the low 5 bits of `hop_and_sca` are not 0. Spec 4.3 requires 5..16; the code checks neither.
  - Strengthening: `CovInv == DataInv /\ conn.hop # 0 /\ HopWindow`.
  - `HopWindow` says the window is the tail of the hop sequence `HopAt(s, hop, i) = (s + i*hop) % 37` from some start `s`. At every position where that sequence hits a used channel, the window holds it. While no panic has occurred, `last_unmapped` is the sequence's position `Len(window)`.
  - `RecordHop` shows that a `next_channel` step keeps `HopWindow`: once the window is full and slides, the start moves one hop on (`HopShift`). A remapped channel is recorded only where the unmapped channel is unused.
  - `update_lldata` restarts the sequence at the kept `last_unmapped`.
  - The arithmetic core is `HopNoZeroDivisor`, proved by Z3: 37 is prime, so `d*hop` is not a multiple of 37 for `d` in 1..36 and hop in 1..31. Then `HopCoversMod` uses `FS_Injection` to show that 37 consecutive positions are all 37 residues. A full window therefore holds every used channel, because `AdvertisingUnused` puts every used channel below 37.

- `Nrf51Chip_proofs.tla`, from `ChipAssumption`, for any finite set of enabled lines and any queue of at least that many slots:
  - `THEOREM MaskingDiscipline == Spec => []LineDiscipline`;
  - `THEOREM TypeCorrect == Spec => []TypeOK`;
  - `THEOREM RefinesInterruptService == Spec => IS!Init /\ [][IS!Next]_evt`: the safety part of the refinement. Lemma `StepRefines` shows that, under `Inv`, every step is an `IS!Next` step or a stutter: a dispatched line in service is enabled, because `LineDiscipline` keeps every line in `nvic`, the queue or service within `Enabled`.

  Neither invariant is inductive alone. `Inv == TypeOK /\ LineDiscipline` is: `TypeOK` types `Head` and `Tail`, and `LineDiscipline` shows the ISR's enqueue never meets a full queue. Lemma `IsrRoom` argues it: an ISR runs only on an enabled line, and the queue is injective and disjoint from `nvic`. So the queue holds fewer distinct lines than `Enabled`, and `Len(queue) < IQ_SIZE`. The lemmas `InjectiveLength`, `AppendFresh` and `TailFresh` carry the injectivity through `Append` and `Tail`.

**Only model-checked.**
- The liveness properties (TxCompletes, FrameEnds): fairness and ENABLED are beyond TLAPS.
- The fairness half of `ServiceRefinement` (every event of an enabled, dispatched line eventually handled).

## Not modelled

- Register configuration (`ble_set_packet_config`, CRC, whitening, access address, frequency): these are plain writes with no control flow, and no property depends on them.
- Payload bytes and the `RX_PAYLOAD[1] + 2` u8 length computation: data is abstracted, and the overflow is listed as a hazard.
- The `RingBuffer` internals (head and tail indices): `INTERRUPT_QUEUE` is modelled as the sequence it holds. The ISR is modelled from the spec, since it is not in the repository.
- Board bring-up in `main.rs` (only the panic loop and the enabled NVIC lines are modelled) and `lib.rs` (declarations). The order in `main.rs` of enabling peripheral interrupts against `NRF51::new` installing the queue depends on the ISR, which is not in the repository.
- The upper-layer timer that would call `timer_expired`. TLC shows that the `RX` arm of the DISABLED path in `handle_interrupt` (`radio.rs:473`) is unreachable with the driver's own calls.
