--------------------------- MODULE BleConnection ---------------------------
(***************************************************************************)
(* The connection channel-hopping engine of the nRF5x BLE stack           *)
(* (chips/nrf5x/src/ble_connection.rs): ConnectionData is built from the   *)
(* LLData of a CONNECT_IND, its channel map may be replaced by             *)
(* update_lldata, and next_channel picks the data channel of each          *)
(* connection event with the BLE 4.x selection algorithm #1.               *)
(*                                                                         *)
(* A channel map is the 5-byte chm array; the engine expands all its 40    *)
(* bits.  The history variable `window` holds the channels returned since  *)
(* the map was last (re)loaded, at most the last 37 of them.               *)
(***************************************************************************)
EXTENDS Naturals, Sequences, FiniteSets, Functions

CONSTANTS
  ChannelMaps,   \* the chm arrays a peer may send: 5-tuples of bytes
  HopAndScas     \* the hop_and_sca bytes a peer may send

NUMBER_CHANNELS == 40
NUMBER_DATA_CHANNELS == NUMBER_CHANNELS - 3
Bytes == 0..255
U16 == 0..65535
ChannelIndices == 0..(NUMBER_CHANNELS - 1)
NoChannel == NUMBER_CHANNELS     \* no next_channel call yet

(* The chm of an LLData carries 37 significant bits: bits 5..7 of its last *)
(* byte (channels 37..39) are reserved and sent as 0.                      *)
RfuBitsClear(chm) == chm[5] < 32

(* The hop increment of hop_and_sca (its low 5 bits) is 5..16 (spec 4.3); *)
(* the code does not check it.  Coverage needs only that it is not 0.     *)
HopIncrementNonZero(hopAndSca) == hopAndSca % 32 # 0

ASSUME ConnAssumption ==
  /\ ChannelMaps \subseteq [1..5 -> Bytes]
  /\ ChannelMaps # {}
  /\ HopAndScas \subseteq Bytes
  /\ HopAndScas # {}

VARIABLES
  live,      \* a ConnectionData exists
  conn,      \* its fields
  chan,      \* the channel index the last next_channel returned
  window,    \* channels returned since the map was loaded (last 37)
  fault      \* "DivideByZero" once next_channel panicked

vars == <<live, conn, chan, window, fault>>

ConnType ==
  [last : 0..(NUMBER_DATA_CHANNELS - 1),
   channels : [ChannelIndices -> {0, 1}],
   counter : U16,
   hop : 0..31,
   used : 0..NUMBER_CHANNELS]

\* Mutant: expand_channel_map stores each byte most significant bit first.
ExpandChannelMapMsbFirst(chm) ==
  [k \in ChannelIndices |-> (chm[(k \div 8) + 1] \div (2 ^ (7 - (k % 8)))) % 2]

(* expand_channel_map: bit j of byte i is channel 8*i + j; the count of    *)
(* ones covers all 40 bits.                                                *)
ExpandChannelMap(chm) ==
  [k \in ChannelIndices |-> (chm[(k \div 8) + 1] \div (2 ^ (k % 8))) % 2]

UsedChannels(channels) == {k \in ChannelIndices : channels[k] = 1}

NumberUsed(channels) == Cardinality(UsedChannels(channels))

(* Position of a used channel among the used channels, lowest first.       *)
Rank(channels, i) == Cardinality({j \in UsedChannels(channels) : j < i})

\* Mutant: the remapping loop stores table[idx] after idx += 1.
RemapTableShifted(channels) ==
  [idx \in ChannelIndices |->
     IF \E i \in UsedChannels(channels) : Rank(channels, i) + 1 = idx
     THEN CHOOSE i \in UsedChannels(channels) : Rank(channels, i) + 1 = idx
     ELSE 0]

(* The remapping table next_channel builds: the used channels in order,    *)
(* then zeros.                                                             *)
RemapTable(channels) ==
  [idx \in ChannelIndices |->
     IF \E i \in UsedChannels(channels) : Rank(channels, i) = idx
     THEN CHOOSE i \in UsedChannels(channels) : Rank(channels, i) = idx
     ELSE 0]

\* Mutant: hop_increment taken without the 0b11111 mask.
NewConnectionNoMask(chm, hopAndSca) ==
  [last |-> 0, channels |-> ExpandChannelMap(chm), counter |-> 0,
   hop |-> hopAndSca, used |-> NumberUsed(ExpandChannelMap(chm))]

(* ConnectionData::new: last_unmapped 0, hop from the low 5 bits.         *)
NewConnection(chm, hopAndSca) ==
  [last |-> 0, channels |-> ExpandChannelMap(chm), counter |-> 0,
   hop |-> hopAndSca % 32, used |-> NumberUsed(ExpandChannelMap(chm))]

\* Mutant: unmapped channel taken modulo NUMBER_CHANNELS.
UnmappedAllChannels(c) == (c.last + c.hop) % NUMBER_CHANNELS

Unmapped(c) == (c.last + c.hop) % NUMBER_DATA_CHANNELS

Init ==
  /\ live = FALSE
  /\ conn = NewConnection(CHOOSE m \in ChannelMaps : TRUE,
                          CHOOSE h \in HopAndScas : TRUE)
  /\ chan = NoChannel
  /\ window = <<>>
  /\ fault = "none"

(* A CONNECT_IND is accepted and ConnectionData::new runs.                 *)
New(chm, hopAndSca) ==
  /\ ~live
  /\ live' = TRUE
  /\ conn' = NewConnection(chm, hopAndSca)
  /\ window' = <<>>
  /\ UNCHANGED <<chan, fault>>

(* update_lldata: new map and count; hop and last_unmapped are kept.       *)
UpdateLLData(chm) ==
  /\ live /\ fault = "none"
  /\ conn' = [conn EXCEPT !.channels = ExpandChannelMap(chm),
                          !.used = NumberUsed(ExpandChannelMap(chm))]
  /\ window' = <<>>
  /\ UNCHANGED <<live, chan, fault>>

(* Appends a returned channel to the sliding window of the last 37.        *)
Record(w, c) ==
  IF Len(w) < NUMBER_DATA_CHANNELS THEN Append(w, c) ELSE Append(Tail(w), c)

(* next_channel: store the unmapped channel; return it if it is used,      *)
(* otherwise remap it through the table (a % 0 panics when no bit is set). *)
NextChannel ==
  /\ live /\ fault = "none"
  /\ LET u == Unmapped(conn) IN
       /\ conn' = [conn EXCEPT !.last = u]
       /\ IF conn.channels[u] = 1
          THEN /\ chan' = u /\ window' = Record(window, u)
               /\ UNCHANGED fault
          ELSE IF conn.used = 0
          THEN /\ fault' = "DivideByZero" /\ UNCHANGED <<chan, window>>
          ELSE LET c == RemapTable(conn.channels)[u % conn.used]
               IN  /\ chan' = c /\ window' = Record(window, c)
                   /\ UNCHANGED fault
  /\ UNCHANGED live

(* After a panic the system sits in the panic loop.                        *)
Halted == fault # "none" /\ UNCHANGED vars

Next ==
  \/ \E m \in ChannelMaps, h \in HopAndScas : New(m, h)
  \/ \E m \in ChannelMaps : UpdateLLData(m)
  \/ NextChannel
  \/ Halted

Spec == Init /\ [][Next]_vars

-----------------------------------------------------------------------------
(* Type invariant.                                                         *)
TypeOK ==
  /\ live \in BOOLEAN
  /\ conn \in ConnType
  /\ chan \in ChannelIndices \cup {NoChannel}
  /\ window \in Seq(ChannelIndices)
  /\ Len(window) <= NUMBER_DATA_CHANNELS
  /\ fault \in {"none", "DivideByZero"}

(* next_channel only ever returns a channel the current map marks used     *)
(* (the remapping table is indexed within the used channels).              *)
SelectsUsedChannel ==
  \A i \in 1..Len(window) : conn.channels[window[i]] = 1

(* Coverage (spec 6): over 37 consecutive next_channel calls under one map *)
(* every channel the map marks used is selected at least once.             *)
Coverage ==
  Len(window) = NUMBER_DATA_CHANNELS => UsedChannels(conn.channels) \subseteq Range(window)

(* The chm carries 37 significant bits (spec 3): next_channel must select  *)
(* a data channel 0..36, never an advertising channel 37..39.              *)
DataChannelOnly == chan # NoChannel => chan < NUMBER_DATA_CHANNELS

(* Strengthening of DataChannelOnly that TLAPS proves inductive when every *)
(* peer map keeps its reserved bits clear: the expanded map never marks an *)
(* advertising channel 37..39 as used.                                     *)
AdvertisingUnused ==
  \A k \in NUMBER_DATA_CHANNELS..(NUMBER_CHANNELS - 1) : conn.channels[k] = 0
=============================================================================
