------------------------- MODULE BleConnection_proofs -------------------------
(***************************************************************************)
(* Proofs about the hopping engine model BleConnection, for every set of  *)
(* channel maps and hop_and_sca bytes a peer may send.                    *)
(***************************************************************************)
EXTENDS BleConnection, FiniteSetTheorems, SequenceTheorems, TLAPS

(* The eight bit weights of a byte are positive integers.                  *)
LEMMA BitWeight ==
  ASSUME NEW j \in 0..7
  PROVE  2 ^ j \in Nat \ {0}
<1>1. CASE j = 0  BY <1>1
<1>2. CASE j = 1  BY <1>2
<1>3. CASE j = 2  BY <1>3
<1>4. CASE j = 3  BY <1>4
<1>5. CASE j = 4  BY <1>5
<1>6. CASE j = 5  BY <1>6
<1>7. CASE j = 6  BY <1>7
<1>8. CASE j = 7  BY <1>8
<1>. QED  BY <1>1, <1>2, <1>3, <1>4, <1>5, <1>6, <1>7, <1>8

(* expand_channel_map yields one 0/1 entry for each of the 40 channels.    *)
LEMMA ExpandType ==
  ASSUME NEW chm \in [1..5 -> Bytes]
  PROVE  ExpandChannelMap(chm) \in [ChannelIndices -> {0, 1}]
<1>1. ASSUME NEW k \in ChannelIndices
      PROVE  (chm[(k \div 8) + 1] \div (2 ^ (k % 8))) % 2 \in {0, 1}
  <2>1. (k \div 8) + 1 \in 1..5 /\ k % 8 \in 0..7
    BY DEF ChannelIndices, NUMBER_CHANNELS
  <2>2. chm[(k \div 8) + 1] \in Nat
    BY <2>1 DEF Bytes
  <2>3. 2 ^ (k % 8) \in Nat \ {0}
    BY <2>1, BitWeight
  <2>. QED  BY <2>2, <2>3
<1>. QED  BY <1>1 DEF ExpandChannelMap

(* number_used_channels is at most the 40 channels it counts.              *)
LEMMA NumberUsedType ==
  ASSUME NEW ch \in [ChannelIndices -> {0, 1}]
  PROVE  NumberUsed(ch) \in 0..NUMBER_CHANNELS
<1>1. IsFiniteSet(ChannelIndices) /\ Cardinality(ChannelIndices) = NUMBER_CHANNELS
  <2>1. ChannelIndices = 0..39
    BY DEF ChannelIndices, NUMBER_CHANNELS
  <2>2. IsFiniteSet(0..39) /\ Cardinality(0..39) = 40
    <3>1. 0 \in Int /\ 39 \in Int /\ ~(0 > 39) /\ 39 - 0 + 1 = 40
      OBVIOUS
    <3>2. IsFiniteSet(0..39) /\ Cardinality(0..39) = IF 0 > 39 THEN 0 ELSE 39 - 0 + 1
      BY <3>1, FS_Interval, Zenon
    <3>. QED  BY <3>1, <3>2
  <2>. QED  BY <2>1, <2>2 DEF NUMBER_CHANNELS
<1>2. UsedChannels(ch) \subseteq ChannelIndices
  BY DEF UsedChannels
<1>3. IsFiniteSet(UsedChannels(ch))
      /\ Cardinality(UsedChannels(ch)) <= NUMBER_CHANNELS
  BY <1>1, <1>2, FS_Subset
<1>4. Cardinality(UsedChannels(ch)) \in Nat
  BY <1>3, FS_CardinalityType
<1>. QED  BY <1>3, <1>4 DEF NumberUsed, NUMBER_CHANNELS

(* Every entry of the remapping table is a channel index.                  *)
LEMMA RemapTableType ==
  ASSUME NEW ch \in [ChannelIndices -> {0, 1}]
  PROVE  RemapTable(ch) \in [ChannelIndices -> ChannelIndices]
<1>1. ASSUME NEW idx \in ChannelIndices,
             \E i \in UsedChannels(ch) : Rank(ch, i) = idx
      PROVE  (CHOOSE i \in UsedChannels(ch) : Rank(ch, i) = idx) \in ChannelIndices
  BY <1>1 DEF UsedChannels
<1>2. 0 \in ChannelIndices
  BY DEF ChannelIndices, NUMBER_CHANNELS
<1>. QED  BY <1>1, <1>2 DEF RemapTable

(* ConnectionData::new builds a well-formed connection.                    *)
LEMMA NewConnectionType ==
  ASSUME NEW chm \in [1..5 -> Bytes], NEW h \in Bytes
  PROVE  NewConnection(chm, h) \in ConnType
<1>1. ExpandChannelMap(chm) \in [ChannelIndices -> {0, 1}]
  BY ExpandType
<1>2. NumberUsed(ExpandChannelMap(chm)) \in 0..NUMBER_CHANNELS
  BY <1>1, NumberUsedType
<1>3. h % 32 \in 0..31
  BY DEF Bytes
<1>4. 0 \in U16
  BY DEF U16
<1>. QED  BY <1>1, <1>2, <1>3, <1>4 DEF NewConnection, ConnType, NUMBER_DATA_CHANNELS,
                                       NUMBER_CHANNELS

(* The sliding window stays a sequence of at most 37 channel indices.      *)
LEMMA RecordType ==
  ASSUME NEW w \in Seq(ChannelIndices), Len(w) <= NUMBER_DATA_CHANNELS,
         NEW c \in ChannelIndices
  PROVE  Record(w, c) \in Seq(ChannelIndices)
         /\ Len(Record(w, c)) <= NUMBER_DATA_CHANNELS
<1>1. CASE Len(w) < NUMBER_DATA_CHANNELS
  BY <1>1, AppendProperties DEF Record, NUMBER_DATA_CHANNELS, NUMBER_CHANNELS
<1>2. CASE ~(Len(w) < NUMBER_DATA_CHANNELS)
  <2>1. w # << >>
    BY <1>2, EmptySeq DEF NUMBER_DATA_CHANNELS, NUMBER_CHANNELS
  <2>2. Tail(w) \in Seq(ChannelIndices) /\ Len(Tail(w)) = Len(w) - 1
    BY <2>1, HeadTailProperties
  <2>3. Append(Tail(w), c) \in Seq(ChannelIndices)
        /\ Len(Append(Tail(w), c)) = Len(w)
    BY <2>2, AppendProperties, LenProperties
  <2>. QED  BY <1>2, <2>3 DEF Record
<1>. QED  BY <1>1, <1>2

(* A window reset by New or update_lldata is well formed.                  *)
LEMMA EmptyWindow ==
  << >> \in Seq(ChannelIndices) /\ Len(<< >>) <= NUMBER_DATA_CHANNELS
<1>1. << >> \in Seq(ChannelIndices) /\ Len(<< >>) = 0
  BY EmptySeq
<1>. QED  BY <1>1 DEF NUMBER_DATA_CHANNELS, NUMBER_CHANNELS

LEMMA InitTypeOK == Init => TypeOK
<1> SUFFICES ASSUME Init PROVE TypeOK
  OBVIOUS
<1>1. NewConnection(CHOOSE m \in ChannelMaps : TRUE,
                    CHOOSE h \in HopAndScas : TRUE) \in ConnType
  BY ConnAssumption, NewConnectionType
<1>. QED  BY <1>1, EmptyWindow DEF Init, TypeOK

LEMMA NextTypeOK == TypeOK /\ [Next]_vars => TypeOK'
<1> SUFFICES ASSUME TypeOK, [Next]_vars PROVE TypeOK'
  OBVIOUS
<1>1. CASE \E m \in ChannelMaps, h \in HopAndScas : New(m, h)
  <2>1. PICK m \in ChannelMaps, h \in HopAndScas : New(m, h)
    BY <1>1
  <2>2. NewConnection(m, h) \in ConnType
    BY ConnAssumption, NewConnectionType
  <2>. QED  BY <2>1, <2>2, EmptyWindow DEF New, TypeOK
<1>2. CASE \E m \in ChannelMaps : UpdateLLData(m)
  <2>1. PICK m \in ChannelMaps : UpdateLLData(m)
    BY <1>2
  <2>2. ExpandChannelMap(m) \in [ChannelIndices -> {0, 1}]
    BY ConnAssumption, ExpandType
  <2>3. NumberUsed(ExpandChannelMap(m)) \in 0..NUMBER_CHANNELS
    BY <2>2, NumberUsedType
  <2>4. conn' \in ConnType
    BY <2>1, <2>2, <2>3 DEF UpdateLLData, TypeOK, ConnType, ChannelIndices,
                            NUMBER_CHANNELS, NUMBER_DATA_CHANNELS
  <2>. QED  BY <2>1, <2>4, EmptyWindow DEF UpdateLLData, TypeOK
<1>3. CASE NextChannel
  <2>1. /\ conn.last \in 0..36 /\ conn.hop \in 0..31
        /\ conn.used \in 0..NUMBER_CHANNELS
        /\ conn.channels \in [ChannelIndices -> {0, 1}]
    BY DEF TypeOK, ConnType, NUMBER_DATA_CHANNELS, NUMBER_CHANNELS, ChannelIndices
  <2>2. Unmapped(conn) \in 0..36
    BY <2>1 DEF Unmapped, NUMBER_DATA_CHANNELS, NUMBER_CHANNELS
  <2>3. conn' \in ConnType
    <3>1. conn' = [conn EXCEPT !.last = Unmapped(conn)]
      BY <1>3 DEF NextChannel
    <3>2. ASSUME NEW c \in ConnType, NEW v \in 0..36
          PROVE  [c EXCEPT !.last = v] \in ConnType
      BY DEF ConnType, NUMBER_DATA_CHANNELS, NUMBER_CHANNELS
    <3>3. [conn EXCEPT !.last = Unmapped(conn)] \in ConnType
      BY <2>2, <3>2 DEF TypeOK
    <3>. QED  BY <3>1, <3>3
  <2>4. Unmapped(conn) \in ChannelIndices
    BY <2>2 DEF ChannelIndices, NUMBER_CHANNELS
  <2>5. conn.used # 0 =>
          RemapTable(conn.channels)[Unmapped(conn) % conn.used] \in ChannelIndices
    <3> SUFFICES ASSUME conn.used # 0
                 PROVE  RemapTable(conn.channels)[Unmapped(conn) % conn.used]
                          \in ChannelIndices
      OBVIOUS
    <3>1. Unmapped(conn) % conn.used \in ChannelIndices
      BY <2>1, <2>2 DEF ChannelIndices, NUMBER_CHANNELS
    <3>2. RemapTable(conn.channels) \in [ChannelIndices -> ChannelIndices]
      BY <2>1, RemapTableType
    <3>. QED  BY <3>1, <3>2
  <2>6. \A c \in ChannelIndices :
          Record(window, c) \in Seq(ChannelIndices)
          /\ Len(Record(window, c)) <= NUMBER_DATA_CHANNELS
    BY RecordType DEF TypeOK
  <2>. QED  BY <1>3, <2>3, <2>4, <2>5, <2>6
             DEF NextChannel, TypeOK, NoChannel
<1>4. CASE Halted
  BY <1>4 DEF Halted, vars, TypeOK
<1>5. CASE UNCHANGED vars
  BY <1>5 DEF vars, TypeOK
<1>. QED  BY <1>1, <1>2, <1>3, <1>4, <1>5 DEF Next

(* Type correctness of the hopping engine (TypeOK, checked by             *)
(* hop_valid_maps): for every set of channel maps and hop bytes, the      *)
(* connection fields keep their Rust types' ranges, last_unmapped_channel *)
(* stays below 37 and next_channel only returns a channel index 0..39.   *)
THEOREM TypeCorrect == Spec => []TypeOK
BY InitTypeOK, NextTypeOK, PTL DEF Spec

-----------------------------------------------------------------------------
(* With the reserved bits of every peer map clear, next_channel selects    *)
(* data channels only.  DataChannelOnly is not inductive by itself: the    *)
(* remapping path returns an entry of the table, so the invariant also     *)
(* records that the expanded map marks no advertising channel as used.     *)
DataInv == TypeOK /\ AdvertisingUnused /\ DataChannelOnly

(* A map with its reserved bits clear expands to 0 at channels 37..39.     *)
LEMMA ExpandAdvertisingUnused ==
  ASSUME NEW chm \in [1..5 -> Bytes], RfuBitsClear(chm)
  PROVE  \A k \in NUMBER_DATA_CHANNELS..(NUMBER_CHANNELS - 1) :
           ExpandChannelMap(chm)[k] = 0
<1> SUFFICES ASSUME NEW k \in 37..39
             PROVE  ExpandChannelMap(chm)[k] = 0
  BY DEF NUMBER_DATA_CHANNELS, NUMBER_CHANNELS
<1>1. chm[5] \in 0..31
  BY DEF RfuBitsClear, Bytes
<1>2. ExpandChannelMap(chm)[k] = (chm[(k \div 8) + 1] \div (2 ^ (k % 8))) % 2
  BY DEF ExpandChannelMap, ChannelIndices, NUMBER_CHANNELS
<1>3. (chm[(k \div 8) + 1] \div (2 ^ (k % 8))) % 2 = 0
  <2>1. CASE k = 37  BY <1>1, <2>1
  <2>2. CASE k = 38  BY <1>1, <2>2
  <2>3. CASE k = 39  BY <1>1, <2>3
  <2>. QED  BY <2>1, <2>2, <2>3
<1>. QED  BY <1>2, <1>3

(* When no advertising channel is used, every remapping-table entry is a   *)
(* data channel: it is either a used channel or the table's fill value 0.  *)
LEMMA RemapTableData ==
  ASSUME NEW ch \in [ChannelIndices -> {0, 1}],
         \A k \in NUMBER_DATA_CHANNELS..(NUMBER_CHANNELS - 1) : ch[k] = 0,
         NEW idx \in ChannelIndices
  PROVE  RemapTable(ch)[idx] < NUMBER_DATA_CHANNELS
<1>1. ASSUME NEW i \in UsedChannels(ch)
      PROVE  i < NUMBER_DATA_CHANNELS
  BY DEF UsedChannels, ChannelIndices, NUMBER_DATA_CHANNELS, NUMBER_CHANNELS
<1>2. CASE \E i \in UsedChannels(ch) : Rank(ch, i) = idx
  <2>1. PICK i \in UsedChannels(ch) :
               i = CHOOSE j \in UsedChannels(ch) : Rank(ch, j) = idx
    BY <1>2
  <2>. QED  BY <1>1, <1>2, <2>1 DEF RemapTable
<1>3. CASE ~\E i \in UsedChannels(ch) : Rank(ch, i) = idx
  BY <1>3 DEF RemapTable, NUMBER_DATA_CHANNELS, NUMBER_CHANNELS
<1>. QED  BY <1>2, <1>3

LEMMA InitDataInv ==
  ASSUME \A m \in ChannelMaps : RfuBitsClear(m)
  PROVE  Init => DataInv
<1> SUFFICES ASSUME Init PROVE DataInv
  OBVIOUS
<1>1. TypeOK
  BY InitTypeOK
<1>2. AdvertisingUnused
  <2>1. (CHOOSE m \in ChannelMaps : TRUE) \in ChannelMaps
    BY ConnAssumption
  <2>2. \A k \in NUMBER_DATA_CHANNELS..(NUMBER_CHANNELS - 1) :
          ExpandChannelMap(CHOOSE m \in ChannelMaps : TRUE)[k] = 0
    BY <2>1, ConnAssumption, ExpandAdvertisingUnused
  <2>. QED  BY <2>2 DEF Init, NewConnection, AdvertisingUnused
<1>3. DataChannelOnly
  BY DEF Init, DataChannelOnly
<1>. QED  BY <1>1, <1>2, <1>3 DEF DataInv

LEMMA NextDataInv ==
  ASSUME \A m \in ChannelMaps : RfuBitsClear(m)
  PROVE  DataInv /\ [Next]_vars => DataInv'
<1> SUFFICES ASSUME DataInv, [Next]_vars PROVE DataInv'
  OBVIOUS
<1>0. TypeOK'
  BY NextTypeOK DEF DataInv
<1>1. CASE \E m \in ChannelMaps, h \in HopAndScas : New(m, h)
  <2>1. PICK m \in ChannelMaps, h \in HopAndScas : New(m, h)
    BY <1>1
  <2>2. \A k \in NUMBER_DATA_CHANNELS..(NUMBER_CHANNELS - 1) :
          ExpandChannelMap(m)[k] = 0
    BY ConnAssumption, ExpandAdvertisingUnused
  <2>3. AdvertisingUnused'
    BY <2>1, <2>2 DEF New, NewConnection, AdvertisingUnused
  <2>. QED  BY <1>0, <2>1, <2>3 DEF New, DataInv, DataChannelOnly
<1>2. CASE \E m \in ChannelMaps : UpdateLLData(m)
  <2>1. PICK m \in ChannelMaps : UpdateLLData(m)
    BY <1>2
  <2>2. \A k \in NUMBER_DATA_CHANNELS..(NUMBER_CHANNELS - 1) :
          ExpandChannelMap(m)[k] = 0
    BY ConnAssumption, ExpandAdvertisingUnused
  <2>3. conn'.channels = ExpandChannelMap(m)
    BY <2>1 DEF UpdateLLData, DataInv, TypeOK, ConnType
  <2>4. AdvertisingUnused'
    BY <2>2, <2>3 DEF AdvertisingUnused
  <2>. QED  BY <1>0, <2>1, <2>4 DEF UpdateLLData, DataInv, DataChannelOnly
<1>3. CASE NextChannel
  <2>1. /\ conn.last \in 0..36 /\ conn.hop \in 0..31
        /\ conn.used \in 0..NUMBER_CHANNELS
        /\ conn.channels \in [ChannelIndices -> {0, 1}]
    BY DEF DataInv, TypeOK, ConnType, NUMBER_DATA_CHANNELS, NUMBER_CHANNELS,
           ChannelIndices
  <2>2. Unmapped(conn) \in 0..36
    BY <2>1 DEF Unmapped, NUMBER_DATA_CHANNELS, NUMBER_CHANNELS
  <2>3. conn'.channels = conn.channels
    BY <1>3 DEF NextChannel, DataInv, TypeOK, ConnType
  <2>4. AdvertisingUnused'
    BY <2>3 DEF DataInv, AdvertisingUnused
  <2>5. conn.used # 0 =>
          RemapTable(conn.channels)[Unmapped(conn) % conn.used]
            < NUMBER_DATA_CHANNELS
    <3> SUFFICES ASSUME conn.used # 0
                 PROVE  RemapTable(conn.channels)[Unmapped(conn) % conn.used]
                          < NUMBER_DATA_CHANNELS
      OBVIOUS
    <3>1. Unmapped(conn) % conn.used \in ChannelIndices
      BY <2>1, <2>2 DEF ChannelIndices, NUMBER_CHANNELS
    <3>. QED  BY <2>1, <3>1, RemapTableData DEF DataInv, AdvertisingUnused
  <2>6. DataChannelOnly'
    BY <1>3, <2>2, <2>5 DEF NextChannel, DataInv, DataChannelOnly,
                            NUMBER_DATA_CHANNELS, NUMBER_CHANNELS
  <2>. QED  BY <1>0, <2>4, <2>6 DEF DataInv
<1>4. CASE Halted
  BY <1>4 DEF Halted, vars, DataInv, TypeOK, AdvertisingUnused, DataChannelOnly
<1>5. CASE UNCHANGED vars
  BY <1>5 DEF vars, DataInv, TypeOK, AdvertisingUnused, DataChannelOnly
<1>. QED  BY <1>1, <1>2, <1>3, <1>4, <1>5 DEF Next

(* Data channels only (DataChannelOnly, checked by hop_valid_maps): when  *)
(* every chm a peer sends keeps its reserved bits 37..39 clear, every     *)
(* channel next_channel returns, directly or through the remapping table, *)
(* is a data channel 0..36, for every set of maps and hop increments.     *)
THEOREM DataChannelsOnly ==
  ASSUME \A m \in ChannelMaps : RfuBitsClear(m)
  PROVE  Spec => []DataChannelOnly
<1>1. Init => DataInv
  BY InitDataInv
<1>2. DataInv /\ [Next]_vars => DataInv'
  BY NextDataInv
<1>3. DataInv => DataChannelOnly
  BY DEF DataInv
<1>. QED  BY <1>1, <1>2, <1>3, PTL DEF Spec

-----------------------------------------------------------------------------
(* The set of used channels is finite and number_used_channels counts it. *)
LEMMA UsedChannelsFinite ==
  ASSUME NEW ch \in [ChannelIndices -> {0, 1}]
  PROVE  /\ IsFiniteSet(UsedChannels(ch))
         /\ NumberUsed(ch) \in Nat
         /\ UsedChannels(ch) \subseteq ChannelIndices
<1>1. IsFiniteSet(ChannelIndices)
  <2>1. IsFiniteSet(0..39)
    <3>1. 0 \in Int /\ 39 \in Int
      OBVIOUS
    <3>. QED  BY <3>1, FS_Interval, Zenon
  <2>. QED  BY <2>1 DEF ChannelIndices, NUMBER_CHANNELS
<1>2. UsedChannels(ch) \subseteq ChannelIndices
  BY DEF UsedChannels
<1>3. IsFiniteSet(UsedChannels(ch))
  BY <1>1, <1>2, FS_Subset
<1>. QED  BY <1>2, <1>3, FS_CardinalityType DEF NumberUsed

(* The rank of a used channel is below the number of used channels.        *)
LEMMA RankRange ==
  ASSUME NEW ch \in [ChannelIndices -> {0, 1}], NEW i \in UsedChannels(ch)
  PROVE  Rank(ch, i) \in 0..(NumberUsed(ch) - 1)
<1>1. IsFiniteSet(UsedChannels(ch)) /\ NumberUsed(ch) \in Nat
  BY UsedChannelsFinite
<1>2. IsFiniteSet(UsedChannels(ch) \ {i})
      /\ Cardinality(UsedChannels(ch) \ {i}) = NumberUsed(ch) - 1
  BY <1>1, FS_RemoveElement DEF NumberUsed
<1>3. {j \in UsedChannels(ch) : j < i} \subseteq UsedChannels(ch) \ {i}
  BY UsedChannelsFinite DEF ChannelIndices
<1>4. Cardinality({j \in UsedChannels(ch) : j < i}) <= NumberUsed(ch) - 1
      /\ Cardinality({j \in UsedChannels(ch) : j < i}) \in Nat
  BY <1>2, <1>3, FS_Subset, FS_CardinalityType
<1>. QED  BY <1>4 DEF Rank

(* A lower used channel has a lower rank.                                  *)
LEMMA RankStrict ==
  ASSUME NEW ch \in [ChannelIndices -> {0, 1}],
         NEW i \in UsedChannels(ch), NEW j \in UsedChannels(ch), i < j
  PROVE  Rank(ch, i) < Rank(ch, j)
<1>1. IsFiniteSet(UsedChannels(ch)) /\ UsedChannels(ch) \subseteq ChannelIndices
  BY UsedChannelsFinite
<1>2. IsFiniteSet({k \in UsedChannels(ch) : k < j})
      /\ Cardinality({k \in UsedChannels(ch) : k < j}) \in Nat
  BY <1>1, FS_Subset, FS_CardinalityType
<1>3. i \in {k \in UsedChannels(ch) : k < j}
  OBVIOUS
<1>4. IsFiniteSet({k \in UsedChannels(ch) : k < j} \ {i})
      /\ Cardinality({k \in UsedChannels(ch) : k < j} \ {i})
           = Cardinality({k \in UsedChannels(ch) : k < j}) - 1
  BY <1>2, <1>3, FS_RemoveElement
<1>5. {k \in UsedChannels(ch) : k < i} \subseteq {k \in UsedChannels(ch) : k < j} \ {i}
  BY <1>1 DEF ChannelIndices
<1>6. Cardinality({k \in UsedChannels(ch) : k < i})
        <= Cardinality({k \in UsedChannels(ch) : k < j}) - 1
      /\ Cardinality({k \in UsedChannels(ch) : k < i}) \in Nat
  BY <1>4, <1>5, FS_Subset, FS_CardinalityType
<1>. QED  BY <1>2, <1>6 DEF Rank

(* Rank maps the used channels onto 0 .. number_used_channels - 1: every   *)
(* index below the count is the rank of some used channel.                 *)
LEMMA RankOnto ==
  ASSUME NEW ch \in [ChannelIndices -> {0, 1}],
         NEW idx \in 0..(NumberUsed(ch) - 1)
  PROVE  \E i \in UsedChannels(ch) : Rank(ch, i) = idx
<1>1. IsFiniteSet(UsedChannels(ch)) /\ NumberUsed(ch) \in Nat
      /\ UsedChannels(ch) \subseteq ChannelIndices
  BY UsedChannelsFinite
<1>2. [i \in UsedChannels(ch) |-> Rank(ch, i)]
        \in [UsedChannels(ch) -> 0..(NumberUsed(ch) - 1)]
  BY RankRange
<1>3. \A a, b \in UsedChannels(ch) : Rank(ch, a) = Rank(ch, b) => a = b
  <2> SUFFICES ASSUME NEW a \in UsedChannels(ch), NEW b \in UsedChannels(ch),
                      Rank(ch, a) = Rank(ch, b)
               PROVE  a = b
    OBVIOUS
  <2>1. Rank(ch, a) \in Nat /\ Rank(ch, b) \in Nat
    BY RankRange
  <2>2. a < b => Rank(ch, a) < Rank(ch, b)
    BY RankStrict
  <2>3. b < a => Rank(ch, b) < Rank(ch, a)
    BY RankStrict
  <2>. QED  BY <1>1, <2>1, <2>2, <2>3 DEF ChannelIndices
<1>4. [i \in UsedChannels(ch) |-> Rank(ch, i)]
        \in Injection(UsedChannels(ch), 0..(NumberUsed(ch) - 1))
  BY <1>2, <1>3 DEF Injection, IsInjective
<1>5. IsFiniteSet(0..(NumberUsed(ch) - 1))
      /\ Cardinality(0..(NumberUsed(ch) - 1)) = NumberUsed(ch)
  <2>1. IsFiniteSet(0..(NumberUsed(ch) - 1))
        /\ Cardinality(0..(NumberUsed(ch) - 1))
             = IF 0 > NumberUsed(ch) - 1 THEN 0 ELSE (NumberUsed(ch) - 1) - 0 + 1
    <3>1. 0 \in Int /\ NumberUsed(ch) - 1 \in Int
      BY <1>1
    <3>. QED  BY <3>1, FS_Interval, Zenon
  <2>. QED  BY <1>1, <2>1
<1>6. [i \in UsedChannels(ch) |-> Rank(ch, i)]
        \in Surjection(UsedChannels(ch), 0..(NumberUsed(ch) - 1))
  BY <1>4, <1>5, FS_Injection DEF NumberUsed
<1>. QED  BY <1>6 DEF Surjection

(* Below number_used_channels the remapping table holds a used channel.    *)
LEMMA RemapTableUsed ==
  ASSUME NEW ch \in [ChannelIndices -> {0, 1}],
         NEW idx \in 0..(NumberUsed(ch) - 1)
  PROVE  ch[RemapTable(ch)[idx]] = 1
<1>1. \E i \in UsedChannels(ch) : Rank(ch, i) = idx
  BY RankOnto
<1>2. idx \in ChannelIndices
  <2>1. NumberUsed(ch) \in 0..NUMBER_CHANNELS
    BY NumberUsedType
  <2>. QED  BY <2>1 DEF ChannelIndices, NUMBER_CHANNELS
<1>3. RemapTable(ch)[idx] = CHOOSE i \in UsedChannels(ch) : Rank(ch, i) = idx
  BY <1>1, <1>2 DEF RemapTable
<1>4. RemapTable(ch)[idx] \in UsedChannels(ch)
  BY <1>1, <1>3
<1>. QED  BY <1>4 DEF UsedChannels
(* Recording a used channel keeps every channel of the window used.        *)
LEMMA RecordUsed ==
  ASSUME NEW ch \in [ChannelIndices -> {0, 1}],
         NEW w \in Seq(ChannelIndices), NEW c \in ChannelIndices,
         \A i \in 1..Len(w) : ch[w[i]] = 1,
         ch[c] = 1
  PROVE  \A i \in 1..Len(Record(w, c)) : ch[Record(w, c)[i]] = 1
<1>1. CASE Len(w) < NUMBER_DATA_CHANNELS
  <2>1. Record(w, c) = Append(w, c)
    BY <1>1 DEF Record
  <2>2. /\ Len(Append(w, c)) = Len(w) + 1
        /\ \A i \in 1..Len(w) : Append(w, c)[i] = w[i]
        /\ Append(w, c)[Len(w) + 1] = c
    BY AppendProperties
  <2>. QED  BY <2>1, <2>2
<1>2. CASE ~(Len(w) < NUMBER_DATA_CHANNELS)
  <2>1. w # << >>
    BY <1>2, EmptySeq DEF NUMBER_DATA_CHANNELS, NUMBER_CHANNELS
  <2>2. /\ Tail(w) \in Seq(ChannelIndices)
        /\ Len(Tail(w)) = Len(w) - 1
        /\ \A i \in 1..Len(Tail(w)) : Tail(w)[i] = w[i + 1]
    BY <2>1, HeadTailProperties
  <2>3. \A i \in 1..Len(Tail(w)) : ch[Tail(w)[i]] = 1
    BY <2>2
  <2>4. /\ Len(Append(Tail(w), c)) = Len(Tail(w)) + 1
        /\ \A i \in 1..Len(Tail(w)) : Append(Tail(w), c)[i] = Tail(w)[i]
        /\ Append(Tail(w), c)[Len(Tail(w)) + 1] = c
    BY <2>2, AppendProperties
  <2>5. Record(w, c) = Append(Tail(w), c)
    BY <1>2 DEF Record
  <2>6. Len(Tail(w)) \in Nat
    BY <2>2
  <2>7. ASSUME NEW i \in 1..Len(Record(w, c))
        PROVE  ch[Record(w, c)[i]] = 1
    <3>1. CASE i <= Len(Tail(w))
      BY <2>3, <2>4, <2>5, <2>6, <3>1
    <3>2. CASE ~(i <= Len(Tail(w)))
      <4>1. i = Len(Tail(w)) + 1
        BY <2>4, <2>5, <2>6, <3>2
      <4>. QED  BY <2>4, <2>5, <4>1
    <3>. QED  BY <3>1, <3>2
  <2>. QED  BY <2>7
<1>. QED  BY <1>1, <1>2

(* The strengthening of SelectsUsedChannel: number_used_channels is the    *)
(* count of the map next_channel remaps through.                          *)
UsedInv == TypeOK /\ conn.used = NumberUsed(conn.channels) /\ SelectsUsedChannel

LEMMA InitUsedInv == Init => UsedInv
<1> SUFFICES ASSUME Init PROVE UsedInv
  OBVIOUS
<1>1. TypeOK
  BY InitTypeOK
<1>2. conn.used = NumberUsed(conn.channels)
  BY DEF Init, NewConnection
<1>3. SelectsUsedChannel
  BY EmptySeq DEF Init, SelectsUsedChannel
<1>. QED  BY <1>1, <1>2, <1>3 DEF UsedInv

LEMMA NextUsedInv == UsedInv /\ [Next]_vars => UsedInv'
<1> SUFFICES ASSUME UsedInv, [Next]_vars PROVE UsedInv'
  OBVIOUS
<1>0. TypeOK'
  BY NextTypeOK DEF UsedInv
<1>1. CASE \E m \in ChannelMaps, h \in HopAndScas : New(m, h)
  <2>1. PICK m \in ChannelMaps, h \in HopAndScas : New(m, h)
    BY <1>1
  <2>2. conn'.used = NumberUsed(conn'.channels)
    BY <2>1 DEF New, NewConnection
  <2>3. SelectsUsedChannel'
    BY <2>1, EmptySeq DEF New, SelectsUsedChannel
  <2>. QED  BY <1>0, <2>2, <2>3 DEF UsedInv
<1>2. CASE \E m \in ChannelMaps : UpdateLLData(m)
  <2>1. PICK m \in ChannelMaps : UpdateLLData(m)
    BY <1>2
  <2>2. conn'.channels = ExpandChannelMap(m)
        /\ conn'.used = NumberUsed(ExpandChannelMap(m))
    BY <2>1 DEF UpdateLLData, UsedInv, TypeOK, ConnType
  <2>3. SelectsUsedChannel'
    BY <2>1, EmptySeq DEF UpdateLLData, SelectsUsedChannel
  <2>. QED  BY <1>0, <2>2, <2>3 DEF UsedInv
<1>3. CASE NextChannel
  <2>1. /\ conn.last \in 0..36 /\ conn.hop \in 0..31
        /\ conn.channels \in [ChannelIndices -> {0, 1}]
    BY DEF UsedInv, TypeOK, ConnType, NUMBER_DATA_CHANNELS, NUMBER_CHANNELS
  <2>9. window \in Seq(ChannelIndices)
    BY DEF UsedInv, TypeOK
  <2>2. Unmapped(conn) \in ChannelIndices
    <3>1. Unmapped(conn) \in 0..36
      BY <2>1 DEF Unmapped, NUMBER_DATA_CHANNELS, NUMBER_CHANNELS
    <3>. QED  BY <3>1 DEF ChannelIndices, NUMBER_CHANNELS
  <2>3. conn'.channels = conn.channels /\ conn'.used = conn.used
    BY <1>3 DEF NextChannel, UsedInv, TypeOK, ConnType
  <2>4. conn.used # 0 =>
          conn.channels[RemapTable(conn.channels)[Unmapped(conn) % conn.used]] = 1
    <3> SUFFICES ASSUME conn.used # 0
                 PROVE  conn.channels[RemapTable(conn.channels)[Unmapped(conn) % conn.used]] = 1
      OBVIOUS
    <3>1. conn.used = NumberUsed(conn.channels)
      BY DEF UsedInv
    <3>2. conn.used \in Nat
      BY <2>1, <3>1, NumberUsedType
    <3>3. Unmapped(conn) \in Nat
      BY <2>2 DEF ChannelIndices
    <3>4. Unmapped(conn) % conn.used \in 0..(conn.used - 1)
      BY <3>2, <3>3
    <3>. QED  BY <2>1, <3>1, <3>4, RemapTableUsed
  <2>5. \A c \in ChannelIndices :
          conn.channels[c] = 1 =>
            \A i \in 1..Len(Record(window, c)) : conn.channels[Record(window, c)[i]] = 1
    BY <2>1, <2>9, RecordUsed DEF UsedInv, SelectsUsedChannel
  <2>6. RemapTable(conn.channels) \in [ChannelIndices -> ChannelIndices]
    BY <2>1, RemapTableType
  <2>7. conn.used # 0 => Unmapped(conn) % conn.used \in ChannelIndices
    <3>1. conn.used \in 0..NUMBER_CHANNELS
      BY <2>1, NumberUsedType DEF UsedInv
    <3>2. Unmapped(conn) \in Nat
      BY <2>2 DEF ChannelIndices
    <3>3. conn.used # 0 => Unmapped(conn) % conn.used \in 0..(conn.used - 1)
      BY <3>1, <3>2
    <3>. QED  BY <3>1, <3>3 DEF ChannelIndices, NUMBER_CHANNELS
  <2>8. SelectsUsedChannel'
    <3>1. CASE conn.channels[Unmapped(conn)] = 1
      <4>1. window' = Record(window, Unmapped(conn))
        BY <1>3, <3>1 DEF NextChannel
      <4>. QED  BY <2>2, <2>3, <2>5, <3>1, <4>1 DEF SelectsUsedChannel
    <3>2. CASE conn.channels[Unmapped(conn)] # 1 /\ conn.used = 0
      <4>1. window' = window
        BY <1>3, <3>2 DEF NextChannel
      <4>. QED  BY <2>3, <4>1 DEF UsedInv, SelectsUsedChannel
    <3>3. CASE conn.channels[Unmapped(conn)] # 1 /\ conn.used # 0
      <4>1. window' = Record(window, RemapTable(conn.channels)[Unmapped(conn) % conn.used])
        BY <1>3, <3>3 DEF NextChannel
      <4>2. RemapTable(conn.channels)[Unmapped(conn) % conn.used] \in ChannelIndices
        BY <2>6, <2>7, <3>3
      <4>. QED  BY <2>3, <2>4, <2>5, <3>3, <4>1, <4>2 DEF SelectsUsedChannel
    <3>. QED  BY <3>1, <3>2, <3>3
  <2>. QED  BY <1>0, <2>3, <2>8 DEF UsedInv
<1>4. CASE Halted
  BY <1>4 DEF Halted, vars, UsedInv, TypeOK, SelectsUsedChannel
<1>5. CASE UNCHANGED vars
  BY <1>5 DEF vars, UsedInv, TypeOK, SelectsUsedChannel
<1>. QED  BY <1>1, <1>2, <1>3, <1>4, <1>5 DEF Next

(* Used channels only (SelectsUsedChannel, checked by hop_valid_maps): for *)
(* every set of channel maps and hop increments, each channel next_channel *)
(* has returned since the map was last loaded, whether it is the unmapped  *)
(* channel or read from the remapping table at last_unmapped %             *)
(* number_used_channels, is a channel the current map marks used.         *)
THEOREM UsedChannelsOnly == Spec => []SelectsUsedChannel
<1>1. Init => UsedInv
  BY InitUsedInv
<1>2. UsedInv /\ [Next]_vars => UsedInv'
  BY NextUsedInv
<1>3. UsedInv => SelectsUsedChannel
  BY DEF UsedInv
<1>. QED  BY <1>1, <1>2, <1>3, PTL DEF Spec
-----------------------------------------------------------------------------
(* Coverage.  Under one map, the unmapped channels of successive           *)
(* next_channel calls are s + hop, s + 2*hop, ... modulo 37, and a used    *)
(* unmapped channel is returned as it is.  37 is prime, so a nonzero hop   *)
(* visits every residue within 37 calls.                                   *)

(* The unmapped channel i calls of hop h after last_unmapped was s.        *)
HopAt(s, h, i) == (s + i * h) % NUMBER_DATA_CHANNELS

(* No multiple of a hop 1..31 below 37 * hop is divisible by 37.           *)
LEMMA HopNoZeroDivisor ==
  \A d \in 1..36, h \in 1..31 : (d * h) % 37 # 0
BY Z3

(* 37 consecutive unmapped channels of a nonzero hop are all 37 channels.  *)
LEMMA HopCoversMod ==
  ASSUME NEW s \in 0..36, NEW h \in 1..31, NEW c \in 0..36
  PROVE  \E i \in 1..37 : (s + i * h) % 37 = c
<1>1. [i \in 1..37 |-> (s + i * h) % 37] \in [1..37 -> 0..36]
  OBVIOUS
<1>2. ASSUME NEW i \in 1..37, NEW j \in 1..37, i > j,
             (s + i * h) % 37 = (s + j * h) % 37
      PROVE  FALSE
  <2>1. ((i - j) * h) % 37 = 0
    BY <1>2
  <2>2. i - j \in 1..36
    BY <1>2
  <2>3. ((i - j) * h) % 37 # 0
    BY <2>2, HopNoZeroDivisor, Zenon
  <2>. QED  BY <2>1, <2>3
<1>6. \A i, j \in 1..37 : (s + i * h) % 37 = (s + j * h) % 37 => i = j
  <2> SUFFICES ASSUME NEW i \in 1..37, NEW j \in 1..37,
                      (s + i * h) % 37 = (s + j * h) % 37
               PROVE  i = j
    OBVIOUS
  <2>1. ~(i > j)
    BY <1>2, Zenon
  <2>2. ~(j > i)
    BY <1>2, Zenon
  <2>. QED  BY <2>1, <2>2
<1>3. [i \in 1..37 |-> (s + i * h) % 37] \in Injection(1..37, 0..36)
  BY <1>1, <1>6 DEF Injection, IsInjective
<1>4. IsFiniteSet(0..36) /\ Cardinality(0..36) = 37
      /\ IsFiniteSet(1..37) /\ Cardinality(1..37) = 37
  <2>1. 0 \in Int /\ 36 \in Int /\ 1 \in Int /\ 37 \in Int
    OBVIOUS
  <2>2. IsFiniteSet(0..36) /\ Cardinality(0..36) = IF 0 > 36 THEN 0 ELSE 36 - 0 + 1
    BY <2>1, FS_Interval, Zenon
  <2>3. IsFiniteSet(1..37) /\ Cardinality(1..37) = IF 1 > 37 THEN 0 ELSE 37 - 1 + 1
    BY <2>1, FS_Interval, Zenon
  <2>. QED  BY <2>2, <2>3
<1>5. [i \in 1..37 |-> (s + i * h) % 37] \in Surjection(1..37, 0..36)
  BY <1>3, <1>4, FS_Injection
<1>. QED  BY <1>5 DEF Surjection

LEMMA HopCovers ==
  ASSUME NEW s \in 0..36, NEW h \in 1..31, NEW c \in 0..36
  PROVE  \E i \in 1..37 : HopAt(s, h, i) = c
<1>1. \A i \in 1..37 : HopAt(s, h, i) = (s + i * h) % 37
  BY DEF HopAt, NUMBER_DATA_CHANNELS, NUMBER_CHANNELS
<1>2. \E i \in 1..37 : (s + i * h) % 37 = c
  BY HopCoversMod
<1>. QED  BY <1>1, <1>2, Zenon

(* Positions of the hop sequence are channels 0..36.                       *)
LEMMA HopAtType ==
  ASSUME NEW s \in Int, NEW h \in Int, NEW i \in Int
  PROVE  HopAt(s, h, i) \in 0..36
BY DEF HopAt, NUMBER_DATA_CHANNELS, NUMBER_CHANNELS

(* Starting one hop later shifts the sequence by one position; position 0 *)
(* of a sequence from s in 0..36 is s.                                    *)
LEMMA HopShift ==
  ASSUME NEW s \in Int, NEW h \in Int, NEW i \in Int
  PROVE  /\ HopAt(HopAt(s, h, 1), h, i) = HopAt(s, h, i + 1)
         /\ s \in 0..36 => HopAt(s, h, 0) = s
         /\ HopAt(HopAt(s, h, i), h, 1) = HopAt(s, h, i + 1)
BY DEF HopAt, NUMBER_DATA_CHANNELS, NUMBER_CHANNELS

(* The shape of the window after Record: appended while shorter than 37, *)
(* otherwise shifted by one with the new channel last.                     *)
LEMMA RecordShape ==
  ASSUME NEW w \in Seq(ChannelIndices), NEW c \in ChannelIndices
  PROVE  IF Len(w) < NUMBER_DATA_CHANNELS
         THEN /\ Len(Record(w, c)) = Len(w) + 1
              /\ \A i \in 1..Len(w) : Record(w, c)[i] = w[i]
              /\ Record(w, c)[Len(w) + 1] = c
         ELSE /\ Len(Record(w, c)) = Len(w)
              /\ \A i \in 1..(Len(w) - 1) : Record(w, c)[i] = w[i + 1]
              /\ Record(w, c)[Len(w)] = c
<1>1. CASE Len(w) < NUMBER_DATA_CHANNELS
  BY <1>1, AppendProperties DEF Record
<1>2. CASE ~(Len(w) < NUMBER_DATA_CHANNELS)
  <2>1. w # << >>
    BY <1>2, EmptySeq DEF NUMBER_DATA_CHANNELS, NUMBER_CHANNELS
  <2>2. /\ Tail(w) \in Seq(ChannelIndices)
        /\ Len(Tail(w)) = Len(w) - 1
        /\ \A i \in 1..Len(Tail(w)) : Tail(w)[i] = w[i + 1]
    BY <2>1, HeadTailProperties
  <2>3. /\ Len(Append(Tail(w), c)) = Len(Tail(w)) + 1
        /\ \A i \in 1..Len(Tail(w)) : Append(Tail(w), c)[i] = Tail(w)[i]
        /\ Append(Tail(w), c)[Len(Tail(w)) + 1] = c
    BY <2>2, AppendProperties
  <2>4. Len(w) \in Nat
    BY LenProperties
  <2>. QED  BY <1>2, <2>2, <2>3, <2>4 DEF Record
<1>. QED  BY <1>1, <1>2

(* The window w is the tail of the hop sequence of h from s under map ch. *)
HopTail(ch, h, s, w) ==
  \A i \in 1..Len(w) : ch[HopAt(s, h, i)] = 1 => w[i] = HopAt(s, h, i)

(* Recording the unmapped channel, or a remapped channel when the          *)
(* unmapped one is unused, keeps the window the tail of a hop sequence.    *)
LEMMA RecordHop ==
  ASSUME NEW ch \in [ChannelIndices -> {0, 1}], NEW h \in 0..31,
         NEW w \in Seq(ChannelIndices), NEW s \in 0..36, HopTail(ch, h, s, w),
         NEW c \in ChannelIndices,
         ch[HopAt(s, h, Len(w) + 1)] = 1 => c = HopAt(s, h, Len(w) + 1)
  PROVE  \E t \in 0..36 :
           /\ HopTail(ch, h, t, Record(w, c))
           /\ HopAt(t, h, Len(Record(w, c))) = HopAt(s, h, Len(w) + 1)
<1>0. Len(w) \in Nat
  BY LenProperties
<1>1. CASE Len(w) < NUMBER_DATA_CHANNELS
  <2>1. /\ Len(Record(w, c)) = Len(w) + 1
        /\ \A i \in 1..Len(w) : Record(w, c)[i] = w[i]
        /\ Record(w, c)[Len(w) + 1] = c
    BY <1>1, RecordShape
  <2>2. HopTail(ch, h, s, Record(w, c))
    <3> SUFFICES ASSUME NEW i \in 1..Len(Record(w, c)), ch[HopAt(s, h, i)] = 1
                 PROVE  Record(w, c)[i] = HopAt(s, h, i)
      BY DEF HopTail
    <3>1. CASE i <= Len(w)
      BY <2>1, <3>1 DEF HopTail
    <3>2. CASE ~(i <= Len(w))
      <4>1. i = Len(w) + 1
        BY <1>0, <2>1, <3>2
      <4>. QED  BY <2>1, <4>1
    <3>. QED  BY <3>1, <3>2
  <2>. QED  BY <2>1, <2>2
<1>2. CASE ~(Len(w) < NUMBER_DATA_CHANNELS)
  <2>1. /\ Len(Record(w, c)) = Len(w)
        /\ \A i \in 1..(Len(w) - 1) : Record(w, c)[i] = w[i + 1]
        /\ Record(w, c)[Len(w)] = c
    BY <1>2, RecordShape
  <2>2. HopAt(s, h, 1) \in 0..36
    <3>1. s \in Int /\ h \in Int /\ 1 \in Int
      OBVIOUS
    <3>. QED  BY <3>1, HopAtType, Zenon
  <2>3. \A i \in Int : HopAt(HopAt(s, h, 1), h, i) = HopAt(s, h, i + 1)
    BY HopShift
  <2>4. HopTail(ch, h, HopAt(s, h, 1), Record(w, c))
    <3> SUFFICES ASSUME NEW i \in 1..Len(w), ch[HopAt(HopAt(s, h, 1), h, i)] = 1
                 PROVE  Record(w, c)[i] = HopAt(HopAt(s, h, 1), h, i)
      BY <2>1 DEF HopTail
    <3>0. i \in Int
      BY <1>0
    <3>1. HopAt(HopAt(s, h, 1), h, i) = HopAt(s, h, i + 1)
      BY <2>3, <3>0, Zenon
    <3>2. CASE i < Len(w)
      <4>1. i \in 1..(Len(w) - 1) /\ i + 1 \in 1..Len(w)
        BY <1>0, <3>2
      <4>2. ch[HopAt(s, h, i + 1)] = 1
        BY <3>1, Zenon
      <4>3. w[i + 1] = HopAt(s, h, i + 1)
        BY <4>1, <4>2, Zenon DEF HopTail
      <4>4. Record(w, c)[i] = w[i + 1]
        BY <2>1, <4>1, Zenon
      <4>. QED  BY <3>1, <4>3, <4>4, Zenon
    <3>3. CASE ~(i < Len(w))
      <4>1. i = Len(w)
        BY <1>0, <3>3
      <4>2. ch[HopAt(s, h, Len(w) + 1)] = 1
        BY <3>1, <4>1, Zenon
      <4>3. c = HopAt(s, h, Len(w) + 1)
        BY <4>2, Zenon
      <4>4. Record(w, c)[i] = c
        BY <2>1, <4>1, Zenon
      <4>. QED  BY <3>1, <4>1, <4>3, <4>4, Zenon
    <3>. QED  BY <3>2, <3>3
  <2>5. HopAt(HopAt(s, h, 1), h, Len(Record(w, c))) = HopAt(s, h, Len(w) + 1)
    <3>1. Len(w) \in Int
      BY <1>0
    <3>2. HopAt(HopAt(s, h, 1), h, Len(w)) = HopAt(s, h, Len(w) + 1)
      BY <2>3, <3>1, Zenon
    <3>3. Len(Record(w, c)) = Len(w)
      BY <2>1
    <3>. QED  BY <3>2, <3>3
  <2>. QED  BY <2>2, <2>4, <2>5, Zenon
<1>. QED  BY <1>1, <1>2

(* The strengthening of Coverage: the hop increment is not zero, and the  *)
(* window is the tail of the hop sequence from some s, whose position     *)
(* Len(window) is last_unmapped while no panic has occurred.              *)
HopWindow ==
  \E s \in 0..(NUMBER_DATA_CHANNELS - 1) :
    /\ HopTail(conn.channels, conn.hop, s, window)
    /\ fault = "none" => conn.last = HopAt(s, conn.hop, Len(window))

CovInv == DataInv /\ conn.hop # 0 /\ HopWindow

(* A freshly loaded map starts an empty window at last_unmapped.           *)
LEMMA EmptyHopWindow ==
  ASSUME NEW ch, NEW h \in Int, NEW l \in 0..36
  PROVE  /\ HopTail(ch, h, l, << >>)
         /\ l = HopAt(l, h, Len(<< >>))
<1>1. HopTail(ch, h, l, << >>)
  BY EmptySeq DEF HopTail
<1>2. HopAt(l, h, 0) = l
  BY HopShift
<1>. QED  BY <1>1, <1>2, EmptySeq

(* The low five bits of a hop_and_sca byte with a nonzero hop increment.  *)
LEMMA HopMask ==
  ASSUME NEW h \in HopAndScas, HopIncrementNonZero(h)
  PROVE  h % 32 # 0
BY DEF HopIncrementNonZero

LEMMA InitCovInv ==
  ASSUME \A m \in ChannelMaps : RfuBitsClear(m),
         \A h \in HopAndScas : HopIncrementNonZero(h)
  PROVE  Init => CovInv
<1> SUFFICES ASSUME Init PROVE CovInv
  OBVIOUS
<1>1. DataInv
  BY InitDataInv
<1>2. conn.hop # 0
  <2>1. (CHOOSE h \in HopAndScas : TRUE) \in HopAndScas
    BY ConnAssumption
  <2>2. (CHOOSE h \in HopAndScas : TRUE) % 32 # 0
    BY <2>1, HopMask
  <2>. QED  BY <2>2 DEF Init, NewConnection
<1>3. HopWindow
  <2>1. conn.last = 0 /\ window = << >>
    BY DEF Init, NewConnection
  <2>3. conn.hop \in Int
    <3>1. (CHOOSE h \in HopAndScas : TRUE) \in HopAndScas
      BY ConnAssumption
    <3>4. HopAndScas \subseteq 0..255
      BY ConnAssumption, Zenon DEF Bytes
    <3>5. \A x \in HopAndScas : x \in Nat
      BY <3>4
    <3>2. (CHOOSE h \in HopAndScas : TRUE) \in Nat
      BY <3>1, <3>5, Zenon
    <3>3. (CHOOSE h \in HopAndScas : TRUE) % 32 \in Int
      BY <3>2
    <3>. QED  BY <3>3 DEF Init, NewConnection
  <2>2. HopTail(conn.channels, conn.hop, 0, << >>) /\ 0 = HopAt(0, conn.hop, Len(<< >>))
    <3>1. 0 \in 0..36
      OBVIOUS
    <3>. QED  BY <2>3, <3>1, EmptyHopWindow, Zenon
  <2>. QED  BY <2>1, <2>2 DEF HopWindow, NUMBER_DATA_CHANNELS, NUMBER_CHANNELS
<1>. QED  BY <1>1, <1>2, <1>3 DEF CovInv

LEMMA NextCovInv ==
  ASSUME \A m \in ChannelMaps : RfuBitsClear(m),
         \A h \in HopAndScas : HopIncrementNonZero(h)
  PROVE  CovInv /\ [Next]_vars => CovInv'
<1> SUFFICES ASSUME CovInv, [Next]_vars PROVE CovInv'
  OBVIOUS
<1>0. DataInv'
  BY NextDataInv DEF CovInv
<1>a. /\ conn.last \in 0..36 /\ conn.hop \in 0..31 /\ conn.used \in 0..40
      /\ conn.channels \in [ChannelIndices -> {0, 1}]
  BY DEF CovInv, DataInv, TypeOK, ConnType, NUMBER_DATA_CHANNELS, NUMBER_CHANNELS
<1>b. window \in Seq(ChannelIndices)
  BY DEF CovInv, DataInv, TypeOK
<1>1. CASE \E m \in ChannelMaps, h \in HopAndScas : New(m, h)
  <2>1. PICK m \in ChannelMaps, h \in HopAndScas : New(m, h)
    BY <1>1
  <2>2. conn'.hop = h % 32 /\ conn'.last = 0 /\ window' = << >>
    BY <2>1 DEF New, NewConnection
  <2>3. h % 32 # 0
    BY HopMask
  <2>4. conn'.hop \in Int
    <3>1. HopAndScas \subseteq 0..255
      BY ConnAssumption, Zenon DEF Bytes
    <3>. QED  BY <2>2, <3>1
  <2>5. HopTail(conn'.channels, conn'.hop, 0, << >>) /\ 0 = HopAt(0, conn'.hop, Len(<< >>))
    <3>1. 0 \in 0..36
      OBVIOUS
    <3>. QED  BY <2>4, <3>1, EmptyHopWindow, Zenon
  <2>6. HopWindow'
    BY <2>2, <2>5 DEF HopWindow, NUMBER_DATA_CHANNELS, NUMBER_CHANNELS
  <2>. QED  BY <1>0, <2>2, <2>3, <2>6 DEF CovInv
<1>2. CASE \E m \in ChannelMaps : UpdateLLData(m)
  <2>1. PICK m \in ChannelMaps : UpdateLLData(m)
    BY <1>2
  <2>2. /\ conn'.hop = conn.hop /\ conn'.last = conn.last /\ window' = << >>
    BY <2>1, <1>a DEF UpdateLLData
  <2>3. HopTail(conn'.channels, conn.hop, conn.last, << >>)
        /\ conn.last = HopAt(conn.last, conn.hop, Len(<< >>))
    <3>1. conn.hop \in Int
      BY <1>a
    <3>. QED  BY <1>a, <3>1, EmptyHopWindow, Zenon
  <2>4. HopWindow'
    <3>1. conn.last \in 0..(NUMBER_DATA_CHANNELS - 1)
      BY <1>a DEF NUMBER_DATA_CHANNELS, NUMBER_CHANNELS
    <3>2. HopTail(conn'.channels, conn'.hop, conn.last, window')
          /\ conn'.last = HopAt(conn.last, conn'.hop, Len(window'))
      BY <2>2, <2>3, Zenon
    <3>. QED  BY <3>1, <3>2, Zenon DEF HopWindow
  <2>. QED  BY <1>0, <2>2, <2>4 DEF CovInv
<1>3. CASE NextChannel
  <2>1. fault = "none" /\ conn'.hop = conn.hop /\ conn'.channels = conn.channels
        /\ conn'.last = Unmapped(conn)
    BY <1>3, <1>a DEF NextChannel
  <2>0. PICK s \in 0..(NUMBER_DATA_CHANNELS - 1) :
               /\ HopTail(conn.channels, conn.hop, s, window)
               /\ conn.last = HopAt(s, conn.hop, Len(window))
    BY <2>1, Zenon DEF CovInv, HopWindow
  <2>2. s \in 0..36
    BY DEF NUMBER_DATA_CHANNELS, NUMBER_CHANNELS
  <2>12. /\ HopTail(conn.channels, conn.hop, s, window)
         /\ conn.last = HopAt(s, conn.hop, Len(window))
    BY <2>0
  <2>3. Len(window) \in Int
    BY <1>b, LenProperties
  <2>4. Unmapped(conn) = HopAt(s, conn.hop, Len(window) + 1)
    <3>1. Unmapped(conn) = HopAt(conn.last, conn.hop, 1)
      BY <1>a DEF Unmapped, HopAt
    <3>2. HopAt(HopAt(s, conn.hop, Len(window)), conn.hop, 1)
            = HopAt(s, conn.hop, Len(window) + 1)
      <4>1. s \in Int /\ conn.hop \in Int
        BY <1>a, <2>2
      <4>2. \A i \in Int : HopAt(HopAt(s, conn.hop, i), conn.hop, 1)
                             = HopAt(s, conn.hop, i + 1)
        BY <4>1, HopShift
      <4>. QED  BY <2>3, <4>2, Zenon
    <3>. QED  BY <2>12, <3>1, <3>2, Zenon
  <2>5. Unmapped(conn) \in ChannelIndices
    BY <1>a DEF Unmapped, ChannelIndices, NUMBER_DATA_CHANNELS, NUMBER_CHANNELS
  <2>6. ASSUME NEW c \in ChannelIndices,
               conn.channels[Unmapped(conn)] = 1 => c = Unmapped(conn),
               window' = Record(window, c), fault' = "none"
        PROVE  HopWindow'
    <3>1. conn.channels[HopAt(s, conn.hop, Len(window) + 1)] = 1
            => c = HopAt(s, conn.hop, Len(window) + 1)
      BY <2>4, <2>6, Zenon
    <3>2. \E t \in 0..36 :
            /\ HopTail(conn.channels, conn.hop, t, Record(window, c))
            /\ HopAt(t, conn.hop, Len(Record(window, c)))
                 = HopAt(s, conn.hop, Len(window) + 1)
      BY <1>a, <1>b, <2>2, <2>12, <3>1, RecordHop
    <3>3. PICK t \in 0..36 :
            /\ HopTail(conn.channels, conn.hop, t, Record(window, c))
            /\ HopAt(t, conn.hop, Len(Record(window, c)))
                 = HopAt(s, conn.hop, Len(window) + 1)
      BY <3>2
    <3>4. t \in 0..(NUMBER_DATA_CHANNELS - 1)
      BY DEF NUMBER_DATA_CHANNELS, NUMBER_CHANNELS
    <3>5. HopTail(conn'.channels, conn'.hop, t, window')
      BY <2>1, <2>6, <3>3, Zenon
    <3>6. conn'.last = HopAt(t, conn'.hop, Len(window'))
      BY <2>1, <2>4, <2>6, <3>3, Zenon
    <3>. QED  BY <3>4, <3>5, <3>6, Zenon DEF HopWindow
  <2>7. ASSUME conn.channels[Unmapped(conn)] = 1 PROVE HopWindow'
    <3>1. window' = Record(window, Unmapped(conn)) /\ fault' = "none"
      BY <1>3, <2>7 DEF NextChannel
    <3>. QED  BY <2>5, <2>6, <3>1, Zenon
  <2>8. ASSUME conn.channels[Unmapped(conn)] # 1, conn.used = 0 PROVE HopWindow'
    <3>1. window' = window /\ fault' = "DivideByZero"
      BY <1>3, <2>8 DEF NextChannel
    <3>2. HopTail(conn'.channels, conn'.hop, s, window')
      BY <2>1, <2>12, <3>1, Zenon
    <3>. QED  BY <2>0, <3>1, <3>2, Zenon DEF HopWindow
  <2>9. ASSUME conn.channels[Unmapped(conn)] # 1, conn.used # 0 PROVE HopWindow'
    <3>1. window' = Record(window, RemapTable(conn.channels)[Unmapped(conn) % conn.used])
          /\ fault' = "none"
      BY <1>3, <2>9 DEF NextChannel
    <3>2. Unmapped(conn) % conn.used \in ChannelIndices
      BY <1>a, <2>5, <2>9 DEF ChannelIndices, NUMBER_CHANNELS
    <3>3. RemapTable(conn.channels)[Unmapped(conn) % conn.used] \in ChannelIndices
      BY <1>a, <3>2, RemapTableType
    <3>. QED  BY <2>6, <2>9, <3>1, <3>3, Zenon
  <2>10. HopWindow'
    BY <2>7, <2>8, <2>9
  <2>11. conn'.hop # 0
    BY <2>1 DEF CovInv
  <2>. QED  BY <1>0, <2>10, <2>11 DEF CovInv
<1>4. CASE Halted
  BY <1>0, <1>4 DEF Halted, vars, CovInv, HopWindow
<1>5. CASE UNCHANGED vars
  BY <1>0, <1>5 DEF vars, CovInv, HopWindow
<1>. QED  BY <1>1, <1>2, <1>3, <1>4, <1>5 DEF Next

(* A full window of 37 entries holds every used channel: the 37 unmapped  *)
(* channels behind it are all of 0..36, and a used one is stored as is.    *)
LEMMA CovInvCoverage == CovInv => Coverage
<1> SUFFICES ASSUME CovInv, Len(window) = NUMBER_DATA_CHANNELS,
                    NEW c \in UsedChannels(conn.channels)
             PROVE  c \in Range(window)
  BY DEF Coverage
<1>1. /\ conn.hop \in 1..31
      /\ conn.channels \in [ChannelIndices -> {0, 1}]
  BY DEF CovInv, DataInv, TypeOK, ConnType
<1>2. window \in Seq(ChannelIndices)
  BY DEF CovInv, DataInv, TypeOK
<1>3. c \in 0..36 /\ conn.channels[c] = 1
  <2>1. c \in ChannelIndices /\ conn.channels[c] = 1
    BY DEF UsedChannels
  <2>2. \A k \in NUMBER_DATA_CHANNELS..(NUMBER_CHANNELS - 1) : conn.channels[k] = 0
    BY DEF CovInv, DataInv, AdvertisingUnused
  <2>. QED  BY <2>1, <2>2 DEF ChannelIndices, NUMBER_DATA_CHANNELS, NUMBER_CHANNELS
<1>4. PICK s \in 0..(NUMBER_DATA_CHANNELS - 1) :
             HopTail(conn.channels, conn.hop, s, window)
  BY Zenon DEF CovInv, HopWindow
<1>5. s \in 0..36
  BY DEF NUMBER_DATA_CHANNELS, NUMBER_CHANNELS
<1>6. PICK i \in 1..37 : HopAt(s, conn.hop, i) = c
  BY <1>1, <1>3, <1>5, HopCovers
<1>7. i \in 1..Len(window)
  BY DEF NUMBER_DATA_CHANNELS, NUMBER_CHANNELS
<1>8. window[i] = c
  BY <1>3, <1>4, <1>6, <1>7, Zenon DEF HopTail
<1>9. DOMAIN window = 1..Len(window)
  BY <1>2, LenProperties
<1>. QED  BY <1>7, <1>8, <1>9 DEF Range

(* Coverage (Coverage, checked by hop_valid_maps): when every chm a peer    *)
(* sends keeps its reserved bits clear and every hop_and_sca carries a    *)
(* nonzero hop increment, any 37 consecutive channels next_channel returns *)
(* under one map include every channel that map marks used, for every set *)
(* of maps and hop increments.  A hop increment of 0 (which the code does *)
(* not reject) pins the unmapped channel and breaks this.                  *)
THEOREM CoverageHolds ==
  ASSUME \A m \in ChannelMaps : RfuBitsClear(m),
         \A h \in HopAndScas : HopIncrementNonZero(h)
  PROVE  Spec => []Coverage
<1>1. Init => CovInv
  BY InitCovInv
<1>2. CovInv /\ [Next]_vars => CovInv'
  BY NextCovInv
<1>3. CovInv => Coverage
  BY CovInvCoverage
<1>. QED  BY <1>1, <1>2, <1>3, PTL DEF Spec

=============================================================================
