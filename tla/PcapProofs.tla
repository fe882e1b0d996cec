----------------------------- MODULE PcapProofs -----------------------------
(***************************************************************************)
(* Proofs about the packet capture, for any set of connections, number of  *)
(* packets and length of the key log: what a capture contains, in which    *)
(* order, with which timestamps, and when its packets can be decrypted.    *)
(*                                                                         *)
(* The inductive invariant fixes the shape of the file: the lines of the   *)
(* key log, if they are written, are its first block, and from there on    *)
(* file and buffer are the packets tracked, one by one.  It also keeps the *)
(* promise on which HoldBack rests: the lines in the file are enough, and  *)
(* the log has only grown since.                                           *)
(***************************************************************************)
EXTENDS PcapExporter, FiniteSetTheorems, SequenceTheorems, TLAPS

Instant == 0..Horizon
Tracked == [packet: Packet, at: Instant, held: BOOLEAN]

PacketBlockType == [kind: {"packet"}, packet: Packet, at: Instant, keys: {NoKeys}]
KeyBlockType    == [kind: {"keys"}, packet: {<<>>}, at: Instant, keys: [Connection -> 0..Lines]]

\* The blocks before the first packet.
Offset == IF keylogWritten THEN 1 ELSE 0

\* The lines that a key block holds.
LinesOf(keys) == {x \in Connection \X (1..Lines) : x[2] <= keys[x[1]]}

Types ==
  /\ now \in Instant
  /\ keyed \in BOOLEAN /\ keylogWritten \in BOOLEAN /\ dropped \in BOOLEAN
  /\ log \in [Connection -> 0..Lines]
  /\ buffered \in Seq(Packet)
  /\ file \in Seq(PacketBlockType \cup KeyBlockType)
  /\ tracked \in Seq(Tracked)

\* When something is held back, and when the lines are in the file.
Mode ==
  /\ keylogWritten => keyed
  /\ keyed /\ ~keylogWritten /\ ~dropped => file = <<>>
  /\ ~keyed \/ keylogWritten \/ dropped => buffered = <<>>

\* A key block, if any, and then packets.
Shape ==
  /\ Offset <= Len(file)
  /\ \A i \in DOMAIN file : file[i] \in (IF i <= Offset THEN KeyBlockType ELSE PacketBlockType)

\* File and buffer are the packets tracked.
Contents ==
  /\ Len(file) - Offset + Len(buffered) = Len(tracked)
  /\ \A i \in DOMAIN file : i > Offset => file[i].packet = tracked[i - Offset].packet
  /\ \A i \in DOMAIN buffered : buffered[i] = tracked[Len(file) - Offset + i].packet

Stamps ==
  /\ \A i \in DOMAIN tracked : tracked[i].at <= now
  /\ \A i \in DOMAIN file : file[i].at <= now
  /\ \A i, j \in DOMAIN file : j <= i => file[j].at <= file[i].at
  /\ \A i \in DOMAIN file : i > Offset =>
       /\ file[i].at >= tracked[i - Offset].at
       /\ ~tracked[i - Offset].held => file[i].at = tracked[i - Offset].at
       /\ tracked[i - Offset].held /\ keylogWritten => file[i].at = file[1].at

\* What is in the buffer was held back.
HeldBack == \A i \in DOMAIN buffered : tracked[Len(file) - Offset + i].held

\* The lines in the file were enough, and the log has only grown since.
Keys ==
  keylogWritten => /\ Cardinality(LinesOf(file[1].keys)) >= Enough
                   /\ \A c \in Connection : file[1].keys[c] <= log[c]

PcapInv == Types /\ Mode /\ Shape /\ Contents /\ HeldBack /\ Stamps /\ Keys

-----------------------------------------------------------------------------

\* A packet block, written now.
LEMMA BlockType ==
  ASSUME now \in Instant, NEW p \in Packet
  PROVE  /\ PacketBlock(p) \in PacketBlockType
         /\ PacketBlock(p).packet = p /\ PacketBlock(p).at = now
  BY DEF PacketBlock, PacketBlockType

\* The blocks of a sequence of packets.
LEMMA WrittenType ==
  ASSUME now \in Instant, NEW s \in Seq(Packet)
  PROVE  /\ Written(s) \in Seq(PacketBlockType)
         /\ Len(Written(s)) = Len(s)
         /\ \A i \in 1..Len(s) : Written(s)[i] = PacketBlock(s[i])
<1>1. Len(s) \in Nat /\ DOMAIN s = 1..Len(s) /\ \A i \in 1..Len(s) : s[i] \in Packet
  BY LenProperties, ElementOfSeq
<1>2. \A i \in 1..Len(s) : PacketBlock(s[i]) \in PacketBlockType
  BY <1>1, BlockType
<1>3. Written(s) \in [1..Len(s) -> PacketBlockType]
  BY <1>1, <1>2 DEF Written
<1> QED
  BY <1>1, <1>3, SeqDef, LenProperties DEF Written

LEMMA OneWritten ==
  ASSUME now \in Instant, NEW p \in Packet, NEW S, NEW s \in Seq(S), PacketBlock(p) \in S
  PROVE  s \o Written(<<p>>) = Append(s, PacketBlock(p))
<1>1. Written(<<p>>) = <<PacketBlock(p)>>
  BY DEF Written
<1> QED
  BY <1>1, AppendIsConcat

\* The types of the state, and what the constants are.
LEMMA PcapFacts ==
  ASSUME PcapInv
  PROVE  /\ Types /\ Mode /\ Shape /\ Contents /\ HeldBack /\ Stamps /\ Keys
         /\ Horizon \in Nat /\ Lines \in Nat /\ Enough \in Nat /\ MaxPackets \in Nat
         /\ now \in Nat /\ now <= Horizon /\ Offset \in {0, 1}
         /\ Len(file) \in Nat /\ DOMAIN file = 1..Len(file)
         /\ Len(buffered) \in Nat /\ DOMAIN buffered = 1..Len(buffered)
         /\ Len(tracked) \in Nat /\ DOMAIN tracked = 1..Len(tracked)
         /\ \A i \in 1..Len(tracked) : tracked[i] \in Tracked
         /\ \A i \in 1..Len(buffered) : buffered[i] \in Packet
         /\ \A i \in 1..Len(file) : file[i].at \in Nat
<1>1. Types /\ Mode /\ Shape /\ Contents /\ HeldBack /\ Stamps /\ Keys
  BY DEF PcapInv
<1>2. Horizon \in Nat /\ Lines \in Nat /\ Enough \in Nat /\ MaxPackets \in Nat
  BY CaptureAssumption
<1>3. /\ Len(file) \in Nat /\ DOMAIN file = 1..Len(file)
      /\ \A i \in 1..Len(file) : file[i] \in PacketBlockType \cup KeyBlockType
  BY <1>1, LenProperties, ElementOfSeq DEF Types
<1>4. /\ Len(buffered) \in Nat /\ DOMAIN buffered = 1..Len(buffered)
      /\ \A i \in 1..Len(buffered) : buffered[i] \in Packet
  BY <1>1, LenProperties, ElementOfSeq DEF Types
<1>5. /\ Len(tracked) \in Nat /\ DOMAIN tracked = 1..Len(tracked)
      /\ \A i \in 1..Len(tracked) : tracked[i] \in Tracked
  BY <1>1, LenProperties, ElementOfSeq DEF Types
<1>6. \A i \in 1..Len(file) : file[i].at \in Nat
  BY <1>3 DEF PacketBlockType, KeyBlockType, Instant
<1> QED
  BY <1>1, <1>2, <1>3, <1>4, <1>5, <1>6 DEF Types, Instant, Offset

LEMMA InitPcap == Init => PcapInv
<1> SUFFICES ASSUME Init PROVE PcapInv
  OBVIOUS
<1>1. Horizon \in Nat /\ Lines \in Nat
  BY CaptureAssumption
<1>2. Types
  <2>1. \A S : <<>> \in Seq(S)
    BY EmptySeq
  <2>2. log \in [Connection -> 0..Lines] /\ now \in Instant
    BY <1>1 DEF Init, Instant, NoKeys
  <2>3. buffered \in Seq(Packet) /\ tracked \in Seq(Tracked)
        /\ file \in Seq(PacketBlockType \cup KeyBlockType)
    BY <2>1 DEF Init
  <2> QED
    BY <2>2, <2>3 DEF Init, Types
<1>3. /\ keylogWritten = FALSE /\ file = <<>> /\ buffered = <<>> /\ tracked = <<>> /\ Offset = 0
  BY DEF Init, Offset
<1>4. Mode /\ Shape /\ Contents /\ HeldBack /\ Stamps /\ Keys
  BY <1>3 DEF Mode, Shape, Contents, HeldBack, Stamps, Keys
<1> QED
  BY <1>2, <1>4 DEF PcapInv

LEMMA LogInv ==
  ASSUME PcapInv, NEW c \in Connection, Log(c)
  PROVE  PcapInv'
<1>1. /\ Types /\ Mode /\ Shape /\ Contents /\ HeldBack /\ Stamps /\ Keys /\ Lines \in Nat
  BY PcapFacts
<1>2. /\ log[c] < Lines /\ log' = [log EXCEPT ![c] = @ + 1]
      /\ UNCHANGED <<now, keyed, keylogWritten, buffered, file, dropped, tracked>>
  BY DEF Log
<1>3. log \in [Connection -> 0..Lines]
  BY <1>1 DEF Types
<1>4. log' \in [Connection -> 0..Lines] /\ \A d \in Connection : log[d] <= log'[d]
  BY <1>1, <1>2, <1>3
<1>5. Types' /\ Mode' /\ Offset' = Offset
  BY <1>1, <1>2, <1>4 DEF Types, Mode, Offset
<1>6. Shape' /\ Contents' /\ HeldBack' /\ Stamps'
  BY <1>1, <1>2, <1>5 DEF Shape, Contents, HeldBack, Stamps
<1>7. Keys'
  <2>1. ASSUME keylogWritten
        PROVE  \A d \in Connection : file[1].keys[d] <= log'[d]
    <3>1. 1 \in DOMAIN file /\ Offset = 1
      BY <1>1, <2>1, PcapFacts DEF Shape, Offset
    <3>2. file[1] \in KeyBlockType
      BY <1>1, <3>1 DEF Shape
    <3>3. \A d \in Connection : file[1].keys[d] \in 0..Lines
      BY <3>2 DEF KeyBlockType
    <3>4. \A d \in Connection : file[1].keys[d] <= log[d]
      BY <1>1, <2>1 DEF Keys
    <3> QED
      BY <1>1, <1>3, <1>4, <3>3, <3>4
  <2>2. keylogWritten => Cardinality(LinesOf(file[1].keys)) >= Enough
    BY <1>1 DEF Keys
  <2>3. keylogWritten' = keylogWritten /\ file' = file
    BY <1>2
  <2> QED
    BY <2>1, <2>2, <2>3 DEF Keys, LinesOf
<1> QED
  BY <1>5, <1>6, <1>7 DEF PcapInv

LEMMA TickInv ==
  ASSUME PcapInv, Tick
  PROVE  PcapInv'
<1>1. /\ Types /\ Mode /\ Shape /\ Contents /\ HeldBack /\ Stamps /\ Keys /\ Horizon \in Nat /\ now \in Nat
      /\ DOMAIN tracked = 1..Len(tracked) /\ DOMAIN file = 1..Len(file)
      /\ \A i \in 1..Len(tracked) : tracked[i] \in Tracked
      /\ \A i \in 1..Len(file) : file[i].at \in Nat
  BY PcapFacts
<1>2. /\ now < Horizon /\ now' = now + 1
      /\ UNCHANGED <<keyed, log, keylogWritten, buffered, file, dropped, tracked>>
  BY DEF Tick
<1>3. Types' /\ Mode' /\ Offset' = Offset
  BY <1>1, <1>2 DEF Types, Mode, Offset, Instant
<1>4. Shape' /\ Contents' /\ HeldBack' /\ Keys'
  BY <1>1, <1>2, <1>3 DEF Shape, Contents, HeldBack, Keys, LinesOf
<1>5. Stamps'
  <2>1. \A i \in DOMAIN tracked : tracked[i].at \in Nat
    BY <1>1 DEF Tracked, Instant
  <2> QED
    BY <1>1, <1>2, <1>3, <2>1 DEF Stamps
<1> QED
  BY <1>3, <1>4, <1>5 DEF PcapInv

\* Dropping the exporter writes what was held back, which is nothing unless the
\* file is empty.
LEMMA DropInv ==
  ASSUME PcapInv, Drop
  PROVE  PcapInv'
<1>1. /\ Types /\ Mode /\ Shape /\ Contents /\ HeldBack /\ Stamps /\ Keys
      /\ Len(file) \in Nat /\ DOMAIN file = 1..Len(file)
      /\ Len(buffered) \in Nat /\ DOMAIN buffered = 1..Len(buffered)
      /\ Len(tracked) \in Nat /\ DOMAIN tracked = 1..Len(tracked)
      /\ \A i \in 1..Len(tracked) : tracked[i] \in Tracked
      /\ \A i \in 1..Len(buffered) : buffered[i] \in Packet
      /\ now \in Instant /\ now \in Nat
  BY PcapFacts DEF Types
<1>2. /\ dropped = FALSE /\ dropped' = TRUE /\ buffered' = <<>> /\ file' = file \o Written(buffered)
      /\ UNCHANGED <<now, keyed, log, keylogWritten, tracked>>
  BY <1>1 DEF Drop, Types
<1>3. Offset' = Offset
  BY <1>2 DEF Offset
<1>4. /\ Written(buffered) \in Seq(PacketBlockType) /\ Len(Written(buffered)) = Len(buffered)
      /\ \A i \in 1..Len(buffered) : Written(buffered)[i] = PacketBlock(buffered[i])
  BY <1>1, WrittenType DEF Types
<1>5. CASE buffered = <<>>
  <2>1. Written(buffered) = <<>>
    BY <1>4, <1>5, EmptySeq
  <2>2. file' = file
    BY <1>1, <1>2, <2>1, ConcatEmptySeq DEF Types
  <2>3. Types' /\ Mode'
    BY <1>1, <1>2, <1>5, <2>2 DEF Types, Mode
  <2>4. Shape' /\ Contents' /\ HeldBack' /\ Stamps' /\ Keys'
    BY <1>1, <1>2, <1>3, <1>5, <2>2 DEF Shape, Contents, HeldBack, Stamps, Keys, LinesOf
  <2> QED
    BY <2>3, <2>4 DEF PcapInv
<1>6. CASE buffered # <<>>
  <2>1. keyed /\ ~keylogWritten /\ file = <<>> /\ Offset = 0
    BY <1>1, <1>2, <1>6 DEF Mode, Offset, Types
  <2>2. file' = Written(buffered)
    BY <1>2, <1>4, <2>1, ConcatEmptySeq
  <2>3. /\ Len(file') = Len(buffered) /\ DOMAIN file' = 1..Len(buffered)
        /\ file' \in Seq(PacketBlockType)
        /\ \A i \in 1..Len(buffered) : /\ file'[i] \in PacketBlockType
                                       /\ file'[i].packet = buffered[i] /\ file'[i].at = now
    <3>1. \A i \in 1..Len(buffered) : /\ PacketBlock(buffered[i]) \in PacketBlockType
                                      /\ PacketBlock(buffered[i]).packet = buffered[i]
                                      /\ PacketBlock(buffered[i]).at = now
      BY <1>1, BlockType
    <3> QED
      BY <1>4, <2>2, <3>1, LenProperties
  <2>4. Types'
    <3>1. file' \in Seq(PacketBlockType \cup KeyBlockType)
      BY <2>3, SeqMonotonic
    <3>2. buffered' \in Seq(Packet)
      BY <1>2, EmptySeq
    <3> QED
      BY <1>1, <1>2, <3>1, <3>2 DEF Types
  <2>5. Mode'
    BY <1>1, <1>2, <2>1 DEF Mode
  <2>6. Shape' /\ Keys'
    BY <1>1, <1>2, <1>3, <2>1, <2>3 DEF Shape, Keys
  <2>7. Len(file) = 0 /\ Len(buffered') = 0
    BY <1>2, <2>1
  <2>8. Len(tracked) = Len(buffered) /\ \A i \in 1..Len(buffered) : buffered[i] = tracked[i].packet
    BY <1>1, <2>1, <2>7 DEF Contents
  <2>9. Contents'
    BY <1>1, <1>2, <1>3, <2>1, <2>3, <2>7, <2>8 DEF Contents
  <2>10. HeldBack' /\ \A i \in 1..Len(buffered) : tracked[i].held
    BY <1>1, <1>2, <2>1, <2>7 DEF HeldBack
  <2>11. Stamps'
    <3>1. \A i \in 1..Len(tracked) : tracked[i].at \in Nat /\ tracked[i].at <= now
      BY <1>1 DEF Stamps, Tracked, Instant
    <3> QED
      BY <1>1, <1>2, <1>3, <2>1, <2>3, <2>8, <2>10, <3>1 DEF Stamps
  <2> QED
    BY <2>4, <2>5, <2>6, <2>9, <2>10, <2>11 DEF PcapInv
<1> QED
  BY <1>5, <1>6

\* The new line of the history.
LEMMA TrackedGrows ==
  ASSUME PcapInv, NEW p \in Packet, tracked' = Append(tracked, [packet |-> p, at |-> now, held |-> HoldBack])
  PROVE  /\ tracked' \in Seq(Tracked) /\ Len(tracked') = Len(tracked) + 1
         /\ DOMAIN tracked' = 1..(Len(tracked) + 1)
         /\ \A i \in 1..Len(tracked) : tracked'[i] = tracked[i]
         /\ tracked'[Len(tracked) + 1].packet = p /\ tracked'[Len(tracked) + 1].at = now
         /\ tracked'[Len(tracked) + 1].held = HoldBack
<1>1. PICK h \in BOOLEAN : h = HoldBack
  BY DEF HoldBack
<1>2. PICK t : t = [packet |-> p, at |-> now, held |-> h]
  OBVIOUS
<1>3. t \in Tracked /\ t.packet = p /\ t.at = now /\ t.held = h
  BY <1>2, PcapFacts DEF Types, Tracked
<1>4. tracked' = Append(tracked, t) /\ tracked \in Seq(Tracked)
  BY <1>1, <1>2, PcapFacts DEF Types
<1> QED
  BY <1>1, <1>3, <1>4, AppendProperties

\* Held back.
LEMMA HoldBackInv ==
  ASSUME PcapInv, NEW p \in Packet, tracked' = Append(tracked, [packet |-> p, at |-> now, held |-> HoldBack]),
         ~dropped, HoldBack, buffered' = Append(buffered, p),
         UNCHANGED <<file, keylogWritten, now, keyed, log, dropped>>
  PROVE  PcapInv'
<1>1. /\ Types /\ Mode /\ Shape /\ Contents /\ HeldBack /\ Stamps /\ Keys
      /\ Len(buffered) \in Nat /\ DOMAIN buffered = 1..Len(buffered)
      /\ Len(tracked) \in Nat /\ DOMAIN tracked = 1..Len(tracked)
      /\ now \in Nat
  BY PcapFacts
<1>2. /\ tracked' \in Seq(Tracked) /\ Len(tracked') = Len(tracked) + 1
      /\ DOMAIN tracked' = 1..(Len(tracked) + 1)
      /\ \A i \in 1..Len(tracked) : tracked'[i] = tracked[i]
      /\ tracked'[Len(tracked) + 1].packet = p /\ tracked'[Len(tracked) + 1].at = now
      /\ tracked'[Len(tracked) + 1].held = HoldBack
  BY TrackedGrows
<1>3. /\ buffered' \in Seq(Packet) /\ Len(buffered') = Len(buffered) + 1
      /\ DOMAIN buffered' = 1..(Len(buffered) + 1)
      /\ \A i \in 1..Len(buffered) : buffered'[i] = buffered[i]
      /\ buffered'[Len(buffered) + 1] = p
  BY <1>1, AppendProperties DEF Types
<1>4. keyed /\ ~keylogWritten /\ file = <<>> /\ Offset = 0 /\ Offset' = 0 /\ Len(file) = 0
      /\ DOMAIN file = {}
  BY <1>1 DEF HoldBack, Mode, Offset
<1>5. Types' /\ Mode'
  BY <1>1, <1>2, <1>3, <1>4 DEF Types, Mode
<1>6. Shape' /\ Keys'
  BY <1>1, <1>4 DEF Shape, Keys
<1>7. Len(buffered) = Len(tracked) /\ \A i \in 1..Len(buffered) : buffered[i] = tracked[i].packet
  BY <1>1, <1>4 DEF Contents
<1>8. Contents'
  <2>1. \A i \in 1..(Len(buffered) + 1) : buffered'[i] = tracked'[i].packet
    BY <1>1, <1>2, <1>3, <1>7
  <2> QED
    BY <1>1, <1>2, <1>3, <1>4, <1>7, <2>1 DEF Contents
<1>9. Stamps'
  BY <1>1, <1>2, <1>4 DEF Stamps
<1>10. HeldBack'
  <2>1. \A i \in 1..Len(tracked) : tracked[i].held
    <3>1. \A i \in 1..Len(buffered) : Len(file) - Offset + i = i
      BY <1>1, <1>4
    <3> QED
      BY <1>1, <1>7, <3>1, Zenon DEF HeldBack
  <2>2. \A i \in 1..(Len(tracked) + 1) : tracked'[i].held
    BY <1>1, <1>2, <2>1
  <2> QED
    BY <1>1, <1>3, <1>4, <1>7, <2>2 DEF HeldBack
<1> QED
  BY <1>5, <1>6, <1>8, <1>9, <1>10 DEF PcapInv

\* The lines of a key block can be counted.
LEMMA LinesFinite ==
  ASSUME NEW keys \in [Connection -> 0..Lines]
  PROVE  IsFiniteSet(LinesOf(keys)) /\ Cardinality(LinesOf(keys)) \in Nat
<1>1. IsFiniteSet(Connection) /\ Lines \in Nat
  BY CaptureAssumption
<1>2. IsFiniteSet(1..Lines)
  BY <1>1, FS_Interval
<1>3. IsFiniteSet(Connection \X (1..Lines))
  BY <1>1, <1>2, FS_Product
<1>4. IsFiniteSet(LinesOf(keys))
  BY <1>3, FS_Subset DEF LinesOf
<1> QED
  BY <1>4, FS_CardinalityType

\* The lines, the packets held back and the packet that found enough lines.
LEMMA WriteKeysInv ==
  ASSUME PcapInv, NEW p \in Packet, tracked' = Append(tracked, [packet |-> p, at |-> now, held |-> HoldBack]),
         ~dropped, WriteKeys(p), UNCHANGED <<now, keyed, log, dropped>>
  PROVE  PcapInv'
<1>1. /\ Types /\ Mode /\ Shape /\ Contents /\ HeldBack /\ Stamps /\ Keys
      /\ Len(buffered) \in Nat /\ DOMAIN buffered = 1..Len(buffered)
      /\ Len(tracked) \in Nat /\ DOMAIN tracked = 1..Len(tracked)
      /\ \A i \in 1..Len(tracked) : tracked[i] \in Tracked
      /\ now \in Nat /\ now \in Instant /\ log \in [Connection -> 0..Lines]
      /\ Enough \in Nat /\ Lines \in Nat
  BY PcapFacts DEF Types
<1>2. /\ tracked' \in Seq(Tracked) /\ Len(tracked') = Len(tracked) + 1
      /\ DOMAIN tracked' = 1..(Len(tracked) + 1)
      /\ \A i \in 1..Len(tracked) : tracked'[i] = tracked[i]
      /\ tracked'[Len(tracked) + 1].packet = p /\ tracked'[Len(tracked) + 1].at = now
      /\ tracked'[Len(tracked) + 1].held = HoldBack
  BY TrackedGrows
<1>3. keyed /\ ~keylogWritten /\ file = <<>> /\ Offset = 0 /\ Len(file) = 0
  BY <1>1 DEF WriteKeys, Mode, Offset
<1>4. keylogWritten' = TRUE /\ Offset' = 1 /\ buffered' = <<>> /\ Len(buffered') = 0
  BY DEF WriteKeys, Offset
<1>5. Len(buffered) = Len(tracked) /\ \A i \in 1..Len(buffered) : buffered[i] = tracked[i].packet
  <2>1. Len(buffered) = Len(tracked)
    BY <1>1, <1>3 DEF Contents
  <2>2. \A i \in 1..Len(buffered) : buffered[i] = tracked[i].packet
    BY <1>1, <1>3 DEF Contents
  <2> QED
    BY <2>1, <2>2
<1> DEFINE s == Append(buffered, p)
           k == KeyBlock
           n == Len(tracked) + 1
<1>6. s \in Seq(Packet) /\ Len(s) = n /\ \A i \in 1..n : s[i] \in Packet /\ s[i] = tracked'[i].packet
  <2>1. /\ s \in Seq(Packet) /\ Len(s) = Len(buffered) + 1
        /\ \A i \in 1..Len(buffered) : s[i] = buffered[i]
        /\ s[Len(buffered) + 1] = p
    BY <1>1, AppendProperties DEF Types
  <2>2. \A i \in 1..Len(s) : s[i] \in Packet
    BY <2>1, ElementOfSeq
  <2> QED
    BY <1>1, <1>2, <1>5, <2>1, <2>2
<1>7. k \in KeyBlockType /\ k.keys = log /\ k.at = now
  BY <1>1 DEF KeyBlock, KeyBlockType
<1>8. /\ Written(s) \in Seq(PacketBlockType) /\ Len(Written(s)) = n
      /\ \A i \in 1..n : /\ Written(s)[i] \in PacketBlockType /\ Written(s)[i].at = now
                         /\ Written(s)[i].packet = tracked'[i].packet
  <2>1. /\ Written(s) \in Seq(PacketBlockType) /\ Len(Written(s)) = n
        /\ \A i \in 1..n : Written(s)[i] = PacketBlock(s[i])
    BY <1>1, <1>6, WrittenType
  <2>2. \A i \in 1..n : /\ PacketBlock(s[i]) \in PacketBlockType
                        /\ PacketBlock(s[i]).packet = s[i] /\ PacketBlock(s[i]).at = now
    BY <1>1, <1>6, BlockType
  <2> QED
    BY <1>6, <2>1, <2>2
<1>9. /\ file' \in Seq(PacketBlockType \cup KeyBlockType) /\ Len(file') = n + 1
      /\ DOMAIN file' = 1..(n + 1)
      /\ file'[1] = k /\ \A i \in 2..(n + 1) : file'[i] = Written(s)[i - 1]
  <2>1. file' = Append(file, k) \o Written(s)
    BY DEF WriteKeys
  <2>2. Append(file, k) = <<k>>
    BY <1>3
  <2>3. <<k>> \in Seq(PacketBlockType \cup KeyBlockType) /\ Len(<<k>>) = 1
    BY <1>7
  <2>4. Written(s) \in Seq(PacketBlockType \cup KeyBlockType)
    BY <1>8, SeqMonotonic
  <2>5. /\ file' \in Seq(PacketBlockType \cup KeyBlockType)
        /\ Len(file') = Len(<<k>>) + Len(Written(s))
        /\ \A i \in 1..(Len(<<k>>) + Len(Written(s))) :
             file'[i] = IF i <= Len(<<k>>) THEN <<k>>[i] ELSE Written(s)[i - Len(<<k>>)]
    BY <2>1, <2>2, <2>3, <2>4, ConcatProperties
  <2>6. Len(file') = n + 1
    BY <1>1, <1>8, <2>3, <2>5
  <2>7. DOMAIN file' = 1..(n + 1)
    BY <2>5, <2>6, LenProperties
  <2>8. \A i \in 1..(n + 1) : file'[i] = IF i <= 1 THEN <<k>>[i] ELSE Written(s)[i - 1]
    BY <1>1, <1>8, <2>3, <2>5
  <2>9. file'[1] = k
    BY <1>1, <2>8
  <2>10. \A i \in 2..(n + 1) : file'[i] = Written(s)[i - 1]
    BY <1>1, <2>8
  <2> QED
    BY <2>5, <2>6, <2>7, <2>9, <2>10
<1>10. \A i \in 2..(n + 1) : /\ file'[i] \in PacketBlockType /\ file'[i].at = now
                             /\ file'[i].packet = tracked'[i - 1].packet
  BY <1>1, <1>8, <1>9
<1>11. Types'
  BY <1>1, <1>2, <1>4, <1>9, EmptySeq DEF Types
<1>12. Mode'
  BY <1>1, <1>3, <1>4 DEF Mode
<1> HIDE DEF s, k
<1>13. Shape'
  BY <1>1, <1>4, <1>7, <1>9, <1>10 DEF Shape
<1>14. Contents'
  BY <1>1, <1>2, <1>4, <1>9, <1>10 DEF Contents
<1>15. Stamps'
  <2>1. \A i \in DOMAIN tracked' : tracked'[i].at \in Nat /\ tracked'[i].at <= now
    BY <1>1, <1>2 DEF Stamps, Tracked, Instant
  <2>2. \A i \in DOMAIN file' : file'[i].at = now
    BY <1>1, <1>7, <1>9, <1>10
  <2>3. keyed' /\ now' = now
    BY <1>3
  <2>4. ASSUME NEW i \in DOMAIN tracked', ~tracked'[i].held
        PROVE  tracked'[i].at = now
    <3>1. \A m \in 1..Len(tracked) : tracked[m].held
      <4>1. \A m \in 1..Len(buffered) : Len(file) - Offset + m = m
        BY <1>1, <1>3
      <4> QED
        BY <1>1, <1>5, <4>1, Zenon DEF HeldBack
    <3> QED
      BY <1>1, <1>2, <2>4, <3>1
  <2>5. ASSUME NEW i \in DOMAIN file', i > 1
        PROVE  /\ file'[i].at >= tracked'[i - 1].at
               /\ ~tracked'[i - 1].held => file'[i].at = tracked'[i - 1].at
               /\ file'[i].at = file'[1].at
    <3>1. i - 1 \in DOMAIN tracked' /\ 1 \in DOMAIN file' /\ file'[i].at = now /\ file'[1].at = now
      BY <1>1, <1>2, <1>9, <2>2, <2>5
    <3>2. ~tracked'[i - 1].held => tracked'[i - 1].at = now
      BY <2>4, <3>1
    <3> QED
      BY <1>1, <2>1, <3>1, <3>2
  <2>6. \A i \in DOMAIN file' : file'[i].at <= now'
    BY <1>1, <2>2, <2>3
  <2>7. \A i, j \in DOMAIN file' : file'[j].at <= file'[i].at
    BY <1>1, <2>2
  <2> QED
    BY <1>4, <2>1, <2>3, <2>5, <2>6, <2>7 DEF Stamps
<1>17. HeldBack'
  BY <1>4 DEF HeldBack
<1>16. Keys'
  <2>1. LogLines = LinesOf(log)
    BY DEF LogLines, LinesOf
  <2>2. Cardinality(LinesOf(log)) \in Nat
    BY <1>1, LinesFinite
  <2>3. Cardinality(LinesOf(log)) >= Enough
    BY <1>1, <1>3, <2>1, <2>2 DEF WriteKeys, HoldBack, LogLen
  <2>4. file'[1].keys = log /\ log' = log
    BY <1>7, <1>9
  <2>5. \A c \in Connection : log[c] <= log[c]
    BY <1>1
  <2> QED
    BY <2>3, <2>4, <2>5 DEF Keys, LinesOf
<1> QED
  BY <1>11, <1>12, <1>13, <1>14, <1>15, <1>16, <1>17 DEF PcapInv

\* Written at once.
LEMMA WriteAtOnceInv ==
  ASSUME PcapInv, NEW p \in Packet, tracked' = Append(tracked, [packet |-> p, at |-> now, held |-> HoldBack]),
         ~dropped, ~keyed \/ keylogWritten,
         NEW b \in PacketBlockType, b.packet = p, b.at = now, file' = Append(file, b),
         UNCHANGED <<buffered, keylogWritten, now, keyed, log, dropped>>
  PROVE  PcapInv'
<1>1. /\ Types /\ Mode /\ Shape /\ Contents /\ HeldBack /\ Stamps /\ Keys
      /\ Len(file) \in Nat /\ DOMAIN file = 1..Len(file)
      /\ Len(tracked) \in Nat /\ DOMAIN tracked = 1..Len(tracked)
      /\ \A i \in 1..Len(file) : file[i].at \in Nat
      /\ now \in Nat /\ now \in Instant /\ Offset \in {0, 1}
      /\ file \in Seq(PacketBlockType \cup KeyBlockType)
  BY PcapFacts DEF Types
<1>2. /\ tracked' \in Seq(Tracked) /\ Len(tracked') = Len(tracked) + 1
      /\ DOMAIN tracked' = 1..(Len(tracked) + 1)
      /\ \A i \in 1..Len(tracked) : tracked'[i] = tracked[i]
      /\ tracked'[Len(tracked) + 1].packet = p /\ tracked'[Len(tracked) + 1].at = now
      /\ tracked'[Len(tracked) + 1].held = HoldBack
  BY TrackedGrows
<1>3. /\ \A i \in 1..(Len(file) + 1) : i \in 1..Len(file) \/ i = Len(file) + 1
      /\ \A i \in 1..(Len(tracked) + 1) : i \in 1..Len(tracked) \/ i = Len(tracked) + 1
  BY <1>1
<1>6. /\ file' \in Seq(PacketBlockType \cup KeyBlockType) /\ Len(file') = Len(file) + 1
      /\ DOMAIN file' = 1..(Len(file) + 1)
      /\ \A i \in 1..Len(file) : file'[i] = file[i]
      /\ file'[Len(file) + 1] = b
  BY <1>1, AppendProperties
<1>7. buffered = <<>> /\ Len(buffered) = 0 /\ Offset' = Offset
  BY <1>1 DEF Mode, Offset
<1>8. Types' /\ Mode'
  <2>1. keylogWritten => keyed
    BY <1>1 DEF Mode
  <2> QED
    BY <1>1, <1>2, <1>6, <1>7, <2>1 DEF Types, Mode
<1>9. Shape'
  <2>1. Offset <= Len(file) /\ Offset <= Len(file) + 1
    BY <1>1 DEF Shape
  <2>2. \A i \in 1..Len(file) : file'[i] \in (IF i <= Offset THEN KeyBlockType ELSE PacketBlockType)
    BY <1>1, <1>6 DEF Shape
  <2>3. ~(Len(file) + 1 <= Offset)
    BY <1>1, <2>1
  <2>4. file'[Len(file) + 1] \in (IF Len(file) + 1 <= Offset THEN KeyBlockType ELSE PacketBlockType)
    BY <1>6, <2>3
  <2> QED
    BY <1>6, <1>7, <1>3, <2>1, <2>2, <2>4 DEF Shape
<1>10. Len(file) - Offset = Len(tracked)
  BY <1>1, <1>7 DEF Contents
<1>11. Contents'
  <2>1. \A i \in 1..(Len(file) + 1) : i > Offset => file'[i].packet = tracked'[i - Offset].packet
    <3>1. ASSUME NEW i \in 1..Len(file), i > Offset
          PROVE  file'[i].packet = tracked'[i - Offset].packet
      <4>1. i - Offset \in 1..Len(tracked)
        BY <1>1, <1>10, <3>1
      <4> QED
        BY <1>1, <1>2, <1>6, <3>1, <4>1 DEF Contents
    <3>2. file'[Len(file) + 1].packet = tracked'[(Len(file) + 1) - Offset].packet
      BY <1>1, <1>2, <1>6, <1>10
    <3> QED
      BY <1>3, <3>1, <3>2
  <2>2. Len(file') - Offset' + Len(buffered') = Len(tracked')
    BY <1>1, <1>2, <1>6, <1>7, <1>10
  <2>3. DOMAIN buffered' = {}
    BY <1>7
  <2> QED
    BY <1>6, <1>7, <2>1, <2>2, <2>3 DEF Contents
<1>12. Stamps'
  <2>1. \A i \in 1..(Len(file) + 1) :
          i > Offset =>
            /\ file'[i].at >= tracked'[i - Offset].at
            /\ ~tracked'[i - Offset].held => file'[i].at = tracked'[i - Offset].at
            /\ tracked'[i - Offset].held /\ keylogWritten => file'[i].at = file'[1].at
    <3>1. ASSUME NEW i \in 1..Len(file), i > Offset
          PROVE  /\ file'[i].at >= tracked'[i - Offset].at
                 /\ ~tracked'[i - Offset].held => file'[i].at = tracked'[i - Offset].at
                 /\ tracked'[i - Offset].held /\ keylogWritten => file'[i].at = file'[1].at
      <4>1. i - Offset \in 1..Len(tracked)
        BY <1>1, <1>10, <3>1
      <4>2. file'[1] = file[1] /\ file'[i] = file[i] /\ tracked'[i - Offset] = tracked[i - Offset]
        BY <1>1, <1>2, <1>6, <3>1, <4>1
      <4> QED
        BY <1>1, <3>1, <4>2 DEF Stamps
    <3>2. file'[Len(file) + 1].at = tracked'[(Len(file) + 1) - Offset].at
          /\ file'[Len(file) + 1].at = now
      BY <1>1, <1>2, <1>6, <1>10
    <3>3. ~tracked'[(Len(file) + 1) - Offset].held
      <4>1. ~HoldBack
        BY DEF HoldBack
      <4>2. (Len(file) + 1) - Offset = Len(tracked) + 1
        BY <1>1, <1>10
      <4> QED
        BY <1>2, <4>1, <4>2
    <3>4. file'[Len(file) + 1].at >= tracked'[(Len(file) + 1) - Offset].at
      <4>1. now >= now
        BY <1>1
      <4>2. file'[Len(file) + 1].at >= now
        BY <3>2, <4>1, Zenon
      <4> QED
        BY <3>2, <4>2, Zenon
    <3> QED
      BY <1>1, <1>3, <3>1, <3>2, <3>3, <3>4
  <2>2. \A i \in 1..(Len(tracked) + 1) : tracked'[i].at <= now
    <3>1. \A i \in 1..Len(tracked) : tracked'[i].at <= now
      BY <1>1, <1>2 DEF Stamps
    <3>2. tracked'[Len(tracked) + 1].at <= now
      BY <1>1, <1>2
    <3> QED
      BY <1>3, <3>1, <3>2
  <2>3. \A i \in 1..(Len(file) + 1) : file'[i].at <= now
    BY <1>1, <1>6 DEF Stamps
  <2>4. \A i, j \in 1..(Len(file) + 1) : j <= i => file'[j].at <= file'[i].at
    <3>1. \A i, j \in 1..Len(file) : j <= i => file'[j].at <= file'[i].at
      BY <1>1, <1>6 DEF Stamps
    <3>2. \A j \in 1..(Len(file) + 1) : file'[j].at <= file'[Len(file) + 1].at
      BY <1>6, <2>3
    <3>3. \A i \in 1..Len(file) : ~(Len(file) + 1 <= i)
      BY <1>1
    <3> QED
      BY <1>3, <3>1, <3>2, <3>3
  <2> QED
    BY <1>2, <1>6, <1>7, <2>1, <2>2, <2>3, <2>4 DEF Stamps
<1>13. Keys'
  <2>1. keylogWritten => file'[1] = file[1]
    BY <1>1, <1>6 DEF Shape, Offset
  <2> QED
    BY <1>1, <2>1 DEF Keys, LinesOf
<1>14. HeldBack'
  BY <1>7 DEF HeldBack
<1> QED
  BY <1>8, <1>9, <1>11, <1>12, <1>13, <1>14 DEF PcapInv

LEMMA NextPcap == PcapInv /\ [Next]_vars => PcapInv'
<1> SUFFICES ASSUME PcapInv, [Next]_vars PROVE PcapInv'
  OBVIOUS
<1>1. ASSUME NEW p \in Packet, TrackTransmit(p)
      PROVE  PcapInv'
  <2>1. ASSUME file' = file \o Written(<<p>>)
        PROVE  \E b \in PacketBlockType : b.packet = p /\ b.at = now /\ file' = Append(file, b)
    <3>1. now \in Instant /\ file \in Seq(PacketBlockType \cup KeyBlockType)
      BY PcapFacts DEF Types
    <3>2. /\ PacketBlock(p) \in PacketBlockType
          /\ PacketBlock(p).packet = p /\ PacketBlock(p).at = now
      BY <3>1, BlockType
    <3>3. file' = Append(file, PacketBlock(p))
      BY <2>1, <3>1, <3>2, OneWritten
    <3> QED
      BY <3>2, <3>3
  <2> QED
    BY <1>1, <2>1, HoldBackInv, WriteKeysInv, WriteAtOnceInv DEF TrackTransmit
<1>2. ASSUME NEW c \in Connection, NEW m \in Needs, Send(c, m) \/ Receive(c, m)
      PROVE  PcapInv'
  <2>1. PICK p : p = [id |-> NextId, conn |-> c, needs |-> m]
    OBVIOUS
  <2>2. TrackTransmit(p)
    BY <1>2, <2>1 DEF Send, Receive
  <2>3. Len(tracked) < MaxPackets /\ Len(tracked) \in Nat /\ MaxPackets \in Nat
    BY <2>2, PcapFacts DEF TrackTransmit
  <2>4. p \in Packet
    BY <2>1, <2>3 DEF Packet, NextId
  <2> QED
    BY <1>1, <2>2, <2>4
<1>3. CASE UNCHANGED vars
  <2>1. UNCHANGED <<now, keyed, log, keylogWritten, buffered, file, dropped, tracked>>
    BY <1>3 DEF vars
  <2>2. Types' /\ Mode' /\ Offset' = Offset
    BY <2>1 DEF PcapInv, Types, Mode, Offset
  <2> QED
    BY <2>1, <2>2 DEF PcapInv, Shape, Contents, HeldBack, Stamps, Keys, LinesOf
<1> QED
  BY <1>2, <1>3, LogInv, TickInv, DropInv DEF Next

\* Types: no connection logs more lines than rustls has secrets, and only packets
\* that the socket tracked are held back or written.
THEOREM CaptureTypes == Spec => []TypeOK
<1>1. ASSUME PcapInv PROVE TypeOK
  <2>1. Types /\ DOMAIN file = 1..Len(file)
    BY <1>1, PcapFacts
  <2>2. \A i \in DOMAIN file : file[i].kind = "packet" => file[i].packet \in Packet
    <3>1. \A i \in DOMAIN file : file[i] \in PacketBlockType \cup KeyBlockType
      BY <2>1, ElementOfSeq DEF Types
    <3> QED
      BY <3>1 DEF PacketBlockType, KeyBlockType
  <2> QED
    BY <2>1, <2>2 DEF TypeOK, Types, Instant, Tracked
<1> QED
  BY <1>1, InitPcap, NextPcap, PTL DEF Spec

\* Where the key block and the packets are.
LEMMA Layout ==
  ASSUME PcapInv
  PROVE  /\ KeyBlocks = 1..Offset /\ InFile = Len(file) - Offset
         /\ \A i \in PacketBlocks : /\ i \in DOMAIN file /\ i > Offset /\ Nth(i) = i - Offset
                                    /\ file[i] \in PacketBlockType
<1>1. /\ Shape /\ Len(file) \in Nat /\ DOMAIN file = 1..Len(file) /\ Offset \in {0, 1}
  BY PcapFacts
<1>2. Offset \in Nat /\ Offset <= Len(file)
  BY <1>1 DEF Shape
<1>3. \A i \in DOMAIN file : file[i].kind = "keys" <=> i <= Offset
  BY <1>1 DEF Shape, KeyBlockType, PacketBlockType
<1>4. KeyBlocks = 1..Offset
  BY <1>1, <1>2, <1>3 DEF KeyBlocks
<1>5. Cardinality(1..Offset) = Offset
  <2>1. CASE Offset = 0
    <3>1. 1..Offset = {}
      BY <2>1
    <3> QED
      BY <2>1, <3>1, FS_EmptySet
  <2>2. CASE Offset = 1
    <3>1. 1..Offset = {1}
      BY <2>2
    <3> QED
      BY <2>2, <3>1, FS_Singleton
  <2> QED
    BY <1>1, <2>1, <2>2
<1>6. InFile = Len(file) - Offset
  BY <1>4, <1>5 DEF InFile
<1>7. ASSUME NEW i \in PacketBlocks
      PROVE  /\ i \in DOMAIN file /\ i > Offset /\ Nth(i) = i - Offset
             /\ file[i] \in PacketBlockType
  <2>1. i \in DOMAIN file /\ i \in Nat /\ i > Offset
    BY <1>1, <1>2, <1>4 DEF PacketBlocks
  <2>2. {k \in KeyBlocks : k < i} = 1..Offset
    BY <1>2, <1>4, <2>1
  <2>3. Nth(i) = i - Offset
    BY <1>5, <2>2 DEF Nth
  <2>4. ~(i <= Offset)
    BY <1>2, <2>1
  <2> QED
    BY <1>1, <2>1, <2>3, <2>4 DEF Shape
<1> QED
  BY <1>4, <1>6, <1>7

\* The capture loses, repeats and reorders nothing, whenever the lines come and
\* whenever the exporter is dropped.
THEOREM CaptureIsComplete == Spec => []NothingMissing
<1>1. ASSUME PcapInv PROVE NothingMissing
  <2>1. Contents /\ Mode /\ dropped \in BOOLEAN
    BY <1>1 DEF PcapInv, Types
  <2>2. /\ InFile = Len(file) - Offset
        /\ \A i \in PacketBlocks : i \in DOMAIN file /\ i > Offset /\ Nth(i) = i - Offset
    BY <1>1, Layout
  <2> QED
    BY <2>1, <2>2 DEF NothingMissing, Contents, Mode
<1> QED
  BY <1>1, InitPcap, NextPcap, PTL DEF Spec

\* Timestamps never go back, and only a packet that was held back is stamped late, with
\* the time of the lines; the others, those behind the lines too, bear the time at which
\* the socket tracked them.
THEOREM CaptureIsInOrder == Spec => []StampedInOrder
<1>1. ASSUME PcapInv PROVE StampedInOrder
  <2>1. Stamps
    BY <1>1 DEF PcapInv
  <2>2. \A i \in PacketBlocks : i \in DOMAIN file /\ i > Offset /\ Nth(i) = i - Offset
    BY <1>1, Layout
  <2>3. \A k \in KeyBlocks : k = 1 /\ keylogWritten
    BY <1>1, Layout, PcapFacts DEF Offset
  <2> QED
    BY <2>1, <2>2, <2>3 DEF StampedInOrder, Stamps
<1> QED
  BY <1>1, InitPcap, NextPcap, PTL DEF Spec

\* Lines that only one connection has: as many as its key block says.
LEMMA OneConnection ==
  ASSUME NEW keys \in [Connection -> 0..Lines], NEW c \in Connection,
         \A d \in Connection \ {c} : keys[d] <= 0
  PROVE  Cardinality(LinesOf(keys)) <= keys[c]
<1>1. keys[c] \in 0..Lines /\ Lines \in Nat /\ keys[c] \in Nat
  BY CaptureAssumption
<1>2. IsFiniteSet(1..keys[c]) /\ Cardinality(1..keys[c]) = keys[c]
  BY <1>1, FS_Interval
<1>3. IsFiniteSet({c}) /\ Cardinality({c}) = 1
  BY FS_Singleton
<1>4. IsFiniteSet({c} \X (1..keys[c])) /\ Cardinality({c} \X (1..keys[c])) = 1 * keys[c]
  BY <1>2, <1>3, FS_Product
<1>5. LinesOf(keys) \subseteq {c} \X (1..keys[c])
  <2>1. \A d \in Connection \ {c} : keys[d] = 0
    BY CaptureAssumption
  <2>2. ASSUME NEW x \in LinesOf(keys) PROVE x \in {c} \X (1..keys[c])
    <3>1. x \in Connection \X (1..Lines) /\ x[2] <= keys[x[1]]
      BY <2>2 DEF LinesOf
    <3>2. x[1] = c
      BY <1>1, <2>1, <3>1
    <3>3. x[2] \in 1..keys[c]
      BY <1>1, <3>1, <3>2
    <3> QED
      BY <3>1, <3>2, <3>3
  <2> QED
    BY <2>2
<1>6. Cardinality(LinesOf(keys)) <= 1 * keys[c]
  BY <1>4, <1>5, FS_Subset
<1> QED
  BY <1>1, <1>6

\* The lines come first, and once.  When track_transmit waits for all the lines that
\* a connection logs, as it does, a capture of a single connection can be decrypted.
THEOREM KeysStayFirst ==
  ASSUME Lines <= Enough
  PROVE  Spec => []KeysComeFirst
<1>1. ASSUME PcapInv PROVE KeysComeFirst
  <2>1. /\ Types /\ Mode /\ Shape /\ Keys /\ Lines \in Nat /\ Enough \in Nat
        /\ Offset \in {0, 1} /\ Len(file) \in Nat /\ DOMAIN file = 1..Len(file)
        /\ keyed \in BOOLEAN /\ keylogWritten \in BOOLEAN /\ dropped \in BOOLEAN
    BY <1>1, PcapFacts DEF Types
  <2>2. /\ KeyBlocks = 1..Offset
        /\ \A i \in PacketBlocks : i \in DOMAIN file /\ file[i] \in PacketBlockType
    BY <1>1, Layout
  <2>3. keyed /\ file # <<>> => \/ KeyBlocks = {1} /\ keylogWritten
                                \/ KeyBlocks = {} /\ dropped /\ ~keylogWritten
    BY <2>1, <2>2 DEF Mode, Offset
  <2>4. ASSUME NEW c \in Connection, keylogWritten, \A d \in Connection \ {c} : log[d] = 0,
               NEW i \in PacketBlocks, file[i].packet.conn = c
        PROVE  Readable(file[i])
    <3>1. 1 \in KeyBlocks /\ 1 \in DOMAIN file /\ 1 <= Offset
      BY <2>1, <2>2, <2>4 DEF Offset, Shape
    <3>2. file[1] \in KeyBlockType
      BY <2>1, <3>1 DEF Shape
    <3>3. PICK keys \in [Connection -> 0..Lines] : keys = file[1].keys
      BY <3>2 DEF KeyBlockType
    <3>4. Cardinality(LinesOf(keys)) >= Enough /\ \A d \in Connection : keys[d] <= log[d]
      BY <2>1, <2>4, <3>3 DEF Keys
    <3>5. \A d \in Connection \ {c} : keys[d] <= 0
      BY <2>4, <3>4
    <3>6. Cardinality(LinesOf(keys)) <= keys[c] /\ Cardinality(LinesOf(keys)) \in Nat
      BY <3>5, OneConnection, LinesFinite
    <3>7. keys[c] \in Nat /\ keys[c] >= Lines
      <4>1. keys[c] \in 0..Lines
        BY <2>4
      <4> QED
        BY <2>1, <3>4, <3>6, <4>1
    <3>8. file[i].packet.needs \in 0..Lines
      BY <2>2, <2>4, CaptureAssumption DEF PacketBlockType, Packet
    <3>9. keys[c] >= file[i].packet.needs
      BY <2>1, <3>7, <3>8
    <3> QED
      BY <2>4, <3>1, <3>3, <3>9 DEF Readable
  <2> QED
    BY <2>3, <2>4 DEF KeysComeFirst
<1> QED
  BY <1>1, InitPcap, NextPcap, PTL DEF Spec

=============================================================================
