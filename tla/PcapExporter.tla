---------------------------- MODULE PcapExporter ----------------------------
(***************************************************************************)
(* The packet capture of one socket.  TLS appends lines to the key log     *)
(* while the connections of the socket shake hands; the socket tracks each *)
(* packet that it sends or reads.  Until the log has enough lines packets  *)
(* are held back; then the lines, the packets held back and from there on  *)
(* every packet are written.  Dropping the exporter writes what is left.   *)
(*                                                                         *)
(* A packet is abstracted to the connection it belongs to and the number   *)
(* of that connection's lines one needs to decrypt it: none for Initial    *)
(* packets, the two handshake secrets, or these and the traffic secrets.   *)
(* The block and packet encodings are left out; a timestamp is the instant *)
(* in ms, which is what Wireshark shows after the correction that          *)
(* correct_timestamp makes for the library's factor.                       *)
(***************************************************************************)
EXTENDS Integers, Sequences, FiniteSets

CONSTANTS
  Connection,    \* QUIC connections of the socket
  Lines,         \* lines that rustls logs for each connection: 5
  Enough,        \* lines that track_transmit waits for: 5
  Needs,         \* numbers of lines that decrypting a packet can take
  MaxPackets,    \* bound: packets tracked
  Horizon        \* bound: last instant

ASSUME CaptureAssumption ==
  /\ Connection # {} /\ IsFiniteSet(Connection)
  /\ {Lines, Enough, MaxPackets, Horizon} \subseteq Nat
  /\ Needs \subseteq 0..Lines

VARIABLES
  now,           \* capture_start.elapsed(), in ms
  keyed,         \* keylog is Some
  log,           \* InMemoryKeyLog.log: how many lines of each connection
  keylogWritten, \* keylog_written
  buffered,      \* buffered_packets
  file,          \* the blocks written so far
  dropped,       \* the exporter has been dropped
  tracked        \* history: the packets passed to track_transmit, when, and which of
                 \* them were held back

vars == <<now, keyed, log, keylogWritten, buffered, file, dropped, tracked>>

Packet == [id: 1..MaxPackets, conn: Connection, needs: Needs]
NoKeys == [c \in Connection |-> 0]

\* The lines logged, of all connections.
LogLines == {x \in Connection \X (1..Lines) : x[2] <= log[x[1]]}
LogLen   == Cardinality(LogLines)

PacketBlock_late(p) ==
  [kind |-> "packet", packet |-> p, at |-> IF keylogWritten THEN now + 1 ELSE now, keys |-> NoKeys]

\* write_pcapng_transmit: a packet block, with the time at which it is written.
PacketBlock(p) == [kind |-> "packet", packet |-> p, at |-> now, keys |-> NoKeys]
KeyBlock       == [kind |-> "keys", packet |-> <<>>, at |-> now, keys |-> log]
Written(s)     == [i \in DOMAIN s |-> PacketBlock(s[i])]

-----------------------------------------------------------------------------

\* Not enough lines to decrypt the packet yet.
HoldBack == keyed /\ ~keylogWritten /\ LogLen < Enough

WriteKeys_late(p) ==
  /\ keyed /\ ~keylogWritten /\ ~HoldBack
  /\ keylogWritten' = TRUE
  /\ file' = Append(Written(buffered), KeyBlock) \o Written(<<p>>)
  /\ buffered' = <<>>

\* The first packet with enough lines: all lines so far, the packets held
\* back, then the packet itself.
WriteKeys(p) ==
  /\ keyed /\ ~keylogWritten /\ ~HoldBack
  /\ keylogWritten' = TRUE
  /\ file' = Append(file, KeyBlock) \o Written(Append(buffered, p))
  /\ buffered' = <<>>

TrackTransmit(p) ==
  /\ ~dropped /\ Len(tracked) < MaxPackets
  /\ tracked' = Append(tracked, [packet |-> p, at |-> now, held |-> HoldBack])
  /\ \/ HoldBack /\ buffered' = Append(buffered, p) /\ UNCHANGED <<file, keylogWritten>>
     \/ WriteKeys(p)
     \/ /\ ~keyed \/ keylogWritten
        /\ file' = file \o Written(<<p>>)
        /\ UNCHANGED <<buffered, keylogWritten>>
  /\ UNCHANGED <<now, keyed, log, dropped>>

NextId == Len(tracked) + 1

\* try_send: a host encrypts with secrets that it has derived, and so logged.
Send(c, n) ==
  /\ n <= log[c]
  /\ TrackTransmit([id |-> NextId, conn |-> c, needs |-> n])

\* poll_recv: a packet may be ahead of the secrets that decrypt it.
Receive(c, n) == TrackTransmit([id |-> NextId, conn |-> c, needs |-> n])

Log_bothSides(c) ==
  /\ ~dropped /\ log[c] < Lines
  /\ log' = [log EXCEPT ![c] = @ + 2]
  /\ UNCHANGED <<now, keyed, keylogWritten, buffered, file, dropped, tracked>>

\* KeyLog::log
Log(c) ==
  /\ ~dropped /\ log[c] < Lines
  /\ log' = [log EXCEPT ![c] = @ + 1]
  /\ UNCHANGED <<now, keyed, keylogWritten, buffered, file, dropped, tracked>>

Tick ==
  /\ ~dropped /\ now < Horizon
  /\ now' = now + 1
  /\ UNCHANGED <<keyed, log, keylogWritten, buffered, file, dropped, tracked>>

Drop_forgets ==
  /\ ~dropped /\ dropped' = TRUE
  /\ file' = file /\ buffered' = <<>>
  /\ UNCHANGED <<now, keyed, log, keylogWritten, tracked>>

\* The runtime ends and with it the socket: what was held back is written.
Drop ==
  /\ ~dropped /\ dropped' = TRUE
  /\ file' = file \o Written(buffered)
  /\ buffered' = <<>>
  /\ UNCHANGED <<now, keyed, log, keylogWritten, tracked>>

Init ==
  /\ now = 0 /\ keyed \in BOOLEAN /\ log = NoKeys /\ keylogWritten = FALSE
  /\ buffered = <<>> /\ file = <<>> /\ dropped = FALSE /\ tracked = <<>>

Next ==
  \/ \E c \in Connection, n \in Needs : Send(c, n)
  \/ \E c \in Connection, n \in Needs : Receive(c, n)
  \/ \E c \in Connection : Log(c)
  \/ Tick
  \/ Drop

Spec == Init /\ [][Next]_vars

-----------------------------------------------------------------------------
(* Properties.                                                              *)

\* Types: no connection logs more lines than rustls has secrets, and only packets
\* that were tracked are held back or written.
TypeOK ==
  /\ now \in 0..Horizon
  /\ keyed \in BOOLEAN /\ keylogWritten \in BOOLEAN /\ dropped \in BOOLEAN
  /\ log \in [Connection -> 0..Lines]
  /\ buffered \in Seq(Packet)
  /\ \A i \in DOMAIN file : file[i].kind = "packet" => file[i].packet \in Packet
  /\ tracked \in Seq([packet: Packet, at: 0..Horizon, held: BOOLEAN])

KeyBlocks    == {i \in DOMAIN file : file[i].kind = "keys"}
PacketBlocks == DOMAIN file \ KeyBlocks

\* The packet block at position i of the file is the Nth(i)-th packet block.
Nth(i)  == i - Cardinality({k \in KeyBlocks : k < i})
InFile  == Len(file) - Cardinality(KeyBlocks)

\* The capture loses, repeats and reorders nothing: the packets in the file, and
\* after them those held back, are the packets tracked, in that order; and once
\* the exporter is dropped all of them are in the file.
NothingMissing ==
  /\ InFile + Len(buffered) = Len(tracked)
  /\ \A i \in PacketBlocks : file[i].packet = tracked[Nth(i)].packet
  /\ \A i \in DOMAIN buffered : buffered[i] = tracked[InFile + i].packet
  /\ dropped => buffered = <<>>

\* The timestamps in a file never go back.  A packet that was written when it was
\* tracked, with or without a key log and after the lines as well, bears the time
\* it was tracked at; one that was held back bears that of the lines, or of the
\* end of the capture if there are none, which is not earlier.
StampedInOrder ==
  \A i \in PacketBlocks :
    /\ \A j \in PacketBlocks : j <= i => file[j].at <= file[i].at
    /\ IF tracked[Nth(i)].held
         THEN /\ file[i].at >= tracked[Nth(i)].at
              /\ \A k \in KeyBlocks : file[i].at = file[k].at
         ELSE file[i].at = tracked[Nth(i)].at

Readable(b) == \E k \in KeyBlocks : file[k].keys[b.packet.conn] >= b.packet.needs

\* Wireshark reads a file from the front: with a key log, the lines are written
\* once and before any packet, unless too few came before the exporter was
\* dropped; and as long as the socket has one connection, every packet behind
\* them can be decrypted.
KeysComeFirst ==
  /\ keyed /\ file # <<>> =>
       \/ KeyBlocks = {1} /\ keylogWritten
       \/ KeyBlocks = {} /\ dropped /\ ~keylogWritten
  /\ \A c \in Connection :
       keylogWritten /\ (\A d \in Connection \ {c} : log[d] = 0) =>
         \A i \in PacketBlocks : file[i].packet.conn = c => Readable(file[i])

\* readme.md:233, of the captures: "Opening the file with Wireshark should Just
\* Work, since the encryption keys are included in it."  Every packet that a
\* capture with keys holds can be decrypted with them.
AllReadable == keylogWritten => \A i \in PacketBlocks : Readable(file[i])
=============================================================================
