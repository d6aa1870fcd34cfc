---------------------------- MODULE FrameParser ----------------------------
(***************************************************************************)
(* How messages are cut out of a stream of bytes.                          *)
(*                                                                         *)
(* Two readers share the scheme: append what recv() gives to chRecvBuffer  *)
(* and, as long as VerifyRecvPacket finds a packet, move what follows it   *)
(* to the front and put a message.  Reader "device" is CCmdHandler_T, for  *)
(* packets between an 8-byte head and tail, whose own length must agree.   *)
(* Reader "event" is the event link of SerialComProxy, for packets of a    *)
(* 4-byte head and a total length; it copies the message out of the        *)
(* buffer after the move, and acknowledges it.                             *)
(*                                                                         *)
(* A unit is a piece of a packet that the readers treat as one: the head,  *)
(* the length, a part of the body, the tail.  recv() may cut the stream    *)
(* anywhere between units.                                                 *)
(***************************************************************************)
EXTENDS Integers, Sequences

CONSTANTS
  Readers,    \* which of "device" and "event"
  Sizes,      \* the body sizes of packets
  Space,      \* the size of chRecvBuffer: MAX_MSG_BODYLEN
  MaxPackets  \* bound on the packets sent over a connection

ASSUME FrameAssumption ==
  /\ Readers \subseteq {"device", "event"}
  /\ Sizes \subseteq Nat /\ Space \in Nat \ {0} /\ MaxPackets \in Nat

VARIABLES
  reader,        \* which reader it is, for good
  packets,       \* the packets sent over the connection
  wire,          \* their units not yet received
  stopped,       \* the peer has ended the connection
  seen,          \* history: the units received
  chRecvBuffer,  \* what counts of the buffer: its first nRecvLen units
  messages,      \* what was put on the message list
  acks,          \* the feedback sent
  pc

peerVars == <<packets, wire, stopped>>
frameVars == <<reader, peerVars, seen, chRecvBuffer, messages, acks, pc>>

Length(p)   == p.size + 3
Unit(p, i)  == [of |-> p, at |-> i]
Units(p)    == [i \in 1 .. Length(p) |-> Unit(p, i)]

FrameInit ==
  /\ reader \in Readers
  /\ packets = << >> /\ wire = << >> /\ stopped = FALSE
  /\ seen = {}
  /\ chRecvBuffer = << >>
  /\ messages = << >> /\ acks = 0
  /\ pc = "recv"

-----------------------------------------------------------------------------
(* The peer                                                                *)

(* A packet; in one that is not fair the length inside is not its own.     *)
Send(size, fair) ==
  /\ ~stopped /\ Len(packets) < MaxPackets
  /\ reader = "event" => fair
  /\ LET p == [id |-> Len(packets) + 1, size |-> size, fair |-> fair] IN
       /\ packets' = Append(packets, p)
       /\ wire' = wire \o Units(p)
  /\ UNCHANGED <<reader, stopped, seen, chRecvBuffer, messages, acks, pc>>

(* The end comes after what was sent or, when the peer fails, before.      *)
Stop ==
  /\ ~stopped
  /\ stopped' = TRUE
  /\ \E k \in 0 .. Len(wire) : wire' = SubSeq(wire, 1, k)
  /\ UNCHANGED <<reader, packets, seen, chRecvBuffer, messages, acks, pc>>

-----------------------------------------------------------------------------
(* The reader                                                              *)

nRecvLen  == Len(chRecvBuffer)
Memory(i) == chRecvBuffer[i]

(* Mutant: room for a whole buffer is assumed behind what is there.        *)
ReceiveOver(n) ==
  /\ pc = "recv" /\ n <= Len(wire) /\ n <= Space
  /\ pc' = "verify"
  /\ chRecvBuffer' = chRecvBuffer \o SubSeq(wire, 1, n)
  /\ wire' = SubSeq(wire, n + 1, Len(wire))
  /\ seen' = seen \cup {wire[i] : i \in 1 .. n}
  /\ UNCHANGED <<reader, packets, stopped, messages, acks>>

(* recv() into the buffer behind what is there.                            *)
Receive(n) ==
  /\ pc = "recv" /\ n <= Len(wire) /\ nRecvLen + n <= Space
  /\ pc' = "verify"
  /\ chRecvBuffer' = chRecvBuffer \o SubSeq(wire, 1, n)
  /\ wire' = SubSeq(wire, n + 1, Len(wire))
  /\ seen' = seen \cup {wire[i] : i \in 1 .. n}
  /\ UNCHANGED <<reader, packets, stopped, messages, acks>>

(* recv() gives 0: at the end of the stream, or into a buffer that is full.*)
(* The device reader verifies what it has once more.                       *)
ReceiveEnd ==
  /\ pc = "recv"
  /\ (stopped /\ wire = << >>) \/ nRecvLen = Space
  /\ pc' = IF reader = "device" THEN "last" ELSE "closed"
  /\ UNCHANGED <<reader, peerVars, seen, chRecvBuffer, messages, acks>>

(* Whether the buffer holds a packet, and where its tail is.               *)
SearchHeadPos(h) ==
  /\ h \in 1 .. nRecvLen /\ Memory(h).at = 1
  /\ \A i \in 1 .. h - 1 : Memory(i).at # 1

SearchTailPos(t) ==
  \/ /\ reader = "device"
     /\ t \in 1 .. nRecvLen /\ Memory(t).at = Length(Memory(t).of)
     /\ \A i \in 1 .. t - 1 : Memory(i).at # Length(Memory(i).of)
  \/ /\ reader = "event"
     /\ nRecvLen >= 2 /\ t = Length(Memory(2).of) /\ t <= nRecvLen

Found(h, t) == SearchHeadPos(h) /\ SearchTailPos(t)

(* The memory after what follows the tail was moved to the front.          *)
Moved(t) ==
  [i \in 1 .. nRecvLen |->
    IF i <= nRecvLen - t THEN Memory(i + t) ELSE Memory(i)]

(* The device reader has copied head to tail before the move; its message  *)
(* counts when the length inside agrees with that of the copy, taken as if *)
(* the head were at the front.                                             *)
PutDevice(h, t) ==
  messages' = IF Memory(h + 1).of.fair /\ t - 2 = Memory(h + 1).of.size + 1
              THEN Append(messages, SubSeq(chRecvBuffer, h + 1, t - 1))
              ELSE messages

(* The event reader copies from the buffer after the move.                 *)
PutEvent(t) == messages' = Append(messages, SubSeq(Moved(t), 1, t))

VerifyRecvPacket(h, t) ==
  /\ pc \in {"verify", "last"} /\ Found(h, t)
  /\ chRecvBuffer' = SubSeq(Moved(t), 1, nRecvLen - t)
  /\ IF reader = "device" THEN PutDevice(h, t) /\ UNCHANGED acks
                          ELSE PutEvent(t) /\ acks' = acks + 1
  /\ UNCHANGED <<reader, peerVars, seen, pc>>

NoPacket ==
  /\ pc \in {"verify", "last"}
  /\ ~\E h, t \in 1 .. nRecvLen : Found(h, t)
  /\ pc' = IF pc = "last" THEN "closed" ELSE "recv"
  /\ UNCHANGED <<reader, peerVars, seen, chRecvBuffer, messages, acks>>

(* Mutant: the handler starts with what its last connection left.          *)
OpenKeepsLength ==
  /\ pc = "closed" /\ pc' = "recv"
  /\ packets' = << >> /\ wire' = << >> /\ stopped' = FALSE
  /\ seen' = {} /\ messages' = << >> /\ acks' = 0
  /\ UNCHANGED <<reader, chRecvBuffer>>

(* The next connection of this handler.                                    *)
Open ==
  /\ pc = "closed" /\ pc' = "recv"
  /\ packets' = << >> /\ wire' = << >> /\ stopped' = FALSE
  /\ seen' = {} /\ messages' = << >> /\ acks' = 0
  /\ chRecvBuffer' = << >>
  /\ UNCHANGED reader

-----------------------------------------------------------------------------
FrameNext ==
  \/ \E size \in Sizes, fair \in BOOLEAN : Send(size, fair)
  \/ Stop
  \/ \E n \in 1 .. Space : Receive(n)
  \/ ReceiveEnd
  \/ \E h, t \in 1 .. nRecvLen : VerifyRecvPacket(h, t)
  \/ NoPacket
  \/ Open

FrameSpec == FrameInit /\ [][FrameNext]_frameVars

-----------------------------------------------------------------------------
(* Properties                                                              *)

Packet == [id : 1 .. MaxPackets, size : Sizes, fair : BOOLEAN]
AUnit  == [of : Packet, at : Nat \ {0}]

FrameTypeOK ==
  /\ reader \in Readers
  /\ packets \in Seq(Packet) /\ wire \in Seq(AUnit) /\ stopped \in BOOLEAN
  /\ seen \subseteq AUnit
  /\ chRecvBuffer \in Seq(AUnit) /\ Len(chRecvBuffer) <= Space
  /\ messages \in Seq(Seq(AUnit))
  /\ acks \in 0 .. MaxPackets
  /\ pc \in {"recv", "verify", "last", "closed"}

Whole(p) == Unit(p, Length(p)) \in seen

(* What the device reader puts of a packet: what is between head and tail. *)
Body(p) == SubSeq(Units(p), 2, Length(p) - 1)

(* When the device reader waits for more bytes, or has closed, it has put  *)
(* the packets that came whole, each once, in order and unchanged, and of  *)
(* no other; however recv() cut or joined them.                            *)
DeviceMessages ==
  reader = "device" /\ pc \in {"recv", "closed"} =>
    LET good == {k \in 1 .. Len(packets) : packets[k].fair /\ Whole(packets[k])} IN
      /\ \A i \in 1 .. Len(messages) : \E k \in good : messages[i] = Body(packets[k])
      /\ \A k \in good : \E i \in 1 .. Len(messages) : messages[i] = Body(packets[k])
      /\ \A i, j \in 1 .. Len(messages) :
           i < j => messages[i][1].of.id < messages[j][1].of.id

(* Packets fit into the buffer.                                            *)
Fits == \A size \in Sizes : size + 3 <= Space

(* A connection is closed only after the peer ended it: packets that fit   *)
(* never fill the buffer.                                                  *)
NoFalseEnd == pc \in {"last", "closed"} => stopped

(* The event reader puts and acknowledges each packet that came whole once *)
(* and with its length; that its bytes are right it does not say, see      *)
(* CopiesOriginal.                                                         *)
EventCounts ==
  reader = "event" /\ pc \in {"recv", "closed"} =>
    /\ acks = Len(messages) /\ acks <= Len(packets)
    /\ \A k \in 1 .. Len(packets) : Whole(packets[k]) <=> k <= acks
    /\ \A k \in 1 .. acks : Len(messages[k]) = Length(packets[k])

(* Together: however the bytes arrive, a packet that came whole is put for *)
(* the handling thread exactly once, and no connection is given up for it. *)
PacketsOnce == DeviceMessages /\ EventCounts /\ NoFalseEnd

(* A message of the event link is a copy of the packet that came:          *)
(* "copy the original packet", ControlCmdHandler.cpp 164.                  *)
CopiesOriginal ==
  \A i \in 1 .. Len(messages) : \E j \in 1 .. Len(packets) :
    messages[i] = Units(packets[j])
=============================================================================
