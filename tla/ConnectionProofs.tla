-------------------------- MODULE ConnectionProofs --------------------------
(***************************************************************************)
(* Proofs about the connections to the servers: how packets are cut out of *)
(* their bytes (FrameParser), for any sizes of packets and of the buffer   *)
(* and any number of packets, and the thread that makes the event link     *)
(* beside the one that reads it (EventLink), for any table of descriptors  *)
(* and any number of other connections.                                    *)
(*                                                                         *)
(* PacketsOnce is not inductive: it speaks of a reader that has searched   *)
(* its buffer.  FrameInv says what holds all along.  The units of the      *)
(* buffer and of the wire are one stream, in which packets follow whole    *)
(* and in order and which begins with a packet; the packets of which the   *)
(* last unit was received and is no longer in the buffer are those before  *)
(* the first of the stream; and those are the ones put.                    *)
(***************************************************************************)
EXTENDS FrameParser, EventLink, SequenceTheorems, TLAPS

(* The units not yet taken out: the buffer's, then those on the wire.      *)
Count == nRecvLen + Len(wire)
At(i) == IF i <= nRecvLen THEN chRecvBuffer[i] ELSE wire[i - nRecvLen]

(* How many units of its packet come after a unit.                         *)
Rest(i) == Length(At(i).of) - At(i).at

Named ==
  /\ \A k \in 1 .. Len(packets) : packets[k].id = k
  /\ \A i \in 1 .. Count :
       /\ At(i).at <= Length(At(i).of)
       /\ At(i).of.id <= Len(packets) /\ packets[At(i).of.id] = At(i).of

(* They follow each other as they were sent.                               *)
Runs ==
  \A i, j \in 1 .. Count : i < j =>
    IF j - i <= Rest(i)
      THEN At(j) = Unit(At(i).of, At(i).at + (j - i))
      ELSE /\ At(j).of.id > At(i).of.id
           /\ j - i = Rest(i) + 1 => At(j).at = 1 /\ At(j).of.id = At(i).of.id + 1

Begins == Count > 0 => At(1).at = 1

(* Before the end of the stream its last packet is whole.                  *)
Ends ==
  ~stopped => \A i \in 1 .. Count :
    /\ i + Rest(i) <= Count
    /\ i + Rest(i) = Count => At(i).of.id = Len(packets)

Stream == Named /\ Runs /\ Begins /\ Ends

(* The packets taken out of the buffer.                                    *)
Last(k)     == Unit(packets[k], Length(packets[k]))
Buffered(u) == \E i \in 1 .. nRecvLen : chRecvBuffer[i] = u
Done        == {k \in 1 .. Len(packets) : Last(k) \in seen /\ ~Buffered(Last(k))}

Taken ==
  /\ \A u \in seen : u.of.id <= Len(packets)
  /\ \A i \in 1 .. nRecvLen : chRecvBuffer[i] \in seen
  /\ Count > 0 => \A k \in 1 .. Len(packets) : k \in Done <=> k < At(1).of.id
  /\ Count = 0 /\ ~stopped => \A k \in 1 .. Len(packets) : k \in Done

(* No packet is left in the buffer but while the reader looks for one.     *)
Searched ==
  pc # "verify" =>
    \A i \in 1 .. nRecvLen : chRecvBuffer[i].at # Length(chRecvBuffer[i].of)

DevicePuts ==
  reader = "device" =>
    /\ acks = 0
    /\ \A i \in 1 .. Len(messages) :
         \E k \in Done : packets[k].fair /\ messages[i] = Body(packets[k])
    /\ \A k \in Done : packets[k].fair =>
         \E i \in 1 .. Len(messages) : messages[i] = Body(packets[k])
    /\ \A i, j \in 1 .. Len(messages) : i < j => messages[i][1].of.id < messages[j][1].of.id

EventPuts ==
  reader = "event" =>
    /\ acks = Len(messages) /\ acks <= Len(packets)
    /\ \A k \in 1 .. Len(packets) : k \in Done <=> k <= acks
    /\ \A k \in 1 .. acks : Len(messages[k]) = Length(packets[k])

FrameInv == Stream /\ Taken /\ Searched /\ DevicePuts /\ EventPuts

(* FrameTypeOK but for the bound on acks, which FrameInv gives.                 *)
Types ==
  /\ reader \in Readers
  /\ packets \in Seq(Packet) /\ wire \in Seq(AUnit) /\ stopped \in BOOLEAN
  /\ seen \subseteq AUnit
  /\ chRecvBuffer \in Seq(AUnit) /\ Len(chRecvBuffer) <= Space
  /\ messages \in Seq(Seq(AUnit))
  /\ acks \in Nat
  /\ pc \in {"recv", "verify", "last", "closed"}
  /\ Len(packets) <= MaxPackets

-----------------------------------------------------------------------------
(* What the operators give                                                 *)

LEMMA UnitsProperties ==
  ASSUME NEW p \in Packet
  PROVE  /\ Length(p) \in Nat /\ Length(p) >= 3
         /\ Units(p) \in Seq(AUnit)
         /\ Len(Units(p)) = Length(p)
         /\ \A i \in 1 .. Length(p) : Units(p)[i] = Unit(p, i)
  <1>1. Length(p) \in Nat /\ Length(p) >= 3
    <2>1. p.size \in Nat
      BY FrameAssumption DEF Packet
    <2> QED
      BY <2>1 DEF Length
  <1>2. \A i \in 1 .. Length(p) : Unit(p, i) \in AUnit
    BY <1>1 DEF Unit, AUnit
  <1>3. Units(p) \in [1 .. Length(p) -> AUnit]
    BY <1>2 DEF Units
  <1>4. Units(p) \in Seq(AUnit)
    BY <1>1, <1>3, SeqDef
  <1>5. Len(Units(p)) = Length(p)
    BY <1>1, <1>3, <1>4, LenProperties
  <1> QED
    BY <1>1, <1>4, <1>5 DEF Units

LEMMA BodyProperties ==
  ASSUME NEW p \in Packet
  PROVE  /\ Body(p) \in Seq(AUnit) /\ Len(Body(p)) = Length(p) - 2
         /\ \A i \in 1 .. Length(p) - 2 : Body(p)[i] = Unit(p, i + 1)
  <1>1. \A i \in 2 .. Length(p) - 1 : Units(p)[i] \in AUnit
    BY UnitsProperties, ElementOfSeq
  <1>2. /\ SubSeq(Units(p), 2, Length(p) - 1) \in Seq(AUnit)
        /\ Len(SubSeq(Units(p), 2, Length(p) - 1)) = Length(p) - 2
        /\ \A i \in 1 .. Length(p) - 2 :
             SubSeq(Units(p), 2, Length(p) - 1)[i] = Units(p)[i + 1]
    <2>1. 2 \in Int /\ Length(p) - 1 \in Int
      BY UnitsProperties
    <2> QED
      BY <1>1, <2>1, SubSeqProperties, UnitsProperties
  <1> QED
    BY <1>2, UnitsProperties DEF Body

LEMMA Part ==
  ASSUME NEW S, NEW s \in Seq(S), NEW m \in Nat \ {0}, NEW n \in 0 .. Len(s), m <= n + 1
  PROVE  /\ SubSeq(s, m, n) \in Seq(S) /\ Len(SubSeq(s, m, n)) = n - m + 1
         /\ \A i \in 1 .. n - m + 1 : SubSeq(s, m, n)[i] = s[m + i - 1]
  <1>1. \A i \in m .. n : s[i] \in S
    BY ElementOfSeq, LenProperties
  <1> QED
    BY <1>1, SubSeqProperties, LenProperties

(* The move leaves what follows the tail.                                  *)
LEMMA MovedProperties ==
  ASSUME Types, NEW t \in 1 .. nRecvLen
  PROVE  /\ Moved(t) \in Seq(AUnit) /\ Len(Moved(t)) = nRecvLen
         /\ SubSeq(Moved(t), 1, nRecvLen - t) \in Seq(AUnit)
         /\ Len(SubSeq(Moved(t), 1, nRecvLen - t)) = nRecvLen - t
         /\ \A i \in 1 .. nRecvLen - t :
              SubSeq(Moved(t), 1, nRecvLen - t)[i] = chRecvBuffer[i + t]
         /\ SubSeq(Moved(t), 1, t) \in Seq(AUnit)
         /\ Len(SubSeq(Moved(t), 1, t)) = t
  <1>1. nRecvLen \in Nat /\ \A i \in 1 .. nRecvLen : Memory(i) \in AUnit
    BY ElementOfSeq, LenProperties DEF Types, nRecvLen, Memory
  <1>2. Moved(t) \in [1 .. nRecvLen -> AUnit]
    BY <1>1 DEF Moved
  <1>3. Moved(t) \in Seq(AUnit) /\ Len(Moved(t)) = nRecvLen
    BY <1>1, <1>2, SeqDef
  <1>4. /\ SubSeq(Moved(t), 1, nRecvLen - t) \in Seq(AUnit)
        /\ Len(SubSeq(Moved(t), 1, nRecvLen - t)) = nRecvLen - t
        /\ \A i \in 1 .. nRecvLen - t :
              SubSeq(Moved(t), 1, nRecvLen - t)[i] = Moved(t)[i]
    <2>1. nRecvLen - t \in 0 .. Len(Moved(t)) /\ 1 <= nRecvLen - t + 1
      BY <1>1, <1>3
    <2> DEFINE n == nRecvLen - t
    <2>2. n - 1 + 1 = n /\ \A i \in 1 .. n : 1 + i - 1 = i
      BY <2>1
    <2> QED
      BY <1>3, <2>1, <2>2, Part
  <1>5. /\ SubSeq(Moved(t), 1, t) \in Seq(AUnit)
        /\ Len(SubSeq(Moved(t), 1, t)) = t
    BY <1>1, <1>3, Part
  <1> QED
    BY <1>1, <1>3, <1>4, <1>5 DEF Moved, Memory

LEMMA AtTypes ==
  ASSUME Types
  PROVE  /\ nRecvLen \in Nat /\ Len(wire) \in Nat /\ Len(packets) \in Nat
         /\ Count \in Nat
         /\ Count = nRecvLen + Len(wire)
         /\ \A k \in 1 .. Len(packets) : packets[k] \in Packet
         /\ \A i \in 1 .. Count : At(i) \in AUnit
         /\ \A i \in 1 .. Count :
              /\ At(i).at \in Nat \ {0} /\ At(i).of \in Packet
              /\ At(i).of.id \in Nat \ {0}
              /\ Length(At(i).of) \in Nat /\ Length(At(i).of) >= 3
              /\ Rest(i) = Length(At(i).of) - At(i).at /\ Rest(i) \in Int
  <1>1. nRecvLen \in Nat /\ Len(wire) \in Nat /\ Len(packets) \in Nat /\ Count \in Nat
    BY LenProperties DEF Types, nRecvLen, Count
  <1>2. \A k \in 1 .. Len(packets) : packets[k] \in Packet
    BY ElementOfSeq DEF Types
  <1>3. \A i \in 1 .. Count : At(i) \in AUnit
    BY <1>1, ElementOfSeq DEF Types, nRecvLen, Count, At
  <1>4. ASSUME NEW i \in 1 .. Count
        PROVE  /\ At(i).at \in Nat \ {0} /\ At(i).of \in Packet
               /\ At(i).of.id \in Nat \ {0}
               /\ Length(At(i).of) \in Nat /\ Length(At(i).of) >= 3
               /\ Rest(i) = Length(At(i).of) - At(i).at /\ Rest(i) \in Int
    <2>1. At(i).at \in Nat \ {0} /\ At(i).of \in Packet
      BY <1>3 DEF AUnit
    <2>2. At(i).of.id \in Nat \ {0}
      BY <2>1, FrameAssumption DEF Packet
    <2> QED
      BY <2>1, <2>2, UnitsProperties DEF Rest
  <1> QED
    BY <1>1, <1>2, <1>3, <1>4 DEF Count

-----------------------------------------------------------------------------
(* What a step does to the units                                           *)

(* The empty sequences of FrameInit and Open.                                   *)
LEMMA NothingYet ==
  /\ << >> \in Seq(Packet) /\ << >> \in Seq(AUnit) /\ << >> \in Seq(Seq(AUnit))
  /\ Len(<< >>) = 0 /\ 0 <= Space /\ 0 <= MaxPackets
  BY FrameAssumption, EmptySeq

LEMMA TypesInit == FrameInit => Types
  <1> SUFFICES ASSUME FrameInit PROVE Types
    OBVIOUS
  <1>1. packets = << >> /\ wire = << >> /\ chRecvBuffer = << >> /\ messages = << >>
    BY DEF FrameInit
  <1>2. /\ reader \in Readers /\ stopped \in BOOLEAN /\ seen \subseteq AUnit
        /\ acks \in Nat /\ pc = "recv"
    BY DEF FrameInit
  <1> QED
    BY <1>1, <1>2, NothingYet DEF Types

LEMMA MessagesAppend ==
  ASSUME Types, NEW m \in Seq(AUnit)
  PROVE  /\ Append(messages, m) \in Seq(Seq(AUnit))
         /\ Len(messages) \in Nat
         /\ Len(Append(messages, m)) = Len(messages) + 1
         /\ \A i \in 1 .. Len(messages) : Append(messages, m)[i] = messages[i]
         /\ Append(messages, m)[Len(messages) + 1] = m
  BY AppendProperties, LenProperties DEF Types

LEMMA TypesStep == Types /\ [FrameNext]_frameVars => Types'
  <1> SUFFICES ASSUME Types, [FrameNext]_frameVars PROVE Types'
    OBVIOUS
  <1>1. CASE UNCHANGED frameVars
    BY <1>1 DEF frameVars, peerVars, Types
  <1>2. ASSUME NEW size \in Sizes, NEW fair \in BOOLEAN, Send(size, fair) PROVE Types'
    <2> DEFINE p == [id |-> Len(packets) + 1, size |-> size, fair |-> fair]
    <2>1. p \in Packet
      BY <1>2, AtTypes, FrameAssumption DEF Send, Packet
    <2>2. packets' = Append(packets, p) /\ wire' = wire \o Units(p)
          /\ Len(packets) < MaxPackets
      BY <1>2 DEF Send
    <2>3. packets' \in Seq(Packet) /\ Len(packets') = Len(packets) + 1
      BY <2>1, <2>2, AppendProperties DEF Types
    <2>4. wire' \in Seq(AUnit)
      BY <2>1, <2>2, UnitsProperties, ConcatProperties DEF Types
    <2> QED
      BY <1>2, <2>2, <2>3, <2>4, AtTypes, FrameAssumption DEF Send, Types
  <1>3. CASE Stop
    <2>1. PICK k \in 0 .. Len(wire) : wire' = SubSeq(wire, 1, k)
      BY <1>3 DEF Stop
    <2>2. wire' \in Seq(AUnit)
      BY <2>1, Part DEF Types
    <2> QED
      BY <1>3, <2>2 DEF Stop, Types
  <1>4. ASSUME NEW n \in 1 .. Space, Receive(n) PROVE Types'
    <2>1. /\ SubSeq(wire, 1, n) \in Seq(AUnit) /\ Len(SubSeq(wire, 1, n)) = n
          /\ SubSeq(wire, n + 1, Len(wire)) \in Seq(AUnit)
      BY <1>4, Part, AtTypes DEF Receive, Types
    <2>2. chRecvBuffer' \in Seq(AUnit) /\ Len(chRecvBuffer') = nRecvLen + n
      BY <1>4, <2>1, ConcatProperties DEF Receive, Types, nRecvLen
    <2>3. seen' \subseteq AUnit
      BY <1>4, AtTypes, ElementOfSeq DEF Receive, Types
    <2> QED
      BY <1>4, <2>1, <2>2, <2>3 DEF Receive, Types
  <1>5. CASE ReceiveEnd \/ NoPacket
    BY <1>5 DEF ReceiveEnd, NoPacket, Types, peerVars
  <1>6. ASSUME NEW h \in 1 .. nRecvLen, NEW t \in 1 .. nRecvLen, VerifyRecvPacket(h, t)
        PROVE  Types'
    <2>1. chRecvBuffer' \in Seq(AUnit) /\ Len(chRecvBuffer') = nRecvLen - t
      BY <1>6, MovedProperties DEF VerifyRecvPacket
    <2>4. /\ reader' = reader /\ packets' = packets /\ wire' = wire /\ stopped' = stopped
          /\ seen' = seen /\ pc' = pc
          /\ nRecvLen - t <= Space
      BY <1>6, AtTypes, FrameAssumption DEF VerifyRecvPacket, peerVars, Types, nRecvLen
    <2>2. CASE reader = "device"
      <3>1. SubSeq(chRecvBuffer, h + 1, t - 1) \in Seq(AUnit)
        BY SubSeqProperties, ElementOfSeq, AtTypes DEF Types, nRecvLen
      <3>2. PutDevice(h, t) /\ acks' = acks
        BY <1>6, <2>2 DEF VerifyRecvPacket
      <3>3. messages' \in Seq(Seq(AUnit))
        BY <3>1, <3>2, MessagesAppend DEF PutDevice, Types
      <3> QED
        BY <1>6, <2>1, <2>4, <3>2, <3>3 DEF Types
    <2>3. CASE reader # "device"
      <3>1. PutEvent(t) /\ acks' = acks + 1
        BY <1>6, <2>3 DEF VerifyRecvPacket
      <3>2. messages' \in Seq(Seq(AUnit))
        BY <3>1, MovedProperties, MessagesAppend DEF PutEvent
      <3> QED
        BY <1>6, <2>1, <2>4, <3>1, <3>2 DEF Types
    <2> QED
      BY <2>2, <2>3
  <1>7. CASE Open
    BY <1>7, NothingYet DEF Open, Types
  <1> QED
    BY <1>1, <1>2, <1>3, <1>4, <1>5, <1>6, <1>7 DEF FrameNext

(* recv() moves units from the wire to the buffer.                         *)
LEMMA ReceiveKeeps ==
  ASSUME Types, NEW n \in 1 .. Space, Receive(n)
  PROVE  /\ Count' = Count /\ nRecvLen' = nRecvLen + n /\ nRecvLen' <= Count
         /\ \A i \in 1 .. Count : At(i)' = At(i)
         /\ \A i \in 1 .. nRecvLen' : chRecvBuffer'[i] = At(i)
         /\ seen' = seen \cup {At(i) : i \in nRecvLen + 1 .. nRecvLen + n}
  <1>1. /\ SubSeq(wire, 1, n) \in Seq(AUnit) /\ Len(SubSeq(wire, 1, n)) = n
        /\ \A i \in 1 .. n : SubSeq(wire, 1, n)[i] = wire[i]
    BY Part, AtTypes DEF Receive, Types
  <1>2. /\ SubSeq(wire, n + 1, Len(wire)) \in Seq(AUnit)
        /\ Len(SubSeq(wire, n + 1, Len(wire))) = Len(wire) - n
        /\ \A i \in 1 .. Len(wire) - n : SubSeq(wire, n + 1, Len(wire))[i] = wire[n + i]
    BY Part, AtTypes DEF Receive, Types
  <1>3. /\ nRecvLen' = nRecvLen + n
        /\ \A i \in 1 .. nRecvLen + n :
             chRecvBuffer'[i] = IF i <= nRecvLen THEN chRecvBuffer[i] ELSE wire[i - nRecvLen]
    BY <1>1, ConcatProperties, AtTypes DEF Receive, Types, nRecvLen
  <1>4. /\ Len(wire') = Len(wire) - n
        /\ \A i \in 1 .. Len(wire) - n : wire'[i] = wire[n + i]
    BY <1>2 DEF Receive
  <1>5. n \in Nat /\ n <= Len(wire) /\ seen' = seen \cup {wire[i] : i \in 1 .. n}
    BY FrameAssumption DEF Receive
  <1>6. Count' = Count /\ nRecvLen' <= Count
    BY <1>3, <1>4, <1>5, AtTypes DEF Count
  <1>7. ASSUME NEW i \in 1 .. Count PROVE At(i)' = At(i)
    <2>1. At(i)' = IF i <= nRecvLen + n THEN chRecvBuffer'[i] ELSE wire'[i - (nRecvLen + n)]
      BY <1>3 DEF At
    <2>2. CASE i <= nRecvLen + n
      BY <1>3, <2>1, <2>2, AtTypes DEF At
    <2>3. CASE i > nRecvLen + n
      <3>1. wire'[i - (nRecvLen + n)] = wire[n + (i - (nRecvLen + n))]
        BY <1>4, <1>5, <2>3, AtTypes
      <3>2. n + (i - (nRecvLen + n)) = i - nRecvLen
        BY <1>5, AtTypes
      <3> QED
        BY <1>5, <2>1, <2>3, <3>1, <3>2, AtTypes DEF At
    <2> QED
      BY <1>5, <2>2, <2>3, AtTypes
  <1>8. \A i \in 1 .. nRecvLen' : chRecvBuffer'[i] = At(i)
    BY <1>3 DEF At
  <1>9. {wire[i] : i \in 1 .. n} = {At(i) : i \in nRecvLen + 1 .. nRecvLen + n}
    <2>1. ASSUME NEW i \in 1 .. n
          PROVE  i + nRecvLen \in nRecvLen + 1 .. nRecvLen + n /\ At(i + nRecvLen) = wire[i]
      BY <1>5, AtTypes DEF At
    <2>2. ASSUME NEW i \in nRecvLen + 1 .. nRecvLen + n
          PROVE  i - nRecvLen \in 1 .. n /\ At(i) = wire[i - nRecvLen]
      BY <1>5, AtTypes DEF At
    <2> QED
      BY <2>1, <2>2
  <1> QED
    BY <1>3, <1>5, <1>6, <1>7, <1>8, <1>9

(* A packet sent comes after the others.                                   *)
LEMMA SendAdds ==
  ASSUME Types, NEW size \in Sizes, NEW fair \in BOOLEAN, Send(size, fair)
  PROVE  \E p \in Packet :
           /\ p.id = Len(packets) + 1
           /\ Len(packets') = Len(packets) + 1 /\ packets'[Len(packets) + 1] = p
           /\ \A k \in 1 .. Len(packets) : packets'[k] = packets[k]
           /\ Count' = Count + Length(p)
           /\ \A i \in 1 .. Count : At(i)' = At(i)
           /\ \A i \in Count + 1 .. Count + Length(p) : At(i)' = Unit(p, i - Count)
  <1> DEFINE p == [id |-> Len(packets) + 1, size |-> size, fair |-> fair]
  <1>1. p \in Packet
    BY AtTypes, FrameAssumption DEF Send, Packet
  <1>2. packets' = Append(packets, p) /\ wire' = wire \o Units(p) /\ chRecvBuffer' = chRecvBuffer
    BY DEF Send
  <1>3. p.id = Len(packets) + 1
    OBVIOUS
  <1> HIDE DEF p
  <1>4. /\ Len(packets') = Len(packets) + 1 /\ packets'[Len(packets) + 1] = p
        /\ \A k \in 1 .. Len(packets) : packets'[k] = packets[k]
    BY <1>1, <1>2, AppendProperties DEF Types
  <1>5. /\ Len(wire') = Len(wire) + Length(p)
        /\ \A i \in 1 .. Len(wire) + Length(p) :
             wire'[i] = IF i <= Len(wire) THEN wire[i] ELSE Unit(p, i - Len(wire))
    <2>1. Units(p) \in Seq(AUnit) /\ Len(Units(p)) = Length(p) /\ Length(p) \in Nat
      BY <1>1, UnitsProperties
    <2>2. /\ Len(wire') = Len(wire) + Len(Units(p))
          /\ \A i \in 1 .. Len(wire) + Len(Units(p)) :
               wire'[i] = IF i <= Len(wire) THEN wire[i] ELSE Units(p)[i - Len(wire)]
      BY <1>2, <2>1, ConcatProperties DEF Types
    <2>3. \A i \in 1 .. Length(p) : Units(p)[i] = Unit(p, i)
      BY <1>1, UnitsProperties
    <2>4. ASSUME NEW i \in 1 .. Len(wire) + Length(p), i > Len(wire)
          PROVE  i - Len(wire) \in 1 .. Length(p)
      BY <2>1, <2>4, AtTypes
    <2> QED
      BY <2>1, <2>2, <2>3, <2>4
  <1>6. Count' = Count + Length(p)
    BY <1>1, <1>2, <1>5, UnitsProperties, AtTypes DEF Count, nRecvLen
  <1>7. \A i \in 1 .. Count : At(i)' = At(i)
    BY <1>1, <1>2, <1>5, UnitsProperties, AtTypes DEF At, nRecvLen
  <1>8. ASSUME NEW i \in Count + 1 .. Count + Length(p) PROVE At(i)' = Unit(p, i - Count)
    <2>1. At(i)' = wire'[i - nRecvLen]
      BY <1>1, <1>2, UnitsProperties, AtTypes DEF At, nRecvLen
    <2>2. wire'[i - nRecvLen] = Unit(p, (i - nRecvLen) - Len(wire))
      BY <1>1, <1>5, UnitsProperties, AtTypes
    <2>3. (i - nRecvLen) - Len(wire) = i - Count
      BY <1>1, UnitsProperties, AtTypes
    <2> QED
      BY <2>1, <2>2, <2>3
  <1> QED
    BY <1>1, <1>3, <1>4, <1>6, <1>7, <1>8

(* The end of a connection keeps what the buffer has.                      *)
LEMMA StopCuts ==
  ASSUME Types, Stop
  PROVE  /\ Count' \in 0 .. Count /\ nRecvLen' = nRecvLen
         /\ \A i \in 1 .. Count' : At(i)' = At(i)
  <1>1. PICK k \in 0 .. Len(wire) : wire' = SubSeq(wire, 1, k)
    BY DEF Stop
  <1>2. chRecvBuffer' = chRecvBuffer
    BY DEF Stop
  <1>3. Len(wire') = k /\ \A i \in 1 .. k : wire'[i] = wire[i]
    BY <1>1, Part DEF Types
  <1>4. Count' = nRecvLen + k /\ nRecvLen' = nRecvLen
    BY <1>2, <1>3 DEF Count, nRecvLen
  <1>5. \A i \in 1 .. Count' : At(i)' = At(i)
    BY <1>2, <1>3, <1>4, AtTypes DEF At, nRecvLen
  <1>6. Count' \in 0 .. Count
    BY <1>4, AtTypes
  <1> QED
    BY <1>4, <1>5, <1>6

(* Taking a packet out takes what is before its end.                       *)
LEMMA VerifyTakes ==
  ASSUME Types, NEW h \in 1 .. nRecvLen, NEW t \in 1 .. nRecvLen, VerifyRecvPacket(h, t)
  PROVE  /\ Count' = Count - t /\ nRecvLen' = nRecvLen - t
         /\ \A i \in 1 .. Count - t : At(i)' = At(i + t)
         /\ \A i \in 1 .. nRecvLen - t : chRecvBuffer'[i] = chRecvBuffer[i + t]
  <1>1. /\ nRecvLen' = nRecvLen - t /\ wire' = wire
        /\ \A i \in 1 .. nRecvLen - t : chRecvBuffer'[i] = chRecvBuffer[i + t]
    BY MovedProperties DEF VerifyRecvPacket, nRecvLen, peerVars
  <1>2. Count' = Count - t
    BY <1>1, AtTypes DEF Count
  <1>3. ASSUME NEW i \in 1 .. Count - t PROVE At(i)' = At(i + t)
    <2>1. CASE i <= nRecvLen - t
      BY <1>1, <2>1, AtTypes DEF At
    <2>2. CASE i > nRecvLen - t
      <3>1. i - (nRecvLen - t) = (i + t) - nRecvLen
        BY AtTypes
      <3> QED
        BY <1>1, <2>2, <3>1, AtTypes DEF At
    <2> QED
      BY <2>1, <2>2, AtTypes
  <1> QED
    BY <1>1, <1>2, <1>3

-----------------------------------------------------------------------------
(* The first packet of the buffer                                          *)

First == At(1).of

(* The units begin with a packet.                                          *)
LEMMA FirstPacket ==
  ASSUME Types, Stream, Count > 0
  PROVE  /\ First \in Packet /\ Length(First) \in Nat /\ Length(First) >= 3
         /\ First.id \in 1 .. Len(packets) /\ packets[First.id] = First
         /\ \A i \in 1 .. Count : i <= Length(First) => At(i) = Unit(First, i)
         /\ \A i \in 1 .. Count : i > Length(First) =>
              /\ At(i).of.id > First.id
              /\ i = Length(First) + 1 => At(i).at = 1 /\ At(i).of.id = First.id + 1
         /\ \A i \in 1 .. Count : At(i).of.id >= First.id
  <1>1. 1 \in 1 .. Count /\ At(1).at = 1 /\ Rest(1) = Length(First) - 1
    BY AtTypes DEF Stream, Begins, First
  <1>2. /\ First \in Packet /\ Length(First) \in Nat /\ Length(First) >= 3
        /\ First.id \in Nat
    BY <1>1, AtTypes DEF First
  <1>3. First.id \in 1 .. Len(packets) /\ packets[First.id] = First
    <2>1. First.id >= 1
      BY <1>1, AtTypes DEF First
    <2> QED
      BY <1>1, <1>2, <2>1, AtTypes DEF Stream, Named, First
  <1>4. At(1) = Unit(First, 1)
    BY <1>1, AtTypes DEF AUnit, Unit, First
  <1>5. ASSUME NEW i \in 1 .. Count, i > 1
        PROVE  IF i - 1 <= Length(First) - 1
                 THEN At(i) = Unit(First, 1 + (i - 1))
                 ELSE /\ At(i).of.id > First.id
                      /\ i - 1 = Length(First) - 1 + 1 =>
                           At(i).at = 1 /\ At(i).of.id = First.id + 1
    BY <1>1, <1>5 DEF Stream, Runs, First
  <1>6. \A i \in 1 .. Count : i <= Length(First) => At(i) = Unit(First, i)
    <2> SUFFICES ASSUME NEW i \in 1 .. Count, i <= Length(First) PROVE At(i) = Unit(First, i)
      OBVIOUS
    <2>1. CASE i = 1
      BY <2>1, <1>4
    <2>2. CASE i > 1
      <3>1. i - 1 <= Length(First) - 1 /\ 1 + (i - 1) = i
        BY <1>2
      <3> QED
        BY <2>2, <3>1, <1>5
    <2> QED
      BY <2>1, <2>2, AtTypes
  <1>7. ASSUME NEW i \in 1 .. Count, i > Length(First)
        PROVE  /\ At(i).of.id > First.id
               /\ i = Length(First) + 1 => At(i).at = 1 /\ At(i).of.id = First.id + 1
    <2>1. /\ i > 1 /\ ~(i - 1 <= Length(First) - 1)
          /\ i = Length(First) + 1 => i - 1 = Length(First) - 1 + 1
      <3>1. Count \in Nat /\ Length(First) \in Nat /\ Length(First) >= 3
        BY <1>2, AtTypes
      <3> QED
        BY <3>1, <1>7
    <2> QED
      BY <1>5, <2>1
  <1>8. \A i \in 1 .. Count : At(i).of.id >= First.id
    <2> SUFFICES ASSUME NEW i \in 1 .. Count PROVE At(i).of.id >= First.id
      OBVIOUS
    <2>1. CASE i <= Length(First)
      BY <1>2, <1>6, <2>1 DEF Unit
    <2>2. CASE i > Length(First)
      BY <1>2, <1>7, <2>2, AtTypes
    <2> QED
      BY <1>2, <2>1, <2>2, AtTypes
  <1> QED
    BY <1>2, <1>3, <1>6, <1>7, <1>8

(* As the searches see it.                                                 *)
LEMMA FirstInBuffer ==
  ASSUME Types, Stream, nRecvLen > 0
  PROVE  /\ Length(First) \in Nat /\ Length(First) >= 3 /\ nRecvLen \in Nat
         /\ \A i \in 1 .. nRecvLen : Memory(i) = At(i) /\ Memory(i) = chRecvBuffer[i]
         /\ \A i \in 1 .. nRecvLen :
              i <= Length(First) => Memory(i).of = First /\ Memory(i).at = i
  <1>1. Count > 0 /\ nRecvLen \in Nat /\ nRecvLen <= Count
    BY AtTypes
  <1>2. Length(First) \in Nat /\ Length(First) >= 3
    BY <1>1, FirstPacket
  <1>3. ASSUME NEW i \in 1 .. nRecvLen PROVE Memory(i) = At(i) /\ Memory(i) = chRecvBuffer[i]
    BY <1>1 DEF Memory, At
  <1>4. ASSUME NEW i \in 1 .. nRecvLen, i <= Length(First)
        PROVE  Memory(i).of = First /\ Memory(i).at = i
    <2>1. i \in 1 .. Count
      BY <1>1, AtTypes
    <2>2. At(i) = Unit(First, i)
      BY <1>1, <1>4, <2>1, FirstPacket
    <2> QED
      BY <1>3, <2>2 DEF Unit
  <1> QED
    BY <1>1, <1>2, <1>3, <1>4

(* A search finds that packet.                                             *)
LEMMA FoundFirst ==
  ASSUME Types, Stream, NEW h \in 1 .. nRecvLen, NEW t \in 1 .. nRecvLen, Found(h, t)
  PROVE  h = 1 /\ t = Length(First)
  <1> DEFINE L == Length(First)
  <1>1. /\ L \in Nat /\ L >= 3 /\ nRecvLen \in Nat /\ nRecvLen > 0
        /\ \A i \in 1 .. nRecvLen : i <= L => Memory(i).of = First /\ Memory(i).at = i
    BY FirstInBuffer, AtTypes
  <1>2. h = 1
    <2>1. Memory(1).at = 1
      BY <1>1
    <2>2. h > 1 => 1 \in 1 .. h - 1
      BY <1>1
    <2> QED
      BY <1>1, <2>1, <2>2 DEF Found, SearchHeadPos
  <1>3. ASSUME reader = "device" PROVE t = L
    <2>1. /\ Memory(t).at = Length(Memory(t).of)
          /\ \A i \in 1 .. t - 1 : Memory(i).at # Length(Memory(i).of)
      BY <1>3 DEF Found, SearchTailPos
    <2>2. CASE t < L
      <3>1. Memory(t).of = First /\ Memory(t).at = t
        BY <1>1, <2>2
      <3> QED
        BY <1>1, <2>1, <2>2, <3>1
    <2>3. CASE t > L
      <3>1. L \in 1 .. t - 1 /\ L \in 1 .. nRecvLen /\ L <= L
        BY <1>1, <2>3
      <3>2. Memory(L).of = First /\ Memory(L).at = L
        BY <1>1, <3>1
      <3> QED
        BY <2>1, <3>1, <3>2
    <2> QED
      BY <1>1, <2>2, <2>3
  <1>4. ASSUME reader = "event" PROVE t = L
    <2>1. nRecvLen >= 2 /\ t = Length(Memory(2).of)
      BY <1>4 DEF Found, SearchTailPos
    <2>2. 2 \in 1 .. nRecvLen /\ 2 <= L
      BY <1>1, <2>1
    <2> QED
      BY <1>1, <2>1, <2>2
  <1>5. reader \in {"device", "event"}
    BY DEF Found, SearchTailPos
  <1> QED
    BY <1>2, <1>3, <1>4, <1>5

(* The search of a buffer with the end of any packet finds it.             *)
LEMMA Finds ==
  ASSUME Types, Stream, NEW i \in 1 .. nRecvLen, At(i).at = Length(At(i).of)
  PROVE  Length(First) \in 1 .. nRecvLen /\ Found(1, Length(First))
  <1> DEFINE L == Length(First)
  <1>1. /\ L \in Nat /\ L >= 3 /\ nRecvLen \in Nat /\ nRecvLen > 0
        /\ \A j \in 1 .. nRecvLen : Memory(j) = At(j)
        /\ \A j \in 1 .. nRecvLen : j <= L => Memory(j).of = First /\ Memory(j).at = j
    BY FirstInBuffer, AtTypes
  <1>2. L \in 1 .. nRecvLen
    <2>1. CASE i < L
      <3>1. Memory(i).of = First /\ Memory(i).at = i
        BY <1>1, <2>1
      <3> QED
        BY <1>1, <2>1, <3>1
    <2>2. CASE i >= L
      BY <1>1, <2>2
    <2> QED
      BY <1>1, <2>1, <2>2
  <1>3. SearchHeadPos(1)
    BY <1>1 DEF SearchHeadPos
  <1>4. ASSUME reader = "device" PROVE SearchTailPos(L)
    <2>1. Memory(L).at = Length(Memory(L).of)
      BY <1>1, <1>2
    <2>2. ASSUME NEW j \in 1 .. L - 1 PROVE Memory(j).at # Length(Memory(j).of)
      <3>1. j \in 1 .. nRecvLen /\ j < L
        BY <1>1, <1>2
      <3>2. Memory(j).of = First /\ Memory(j).at = j
        BY <1>1, <3>1
      <3> QED
        BY <1>1, <3>1, <3>2
    <2> QED
      BY <1>2, <1>4, <2>1, <2>2 DEF SearchTailPos
  <1>5. ASSUME reader = "event" PROVE SearchTailPos(L)
    <2>1. 2 \in 1 .. nRecvLen /\ 2 <= L
      BY <1>1, <1>2
    <2>2. Memory(2).of = First
      BY <1>1, <2>1
    <2> QED
      BY <1>1, <1>2, <1>5, <2>1, <2>2 DEF SearchTailPos
  <1>6. reader \in {"device", "event"}
    BY FrameAssumption DEF Types
  <1> QED
    BY <1>2, <1>3, <1>4, <1>5, <1>6 DEF Found

-----------------------------------------------------------------------------
(* The stream of units                                                     *)

LEMMA StreamSend ==
  ASSUME Types, Stream, NEW size \in Sizes, NEW fair \in BOOLEAN, Send(size, fair)
  PROVE  Stream'
  <1>1. PICK p \in Packet :
          /\ p.id = Len(packets) + 1
          /\ Len(packets') = Len(packets) + 1 /\ packets'[Len(packets) + 1] = p
          /\ \A k \in 1 .. Len(packets) : packets'[k] = packets[k]
          /\ Count' = Count + Length(p)
          /\ \A i \in 1 .. Count : At(i)' = At(i)
          /\ \A i \in Count + 1 .. Count + Length(p) : At(i)' = Unit(p, i - Count)
    BY SendAdds
  <1>2. Length(p) \in Nat /\ Length(p) >= 3
    BY UnitsProperties
  <1>3. ~stopped
    BY DEF Send
  <1>4. Count \in Nat /\ Len(packets) \in Nat
    BY AtTypes
  <1>5. ASSUME NEW i \in 1 .. Count
        PROVE  /\ At(i)' = At(i) /\ Rest(i)' = Rest(i) /\ Rest(i) \in Int
               /\ i + Rest(i) <= Count
               /\ i + Rest(i) = Count => At(i).of.id = Len(packets)
               /\ At(i).at <= Length(At(i).of)
               /\ At(i).of.id \in 1 .. Len(packets)
               /\ packets[At(i).of.id] = At(i).of
    <2>1. At(i)' = At(i)
      BY <1>1
    <2>2. Rest(i)' = Rest(i)
      BY <2>1 DEF Rest
    <2>3. /\ i + Rest(i) <= Count
          /\ i + Rest(i) = Count => At(i).of.id = Len(packets)
      BY <1>3 DEF Stream, Ends
    <2>4. /\ At(i).at <= Length(At(i).of) /\ At(i).of.id <= Len(packets)
          /\ packets[At(i).of.id] = At(i).of
      BY DEF Stream, Named
    <2> QED
      BY <2>1, <2>2, <2>3, <2>4, AtTypes
  <1>6. ASSUME NEW i \in Count + 1 .. Count + Length(p)
        PROVE  /\ At(i)'.of = p /\ At(i)'.at = i - Count
               /\ Rest(i)' = Length(p) - (i - Count)
    BY <1>1, <1>6 DEF Unit, Rest
  <1>7. \A i \in 1 .. Count + Length(p) : i \in 1 .. Count \/ i \in Count + 1 .. Count + Length(p)
    BY <1>2, <1>4
  <1>8. Named'
    <2>1. \A k \in 1 .. Len(packets') : packets'[k].id = k
      BY <1>1, <1>4 DEF Stream, Named
    <2>2. ASSUME NEW i \in 1 .. Count
          PROVE  /\ At(i)'.at <= Length(At(i)'.of)
                 /\ At(i)'.of.id <= Len(packets') /\ packets'[At(i)'.of.id] = At(i)'.of
      <3>1. packets'[At(i).of.id] = At(i).of
        BY <1>1, <1>5
      <3> QED
        BY <1>1, <1>4, <1>5, <3>1
    <2>3. ASSUME NEW i \in Count + 1 .. Count + Length(p)
          PROVE  /\ At(i)'.at <= Length(At(i)'.of)
                 /\ At(i)'.of.id <= Len(packets') /\ packets'[At(i)'.of.id] = At(i)'.of
      BY <1>1, <1>2, <1>4, <1>6
    <2> QED
      BY <1>1, <1>7, <2>1, <2>2, <2>3 DEF Named
  <1>9. Runs'
    <2> SUFFICES ASSUME NEW i \in 1 .. Count', NEW j \in 1 .. Count', i < j
                 PROVE  IF j - i <= Rest(i)'
                          THEN At(j)' = Unit(At(i)'.of, At(i)'.at + (j - i))
                          ELSE /\ At(j)'.of.id > At(i)'.of.id
                               /\ j - i = Rest(i)' + 1 =>
                                    At(j)'.at = 1 /\ At(j)'.of.id = At(i)'.of.id + 1
      BY DEF Runs
    <2>1. CASE i \in 1 .. Count /\ j \in 1 .. Count
      BY <2>1, <1>5 DEF Stream, Runs
    <2>2. CASE i \in 1 .. Count /\ j \in Count + 1 .. Count + Length(p)
      <3>1. j - i > Rest(i)
        BY <1>2, <1>4, <1>5, <2>2
      <3>2. At(j)'.of.id > At(i)'.of.id
        BY <1>1, <1>4, <1>5, <1>6, <2>2
      <3>3. ASSUME j - i = Rest(i) + 1 PROVE At(j)'.at = 1 /\ At(j)'.of.id = At(i)'.of.id + 1
        <4>1. i + Rest(i) = Count /\ j = Count + 1
          <5>1. i + Rest(i) <= Count /\ Rest(i) \in Int
            BY <1>5, <2>2
          <5> QED
            BY <1>2, <1>4, <2>2, <3>3, <5>1
        <4>2. At(i).of.id = Len(packets) /\ At(i)' = At(i)
          BY <1>5, <2>2, <4>1
        <4>3. At(j)'.of = p /\ At(j)'.at = j - Count
          BY <1>6, <2>2
        <4> QED
          BY <1>1, <1>4, <4>1, <4>2, <4>3
      <3> QED
        BY <1>4, <1>5, <2>2, <3>1, <3>2, <3>3
    <2>3. CASE i \in Count + 1 .. Count + Length(p)
      <3>1. j \in Count + 1 .. Count + Length(p) /\ j - i <= Length(p) - (i - Count)
        BY <1>1, <1>2, <1>4, <2>3
      <3>2. At(j)' = Unit(p, (i - Count) + (j - i))
        <4>1. j - Count = (i - Count) + (j - i)
          BY <1>4, <2>3, <3>1
        <4> QED
          BY <1>1, <3>1, <4>1
      <3> QED
        BY <1>6, <2>3, <3>1, <3>2
    <2> QED
      BY <1>1, <1>7, <1>2, <1>4, <2>1, <2>2, <2>3
  <1>10. Begins'
    <2>1. CASE Count > 0
      BY <1>4, <1>5, <2>1 DEF Stream, Begins
    <2>2. CASE Count = 0
      <3>1. 1 \in Count + 1 .. Count + Length(p)
        BY <1>2, <2>2
      <3> QED
        BY <1>6, <2>2, <3>1 DEF Begins
    <2> QED
      BY <1>4, <2>1, <2>2
  <1>11. Ends'
    <2>1. ASSUME NEW i \in 1 .. Count
          PROVE  i + Rest(i)' <= Count' /\ i + Rest(i)' # Count'
      BY <1>1, <1>2, <1>4, <1>5
    <2>2. ASSUME NEW i \in Count + 1 .. Count + Length(p)
          PROVE  i + Rest(i)' <= Count' /\ At(i)'.of.id = Len(packets')
      BY <1>1, <1>2, <1>4, <1>6
    <2> QED
      BY <1>1, <1>7, <2>1, <2>2 DEF Ends
  <1> QED
    BY <1>8, <1>9, <1>10, <1>11 DEF Stream

LEMMA StreamStop == Types /\ Stream /\ Stop => Stream'
  <1> SUFFICES ASSUME Types, Stream, Stop PROVE Stream'
    OBVIOUS
  <1>1. /\ packets' = packets /\ stopped' = TRUE /\ Count \in Nat
        /\ Count' \in 0 .. Count /\ \A i \in 1 .. Count' : At(i)' = At(i)
    BY StopCuts, AtTypes DEF Stop
  <1>2. ASSUME NEW i \in 1 .. Count'
        PROVE  i \in 1 .. Count /\ At(i)' = At(i) /\ Rest(i)' = Rest(i)
    BY <1>1 DEF Rest
  <1>3. Named'
    BY <1>1, <1>2 DEF Stream, Named
  <1>4. Runs'
    BY <1>2 DEF Stream, Runs
  <1>5. Begins'
    <2>1. Count' > 0 => 1 \in 1 .. Count' /\ Count > 0
      BY <1>1
    <2> QED
      BY <1>2, <2>1 DEF Stream, Begins
  <1> QED
    BY <1>1, <1>3, <1>4, <1>5 DEF Stream, Ends

LEMMA StreamReceive ==
  ASSUME Types, Stream, NEW n \in 1 .. Space, Receive(n)
  PROVE  Stream'
  <1>1. /\ packets' = packets /\ stopped' = stopped /\ Count' = Count
        /\ \A i \in 1 .. Count : At(i)' = At(i)
    BY ReceiveKeeps DEF Receive
  <1>2. ASSUME NEW i \in 1 .. Count PROVE At(i)' = At(i) /\ Rest(i)' = Rest(i)
    BY <1>1 DEF Rest
  <1>3. Named'
    BY <1>1, <1>2 DEF Stream, Named
  <1>4. Runs'
    BY <1>1, <1>2 DEF Stream, Runs
  <1>5. Begins'
    <2>1. Count > 0 => 1 \in 1 .. Count
      BY AtTypes
    <2> QED
      BY <1>1, <1>2, <2>1 DEF Stream, Begins
  <1>6. Ends'
    BY <1>1, <1>2 DEF Stream, Ends
  <1> QED
    BY <1>3, <1>4, <1>5, <1>6 DEF Stream

(* What is left still begins with a packet.                                *)
LEMMA StreamVerify ==
  ASSUME Types, Stream, NEW h \in 1 .. nRecvLen, NEW t \in 1 .. nRecvLen,
         VerifyRecvPacket(h, t)
  PROVE  Stream'
  <1>1. /\ packets' = packets /\ stopped' = stopped /\ Count' = Count - t
        /\ \A i \in 1 .. Count - t : At(i)' = At(i + t)
    BY VerifyTakes DEF VerifyRecvPacket, peerVars
  <1>2. t = Length(First) /\ t \in Nat /\ Count \in Nat /\ Count > 0
    BY FoundFirst, AtTypes DEF VerifyRecvPacket
  <1>3. ASSUME NEW i \in 1 .. Count - t
        PROVE  i + t \in 1 .. Count /\ At(i)' = At(i + t) /\ Rest(i)' = Rest(i + t)
    BY <1>1, <1>2 DEF Rest
  <1>4. Named'
    BY <1>1, <1>3 DEF Stream, Named
  <1>5. Runs'
    <2> SUFFICES ASSUME NEW i \in 1 .. Count - t, NEW j \in 1 .. Count - t, i < j
                 PROVE  IF j - i <= Rest(i)'
                          THEN At(j)' = Unit(At(i)'.of, At(i)'.at + (j - i))
                          ELSE /\ At(j)'.of.id > At(i)'.of.id
                               /\ j - i = Rest(i)' + 1 =>
                                    At(j)'.at = 1 /\ At(j)'.of.id = At(i)'.of.id + 1
      BY <1>1 DEF Runs
    <2>1. i + t < j + t /\ (j + t) - (i + t) = j - i
      BY <1>2
    <2>2. /\ i + t \in 1 .. Count /\ At(i)' = At(i + t) /\ Rest(i)' = Rest(i + t)
          /\ j + t \in 1 .. Count /\ At(j)' = At(j + t)
      BY <1>3
    <2>3. IF (j + t) - (i + t) <= Rest(i + t)
            THEN At(j + t) = Unit(At(i + t).of, At(i + t).at + ((j + t) - (i + t)))
            ELSE /\ At(j + t).of.id > At(i + t).of.id
                 /\ (j + t) - (i + t) = Rest(i + t) + 1 =>
                      At(j + t).at = 1 /\ At(j + t).of.id = At(i + t).of.id + 1
      BY <2>1, <2>2 DEF Stream, Runs
    <2> QED
      BY <2>1, <2>2, <2>3
  <1>6. Begins'
    <2> SUFFICES ASSUME Count' > 0 PROVE At(1)'.at = 1
      BY DEF Begins
    <2>1. 1 \in 1 .. Count - t /\ 1 + t \in 1 .. Count /\ 1 + t = Length(First) + 1
          /\ 1 + t > Length(First)
      BY <1>1, <1>2
    <2>2. At(1 + t).at = 1
      BY <1>2, <2>1, FirstPacket
    <2> QED
      BY <1>1, <2>1, <2>2
  <1>7. Ends'
    <2> SUFFICES ASSUME ~stopped, NEW i \in 1 .. Count - t
                 PROVE  /\ i + Rest(i)' <= Count - t
                        /\ i + Rest(i)' = Count - t => At(i)'.of.id = Len(packets)
      BY <1>1 DEF Ends
    <2>1. /\ (i + t) + Rest(i + t) <= Count
          /\ (i + t) + Rest(i + t) = Count => At(i + t).of.id = Len(packets)
          /\ Rest(i + t) \in Int
      BY <1>3, AtTypes DEF Stream, Ends
    <2> QED
      BY <1>2, <1>3, <2>1
  <1> QED
    BY <1>4, <1>5, <1>6, <1>7 DEF Stream

-----------------------------------------------------------------------------
(* The packets taken out                                                   *)

LEMMA DoneSend ==
  ASSUME Types, Stream, Taken, NEW size \in Sizes, NEW fair \in BOOLEAN, Send(size, fair)
  PROVE  /\ Taken' /\ Done' = Done
         /\ Len(packets') = Len(packets) + 1
         /\ \A k \in 1 .. Len(packets) : packets'[k] = packets[k]
  <1>1. PICK p \in Packet :
          /\ p.id = Len(packets) + 1
          /\ Len(packets') = Len(packets) + 1 /\ packets'[Len(packets) + 1] = p
          /\ \A k \in 1 .. Len(packets) : packets'[k] = packets[k]
          /\ Count' = Count + Length(p)
          /\ \A i \in 1 .. Count : At(i)' = At(i)
          /\ \A i \in Count + 1 .. Count + Length(p) : At(i)' = Unit(p, i - Count)
    BY SendAdds
  <1>2. /\ ~stopped /\ seen' = seen /\ chRecvBuffer' = chRecvBuffer /\ nRecvLen' = nRecvLen
    BY DEF Send, nRecvLen
  <1>3. Count \in Nat /\ Len(packets) \in Nat /\ Length(p) \in Nat /\ Length(p) >= 3
    BY AtTypes, UnitsProperties
  <1>4. \A k \in 1 .. Len(packets) : Last(k)' = Last(k)
    BY <1>1 DEF Last
  <1>5. ASSUME NEW k \in 1 .. Len(packets'), k \notin 1 .. Len(packets)
        PROVE  Last(k)' \notin seen'
    <2>1. k = Len(packets) + 1
      BY <1>1, <1>3, <1>5
    <2>2. Last(k)'.of.id = Len(packets) + 1
      BY <1>1, <2>1 DEF Last, Unit
    <2> QED
      BY <1>2, <1>3, <2>2 DEF Taken
  <1>6. \A k \in 1 .. Len(packets) : Buffered(Last(k))' <=> Buffered(Last(k))
    BY <1>2, <1>4 DEF Buffered
  <1>7. Done' = Done
    <2>1. ASSUME NEW k \in Done' PROVE k \in Done
      BY <1>2, <1>4, <1>5, <1>6, <2>1 DEF Done
    <2>2. ASSUME NEW k \in Done PROVE k \in Done'
      <3>1. k \in 1 .. Len(packets) /\ k \in 1 .. Len(packets')
        BY <1>1, <1>3, <2>2 DEF Done
      <3> QED
        BY <1>2, <1>4, <1>6, <2>2, <3>1 DEF Done
    <2> QED
      BY <2>1, <2>2
  <1>8. Taken'
    <2>1. \A u \in seen' : u.of.id <= Len(packets')
      <3>1. ASSUME NEW u \in seen PROVE u.of.id \in Nat /\ u.of.id <= Len(packets)
        BY <3>1, FrameAssumption DEF Taken, Types, AUnit, Packet
      <3> QED
        BY <1>1, <1>2, <1>3, <3>1
    <2>2. \A i \in 1 .. nRecvLen' : chRecvBuffer'[i] \in seen'
      BY <1>2 DEF Taken
    <2>3. ~(Count' = 0)
      BY <1>1, <1>3
    <2>4. ASSUME NEW k \in 1 .. Len(packets') PROVE k \in Done' <=> k < At(1)'.of.id
      <3>1. k \in 1 .. Len(packets) \/ k = Len(packets) + 1
        BY <1>1, <1>3
      <3>2. k = Len(packets) + 1 => k \notin Done
        BY <1>3 DEF Done
      <3>3. CASE Count > 0
        <4>1. At(1)' = At(1) /\ At(1).of.id \in 1 .. Len(packets)
          BY <1>1, <1>3, <3>3, FirstPacket DEF First
        <4> QED
          BY <1>3, <1>7, <3>1, <3>2, <3>3, <4>1 DEF Taken
      <3>4. CASE Count = 0
        <4>1. At(1)'.of.id = Len(packets) + 1
          BY <1>1, <1>3, <3>4 DEF Unit
        <4> QED
          BY <1>2, <1>3, <1>7, <3>1, <3>2, <3>4, <4>1 DEF Taken
      <3> QED
        BY <1>3, <3>3, <3>4
    <2> QED
      BY <2>1, <2>2, <2>3, <2>4 DEF Taken
  <1> QED
    BY <1>1, <1>7, <1>8

LEMMA DoneStop == Types /\ Taken /\ Stop => Taken' /\ Done' = Done
  <1> SUFFICES ASSUME Types, Taken, Stop PROVE Taken' /\ Done' = Done
    OBVIOUS
  <1>1. /\ seen' = seen /\ chRecvBuffer' = chRecvBuffer /\ packets' = packets
        /\ nRecvLen' = nRecvLen /\ stopped' = TRUE
        /\ Count \in Nat /\ Count' \in 0 .. Count
        /\ \A i \in 1 .. Count' : At(i)' = At(i)
    BY StopCuts, AtTypes DEF Stop
  <1>2. Done' = Done
    BY <1>1 DEF Done, Last, Buffered
  <1>3. Count' > 0 => Count > 0 /\ At(1)' = At(1)
    BY <1>1
  <1>4. Taken'
    BY <1>1, <1>2, <1>3 DEF Taken
  <1> QED
    BY <1>2, <1>4

(* What comes from the wire was not taken out before.                      *)
LEMMA DoneReceive ==
  ASSUME Types, Stream, Taken, NEW n \in 1 .. Space, Receive(n)
  PROVE  Taken' /\ Done' = Done
  <1>1. /\ Count' = Count /\ nRecvLen' = nRecvLen + n /\ nRecvLen' <= Count
        /\ \A i \in 1 .. Count : At(i)' = At(i)
        /\ \A i \in 1 .. nRecvLen' : chRecvBuffer'[i] = At(i)
        /\ seen' = seen \cup {At(i) : i \in nRecvLen + 1 .. nRecvLen + n}
    BY ReceiveKeeps
  <1>2. packets' = packets /\ stopped' = stopped
    BY DEF Receive
  <1>3. nRecvLen \in Nat /\ Count \in Nat /\ n \in Nat \ {0} /\ Count > 0
    BY <1>1, AtTypes, FrameAssumption
  <1>4. \A i \in 1 .. nRecvLen : chRecvBuffer[i] = At(i)
    BY <1>3 DEF At
  <1>5. \A k \in 1 .. Len(packets) : Last(k)' = Last(k) /\ Last(k).of.id = k
    BY <1>2 DEF Last, Unit, Stream, Named
  <1>6. ASSUME NEW k \in Done' PROVE k \in Done
    <2>1. /\ k \in 1 .. Len(packets) /\ Last(k) \in seen'
          /\ \A i \in 1 .. nRecvLen' : chRecvBuffer'[i] # Last(k)
      BY <1>2, <1>5, <1>6 DEF Done, Buffered
    <2>2. \A i \in 1 .. nRecvLen + n : At(i) # Last(k)
      BY <1>1, <2>1
    <2>3. Last(k) \in seen
      BY <1>1, <1>3, <2>1, <2>2
    <2>4. ~Buffered(Last(k))
      BY <1>3, <1>4, <2>2 DEF Buffered
    <2> QED
      BY <2>1, <2>3, <2>4 DEF Done
  <1>7. ASSUME NEW k \in Done PROVE k \in Done'
    <2>1. /\ k \in 1 .. Len(packets) /\ Last(k) \in seen
          /\ \A i \in 1 .. nRecvLen : chRecvBuffer[i] # Last(k)
      BY <1>7 DEF Done, Buffered
    <2>2. k < At(1).of.id
      BY <1>3, <1>7, <2>1 DEF Taken
    <2>3. ASSUME NEW i \in 1 .. nRecvLen', chRecvBuffer'[i] = Last(k) PROVE FALSE
      <3>1. i \in 1 .. Count /\ At(i) = Last(k)
        BY <1>1, <1>3, <2>3
      <3>2. At(i).of.id >= At(1).of.id
        BY <1>3, <3>1, FirstPacket DEF First
      <3>3. At(1).of.id \in Nat /\ 1 \in 1 .. Count
        BY <1>3, AtTypes
      <3> QED
        BY <1>5, <2>1, <2>2, <3>1, <3>2, <3>3
    <2>4. ~Buffered(Last(k))'
      BY <1>5, <2>1, <2>3 DEF Buffered
    <2> QED
      BY <1>1, <1>2, <1>5, <2>1, <2>4 DEF Done
  <1>8. Done' = Done
    BY <1>6, <1>7
  <1>9. Taken'
    <2>1. \A u \in seen' : u.of.id <= Len(packets')
      <3>1. ASSUME NEW i \in nRecvLen + 1 .. nRecvLen + n PROVE At(i).of.id <= Len(packets)
        <4>1. i \in 1 .. Count
          BY <1>1, <1>3
        <4> QED
          BY <4>1 DEF Stream, Named
      <3> QED
        BY <1>1, <1>2, <3>1 DEF Taken
    <2>2. ASSUME NEW i \in 1 .. nRecvLen' PROVE chRecvBuffer'[i] \in seen'
      <3>1. i \in 1 .. nRecvLen \/ i \in nRecvLen + 1 .. nRecvLen + n
        BY <1>1, <1>3
      <3>2. CASE i \in 1 .. nRecvLen
        BY <1>1, <1>4, <3>2 DEF Taken
      <3> QED
        BY <1>1, <3>1, <3>2
    <2>3. At(1)' = At(1)
      BY <1>1, <1>3
    <2> QED
      BY <1>1, <1>2, <1>3, <1>8, <2>1, <2>2, <2>3 DEF Taken
  <1> QED
    BY <1>8, <1>9

(* Verifying takes out the first packet, the one after those taken out.    *)
LEMMA DoneVerify ==
  ASSUME Types, Stream, Taken, NEW h \in 1 .. nRecvLen, NEW t \in 1 .. nRecvLen,
         VerifyRecvPacket(h, t)
  PROVE  /\ Taken' /\ Done' = Done \cup {First.id}
         /\ First.id \in 1 .. Len(packets) /\ packets[First.id] = First
         /\ \A k \in 1 .. Len(packets) : k \in Done <=> k < First.id
         /\ h = 1 /\ t = Length(First)
  <1>1. /\ Count' = Count - t /\ nRecvLen' = nRecvLen - t
        /\ \A i \in 1 .. Count - t : At(i)' = At(i + t)
        /\ \A i \in 1 .. nRecvLen - t : chRecvBuffer'[i] = chRecvBuffer[i + t]
    BY VerifyTakes
  <1>2. packets' = packets /\ stopped' = stopped /\ seen' = seen
    BY DEF VerifyRecvPacket, peerVars
  <1>3. /\ h = 1 /\ t = Length(First)
        /\ nRecvLen \in Nat /\ Count \in Nat /\ Count > 0 /\ nRecvLen <= Count
        /\ Len(packets) \in Nat
    BY FoundFirst, AtTypes DEF VerifyRecvPacket
  <1>4. /\ Length(First) \in Nat /\ Length(First) >= 3
        /\ First.id \in 1 .. Len(packets) /\ packets[First.id] = First
        /\ \A i \in 1 .. Count : i <= Length(First) => At(i) = Unit(First, i)
        /\ \A i \in 1 .. Count : i > Length(First) => At(i).of.id > First.id
    BY <1>3, FirstPacket
  <1>5. \A i \in 1 .. nRecvLen : chRecvBuffer[i] = At(i) /\ i \in 1 .. Count
    BY <1>3 DEF At
  <1>6. \A k \in 1 .. Len(packets) : Last(k)' = Last(k) /\ Last(k).of.id = k
    BY <1>2 DEF Last, Unit, Stream, Named
  <1>7. \A k \in 1 .. Len(packets) : k \in Done <=> k < First.id
    BY <1>3 DEF Taken, First
  <1>8. First.id \in Done'
    <2>1. Last(First.id) \in seen
      <3>1. Last(First.id) = At(t)
        BY <1>3, <1>4, <1>5 DEF Last
      <3> QED
        BY <1>5, <3>1 DEF Taken
    <2>2. ASSUME NEW i \in 1 .. nRecvLen', chRecvBuffer'[i] = Last(First.id) PROVE FALSE
      <3>1. i + t \in 1 .. nRecvLen /\ i + t > Length(First) /\ chRecvBuffer'[i] = chRecvBuffer[i + t]
        BY <1>1, <1>3, <1>4
      <3>2. At(i + t).of.id > First.id /\ At(i + t).of.id = First.id
        BY <1>4, <1>5, <1>6, <2>2, <3>1
      <3> QED
        BY <1>3, <1>4, <3>2
    <2>3. ASSUME NEW k \in 1 .. Len(packets), k = First.id PROVE k \in Done'
      <3>1. Last(k)' = Last(First.id)
        BY <1>6, <2>3
      <3> QED
        BY <1>2, <2>1, <2>2, <2>3, <3>1 DEF Done, Buffered
    <2> QED
      BY <1>4, <2>3
  <1>9. ASSUME NEW k \in 1 .. Len(packets), k # First.id
        PROVE  k \in Done' <=> k \in Done
    <2>1. Buffered(Last(k)) => Buffered(Last(k))'
      <3> SUFFICES ASSUME NEW i \in 1 .. nRecvLen, chRecvBuffer[i] = Last(k)
                   PROVE  \E j \in 1 .. nRecvLen' : chRecvBuffer'[j] = Last(k)
        BY <1>6 DEF Buffered
      <3>1. i > Length(First)
        BY <1>3, <1>4, <1>5, <1>6, <1>9 DEF Unit
      <3>2. i - t \in 1 .. nRecvLen - t /\ (i - t) + t = i
        BY <1>3, <1>4, <3>1
      <3> QED
        BY <1>1, <3>2
    <2>2. Buffered(Last(k))' => Buffered(Last(k))
      <3> SUFFICES ASSUME NEW j \in 1 .. nRecvLen', chRecvBuffer'[j] = Last(k)
                   PROVE  \E i \in 1 .. nRecvLen : chRecvBuffer[i] = Last(k)
        BY <1>6 DEF Buffered
      <3>1. j + t \in 1 .. nRecvLen
        BY <1>1, <1>3
      <3> QED
        BY <1>1, <3>1
    <2> QED
      BY <1>2, <1>6, <2>1, <2>2 DEF Done
  <1>10. Done' = Done \cup {First.id}
    <2>1. \A k \in Done' \cup Done : k \in 1 .. Len(packets)
      BY <1>2 DEF Done
    <2> QED
      BY <1>8, <1>9, <2>1
  <1>11. Taken'
    <2>1. \A i \in 1 .. nRecvLen' : chRecvBuffer'[i] \in seen'
      <3>1. \A i \in 1 .. nRecvLen - t : i + t \in 1 .. nRecvLen
        BY <1>3, <1>4
      <3> QED
        BY <1>1, <1>2, <3>1 DEF Taken
    <2>2. ASSUME Count' > 0, NEW k \in 1 .. Len(packets)
          PROVE  k \in Done' <=> k < At(1)'.of.id
      <3>1. At(1)' = At(1 + t) /\ 1 + t \in 1 .. Count
        BY <1>1, <1>3, <1>4, <2>2
      <3>2. At(1 + t).of.id = First.id + 1
        <4>1. 1 + t = Length(First) + 1 /\ 1 + t > Length(First)
          BY <1>3, <1>4
        <4> QED
          BY <1>3, <3>1, <4>1, FirstPacket
      <3>3. k < First.id + 1 <=> k < First.id \/ k = First.id
        BY <1>3, <1>4
      <3> QED
        BY <1>7, <1>10, <3>1, <3>2, <3>3
    <2>3. ASSUME Count' = 0, ~stopped, NEW k \in 1 .. Len(packets) PROVE k \in Done'
      <3>1. Count = Length(First) /\ Count \in 1 .. Count
        BY <1>1, <1>3, <2>3
      <3>2. At(Count) = Unit(First, Count)
        BY <1>3, <1>4, <3>1
      <3>3. Rest(Count) = 0 /\ At(Count).of = First
        BY <1>3, <3>1, <3>2 DEF Rest, Unit
      <3>4. First.id = Len(packets)
        BY <1>3, <2>3, <3>1, <3>3 DEF Stream, Ends
      <3>5. k < First.id \/ k = First.id
        BY <1>3, <3>4
      <3> QED
        BY <1>7, <1>10, <3>5
    <2> QED
      BY <1>2, <2>1, <2>2, <2>3 DEF Taken
  <1> QED
    BY <1>3, <1>4, <1>7, <1>10, <1>11

-----------------------------------------------------------------------------
(* The searches and the messages                                           *)

(* The end of a packet in the buffer and an ended search exclude another.  *)
LEMMA NoPacketSearched ==
  ASSUME Types, Stream, NoPacket
  PROVE  \A i \in 1 .. nRecvLen : chRecvBuffer[i].at # Length(chRecvBuffer[i].of)
  <1> SUFFICES ASSUME NEW i \in 1 .. nRecvLen,
                      chRecvBuffer[i].at = Length(chRecvBuffer[i].of)
               PROVE  FALSE
    OBVIOUS
  <1>1. At(i) = chRecvBuffer[i] /\ 1 \in 1 .. nRecvLen
    BY AtTypes DEF At
  <1>2. Length(First) \in 1 .. nRecvLen /\ Found(1, Length(First))
    BY <1>1, Finds
  <1> QED
    BY <1>1, <1>2 DEF NoPacket

LEMMA SearchedStep == Types /\ Stream /\ Searched /\ [FrameNext]_frameVars => Searched'
  <1> SUFFICES ASSUME Types, Stream, Searched, [FrameNext]_frameVars PROVE Searched'
    OBVIOUS
  <1>1. CASE chRecvBuffer' = chRecvBuffer /\ pc' = pc
    BY <1>1 DEF Searched, nRecvLen
  <1>2. ASSUME NEW n \in 1 .. Space, Receive(n) PROVE Searched'
    BY <1>2 DEF Receive, Searched
  <1>3. CASE ReceiveEnd
    BY <1>3 DEF ReceiveEnd, Searched, nRecvLen
  <1>4. CASE NoPacket
    <2>1. chRecvBuffer' = chRecvBuffer
      BY <1>4 DEF NoPacket
    <2> QED
      BY <1>4, <2>1, NoPacketSearched DEF Searched, nRecvLen
  <1>5. ASSUME NEW h \in 1 .. nRecvLen, NEW t \in 1 .. nRecvLen, VerifyRecvPacket(h, t)
        PROVE  Searched'
    <2>1. /\ pc' = pc /\ nRecvLen' = nRecvLen - t
          /\ \A i \in 1 .. nRecvLen - t : chRecvBuffer'[i] = chRecvBuffer[i + t]
      BY <1>5, VerifyTakes DEF VerifyRecvPacket
    <2>2. \A i \in 1 .. nRecvLen - t : i + t \in 1 .. nRecvLen
      BY AtTypes
    <2> QED
      BY <2>1, <2>2 DEF Searched
  <1>6. CASE Open
    <2>1. 1 .. nRecvLen' = {}
      BY <1>6, NothingYet DEF Open, nRecvLen
    <2> QED
      BY <2>1 DEF Searched
  <1>7. ASSUME NEW size \in Sizes, NEW fair \in BOOLEAN, Send(size, fair)
        PROVE  chRecvBuffer' = chRecvBuffer /\ pc' = pc
    BY <1>7 DEF Send
  <1>8. Stop \/ UNCHANGED frameVars => chRecvBuffer' = chRecvBuffer /\ pc' = pc
    BY DEF Stop, frameVars
  <1> QED
    BY <1>1, <1>2, <1>3, <1>4, <1>5, <1>6, <1>7, <1>8 DEF FrameNext

(* What neither puts a message nor takes a packet out changes no account.  *)
LEMMA PutsKept ==
  ASSUME DevicePuts, EventPuts, Types,
         reader' = reader, messages' = messages, acks' = acks, Done' = Done,
         Len(packets') \in Nat, Len(packets') >= Len(packets),
         \A k \in 1 .. Len(packets) : packets'[k] = packets[k]
  PROVE  DevicePuts' /\ EventPuts'
  <1>1. Len(packets) \in Nat /\ acks \in Nat /\ \A k \in Done : k \in 1 .. Len(packets)
    BY AtTypes DEF Done, Types
  <1>2. \A k \in Done : packets'[k] = packets[k] /\ Body(packets[k])' = Body(packets[k])
    BY <1>1 DEF Body, Units, Length
  <1>3. DevicePuts'
    BY <1>1, <1>2 DEF DevicePuts
  <1>4. EventPuts'
    <2>1. ASSUME NEW k \in 1 .. Len(packets'), reader = "event" PROVE k \in Done <=> k <= acks
      <3>1. CASE k \in 1 .. Len(packets)
        BY <2>1, <3>1 DEF EventPuts
      <3>2. CASE k \notin 1 .. Len(packets)
        <4>1. k > Len(packets)
          BY <1>1, <3>2
        <4> QED
          BY <1>1, <2>1, <3>2, <4>1 DEF EventPuts
      <3> QED
        BY <3>1, <3>2
    <2>2. ASSUME NEW k \in 1 .. acks, reader = "event"
          PROVE  Len(messages[k]) = Length(packets'[k])
      <3>1. k \in 1 .. Len(packets)
        BY <1>1, <2>2 DEF EventPuts
      <3> QED
        BY <2>2, <3>1 DEF EventPuts
    <2> QED
      BY <1>1, <2>1, <2>2 DEF EventPuts
  <1> QED
    BY <1>3, <1>4

(* The device reader puts the body of a packet whose length agrees.        *)
LEMMA DevicePut ==
  ASSUME Types, Stream, Taken, DevicePuts, reader = "device",
         NEW h \in 1 .. nRecvLen, NEW t \in 1 .. nRecvLen, VerifyRecvPacket(h, t)
  PROVE  DevicePuts'
  <1>1. /\ Done' = Done \cup {First.id} /\ First.id \in 1 .. Len(packets)
        /\ packets[First.id] = First /\ h = 1 /\ t = Length(First)
        /\ \A k \in 1 .. Len(packets) : k \in Done <=> k < First.id
    BY DoneVerify
  <1>2. /\ packets' = packets /\ reader' = reader /\ acks' = acks /\ PutDevice(h, t)
    BY DEF VerifyRecvPacket, peerVars
  <1>3. Len(packets) \in Nat /\ \A k \in 1 .. Len(packets) : packets[k] \in Packet
    BY AtTypes
  <1>4. \A k \in Done : k \in 1 .. Len(packets) /\ k < First.id
    BY <1>1 DEF Done
  <1>5. First \in Packet /\ Length(First) \in Nat /\ Length(First) >= 3
    BY <1>1, <1>3, UnitsProperties
  <1>6. /\ Memory(2).of = First /\ nRecvLen \in Nat
        /\ \A i \in 1 .. Length(First) : chRecvBuffer[i] = Unit(First, i)
    <2>1. nRecvLen > 0 /\ nRecvLen \in Nat
      BY AtTypes
    <2>2. \A i \in 1 .. nRecvLen : chRecvBuffer[i] = Memory(i) /\ Memory(i) \in AUnit
      BY ElementOfSeq DEF Types, nRecvLen, Memory
    <2>3. ASSUME NEW i \in 1 .. Length(First) PROVE chRecvBuffer[i] = Unit(First, i)
      <3>1. i \in 1 .. nRecvLen /\ i <= Length(First)
        BY <1>1, <1>5, <2>1
      <3>2. Memory(i).of = First /\ Memory(i).at = i
        BY <2>1, <3>1, FirstInBuffer
      <3> QED
        BY <2>2, <3>1, <3>2 DEF AUnit, Unit
    <2>4. 2 \in 1 .. nRecvLen /\ 2 <= Length(First)
      BY <1>1, <1>5, <2>1
    <2> QED
      BY <2>1, <2>3, <2>4, FirstInBuffer
  <1>7. SubSeq(chRecvBuffer, h + 1, t - 1) = Body(First)
    <2>1. /\ SubSeq(chRecvBuffer, 2, t - 1) \in Seq(AUnit)
          /\ Len(SubSeq(chRecvBuffer, 2, t - 1)) = t - 2
          /\ \A i \in 1 .. t - 2 : SubSeq(chRecvBuffer, 2, t - 1)[i] = chRecvBuffer[i + 1]
      <3>1. t - 1 \in 0 .. Len(chRecvBuffer) /\ 2 <= t - 1 + 1 /\ t - 1 - 2 + 1 = t - 2
        BY <1>1, <1>5, <1>6 DEF nRecvLen
      <3>2. /\ SubSeq(chRecvBuffer, 2, t - 1) \in Seq(AUnit)
            /\ Len(SubSeq(chRecvBuffer, 2, t - 1)) = t - 1 - 2 + 1
            /\ \A i \in 1 .. t - 1 - 2 + 1 :
                 SubSeq(chRecvBuffer, 2, t - 1)[i] = chRecvBuffer[2 + i - 1]
        BY <3>1, Part DEF Types
      <3>3. \A i \in 1 .. t - 2 : 2 + i - 1 = i + 1
        OBVIOUS
      <3> QED
        BY <3>1, <3>2, <3>3
    <2>2. /\ Body(First) \in Seq(AUnit) /\ Len(Body(First)) = t - 2
          /\ \A i \in 1 .. t - 2 : Body(First)[i] = Unit(First, i + 1)
      BY <1>1, <1>5, BodyProperties
    <2>3. \A i \in 1 .. t - 2 : i + 1 \in 1 .. Length(First)
      BY <1>1, <1>5
    <2>4. \A i \in 1 .. t - 2 : SubSeq(chRecvBuffer, 2, t - 1)[i] = Body(First)[i]
      BY <1>6, <2>1, <2>2, <2>3
    <2>5. SubSeq(chRecvBuffer, 2, t - 1) = Body(First)
      BY <2>1, <2>2, <2>4, SeqEqual
    <2> QED
      BY <1>1, <2>5
  <1>8. t - 2 = First.size + 1
    <2>1. First.size \in Nat
      BY <1>5, FrameAssumption DEF Packet
    <2> QED
      BY <1>1, <2>1 DEF Length
  <1>9. messages' = IF First.fair THEN Append(messages, Body(First)) ELSE messages
    <2>1. Memory(h + 1) = Memory(2)
      BY <1>1
    <2> QED
      BY <1>2, <1>6, <1>7, <1>8, <2>1 DEF PutDevice
  <1>10. ASSUME NEW k \in 1 .. Len(packets)
         PROVE  Body(packets[k])' = Body(packets[k]) /\ Body(packets[k])[1].of.id = k
    <2>1. 1 \in 1 .. Length(packets[k]) - 2
      BY <1>3, UnitsProperties
    <2>2. Body(packets[k])[1] = Unit(packets[k], 2)
      BY <1>3, <2>1, BodyProperties
    <2>3. Body(packets[k])[1].of.id = k
      BY <2>2 DEF Unit, Stream, Named
    <2>4. Body(packets[k])' = Body(packets[k])
      BY <1>2
    <2> QED
      BY <2>3, <2>4
  <1>11. acks' = 0
    BY <1>2 DEF DevicePuts
  <1>12. CASE ~First.fair
    BY <1>1, <1>2, <1>4, <1>9, <1>10, <1>11, <1>12 DEF DevicePuts
  <1>13. CASE First.fair
    <2>1. /\ Len(messages) \in Nat /\ Len(messages') = Len(messages) + 1
          /\ \A i \in 1 .. Len(messages) : messages'[i] = messages[i]
          /\ messages'[Len(messages) + 1] = Body(First)
      BY <1>5, <1>9, <1>13, BodyProperties, MessagesAppend
    <2>2. ASSUME NEW i \in 1 .. Len(messages')
          PROVE  i \in 1 .. Len(messages) \/ i = Len(messages) + 1
      BY <2>1
    <2>3. ASSUME NEW i \in 1 .. Len(messages')
          PROVE  \E k \in Done' : packets'[k].fair /\ messages'[i] = Body(packets[k])'
      <3>1. CASE i \in 1 .. Len(messages)
        <4>1. PICK k \in Done : packets[k].fair /\ messages[i] = Body(packets[k])
          BY <3>1 DEF DevicePuts
        <4> QED
          BY <1>1, <1>2, <1>4, <1>10, <2>1, <3>1, <4>1
      <3>2. CASE i = Len(messages) + 1
        BY <1>1, <1>2, <1>10, <1>13, <2>1, <3>2
      <3> QED
        BY <2>2, <3>1, <3>2
    <2>4. ASSUME NEW k \in Done', packets'[k].fair
          PROVE  \E i \in 1 .. Len(messages') : messages'[i] = Body(packets[k])'
      <3>1. CASE k \in Done
        <4>1. PICK i \in 1 .. Len(messages) : messages[i] = Body(packets[k])
          BY <1>2, <2>4, <3>1 DEF DevicePuts
        <4>2. i \in 1 .. Len(messages') /\ messages'[i] = messages[i]
          BY <2>1
        <4> QED
          BY <1>4, <1>10, <3>1, <4>1, <4>2
      <3>2. CASE k = First.id
        <4>1. Len(messages) + 1 \in 1 .. Len(messages')
          BY <2>1
        <4> QED
          BY <1>1, <1>10, <2>1, <3>2, <4>1
      <3> QED
        BY <1>1, <3>1, <3>2
    <2>5. ASSUME NEW i \in 1 .. Len(messages'), NEW j \in 1 .. Len(messages'), i < j
          PROVE  messages'[i][1].of.id < messages'[j][1].of.id
      <3>1. i \in 1 .. Len(messages) /\ messages'[i] = messages[i]
        BY <2>1, <2>5
      <3>2. CASE j \in 1 .. Len(messages)
        BY <2>1, <2>5, <3>1, <3>2 DEF DevicePuts
      <3>3. CASE j = Len(messages) + 1
        <4>1. PICK k \in Done : messages[i] = Body(packets[k])
          BY <3>1 DEF DevicePuts
        <4>2. messages'[i][1].of.id = k /\ k < First.id
          BY <1>4, <1>10, <3>1, <4>1
        <4>3. messages'[j][1].of.id = First.id
          BY <1>1, <1>10, <2>1, <3>3
        <4> QED
          BY <4>2, <4>3
      <3> QED
        BY <2>2, <3>2, <3>3
    <2> QED
      BY <1>11, <2>3, <2>4, <2>5 DEF DevicePuts
  <1> QED
    BY <1>12, <1>13

(* The event reader puts as many units as the packet has.                  *)
LEMMA EventPut ==
  ASSUME Types, Stream, Taken, EventPuts, reader = "event",
         NEW h \in 1 .. nRecvLen, NEW t \in 1 .. nRecvLen, VerifyRecvPacket(h, t)
  PROVE  EventPuts'
  <1>1. /\ Done' = Done \cup {First.id} /\ First.id \in 1 .. Len(packets)
        /\ packets[First.id] = First /\ t = Length(First)
        /\ \A k \in 1 .. Len(packets) : k \in Done <=> k < First.id
    BY DoneVerify
  <1>2. /\ packets' = packets /\ reader' = reader /\ acks' = acks + 1
        /\ messages' = Append(messages, SubSeq(Moved(t), 1, t))
    BY DEF VerifyRecvPacket, peerVars, PutEvent
  <1>3. Len(packets) \in Nat /\ acks \in Nat
    BY AtTypes DEF Types
  <1>4. /\ acks = Len(messages) /\ acks <= Len(packets)
        /\ \A k \in 1 .. Len(packets) : k \in Done <=> k <= acks
        /\ \A k \in 1 .. acks : Len(messages[k]) = Length(packets[k])
    BY DEF EventPuts
  <1>5. First.id = acks + 1
    <2>1. ~(First.id <= acks)
      BY <1>1, <1>4
    <2>2. ~(acks + 1 < First.id)
      <3> SUFFICES ASSUME acks + 1 < First.id PROVE FALSE
        OBVIOUS
      <3>1. acks + 1 \in 1 .. Len(packets) /\ ~(acks + 1 <= acks)
        BY <1>1, <1>3
      <3> QED
        BY <1>1, <1>4, <3>1
    <2> QED
      BY <1>1, <1>3, <2>1, <2>2
  <1>6. /\ Len(messages') = acks + 1
        /\ \A k \in 1 .. acks : messages'[k] = messages[k]
        /\ Len(messages'[acks + 1]) = t
    BY <1>2, <1>4, MovedProperties, MessagesAppend
  <1>7. \A k \in 1 .. Len(packets) : k \in Done' <=> k <= acks + 1
    BY <1>1, <1>3, <1>4, <1>5
  <1>8. ASSUME NEW k \in 1 .. acks + 1 PROVE Len(messages'[k]) = Length(packets[k])
    <2>1. k \in 1 .. acks \/ k = acks + 1
      BY <1>3
    <2> QED
      BY <1>1, <1>4, <1>5, <1>6, <2>1
  <1> QED
    BY <1>1, <1>2, <1>3, <1>5, <1>6, <1>7, <1>8 DEF EventPuts

-----------------------------------------------------------------------------
(* The invariant                                                           *)

WholeInv == Types /\ FrameInv

LEMMA NothingInv ==
  ASSUME Types, packets = << >>, wire = << >>, chRecvBuffer = << >>, seen = {},
         messages = << >>, acks = 0
  PROVE  FrameInv
  <1>1. Count = 0 /\ nRecvLen = 0 /\ Len(packets) = 0 /\ Len(messages) = 0
    BY NothingYet DEF Count, nRecvLen
  <1>2. 1 .. Count = {} /\ 1 .. nRecvLen = {} /\ 1 .. Len(packets) = {}
        /\ 1 .. Len(messages) = {} /\ 1 .. acks = {}
    BY <1>1
  <1>3. Done = {}
    BY <1>2 DEF Done
  <1>4. Stream
    BY <1>1, <1>2 DEF Stream, Named, Runs, Begins, Ends
  <1>5. Taken /\ Searched
    BY <1>1, <1>2 DEF Taken, Searched
  <1>6. DevicePuts
    BY <1>2, <1>3 DEF DevicePuts
  <1>7. EventPuts
    BY <1>1, <1>2 DEF EventPuts
  <1> QED
    BY <1>4, <1>5, <1>6, <1>7 DEF FrameInv

LEMMA InvInit == FrameInit => WholeInv
  <1> SUFFICES ASSUME FrameInit PROVE WholeInv
    OBVIOUS
  <1>1. Types
    BY TypesInit
  <1> QED
    BY <1>1, NothingInv DEF FrameInit, WholeInv

LEMMA InvOpen == Types' /\ Open => FrameInv'
  <1> SUFFICES ASSUME Types', Open PROVE FrameInv'
    OBVIOUS
  <1>1. /\ packets' = << >> /\ wire' = << >> /\ chRecvBuffer' = << >> /\ seen' = {}
        /\ messages' = << >> /\ acks' = 0
    BY DEF Open
  <1>2. Count' = 0 /\ nRecvLen' = 0 /\ Len(packets') = 0 /\ Len(messages') = 0
    BY <1>1, NothingYet DEF Count, nRecvLen
  <1>3. 1 .. Count' = {} /\ 1 .. nRecvLen' = {} /\ 1 .. Len(packets') = {}
        /\ 1 .. Len(messages') = {} /\ 1 .. acks' = {}
    BY <1>1, <1>2
  <1>4. Done' = {}
    BY <1>3 DEF Done
  <1>5. Stream'
    BY <1>2, <1>3 DEF Stream, Named, Runs, Begins, Ends
  <1>6. Taken' /\ Searched'
    BY <1>1, <1>2, <1>3 DEF Taken, Searched
  <1>7. DevicePuts'
    BY <1>1, <1>3, <1>4 DEF DevicePuts
  <1>8. EventPuts'
    BY <1>1, <1>2, <1>3 DEF EventPuts
  <1> QED
    BY <1>5, <1>6, <1>7, <1>8 DEF FrameInv

LEMMA InvStep == WholeInv /\ [FrameNext]_frameVars => WholeInv'
  <1> SUFFICES ASSUME WholeInv, [FrameNext]_frameVars PROVE WholeInv'
    OBVIOUS
  <1> USE DEF WholeInv
  <1>1. Types' /\ Searched'
    BY TypesStep, SearchedStep DEF FrameInv
  <1>2. ASSUME Stream', Taken', DevicePuts', EventPuts' PROVE WholeInv'
    BY <1>1, <1>2 DEF FrameInv
  <1>3. ASSUME UNCHANGED <<packets, wire, stopped, seen, chRecvBuffer, reader, messages, acks>>
        PROVE  WholeInv'
    <2>1. Stream'
      <3>1. Count' = Count /\ \A i \in 1 .. Count : At(i)' = At(i) /\ Rest(i)' = Rest(i)
        BY <1>3 DEF Count, At, nRecvLen, Rest
      <3>2. Named'
        BY <1>3, <3>1 DEF FrameInv, Stream, Named
      <3>3. Runs'
        BY <3>1 DEF FrameInv, Stream, Runs
      <3>4. Begins'
        BY <1>3 DEF FrameInv, Stream, Begins, Count, At, nRecvLen
      <3>5. Ends'
        BY <1>3, <3>1 DEF FrameInv, Stream, Ends
      <3> QED
        BY <3>2, <3>3, <3>4, <3>5 DEF Stream
    <2>2. Done' = Done
      BY <1>3 DEF Done, Last, Buffered, nRecvLen
    <2>3. Taken'
      BY <1>3, <2>2 DEF FrameInv, Taken, Count, At, nRecvLen
    <2>4. Len(packets) \in Nat
      BY AtTypes
    <2>5. DevicePuts' /\ EventPuts'
      BY <1>3, <2>2, <2>4, PutsKept DEF FrameInv
    <2> QED
      BY <1>2, <2>1, <2>3, <2>5
  <1>4. ASSUME NEW size \in Sizes, NEW fair \in BOOLEAN, Send(size, fair) PROVE WholeInv'
    <2>1. Stream'
      BY <1>4, StreamSend DEF FrameInv
    <2>2. /\ Taken' /\ Done' = Done
          /\ Len(packets') = Len(packets) + 1
          /\ \A k \in 1 .. Len(packets) : packets'[k] = packets[k]
      BY <1>4, DoneSend DEF FrameInv
    <2>3. Len(packets) \in Nat
      BY AtTypes
    <2>4. reader' = reader /\ messages' = messages /\ acks' = acks
      BY <1>4 DEF Send
    <2>5. DevicePuts' /\ EventPuts'
      BY <2>2, <2>3, <2>4, PutsKept DEF FrameInv
    <2> QED
      BY <1>2, <2>1, <2>2, <2>5
  <1>5. ASSUME Stop \/ \E n \in 1 .. Space : Receive(n) PROVE WholeInv'
    <2>1. Stream' /\ Taken' /\ Done' = Done
      BY <1>5, StreamStop, DoneStop, StreamReceive, DoneReceive DEF FrameInv
    <2>2. packets' = packets /\ reader' = reader /\ messages' = messages /\ acks' = acks
      BY <1>5 DEF Stop, Receive
    <2>3. Len(packets) \in Nat
      BY AtTypes
    <2>4. DevicePuts' /\ EventPuts'
      BY <2>1, <2>2, <2>3, PutsKept DEF FrameInv
    <2> QED
      BY <1>2, <2>1, <2>4
  <1>6. ASSUME NEW h \in 1 .. nRecvLen, NEW t \in 1 .. nRecvLen, VerifyRecvPacket(h, t)
        PROVE  WholeInv'
    <2>1. Stream'
      BY <1>6, StreamVerify DEF FrameInv
    <2>2. Taken'
      BY <1>6, DoneVerify DEF FrameInv
    <2>3. reader' = reader /\ reader \in {"device", "event"}
      BY <1>6, FrameAssumption DEF VerifyRecvPacket, Types
    <2>4. CASE reader = "device"
      BY <1>2, <1>6, <2>1, <2>2, <2>3, <2>4, DevicePut DEF FrameInv, EventPuts
    <2>5. CASE reader = "event"
      BY <1>2, <1>6, <2>1, <2>2, <2>3, <2>5, EventPut DEF FrameInv, DevicePuts
    <2> QED
      BY <2>3, <2>4, <2>5
  <1>7. CASE ReceiveEnd \/ NoPacket \/ UNCHANGED frameVars
    BY <1>3, <1>7 DEF ReceiveEnd, NoPacket, frameVars, peerVars
  <1>8. CASE Open
    BY <1>1, <1>8, InvOpen
  <1> QED
    BY <1>4, <1>5, <1>6, <1>7, <1>8 DEF FrameNext

THEOREM FrameInvariance == FrameSpec => []WholeInv
  <1>1. FrameInit => WholeInv
    BY InvInit
  <1>2. WholeInv /\ [FrameNext]_frameVars => WholeInv'
    BY InvStep
  <1> QED
    BY <1>1, <1>2, PTL DEF FrameSpec

(* The buffer of a handler never overflows, whatever recv() gives and      *)
(* however long packets are, and the event reader acknowledges no more     *)
(* packets than were sent.                                                 *)
THEOREM FrameTypeCorrect == FrameSpec => []FrameTypeOK
  <1>1. WholeInv => FrameTypeOK
    <2> SUFFICES ASSUME WholeInv PROVE FrameTypeOK
      OBVIOUS
    <2>1. reader \in {"device", "event"} /\ acks \in Nat /\ Len(packets) \in Nat
      BY AtTypes, FrameAssumption DEF WholeInv, Types
    <2>2. acks <= Len(packets)
      BY <2>1 DEF WholeInv, FrameInv, DevicePuts, EventPuts
    <2>3. acks \in 0 .. MaxPackets
      BY <2>1, <2>2, FrameAssumption DEF WholeInv, Types
    <2> QED
      BY <2>3 DEF WholeInv, Types, FrameTypeOK
  <1> QED
    BY <1>1, FrameInvariance, PTL

-----------------------------------------------------------------------------
(* What a reader that has searched its buffer has put                      *)

LEMMA WholeDone ==
  ASSUME WholeInv, pc # "verify", NEW k \in 1 .. Len(packets)
  PROVE  Whole(packets[k]) <=> k \in Done
  <1>1. \A i \in 1 .. nRecvLen : chRecvBuffer[i].at # Length(chRecvBuffer[i].of)
    BY DEF WholeInv, FrameInv, Searched
  <1>2. Last(k).at = Length(Last(k).of)
    BY DEF Last, Unit
  <1>3. ~Buffered(Last(k))
    BY <1>1, <1>2 DEF Buffered
  <1> QED
    BY <1>3 DEF Whole, Done, Last

LEMMA DeviceInv == WholeInv => DeviceMessages
  <1> SUFFICES ASSUME WholeInv, reader = "device", pc \in {"recv", "closed"}
               PROVE  DeviceMessages
    BY DEF DeviceMessages
  <1> DEFINE good == {k \in 1 .. Len(packets) : packets[k].fair /\ Whole(packets[k])}
  <1>1. good = {k \in Done : packets[k].fair}
    BY WholeDone DEF Done
  <1>2. DevicePuts
    BY DEF WholeInv, FrameInv
  <1> QED
    BY <1>1, <1>2 DEF DeviceMessages, DevicePuts

LEMMA EventInv == WholeInv => EventCounts
  <1> SUFFICES ASSUME WholeInv, reader = "event", pc \in {"recv", "closed"}
               PROVE  EventCounts
    BY DEF EventCounts
  <1>1. \A k \in 1 .. Len(packets) : Whole(packets[k]) <=> k \in Done
    BY WholeDone
  <1>2. EventPuts
    BY DEF WholeInv, FrameInv
  <1> QED
    BY <1>1, <1>2 DEF EventCounts, EventPuts

(* Packets that fit do not fill the buffer of a reader that has searched:  *)
(* the first of them would be whole.                                       *)
LEMMA EndStep ==
  ASSUME Fits, WholeInv, NoFalseEnd, [FrameNext]_frameVars
  PROVE  NoFalseEnd'
  <1>1. CASE ReceiveEnd
    <2>1. CASE nRecvLen = Space
      <3>1. nRecvLen > 0 /\ nRecvLen \in Nat /\ Count > 0 /\ Types /\ Stream
        BY <2>1, AtTypes, FrameAssumption DEF WholeInv, FrameInv
      <3>2. /\ First \in Packet /\ Length(First) \in Nat /\ Length(First) >= 3
        BY <3>1, FirstPacket
      <3>3. Length(First) <= Space
        BY <3>2 DEF Fits, Length, Packet
      <3>4. Length(First) \in 1 .. nRecvLen /\ Length(First) <= Length(First)
        BY <2>1, <3>2, <3>3
      <3>5. LET L == Length(First) IN Memory(L).of = First /\ Memory(L).at = L
                                      /\ Memory(L) = chRecvBuffer[L]
        BY <3>1, <3>4, FirstInBuffer
      <3>6. pc = "recv"
        BY <1>1 DEF ReceiveEnd
      <3> QED
        BY <3>4, <3>5, <3>6 DEF WholeInv, FrameInv, Searched
    <2>2. CASE stopped /\ wire = << >>
      BY <1>1, <2>2 DEF ReceiveEnd, NoFalseEnd, peerVars
    <2> QED
      BY <1>1, <2>1, <2>2 DEF ReceiveEnd
  <1>2. CASE NoPacket
    BY <1>2 DEF NoPacket, NoFalseEnd, peerVars
  <1>3. ASSUME NEW h \in 1 .. nRecvLen, NEW t \in 1 .. nRecvLen, VerifyRecvPacket(h, t)
        PROVE  NoFalseEnd'
    BY <1>3 DEF VerifyRecvPacket, NoFalseEnd, peerVars
  <1>4. CASE Stop \/ Open \/ \E n \in 1 .. Space : Receive(n)
    BY <1>4 DEF Stop, Open, Receive, NoFalseEnd
  <1>5. CASE UNCHANGED frameVars \/ \E size \in Sizes, fair \in BOOLEAN : Send(size, fair)
    BY <1>5 DEF frameVars, peerVars, Send, NoFalseEnd
  <1> QED
    BY <1>1, <1>2, <1>3, <1>4, <1>5 DEF FrameNext

(* However recv() cuts and joins the bytes: the device reader has put the  *)
(* packets that came whole and agree with their length, each once, in      *)
(* order and unchanged, the event reader has counted and acknowledged each *)
(* once, and no connection was given up while its peer kept it.            *)
THEOREM PacketsOnceHolds ==
  ASSUME Fits
  PROVE  FrameSpec => []PacketsOnce
  <1>1. FrameInit => NoFalseEnd
    BY DEF FrameInit, NoFalseEnd
  <1>2. WholeInv /\ NoFalseEnd /\ [FrameNext]_frameVars => NoFalseEnd'
    BY EndStep
  <1>3. WholeInv /\ NoFalseEnd => PacketsOnce
    BY DeviceInv, EventInv DEF PacketsOnce
  <1> QED
    BY <1>1, <1>2, <1>3, FrameInvariance, PTL DEF FrameSpec

-----------------------------------------------------------------------------
(* The connection to the event server                                      *)

(* Neither OneSocket nor PublishReaches is inductive: what the connector   *)
(* may find in socket_ depends on where it is, on m_bConnected, and on     *)
(* whether the receiver is between its close and the assignments after it. *)
(* Turns says so: until one overtakes the other, the two threads take      *)
(* turns at socket_, and m_bConnected says whose turn it is.               *)

(* The receiver ends connections only while they are announced.            *)
Announced == cpc \in {"open", "return"} \/ (cpc = "idle" /\ m_bConnected)

(* What socket_ is while a connection is announced.                        *)
LinkOpen ==
  /\ m_bConnected
  /\ spc = "clear" => socket_ = None \/ file[socket_] \in {"free", "other"}
  /\ spc = "flag" => socket_ = None
  /\ spc \notin {"clear", "flag"} =>
       socket_ = None \/ file[socket_] \in {"new", "up", "down"}
  /\ cpc # "open" /\ spc \notin {"clear", "flag"} => event_handle = socket_

(* What socket_ is while a connection is made.                             *)
LinkMade ==
  /\ ~m_bConnected
  /\ spc \notin {"close", "clear", "flag"}
  /\ cpc \in {"idle", "enter", "create"} => socket_ = None
  /\ cpc = "connect" => socket_ = None \/ file[socket_] = "new"
  /\ cpc = "connecting" => Is(socket_, {"connecting"}) /\ conn = socket_
  /\ cpc = "flag" => socket_ = None \/ file[socket_] \in {"new", "up", "down"}
  /\ cpc = "failed" => socket_ = None \/ file[socket_] = "down"
  /\ cpc = "forget" => socket_ = None \/ file[socket_] \in {"free", "other"}
  /\ cpc # "drop"

Turns ==
  /\ \A f \in Fd : file[f] \in OfLink => f = socket_
  /\ IF Announced THEN LinkOpen ELSE LinkMade

LinkInv == TypeOK /\ (~raced => Turns)

LEMMA LinkTypeInit == Init => TypeOK
  BY DEF Init, TypeOK, File

LEMMA LinkTypeStep == TypeOK /\ [Next]_vars => TypeOK'
  <1> SUFFICES ASSUME TypeOK, [Next]_vars PROVE TypeOK'
    OBVIOUS
  <1> USE LinkAssumption DEF TypeOK, File, OfLink, Connector, Receiver, Raced, Is,
          Closed
  <1>1. CASE UNCHANGED vars
    BY <1>1 DEF vars, linkVars
  <1>2. ASSUME NEW f \in Fd, ServerClose(f) \/ CenterOpen(f) \/ CenterClose(f)
        PROVE  TypeOK'
    BY <1>2 DEF ServerClose, CenterOpen, CenterClose, linkVars
  <1>3. CASE ConnectToEventServer \/ Enter \/ Unresolved \/ Forget
    BY <1>3 DEF ConnectToEventServer, Enter, Unresolved, Forget, linkVars
  <1>4. CASE CreateSocket
    BY <1>4 DEF CreateSocket
  <1>5. CASE ConnectSocket \/ Accepted
    BY <1>5 DEF ConnectSocket, Accepted, linkVars
  <1>6. CASE Refused \/ CloseFailed
    BY <1>6 DEF Refused, CloseFailed, linkVars
  <1>7. CASE FlagConnected \/ Return
    BY <1>7 DEF FlagConnected, Return
  <1>8. CASE open
    BY <1>8 DEF open
  <1>9. CASE Test \/ ReceiveTimer
    BY <1>9 DEF Test, ReceiveTimer, linkVars
  <1>10. CASE SocketRead
    BY <1>10 DEF SocketRead, linkVars
  <1>11. CASE ReadFails
    BY <1>11 DEF ReadFails, linkVars
  <1>12. CASE CloseSocket
    BY <1>12 DEF CloseSocket, linkVars
  <1>13. CASE ClearSocket \/ ClearFlag
    BY <1>13 DEF ClearSocket, ClearFlag, linkVars
  <1>14. CASE ResetLength
    BY <1>14 DEF ResetLength, linkVars
  <1> HIDE DEF TypeOK, Connector, Receiver, Raced, Is, Closed
  <1> QED
    BY <1>1, <1>2, <1>3, <1>4, <1>5, <1>6, <1>7, <1>8, <1>9, <1>10, <1>11,
       <1>12, <1>13, <1>14 DEF Next, ConnectorStep, svc

(* The variables keep their types.                                         *)
THEOREM LinkTypeCorrect == Spec => []TypeOK
  BY LinkTypeInit, LinkTypeStep, PTL DEF Spec

-----------------------------------------------------------------------------
LEMMA TurnsInit == Init => Turns
  BY DEF Init, Turns, OfLink, Announced, LinkMade, Is

(* The event server and the centers open and close what is not the link's. *)
LEMMA TurnsOutside ==
  ASSUME TypeOK, Turns, NEW f \in Fd,
         ServerClose(f) \/ CenterOpen(f) \/ CenterClose(f)
  PROVE  Turns'
  BY LinkAssumption DEF TypeOK, Turns, Announced, LinkOpen, LinkMade, OfLink, Is,
     ServerClose, CenterOpen, CenterClose, Lowest, File, linkVars

LEMMA TurnsConnector ==
  ASSUME TypeOK, Turns, ConnectorStep
  PROVE  Turns'
  <1> USE LinkAssumption DEF TypeOK, File, OfLink, Connector, Is, Closed, Turns,
          Announced, LinkOpen, LinkMade
  <1>1. CASE ConnectToEventServer
    BY <1>1 DEF ConnectToEventServer, linkVars
  <1>2. CASE Enter
    BY <1>2 DEF Enter, linkVars
  <1>3. CASE CreateSocket
    BY <1>3 DEF CreateSocket, Lowest
  <1>4. CASE Unresolved
    BY <1>4 DEF Unresolved, linkVars
  <1>5. CASE ConnectSocket
    BY <1>5 DEF ConnectSocket, linkVars
  <1>6. CASE Accepted
    BY <1>6 DEF Accepted, linkVars
  <1>7. CASE Refused
    BY <1>7 DEF Refused, linkVars
  <1>8. CASE CloseFailed
    BY <1>8 DEF CloseFailed, linkVars
  <1>9. CASE Forget
    BY <1>9 DEF Forget
  <1>10. CASE FlagConnected
    BY <1>10 DEF FlagConnected
  <1>11. CASE open
    BY <1>11 DEF open
  <1>12. CASE Return
    BY <1>12 DEF Return
  <1> QED
    BY <1>1, <1>2, <1>3, <1>4, <1>5, <1>6, <1>7, <1>8, <1>9, <1>10, <1>11, <1>12
       DEF ConnectorStep

(* The receiver, in a step that does not overtake the connector.           *)
LEMMA TurnsReceiver ==
  ASSUME TypeOK, Turns, svc, ~raced'
  PROVE  Turns'
  <1> USE LinkAssumption DEF TypeOK, File, OfLink, Receiver, Is, Closed, Raced,
          Turns, Announced, LinkOpen, LinkMade
  <1>1. CASE Test
    BY <1>1 DEF Test, linkVars
  <1>2. CASE ReceiveTimer
    BY <1>2 DEF ReceiveTimer, linkVars
  <1>3. CASE SocketRead
    BY <1>3 DEF SocketRead, linkVars
  <1>4. CASE ReadFails
    BY <1>4 DEF ReadFails, linkVars
  <1>5. CASE CloseSocket
    BY <1>5 DEF CloseSocket, linkVars
  <1>6. CASE ClearSocket
    BY <1>6 DEF ClearSocket
  <1>7. CASE ClearFlag
    BY <1>7 DEF ClearFlag
  <1>8. CASE ResetLength
    BY <1>8 DEF ResetLength, linkVars
  <1> QED
    BY <1>1, <1>2, <1>3, <1>4, <1>5, <1>6, <1>7, <1>8 DEF svc

(* Once overtaken, always overtaken.                                       *)
LEMMA RacedStays ==
  ASSUME TypeOK, [Next]_vars, raced
  PROVE  raced'
  BY DEF TypeOK, Next, vars, ConnectorStep, svc, ServerClose, CenterOpen,
     CenterClose, ConnectToEventServer, Enter, CreateSocket, Unresolved,
     ConnectSocket, Accepted, Refused, CloseFailed, Forget, FlagConnected, open,
     Return, Test, ReceiveTimer, SocketRead, ReadFails, CloseSocket, ClearSocket,
     ClearFlag, ResetLength, Raced

LEMMA LinkInvStep == LinkInv /\ [Next]_vars => LinkInv'
  <1> SUFFICES ASSUME LinkInv, [Next]_vars PROVE LinkInv'
    OBVIOUS
  <1>1. TypeOK'
    BY LinkTypeStep DEF LinkInv
  <1>2. ASSUME ~raced' PROVE Turns'
    <2>1. TypeOK /\ Turns
      BY <1>2, RacedStays DEF LinkInv
    <2>2. CASE UNCHANGED vars
      BY <2>1, <2>2 DEF vars, linkVars, Turns, Announced, LinkOpen, LinkMade, Is
    <2> QED
      BY <1>2, <2>1, <2>2, TurnsOutside, TurnsConnector, TurnsReceiver DEF Next
  <1> QED
    BY <1>1, <1>2 DEF LinkInv

LEMMA LinkInvariance == Spec => []LinkInv
  <1>1. Init => LinkInv
    BY LinkTypeInit, TurnsInit DEF LinkInv
  <1> QED
    BY <1>1, LinkInvStep, PTL DEF Spec

(* Until the receiver overtakes the connector, no descriptor is leaked and *)
(* none of another connection is taken for the link's.                     *)
THEOREM OneSocketHolds == Spec => []OneSocket
  <1>1. LinkInv => OneSocket
    BY DEF LinkInv, TypeOK, Turns, Announced, LinkOpen, LinkMade, OneSocket, OfLink, Is
  <1> QED
    BY <1>1, LinkInvariance, PTL

(* Until then, handlers publish to the event server or to nobody.          *)
THEOREM PublishReachesHolds == Spec => []PublishReaches
  <1>1. LinkInv => PublishReaches
    BY DEF LinkInv, TypeOK, Turns, Announced, LinkOpen, LinkMade, PublishReaches
  <1> QED
    BY <1>1, LinkInvariance, PTL

-----------------------------------------------------------------------------
(* Bytes counted of an ended connection are there only until the receiver  *)
(* has reset its count, and no connection is made while any others are.    *)
LeftOver ==
  /\ rest = "old" => spc = "reset"
  /\ rest = "own" => Announced \/ cpc = "flag" \/ spc = "reset"

LEMMA LeftOverStep ==
  ASSUME TypeOK, Turns, LeftOver, [Next]_vars, ~raced'
  PROVE  LeftOver'
  <1> USE DEF TypeOK, Connector, Receiver, Raced, Is, LeftOver, Announced
  <1>1. CASE UNCHANGED vars
    BY <1>1 DEF vars, linkVars
  <1>2. ASSUME NEW f \in Fd, ServerClose(f) \/ CenterOpen(f) \/ CenterClose(f)
        PROVE  LeftOver'
    BY <1>2 DEF ServerClose, CenterOpen, CenterClose, linkVars
  <1>3. CASE CreateSocket
    BY <1>3 DEF CreateSocket
  <1>4. CASE SocketRead
    BY <1>4 DEF SocketRead, Turns, LinkOpen, LinkMade, linkVars
  <1>5. CASE ResetLength
    BY <1>5 DEF ResetLength
  <1>6. CASE svc /\ ~SocketRead /\ ~ResetLength
    BY <1>6 DEF svc, Test, ReceiveTimer, ReadFails, CloseSocket, ClearSocket, ClearFlag,
       linkVars, Turns, LinkMade
  <1>7. CASE ConnectorStep /\ ~CreateSocket
    BY <1>7 DEF ConnectorStep, ConnectToEventServer, Enter, Unresolved, ConnectSocket,
       Accepted, Refused, CloseFailed, Forget, FlagConnected, open, Return, linkVars
  <1> QED
    BY <1>1, <1>2, <1>3, <1>4, <1>5, <1>6, <1>7 DEF Next

(* Until the receiver overtakes the connector, no packet is put together   *)
(* from bytes of two connections, whatever descriptors they have.          *)
THEOREM NoMixingHolds == Spec => NoMixing
  <1> DEFINE Mixed == spc = "read" /\ spc' = "test" /\ rest = "old" => raced
             LeftInv == LinkInv /\ (~raced => LeftOver)
  <1>1. Init => LeftInv
    BY LinkTypeInit, TurnsInit DEF LinkInv, Init, LeftOver
  <1>2. LeftInv /\ [Next]_vars => LeftInv'
    BY LinkInvStep, LeftOverStep, RacedStays DEF LinkInv
  <1>3. LeftInv /\ [Next]_vars => [Mixed]_vars
    BY DEF LeftOver
  <1>4. Spec => [][Mixed]_vars
    BY <1>1, <1>2, <1>3, PTL DEF Spec
  <1> QED
    BY <1>4 DEF NoMixing
=============================================================================
