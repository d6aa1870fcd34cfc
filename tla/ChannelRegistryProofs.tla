------------------------ MODULE ChannelRegistryProofs ------------------------
(***************************************************************************)
(* Proofs about ChannelRegistry for any channels, uploads and descriptors. *)
(***************************************************************************)
EXTENDS ChannelRegistry, SequenceTheorems, TLAPS

-----------------------------------------------------------------------------
(* Messages and queues                                                     *)

(* What the handler thread finds in a message of each type.                *)
LEMMA MessageFields ==
  ASSUME NEW m \in Message
  PROVE  /\ m.type = "register" => m.about \in Channel /\ m.fd \in Fd
         /\ m.type = "upload" => m.about \in Seqno /\ m.fd \in Fd
         /\ m.type = "keeplive" => m.fd \in Fd
         /\ m.type \in {"customsAck", "ctrlCmd"} => m.about \in Seqno
         /\ m.type = "regather" => m.about \in Channel
  BY DEF Message

(* The first message is one of the list; the others stay.                  *)
LEMMA HeadTailMessages ==
  ASSUME NEW q \in Seq(Message), q # << >>
  PROVE  /\ Head(q) \in Message /\ Tail(q) \in Seq(Message)
         /\ 1 \in 1 .. Len(q) /\ Head(q) = q[1]
         /\ \A i \in 1 .. Len(Tail(q)) : i + 1 \in 1 .. Len(q) /\ Tail(q)[i] = q[i + 1]
  BY HeadTailProperties

LEMMA AppendMessages ==
  ASSUME NEW q \in Seq(Message), NEW m \in Message
  PROVE  /\ Append(q, m) \in Seq(Message)
         /\ \A i \in 1 .. Len(Append(q, m)) :
              Append(q, m)[i] = m \/ (i \in 1 .. Len(q) /\ Append(q, m)[i] = q[i])
  BY AppendProperties

LEMMA Messages ==
  ASSUME NEW f \in Fd
  PROVE  /\ \A c \in Channel : [type |-> "register", about |-> c, fd |-> f] \in Message
         /\ \A s \in Seqno : [type |-> "upload", about |-> s, fd |-> f] \in Message
         /\ [type |-> "keeplive", fd |-> f] \in Message
         /\ \A s \in Seqno, t \in {"customsAck", "ctrlCmd"} :
              [type |-> t, about |-> s] \in Message
         /\ \A c \in Channel : [type |-> "regather", about |-> c] \in Message
  BY DEF Message

LEMMA OrderMessages ==
  /\ \A s \in Seqno, t \in {"customsAck", "ctrlCmd"} : [type |-> t, about |-> s] \in Message
  /\ \A c \in Channel : [type |-> "regather", about |-> c] \in Message
  BY DEF Message

(* The handling of the first message of the list.                          *)
LEMMA HandledMessage ==
  ASSUME TypeOK, NEW type, Handled(type)
  PROVE  /\ answer = None /\ queue # << >> /\ Head(queue) \in Message
         /\ Head(queue).type = type /\ queue' = Tail(queue) /\ queue' \in Seq(Message)
  BY HeadTailMessages DEF Handled, Front, TypeOK

-----------------------------------------------------------------------------
(* Types                                                                   *)

LEMMA TypeInit == Init => TypeOK
  BY RegistryAssumption DEF Init, TypeOK, Absent

LEMMA SendType ==
  ASSUME TypeOK, NEW c \in Channel, NEW m \in Message, Send(c, m)
  PROVE  TypeOK'
  <1>1. link[c] \in Fd /\ wire[link[c]] \in Seq(Message)
    BY DEF Send, TypeOK
  <1>2. wire' \in [Fd -> Seq(Message)]
    BY <1>1, AppendMessages DEF Send, TypeOK
  <1> QED
    BY <1>2 DEF Send, TypeOK, deviceVars, serverVars

LEMMA DeviceType == TypeOK /\ DeviceServer => TypeOK'
  <1> SUFFICES ASSUME TypeOK, DeviceServer PROVE TypeOK'
    OBVIOUS
  <1>1. ASSUME NEW c \in Channel, NEW f \in Fd, Connect(c, f)
        PROVE  TypeOK'
    BY <1>1, RegistryAssumption DEF Connect, TypeOK, serverVars
  <1>2. ASSUME NEW c \in Channel, Register(c) \/ Keeplive(c)
        PROVE  TypeOK'
    <2>1. link[c] \in Fd
      BY <1>2 DEF Register, Keeplive, Send, TypeOK
    <2> QED
      BY <1>2, <2>1, SendType, Messages DEF Register, Keeplive
  <1>3. ASSUME NEW c \in Channel, Drop(c)
        PROVE  TypeOK'
    BY <1>3 DEF Drop, TypeOK, serverVars
  <1>4. ASSUME NEW s \in Seqno, Upload(s)
        PROVE  TypeOK'
    <2>1. Owner[s] \in Channel
      BY RegistryAssumption
    <2>2. link[Owner[s]] \in Fd
      BY <1>4, <2>1 DEF Upload, Send, TypeOK
    <2> QED
      BY <1>4, <2>1, <2>2, SendType, Messages DEF Upload
  <1> QED
    BY <1>1, <1>2, <1>3, <1>4 DEF DeviceServer

LEMMA ReactorType ==
  ASSUME TypeOK,
         \/ \E f \in Fd : process(f) \/ destroy(f)
         \/ \E s \in Seqno : RecvPlatformCmd(s)
         \/ \E c \in Channel : RecvRegather(c)
  PROVE  TypeOK'
  <1>1. ASSUME NEW f \in Fd, process(f)
        PROVE  TypeOK'
    <2>1. Head(wire[f]) \in Message /\ Tail(wire[f]) \in Seq(Message)
      BY <1>1, HeadTailMessages DEF process, TypeOK
    <2>2. queue' \in Seq(Message) /\ wire' \in [Fd -> Seq(Message)]
      BY <1>1, <2>1, AppendMessages DEF process, TypeOK
    <2> QED
      BY <1>1, <2>2 DEF process, TypeOK, deviceVars, serverVars
  <1>2. ASSUME NEW f \in Fd, destroy(f)
        PROVE  TypeOK'
    <2>1. status' \in [Channel -> [handle : Fd \cup {None}, active : BOOLEAN]]
      BY <1>2 DEF destroy, channel_exit, TypeOK
    <2>2. wire' \in [Fd -> Seq(Message)] /\ peer' \in [Fd -> Channel \cup {None}]
      BY <1>2, EmptySeq DEF destroy, TypeOK
    <2> QED
      BY <1>2, <2>1, <2>2 DEF destroy, TypeOK, deviceVars
  <1>3. ASSUME NEW m \in Message, queue' = Append(queue, m),
               UNCHANGED <<deviceVars, peer, wire, serverVars, home>>
        PROVE  TypeOK'
    BY <1>3, AppendMessages DEF TypeOK, deviceVars, serverVars
  <1> QED
    BY <1>1, <1>2, <1>3, OrderMessages DEF RecvPlatformCmd, RecvRegather

LEMMA HandlerType == TypeOK /\ HandleNetMessage => TypeOK'
  <1> SUFFICES ASSUME TypeOK, HandleNetMessage PROVE TypeOK'
    OBVIOUS
  <1>1. CASE handleChannelRegister
    BY <1>1, HandledMessage, MessageFields DEF handleChannelRegister, TypeOK, deviceVars
  <1>2. CASE handleChannelKeeplive
    BY <1>2, HandledMessage, MessageFields DEF handleChannelKeeplive, TypeOK, deviceVars
  <1>3. CASE handleUploadCustomsData
    BY <1>3, HandledMessage, MessageFields DEF handleUploadCustomsData, TypeOK, deviceVars
  <1>4. CASE handleCustomsDataAck
    <2>1. Head(queue) \in Message /\ Head(queue).type = "customsAck"
          /\ Tail(queue) \in Seq(Message)
      BY <1>4, HeadTailMessages DEF handleCustomsDataAck, Front, TypeOK
    <2>2. queue' \in Seq(Message)
      BY <1>4, <2>1, MessageFields, OrderMessages, AppendMessages DEF handleCustomsDataAck
    <2> QED
      BY <1>4, <2>2 DEF handleCustomsDataAck, TypeOK, deviceVars, serverVars
  <1>5. CASE handleCtrlCmd
    BY <1>5, HandledMessage, MessageFields DEF handleCtrlCmd, TypeOK, deviceVars
  <1>6. CASE handleChannelPassAck
    BY <1>6 DEF handleChannelPassAck, TypeOK, deviceVars
  <1>7. CASE handleRegatherData
    BY <1>7, HandledMessage, MessageFields DEF handleRegatherData, TypeOK, deviceVars
  <1> QED
    BY <1>1, <1>2, <1>3, <1>4, <1>5, <1>6, <1>7 DEF HandleNetMessage

LEMMA TypeStep == TypeOK /\ [Next]_vars => TypeOK'
  <1>1. TypeOK /\ UNCHANGED vars => TypeOK'
    BY DEF vars, deviceVars, serverVars, TypeOK
  <1> QED
    BY <1>1, DeviceType, ReactorType, HandlerType DEF Next

(* For any devices, uploads and descriptors, every message has the fields  *)
(* its handler reads and every handle kept is a descriptor or none.        *)
THEOREM TypeCorrect == Spec => []TypeOK
  BY TypeInit, TypeStep, PTL DEF Spec
-----------------------------------------------------------------------------
(* Connections                                                             *)

(* The descriptor behind a device's connection is that device's: no second *)
(* one is given out before the server has closed it.                       *)
PeersLinked == \A c \in Channel : link[c] # None => peer[link[c]] = c

LEMMA LinkedInit == Init => PeersLinked
  BY DEF Init, PeersLinked

LEMMA LinkedStep == TypeOK /\ PeersLinked /\ [Next]_vars => PeersLinked'
  <1> SUFFICES ASSUME TypeOK, PeersLinked, [Next]_vars PROVE PeersLinked'
    OBVIOUS
  <1>1. ASSUME NEW c \in Channel, NEW f \in Fd, Connect(c, f)
        PROVE  PeersLinked'
    <2>1. /\ \A d \in Channel : link'[d] = IF d = c THEN f ELSE link[d]
          /\ \A g \in Fd : peer'[g] = IF g = f THEN c ELSE peer[g]
          /\ peer[f] = None
      BY <1>1 DEF Connect, TypeOK
    <2> QED
      BY <2>1, RegistryAssumption DEF PeersLinked, TypeOK
  <1>2. ASSUME NEW c \in Channel, Drop(c)
        PROVE  PeersLinked'
    BY <1>2 DEF Drop, PeersLinked, TypeOK
  <1>3. ASSUME NEW f \in Fd, destroy(f)
        PROVE  PeersLinked'
    <2>1. \A c \in Channel : link[c] # f
      BY <1>3, RegistryAssumption DEF destroy, PeersLinked
    <2> QED
      BY <1>3, <2>1 DEF destroy, PeersLinked, TypeOK, deviceVars
  <1>4. CASE UNCHANGED <<link, peer>>
    BY <1>4 DEF PeersLinked
  <1>5. ASSUME NEW c \in Channel, NEW m, Send(c, m)
        PROVE  UNCHANGED <<link, peer>>
    BY <1>5 DEF Send, deviceVars
  <1>6. ASSUME NEW f \in Fd, process(f)
        PROVE  UNCHANGED <<link, peer>>
    BY <1>6 DEF process, deviceVars
  <1>7. CASE \/ HandleNetMessage \/ \E s \in Seqno : RecvPlatformCmd(s)
             \/ \E c \in Channel : RecvRegather(c)
    BY <1>4, <1>7
       DEF HandleNetMessage, handleChannelRegister, handleChannelKeeplive,
           handleUploadCustomsData, handleCustomsDataAck, handleCtrlCmd,
           handleChannelPassAck, handleRegatherData, RecvPlatformCmd, RecvRegather,
           deviceVars
  <1>8. CASE UNCHANGED vars
    BY <1>4, <1>8 DEF vars, deviceVars
  <1>9. \A s \in Seqno : Owner[s] \in Channel
    BY RegistryAssumption
  <1> QED
    BY <1>1, <1>2, <1>3, <1>4, <1>5, <1>6, <1>7, <1>8, <1>9
       DEF Next, DeviceServer, Register, Keeplive, Upload

-----------------------------------------------------------------------------
(* The route of a registered channel                                       *)

Registration(c, f) == [type |-> "register", about |-> c, fd |-> f]

(* A registration is on its way only if it was before, or its device has   *)
(* just sent it.                                                           *)
LEMMA OnItsWay ==
  ASSUME TypeOK, Next, NEW c \in Channel, NEW f \in Fd,
         Underway(Registration(c, f))', ~Underway(Registration(c, f))
  PROVE  link[c] = f
  <1> DEFINE m == Registration(c, f)
  <1>0. m.type = "register" /\ m.about = c /\ m.fd = f
    BY DEF Registration
  <1>1. /\ \A i \in 1 .. Len(queue) : queue[i] # m
        /\ \A g \in Fd : \A i \in 1 .. Len(wire[g]) : wire[g][i] # m
    BY DEF Underway
  <1>2. ASSUME NEW d \in Channel, NEW n \in Message, Send(d, n)
        PROVE  n = m
    <2>1. link[d] \in Fd /\ wire[link[d]] \in Seq(Message) /\ queue' = queue
      BY <1>2 DEF Send, TypeOK
    <2>2. \A g \in Fd : wire'[g] = IF g = link[d] THEN Append(wire[g], n) ELSE wire[g]
      BY <1>2, <2>1 DEF Send, TypeOK
    <2>3. PICK g \in Fd : \E i \in 1 .. Len(wire'[g]) : wire'[g][i] = m
      BY <1>1, <2>1 DEF Underway
    <2>4. g = link[d] /\ wire'[g] = Append(wire[g], n)
      BY <1>1, <2>2, <2>3
    <2>5. \A i \in 1 .. Len(wire'[g]) :
            wire'[g][i] = n \/ (i \in 1 .. Len(wire[g]) /\ wire'[g][i] = wire[g][i])
      BY <2>1, <2>4, AppendMessages
    <2> QED
      BY <1>1, <2>3, <2>5
  <1>3. ASSUME NEW g \in Fd, process(g)
        PROVE  FALSE
    <2>1. /\ wire[g] \in Seq(Message) /\ wire[g] # << >> /\ queue \in Seq(Message)
          /\ queue' = Append(queue, Head(wire[g]))
          /\ \A h \in Fd : wire'[h] = IF h = g THEN Tail(wire[h]) ELSE wire[h]
      BY <1>3 DEF process, TypeOK
    <2>2. Head(wire[g]) \in Message /\ Head(wire[g]) # m
      BY <1>1, <2>1, HeadTailMessages
    <2>3. \A i \in 1 .. Len(queue') : queue'[i] # m
      BY <1>1, <2>1, <2>2, AppendMessages
    <2>4. ASSUME NEW h \in Fd, NEW i \in 1 .. Len(wire'[h])
          PROVE  wire'[h][i] # m
      <3>1. CASE h = g
        <4>1. /\ wire'[h] = Tail(wire[g]) /\ i + 1 \in 1 .. Len(wire[g])
              /\ Tail(wire[g])[i] = wire[g][i + 1]
          BY <2>1, <3>1, HeadTailMessages
        <4> QED
          BY <1>1, <4>1
      <3>2. CASE h # g
        BY <1>1, <2>1, <3>2
      <3> QED
        BY <3>1, <3>2
    <2> QED
      BY <2>3, <2>4 DEF Underway
  <1>4. ASSUME NEW n \in Message, n.type # "register",
               queue' \in {queue, Append(queue, n)}, wire' = wire
        PROVE  FALSE
    <2>1. \A i \in 1 .. Len(Append(queue, n)) :
            \/ Append(queue, n)[i] = n
            \/ i \in 1 .. Len(queue) /\ Append(queue, n)[i] = queue[i]
      BY AppendMessages DEF TypeOK
    <2>2. \A i \in 1 .. Len(queue') : queue'[i] # m
      BY <1>0, <1>1, <1>4, <2>1
    <2> QED
      BY <1>1, <1>4, <2>2 DEF Underway
  <1>5. ASSUME queue # << >>, wire' = wire,
               \/ queue' = Tail(queue)
               \/ \E n \in Message : n.type # "register" /\ queue' = Append(Tail(queue), n)
        PROVE  FALSE
    <2>1. /\ Tail(queue) \in Seq(Message)
          /\ \A i \in 1 .. Len(Tail(queue)) : Tail(queue)[i] # m
      BY <1>1, <1>5, HeadTailMessages DEF TypeOK
    <2> QED
      BY <1>0, <1>1, <1>5, <2>1, AppendMessages DEF Underway
  <1>6. ASSUME NEW g \in Fd, destroy(g)
        PROVE  FALSE
    <2>1. queue' = queue /\ \A h \in Fd : wire'[h] = IF h = g THEN << >> ELSE wire[h]
      BY <1>6 DEF destroy, TypeOK
    <2> QED
      BY <1>1, <2>1 DEF Underway
  <1>7. CASE \E d \in Channel : Register(d)
    <2>1. PICK d \in Channel : Register(d)
      BY <1>7
    <2>2. link[d] \in Fd
      BY <2>1 DEF Register, Send, TypeOK
    <2>3. [type |-> "register", about |-> d, fd |-> link[d]] = m
      BY <1>2, <2>1, <2>2, Messages DEF Register
    <2> QED
      BY <1>0, <2>3
  <1>8. CASE \E d \in Channel : Keeplive(d)
    <2>1. PICK d \in Channel : Keeplive(d)
      BY <1>8
    <2>2. link[d] \in Fd
      BY <2>1 DEF Keeplive, Send, TypeOK
    <2>3. [type |-> "keeplive", fd |-> link[d]] = m
      BY <1>2, <2>1, <2>2, Messages DEF Keeplive
    <2>4. [type |-> "keeplive", fd |-> link[d]].type = "keeplive"
      OBVIOUS
    <2> QED
      BY <1>0, <2>3, <2>4
  <1>9. CASE \E s \in Seqno : Upload(s)
    <2>1. PICK s \in Seqno : Upload(s)
      BY <1>9
    <2>2. link[Owner[s]] \in Fd /\ Owner[s] \in Channel
      BY <2>1, RegistryAssumption DEF Upload, Send, TypeOK
    <2>3. [type |-> "upload", about |-> s, fd |-> link[Owner[s]]] = m
      BY <1>2, <2>1, <2>2, Messages DEF Upload
    <2>4. [type |-> "upload", about |-> s, fd |-> link[Owner[s]]].type = "upload"
      OBVIOUS
    <2> QED
      BY <1>0, <2>3, <2>4
  <1>10. CASE \E d \in Channel : Drop(d) \/ \E g \in Fd : Connect(d, g)
    BY <1>1, <1>10 DEF Drop, Connect, Underway
  <1>11. CASE \/ \E s \in Seqno : RecvPlatformCmd(s)
              \/ \E d \in Channel : RecvRegather(d)
    BY <1>4, <1>11, OrderMessages DEF RecvPlatformCmd, RecvRegather
  <1>12. CASE HandleNetMessage
    <2>1. CASE handleChannelPassAck
      BY <1>1, <2>1 DEF handleChannelPassAck, Underway
    <2>2. CASE handleCustomsDataAck
      <3>1. /\ queue # << >> /\ wire' = wire
            /\ Head(queue) \in Message /\ Head(queue).type = "customsAck"
            /\ queue' = Append(Tail(queue), [type |-> "ctrlCmd", about |-> Head(queue).about])
        BY <2>2, HeadTailMessages DEF handleCustomsDataAck, Front, TypeOK
      <3>2. [type |-> "ctrlCmd", about |-> Head(queue).about] \in Message
        BY <3>1, MessageFields, OrderMessages
      <3> QED
        BY <1>5, <3>1, <3>2
    <2>3. CASE ~handleChannelPassAck /\ ~handleCustomsDataAck
      BY <1>5, <1>12, <2>3
         DEF HandleNetMessage, handleChannelRegister, handleChannelKeeplive,
             handleUploadCustomsData, handleCtrlCmd, handleRegatherData, Handled, Front
    <2> QED
      BY <2>1, <2>2, <2>3
  <1> QED
    BY <1>3, <1>6, <1>7, <1>8, <1>9, <1>10, <1>11, <1>12 DEF Next, DeviceServer

(* What a step may do to the entry of a routed channel.                    *)
LEMMA StaysRouted ==
  ASSUME TypeOK, PeersLinked, Next, NEW c \in Channel, Firm(c), link'[c] = link[c]
  PROVE  Routed(c)'
  <1>0. /\ link[c] \in Fd /\ status[c] = [handle |-> link[c], active |-> TRUE]
        /\ status[c].handle = link[c]
    BY DEF Firm, Routed, TypeOK
  <1> SUFFICES status'[c] = status[c]
    BY <1>0 DEF Firm, Routed
  <1>1. ASSUME NEW f \in Fd, destroy(f)
        PROVE  status'[c] = status[c]
    <2>1. f # link[c]
      BY <1>0, <1>1, RegistryAssumption DEF destroy, PeersLinked
    <2> QED
      BY <1>0, <1>1, <2>1 DEF destroy, channel_exit
  <1>2. CASE handleChannelRegister
    <2> DEFINE m == Head(queue)
    <2>1. /\ m \in Message /\ m.type = "register" /\ queue # << >>
          /\ status' = [status EXCEPT ![m.about] = [handle |-> m.fd, active |-> TRUE]]
      BY <1>2, HandledMessage DEF handleChannelRegister
    <2>2. CASE m.about = c
      <3>1. m = Registration(c, m.fd) /\ m.fd \in Fd
        BY <2>1, <2>2 DEF Message, Registration
      <3>2. 1 \in 1 .. Len(queue) /\ queue[1] = m
        BY <2>1, HeadTailMessages DEF TypeOK
      <3>3. m.fd = link[c]
        BY <3>1, <3>2 DEF Firm, Underway, Registration
      <3> QED
        BY <1>0, <2>1, <2>2, <3>3 DEF TypeOK
    <2>3. CASE m.about # c
      BY <2>1, <2>3 DEF TypeOK
    <2> QED
      BY <2>2, <2>3
  <1>3. CASE handleChannelKeeplive
    BY <1>0, <1>3 DEF handleChannelKeeplive, TypeOK
  <1>4. CASE UNCHANGED status
    BY <1>4
  <1>5. CASE HandleNetMessage /\ ~handleChannelRegister /\ ~handleChannelKeeplive
    BY <1>4, <1>5
       DEF HandleNetMessage, handleUploadCustomsData, handleCustomsDataAck, handleCtrlCmd,
           handleChannelPassAck, handleRegatherData, serverVars
  <1>6. CASE DeviceServer
    BY <1>4, <1>6
       DEF DeviceServer, Connect, Register, Keeplive, Upload, Send, Drop, serverVars
  <1>7. CASE \/ \E f \in Fd : process(f)
             \/ \E s \in Seqno : RecvPlatformCmd(s)
             \/ \E d \in Channel : RecvRegather(d)
    BY <1>4, <1>7 DEF process, RecvPlatformCmd, RecvRegather, serverVars
  <1> QED
    BY <1>1, <1>2, <1>3, <1>5, <1>6, <1>7 DEF Next

LEMMA FirmStep ==
  ASSUME TypeOK, PeersLinked, [Next]_vars, NEW c \in Channel, Firm(c)
  PROVE  Firm(c)' \/ link'[c] # link[c]
  <1>1. CASE UNCHANGED vars
    BY <1>1 DEF vars, deviceVars, serverVars, Firm, Routed, Underway
  <1>2. CASE Next /\ link'[c] = link[c]
    <2>1. Routed(c)'
      BY <1>2, StaysRouted
    <2>2. ASSUME NEW f \in Fd \ {link[c]}
          PROVE  ~Underway(Registration(c, f))'
      BY <1>2, OnItsWay DEF Firm, Registration
    <2> QED
      BY <1>2, <2>1, <2>2 DEF Firm, Registration
  <1> QED
    BY <1>1, <1>2

(* For any devices and descriptors: nothing that other devices do, and no  *)
(* close the server notices late, takes the route of a channel away.       *)
THEOREM RouteStableHolds == Spec => RouteStable
  <1>1. TypeOK /\ PeersLinked /\ [Next]_vars =>
          [\A c \in Channel : Firm(c) => Firm(c)' \/ link'[c] # link[c]]_vars
    BY FirmStep
  <1> QED
    BY <1>1, TypeInit, TypeStep, LinkedInit, LinkedStep, PTL DEF Spec, RouteStable

-----------------------------------------------------------------------------
(* Where answers go                                                        *)

(* An upload that is home has its device at the handle the map has for it, *)
(* and so has what is about to be sent.                                    *)
HomeKept ==
  /\ \A s \in home \cap Seqno : seqConn[s] # None /\ link[Owner[s]] = seqConn[s]
  /\ answer # None /\ answer.about \in home => link[Device(answer.about)] = answer.fd

LEMMA HomeInit == Init => HomeKept
  BY DEF Init, HomeKept

LEMMA Devices ==
  /\ \A s \in Seqno : Device(s) = Owner[s] /\ Owner[s] \in Channel /\ s \notin Channel
  /\ \A c \in Channel : Device(c) = c
  BY RegistryAssumption DEF Device

LEMMA AnswerFields ==
  TypeOK /\ answer # None => answer.fd \in Fd /\ Device(answer.about) \in Channel
  <1>1. TypeOK /\ answer # None => answer.fd \in Fd /\ answer.about \in Channel \cup Seqno
    BY DEF TypeOK
  <1> QED
    BY <1>1, Devices

LEMMA HomeStep == TypeOK /\ HomeKept /\ [Next]_vars => HomeKept'
  <1> SUFFICES ASSUME TypeOK, HomeKept, [Next]_vars PROVE HomeKept'
    OBVIOUS
  <1>1. CASE UNCHANGED <<link, seqConn, answer, home>>
    BY <1>1, Devices DEF HomeKept, Device
  <1>2. ASSUME NEW c \in Channel, NEW f \in Fd, Connect(c, f)
        PROVE  HomeKept'
    <2>1. /\ link[c] = None /\ UNCHANGED <<seqConn, answer, home>>
          /\ \A d \in Channel : link'[d] = IF d = c THEN f ELSE link[d]
      BY <1>2 DEF Connect, TypeOK, serverVars
    <2>2. \A s \in home \cap Seqno : Owner[s] # c
      BY <2>1 DEF HomeKept
    <2>3. answer # None /\ answer.about \in home => Device(answer.about) # c
      BY <2>1, RegistryAssumption DEF HomeKept, TypeOK
    <2>4. answer # None => Device(answer.about) \in Channel
      BY AnswerFields
    <2> QED
      BY <2>1, <2>2, <2>3, <2>4, Devices DEF HomeKept, Device
  <1>3. ASSUME NEW c \in Channel, Drop(c)
        PROVE  HomeKept'
    <2>1. /\ UNCHANGED <<seqConn, answer>>
          /\ \A d \in Channel : d # c => link'[d] = link[d]
          /\ home' = {x \in home : Device(x) # c}
      BY <1>3 DEF Drop, TypeOK, serverVars
    <2>2. answer # None => Device(answer.about) \in Channel
      BY AnswerFields
    <2> QED
      BY <2>1, <2>2, Devices DEF HomeKept, Device
  <1>4. CASE handleUploadCustomsData
    <2> DEFINE m == Head(queue)
    <2>1. /\ m \in Message /\ m.type = "upload" /\ answer' = None /\ link' = link
          /\ seqConn' = [seqConn EXCEPT ![m.about] = m.fd]
          /\ home' = IF link[Owner[m.about]] = m.fd THEN home \cup {m.about}
                                                    ELSE home \ {m.about}
      BY <1>4, HandledMessage DEF handleUploadCustomsData, deviceVars
    <2>2. m.about \in Seqno /\ m.fd # None
      BY <2>1, MessageFields, RegistryAssumption
    <2>3. \A s \in Seqno : seqConn'[s] = IF s = m.about THEN m.fd ELSE seqConn[s]
      BY <2>1 DEF TypeOK
    <2> QED
      BY <2>1, <2>2, <2>3 DEF HomeKept
  <1>5. CASE handleCtrlCmd
    <2> DEFINE s == Head(queue).about
    <2>1. /\ s \in Seqno /\ UNCHANGED <<link, seqConn, home>>
          /\ answer' = IF seqConn[s] = None THEN None ELSE [about |-> s, fd |-> seqConn[s]]
      BY <1>5, HandledMessage, MessageFields DEF handleCtrlCmd, deviceVars
    <2> QED
      BY <2>1, Devices DEF HomeKept, Device
  <1>6. CASE handleRegatherData
    <2> DEFINE c == Head(queue).about
    <2>1. /\ c \in Channel /\ UNCHANGED <<link, seqConn>>
          /\ answer' \in {None, [about |-> c, fd |-> status[c].handle]}
          /\ home' = IF Routed(c) THEN home \cup {c} ELSE home \ {c}
      BY <1>6, HandledMessage, MessageFields DEF handleRegatherData, deviceVars
    <2>2. Routed(c) => status[c].handle = link[c]
      BY DEF Routed
    <2> QED
      BY <2>1, <2>2, Devices DEF HomeKept, Device
  <1>7. CASE handleChannelPassAck
    BY <1>7 DEF handleChannelPassAck, HomeKept, deviceVars
  <1>8. ASSUME NEW f \in Fd, process(f) \/ destroy(f)
        PROVE  HomeKept'
    BY <1>1, <1>8 DEF process, destroy, deviceVars, serverVars
  <1>9. CASE \/ \E s \in Seqno : RecvPlatformCmd(s) \/ Upload(s)
             \/ \E c \in Channel : RecvRegather(c) \/ Register(c) \/ Keeplive(c)
             \/ handleChannelRegister \/ handleChannelKeeplive \/ handleCustomsDataAck
    BY <1>1, <1>9
       DEF RecvPlatformCmd, RecvRegather, Register, Keeplive, Upload, Send,
           handleChannelRegister, handleChannelKeeplive, handleCustomsDataAck,
           deviceVars, serverVars
  <1>10. CASE UNCHANGED vars
    BY <1>1, <1>10 DEF vars, deviceVars, serverVars
  <1> QED
    BY <1>2, <1>3, <1>4, <1>5, <1>6, <1>7, <1>8, <1>9, <1>10
       DEF Next, DeviceServer, HandleNetMessage

(* For any devices, uploads and descriptors: whatever other devices do,    *)
(* and however late the server notices a close, an answer or order only    *)
(* reaches another device if the one it is for has left.                   *)
THEOREM SentHomeHolds == Spec => SentHome
  <1> DEFINE Home ==
        answer # None /\ answer' = None =>
          \/ peer[answer.fd] \in {Device(answer.about), None}
          \/ answer.about \notin home
  <1>1. TypeOK /\ PeersLinked /\ HomeKept => Home
    <2> SUFFICES ASSUME TypeOK, PeersLinked, HomeKept, answer # None, answer.about \in home
                 PROVE  peer[answer.fd] = Device(answer.about)
      OBVIOUS
    <2>1. answer.fd \in Fd /\ Device(answer.about) \in Channel
      BY AnswerFields
    <2> QED
      BY <2>1, RegistryAssumption DEF HomeKept, PeersLinked
  <1>2. TypeOK /\ PeersLinked /\ HomeKept /\ [Next]_vars => [Home]_vars
    BY <1>1
  <1>3. Spec => [][Home]_vars
    BY <1>2, TypeInit, TypeStep, LinkedInit, LinkedStep, HomeInit, HomeStep, PTL DEF Spec
  <1> QED
    BY <1>3 DEF SentHome
=============================================================================
