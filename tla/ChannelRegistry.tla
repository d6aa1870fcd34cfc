-------------------------- MODULE ChannelRegistry --------------------------
(***************************************************************************)
(* How XZCenterServer knows where a channel is, and where the answer to an *)
(* upload or an order to gather again goes.                                *)
(*                                                                         *)
(* The reactor thread accepts the connections of the device servers, reads *)
(* their messages and puts them, tagged with the descriptor they came over,*)
(* on the list of CMSG_Center (MessagePool).  The handler thread keeps two *)
(* maps of descriptors: by channel (m_StaChannelStatusMap) and by sequence *)
(* number of an upload (m_StaChannelConnectMap).  The reactor tells it of  *)
(* a closed connection at once, past the list, and the kernel gives the    *)
(* descriptor out again; neither map is told.                              *)
(***************************************************************************)
EXTENDS Integers, Sequences

CONSTANTS
  Channel,     \* the channels, one device server each
  Seqno,       \* the sequence numbers of uploads
  Owner,       \* the channel that uploads each of them
  Fd,          \* the descriptors the kernel has for their connections
  None,        \* no descriptor, no channel: -1
  MaxConnects, \* bound on the number of connects
  MaxWire,     \* bound on the unread messages of a connection
  MaxQueue     \* bound on the length of the list when the reactor reads

ASSUME RegistryAssumption ==
  /\ Channel \cap Seqno = {}
  /\ Owner \in [Seqno -> Channel]
  /\ None \notin Channel \cup Fd
  /\ MaxConnects \in Nat /\ MaxWire \in Nat /\ MaxQueue \in Nat

VARIABLES
  link,      \* the descriptor behind the connection each device uses
  peer,      \* the device whose connection each descriptor is
  wire,      \* the messages sent over it and not yet read
  connects,  \* how often a device connected
  queue,     \* msgToHandleList_
  status,    \* m_StaChannelStatusMap: the handle and is_active
  seqConn,   \* m_StaChannelConnectMap: the handle
  answer,    \* what has been looked up and is to be sent to a device
  home       \* history: uploads and channels whose device is where the map
             \* had it and has not left since

deviceVars == <<link, connects>>
serverVars == <<status, seqConn, answer>>
vars == <<deviceVars, peer, wire, queue, serverVars, home>>

Message ==
  [type : {"register"}, about : Channel, fd : Fd]
    \cup [type : {"upload"}, about : Seqno, fd : Fd]
    \cup [type : {"keeplive"}, fd : Fd]
    \cup [type : {"customsAck", "ctrlCmd"}, about : Seqno]
    \cup [type : {"regather"}, about : Channel]

(* The channel an upload's answer, or an order about a channel, is for.    *)
Device(x) == IF x \in Channel THEN x ELSE Owner[x]

Absent == [handle |-> None, active |-> FALSE]

Init ==
  /\ link = [c \in Channel |-> None]
  /\ peer = [f \in Fd |-> None]
  /\ wire = [f \in Fd |-> << >>]
  /\ connects = 0
  /\ queue = << >>
  /\ status = [c \in Channel |-> Absent]
  /\ seqConn = [s \in Seqno |-> None]
  /\ answer = None
  /\ home = {}

-----------------------------------------------------------------------------
(* The device servers                                                      *)

(* The server may not have noticed yet that the last connection is gone.   *)
Connect(c, f) ==
  /\ connects < MaxConnects
  /\ link[c] = None
  /\ peer[f] = None
  /\ connects' = connects + 1
  /\ link' = [link EXCEPT ![c] = f]
  /\ peer' = [peer EXCEPT ![f] = c]
  /\ UNCHANGED <<wire, queue, serverVars, home>>

Send(c, m) ==
  /\ link[c] # None
  /\ Len(wire[link[c]]) < MaxWire
  /\ wire' = [wire EXCEPT ![link[c]] = Append(@, m)]
  /\ UNCHANGED <<deviceVars, peer, queue, serverVars, home>>

Register(c) == Send(c, [type |-> "register", about |-> c, fd |-> link[c]])

Keeplive(c) == Send(c, [type |-> "keeplive", fd |-> link[c]])

(* Once, or again when the answer does not come.                           *)
Upload(s) ==
  Send(Owner[s], [type |-> "upload", about |-> s, fd |-> link[Owner[s]]])

(* The device stops or its line is cut; the server has not noticed.        *)
Drop(c) ==
  /\ link[c] # None
  /\ link' = [link EXCEPT ![c] = None]
  /\ home' = {x \in home : Device(x) # c}
  /\ UNCHANGED <<connects, peer, wire, queue, serverVars>>

-----------------------------------------------------------------------------
(* The reactor thread                                                      *)

(* The device's message goes on the list with its descriptor.              *)
process(f) ==
  /\ wire[f] # << >>
  /\ Len(queue) < MaxQueue
  /\ queue' = Append(queue, Head(wire[f]))
  /\ wire' = [wire EXCEPT ![f] = Tail(@)]
  /\ UNCHANGED <<deviceVars, peer, serverVars, home>>

(* Mutant: the channel is taken to be gone, not what its handle was.       *)
channel_exitOfDevice(f) == status' = [status EXCEPT ![peer[f]].active = FALSE]

channel_exit(f) ==
  status' = [c \in Channel |->
              IF status[c].handle = f THEN [status[c] EXCEPT !.active = FALSE]
                                      ELSE status[c]]

(* End of file or a reset, which loses what has not been read.             *)
destroy(f) ==
  /\ peer[f] # None /\ link[peer[f]] # f
  /\ channel_exit(f)
  /\ peer' = [peer EXCEPT ![f] = None]
  /\ wire' = [wire EXCEPT ![f] = << >>]
  /\ UNCHANGED <<deviceVars, queue, seqConn, answer, home>>

(* The platform answers an upload, or an operator's console sends a device *)
(* control or exception release: the sequence number may be unknown here.  *)
RecvPlatformCmd(s) ==
  /\ Len(queue) < MaxQueue
  /\ queue' = Append(queue, [type |-> "customsAck", about |-> s])
  /\ UNCHANGED <<deviceVars, peer, wire, serverVars, home>>

(* A console's order, by way of another proxy, to gather again.            *)
RecvRegather(c) ==
  /\ Len(queue) < MaxQueue
  /\ queue' = Append(queue, [type |-> "regather", about |-> c])
  /\ UNCHANGED <<deviceVars, peer, wire, serverVars, home>>

-----------------------------------------------------------------------------
(* The handler thread                                                      *)

Routed(c) == link[c] # None /\ status[c] = [handle |-> link[c], active |-> TRUE]

Front(type) ==
  /\ answer = None
  /\ queue # << >> /\ Head(queue).type = type

Handled(type) ==
  /\ Front(type)
  /\ queue' = Tail(queue)

(* Mutant: a channel that is known keeps its handle.                       *)
handleChannelRegisterOnce ==
  /\ Handled("register")
  /\ LET m == Head(queue) IN
       status' = [status EXCEPT ![m.about] =
         [handle |-> IF @ = Absent THEN m.fd ELSE @.handle, active |-> TRUE]]
  /\ UNCHANGED <<deviceVars, peer, wire, seqConn, answer, home>>

(* A new entry, or the old one with the new handle.                        *)
handleChannelRegister ==
  /\ Handled("register")
  /\ LET m == Head(queue) IN
       status' = [status EXCEPT ![m.about] = [handle |-> m.fd, active |-> TRUE]]
  /\ UNCHANGED <<deviceVars, peer, wire, seqConn, answer, home>>

(* Every entry with this handle is active, whosever it is.                 *)
handleChannelKeeplive ==
  /\ Handled("keeplive")
  /\ LET f == Head(queue).fd IN
       status' = [c \in Channel |->
         IF status[c].handle = f THEN [status[c] EXCEPT !.active = TRUE]
                                 ELSE status[c]]
  /\ UNCHANGED <<deviceVars, peer, wire, seqConn, answer, home>>

(* Mutant: the first handle of a sequence number stays in the map.         *)
handleUploadCustomsDataOnce ==
  /\ Handled("upload")
  /\ LET m == Head(queue) s == m.about IN
       /\ seqConn' = [seqConn EXCEPT ![s] = IF @ = None THEN m.fd ELSE @]
       /\ home' = IF link[Owner[s]] = m.fd THEN home \cup {s} ELSE home \ {s}
  /\ UNCHANGED <<deviceVars, peer, wire, status, answer>>

(* The handle is kept before the data is sent on to the platform, whether  *)
(* or not that can be reached.                                             *)
handleUploadCustomsData ==
  /\ Handled("upload")
  /\ LET m == Head(queue) s == m.about IN
       /\ seqConn' = [seqConn EXCEPT ![s] = m.fd]
       /\ home' = IF link[Owner[s]] = m.fd THEN home \cup {s} ELSE home \ {s}
  /\ UNCHANGED <<deviceVars, peer, wire, status, answer>>

(* Unpacking, or building the command, calls RecvCtrlCmdCallback: a new    *)
(* message.                                                                *)
handleCustomsDataAck ==
  /\ Front("customsAck")
  /\ queue' = Append(Tail(queue), [type |-> "ctrlCmd", about |-> Head(queue).about])
  /\ UNCHANGED <<deviceVars, peer, wire, serverVars, home>>

(* Mutant: a sequence number that is not in the map is looked up anyway.   *)
handleCtrlCmdUnchecked ==
  /\ Handled("ctrlCmd")
  /\ LET s == Head(queue).about IN answer' = [about |-> s, fd |-> seqConn[s]]
  /\ UNCHANGED <<deviceVars, peer, wire, status, seqConn, home>>

(* With the map locked: find the handle of the sequence number ...         *)
handleCtrlCmd ==
  /\ Handled("ctrlCmd")
  /\ LET s == Head(queue).about IN
       answer' = IF seqConn[s] = None THEN None
                 ELSE [about |-> s, fd |-> seqConn[s]]
  /\ UNCHANGED <<deviceVars, peer, wire, status, seqConn, home>>

(* ... and send the answer to whoever is at that descriptor now.           *)
handleChannelPassAck ==
  /\ answer # None
  /\ answer' = None
  /\ UNCHANGED <<deviceVars, peer, wire, queue, status, seqConn, home>>

(* Mutant: the order goes to the descriptor of an upload of the channel.   *)
handleRegatherDataUpload ==
  /\ Handled("regather")
  /\ LET c == Head(queue).about
         handles == {seqConn[s] : s \in {t \in Seqno : Owner[t] = c}} \ {None}
     IN
       /\ answer' \in IF handles = {} THEN {None}
                      ELSE {[about |-> c, fd |-> f] : f \in handles}
       /\ home' = IF Routed(c) THEN home \cup {c} ELSE home \ {c}
  /\ UNCHANGED <<deviceVars, peer, wire, status, seqConn>>

(* An order by hand is sent to the platforms.  One for a device goes to    *)
(* the channel's handle, active or not; it is looked up with the map       *)
(* locked, which gives an unknown channel an empty entry, and written to   *)
(* afterwards.                                                             *)
handleRegatherData ==
  /\ Handled("regather")
  /\ LET c == Head(queue).about IN
       /\ answer' \in {None, IF status[c].handle = None THEN None
                              ELSE [about |-> c, fd |-> status[c].handle]}
       /\ home' = IF Routed(c) THEN home \cup {c} ELSE home \ {c}
  /\ UNCHANGED <<deviceVars, peer, wire, status, seqConn>>

-----------------------------------------------------------------------------
HandleNetMessage ==
  \/ handleChannelRegister \/ handleChannelKeeplive \/ handleUploadCustomsData
  \/ handleCustomsDataAck \/ handleCtrlCmd \/ handleChannelPassAck
  \/ handleRegatherData

DeviceServer ==
  \/ \E c \in Channel, f \in Fd : Connect(c, f)
  \/ \E c \in Channel : Register(c) \/ Keeplive(c) \/ Drop(c)
  \/ \E s \in Seqno : Upload(s)

Next ==
  \/ DeviceServer
  \/ \E f \in Fd : process(f) \/ destroy(f)
  \/ \E s \in Seqno : RecvPlatformCmd(s)
  \/ \E c \in Channel : RecvRegather(c)
  \/ HandleNetMessage

(* Both threads of the server run.  MaxQueue disables process now and then *)
(* and the real list does not, hence the strong fairness.                  *)
Fairness ==
  /\ WF_vars(HandleNetMessage)
  /\ \A f \in Fd : SF_vars(process(f))

Spec == Init /\ [][Next]_vars /\ Fairness

-----------------------------------------------------------------------------
(* Properties                                                              *)

TypeOK ==
  /\ link \in [Channel -> Fd \cup {None}]
  /\ peer \in [Fd -> Channel \cup {None}]
  /\ wire \in [Fd -> Seq(Message)]
  /\ connects \in 0 .. MaxConnects
  /\ queue \in Seq(Message)
  /\ status \in [Channel -> [handle : Fd \cup {None}, active : BOOLEAN]]
  /\ seqConn \in [Seqno -> Fd \cup {None}]
  /\ answer \in [about : Channel \cup Seqno, fd : Fd] \cup {None}
  /\ home \subseteq Channel \cup Seqno

Underway(m) ==
  \/ \E i \in 1 .. Len(queue) : queue[i] = m
  \/ \E f \in Fd : \E i \in 1 .. Len(wire[f]) : wire[f][i] = m

(* No registration of c on another descriptor is still unread or listed.   *)
Firm(c) ==
  /\ Routed(c)
  /\ \A f \in Fd \ {link[c]} : ~Underway([type |-> "register", about |-> c, fd |-> f])

(* Once a channel is routed to the connection its device uses, and no      *)
(* older registration is on its way, it stays routed there as long as the  *)
(* device stays: no close, keep-alive or registration on another           *)
(* connection, past or present, takes the route away.                      *)
RouteStable ==
  [][\A c \in Channel : Firm(c) => Firm(c)' \/ link'[c] # link[c]]_vars

(* What is sent goes to the device it is for, or nowhere, unless that      *)
(* device has left the connection it made the upload on, or an order found *)
(* it on: no other device's traffic makes it go astray.                    *)
SentHome ==
  [][ answer # None /\ answer' = None =>
        \/ peer[answer.fd] \in {Device(answer.about), None}
        \/ answer.about \notin home ]_vars

(* A device that registers and stays connected gets its channel routed.    *)
RegisterRoutes ==
  \A c \in Channel, f \in Fd :
    (link[c] = f /\ \E i \in 1 .. Len(wire[f]) : wire[f][i].type = "register")
      ~> (Routed(c) \/ link[c] # f)
=============================================================================
