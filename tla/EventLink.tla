----------------------------- MODULE EventLink -----------------------------
(***************************************************************************)
(* The link of SerialComProxy to its event server (CControlCmdHandler).    *)
(*                                                                         *)
(* Two threads share the members socket_ and m_bConnected without a lock.  *)
(* The connector (ConnectToEventServer) looks every two seconds whether    *)
(* m_bConnected is false and then makes a new connection.  The receiver    *)
(* (svc), started by the first connection, reads whatever socket_ is, and  *)
(* when a read fails closes it and clears both.  Every call of the system  *)
(* reads socket_ anew.  The reactor accepts and closes connections of the  *)
(* gathering centers beside them, out of the same table of descriptors, in *)
(* which a new file gets the lowest free number.                           *)
(***************************************************************************)
EXTENDS Integers, FiniteSets

CONSTANTS
  Fd,    \* the descriptors the process may have open beside its standing ones
  None,  \* no descriptor: -1
  MaxOthers  \* bound on the other connections at once

ASSUME LinkAssumption ==
  Fd \subseteq Nat /\ None \notin Fd /\ MaxOthers \in Nat

VARIABLES
  file,          \* what each descriptor is open on
  socket_, m_bConnected, event_handle,
  rest,          \* what nRecvLen counts: bytes of which connection
  cpc, conn,     \* the connector's place and the descriptor it connects
  spc,           \* the receiver's place
  raced          \* history: the receiver acted on a connection before the
                 \* connector had finished making it

linkVars == <<socket_, m_bConnected, event_handle>>
vars == <<file, linkVars, rest, cpc, conn, spc, raced>>

OfLink == {"new", "connecting", "up", "down"}
File   == OfLink \cup {"free", "other"}

Init ==
  /\ file = [f \in Fd |-> "free"]
  /\ socket_ = None /\ m_bConnected = FALSE /\ event_handle = None
  /\ rest = "none"
  /\ cpc = "idle" /\ conn = None
  /\ spc = "off"
  /\ raced = FALSE

Lowest(f) == file[f] = "free" /\ \A g \in Fd : file[g] = "free" => f <= g

Is(f, what) == f # None /\ file[f] \in what

(* SysUtil::CloseSocket: whatever the descriptor is open on now.           *)
Closed(f) == IF f = None THEN file ELSE [file EXCEPT ![f] = "free"]

-----------------------------------------------------------------------------
(* The event server, and the reactor with the centers                      *)

(* The server ends the connection, or the keep-alive probes find it dead.  *)
ServerClose(f) ==
  /\ file[f] = "up"
  /\ file' = [file EXCEPT ![f] = "down"]
  /\ UNCHANGED <<linkVars, rest, cpc, conn, spc, raced>>

CenterOpen(f) ==
  /\ Lowest(f)
  /\ Cardinality({g \in Fd : file[g] = "other"}) < MaxOthers
  /\ file' = [file EXCEPT ![f] = "other"]
  /\ UNCHANGED <<linkVars, rest, cpc, conn, spc, raced>>

CenterClose(f) ==
  /\ file[f] = "other"
  /\ file' = [file EXCEPT ![f] = "free"]
  /\ UNCHANGED <<linkVars, rest, cpc, conn, spc, raced>>

-----------------------------------------------------------------------------
(* The connector                                                           *)

Connector(from, to) == cpc = from /\ cpc' = to

ConnectToEventServer ==
  /\ Connector("idle", "enter")
  /\ ~m_bConnected
  /\ UNCHANGED <<file, linkVars, rest, conn, spc, raced>>

(* A socket that is still there is closed.                                 *)
Enter ==
  /\ cpc = "enter" /\ cpc' = IF socket_ = None THEN "create" ELSE "drop"
  /\ file' = Closed(socket_)
  /\ UNCHANGED <<linkVars, rest, conn, spc, raced>>

(* The bytes still counted are now those of an older connection.           *)
CreateSocket ==
  /\ Connector("create", "connect")
  /\ \/ \E f \in Fd :
          /\ Lowest(f)
          /\ file' = [file EXCEPT ![f] = "new"]
          /\ socket_' = f
     \/ /\ \A f \in Fd : file[f] # "free"
        /\ socket_' = None
        /\ UNCHANGED file
  /\ rest' = IF rest = "none" THEN "none" ELSE "old"
  /\ UNCHANGED <<m_bConnected, event_handle, conn, spc, raced>>

(* The host's name is not resolved: taken for a success.                   *)
Unresolved ==
  /\ Connector("connect", "flag")
  /\ UNCHANGED <<file, linkVars, rest, conn, spc, raced>>

(* connect(): refused at once on what is not a new socket of the link.     *)
ConnectSocket ==
  /\ cpc = "connect"
  /\ conn' = socket_
  /\ IF Is(socket_, {"new"})
     THEN /\ cpc' = "connecting"
          /\ file' = [file EXCEPT ![socket_] = "connecting"]
     ELSE cpc' = "failed" /\ UNCHANGED file
  /\ UNCHANGED <<linkVars, rest, spc, raced>>

Accepted ==
  /\ Connector("connecting", "flag")
  /\ Is(conn, {"connecting"})
  /\ file' = [file EXCEPT ![conn] = "up"]
  /\ UNCHANGED <<linkVars, rest, conn, spc, raced>>

(* Refused, timed out, or closed meanwhile by the receiver.                *)
Refused ==
  /\ Connector("connecting", "failed")
  /\ file' = IF Is(conn, {"connecting"}) THEN [file EXCEPT ![conn] = "down"]
                                         ELSE file
  /\ UNCHANGED <<linkVars, rest, conn, spc, raced>>

CloseFailed ==
  /\ Connector("failed", "forget")
  /\ file' = Closed(socket_)
  /\ UNCHANGED <<linkVars, rest, conn, spc, raced>>

(* After either close.                                                     *)
Forget ==
  /\ Connector("forget", "idle") \/ Connector("drop", "create")
  /\ socket_' = None
  /\ UNCHANGED <<file, m_bConnected, event_handle, rest, conn, spc, raced>>

FlagConnected ==
  /\ Connector("flag", "open")
  /\ m_bConnected' = TRUE
  /\ UNCHANGED <<file, socket_, event_handle, rest, conn, spc, raced>>

(* Mutant: CMSG_Center keeps the descriptor of the first connection.       *)
openOnce ==
  /\ Connector("open", "return")
  /\ event_handle' = IF event_handle = None THEN socket_ ELSE event_handle
  /\ spc' = IF spc = "off" THEN "test" ELSE spc
  /\ UNCHANGED <<file, socket_, m_bConnected, rest, conn, raced>>

(* CMSG_Center learns the descriptor; the receiver is started once.        *)
open ==
  /\ Connector("open", "return")
  /\ event_handle' = socket_
  /\ spc' = IF spc = "off" THEN "test" ELSE spc
  /\ UNCHANGED <<file, socket_, m_bConnected, rest, conn, raced>>

(* The caller sets the flag once more.                                     *)
Return ==
  /\ Connector("return", "idle")
  /\ m_bConnected' = TRUE
  /\ UNCHANGED <<file, socket_, event_handle, rest, conn, spc, raced>>

-----------------------------------------------------------------------------
(* The receiver                                                            *)

(* History: this step of the receiver overtook the connector.              *)
Raced(overtook) == raced' = (raced \/ overtook)

Receiver(from, to) == spc = from /\ spc' = to

Test ==
  /\ Receiver("test", "select")
  /\ socket_ # None
  /\ UNCHANGED <<file, linkVars, rest, cpc, conn, raced>>

(* SysUtil::ReceiveTimer, select() for half a second: a socket not yet     *)
(* connected, or no longer, is ready at once, one that connects is not,    *)
(* and an open one may be.                                                 *)
ReceiveTimer ==
  /\ \/ Receiver("select", "read") /\ Is(socket_, {"new", "up", "down", "other"})
     \/ Receiver("select", "test") /\ ~Is(socket_, {"new", "down"})
  /\ UNCHANGED <<file, linkVars, rest, cpc, conn, raced>>

(* recv() got bytes: VerifyRecvPacket finds packets in the buffer, which   *)
(* are put and acknowledged over socket_, or the bytes stay there.         *)
SocketRead ==
  /\ Receiver("read", "test")
  /\ Is(socket_, {"up", "other"})
  /\ rest' \in {"none", IF rest = "none" THEN "own" ELSE rest}
  /\ Raced(Is(socket_, {"other"}))
  /\ UNCHANGED <<file, linkVars, cpc, conn>>

(* Mutant: the end of the stream is taken for no data yet.                 *)
EndIgnored ==
  /\ Receiver("read", "test")
  /\ ~Is(socket_, {"up", "connecting", "other"})
  /\ UNCHANGED <<file, linkVars, rest, cpc, conn, raced>>

(* recv() failed or met the end.                                           *)
ReadFails ==
  /\ Receiver("read", "close")
  /\ ~Is(socket_, {"up", "connecting", "other"})
  /\ Raced(~m_bConnected)
  /\ UNCHANGED <<file, linkVars, rest, cpc, conn>>

CloseSocket ==
  /\ Receiver("close", "clear")
  /\ file' = Closed(socket_)
  /\ UNCHANGED <<linkVars, rest, cpc, conn, raced>>

(* Mutant: a closed socket is 0, which the tests for > 0 would bear.       *)
ClearSocketZero ==
  /\ Receiver("clear", "flag")
  /\ socket_' = 0
  /\ UNCHANGED <<file, m_bConnected, event_handle, rest, cpc, conn, raced>>

(* Mutant: a closed socket keeps its number.                               *)
ClearSocketNot ==
  /\ Receiver("clear", "flag")
  /\ UNCHANGED <<file, linkVars, rest, cpc, conn, raced>>

ClearSocket ==
  /\ Receiver("clear", "flag")
  /\ socket_' = None
  /\ UNCHANGED <<file, m_bConnected, event_handle, rest, cpc, conn, raced>>

ClearFlag ==
  /\ Receiver("flag", "reset")
  /\ m_bConnected' = FALSE
  /\ Raced(cpc \in {"flag", "open", "return"})
  /\ UNCHANGED <<file, socket_, event_handle, rest, cpc, conn>>

(* Mutant: the bytes of the ended connection stay in the buffer.           *)
ResetNothing ==
  /\ Receiver("reset", "test")
  /\ UNCHANGED <<file, linkVars, rest, cpc, conn, raced>>

ResetLength ==
  /\ Receiver("reset", "test")
  /\ rest' = "none"
  /\ UNCHANGED <<file, linkVars, cpc, conn, raced>>

-----------------------------------------------------------------------------
ConnectorStep ==
  \/ ConnectToEventServer \/ Enter \/ CreateSocket \/ Unresolved \/ ConnectSocket
  \/ Accepted \/ Refused \/ CloseFailed \/ Forget
  \/ FlagConnected \/ open \/ Return

svc ==
  \/ Test \/ ReceiveTimer \/ SocketRead \/ ReadFails
  \/ CloseSocket \/ ClearSocket \/ ClearFlag \/ ResetLength

Next ==
  \/ \E f \in Fd : ServerClose(f) \/ CenterOpen(f) \/ CenterClose(f)
  \/ ConnectorStep
  \/ svc

(* Both threads run, and tried again and again, the name is resolved and   *)
(* the connection accepted in the end.                                     *)
Fairness ==
  /\ WF_vars(ConnectorStep) /\ SF_vars(ConnectSocket) /\ SF_vars(Accepted)
  /\ WF_vars(svc)

Spec == Init /\ [][Next]_vars /\ Fairness

-----------------------------------------------------------------------------
(* Properties                                                              *)

TypeOK ==
  /\ file \in [Fd -> File]
  /\ socket_ \in Fd \cup {None} /\ event_handle \in Fd \cup {None}
  /\ m_bConnected \in BOOLEAN
  /\ rest \in {"none", "own", "old"}
  /\ cpc \in {"idle", "enter", "create", "connect", "connecting", "flag", "open",
             "return", "failed", "forget", "drop"}
  /\ conn \in Fd \cup {None}
  /\ spc \in {"off", "test", "select", "read", "close", "clear", "flag", "reset"}
  /\ raced \in BOOLEAN

(* Unless the receiver has overtaken the connector, every descriptor open  *)
(* for the link is the one in socket_ (no socket is leaked), and socket_   *)
(* names another's connection only between a close and the assignment      *)
(* that follows it, where nobody closes or writes to it.                   *)
OneSocket ==
  ~raced =>
    /\ \A f \in Fd : file[f] \in OfLink => f = socket_
    /\ Is(socket_, {"other"}) => spc = "clear" \/ cpc \in {"drop", "forget"}

(* While the link is held to be connected and neither thread is changing   *)
(* it, what handlers publish on event_handle goes to the event server, or  *)
(* nowhere, and not over a connection that was given an old descriptor.    *)
PublishReaches ==
  ~raced /\ m_bConnected /\ cpc = "idle" /\ spc \notin {"clear", "flag"} =>
    /\ event_handle = socket_
    /\ event_handle = None \/ file[event_handle] \in {"new", "up", "down"}

(* No packet is put together from bytes of two connections, as long as the *)
(* receiver does not overtake the connector.                               *)
NoMixing ==
  [][spc = "read" /\ spc' = "test" /\ rest = "old" => raced]_vars

(* A lost link is made again, and again, as long as the receiver does not  *)
(* overtake the connector.                                                 *)
LinkRecovers == []<>(\E f \in Fd : file[f] = "up") \/ <>raced
=============================================================================
