----------------------------- MODULE ParkProxy -----------------------------
(***************************************************************************)
(* The park proxy (yuanquproxy) and the end of the gathering service that  *)
(* takes its answers (CPlat_Cmd_Acceptor, CPlatCmdHandler_T).              *)
(*                                                                         *)
(* The gathering service connects to the proxy for every upload, writes it *)
(* and closes.  A thread of the proxy connects back to the service at      *)
(* once, asks the park's web service, reports the passage to it, writes    *)
(* the command to the connection back and closes.  What came on that       *)
(* connection until its end is the answer.                                 *)
(*                                                                         *)
(* The threads share the numbers of the process's descriptor table, and    *)
(* HttpRequest closes a number twice when the web service ends a           *)
(* connection with nothing.  The behaviours modelled end when the second   *)
(* close hits a connection of another thread (crossed), or when the        *)
(* service has used the pointer of HandlerPool that nothing set (down).    *)
(***************************************************************************)
EXTENDS HandlerConstants, Sequences, FiniteSets

CONSTANTS
  Upload,   \* the uploads; each has a thread and a connection back
  Fd,       \* the numbers of the proxy's descriptor table
  MaxLost   \* bound on the numbers left open

(* A number is open on one of three connections of a thread.               *)
Object == {"in", "out", "web"} \X Upload

ASSUME ParkAssumption ==
  /\ Fd \subseteq Int
  /\ None \notin Fd \cup Object
  /\ MaxLost \in Nat

VARIABLES
  \* the proxy
  file,      \* what each number is open on
  accepting, \* AcceptProc is in its loop
  pc,        \* where the thread of an upload is
  socket,    \* nSocket, the upload's connection
  newSocket, \* nNewSocket, the connection back
  web,       \* m_iSocketFd of the request being made
  retXml,    \* strRetXml: a command to write, or none
  \* the service
  useFlag, index, handler, down,
  buffer,    \* chRecvBuffer of each handler, up to dwRecvBuffLen
  \* history
  lost,      \* numbers left open for good
  crossed    \* a thread closed a connection of another

Pool == INSTANCE HandlerPool WITH Conn <- Upload

poolVars == <<useFlag, index, handler, down>>
serviceVars == <<poolVars, buffer>>
numbers == <<socket, newSocket, web>>
vars == <<file, accepting, pc, numbers, retXml, serviceVars, lost, crossed>>

Init ==
  /\ file = [f \in Fd |-> None]
  /\ accepting = TRUE
  /\ pc = [u \in Upload |-> "away"]
  /\ socket = [u \in Upload |-> None]
  /\ newSocket = [u \in Upload |-> None]
  /\ web = [u \in Upload |-> None]
  /\ retXml = [u \in Upload |-> "none"]
  /\ Pool!Init
  /\ buffer = [i \in Pool!Handlers |-> <<>>]
  /\ lost = {}
  /\ crossed = FALSE

-----------------------------------------------------------------------------
(* The descriptor table: the kernel gives out the lowest free number.      *)

Full == \A f \in Fd : file[f] # None

Gives(f, object) ==
  /\ file[f] = None
  /\ \A g \in Fd : file[g] = None => f <= g
  /\ file' = [file EXCEPT ![f] = object]

Goto(u, to) == pc' = [pc EXCEPT ![u] = to]

Loses(f) ==
  /\ Cardinality(lost) < MaxLost
  /\ lost' = lost \cup {f}

(* close(f) by thread u: whatever is open on f.                           *)
CloseSocket(u, f) ==
  /\ file' = [file EXCEPT ![f] = None]
  /\ crossed' = (crossed \/ (file[f] # None /\ file[f][2] # u))

-----------------------------------------------------------------------------
(* AcceptProc                                                              *)

(* The service connects for an upload, and a thread is made for it; if     *)
(* there can be none the number stays open.  Any error of accept() but     *)
(* EAGAIN, such as a full table, ends the loop for good.                   *)
AcceptProc(u) ==
  /\ accepting
  /\ pc[u] = "away"
  /\ handler[u] = None
  /\ \/ \E f \in Fd :
          /\ Gives(f, <<"in", u>>)
          /\ \/ socket' = [socket EXCEPT ![u] = f] /\ Goto(u, "create") /\ UNCHANGED lost
             \/ Loses(f) /\ UNCHANGED <<socket, pc>>
          /\ UNCHANGED accepting
     \/ /\ Full
        /\ accepting' = FALSE
        /\ UNCHANGED <<file, pc, socket, lost>>
  /\ UNCHANGED <<newSocket, web, retXml, serviceVars, crossed>>

-----------------------------------------------------------------------------
(* ClientProc                                                              *)

(* Mutant: open() leaves in the buffer what an earlier connection brought. *)
ConnectSocketKeeping(u) ==
  /\ pc[u] = "create"
  /\ \E f \in Fd : Gives(f, <<"out", u>>) /\ newSocket' = [newSocket EXCEPT ![u] = f]
  /\ Pool!make_svc_handler(u)
  /\ Goto(u, "request")
  /\ UNCHANGED <<accepting, socket, web, retXml, buffer, lost, crossed>>

(* The connection back is made before anything is read: the service takes *)
(* a handler from its pool, and open() empties the handler's buffer.       *)
ConnectSocket(u) ==
  /\ pc[u] = "create"
  /\ \E f \in Fd : Gives(f, <<"out", u>>) /\ newSocket' = [newSocket EXCEPT ![u] = f]
  /\ Pool!make_svc_handler(u)
  /\ buffer' = [i \in Pool!Handlers |-> IF i = handler'[u] THEN <<>> ELSE buffer[i]]
  /\ Goto(u, "request")
  /\ UNCHANGED <<accepting, socket, web, retXml, lost, crossed>>

(* No number was left, or the service did not take the connection: the     *)
(* upload is given up.                                                     *)
NotConnected(u) ==
  /\ pc[u] = "create"
  /\ CloseSocket(u, socket[u])
  /\ socket' = [socket EXCEPT ![u] = None]
  /\ Goto(u, "away")
  /\ UNCHANGED <<accepting, newSocket, web, retXml, serviceVars, lost>>

(* HttpRequestExec up to the waiting for a reply.                          *)
(* An error of connect() other than EINPROGRESS leaves the number open.    *)
HttpRequestExec(u) ==
  /\ \E f \in Fd :
       /\ Gives(f, <<"web", u>>)
       /\ \/ /\ web' = [web EXCEPT ![u] = f]
             /\ \/ pc[u] = "request" /\ Goto(u, "wait")
                \/ pc[u] = "log" /\ Goto(u, "logWait")
             /\ UNCHANGED lost
          \/ /\ Loses(f)
             /\ pc[u] \in {"request", "log"}
             /\ Goto(u, "finish")
             /\ UNCHANGED web
  /\ UNCHANGED <<accepting, socket, newSocket, retXml, serviceVars, crossed>>

(* There was nothing to read, no number was left, or the request failed    *)
(* before connect().                                                       *)
NoRequest(u) ==
  /\ pc[u] \in {"request", "log"}
  /\ Goto(u, "finish")
  /\ UNCHANGED <<file, accepting, numbers, retXml, serviceVars, lost, crossed>>

(* What the web service may say of a car: the command that                 *)
(* ParseValidateCarPassRetInfo makes of it, and result.code, which is set  *)
(* before it is noticed that the message is missing.                       *)
Replies == [xml : {"command", "none"}, code : {"0", "other"}]

(* HttpDataTransmit reads to the end of the connection and closes it.  A   *)
(* code of 0 is reported as a passage before the command is written.       *)
Validated(u) ==
  /\ pc[u] = "wait"
  /\ CloseSocket(u, web[u])
  /\ web' = [web EXCEPT ![u] = None]
  /\ \E r \in Replies :
       /\ retXml' = [retXml EXCEPT ![u] = r.xml]
       /\ IF r.code = "0" THEN Goto(u, "log") ELSE Goto(u, "finish")
  /\ UNCHANGED <<accepting, socket, newSocket, serviceVars, lost>>

(* The reply to SendCarPassLog changes nothing.                            *)
Logged(u) ==
  /\ pc[u] = "logWait"
  /\ CloseSocket(u, web[u])
  /\ web' = [web EXCEPT ![u] = None]
  /\ Goto(u, "finish")
  /\ UNCHANGED <<accepting, socket, newSocket, retXml, serviceVars, lost>>

(* Mutant: HttpRequestExec leaves the closing to HttpDataTransmit.         *)
FailedOpen(u) ==
  /\ pc[u] \in {"wait", "logWait"}
  /\ web' = [web EXCEPT ![u] = None]
  /\ Goto(u, "finish")
  /\ UNCHANGED <<file, accepting, socket, newSocket, retXml, serviceVars, lost, crossed>>

(* A connection that was not made after all, or brought more than the      *)
(* buffer holds, is closed by HttpRequestExec alone.                       *)
Failed(u) ==
  /\ pc[u] \in {"wait", "logWait"}
  /\ CloseSocket(u, web[u])
  /\ web' = [web EXCEPT ![u] = None]
  /\ Goto(u, "finish")
  /\ UNCHANGED <<accepting, socket, newSocket, retXml, serviceVars, lost>>

(* With nothing read, or an error, HttpDataTransmit closes the number, ... *)
Nothing(u) ==
  /\ pc[u] \in {"wait", "logWait"}
  /\ Goto(u, "again")
  /\ CloseSocket(u, web[u])
  /\ UNCHANGED <<accepting, numbers, retXml, serviceVars, lost>>

(* ... and HttpRequestExec closes it again.                                *)
CloseAgain(u) ==
  /\ pc[u] = "again"
  /\ CloseSocket(u, web[u])
  /\ web' = [web EXCEPT ![u] = None]
  /\ Goto(u, "finish")
  /\ UNCHANGED <<accepting, socket, newSocket, retXml, serviceVars, lost>>

(* The command, if there is one, is written to the connection back.        *)
SocketWrite(u) ==
  buffer' = IF retXml[u] = "none" THEN buffer
            ELSE [buffer EXCEPT ![handler[u]] = Append(@, u)]

(* Mutant: the connection back is left open.                               *)
EndClientOpen(u) ==
  /\ pc[u] = "finish"
  /\ SocketWrite(u)
  /\ file' = [file EXCEPT ![socket[u]] = None]
  /\ newSocket' = [newSocket EXCEPT ![u] = None]
  /\ socket' = [socket EXCEPT ![u] = None]
  /\ Goto(u, "away")
  /\ UNCHANGED <<accepting, web, retXml, poolVars, lost, crossed>>

(* Then both connections are closed.                                       *)
EndClient(u) ==
  /\ pc[u] = "finish"
  /\ SocketWrite(u)
  /\ file' = [f \in Fd |-> IF f \in {newSocket[u], socket[u]} THEN None ELSE file[f]]
  /\ newSocket' = [newSocket EXCEPT ![u] = None]
  /\ socket' = [socket EXCEPT ![u] = None]
  /\ Goto(u, "away")
  /\ UNCHANGED <<accepting, web, retXml, poolVars, lost, crossed>>

ClientProc(u) ==
  \/ ConnectSocket(u) \/ NotConnected(u)
  \/ HttpRequestExec(u) \/ NoRequest(u) \/ Validated(u) \/ Logged(u)
  \/ Failed(u) \/ Nothing(u) \/ CloseAgain(u) \/ EndClient(u)

-----------------------------------------------------------------------------
(* The service                                                             *)

(* The end of a connection: what the handler's buffer holds is put for the *)
(* handling thread, and destroy gives the handler back.                    *)
RecvPlatformCmd(u) ==
  /\ \A f \in Fd : file[f] # <<"out", u>>
  /\ Pool!free_handler(u)
  /\ retXml' = [retXml EXCEPT ![u] = "none"]
  /\ UNCHANGED <<file, accepting, pc, numbers, buffer, lost, crossed>>

Next ==
  /\ ~crossed /\ ~down
  /\ \E u \in Upload : AcceptProc(u) \/ ClientProc(u) \/ RecvPlatformCmd(u)

Spec == Init /\ [][Next]_vars

(* The proxy's threads and the reactor run on, and the web service ends    *)
(* every connection.                                                       *)
FairSpec ==
  /\ Spec
  /\ \A u \in Upload :
       /\ WF_vars(~crossed /\ ~down /\ ClientProc(u))
       /\ WF_vars(~crossed /\ ~down /\ RecvPlatformCmd(u))

-----------------------------------------------------------------------------
(* Properties                                                              *)

Places == {"away", "create", "request", "wait", "again", "log", "logWait", "finish"}

TypeOK ==
  /\ Pool!TypeOK
  /\ file \in [Fd -> Object \cup {None}]
  /\ accepting \in BOOLEAN
  /\ pc \in [Upload -> Places]
  /\ socket \in [Upload -> Fd \cup {None}]
  /\ newSocket \in [Upload -> Fd \cup {None}]
  /\ web \in [Upload -> Fd \cup {None}]
  /\ retXml \in [Upload -> {"command", "none"}]
  /\ buffer \in [Pool!Handlers -> Seq(Upload)]
  /\ lost \subseteq Fd
  /\ crossed \in BOOLEAN

(* The program of the service only dies while every handler of the pool    *)
(* has a connection: those of uploads whose thread has not come to its end *)
(* and of ended ones the reactor has not seen yet.                         *)
FakeOnlyWhenFull == Pool!FakeOnlyWhenFull

(* Until a second close crosses connections, every number open is the one  *)
(* a thread knows for that connection and will close, but for those of     *)
(* requests the web service could not take and of threads that could not   *)
(* be made; and what a thread takes for its connections is open on them.   *)
NumbersAccounted ==
  crossed \/
    /\ \A f \in Fd \ lost, u \in Upload :
         /\ file[f] = <<"in", u>> <=> socket[u] = f
         /\ file[f] = <<"out", u>> <=> newSocket[u] = f
         /\ file[f] = <<"web", u>> <=> web[u] = f /\ pc[u] # "again"
    /\ \A u \in Upload : pc[u] = "away" => {socket[u], newSocket[u], web[u]} = {None}

(* When a connection back ends, the handling thread is given the command   *)
(* of its own upload, whole and alone, or nothing if there was none: never *)
(* what an earlier connection left in the handler's buffer, and nothing of *)
(* a command is lost.                                                      *)
AnsweredAlone ==
  [][ \A u \in Upload :
        handler[u] # None /\ handler'[u] = None =>
          buffer[handler[u]] = IF retXml[u] = "command" THEN <<u>> ELSE <<>> ]_vars

(* A handler taken for an upload is given back, whatever becomes of the    *)
(* requests made for it, unless the behaviours end first.                  *)
HandlersComeBack ==
  \A i \in Pool!Handlers : useFlag[i] = 1 ~> useFlag[i] = 0 \/ down \/ crossed
=============================================================================
