---------------------------- MODULE HandlerPool ----------------------------
(***************************************************************************)
(* The pool of connection handlers of CCmd_Acceptor and CPlat_Cmd_Acceptor *)
(* (XZCenterServer and SerialComProxy).                                    *)
(*                                                                         *)
(* The handlers are made at start-up.  An accepted connection gets the     *)
(* first free one at or after a rotating index, or else before it; with    *)
(* none free it gets a pointer that nothing ever set, and the program does *)
(* not survive its use.                                                    *)
(***************************************************************************)
EXTENDS HandlerConstants

CONSTANT Conn \* the connections clients open

VARIABLES
  useFlag,  \* nUseFlag of each handler
  index,    \* m_nDispatchRealStreamHandlerIndex
  handler,  \* the handler each open connection has
  down      \* the program has used the unset pointer

vars == <<useFlag, index, handler, down>>

Handlers == 0 .. MAX_CMD_HANDLER_NUM - 1

Init ==
  /\ useFlag = [i \in Handlers |-> 0]
  /\ index = 0
  /\ handler = [c \in Conn |-> None]
  /\ down = FALSE

Free(from, to) == {i \in from .. to : useFlag[i] = 0}

First(i, S) == i \in S /\ \A j \in S : i <= j

Give(c, i) ==
  /\ useFlag' = [useFlag EXCEPT ![i] = 1]
  /\ handler' = [handler EXCEPT ![c] = i]
  /\ UNCHANGED down

(* Mutant: the index may come to stand behind the last handler.            *)
FirstScanOver(c) ==
  \E i \in Handlers :
    /\ First(i, Free(index, MAX_CMD_HANDLER_NUM - 1))
    /\ Give(c, i)
    /\ index' = IF index + 1 > MAX_CMD_HANDLER_NUM THEN 0 ELSE index + 1

(* Mutant: the scan takes the handler the index stands at.                 *)
FirstScanBlind(c) ==
  /\ Free(index, MAX_CMD_HANDLER_NUM - 1) # {}
  /\ Give(c, index)
  /\ index' = IF index + 1 > MAX_CMD_HANDLER_NUM - 1 THEN 0 ELSE index + 1

(* From the index on; the index moves on by one, wherever the handler was. *)
FirstScan(c) ==
  \E i \in Handlers :
    /\ First(i, Free(index, MAX_CMD_HANDLER_NUM - 1))
    /\ Give(c, i)
    /\ index' = IF index + 1 > MAX_CMD_HANDLER_NUM - 1 THEN 0 ELSE index + 1

(* From the start up to the index, which goes to the handler found.        *)
SecondScan(c) ==
  /\ Free(index, MAX_CMD_HANDLER_NUM - 1) = {}
  /\ \E i \in Handlers :
       /\ First(i, Free(0, index - 1))
       /\ Give(c, i)
       /\ index' = i

(* Mutant: there is no second scan.                                        *)
FakeEarly(c) ==
  /\ Free(index, MAX_CMD_HANDLER_NUM - 1) = {}
  /\ down' = TRUE
  /\ UNCHANGED <<useFlag, index, handler>>

(* m_pFakeRealhandler, which is not initialised.                           *)
Fake(c) ==
  /\ Free(index, MAX_CMD_HANDLER_NUM - 1) = {}
  /\ Free(0, index - 1) = {}
  /\ down' = TRUE
  /\ UNCHANGED <<useFlag, index, handler>>

make_svc_handler(c) ==
  /\ ~down
  /\ handler[c] = None
  /\ FirstScan(c) \/ SecondScan(c) \/ Fake(c)

(* The connection closes: destroy, with free_handler.                      *)
free_handler(c) ==
  /\ ~down
  /\ handler[c] # None
  /\ useFlag' = [useFlag EXCEPT ![handler[c]] = 0]
  /\ handler' = [handler EXCEPT ![c] = None]
  /\ UNCHANGED <<index, down>>

Next == \E c \in Conn : make_svc_handler(c) \/ free_handler(c)

Spec == Init /\ [][Next]_vars

-----------------------------------------------------------------------------
(* Properties                                                              *)

TypeOK ==
  /\ useFlag \in [Handlers -> {0, 1}]
  /\ index \in Handlers
  /\ handler \in [Conn -> Handlers \cup {None}]
  /\ down \in BOOLEAN

(* Two open connections never share a handler, with its receive buffer and *)
(* socket, and a handler is marked used just when a connection has it:     *)
(* none leaks, whatever order connections come and go in.                  *)
Exclusive ==
  /\ \A c, d \in Conn : handler[c] = handler[d] /\ handler[c] # None => c = d
  /\ \A i \in Handlers : useFlag[i] = 1 <=> \E c \in Conn : handler[c] = i

(* The two scans miss no free handler: the unset pointer is only handed    *)
(* out while every handler of the pool has a connection.                   *)
FakeOnlyWhenFull == down => \A i \in Handlers : \E c \in Conn : handler[c] = i
=============================================================================
