--------------------------- MODULE ParkProxyProofs ---------------------------
(***************************************************************************)
(* Proofs about ParkProxy for any number of uploads, any descriptor table  *)
(* and any size of the service's pool of handlers.                         *)
(***************************************************************************)
EXTENDS ParkProxy, TLAPS

-----------------------------------------------------------------------------
(* The pool of handlers of the service                                     *)

(* Pool is HandlerPool itself with the uploads as its connections.  What    *)
(* follows up to PoolHolds is about Pool alone: as any set may be Upload,  *)
(* it is about every pool and every set of connections.                    *)
PoolOK == Pool!TypeOK /\ Pool!Exclusive /\ Pool!FakeOnlyWhenFull

LEMMA PoolInits == Pool!Init => PoolOK
  <1> SUFFICES ASSUME Pool!Init PROVE PoolOK
    OBVIOUS
  <1> USE DEF Pool!Init
  <1>1. 0 \in Pool!Handlers /\ None \notin Pool!Handlers
    BY HandlerPoolAssumption DEF Pool!Handlers
  <1>2. /\ useFlag \in [Pool!Handlers -> {0, 1}]
        /\ handler \in [Upload -> Pool!Handlers \cup {None}]
        /\ down \in BOOLEAN
    OBVIOUS
  <1>3. Pool!Exclusive /\ Pool!FakeOnlyWhenFull
    BY <1>1 DEF Pool!Exclusive, Pool!FakeOnlyWhenFull
  <1> QED
    BY <1>1, <1>2, <1>3 DEF PoolOK, Pool!TypeOK

(* The cases of a step: a connection gets a free handler, the program goes *)
(* down with every handler taken, or a connection gives its handler back.  *)
LEMMA PoolCases ==
  ASSUME Pool!TypeOK, NEW c \in Upload, Pool!make_svc_handler(c) \/ Pool!free_handler(c)
  PROVE  \/ \E i \in Pool!Handlers :
              /\ useFlag[i] = 0 /\ handler[c] = None
              /\ Pool!Give(c, i) /\ index' \in Pool!Handlers
         \/ /\ down' = TRUE /\ UNCHANGED <<useFlag, index, handler>>
            /\ \A i \in Pool!Handlers : useFlag[i] = 1
         \/ Pool!free_handler(c)
  <1> USE HandlerPoolAssumption DEF Pool!Handlers
  <1>1. CASE Pool!make_svc_handler(c) /\ Pool!FirstScan(c)
    BY <1>1 DEF Pool!make_svc_handler, Pool!FirstScan, Pool!First, Pool!Free, Pool!TypeOK
  <1>2. CASE Pool!make_svc_handler(c) /\ Pool!SecondScan(c)
    BY <1>2 DEF Pool!make_svc_handler, Pool!SecondScan, Pool!First, Pool!Free, Pool!TypeOK
  <1>3. CASE Pool!make_svc_handler(c) /\ Pool!Fake(c)
    <2>1. \A i \in Pool!Handlers : i \in index .. MAX_CMD_HANDLER_NUM - 1
                                \/ i \in 0 .. index - 1
      BY DEF Pool!TypeOK
    <2> QED
      BY <1>3, <2>1 DEF Pool!Fake, Pool!Free, Pool!TypeOK
  <1> QED
    BY <1>1, <1>2, <1>3 DEF Pool!make_svc_handler

LEMMA GiveOK ==
  ASSUME PoolOK, ~down, NEW c \in Upload, NEW i \in Pool!Handlers,
         useFlag[i] = 0, handler[c] = None, Pool!Give(c, i), index' \in Pool!Handlers
  PROVE  PoolOK'
  <1> USE DEF PoolOK, Pool!TypeOK, Pool!Exclusive, Pool!FakeOnlyWhenFull
  <1>0. None \notin Pool!Handlers
    BY HandlerPoolAssumption DEF Pool!Handlers
  <1>1. Pool!TypeOK'
    BY DEF Pool!Give
  <1>2. /\ \A d \in Upload : handler'[d] = IF d = c THEN i ELSE handler[d]
        /\ \A j \in Pool!Handlers : useFlag'[j] = IF j = i THEN 1 ELSE useFlag[j]
        /\ ~down'
    BY DEF Pool!Give
  <1>3. \A d \in Upload : handler[d] # i
    OBVIOUS
  <1>4. Pool!Exclusive' /\ Pool!FakeOnlyWhenFull'
    BY <1>0, <1>2, <1>3
  <1> QED
    BY <1>1, <1>4

LEMMA FreeOK ==
  ASSUME PoolOK, NEW c \in Upload, Pool!free_handler(c)
  PROVE  PoolOK'
  <1> USE DEF PoolOK, Pool!TypeOK, Pool!Exclusive, Pool!FakeOnlyWhenFull
  <1> DEFINE h == handler[c]
  <1>0. None \notin Pool!Handlers
    BY HandlerPoolAssumption DEF Pool!Handlers
  <1>1. Pool!TypeOK'
    BY DEF Pool!free_handler
  <1>2. /\ \A d \in Upload : handler'[d] = IF d = c THEN None ELSE handler[d]
        /\ \A j \in Pool!Handlers : useFlag'[j] = IF j = h THEN 0 ELSE useFlag[j]
        /\ ~down' /\ h # None
    BY DEF Pool!free_handler
  <1>3. \A d \in Upload : d # c => handler[d] # h
    BY <1>2
  <1>4. Pool!Exclusive' /\ Pool!FakeOnlyWhenFull'
    BY <1>0, <1>2, <1>3
  <1> QED
    BY <1>1, <1>4

LEMMA PoolSteps == PoolOK /\ [Pool!Next]_poolVars => PoolOK'
  <1> SUFFICES ASSUME PoolOK, [Pool!Next]_poolVars PROVE PoolOK'
    OBVIOUS
  <1> USE DEF PoolOK
  <1>1. CASE UNCHANGED poolVars
    BY <1>1 DEF poolVars, Pool!TypeOK, Pool!Exclusive, Pool!FakeOnlyWhenFull
  <1>2. ASSUME NEW c \in Upload, Pool!make_svc_handler(c) \/ Pool!free_handler(c)
        PROVE  PoolOK'
    <2>0. ~down
      BY <1>2 DEF Pool!make_svc_handler, Pool!free_handler
    <2>1. ASSUME NEW i \in Pool!Handlers, useFlag[i] = 0, handler[c] = None,
                 Pool!Give(c, i), index' \in Pool!Handlers
          PROVE  PoolOK'
      BY <2>0, <2>1, GiveOK
    <2>2. CASE /\ down' = TRUE /\ UNCHANGED <<useFlag, index, handler>>
               /\ \A i \in Pool!Handlers : useFlag[i] = 1
      BY <2>2 DEF Pool!TypeOK, Pool!Exclusive, Pool!FakeOnlyWhenFull
    <2>3. CASE Pool!free_handler(c)
      BY <2>3, FreeOK
    <2> QED
      BY <1>2, <2>1, <2>2, <2>3, PoolCases
  <1> QED
    BY <1>1, <1>2 DEF Pool!Next

(* For any pool and any clients, no two open connections share a handler,  *)
(* no handler leaks, and the two scans find a free handler whenever there  *)
(* is one.                                                                 *)
THEOREM PoolHolds == Pool!Spec => [](Pool!Exclusive /\ Pool!FakeOnlyWhenFull)
  <1>1. PoolOK => Pool!Exclusive /\ Pool!FakeOnlyWhenFull
    BY DEF PoolOK
  <1>2. PoolOK /\ [Pool!Next]_(Pool!vars) => PoolOK'
    BY PoolSteps DEF poolVars, Pool!vars
  <1> QED
    BY <1>1, <1>2, PoolInits, PTL DEF Pool!Spec

(* Every step of the proxy and the service is a step of the pool or leaves *)
(* it alone.                                                               *)
LEMMA StepOfPool == [Next]_vars => [Pool!Next]_poolVars
  <1>1. CASE UNCHANGED vars
    BY <1>1 DEF vars, serviceVars
  <1>2. ASSUME NEW u \in Upload, ConnectSocket(u) \/ RecvPlatformCmd(u)
        PROVE  Pool!Next
    BY <1>2 DEF ConnectSocket, RecvPlatformCmd, Pool!Next
  <1>3. ASSUME NEW u \in Upload,
               AcceptProc(u) \/ ClientProc(u), ~ConnectSocket(u)
        PROVE  UNCHANGED poolVars
    BY <1>3 DEF AcceptProc, ClientProc, NotConnected, HttpRequestExec, NoRequest,
                Validated, Logged, Failed, Nothing, CloseAgain, EndClient, serviceVars
  <1> QED
    BY <1>1, <1>2, <1>3 DEF Next

(* The proxy and the service use the pool of handlers as HandlerPool says  *)
(* its clients do.                                                         *)
THEOREM ImplementsPool == Spec => Pool!Spec
  <1>1. Init => Pool!Init
    BY DEF Init
  <1>2. [Next]_vars => [Pool!Next]_(Pool!vars)
    BY StepOfPool DEF poolVars, Pool!vars
  <1> QED
    BY <1>1, <1>2, PTL DEF Spec, Pool!Spec

(* With the threads of any number of uploads coming and going, the service *)
(* only uses the unset pointer while every handler has a connection.       *)
THEOREM FakeOnlyWhenFullHolds == Spec => []FakeOnlyWhenFull
  <1>1. Init => PoolOK
    BY PoolInits DEF Init
  <1>2. PoolOK /\ [Next]_vars => PoolOK'
    BY StepOfPool, PoolSteps
  <1>3. PoolOK => FakeOnlyWhenFull
    BY DEF PoolOK, FakeOnlyWhenFull
  <1> QED
    BY <1>1, <1>2, <1>3, PTL DEF Spec

-----------------------------------------------------------------------------
(* Types                                                                   *)

LEMMA TypeInit == Init => TypeOK
  <1> SUFFICES ASSUME Init PROVE TypeOK
    OBVIOUS
  <1> USE DEF Init
  <1>1. Pool!TypeOK
    BY PoolInits DEF PoolOK
  <1>2. buffer \in [Pool!Handlers -> Seq(Upload)]
    OBVIOUS
  <1>3. /\ socket \in [Upload -> Fd \cup {None}]
        /\ newSocket \in [Upload -> Fd \cup {None}]
        /\ web \in [Upload -> Fd \cup {None}]
        /\ retXml \in [Upload -> {"command", "none"}]
    OBVIOUS
  <1>4. file \in [Fd -> Object \cup {None}] /\ pc \in [Upload -> Places]
    BY DEF Places
  <1> QED
    BY <1>1, <1>2, <1>3, <1>4 DEF TypeOK

(* What a number is given out for.                                         *)
LEMMA GivesType ==
  ASSUME TypeOK, NEW f \in Fd, NEW kind \in {"in", "out", "web"}, NEW u \in Upload,
         Gives(f, <<kind, u>>)
  PROVE  file' \in [Fd -> Object \cup {None}]
  BY DEF Gives, TypeOK, Object

LEMMA CloseType ==
  ASSUME TypeOK, NEW u \in Upload, NEW f, CloseSocket(u, f)
  PROVE  file' \in [Fd -> Object \cup {None}] /\ crossed' \in BOOLEAN
  BY DEF CloseSocket, TypeOK

LEMMA AcceptType ==
  ASSUME TypeOK, NEW u \in Upload, AcceptProc(u)
  PROVE  TypeOK'
  <1> USE DEF AcceptProc, TypeOK
  <1>0. Pool!TypeOK'
    BY DEF serviceVars, poolVars, Pool!TypeOK
  <1>1. file' \in [Fd -> Object \cup {None}]
    BY GivesType
  <1>2. accepting' \in BOOLEAN
    OBVIOUS
  <1>3. pc' \in [Upload -> Places]
    BY DEF Goto, Places
  <1>4. socket' \in [Upload -> Fd \cup {None}] /\ lost' \subseteq Fd
    BY DEF Loses
  <1> QED
    BY <1>0, <1>1, <1>2, <1>3, <1>4 DEF serviceVars

LEMMA ConnectType ==
  ASSUME TypeOK, NEW u \in Upload, ConnectSocket(u), Pool!TypeOK'
  PROVE  TypeOK'
  <1> USE DEF ConnectSocket, TypeOK
  <1>1. file' \in [Fd -> Object \cup {None}]
    BY GivesType
  <1>2. pc' \in [Upload -> Places]
    BY DEF Goto, Places
  <1>3. newSocket' \in [Upload -> Fd \cup {None}]
    OBVIOUS
  <1>4. buffer' \in [Pool!Handlers -> Seq(Upload)]
    OBVIOUS
  <1> QED
    BY <1>1, <1>2, <1>3, <1>4

LEMMA RequestType ==
  ASSUME TypeOK, NEW u \in Upload, HttpRequestExec(u)
  PROVE  TypeOK'
  <1> USE DEF HttpRequestExec, TypeOK
  <1>0. Pool!TypeOK'
    BY DEF serviceVars, poolVars, Pool!TypeOK
  <1>1. file' \in [Fd -> Object \cup {None}]
    BY GivesType
  <1>2. pc' \in [Upload -> Places]
    BY DEF Goto, Places
  <1>3. web' \in [Upload -> Fd \cup {None}] /\ lost' \subseteq Fd
    BY DEF Loses
  <1> QED
    BY <1>0, <1>1, <1>2, <1>3 DEF serviceVars

(* The steps that close a number.                                          *)
LEMMA ClosingType ==
  ASSUME TypeOK, NEW u \in Upload,
         \/ NotConnected(u) \/ Validated(u) \/ Logged(u)
         \/ Failed(u) \/ Nothing(u) \/ CloseAgain(u)
  PROVE  TypeOK'
  <1> USE DEF NotConnected, Validated, Logged, Failed, Nothing, CloseAgain, TypeOK
  <1>0. Pool!TypeOK'
    BY DEF serviceVars, poolVars, Pool!TypeOK
  <1>1. file' \in [Fd -> Object \cup {None}] /\ crossed' \in BOOLEAN
    BY CloseType
  <1>2. pc' \in [Upload -> Places]
    BY DEF Goto, Places
  <1>3. /\ socket' \in [Upload -> Fd \cup {None}]
        /\ newSocket' \in [Upload -> Fd \cup {None}]
        /\ web' \in [Upload -> Fd \cup {None}]
    BY DEF numbers
  <1>4. retXml' \in [Upload -> {"command", "none"}]
    BY DEF Replies
  <1> QED
    BY <1>0, <1>1, <1>2, <1>3, <1>4 DEF serviceVars

LEMMA EndType ==
  ASSUME TypeOK, NEW u \in Upload, EndClient(u)
  PROVE  TypeOK'
  <1> USE DEF EndClient, TypeOK
  <1>0. Pool!TypeOK'
    BY DEF poolVars, Pool!TypeOK
  <1>1. file' \in [Fd -> Object \cup {None}]
    OBVIOUS
  <1>2. pc' \in [Upload -> Places]
    BY DEF Goto, Places
  <1>3. /\ socket' \in [Upload -> Fd \cup {None}]
        /\ newSocket' \in [Upload -> Fd \cup {None}]
    OBVIOUS
  <1>4. buffer' \in [Pool!Handlers -> Seq(Upload)]
    <2>1. CASE retXml[u] = "none"
      BY <2>1 DEF SocketWrite
    <2>2. CASE retXml[u] # "none"
      <3> DEFINE old == buffer[handler[u]]
      <3>1. \A i \in Pool!Handlers :
              buffer'[i] = IF i = handler[u] THEN Append(old, u) ELSE buffer[i]
        BY <2>2 DEF SocketWrite
      <3>2. handler[u] \in Pool!Handlers => Append(old, u) \in Seq(Upload)
        OBVIOUS
      <3>3. \A i \in Pool!Handlers : buffer'[i] \in Seq(Upload)
        BY <3>1, <3>2
      <3>4. buffer' = [i \in Pool!Handlers |-> buffer'[i]]
        BY <2>2 DEF SocketWrite
      <3> QED
        BY <3>3, <3>4
    <2> QED
      BY <2>1, <2>2
  <1> QED
    BY <1>0, <1>1, <1>2, <1>3, <1>4

LEMMA TypeStep == TypeOK /\ PoolOK /\ [Next]_vars => TypeOK'
  <1> SUFFICES ASSUME TypeOK, PoolOK, [Next]_vars PROVE TypeOK'
    OBVIOUS
  <1>0. Pool!TypeOK'
    BY StepOfPool, PoolSteps DEF PoolOK
  <1>1. CASE UNCHANGED vars
    BY <1>0, <1>1 DEF vars, serviceVars, numbers, TypeOK
  <1>2. ASSUME NEW u \in Upload, AcceptProc(u) \/ ClientProc(u) \/ RecvPlatformCmd(u)
        PROVE  TypeOK'
    <2>1. CASE NoRequest(u)
      BY <1>0, <2>1 DEF NoRequest, TypeOK, Goto, Places, serviceVars, numbers
    <2>2. CASE RecvPlatformCmd(u)
      BY <1>0, <2>2 DEF RecvPlatformCmd, TypeOK, numbers
    <2> QED
      BY <1>0, <1>2, <2>1, <2>2, AcceptType, ConnectType, RequestType, ClosingType,
         EndType DEF ClientProc
  <1> QED
    BY <1>1, <1>2 DEF Next

(* For any uploads, descriptors and pool, the variables keep their types;  *)
(* in particular a thread never holds what is no number of the table.      *)
THEOREM TypeCorrect == Spec => []TypeOK
  <1>1. Init => PoolOK
    BY PoolInits DEF Init
  <1>2. PoolOK /\ [Next]_vars => PoolOK'
    BY StepOfPool, PoolSteps
  <1> QED
    BY <1>1, <1>2, TypeInit, TypeStep, PTL DEF Spec
-----------------------------------------------------------------------------
(* The numbers                                                             *)

(* Which of its numbers a thread has, by where it is.                      *)
PlacesKnown ==
  \A u \in Upload :
    /\ socket[u] = None <=> pc[u] = "away"
    /\ newSocket[u] = None <=> pc[u] \in {"away", "create"}
    /\ web[u] = None <=> pc[u] \notin {"wait", "logWait", "again"}

(* A number left open is open for good, and no thread will close it, but   *)
(* one that is about to close it a second time.                            *)
LostStayOpen ==
  \A f \in lost :
    /\ file[f] # None
    /\ \A u \in Upload : /\ socket[u] # f /\ newSocket[u] # f
                         /\ web[u] = f => pc[u] = "again"

(* A thread about to close a number again has no connection there.         *)
AgainOfAnother ==
  \A u \in Upload :
    pc[u] = "again" /\ file[web[u]] # None => file[web[u]][2] # u

(* Every number not lost is open on what some thread takes it for.         *)
Matches ==
  \A f \in Fd \ lost, u \in Upload :
    /\ file[f] = <<"in", u>> <=> socket[u] = f
    /\ file[f] = <<"out", u>> <=> newSocket[u] = f
    /\ file[f] = <<"web", u>> <=> web[u] = f /\ pc[u] # "again"

NumbersInv ==
  /\ PlacesKnown
  /\ ~crossed => LostStayOpen /\ AgainOfAnother /\ Matches

LEMMA NumbersInit == Init => NumbersInv
  BY ParkAssumption DEF Init, NumbersInv, PlacesKnown, LostStayOpen, AgainOfAnother,
     Matches, Object

LEMMA Objects ==
  /\ \A f \in Fd : f # None
  /\ \A k \in {"in", "out", "web"}, u \in Upload :
       <<k, u>> # None /\ <<k, u>> \in Object /\ <<k, u>>[2] = u
  BY ParkAssumption DEF Object

(* A number that is open on nothing is known to no thread, but to those    *)
(* that have closed it once.                                               *)
LEMMA FreeUnknown ==
  ASSUME TypeOK, LostStayOpen, Matches, NEW f \in Fd, file[f] = None
  PROVE  /\ f \notin lost
         /\ \A v \in Upload : /\ socket[v] # f /\ newSocket[v] # f
                              /\ web[v] = f => pc[v] = "again"
  <1>1. f \notin lost
    BY DEF LostStayOpen
  <1> QED
    BY <1>1, Objects DEF Matches

LEMMA AcceptNumbers ==
  ASSUME TypeOK, NumbersInv, ~crossed, NEW u \in Upload, AcceptProc(u)
  PROVE  NumbersInv'
  <1> USE DEF NumbersInv
  <1>0. ~crossed' /\ UNCHANGED <<newSocket, web>> /\ pc[u] = "away"
    BY DEF AcceptProc
  <1>1. ASSUME NEW f \in Fd, Gives(f, <<"in", u>>),
               \/ socket' = [socket EXCEPT ![u] = f] /\ Goto(u, "create") /\ UNCHANGED lost
               \/ Loses(f) /\ UNCHANGED <<socket, pc>>
        PROVE  NumbersInv'
    <2> DEFINE known == lost' = lost
    <2>1. /\ file[f] = None
          /\ \A g \in Fd : file'[g] = IF g = f THEN <<"in", u>> ELSE file[g]
      BY <1>1 DEF Gives, TypeOK
    <2>2. /\ f \notin lost
          /\ \A v \in Upload : /\ socket[v] # f /\ newSocket[v] # f
                               /\ web[v] = f => pc[v] = "again"
      BY <2>1, FreeUnknown
    <2>3. \/ /\ \A v \in Upload : socket'[v] = IF v = u THEN f ELSE socket[v]
             /\ \A v \in Upload : pc'[v] = IF v = u THEN "create" ELSE pc[v]
             /\ lost' = lost
          \/ lost' = lost \cup {f} /\ UNCHANGED <<socket, pc>>
      BY <1>1 DEF Goto, Loses, TypeOK
    <2>4. socket[u] = None /\ newSocket[u] = None /\ web[u] = None
      BY <1>0 DEF PlacesKnown
    <2>5. f # None /\ <<"in", u>> # None /\ <<"in", u>>[2] = u
      BY Objects
    <2>6. PlacesKnown'
      BY <1>0, <2>3, <2>4, <2>5 DEF PlacesKnown
    <2>7. LostStayOpen'
      BY <1>0, <2>1, <2>2, <2>3, <2>5 DEF LostStayOpen, TypeOK
    <2>8. AgainOfAnother'
      <3> SUFFICES ASSUME NEW v \in Upload, pc'[v] = "again", file'[web[v]] # None
                   PROVE  file'[web[v]][2] # v
        BY <1>0 DEF AgainOfAnother
      <3>1. pc[v] = "again" /\ v # u
        BY <1>0, <2>3
      <3>2. web[v] \in Fd
        BY <3>1 DEF PlacesKnown, TypeOK
      <3> QED
        BY <2>1, <2>5, <3>1, <3>2 DEF AgainOfAnother
    <2>9. Matches'
      BY <1>0, <2>1, <2>2, <2>3, <2>4, <2>5 DEF Matches
    <2> QED
      BY <2>6, <2>7, <2>8, <2>9
  <1>2. CASE UNCHANGED <<file, pc, socket, lost>>
    BY <1>0, <1>2 DEF PlacesKnown, LostStayOpen, AgainOfAnother, Matches
  <1> QED
    BY <1>1, <1>2 DEF AcceptProc
(* The number a thread is about to close again is not given to the thread  *)
(* itself.                                                                 *)
LEMMA GivenToAnother ==
  ASSUME TypeOK, PlacesKnown, AgainOfAnother,
         NEW u \in Upload, NEW f \in Fd, NEW kind \in {"in", "out", "web"},
         Gives(f, <<kind, u>>),
         \A v \in Upload : pc'[v] = "again" => pc[v] = "again" /\ v # u,
         \A v \in Upload : v # u => web'[v] = web[v]
  PROVE  AgainOfAnother'
  <1> SUFFICES ASSUME NEW v \in Upload, pc'[v] = "again", file'[web'[v]] # None
               PROVE  file'[web'[v]][2] # v
    BY DEF AgainOfAnother
  <1>1. pc[v] = "again" /\ v # u /\ web'[v] = web[v]
    OBVIOUS
  <1>2. web[v] \in Fd
    BY <1>1 DEF PlacesKnown, TypeOK
  <1>3. \A g \in Fd : file'[g] = IF g = f THEN <<kind, u>> ELSE file[g]
    BY DEF Gives, TypeOK
  <1> QED
    BY <1>1, <1>2, <1>3, Objects DEF AgainOfAnother

LEMMA ConnectNumbers ==
  ASSUME TypeOK, NumbersInv, ~crossed, NEW u \in Upload, ConnectSocket(u)
  PROVE  NumbersInv'
  <1> USE DEF NumbersInv
  <1>0. ~crossed' /\ UNCHANGED <<socket, web, lost>> /\ pc[u] = "create"
    BY DEF ConnectSocket
  <1>1. PICK f \in Fd : /\ Gives(f, <<"out", u>>)
                        /\ newSocket' = [newSocket EXCEPT ![u] = f]
    BY DEF ConnectSocket
  <1>2. /\ file[f] = None
        /\ \A g \in Fd : file'[g] = IF g = f THEN <<"out", u>> ELSE file[g]
    BY <1>1 DEF Gives, TypeOK
  <1>3. /\ f \notin lost
        /\ \A v \in Upload : /\ socket[v] # f /\ newSocket[v] # f
                             /\ web[v] = f => pc[v] = "again"
    BY <1>2, FreeUnknown
  <1>4. /\ \A v \in Upload : newSocket'[v] = IF v = u THEN f ELSE newSocket[v]
        /\ \A v \in Upload : pc'[v] = IF v = u THEN "request" ELSE pc[v]
    BY <1>1 DEF ConnectSocket, Goto, TypeOK
  <1>5. newSocket[u] = None /\ web[u] = None
    BY <1>0 DEF PlacesKnown
  <1>6. f # None /\ <<"out", u>> # None
    BY Objects
  <1>7. PlacesKnown'
    BY <1>0, <1>4, <1>5, <1>6 DEF PlacesKnown
  <1>8. LostStayOpen'
    BY <1>0, <1>2, <1>3, <1>4, <1>6 DEF LostStayOpen, TypeOK
  <1>9. AgainOfAnother'
    BY <1>0, <1>1, <1>4, GivenToAnother
  <1>10. Matches'
    BY <1>0, <1>2, <1>3, <1>4, <1>5, <1>6 DEF Matches
  <1> QED
    BY <1>7, <1>8, <1>9, <1>10

LEMMA RequestNumbers ==
  ASSUME TypeOK, NumbersInv, ~crossed, NEW u \in Upload, HttpRequestExec(u)
  PROVE  NumbersInv'
  <1> USE DEF NumbersInv
  <1>0. ~crossed' /\ UNCHANGED <<socket, newSocket>> /\ pc[u] \in {"request", "log"}
    BY DEF HttpRequestExec
  <1>1. PICK f \in Fd :
          /\ Gives(f, <<"web", u>>)
          /\ \/ /\ web' = [web EXCEPT ![u] = f]
                /\ Goto(u, "wait") \/ Goto(u, "logWait")
                /\ lost' = lost
             \/ Loses(f) /\ Goto(u, "finish") /\ UNCHANGED web
    BY DEF HttpRequestExec
  <1>2. /\ file[f] = None
        /\ \A g \in Fd : file'[g] = IF g = f THEN <<"web", u>> ELSE file[g]
    BY <1>1 DEF Gives, TypeOK
  <1>3. /\ f \notin lost
        /\ \A v \in Upload : /\ socket[v] # f /\ newSocket[v] # f
                             /\ web[v] = f => pc[v] = "again"
    BY <1>2, FreeUnknown
  <1>4. /\ \A v \in Upload : v # u => pc'[v] = pc[v] /\ web'[v] = web[v]
        /\ \/ pc'[u] \in {"wait", "logWait"} /\ web'[u] = f /\ lost' = lost
           \/ pc'[u] = "finish" /\ web'[u] = web[u] /\ lost' = lost \cup {f}
    BY <1>1 DEF Goto, Loses, TypeOK
  <1>5. socket[u] # None /\ newSocket[u] # None /\ web[u] = None
    BY <1>0 DEF PlacesKnown
  <1>6. f # None /\ <<"web", u>> # None
    BY Objects
  <1>7. PlacesKnown'
    BY <1>0, <1>4, <1>5, <1>6 DEF PlacesKnown
  <1>8. LostStayOpen'
    BY <1>0, <1>2, <1>3, <1>4, <1>5, <1>6 DEF LostStayOpen, TypeOK
  <1>9. AgainOfAnother'
    BY <1>0, <1>1, <1>4, GivenToAnother
  <1>10. Matches'
    <2> SUFFICES ASSUME NEW g \in Fd \ lost', NEW v \in Upload
                 PROVE  /\ file'[g] = <<"in", v>> <=> socket[v] = g
                        /\ file'[g] = <<"out", v>> <=> newSocket[v] = g
                        /\ file'[g] = <<"web", v>> <=> web'[v] = g /\ pc'[v] # "again"
      BY <1>0 DEF Matches
    <2>1. g \notin lost
      BY <1>4
    <2>2. CASE g # f
      BY <1>2, <1>4, <1>5, <1>6, <2>1, <2>2, Objects DEF Matches
    <2>3. CASE g = f
      BY <1>2, <1>3, <1>4, <1>5, <2>3, Objects
    <2> QED
      BY <2>2, <2>3
  <1> QED
    BY <1>7, <1>8, <1>9, <1>10

(* The web service's connection is closed for the last time, or for the    *)
(* first of two: it is the thread's own.                                   *)
LEMMA WebClosed ==
  ASSUME TypeOK, NumbersInv, ~crossed, NEW u \in Upload,
         Validated(u) \/ Logged(u) \/ Failed(u) \/ Nothing(u)
  PROVE  NumbersInv'
  <1> USE DEF NumbersInv
  <1>0. /\ CloseSocket(u, web[u]) /\ UNCHANGED <<socket, newSocket, lost>>
        /\ pc[u] \in {"wait", "logWait"}
    BY DEF Validated, Logged, Failed, Nothing, numbers
  <1>1. /\ \A v \in Upload : v # u => pc'[v] = pc[v] /\ web'[v] = web[v]
        /\ \/ pc'[u] \in {"log", "finish"} /\ web'[u] = None
           \/ pc'[u] = "again" /\ web'[u] = web[u]
    BY DEF Validated, Logged, Failed, Nothing, numbers, Goto, TypeOK
  <1>2. web[u] \in Fd /\ web[u] \notin lost /\ file[web[u]] = <<"web", u>>
    BY <1>0, Objects DEF PlacesKnown, LostStayOpen, Matches, TypeOK
  <1>3. ~crossed' /\ \A g \in Fd : file'[g] = IF g = web[u] THEN None ELSE file[g]
    BY <1>0, <1>2, Objects DEF CloseSocket, TypeOK
  <1>4. socket[u] # None /\ newSocket[u] # None /\ web[u] # None
    BY <1>0 DEF PlacesKnown
  <1>5. \A v \in Upload :
          /\ socket[v] # web[u] /\ newSocket[v] # web[u]
          /\ v # u /\ web[v] = web[u] => pc[v] = "again"
    BY <1>2 DEF Matches
  <1>6. PlacesKnown'
    BY <1>0, <1>1, <1>4 DEF PlacesKnown
  <1>7. LostStayOpen'
    BY <1>0, <1>1, <1>2, <1>3, Objects DEF LostStayOpen, TypeOK
  <1>8. AgainOfAnother'
    <2> SUFFICES ASSUME NEW v \in Upload, pc'[v] = "again", file'[web'[v]] # None
                 PROVE  file'[web'[v]][2] # v
      BY DEF AgainOfAnother
    <2>1. v # u
      BY <1>1, <1>2, <1>3
    <2>2. pc[v] = "again" /\ web'[v] = web[v] /\ web[v] \in Fd
      BY <1>1, <2>1 DEF PlacesKnown, TypeOK
    <2> QED
      BY <1>3, <2>2 DEF AgainOfAnother
  <1>9. Matches'
    <2> SUFFICES ASSUME NEW g \in Fd \ lost, NEW v \in Upload
                 PROVE  /\ file'[g] = <<"in", v>> <=> socket[v] = g
                        /\ file'[g] = <<"out", v>> <=> newSocket[v] = g
                        /\ file'[g] = <<"web", v>> <=> web'[v] = g /\ pc'[v] # "again"
      BY <1>0 DEF Matches
    <2>1. CASE g # web[u]
      BY <1>0, <1>1, <1>3, <2>1, Objects DEF Matches
    <2>2. CASE g = web[u]
      BY <1>1, <1>3, <1>5, <2>2, Objects
    <2> QED
      BY <2>1, <2>2
  <1> QED
    BY <1>6, <1>7, <1>8, <1>9
(* The second closing: of nothing, or of another thread's connection.      *)
LEMMA ClosedAgain ==
  ASSUME TypeOK, NumbersInv, ~crossed, NEW u \in Upload, CloseAgain(u)
  PROVE  NumbersInv'
  <1> USE DEF NumbersInv
  <1>0. /\ CloseSocket(u, web[u]) /\ UNCHANGED <<socket, newSocket, lost>>
        /\ pc[u] = "again"
    BY DEF CloseAgain
  <1>1. /\ \A v \in Upload : pc'[v] = IF v = u THEN "finish" ELSE pc[v]
        /\ \A v \in Upload : web'[v] = IF v = u THEN None ELSE web[v]
    BY DEF CloseAgain, Goto, TypeOK
  <1>2. web[u] \in Fd
    BY <1>0 DEF PlacesKnown, TypeOK
  <1>3. PlacesKnown'
    BY <1>0, <1>1 DEF PlacesKnown
  <1>4. CASE file[web[u]] # None
    BY <1>0, <1>2, <1>3, <1>4 DEF CloseSocket, AgainOfAnother
  <1>5. CASE file[web[u]] = None
    <2>1. ~crossed' /\ file' = file
      BY <1>0, <1>2, <1>5 DEF CloseSocket, TypeOK
    <2>2. LostStayOpen'
      BY <1>0, <1>1, <2>1, Objects DEF LostStayOpen, TypeOK
    <2>3. AgainOfAnother'
      BY <1>1, <2>1 DEF AgainOfAnother
    <2>4. Matches'
      BY <1>0, <1>1, <2>1, Objects DEF Matches
    <2> QED
      BY <1>3, <2>2, <2>3, <2>4
  <1> QED
    BY <1>4, <1>5

(* The end of a thread, or of one that never connected back: it closes its *)
(* own connections.                                                        *)
LEMMA ThreadEnds ==
  ASSUME TypeOK, NumbersInv, ~crossed, NEW u \in Upload,
         NotConnected(u) \/ EndClient(u)
  PROVE  NumbersInv'
  <1> USE DEF NumbersInv
  <1>0. UNCHANGED <<web, lost>> /\ web[u] = None /\ pc[u] \in {"create", "finish"}
    BY DEF NotConnected, EndClient, PlacesKnown
  <1>1. /\ socket[u] \in Fd /\ socket[u] \notin lost /\ file[socket[u]] = <<"in", u>>
        /\ newSocket[u] # None => newSocket[u] \in Fd /\ newSocket[u] \notin lost
                                  /\ file[newSocket[u]] = <<"out", u>>
    BY <1>0, Objects DEF PlacesKnown, LostStayOpen, Matches, TypeOK
  <1>2. /\ \A v \in Upload : socket'[v] = IF v = u THEN None ELSE socket[v]
        /\ \A v \in Upload : newSocket'[v] = IF v = u THEN None ELSE newSocket[v]
        /\ \A v \in Upload : pc'[v] = IF v = u THEN "away" ELSE pc[v]
    BY DEF NotConnected, EndClient, Goto, PlacesKnown, TypeOK
  <1>3. /\ ~crossed'
        /\ \A g \in Fd : file'[g] = IF g \in {newSocket[u], socket[u]} THEN None ELSE file[g]
    <2>1. CASE NotConnected(u)
      <3>1. newSocket[u] = None
        BY <2>1 DEF NotConnected, PlacesKnown
      <3> QED
        BY <1>1, <2>1, <3>1, Objects DEF NotConnected, CloseSocket, TypeOK
    <2>2. CASE EndClient(u)
      BY <2>2 DEF EndClient
    <2> QED
      BY <2>1, <2>2
  <1>4. PlacesKnown'
    BY <1>0, <1>2 DEF PlacesKnown
  <1>5. LostStayOpen'
    BY <1>0, <1>1, <1>2, <1>3, Objects DEF LostStayOpen, TypeOK
  <1>6. AgainOfAnother'
    <2> SUFFICES ASSUME NEW v \in Upload, pc'[v] = "again", file'[web[v]] # None
                 PROVE  file'[web[v]][2] # v
      BY <1>0 DEF AgainOfAnother
    <2>1. pc[v] = "again" /\ web[v] \in Fd
      BY <1>2 DEF PlacesKnown, TypeOK
    <2> QED
      BY <1>3, <2>1 DEF AgainOfAnother
  <1>7. Matches'
    <2> SUFFICES ASSUME NEW g \in Fd \ lost, NEW v \in Upload
                 PROVE  /\ file'[g] = <<"in", v>> <=> socket'[v] = g
                        /\ file'[g] = <<"out", v>> <=> newSocket'[v] = g
                        /\ file'[g] = <<"web", v>> <=> web[v] = g /\ pc'[v] # "again"
      BY <1>0 DEF Matches
    <2>1. CASE g \notin {newSocket[u], socket[u]}
      BY <1>0, <1>2, <1>3, <2>1, Objects DEF Matches
    <2>2. CASE g \in {newSocket[u], socket[u]}
      <3>1. file'[g] = None /\ file[g] \in {<<"in", u>>, <<"out", u>>}
        BY <1>1, <1>3, <2>2, Objects
      <3>2. \A w \in Upload : w # u => socket[w] # g /\ newSocket[w] # g
        BY <3>1 DEF Matches
      <3>3. ~ (web[v] = g /\ pc[v] # "again")
        BY <3>1 DEF Matches
      <3> QED
        BY <1>0, <1>2, <3>1, <3>2, <3>3, Objects
    <2> QED
      BY <2>1, <2>2
  <1> QED
    BY <1>4, <1>5, <1>6, <1>7

LEMMA NumbersStep == TypeOK /\ NumbersInv /\ [Next]_vars => NumbersInv'
  <1> SUFFICES ASSUME TypeOK, NumbersInv, [Next]_vars PROVE NumbersInv'
    OBVIOUS
  <1>1. CASE UNCHANGED vars
    BY <1>1 DEF vars, numbers, NumbersInv, PlacesKnown, LostStayOpen, AgainOfAnother, Matches
  <1>2. ASSUME ~crossed, NEW u \in Upload,
               AcceptProc(u) \/ ClientProc(u) \/ RecvPlatformCmd(u)
        PROVE  NumbersInv'
    <2>1. CASE NoRequest(u)
      <3>1. /\ \A v \in Upload : pc'[v] = IF v = u THEN "finish" ELSE pc[v]
            /\ pc[u] \in {"request", "log"}
            /\ UNCHANGED <<file, socket, newSocket, web, lost, crossed>>
        BY <2>1 DEF NoRequest, Goto, numbers, TypeOK
      <3> QED
        BY <3>1 DEF NumbersInv, PlacesKnown, LostStayOpen, AgainOfAnother, Matches
    <2>2. CASE RecvPlatformCmd(u)
      BY <2>2 DEF RecvPlatformCmd, numbers, NumbersInv, PlacesKnown, LostStayOpen,
                  AgainOfAnother, Matches
    <2> QED
      BY <1>2, <2>1, <2>2, AcceptNumbers, ConnectNumbers, RequestNumbers, WebClosed,
         ClosedAgain, ThreadEnds DEF ClientProc
  <1> QED
    BY <1>1, <1>2 DEF Next

LEMMA InvInductive ==
  /\ Init => PoolOK /\ TypeOK /\ NumbersInv
  /\ PoolOK /\ TypeOK /\ NumbersInv /\ [Next]_vars => PoolOK' /\ TypeOK' /\ NumbersInv'
  <1>1. Init => PoolOK
    BY PoolInits DEF Init
  <1>2. PoolOK /\ [Next]_vars => PoolOK'
    BY StepOfPool, PoolSteps
  <1> QED
    BY <1>1, <1>2, TypeInit, TypeStep, NumbersInit, NumbersStep

(* For any number of threads and descriptors: until a second close crosses *)
(* connections, no number leaks but those the code leaves open, and no     *)
(* thread takes a number for a connection that is not on it.               *)
THEOREM NumbersAccountedHolds == Spec => []NumbersAccounted
  <1>1. NumbersInv => NumbersAccounted
    BY DEF NumbersInv, NumbersAccounted, PlacesKnown, Matches
  <1> QED
    BY <1>1, InvInductive, PTL DEF Spec
-----------------------------------------------------------------------------
(* The answers                                                             *)

(* What the handler of an upload's connection back has in its buffer.      *)
Buffered ==
  \A u \in Upload :
    /\ handler[u] # None =>
         /\ pc[u] # "create"
         /\ buffer[handler[u]] =
              IF pc[u] = "away" /\ retXml[u] = "command" THEN <<u>> ELSE <<>>
    /\ handler[u] = None => pc[u] \in {"away", "create"} \/ down

LEMMA BufferedInit == Init => Buffered
  BY DEF Init, Buffered, Pool!Init

(* A connection back gets a handler no other has, with nothing in it.      *)
LEMMA ConnectBuffered ==
  ASSUME TypeOK, Pool!Exclusive, Buffered, NEW u \in Upload, ConnectSocket(u),
         Pool!TypeOK', Pool!Exclusive'
  PROVE  Buffered'
  <1>1. /\ \A v \in Upload : pc'[v] = IF v = u THEN "request" ELSE pc[v]
        /\ \A v \in Upload : v # u => handler'[v] = handler[v]
        /\ \A i \in Pool!Handlers : buffer'[i] = IF i = handler'[u] THEN <<>> ELSE buffer[i]
        /\ retXml' = retXml
    BY DEF ConnectSocket, Goto, TypeOK, Pool!make_svc_handler, Pool!FirstScan,
           Pool!SecondScan, Pool!Fake, Pool!Give, Pool!TypeOK
  <1>2. handler'[u] = None => down'
    BY HandlerPoolAssumption
       DEF ConnectSocket, TypeOK, Pool!make_svc_handler, Pool!FirstScan,
           Pool!SecondScan, Pool!Fake, Pool!Give, Pool!TypeOK, Pool!Handlers
  <1>3. down => down'
    BY DEF ConnectSocket, Pool!make_svc_handler
  <1>4. ASSUME NEW v \in Upload, v # u, handler[v] # None
        PROVE  handler[v] # handler'[u] /\ handler[v] \in Pool!Handlers
    BY <1>1, <1>4 DEF Pool!Exclusive, Pool!TypeOK, TypeOK
  <1>5. handler'[u] # None => handler'[u] \in Pool!Handlers
    BY DEF Pool!TypeOK
  <1>6. ASSUME NEW v \in Upload, v # u
        PROVE  Buffered!(v)'
    BY <1>1, <1>3, <1>4, <1>6 DEF Buffered
  <1>7. Buffered!(u)'
    BY <1>1, <1>2, <1>5
  <1> QED
    BY <1>6, <1>7 DEF Buffered

(* The end of a thread puts its command, if any, in its own handler.       *)
LEMMA EndBuffered ==
  ASSUME TypeOK, Pool!Exclusive, Buffered, ~down, NEW u \in Upload, EndClient(u)
  PROVE  Buffered'
  <1>1. /\ pc[u] = "finish" /\ retXml' = retXml /\ handler' = handler /\ down' = down
        /\ \A v \in Upload : pc'[v] = IF v = u THEN "away" ELSE pc[v]
    BY DEF EndClient, Goto, TypeOK, poolVars
  <1>2. handler[u] \in Pool!Handlers /\ handler[u] # None /\ buffer[handler[u]] = <<>>
    BY <1>1 DEF Buffered, TypeOK, Pool!TypeOK
  <1>3. \A i \in Pool!Handlers :
          buffer'[i] = IF i = handler[u] /\ retXml[u] # "none" THEN <<u>> ELSE buffer[i]
    <2>1. CASE retXml[u] = "none"
      BY <2>1 DEF EndClient, SocketWrite
    <2>2. CASE retXml[u] # "none"
      <3>1. buffer' = [buffer EXCEPT ![handler[u]] = Append(buffer[handler[u]], u)]
        BY <2>2 DEF EndClient, SocketWrite
      <3>2. Append(<<>>, u) = <<u>>
        OBVIOUS
      <3> QED
        BY <1>2, <2>2, <3>1, <3>2 DEF TypeOK
    <2> QED
      BY <2>1, <2>2
  <1>4. ASSUME NEW v \in Upload, v # u, handler[v] # None
        PROVE  handler[v] # handler[u] /\ handler[v] \in Pool!Handlers
    BY <1>2, <1>4 DEF Pool!Exclusive, Pool!TypeOK, TypeOK
  <1>5. retXml[u] # "none" <=> retXml[u] = "command"
    BY DEF TypeOK
  <1> QED
    BY <1>1, <1>2, <1>3, <1>4, <1>5 DEF Buffered

(* A connection back only ends once its thread has.                        *)
LEMMA EndedAway ==
  ASSUME TypeOK, NumbersInv, Buffered, ~crossed, NEW u \in Upload, RecvPlatformCmd(u)
  PROVE  pc[u] = "away" /\ handler[u] # None
  <1>1. handler[u] # None /\ pc[u] # "create"
    BY DEF RecvPlatformCmd, Pool!free_handler, Buffered
  <1>2. newSocket[u] \notin Fd
    <2> SUFFICES ASSUME newSocket[u] \in Fd PROVE FALSE
      OBVIOUS
    <2>1. newSocket[u] \notin lost
      BY DEF NumbersInv, LostStayOpen
    <2>2. file[newSocket[u]] = <<"out", u>>
      BY <2>1 DEF NumbersInv, Matches
    <2> QED
      BY <2>2 DEF RecvPlatformCmd
  <1> QED
    BY <1>1, <1>2 DEF NumbersInv, PlacesKnown, TypeOK

LEMMA BufferedStep ==
  PoolOK /\ TypeOK /\ NumbersInv /\ Buffered /\ [Next]_vars => Buffered'
  <1> SUFFICES ASSUME PoolOK, TypeOK, NumbersInv, Buffered, [Next]_vars
               PROVE  Buffered'
    OBVIOUS
  <1>0. Pool!Exclusive /\ Pool!Exclusive' /\ Pool!TypeOK'
    BY StepOfPool, PoolSteps DEF PoolOK
  <1>1. CASE UNCHANGED vars
    BY <1>1 DEF vars, serviceVars, poolVars, Buffered
  <1>2. ASSUME ~crossed, ~down, NEW u \in Upload,
               AcceptProc(u) \/ ClientProc(u) \/ RecvPlatformCmd(u)
        PROVE  Buffered'
    <2>1. CASE AcceptProc(u)
      <3>1. /\ UNCHANGED <<handler, buffer, retXml, down>> /\ handler[u] = None
            /\ \A v \in Upload : v # u => pc'[v] = pc[v]
            /\ pc'[u] \in {"away", "create"}
        BY <2>1 DEF AcceptProc, Goto, TypeOK, serviceVars, poolVars
      <3> QED
        BY <3>1 DEF Buffered
    <2>2. CASE NotConnected(u)
      <3>1. /\ UNCHANGED <<handler, buffer, retXml, down>> /\ pc[u] = "create"
            /\ \A v \in Upload : pc'[v] = IF v = u THEN "away" ELSE pc[v]
        BY <2>2 DEF NotConnected, Goto, TypeOK, serviceVars, poolVars
      <3> QED
        BY <3>1 DEF Buffered
    <2>3. CASE \/ HttpRequestExec(u) \/ NoRequest(u) \/ Validated(u) \/ Logged(u)
               \/ Failed(u) \/ Nothing(u) \/ CloseAgain(u)
      <3>1. /\ UNCHANGED <<handler, buffer, down>> /\ pc[u] \notin {"away", "create"}
            /\ \A v \in Upload : v # u => pc'[v] = pc[v] /\ retXml'[v] = retXml[v]
            /\ pc'[u] \notin {"away", "create"}
        BY <2>3 DEF HttpRequestExec, NoRequest, Validated, Logged, Failed, Nothing,
                    CloseAgain, Goto, TypeOK, serviceVars, poolVars
      <3> QED
        BY <3>1 DEF Buffered
    <2>4. CASE RecvPlatformCmd(u)
      <3>1. pc[u] = "away"
        BY <1>2, <2>4, EndedAway
      <3>2. /\ UNCHANGED <<pc, buffer, down>>
            /\ \A v \in Upload : handler'[v] = IF v = u THEN None ELSE handler[v]
            /\ \A v \in Upload : v # u => retXml'[v] = retXml[v]
        BY <2>4 DEF RecvPlatformCmd, Pool!free_handler, TypeOK, Pool!TypeOK
      <3> QED
        BY <3>1, <3>2 DEF Buffered
    <2> QED
      BY <1>0, <1>2, <2>1, <2>2, <2>3, <2>4, ConnectBuffered, EndBuffered DEF ClientProc
  <1> QED
    BY <1>1, <1>2 DEF Next

(* For any number of uploads at a time, the end of a connection back hands *)
(* on just what the thread of its own upload wrote.                        *)
THEOREM AnsweredAloneHolds == Spec => AnsweredAlone
  <1> DEFINE Alone ==
        \A u \in Upload :
          handler[u] # None /\ handler'[u] = None =>
            buffer[handler[u]] = IF retXml[u] = "command" THEN <<u>> ELSE <<>>
  <1>1. TypeOK /\ NumbersInv /\ Buffered /\ [Next]_vars => [Alone]_vars
    <2> SUFFICES ASSUME TypeOK, NumbersInv, Buffered, Next,
                        NEW u \in Upload, handler[u] # None, handler'[u] = None
                 PROVE  buffer[handler[u]] = IF retXml[u] = "command" THEN <<u>> ELSE <<>>
      OBVIOUS
    <2>1. PICK v \in Upload : AcceptProc(v) \/ ClientProc(v) \/ RecvPlatformCmd(v)
      BY DEF Next
    <2>2. CASE RecvPlatformCmd(v)
      <3>1. v = u
        BY <2>2 DEF RecvPlatformCmd, Pool!free_handler, TypeOK, Pool!TypeOK
      <3> QED
        BY <2>2, <3>1, EndedAway DEF Next, Buffered
    <2>3. CASE ConnectSocket(v)
      BY <2>3, HandlerPoolAssumption
         DEF ConnectSocket, Pool!make_svc_handler, Pool!FirstScan, Pool!SecondScan,
             Pool!Fake, Pool!Give, TypeOK, Pool!TypeOK, Pool!Handlers
    <2>4. CASE ~RecvPlatformCmd(v) /\ ~ConnectSocket(v)
      BY <2>1, <2>4 DEF AcceptProc, ClientProc, NotConnected, HttpRequestExec, NoRequest,
         Validated, Logged, Failed, Nothing, CloseAgain, EndClient, serviceVars, poolVars
    <2> QED
      BY <2>2, <2>3, <2>4
  <1>2. Spec => [](PoolOK /\ TypeOK /\ NumbersInv /\ Buffered)
    BY InvInductive, BufferedInit, BufferedStep, PTL DEF Spec
  <1>3. Spec => [][Alone]_vars
    BY <1>1, <1>2, PTL DEF Spec
  <1> QED
    BY <1>3 DEF AnsweredAlone
=============================================================================
