------------------------ MODULE MasterElectionProofs ------------------------
(***************************************************************************)
(* Proofs about MasterElection for any number of workers, of managers up   *)
(* to the four that are asked, and of faults.                              *)
(*                                                                         *)
(* Why a search finds a steady master: Tracked.  The search has not passed *)
(* the turn of any manager that was master and reachable since it began,   *)
(* and it has counted no more answers than it has asked questions.  With   *)
(* it a mainhost that acts as master is found by every search, so workers  *)
(* know no other manager, and no other gets a heartbeat: Heeded.           *)
(***************************************************************************)
EXTENDS MasterElection, TLAPS

(* How far a search has gone that began after k became master.             *)
Ahead(w, k) ==
  /\ k \in Masters(w)
  /\ nTimes[w] <= 2 * k
  /\ nLoopTotal[w] <= nTimes[w]
  /\ ~ethStatus[w] => nTimes[w] = 0

Tracked ==
  \A w \in Worker :
    /\ pc[w] # "search" => steady[w] = {}
    /\ \A k \in steady[w] : Ahead(w, k)

(* Nobody is cut off, and a mainhost seen without its card is not master.  *)
Calm ==
  /\ \A m \in Manager : alive[m]
  /\ \A w \in Worker : cable[w]
  /\ noticed[Main] => ~strMaster[Main]

(* Workers and managers know no master but the mainhost.                   *)
Heeded ==
  /\ \A m \in Manager : strMaster[m] => m = Main
  /\ reports \subseteq {Main}
  /\ \A w \in Worker :
       IF pc[w] = "search" THEN Main \in steady[w] ELSE strMasterIP[w] = Main

Undisputed == ~disturbed => Calm /\ (Acting(Main) => Heeded)

IInv == TypeOK /\ Tracked /\ Undisputed

-----------------------------------------------------------------------------
(* What a manager's number says of its place in a search.                  *)
LEMMA Places ==
  /\ Manager \subseteq Int
  /\ Main \in Manager
  /\ \A k \in Manager : k >= 0 /\ k <= Size - 1 /\ k # None
  /\ Size \in Nat /\ Patience \in Nat /\ Patience >= 2 * (Size - 1)
  BY ElectionAssumption DEF Manager, None

(* The choice after the last master is a manager.                          *)
LEMMA NextIsManager ==
  ASSUME NEW m \in Manager \cup {None}
  PROVE  NextManager(m) \in Manager
  BY ElectionAssumption DEF NextManager, Manager, None

(* A question put to one that is not a steady master is put before the     *)
(* turn of every steady master.                                            *)
LEMMA BeforeTurn ==
  ASSUME TypeOK, NEW w \in Worker, NEW m, Turn(w, m), NEW k \in Manager,
         Ahead(w, k), m # k
  PROVE  nTimes[w] + 1 <= 2 * k /\ nLoopTotal[w] + 1 <= Patience
  <1>1. /\ m \in Int /\ k \in Int /\ k <= Size - 1 /\ Size \in Int /\ Patience \in Int
        /\ Patience >= 2 * (Size - 1)
    BY Places DEF Turn
  <1>2. nTimes[w] \in Int /\ nLoopTotal[w] \in Int
    BY <1>1 DEF TypeOK
  <1>3. /\ nTimes[w] = 2 * m \/ nTimes[w] = 2 * m + 1
        /\ nTimes[w] <= 2 * k /\ nLoopTotal[w] <= nTimes[w]
    BY DEF Turn, Ahead
  <1> HIDE DEF Turn, Ahead, TypeOK
  <1> QED
    BY <1>1, <1>2, <1>3

(* The type invariant in five parts: few actions touch more than one.      *)
ManagersTyped ==
  /\ alive \in [Manager -> BOOLEAN]
  /\ strMaster \in [Manager -> BOOLEAN]
  /\ card \in [Manager -> BOOLEAN]
  /\ noticed \in [Manager -> BOOLEAN]
  /\ reports \in SUBSET Manager

SearchesTyped ==
  /\ pc \in [Worker -> {"search", "found", "served"}]
  /\ strMasterIP \in [Worker -> Manager \cup {None}]
  /\ last \in [Worker -> Manager \cup {None}]
  /\ conns \in SUBSET Worker
  /\ \A w \in Worker : pc[w] # "search" => strMasterIP[w] \in Manager

CountersTyped ==
  /\ nTimes \in [Worker -> 0 .. 2 * Size]
  /\ nLoopTotal \in [Worker -> 0 .. Patience]

TimersTyped ==
  /\ idle \in [Worker -> 0 .. Interval + 2]
  /\ dog \in [Worker -> {"off", "ready", "delay", "asleep"}]

RestTyped ==
  /\ cable \in [Worker -> BOOLEAN]
  /\ ethStatus \in [Worker -> BOOLEAN]
  /\ steady \in [Worker -> SUBSET Manager]
  /\ disturbed \in BOOLEAN
  /\ budget \in 0 .. MaxFaults

LEMMA TypeParts ==
  TypeOK <=> /\ ManagersTyped /\ SearchesTyped /\ CountersTyped
             /\ TimersTyped /\ RestTyped
  BY DEF TypeOK, ManagersTyped, SearchesTyped, CountersTyped, TimersTyped,
     RestTyped

LEMMA TypeInit == Init => TypeOK
  <1> SUFFICES ASSUME Init PROVE TypeOK
    OBVIOUS
  <1>1. ManagersTyped
    BY DEF Init, ManagersTyped
  <1>2. SearchesTyped
    BY DEF Init, SearchesTyped
  <1>3. CountersTyped
    BY Places DEF Init, CountersTyped
  <1>4. RestTyped
    <2>1. MaxFaults \in Nat
      BY ElectionAssumption
    <2>2. budget \in 0 .. MaxFaults
      BY <2>1 DEF Init
    <2>3. steady \in [Worker -> SUBSET Manager]
      BY Places DEF Init
    <2> QED
      BY <2>2, <2>3 DEF Init, RestTyped
  <1>5. TimersTyped
    BY ElectionAssumption DEF Init, TimersTyped
  <1> QED
    BY <1>1, <1>2, <1>3, <1>4, <1>5, TypeParts

LEMMA WatchType ==
  ASSUME NEW anew, Watching(anew) PROVE steady' \in [Worker -> SUBSET Manager]
  <1> DEFINE S(w) == IF pc'[w] # "search" THEN {}
                     ELSE IF pc[w] = "search" /\ w \notin anew
                          THEN steady[w] \cap Masters(w)'
                     ELSE Masters(w)'
  <1>1. \A w \in Worker : Masters(w)' \subseteq Manager
    BY DEF Masters
  <1>2. \A w \in Worker : S(w) \in SUBSET Manager
    BY <1>1
  <1>3. steady' = [w \in Worker |-> S(w)]
    BY DEF Watching
  <1> QED
    BY <1>2, <1>3

(* What a fault does to the history.                                       *)
LEMMA FaultType ==
  ASSUME RestTyped, NEW kind, Fault(kind)
  PROVE  disturbed' \in BOOLEAN /\ budget' \in 0 .. MaxFaults
  BY ElectionAssumption DEF RestTyped, Fault

LEMMA ManagersStep == ManagersTyped /\ SearchesTyped /\ Next => ManagersTyped'
  <1> SUFFICES ASSUME ManagersTyped, SearchesTyped, Next PROVE ManagersTyped'
    OBVIOUS
  <1> USE DEF ManagersTyped, managerVars
  <1>1. ASSUME NEW w \in Worker, SendReport(w) PROVE ManagersTyped'
    BY <1>1 DEF SendReport
  <1>2. ASSUME NEW m \in Manager, Promote(m) \/ NicWatch(m) PROVE ManagersTyped'
    BY <1>2 DEF Promote, NicWatch
  <1>3. ASSUME NEW m \in Manager, CardDown(m) \/ CardUp(m) PROVE ManagersTyped'
    BY <1>3 DEF CardDown, CardUp
  <1>4. ASSUME NEW m \in Manager, Crash(m) \/ Restart(m) PROVE ManagersTyped'
    BY <1>4 DEF Crash, Restart
  <1>5. UNCHANGED managerVars => ManagersTyped'
    OBVIOUS
  <1>6. \/ UNCHANGED managerVars
        \/ \E w \in Worker : SendReport(w)
        \/ \E m \in Manager :
             Promote(m) \/ NicWatch(m) \/ CardDown(m) \/ CardUp(m) \/ Crash(m) \/ Restart(m)
    BY DEF Next, ClientProc, WhoIsMaster, WaitForCard, NoAnswer, AnswerYes,
       AnswerNo,
           GiveUp, NextRound, Attach, AttachFails, LoseConnection, LeaveOffline,
           NicOnline, NicOffline, CableDown, CableUp, Kill, CancelRecvThread,
           Doze, CancelClientProc
  <1> QED
    BY <1>1, <1>2, <1>3, <1>4, <1>5, <1>6

LEMMA SearchesStep == SearchesTyped /\ Next => SearchesTyped'
  <1> SUFFICES ASSUME SearchesTyped, Next PROVE SearchesTyped'
    OBVIOUS
  <1> USE DEF SearchesTyped, searchVars
  <1>0. ASSUME NEW w \in Worker, NEW m \in Manager, Choose(w, m), UNCHANGED conns
        PROVE  SearchesTyped'
    BY <1>0 DEF Choose
  <1>1. ASSUME NEW w \in Worker, AnswerYes(w) PROVE SearchesTyped'
    BY <1>0, <1>1 DEF AnswerYes, Turn
  <1>2. ASSUME NEW w \in Worker, GiveUp(w) PROVE SearchesTyped'
    BY <1>0, <1>2, NextIsManager DEF GiveUp
  <1>3. ASSUME NEW w \in Worker, Attach(w) PROVE SearchesTyped'
    BY <1>3 DEF Attach
  <1>4. ASSUME NEW w \in Worker, LoseConnection(w) PROVE SearchesTyped'
    BY <1>4 DEF LoseConnection
  <1>5. ASSUME NEW w \in Worker, AttachFails(w) \/ LeaveOffline(w) PROVE SearchesTyped'
    BY <1>5 DEF AttachFails, LeaveOffline, Search
  <1>6. ASSUME NEW w \in Worker, Kill(w) \/ CancelRecvThread(w) PROVE SearchesTyped'
    BY <1>6 DEF Kill, CancelRecvThread, Doze, CancelClientProc, Search
  <1>7. ASSUME NEW w \in Worker, SendReport(w) \/ NicOffline(w) PROVE SearchesTyped'
    BY <1>7 DEF SendReport, NicOffline
  <1>8. ASSUME NEW m \in Manager, Crash(m) PROVE SearchesTyped'
    BY <1>8 DEF Crash
  <1>9. ASSUME UNCHANGED <<pc, strMasterIP, last, conns>> PROVE SearchesTyped'
    BY <1>9
  <1>10. \/ UNCHANGED <<pc, strMasterIP, last, conns>>
         \/ \E w \in Worker : AnswerYes(w) \/ GiveUp(w) \/ Attach(w) \/ LoseConnection(w)
              \/ AttachFails(w) \/ LeaveOffline(w) \/ Kill(w) \/ CancelRecvThread(w)
              \/ SendReport(w) \/ NicOffline(w)
         \/ \E m \in Manager : Crash(m)
    BY DEF Next, ClientProc, WhoIsMaster, WaitForCard, NoAnswer, AnswerNo,
       NextRound,
           NicOnline, CableDown, CableUp, Promote, NicWatch, CardDown, CardUp,
           Restart
  <1> QED
    BY <1>1, <1>2, <1>3, <1>4, <1>5, <1>6, <1>7, <1>8, <1>9, <1>10

LEMMA CountersStep == CountersTyped /\ Next => CountersTyped'
  <1> SUFFICES ASSUME CountersTyped, Next PROVE CountersTyped'
    OBVIOUS
  <1> USE DEF CountersTyped
  <1>p. Size \in Nat /\ Patience \in Nat
    BY Places
  <1>0. ASSUME NEW w \in Worker, nTimes' = [nTimes EXCEPT ![w] = 0],
               UNCHANGED nLoopTotal \/ nLoopTotal' = [nLoopTotal EXCEPT ![w] = 0]
        PROVE  CountersTyped'
    BY <1>0, <1>p
  <1>1. ASSUME NEW w \in Worker, NoAnswer(w) \/ AnswerNo(w) PROVE CountersTyped'
    <2>1. PICK m \in Manager : Turn(w, m)
      BY <1>1 DEF NoAnswer, AnswerNo, Turn
    <2>2. nTimes[w] + 1 \in 0 .. 2 * Size
      BY <2>1, Places DEF Turn
    <2>3. CASE NoAnswer(w)
      BY <2>2, <2>3 DEF NoAnswer
    <2>4. CASE AnswerNo(w)
      <3>1. nLoopTotal[w] + 1 \in 0 .. Patience
        BY <1>p, <2>4 DEF AnswerNo
      <3> QED
        BY <2>2, <2>4, <3>1 DEF AnswerNo
    <2> QED
      BY <1>1, <2>3, <2>4
  <1>2. ASSUME NEW w \in Worker, WaitForCard(w) \/ NextRound(w) PROVE CountersTyped'
    BY <1>0, <1>2 DEF WaitForCard, NextRound
  <1>3. ASSUME NEW w \in Worker, AnswerYes(w) \/ GiveUp(w) PROVE CountersTyped'
    BY <1>0, <1>3 DEF AnswerYes, GiveUp, Choose
  <1>4. ASSUME NEW w \in Worker, AttachFails(w) \/ LeaveOffline(w) PROVE CountersTyped'
    BY <1>0, <1>4 DEF AttachFails, LeaveOffline, Search
  <1>5. ASSUME UNCHANGED <<nTimes, nLoopTotal>> PROVE CountersTyped'
    BY <1>5
  <1>6. ASSUME NEW w \in Worker, Kill(w) \/ CancelRecvThread(w) PROVE CountersTyped'
    BY <1>0, <1>5, <1>6
       DEF Kill, CancelRecvThread, Doze, CancelClientProc, Search, searchVars
  <1>7. \/ UNCHANGED <<nTimes, nLoopTotal>>
        \/ \E w \in Worker : NoAnswer(w) \/ AnswerNo(w) \/ WaitForCard(w) \/ NextRound(w)
             \/ AnswerYes(w) \/ GiveUp(w) \/ AttachFails(w) \/ LeaveOffline(w)
             \/ Kill(w) \/ CancelRecvThread(w)
    BY DEF Next, ClientProc, WhoIsMaster, Attach, LoseConnection, SendReport,
       NicOnline,
           NicOffline, CableDown, CableUp, Promote, NicWatch, CardDown,
           CardUp, Crash,
           Restart, searchVars
  <1> QED
    BY <1>1, <1>2, <1>3, <1>4, <1>5, <1>6, <1>7

(* What a step of ClientProc adds to its time.                             *)
LEMMA TakesType ==
  ASSUME TimersTyped, NEW w \in Worker, NEW d \in Nat, Takes(w, d)
  PROVE  TimersTyped'
  <1>1. Interval \in Nat
    BY ElectionAssumption
  <1> QED
    BY <1>1 DEF TimersTyped, Takes

LEMMA TimersStep == TimersTyped /\ Next => TimersTyped'
  <1> SUFFICES ASSUME TimersTyped, Next PROVE TimersTyped'
    OBVIOUS
  <1>i. Interval \in Nat /\ \A d \in 1 .. Slow : d \in Nat
    BY ElectionAssumption
  <1>1. ASSUME NEW w \in Worker, NEW d \in Nat, Takes(w, d) PROVE TimersTyped'
    BY <1>1, TakesType
  <1>2. ASSUME NEW w \in Worker, Attach(w) \/ SendReport(w) PROVE TimersTyped'
    BY <1>i, <1>2 DEF Attach, SendReport, TimersTyped
  <1>3. ASSUME NEW w \in Worker, CancelRecvThread(w) \/ Kill(w) PROVE TimersTyped'
    BY <1>i, <1>3
       DEF CancelRecvThread, Doze, CancelClientProc, Kill, TimersTyped
  <1>4. ASSUME UNCHANGED timerVars PROVE TimersTyped'
    BY <1>4 DEF timerVars, TimersTyped
  <1>5. ASSUME NEW w \in Worker, WhoIsMaster(w) PROVE \E d \in Nat : Takes(w, d)
    BY <1>i, <1>5
       DEF WhoIsMaster, WaitForCard, NoAnswer, AnswerYes, AnswerNo, GiveUp,
           NextRound
  <1>6. ASSUME NEW w \in Worker, AttachFails(w) \/ LoseConnection(w) \/ LeaveOffline(w)
        PROVE  \E d \in Nat : Takes(w, d)
    BY <1>i, <1>6 DEF AttachFails, LoseConnection, LeaveOffline
  <1>7. \/ UNCHANGED timerVars
        \/ \E w \in Worker : WhoIsMaster(w) \/ AttachFails(w) \/ LoseConnection(w)
             \/ LeaveOffline(w) \/ Attach(w) \/ SendReport(w) \/ CancelRecvThread(w)
             \/ Kill(w)
    BY DEF Next, ClientProc, NicOnline, NicOffline, CableDown, CableUp,
       Promote, NicWatch,
           CardDown, CardUp, Crash, Restart
  <1> QED
    BY <1>1, <1>2, <1>3, <1>4, <1>5, <1>6, <1>7

(* What every step does to the history.                                    *)
LEMMA EveryWatch ==
  Next => \/ Watching({})
          \/ \E w \in Worker : Watching({w}) /\ Search(w)
  BY DEF Next, ClientProc, WhoIsMaster, WaitForCard, NoAnswer, AnswerYes,
     AnswerNo,
         GiveUp, NextRound, Attach, AttachFails, SendReport, LoseConnection,
         LeaveOffline,
         NicOnline, NicOffline, Promote, NicWatch, CardDown, CardUp, Crash,
         Restart,
         CableDown, CableUp, Kill, CancelRecvThread, Doze, CancelClientProc,
         Watch

LEMMA RestStep == RestTyped /\ Next => RestTyped'
  <1> SUFFICES ASSUME RestTyped, Next PROVE RestTyped'
    OBVIOUS
  <1>1. steady' \in [Worker -> SUBSET Manager]
    BY EveryWatch, WatchType
  <1>2. \/ UNCHANGED faultVars
        \/ \E kind \in Faults : Fault(kind)
    BY DEF Next, ClientProc, WhoIsMaster, WaitForCard, NoAnswer, AnswerYes,
       AnswerNo,
           GiveUp, NextRound, Attach, AttachFails, SendReport, LoseConnection,
           LeaveOffline, NicOnline, NicOffline, Promote, NicWatch, CardDown,
           CardUp,
           Crash, Restart, CableDown, CableUp, Kill, CancelRecvThread, Doze,
           CancelClientProc, Fault
  <1>3. disturbed' \in BOOLEAN /\ budget' \in 0 .. MaxFaults
    BY <1>2, FaultType DEF RestTyped, faultVars
  <1>4. \/ UNCHANGED <<cable, ethStatus>>
        \/ \E w \in Worker : NicOnline(w) \/ NicOffline(w) \/ CableDown(w) \/ CableUp(w)
             \/ Kill(w)
    BY DEF Next, ClientProc, WhoIsMaster, WaitForCard, NoAnswer, AnswerYes,
       AnswerNo,
           GiveUp, NextRound, Attach, AttachFails, SendReport, LoseConnection,
           LeaveOffline, Promote, NicWatch, CardDown, CardUp, Crash, Restart,
           CancelRecvThread, Doze, CancelClientProc,
           nicVars
  <1>5. cable' \in [Worker -> BOOLEAN] /\ ethStatus' \in [Worker -> BOOLEAN]
    BY <1>4
       DEF RestTyped, NicOnline, NicOffline, CableDown, CableUp, Kill, nicVars
  <1> QED
    BY <1>1, <1>3, <1>5 DEF RestTyped

LEMMA TypeStep == TypeOK /\ [Next]_vars => TypeOK'
  <1>1. TypeOK /\ Next => TypeOK'
    BY TypeParts, ManagersStep, SearchesStep, CountersStep, TimersStep, RestStep
       DEF TypeOK, ManagersTyped, SearchesTyped, CountersTyped, TimersTyped,
            RestTyped
  <1>2. TypeOK /\ UNCHANGED vars => TypeOK'
    BY DEF TypeOK, vars, managerVars, searchVars, nicVars, timerVars, faultVars
  <1> QED
    BY <1>1, <1>2

(* TypeCorrect: the shape of the state, for any workers and managers.      *)
THEOREM TypeCorrect == Spec => []TypeOK
  BY TypeInit, TypeStep, PTL DEF Spec

-----------------------------------------------------------------------------
(* What the history says after a step: a manager steady then was so before *)
(* if the same search went on.                                             *)
LEMMA SteadyAfter ==
  ASSUME TypeOK, Next, NEW w \in Worker
  PROVE  /\ pc'[w] # "search" => steady'[w] = {}
         /\ \A k \in steady'[w] :
              /\ pc'[w] = "search" /\ k \in Masters(w)'
              /\ pc[w] = "search" =>
                   k \in steady[w] \/ (nTimes'[w] = 0 /\ nLoopTotal'[w] = 0)
  <1>1. CASE Watching({})
    BY <1>1 DEF Watching
  <1>2. ASSUME NEW v \in Worker, Watching({v}), Search(v)
        PROVE  /\ steady'[w] = IF pc'[w] # "search" THEN {}
                               ELSE IF pc[w] = "search" /\ w # v
                                    THEN steady[w] \cap Masters(w)'
                               ELSE Masters(w)'
               /\ w = v => nTimes'[w] = 0 /\ nLoopTotal'[w] = 0
    BY <1>2 DEF Watching, Search, TypeOK
  <1> QED
    BY <1>1, <1>2, EveryWatch

LEMMA InitInv == Init => IInv
  <1> SUFFICES ASSUME Init PROVE IInv
    OBVIOUS
  <1>1. ASSUME NEW w \in Worker PROVE steady[w] = {Main} /\ Ahead(w, Main)
    <2>1. Main \in Masters(w)
      BY Places DEF Init, Masters, Reachable
    <2>2. nTimes[w] = 0 /\ nLoopTotal[w] = 0 /\ steady[w] = {Main}
      BY DEF Init
    <2>3. Main \in Int /\ Main >= 0
      BY Places
    <2> QED
      BY <2>1, <2>2, <2>3 DEF Ahead
  <1>2. Undisputed
    BY Places DEF Init, Undisputed, Calm, Acting, Heeded
  <1> QED
    <2>1. Tracked
      BY <1>1 DEF Init, Tracked
    <2> QED
      BY <1>2, <2>1, TypeInit DEF IInv

(* A search in which k stays a steady master has not passed k's turn after *)
(* a step if it had not before.                                            *)
LEMMA TrackedStep == TypeOK /\ Tracked /\ Next => Tracked'
  <1> SUFFICES ASSUME TypeOK, Tracked, Next, NEW v \in Worker
               PROVE  /\ pc'[v] # "search" => steady'[v] = {}
                      /\ \A k \in steady'[v] : Ahead(v, k)'
    BY DEF Tracked
  <1>1. pc'[v] # "search" => steady'[v] = {}
    BY SteadyAfter
  <1> SUFFICES ASSUME NEW k \in steady'[v] PROVE Ahead(v, k)'
    BY <1>1
  <1>s. /\ pc'[v] = "search" /\ k \in Masters(v)'
        /\ pc[v] = "search" =>
             k \in steady[v] \/ (nTimes'[v] = 0 /\ nLoopTotal'[v] = 0)
    BY SteadyAfter
  <1>3. k \in Manager
    BY <1>s DEF Masters
  <1>6. k \in Int /\ k >= 0
    BY <1>3, Places
  (* The search of v goes on or begins with its counters at nought.        *)
  <1>7. ASSUME nTimes'[v] = 0, nLoopTotal'[v] = 0 PROVE Ahead(v, k)'
    BY <1>s, <1>6, <1>7 DEF Ahead
  <1> SUFFICES ASSUME ~(nTimes'[v] = 0 /\ nLoopTotal'[v] = 0) PROVE Ahead(v, k)'
    BY <1>7
  <1>2. /\ pc'[v] = "search" /\ k \in Masters(v)'
        /\ pc[v] = "search" => k \in steady[v]
    BY <1>s
  <1>4. pc[v] = "search" => Ahead(v, k)
    BY <1>2 DEF Tracked
  <1>5. /\ nTimes \in [Worker -> Int] /\ nLoopTotal \in [Worker -> Int]
        /\ pc \in [Worker -> {"search", "found", "served"}]
        /\ ethStatus \in [Worker -> BOOLEAN]
    BY Places DEF TypeOK
  (* v stands still.                                                       *)
  <1>8. ASSUME pc[v] = "search", nTimes'[v] = nTimes[v], nLoopTotal'[v] = nLoopTotal[v],
               ethStatus'[v] = ethStatus[v]
        PROVE  Ahead(v, k)'
    BY <1>2, <1>4, <1>8 DEF Ahead
  <1>9. ASSUME NEW w \in Worker, WaitForCard(w) PROVE Ahead(v, k)'
    <2>1. CASE v = w
      <3>1. nTimes[v] = 0 /\ pc[v] = "search"
        BY <1>2, <1>4, <1>9, <2>1 DEF WaitForCard, Ahead
      <3>2. nTimes'[v] = 0 /\ nLoopTotal'[v] = nLoopTotal[v] /\ ethStatus'[v] = ethStatus[v]
        BY <1>5, <1>9, <2>1 DEF WaitForCard, nicVars
      <3> QED
        BY <1>8, <3>1, <3>2
    <2>2. CASE v # w
      BY <1>2, <1>5, <1>8, <1>9, <2>2 DEF WaitForCard, nicVars
    <2> QED
      BY <2>1, <2>2
  <1>10. ASSUME NEW w \in Worker, NoAnswer(w) \/ AnswerNo(w) PROVE Ahead(v, k)'
    <2>1. CASE v = w
      <3>1. PICK m \in Manager : /\ Turn(w, m)
                                 /\ Reachable(w, m) => ~strMaster[m]
        BY <1>10 DEF NoAnswer, AnswerNo, Turn
      <3>2. Ahead(w, k) /\ pc[w] = "search" /\ ethStatus[w]
        BY <1>4, <2>1, <3>1 DEF Turn
      <3>3. m # k
        BY <3>1, <3>2 DEF Ahead, Masters
      <3>4. nTimes[w] + 1 <= 2 * k
        BY <1>3, <3>1, <3>2, <3>3, BeforeTurn
      <3>5. /\ nTimes'[w] = nTimes[w] + 1
            /\ nLoopTotal'[w] \in {nLoopTotal[w], nLoopTotal[w] + 1}
            /\ ethStatus' = ethStatus
        BY <1>5, <1>10 DEF NoAnswer, AnswerNo, nicVars
      <3>6. nLoopTotal[w] <= nTimes[w] /\ nTimes[w] \in Int /\ nLoopTotal[w] \in Int
        BY <1>5, <3>2 DEF Ahead
      <3>7. nLoopTotal'[w] <= nTimes'[w] /\ nTimes'[w] <= 2 * k
        BY <3>4, <3>5, <3>6
      <3> QED
        BY <1>2, <2>1, <3>2, <3>5, <3>7 DEF Ahead
    <2>2. CASE v # w
      BY <1>2, <1>5, <1>8, <1>10, <2>2 DEF NoAnswer, AnswerNo, nicVars
    <2> QED
      BY <2>1, <2>2
  <1>11. ASSUME NEW w \in Worker, AnswerYes(w) \/ GiveUp(w) PROVE Ahead(v, k)'
    <2>1. v # w
      BY <1>2, <1>5, <1>11 DEF AnswerYes, GiveUp, Choose
    <2> QED
      BY <1>2, <1>5, <1>8, <1>11, <2>1 DEF AnswerYes, GiveUp, Choose, nicVars
  <1>12. ASSUME NEW w \in Worker, NextRound(w) PROVE Ahead(v, k)'
    <2>1. v # w
      <3>1. SUFFICES ASSUME v = w PROVE FALSE
        OBVIOUS
      <3>2. nTimes[v] >= 2 * Size /\ nTimes[v] <= 2 * k /\ nTimes[v] \in Int
        BY <1>4, <1>5, <1>12, <3>1 DEF NextRound, Ahead
      <3>3. k <= Size - 1 /\ Size \in Int
        BY <1>3, Places
      <3> QED
        BY <1>6, <3>2, <3>3
    <2> QED
      BY <1>2, <1>5, <1>8, <1>12, <2>1 DEF NextRound, nicVars
  <1>13. ASSUME NEW w \in Worker, Attach(w) \/ LoseConnection(w) PROVE Ahead(v, k)'
    BY <1>2, <1>5, <1>8, <1>13 DEF Attach, LoseConnection, nicVars
  <1>14. ASSUME NEW w \in Worker, AttachFails(w) \/ LeaveOffline(w) PROVE Ahead(v, k)'
    BY <1>2, <1>5, <1>7, <1>8, <1>14
       DEF AttachFails, LeaveOffline, Search, nicVars
  <1>15. ASSUME NEW w \in Worker, Kill(w) \/ CancelRecvThread(w) PROVE Ahead(v, k)'
    <2>1. CASE Doze(w)
      BY <1>2, <1>8, <2>1 DEF Doze, searchVars, nicVars
    <2>2. CASE Kill(w) \/ CancelClientProc(w)
      BY <1>2, <1>5, <1>7, <1>8, <2>2
         DEF Kill, CancelClientProc, Search, nicVars
    <2> QED
      BY <1>15, <2>1, <2>2 DEF CancelRecvThread
  <1>16. ASSUME NEW w \in Worker, NicOnline(w) PROVE Ahead(v, k)'
    <2>1. /\ pc'[v] = pc[v] /\ nTimes'[v] = nTimes[v] /\ nLoopTotal'[v] = nLoopTotal[v]
          /\ ethStatus[v] => ethStatus'[v]
      BY <1>5, <1>16 DEF NicOnline, searchVars
    <2> QED
      BY <1>2, <1>4, <2>1 DEF Ahead
  <1>17. ASSUME NEW w \in Worker, NicOffline(w) PROVE Ahead(v, k)'
    <2>1. v # w
      BY <1>2, <1>17 DEF NicOffline, Masters, Reachable
    <2> QED
      BY <1>2, <1>5, <1>8, <1>17, <2>1 DEF NicOffline
  <1>18. ASSUME UNCHANGED <<pc, nTimes, nLoopTotal, ethStatus>> PROVE Ahead(v, k)'
    BY <1>2, <1>8, <1>18
  <1>19. \/ UNCHANGED <<pc, nTimes, nLoopTotal, ethStatus>>
         \/ \E w \in Worker : WhoIsMaster(w) \/ Attach(w) \/ LoseConnection(w)
              \/ AttachFails(w) \/ LeaveOffline(w) \/ Kill(w) \/ CancelRecvThread(w)
              \/ NicOnline(w) \/ NicOffline(w)
    BY DEF Next, ClientProc, SendReport, CableDown, CableUp, Promote,
       NicWatch, CardDown,
           CardUp, Crash, Restart, searchVars, nicVars
  <1> QED
    BY <1>9, <1>10, <1>11, <1>12, <1>13, <1>14, <1>15, <1>16, <1>17, <1>18,
       <1>19
    DEF WhoIsMaster

-----------------------------------------------------------------------------
(* No search that has a steady master ends by giving up.                   *)
LEMMA NoGivingUp ==
  ASSUME TypeOK, Tracked, NEW w \in Worker, GiveUp(w), pc[w] = "search"
  PROVE  steady[w] = {}
  <1> SUFFICES ASSUME NEW k \in steady[w] PROVE FALSE
    OBVIOUS
  <1>1. Ahead(w, k) /\ k \in Manager
    BY DEF Tracked, Ahead, Masters
  <1>2. PICK m \in Manager : Turn(w, m) /\ Reachable(w, m) /\ ~strMaster[m]
    BY DEF GiveUp, Turn
  <1>3. m # k
    BY <1>1, <1>2 DEF Ahead, Masters
  <1>4. nLoopTotal[w] + 1 <= Patience
    BY <1>1, <1>2, <1>3, BeforeTurn
  <1>5. nLoopTotal[w] \in Int /\ Patience \in Int
    BY Places DEF TypeOK
  <1> QED
    BY <1>4, <1>5 DEF GiveUp

(* A search ends at a manager that says it is master, or by giving up.     *)
LEMMA SearchEnds ==
  ASSUME TypeOK, Next, NEW w \in Worker, pc[w] = "search", pc'[w] # "search"
  PROVE  /\ pc'[w] = "found"
         /\ \/ GiveUp(w)
            \/ \E m \in Manager : strMaster[m] /\ strMasterIP'[w] = m
  <1>1. pc \in [Worker -> {"search", "found", "served"}]
        /\ strMasterIP \in [Worker -> Manager \cup {None}]
    BY DEF TypeOK
  <1>2. PICK v \in Worker : AnswerYes(v) \/ GiveUp(v)
    <2>1. \A v \in Worker : ~(WaitForCard(v) \/ NoAnswer(v) \/ AnswerNo(v) \/ NextRound(v))
      BY DEF WaitForCard, NoAnswer, AnswerNo, NextRound
    <2>2. \A v \in Worker : ~(Attach(v) \/ AttachFails(v) \/ LoseConnection(v) \/ LeaveOffline(v))
      BY <1>1 DEF Attach, AttachFails, LoseConnection, LeaveOffline, Search
    <2>3. \A v \in Worker : ~(Kill(v) \/ CancelRecvThread(v))
      BY <1>1
         DEF Kill, CancelRecvThread, Doze, CancelClientProc, Search, searchVars
    <2>4. pc' # pc
      OBVIOUS
    <2> QED
      BY <2>1, <2>2, <2>3, <2>4
         DEF Next, ClientProc, WhoIsMaster, SendReport, NicOnline,
         NicOffline, Promote, NicWatch, CardDown, CardUp, Crash, Restart,
         CableDown,
         CableUp, searchVars
  <1>3. v = w
    BY <1>1, <1>2 DEF AnswerYes, GiveUp, Choose
  <1> QED
    BY <1>1, <1>2, <1>3 DEF AnswerYes, GiveUp, Choose

(* Nobody becomes an acting mainhost who was not one, short of a fault.    *)
LEMMA CalmStep ==
  ASSUME TypeOK, Next, ~disturbed', Calm
  PROVE  Calm' /\ (Acting(Main)' => Acting(Main))
  <1>1. Main \in Manager
    BY Places
  <1>2. /\ strMaster \in [Manager -> BOOLEAN] /\ card \in [Manager -> BOOLEAN]
        /\ alive \in [Manager -> BOOLEAN] /\ noticed \in [Manager -> BOOLEAN]
        /\ disturbed \in BOOLEAN
    BY DEF TypeOK
  <1> USE <1>1, <1>2 DEF Calm, Acting
  <1>3. \A m \in Manager : ~Crash(m) /\ ~Restart(m)
    BY DEF Crash, Restart, Fault
  <1>4. \A w \in Worker : ~CableDown(w)
    BY DEF CableDown, Fault
  <1>5. ASSUME NEW m \in Manager, Promote(m) PROVE Calm' /\ (Acting(Main)' => Acting(Main))
    BY <1>5 DEF Promote, nicVars
  <1>6. ASSUME NEW m \in Manager, NicWatch(m) PROVE Calm' /\ (Acting(Main)' => Acting(Main))
    BY <1>6 DEF NicWatch, nicVars
  <1>7. ASSUME NEW m \in Manager, CardDown(m) PROVE Calm' /\ (Acting(Main)' => Acting(Main))
    BY <1>7 DEF CardDown, nicVars
  <1>8. ASSUME NEW m \in Manager, CardUp(m) PROVE Calm' /\ (Acting(Main)' => Acting(Main))
    <2>1. noticed[m]
      BY <1>8 DEF CardUp, Fault
    <2> QED
      BY <1>8, <2>1 DEF CardUp, nicVars
  <1>9. ASSUME UNCHANGED <<alive, strMaster, card, noticed, cable>>
        PROVE  Calm' /\ (Acting(Main)' => Acting(Main))
    BY <1>9
  <1>10. \/ UNCHANGED <<alive, strMaster, card, noticed, cable>>
         \/ \E w \in Worker : CableDown(w) \/ CableUp(w)
         \/ \E m \in Manager :
              Promote(m) \/ NicWatch(m) \/ CardDown(m) \/ CardUp(m) \/ Crash(m) \/ Restart(m)
    BY DEF Next, ClientProc, WhoIsMaster, WaitForCard, NoAnswer, AnswerYes,
       AnswerNo,
           GiveUp, NextRound, Attach, AttachFails, SendReport, LoseConnection,
           LeaveOffline, NicOnline, NicOffline, Kill, CancelRecvThread, Doze,
           CancelClientProc, managerVars, nicVars
  <1>11. \A w \in Worker : ~CableUp(w)
    BY DEF CableUp
  <1> QED
    BY <1>3, <1>4, <1>5, <1>6, <1>7, <1>8, <1>9, <1>10, <1>11

(* While the mainhost acts, nobody hears of another master.                *)
LEMMA HeededStep ==
  ASSUME TypeOK, Tracked, Next, ~disturbed', Calm, Acting(Main), Heeded, Calm',
         Acting(Main)'
  PROVE  Heeded'
  <1>1. Main \in Manager
    BY Places
  <1>2. /\ strMaster \in [Manager -> BOOLEAN] /\ reports \in SUBSET Manager
        /\ pc \in [Worker -> {"search", "found", "served"}]
        /\ strMasterIP \in [Worker -> Manager \cup {None}]
    BY DEF TypeOK
  <1>3. \A m \in Manager : ~Crash(m) /\ ~Restart(m)
    BY DEF Crash, Restart, Fault, Calm
  <1>4. \A m \in Manager : strMaster'[m] => m = Main
    <2>1. \/ UNCHANGED strMaster
          \/ \E m \in Manager : Promote(m) \/ NicWatch(m)
      BY <1>3
         DEF Next, ClientProc, WhoIsMaster, WaitForCard, NoAnswer, AnswerYes,
             AnswerNo, GiveUp, NextRound, Attach, AttachFails, SendReport,
             LoseConnection,
             LeaveOffline, NicOnline, NicOffline, Kill, CancelRecvThread,
             Doze, CancelClientProc, managerVars, CableDown,
             CableUp, CardDown, CardUp
    <2> QED
      BY <1>1, <1>2, <2>1 DEF Heeded, Promote, NicWatch
  <1>5. reports' \subseteq {Main}
    <2>1. \/ reports' \subseteq reports
          \/ \E w \in Worker : SendReport(w)
      BY <1>3
         DEF Next, ClientProc, WhoIsMaster, WaitForCard, NoAnswer, AnswerYes,
             AnswerNo, GiveUp, NextRound, Attach, AttachFails, LoseConnection,
             LeaveOffline, NicOnline, NicOffline, Kill, CancelRecvThread,
             Doze, CancelClientProc, managerVars, CableDown,
             CableUp, CardDown, CardUp, Promote, NicWatch
    <2>2. ASSUME NEW w \in Worker, SendReport(w) PROVE reports' \subseteq {Main}
      BY <2>2 DEF SendReport, Heeded
    <2> QED
      BY <2>1, <2>2 DEF Heeded
  <1>6. ASSUME NEW w \in Worker, pc'[w] = "search" PROVE Main \in steady'[w]
    <2>1. Main \in Masters(w)'
      BY <1>1 DEF Acting, Calm, Masters, Reachable
    <2>2. pc[w] = "search" => Main \in steady[w]
      BY DEF Heeded
    <2>3. \E anew \in SUBSET Worker : Watching(anew)
      BY EveryWatch
    <2> QED
      BY <1>6, <2>1, <2>2, <2>3 DEF Watching
  <1>7. ASSUME NEW w \in Worker, pc'[w] # "search" PROVE strMasterIP'[w] = Main
    <2>1. CASE pc[w] = "search"
      <3>1. ~GiveUp(w)
        BY <2>1, NoGivingUp DEF Heeded
      <3> QED
        BY <1>7, <2>1, <3>1, SearchEnds DEF Heeded
    <2>2. CASE pc[w] # "search"
      <3>1. strMasterIP[w] = Main
        BY <2>2 DEF Heeded
      <3>2. strMasterIP'[w] = strMasterIP[w]
        BY <1>2, <1>3, <1>7, <2>2
           DEF Next, ClientProc, WhoIsMaster, WaitForCard, NoAnswer,
           AnswerYes, AnswerNo, GiveUp, NextRound, Attach, AttachFails,
           SendReport,
           LoseConnection, LeaveOffline, NicOnline, NicOffline, Promote,
           NicWatch,
           CardDown, CardUp, CableDown, CableUp, Kill, CancelRecvThread, Doze,
           CancelClientProc, Search, Choose, Turn,
           searchVars
      <3> QED
        BY <3>1, <3>2
    <2> QED
      BY <2>1, <2>2
  <1> QED
    BY <1>4, <1>5, <1>6, <1>7 DEF Heeded

(* Once disturbed, disturbed for good.                                     *)
LEMMA StaysDisturbed == Next => (disturbed => disturbed')
  BY DEF Next, ClientProc, WhoIsMaster, WaitForCard, NoAnswer, AnswerYes,
     AnswerNo, GiveUp,
         NextRound, Attach, AttachFails, SendReport, LoseConnection,
         LeaveOffline,
         NicOnline, NicOffline, Promote, NicWatch, CardDown, CardUp, Crash,
         Restart,
         CableDown, CableUp, Kill, CancelRecvThread, Doze, CancelClientProc,
         Fault, faultVars

LEMMA StepInv == IInv /\ [Next]_vars => IInv'
  <1> SUFFICES ASSUME IInv, [Next]_vars PROVE IInv'
    OBVIOUS
  <1>1. CASE UNCHANGED vars
    BY <1>1
       DEF vars, managerVars, searchVars, nicVars, timerVars, faultVars, IInv,
            TypeOK, Tracked,
         Ahead, Masters, Reachable, Undisputed, Calm, Acting, Heeded
  <1>2. CASE Next
    <2>1. TypeOK'
      BY TypeStep DEF IInv
    <2>2. Tracked'
      BY <1>2, TrackedStep DEF IInv
    <2>3. Undisputed'
      <3> SUFFICES ASSUME ~disturbed' PROVE Calm' /\ (Acting(Main)' => Heeded')
        BY DEF Undisputed
      <3>1. Calm /\ (Acting(Main) => Heeded)
        BY <1>2, StaysDisturbed DEF IInv, Undisputed
      <3>2. Calm' /\ (Acting(Main)' => Acting(Main))
        BY <1>2, <3>1, CalmStep DEF IInv
      <3> QED
        BY <1>2, <3>1, <3>2, HeededStep DEF IInv
    <2> QED
      BY <2>1, <2>2, <2>3 DEF IInv
  <1> QED
    BY <1>1, <1>2

LEMMA Inductive == Spec => []IInv
  BY InitInv, StepInv, PTL DEF Spec

(* MainMaster: without a fault that parts workers from a mainhost that     *)
(* acts as master, no backhost is master beside it.                        *)
THEOREM MainMaster == Spec => []MainUndisputed
  <1>1. IInv => MainUndisputed
    BY Places DEF IInv, Undisputed, Heeded, MainUndisputed
  <1> QED
    BY <1>1, Inductive, PTL

(* SteadyFound: a search during which some manager is master and reachable *)
(* ends at one that is, in its first round, whatever faults happen.        *)
THEOREM SteadyFound == Spec => SteadySearch
  <1> DEFINE Found == \A w \in Worker :
               pc[w] = "search" /\ steady[w] # {} =>
                 /\ nTimes[w] < 2 * Size
                 /\ pc'[w] = "found" => strMaster[strMasterIP'[w]]
  <1>1. IInv /\ [Next]_vars => [Found]_vars
    <2> SUFFICES ASSUME IInv, Next, NEW w \in Worker, pc[w] = "search", steady[w] # {}
                 PROVE  /\ nTimes[w] < 2 * Size
                        /\ pc'[w] = "found" => strMaster[strMasterIP'[w]]
      BY Zenon
    <2>1. nTimes[w] < 2 * Size
      <3>1. PICK k \in steady[w] : TRUE
        OBVIOUS
      <3>2. nTimes[w] <= 2 * k /\ k \in Manager
        BY DEF IInv, Tracked, Ahead, Masters
      <3>3. k \in Int /\ k <= Size - 1 /\ Size \in Int
        BY <3>2, Places
      <3>4. nTimes[w] \in Int
        BY Places DEF IInv, TypeOK
      <3> QED
        BY <3>2, <3>3, <3>4
    <2>2. ASSUME pc'[w] = "found" PROVE strMaster[strMasterIP'[w]]
      <3>1. ~GiveUp(w)
        BY NoGivingUp DEF IInv
      <3> QED
        BY <2>2, <3>1, SearchEnds DEF IInv
    <2> QED
      BY <2>1, <2>2
  <1> QED
    BY <1>1, Inductive, PTL DEF Spec, SteadySearch
=============================================================================
