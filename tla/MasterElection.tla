--------------------------- MODULE MasterElection ---------------------------
(***************************************************************************)
(* Which manager is the master, and how the workers come to agree on it.   *)
(*                                                                         *)
(* A manager is master while its strMaster is "yes": the mainhost from its *)
(* start, a backhost from the first heartbeat it gets, both until their    *)
(* network card is seen down.  Nothing is agreed on between managers.  It  *)
(* is the workers that choose: WhoIsMaster asks the managers of the        *)
(* configuration in turn, each twice (types 8 and 9), until one says it is *)
(* master; after Patience answers of managers that are not, it goes to the *)
(* one after the last master, whose role the first heartbeat then makes.   *)
(*                                                                         *)
(* The search races with a timer of the worker itself: CancelRecvThread    *)
(* cancels and restarts ClientProc, and with it the search, whenever no    *)
(* heartbeat was exchanged for a time.  The time a step of ClientProc      *)
(* takes is counted in the sleeps of 3 seconds it is made of.              *)
(***************************************************************************)
EXTENDS Integers, FiniteSets

CONSTANTS
  Worker,     \* the worker hosts
  Size,       \* managerVect.size(), at most four are ever asked
  Main,       \* the manager whose strHostRole is "mainhost"
  Patience,   \* answers without a master before a worker chooses (10)
  Slow,       \* longest a manager that does not answer takes, in sleeps
  Interval,   \* the 60 seconds of CancelRecvThread, in sleeps (20)
  Punctual,   \* TRUE iff CancelRecvThread is never more than a sleep late
  Faults,     \* which faults the environment may inject
  MaxFaults   \* bound on their number

Manager == 0 .. Size - 1
None == -1

ASSUME ElectionAssumption ==
  /\ Size \in 1 .. 4
  /\ Main \in Manager
  /\ Patience \in Nat /\ Patience >= 2 * (Size - 1)
  /\ Slow \in Nat \ {0} /\ Interval \in Nat \ {0} /\ Punctual \in BOOLEAN
  /\ Faults \subseteq {"card", "blink", "cable", "crash", "kill"}
  /\ MaxFaults \in Nat

VARIABLES
  \* JZManager, per host
  alive,      \* the process runs
  strMaster,  \* g_configInfo.strMaster = "yes"
  card,       \* the network card, as get_netlink_status sees it
  noticed,    \* ProcessNICProc has seen the card down
  reports,    \* managers whose ClientProc has a heartbeat in hand
  \* JZWorker, per host
  pc,         \* "search" (WhoIsMaster), "found", "served" (heartbeats)
  nTimes,     \* which manager is asked next: every one has two numbers
  nLoopTotal, \* answers of managers that are not the master
  strMasterIP,
  last,       \* g_strLastMasterIP
  conns,      \* workers whose connection the manager has not lost
  cable, ethStatus, \* the worker's cable and m_nETHStatus
  idle,       \* time since nSendTime and nRecvTime, or of the sleep(60)
  dog,        \* CancelRecvThread: "off" (no connection yet), "ready",
              \* "delay" (nDelayFlag = 1), "asleep" (in its sleep(60))
  \* history
  steady,     \* managers that were master and reachable all through a search
  disturbed,  \* a fault other than a long outage of a manager's card
  budget

managerVars == <<alive, strMaster, card, noticed, reports>>
searchVars  == <<pc, nTimes, nLoopTotal, strMasterIP, last, conns>>
nicVars     == <<cable, ethStatus>>
timerVars   == <<idle, dog>>
faultVars   == <<disturbed, budget>>
vars == <<managerVars, searchVars, nicVars, timerVars, faultVars, steady>>

Reachable(w, m) == alive[m] /\ card[m] /\ cable[w]
Masters(w) == {m \in Manager : strMaster[m] /\ Reachable(w, m)}

Init ==
  /\ alive = [m \in Manager |-> TRUE]
  /\ strMaster = [m \in Manager |-> m = Main]
  /\ card = [m \in Manager |-> TRUE]
  /\ noticed = [m \in Manager |-> FALSE]
  /\ reports = {}
  /\ pc = [w \in Worker |-> "search"]
  /\ nTimes = [w \in Worker |-> 0]
  /\ nLoopTotal = [w \in Worker |-> 0]
  /\ strMasterIP = [w \in Worker |-> None]
  /\ last = [w \in Worker |-> None]
  /\ conns = {}
  /\ cable = [w \in Worker |-> TRUE]
  /\ ethStatus = [w \in Worker |-> FALSE]
  /\ idle = [w \in Worker |-> 0]
  /\ dog = [w \in Worker |-> "off"]
  /\ steady = [w \in Worker |-> {Main}]
  /\ disturbed = FALSE
  /\ budget = MaxFaults

(* History: who stays master and reachable while a worker searches; the    *)
(* search of the workers in anew was cut off and begins again.             *)
Watching(anew) ==
  steady' = [w \in Worker |->
    IF pc'[w] # "search" THEN {}
    ELSE IF pc[w] = "search" /\ w \notin anew THEN steady[w] \cap Masters(w)'
    ELSE Masters(w)']

Watch == Watching({})

(* What CancelRecvThread waits for, and what it never misses by more than  *)
(* the sleep between two of its looks.                                     *)
Expired(w) ==
  /\ ethStatus[w]
  /\ dog[w] # "off"
  /\ IF dog[w] = "asleep" THEN idle[w] >= Interval ELSE idle[w] > Interval

Overdue(w) == Punctual /\ Expired(w) /\ idle[w] > Interval + 1

(* A step of ClientProc takes d sleeps.  There is nothing to time before   *)
(* the first connection, and an overdue timer comes first.                 *)
Takes(w, d) ==
  /\ ~Overdue(w)
  /\ idle' = [idle EXCEPT ![w] =
       IF dog[w] = "off" THEN 0
       ELSE IF @ + d > Interval + 1 THEN Interval + 2 ELSE @ + d]
  /\ UNCHANGED dog

-----------------------------------------------------------------------------
(* JZWorker: WhoIsMaster                                                   *)

(* Mutant: the answers counted are those of all calls.                     *)
SearchCountsOn(w) ==
  /\ pc' = [pc EXCEPT ![w] = "search"]
  /\ nTimes' = [nTimes EXCEPT ![w] = 0]
  /\ strMasterIP' = [strMasterIP EXCEPT ![w] = None]
  /\ UNCHANGED nLoopTotal

(* The call begins, with counters of its own.                              *)
Search(w) ==
  /\ pc' = [pc EXCEPT ![w] = "search"]
  /\ nTimes' = [nTimes EXCEPT ![w] = 0]
  /\ nLoopTotal' = [nLoopTotal EXCEPT ![w] = 0]
  /\ strMasterIP' = [strMasterIP EXCEPT ![w] = None]

(* The call returns m.                                                     *)
Choose(w, m) ==
  /\ pc' = [pc EXCEPT ![w] = "found"]
  /\ strMasterIP' = [strMasterIP EXCEPT ![w] = m]
  /\ last' = [last EXCEPT ![w] = m]
  /\ nTimes' = [nTimes EXCEPT ![w] = 0]
  /\ nLoopTotal' = [nLoopTotal EXCEPT ![w] = 0]

(* The manager whose turn it is.                                           *)
Turn(w, m) ==
  /\ pc[w] = "search"
  /\ ethStatus[w]
  /\ m \in Manager
  /\ nTimes[w] \in {2 * m, 2 * m + 1}

(* While the own card is down everything waits, a search to begin again    *)
(* with the first manager; nLoopTotal is kept.                             *)
WaitForCard(w) ==
  /\ pc[w] # "served"
  /\ ~ethStatus[w]
  /\ Takes(w, 1)
  /\ nTimes' = [nTimes EXCEPT ![w] = 0]
  /\ UNCHANGED <<managerVars, pc, nLoopTotal, strMasterIP, last, conns, nicVars,
                 faultVars>>
  /\ Watch

(* No connection, or one that breaks before the answer.                    *)
NoAnswer(w) ==
  /\ \E m \in Manager : Turn(w, m) /\ ~Reachable(w, m)
  /\ \E d \in 1 .. Slow : Takes(w, d)
  /\ nTimes' = [nTimes EXCEPT ![w] = @ + 1]
  /\ UNCHANGED <<managerVars, pc, nLoopTotal, strMasterIP, last, conns, nicVars,
                 faultVars>>
  /\ Watch

(* A type 9 with an address.                                               *)
AnswerYes(w) ==
  /\ \E m \in Manager : Turn(w, m) /\ Reachable(w, m) /\ strMaster[m] /\ Choose(w, m)
  /\ Takes(w, 1)
  /\ UNCHANGED <<managerVars, conns, nicVars, faultVars>>
  /\ Watch

(* A type 9 without one.                                                   *)
AnswerNo(w) ==
  /\ \E m \in Manager : Turn(w, m) /\ Reachable(w, m) /\ ~strMaster[m]
  /\ nLoopTotal[w] + 1 <= Patience
  /\ Takes(w, 1)
  /\ nTimes' = [nTimes EXCEPT ![w] = @ + 1]
  /\ nLoopTotal' = [nLoopTotal EXCEPT ![w] = @ + 1]
  /\ UNCHANGED <<managerVars, pc, strMasterIP, last, conns, nicVars, faultVars>>
  /\ Watch

(* Mutant: the number is not taken round.                                  *)
NextManagerOver(m) == IF m = None THEN Size - 1 ELSE m + 1

(* The manager after the last master, the last one if there was none.      *)
NextManager(m) == IF m = None THEN Size - 1 ELSE IF m < Size - 1 THEN m + 1 ELSE 0

(* The answer that is one too many.                                        *)
GiveUp(w) ==
  /\ \E m \in Manager : Turn(w, m) /\ Reachable(w, m) /\ ~strMaster[m]
  /\ nLoopTotal[w] + 1 > Patience
  /\ Choose(w, NextManager(last[w]))
  /\ Takes(w, 1)
  /\ UNCHANGED <<managerVars, conns, nicVars, faultVars>>
  /\ Watch

(* All have been asked twice: again from the first.  The socket made for   *)
(* the next question is not closed.                                        *)
NextRound(w) ==
  /\ pc[w] = "search"
  /\ ethStatus[w]
  /\ nTimes[w] >= 2 * Size
  /\ Takes(w, 1)
  /\ nTimes' = [nTimes EXCEPT ![w] = 0]
  /\ UNCHANGED <<managerVars, pc, nLoopTotal, strMasterIP, last, conns, nicVars,
                 faultVars>>
  /\ Watch

WhoIsMaster(w) ==
  \/ WaitForCard(w) \/ NoAnswer(w) \/ AnswerYes(w) \/ AnswerNo(w)
  \/ GiveUp(w) \/ NextRound(w)

-----------------------------------------------------------------------------
(* JZWorker: ClientProc, as far as it minds which manager it talks to      *)

(* A connection, and the first report on it: nSendTime is now.  Should the *)
(* timer be in its long sleep, nDelayFlag is 0 before its time can come.   *)
Attach(w) ==
  /\ pc[w] = "found"
  /\ ethStatus[w]
  /\ \E m \in Manager : strMasterIP[w] = m /\ Reachable(w, m)
  /\ pc' = [pc EXCEPT ![w] = "served"]
  /\ conns' = conns \cup {w}
  /\ idle' = [idle EXCEPT ![w] = 0]
  /\ dog' = [dog EXCEPT ![w] = IF @ = "asleep" THEN "ready" ELSE @]
  /\ UNCHANGED <<managerVars, nTimes, nLoopTotal, strMasterIP, last, nicVars,
                 faultVars>>
  /\ Watch

(* Nobody answers at the address: it is forgotten.                         *)
AttachFails(w) ==
  /\ pc[w] = "found"
  /\ ethStatus[w]
  /\ \E m \in Manager : strMasterIP[w] = m /\ ~Reachable(w, m)
  /\ Search(w)
  /\ \E d \in 1 .. Slow : Takes(w, d)
  /\ UNCHANGED <<managerVars, last, conns, nicVars, faultVars>>
  /\ Watch

(* A heartbeat goes out; if there is a way the manager's ClientProc gets   *)
(* it and answers.  The first answer lets the timer begin to look.         *)
SendReport(w) ==
  /\ pc[w] = "served"
  /\ w \in conns
  /\ last' = [last EXCEPT ![w] = strMasterIP[w]]
  /\ reports' = reports \cup {m \in Manager : m = strMasterIP[w] /\ Reachable(w, m)}
  /\ dog' = [dog EXCEPT ![w] =
       IF @ = "off" /\ \E m \in Manager : m = strMasterIP[w] /\ Reachable(w, m)
       THEN "ready" ELSE @]
  /\ UNCHANGED <<alive, strMaster, card, noticed, pc, nTimes, nLoopTotal,
                 strMasterIP, conns, nicVars, idle, faultVars>>
  /\ Watch

(* A read fails: the manager's process is gone, or nothing comes within    *)
(* the 5 seconds of a read.  The same address is tried again.              *)
LoseConnection(w) ==
  /\ pc[w] = "served"
  /\ w \in conns => \E m \in Manager : strMasterIP[w] = m /\ ~Reachable(w, m)
  /\ pc' = [pc EXCEPT ![w] = "found"]
  /\ conns' = conns \ {w}
  /\ Takes(w, 2)
  /\ UNCHANGED <<managerVars, nTimes, nLoopTotal, strMasterIP, last, nicVars,
                 faultVars>>
  /\ Watch

(* The own card is seen down: close, forget the address.                   *)
LeaveOffline(w) ==
  /\ pc[w] = "served"
  /\ ~ethStatus[w]
  /\ Search(w)
  /\ conns' = conns \ {w}
  /\ Takes(w, 1)
  /\ UNCHANGED <<managerVars, last, nicVars, faultVars>>
  /\ Watch

ClientProc(w) ==
  \/ WhoIsMaster(w)
  \/ Attach(w) \/ AttachFails(w) \/ LoseConnection(w) \/ LeaveOffline(w)

(* ProcessNICProc of the worker.                                           *)
NicOnline(w) ==
  /\ cable[w]
  /\ ethStatus' = [ethStatus EXCEPT ![w] = TRUE]
  /\ UNCHANGED <<managerVars, searchVars, cable, timerVars, faultVars>>
  /\ Watch

NicOffline(w) ==
  /\ ~cable[w]
  /\ ethStatus' = [ethStatus EXCEPT ![w] = FALSE]
  /\ last' = [last EXCEPT ![w] = None]
  /\ UNCHANGED <<managerVars, pc, nTimes, nLoopTotal, strMasterIP, conns, cable,
                 timerVars, faultVars>>
  /\ Watch

-----------------------------------------------------------------------------
(* JZWorker: CancelRecvThread                                              *)

(* After a cancellation the next expiry only begins a sleep of another 60  *)
(* seconds.                                                                *)
Doze(w) ==
  /\ dog[w] = "delay" /\ Expired(w)
  /\ dog' = [dog EXCEPT ![w] = "asleep"]
  /\ idle' = [idle EXCEPT ![w] = 0]
  /\ UNCHANGED <<managerVars, searchVars, nicVars, faultVars>>
  /\ Watch

(* Mutant: nDelayFlag is not set.                                          *)
CancelUndelayed(w) ==
  /\ dog[w] \in {"ready", "asleep"} /\ Expired(w)
  /\ Search(w)
  /\ conns' = conns \ {w}
  /\ idle' = [idle EXCEPT ![w] = 0]
  /\ dog' = [dog EXCEPT ![w] = "ready"]
  /\ UNCHANGED <<managerVars, last, nicVars, faultVars>>
  /\ Watching({w})

(* No heartbeat for too long: the socket is closed, ClientProc cancelled   *)
(* and made anew, wherever its search has got to.                          *)
CancelClientProc(w) ==
  /\ dog[w] \in {"ready", "asleep"} /\ Expired(w)
  /\ Search(w)
  /\ conns' = conns \ {w}
  /\ idle' = [idle EXCEPT ![w] = 0]
  /\ dog' = [dog EXCEPT ![w] = "delay"]
  /\ UNCHANGED <<managerVars, last, nicVars, faultVars>>
  /\ Watching({w})

CancelRecvThread(w) == Doze(w) \/ CancelClientProc(w)

-----------------------------------------------------------------------------
(* JZManager                                                               *)

(* ClientProc has answered a heartbeat: a backhost becomes master.         *)
Promote(m) ==
  /\ m \in reports
  /\ reports' = reports \ {m}
  /\ strMaster' = [strMaster EXCEPT ![m] = @ \/ m # Main]
  /\ UNCHANGED <<alive, card, noticed, searchVars, nicVars, timerVars,
                 faultVars>>
  /\ Watch

(* Mutant: a manager without a network stays master.                       *)
NicWatchIdle(m) ==
  /\ alive[m] /\ ~card[m]
  /\ noticed' = [noticed EXCEPT ![m] = TRUE]
  /\ UNCHANGED <<alive, strMaster, card, reports, searchVars, nicVars, timerVars,
                 faultVars>>
  /\ Watch

(* ProcessNICProc, every two seconds: no master without a network.         *)
NicWatch(m) ==
  /\ alive[m] /\ ~card[m]
  /\ strMaster' = [strMaster EXCEPT ![m] = FALSE]
  /\ noticed' = [noticed EXCEPT ![m] = TRUE]
  /\ UNCHANGED <<alive, card, reports, searchVars, nicVars, timerVars, faultVars>>
  /\ Watch

-----------------------------------------------------------------------------
(* Faults.  Any but "card" and "kill" may part a worker from a master that *)
(* goes on being one, or make a mainhost master a second time.             *)
Fault(kind) ==
  /\ kind \in Faults
  /\ budget > 0
  /\ budget' = budget - 1
  /\ disturbed' = (disturbed \/ kind \notin {"card", "kill"})

CardDown(m) ==
  /\ Fault("card")
  /\ card[m]
  /\ card' = [card EXCEPT ![m] = FALSE]
  /\ noticed' = [noticed EXCEPT ![m] = FALSE]
  /\ UNCHANGED <<alive, strMaster, reports, searchVars, nicVars, timerVars>>
  /\ Watch

(* An outage lasts two seconds at least, or else it is a fault by itself.  *)
CardUp(m) ==
  /\ ~card[m]
  /\ IF noticed[m] THEN UNCHANGED faultVars ELSE Fault("blink")
  /\ card' = [card EXCEPT ![m] = TRUE]
  /\ UNCHANGED <<alive, strMaster, noticed, reports, searchVars, nicVars, timerVars>>
  /\ Watch

(* The process ends, and with it its connections.                          *)
Crash(m) ==
  /\ Fault("crash")
  /\ alive[m]
  /\ alive' = [alive EXCEPT ![m] = FALSE]
  /\ strMaster' = [strMaster EXCEPT ![m] = FALSE]
  /\ reports' = reports \ {m}
  /\ conns' = {w \in conns : strMasterIP[w] # m}
  /\ UNCHANGED <<card, noticed, pc, nTimes, nLoopTotal, strMasterIP, last, nicVars,
                 timerVars>>
  /\ Watch

(* ReadConfigInfo at the start: a mainhost is master whatever has happened *)
(* in the meantime.                                                        *)
Restart(m) ==
  /\ ~alive[m]
  /\ alive' = [alive EXCEPT ![m] = TRUE]
  /\ strMaster' = [strMaster EXCEPT ![m] = m = Main]
  /\ UNCHANGED <<card, noticed, reports, searchVars, nicVars, timerVars, faultVars>>
  /\ Watch

CableDown(w) ==
  /\ Fault("cable")
  /\ cable[w]
  /\ cable' = [cable EXCEPT ![w] = FALSE]
  /\ UNCHANGED <<managerVars, searchVars, ethStatus, timerVars>>
  /\ Watch

CableUp(w) ==
  /\ ~cable[w]
  /\ cable' = [cable EXCEPT ![w] = TRUE]
  /\ UNCHANGED <<managerVars, searchVars, ethStatus, timerVars, faultVars>>
  /\ Watch

(* The worker's child process dies and is forked again, the timer with it. *)
Kill(w) ==
  /\ Fault("kill")
  /\ Search(w)
  /\ last' = [last EXCEPT ![w] = None]
  /\ conns' = conns \ {w}
  /\ ethStatus' = [ethStatus EXCEPT ![w] = FALSE]
  /\ idle' = [idle EXCEPT ![w] = 0]
  /\ dog' = [dog EXCEPT ![w] = "off"]
  /\ UNCHANGED <<managerVars, cable>>
  /\ Watching({w})

-----------------------------------------------------------------------------
Next ==
  \/ \E w \in Worker :
       \/ ClientProc(w) \/ SendReport(w) \/ NicOnline(w) \/ NicOffline(w)
       \/ CancelRecvThread(w)
       \/ CableDown(w) \/ CableUp(w) \/ Kill(w)
  \/ \E m \in Manager :
       \/ Promote(m) \/ NicWatch(m)
       \/ CardDown(m) \/ CardUp(m) \/ Crash(m) \/ Restart(m)

Spec == Init /\ [][Next]_vars

(* The threads of workers and managers loop for ever.  No fault is fair,   *)
(* nor is its repair.                                                      *)
Fairness ==
  /\ \A w \in Worker :
       /\ WF_vars(ClientProc(w))
       /\ WF_vars(SendReport(w))
       /\ WF_vars(CancelRecvThread(w))
       /\ WF_vars(NicOnline(w))
       /\ WF_vars(NicOffline(w))
  /\ \A m \in Manager :
       /\ WF_vars(Promote(m))
       /\ WF_vars(NicWatch(m))

FairSpec == Spec /\ Fairness

-----------------------------------------------------------------------------
(* Properties                                                              *)

(* The shape of every variable.                                            *)
TypeOK ==
  /\ alive \in [Manager -> BOOLEAN]
  /\ strMaster \in [Manager -> BOOLEAN]
  /\ card \in [Manager -> BOOLEAN]
  /\ noticed \in [Manager -> BOOLEAN]
  /\ reports \in SUBSET Manager
  /\ pc \in [Worker -> {"search", "found", "served"}]
  /\ nTimes \in [Worker -> 0 .. 2 * Size]
  /\ nLoopTotal \in [Worker -> 0 .. Patience]
  /\ strMasterIP \in [Worker -> Manager \cup {None}]
  /\ last \in [Worker -> Manager \cup {None}]
  /\ conns \in SUBSET Worker
  /\ cable \in [Worker -> BOOLEAN]
  /\ ethStatus \in [Worker -> BOOLEAN]
  /\ idle \in [Worker -> 0 .. Interval + 2]
  /\ dog \in [Worker -> {"off", "ready", "delay", "asleep"}]
  /\ steady \in [Worker -> SUBSET Manager]
  /\ disturbed \in BOOLEAN
  /\ budget \in 0 .. MaxFaults
  /\ \A w \in Worker : pc[w] # "search" => strMasterIP[w] \in Manager

(* A search during which some manager is master and reachable all the time *)
(* ends at a manager that is master, and starts no second round (which     *)
(* would cost a socket): ten answers of others do not end it too soon.     *)
(* A search that CancelRecvThread cuts off counts anew.                    *)
SteadySearch ==
  [][\A w \in Worker :
       pc[w] = "search" /\ steady[w] # {} =>
         /\ nTimes[w] < 2 * Size
         /\ pc'[w] = "found" => strMaster[strMasterIP'[w]]]_vars

Acting(m) == alive[m] /\ card[m] /\ strMaster[m]

(* No backhost is made master beside a mainhost that acts as one, although *)
(* managers never talk about it: as long as cables hold, no manager is     *)
(* restarted, and outages of cards last longer than two seconds.           *)
MainUndisputed ==
  ~disturbed => (Acting(Main) => \A m \in Manager : strMaster[m] => m = Main)

(* The longest search, when one manager answers that it is not the master  *)
(* and no other answers at all, ends before CancelRecvThread can come a    *)
(* second time.                                                            *)
SearchFits ==
  LET others == 2 * (Size - 1) * Slow IN
  (Patience \div 2) * (others + 3) + (Patience % 2) + others + 1 <= 2 * Interval

(* A worker that can reach some manager for good is served by one in the   *)
(* end, and that one is master, unless it is the mainhost, whose strMaster *)
(* nothing sets to "yes" again once its card has been out: however often   *)
(* CancelRecvThread begins its search anew with the answers at nought, as  *)
(* long as a search fits between two of its cancellations.                 *)
WorkersServed ==
  SearchFits =>
  \A w \in Worker :
    <>[](\E m \in Manager : Reachable(w, m)) =>
    <>[](/\ pc[w] = "served"
         /\ \E m \in Manager : strMasterIP[w] = m /\ (strMaster[m] \/ m = Main))
=============================================================================
