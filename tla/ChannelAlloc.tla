---------------------------- MODULE ChannelAlloc ----------------------------
(***************************************************************************)
(* Allocation of customs channels to worker hosts.                         *)
(*                                                                         *)
(* One JZManager keeps g_sockChannelMap (host -> channels, time of the     *)
(* last heartbeat).  One JZWorker per host reports the channels it holds   *)
(* over a TCP connection, adopts the set in the reply and starts the       *)
(* channels that are new to it.  VoteProc erases a host that has been      *)
(* silent for more than 15 seconds and deals its channels out, one by one, *)
(* to the least loaded hosts.                                              *)
(*                                                                         *)
(* On a host there may also be a JZMaintain.  It shares nothing with the   *)
(* worker but the channel processes: one thread watches the network card,  *)
(* one per entry of its configuration kills and starts a channel every day *)
(* at the time of the entry, if the manager's table gives the channel to   *)
(* this host.                                                              *)
(*                                                                         *)
(* A host is the rank of its IP address in the order of the std::map, a    *)
(* channel is its number.  Time is abstracted to fresh: the hosts heard    *)
(* from within the last 15 seconds.  Of JZMaintain the time of day and the *)
(* table it takes from HostInfo.xml are left open: that file may lag       *)
(* behind by any time (HostInfoSync).                                      *)
(***************************************************************************)
EXTENDS Integers, FiniteSets

CONSTANTS
  Worker,     \* the worker hosts
  Channel,    \* the channel numbers
  Config,     \* channels in the JZWorkerConfig.xml of each host at first boot
  Entries,    \* host and channel of each entry of a JZMaintainConfig.xml
  BackHost,   \* TRUE iff strHostRole = "backhost" on this manager
  Faults,     \* which faults the environment may inject
  MaxFaults   \* bound on their number

FaultKinds == {"crash", "cut", "host", "link", "delay"}

ASSUME AllocAssumption ==
  /\ Worker \subseteq Int
  /\ Channel \subseteq Int
  /\ IsFiniteSet(Channel)
  /\ Config \in [Worker -> SUBSET Channel]
  /\ \A a, b \in Worker : a # b => Config[a] \cap Config[b] = {}
  /\ Entries \subseteq Worker \X Channel
  /\ BackHost \in BOOLEAN
  /\ Faults \subseteq FaultKinds
  /\ MaxFaults \in Nat

VARIABLES
  \* JZManager
  registered, \* domain of g_sockChannelMap
  chnls,      \* its chnlSet per host ({} when the host is not registered)
  fresh,      \* hosts whose nTime is at most 15 seconds old
  master,     \* g_configInfo.strMaster = "yes"
  votePc,     \* where VoteProc is; it holds g_sockChannelLock in "assign*"
  pending,    \* channels of tmpWorker (or diffSet) not yet dealt out
  \* JZWorker, per host
  session,    \* "down" (host), "crashed" (process), "idle", "conn", or
              \* "start": busy with what is new in a reply, from its
              \* publication to the report
  chnlSet,    \* g_chnlSet
  chnlSetLast,\* chnlSetLast of the ClientProc thread
  running,    \* channel processes alive on the host
  starting,   \* the rest of diffSet: published, start script not yet run
  skipped,    \* history: what a cancelled ClientProc left of its diffSet
  link,       \* the network cable, as get_netlink_status sees it
  ethStatus,  \* m_nETHStatus
  nicPc,      \* ProcessNICProc: "poll", or "kill" between clear and kill
  \* JZMaintain
  cardSeen,   \* the hosts whose m_nETHStatus is 1 in JZMaintain
  cron,       \* JZCrontabThread of each entry: "wait", "kill", "start"
  \* the connections
  report,     \* type 1 messages under way on the current connection
  oldReport,  \* type 1 messages left on connections the worker gave up
  reply,      \* type 2 messages under way on the current connection
  budget      \* faults the environment may still inject

mgrVars  == <<registered, chnls, fresh, master>>
voteVars == <<votePc, pending>>
startVars == <<starting, skipped>>
procVars == <<chnlSet, chnlSetLast, running, startVars>>
maintVars == <<cardSeen, cron>>
nicVars  == <<link, ethStatus, nicPc, maintVars>>
netVars  == <<report, oldReport, reply>>
vars == <<mgrVars, voteVars, session, procVars, nicVars, netVars, budget>>

(***************************************************************************)
(* The channels the configuration of this manager knows (hostInfoVect).    *)
(***************************************************************************)
KnownChannels == UNION {Config[w] : w \in Worker}

(* Every message is handled within seconds: no fault delays one.           *)
Prompt == Faults \cap {"link", "delay"} = {}

LockFree == votePc \notin {"assign", "assignDiff"}

(***************************************************************************)
(* Every worker starts with RebootFlag "0": it takes its configured        *)
(* channels, which the boot of the host has already started.  The manager  *)
(* starts with an empty map.                                               *)
(***************************************************************************)
Init ==
  /\ registered = {}
  /\ chnls = [w \in Worker |-> {}]
  /\ fresh = {}
  /\ master = ~BackHost
  /\ votePc = "scan"
  /\ pending = {}
  /\ session = [w \in Worker |-> "idle"]
  /\ chnlSet = Config
  /\ chnlSetLast = [w \in Worker |-> {}]
  /\ running = Config
  /\ starting = [w \in Worker |-> {}]
  /\ skipped = [w \in Worker |-> {}]
  /\ link = [w \in Worker |-> TRUE]
  /\ ethStatus = [w \in Worker |-> FALSE]
  /\ nicPc = [w \in Worker |-> "poll"]
  /\ cardSeen = {}
  /\ cron = [e \in Entries |-> "wait"]
  /\ report = [w \in Worker |-> {}]
  /\ oldReport = [w \in Worker |-> {}]
  /\ reply = [w \in Worker |-> {}]
  /\ budget = MaxFaults

-----------------------------------------------------------------------------
(* JZManager: ClientProc                                                   *)

(***************************************************************************)
(* What the critical section of ClientProc does to the map when host w     *)
(* reports S, and what it answers.  Only sizes are compared.               *)
(***************************************************************************)
UpdateMap(w, S) ==
  /\ registered' = registered \cup {w}
  /\ fresh' = fresh \cup {w}
  /\ chnls' = IF w \in registered /\ Cardinality(chnls[w]) >= Cardinality(S)
              THEN chnls
              ELSE [chnls EXCEPT ![w] = S]
  /\ master' = (master \/ BackHost)

(* Mutant: the manager echoes every report.                                *)
AnswerEchoes(w, S) == S

Answer(w, S) ==
  IF w \in registered /\ Cardinality(chnls[w]) > Cardinality(S)
  THEN chnls[w]
  ELSE S

(* A report on the current connection of w: update the map, then reply.    *)
HandleReport(w) ==
  /\ LockFree
  /\ link[w]
  /\ \E S \in report[w] :
       /\ UpdateMap(w, S)
       /\ report' = [report EXCEPT ![w] = @ \ {S}]
       /\ reply' = [reply EXCEPT ![w] = @ \cup {Answer(w, S)}]
  /\ UNCHANGED <<voteVars, session, procVars, nicVars, oldReport, budget>>

(* The thread of a connection the worker has given up still handles what   *)
(* it had received; its reply reaches nobody.                              *)
HandleOldReport(w) ==
  /\ LockFree
  /\ \E S \in oldReport[w] :
       /\ UpdateMap(w, S)
       /\ oldReport' = [oldReport EXCEPT ![w] = @ \ {S}]
  /\ UNCHANGED <<voteVars, session, procVars, nicVars, report, reply, budget>>

-----------------------------------------------------------------------------
(* JZManager: VoteProc                                                     *)

(***************************************************************************)
(* 15 seconds pass without a heartbeat of w: because its host is down and  *)
(* whatever was under way meanwhile has been handled, because its cable is *)
(* out, or (fault "delay") because the network or the worker is slow.      *)
(***************************************************************************)
Silent(w) ==
  \/ /\ session[w] = "down"
     /\ report[w] = {}
     /\ \A v \in Worker : oldReport[v] = {}
  \/ ~link[w]

Elapse(w) ==
  /\ w \in registered \cap fresh
  /\ fresh' = fresh \ {w}
  /\ \/ Silent(w) /\ UNCHANGED budget
     \/ ~Silent(w) /\ "delay" \in Faults /\ budget > 0 /\ budget' = budget - 1
  /\ UNCHANGED <<registered, chnls, master, voteVars, session, procVars,
                 nicVars, netVars>>

(* Mutant: the age of the heartbeat is not looked at.                      *)
VoteScanFresh ==
  /\ votePc = "scan"
  /\ master
  /\ \E w \in registered :
       /\ registered' = registered \ {w}
       /\ chnls' = [chnls EXCEPT ![w] = {}]
       /\ pending' = chnls[w]
  /\ votePc' = "gap"
  /\ UNCHANGED <<fresh, master, session, procVars, nicVars, netVars, budget>>

(* Mutant: the channels of a silent host are dealt out, the host stays.    *)
VoteScanKeepsHost ==
  /\ votePc = "scan"
  /\ master
  /\ pending' = UNION {chnls[w] : w \in registered \ fresh}
  /\ votePc' = "gap"
  /\ UNCHANGED <<mgrVars, session, procVars, nicVars, netVars, budget>>

(* The first host of the map that is more than 15 seconds old is erased    *)
(* and its channels are kept in tmpWorker; at most one host per round.     *)
VoteScan ==
  /\ votePc = "scan"
  /\ master
  /\ LET expired == registered \ fresh IN
       \/ /\ expired = {}
          /\ pending' = {}
          /\ UNCHANGED <<registered, chnls>>
       \/ \E w \in expired :
            /\ \A v \in expired : w <= v
            /\ registered' = registered \ {w}
            /\ chnls' = [chnls EXCEPT ![w] = {}]
            /\ pending' = chnls[w]
  /\ votePc' = "gap"
  /\ UNCHANGED <<fresh, master, session, procVars, nicVars, netVars, budget>>

(* g_sockChannelLock is taken again, 50 ms later (or, for diffSet, after   *)
(* the two snapshots).                                                     *)
VoteLock ==
  /\ \/ votePc = "gap" /\ votePc' = "assign"
     \/ votePc = "gapDiff" /\ votePc' = "assignDiff"
  /\ UNCHANGED <<mgrVars, pending, session, procVars, nicVars, netVars, budget>>

(* The host VoteProc picks: the first of the smallest in map order.        *)
LeastLoaded(h) ==
  \A g \in registered :
    \/ Cardinality(chnls[h]) < Cardinality(chnls[g])
    \/ Cardinality(chnls[h]) = Cardinality(chnls[g]) /\ h <= g

(* Mutant: no check that the search for the smallest host found one.       *)
VoteAssignUnchecked ==
  /\ ~LockFree
  /\ \E c \in pending :
       /\ pending' = pending \ {c}
       /\ \E h \in Worker :
            /\ LeastLoaded(h)
            /\ chnls' = [chnls EXCEPT ![h] = @ \cup {c}]
  /\ UNCHANGED <<registered, fresh, master, votePc, session, procVars, nicVars,
                 netVars, budget>>

(* Mutant: the dealing loop stops after the first channel.                 *)
VoteAssignOnce ==
  /\ ~LockFree
  /\ \E c \in pending :
       /\ pending' = {}
       /\ \/ registered = {} /\ UNCHANGED chnls
          \/ \E h \in registered :
               /\ LeastLoaded(h)
               /\ chnls' = [chnls EXCEPT ![h] = @ \cup {c}]
  /\ UNCHANGED <<registered, fresh, master, votePc, session, procVars, nicVars,
                 netVars, budget>>

(* One iteration of the dealing loop: the smallest channel left goes to    *)
(* the least loaded host, or to nobody when the map is empty.              *)
VoteAssign ==
  /\ ~LockFree
  /\ \E c \in pending :
       /\ \A d \in pending : c <= d
       /\ pending' = pending \ {c}
       /\ \/ registered = {} /\ UNCHANGED chnls
          \/ \E h \in registered :
               /\ LeastLoaded(h)
               /\ chnls' = [chnls EXCEPT ![h] = @ \cup {c}]
  /\ UNCHANGED <<registered, fresh, master, votePc, session, procVars, nicVars,
                 netVars, budget>>

(* Mutant: the role test is inverted.                                      *)
VoteUnlockRoles ==
  /\ ~LockFree
  /\ pending = {}
  /\ votePc' = IF votePc = "assign" /\ ~BackHost THEN "snap" ELSE "scan"
  /\ UNCHANGED <<mgrVars, pending, session, procVars, nicVars, netVars, budget>>

VoteUnlock ==
  /\ ~LockFree
  /\ pending = {}
  /\ votePc' = IF votePc = "assign" /\ BackHost THEN "snap" ELSE "scan"
  /\ UNCHANGED <<mgrVars, pending, session, procVars, nicVars, netVars, budget>>

(* A backhost also deals out the configured channels that no registered    *)
(* host holds; the difference is taken outside the lock.                   *)
VoteSnapshot ==
  /\ votePc = "snap"
  /\ LET diff == KnownChannels \ UNION {chnls[w] : w \in registered} IN
       /\ pending' = diff
       /\ votePc' = IF diff = {} THEN "scan" ELSE "gapDiff"
  /\ UNCHANGED <<mgrVars, session, procVars, nicVars, netVars, budget>>

-----------------------------------------------------------------------------
(* JZWorker: ClientProc                                                    *)

(* A new connection: g_chnlSet is copied and sent as the first report.     *)
Connect(w) ==
  /\ session[w] = "idle"
  /\ ethStatus[w]
  /\ link[w]
  /\ session' = [session EXCEPT ![w] = "conn"]
  /\ chnlSetLast' = [chnlSetLast EXCEPT ![w] = chnlSet[w]]
  /\ report' = [report EXCEPT ![w] = {chnlSet[w]}]
  /\ reply' = [reply EXCEPT ![w] = {}]
  /\ UNCHANGED <<mgrVars, voteVars, chnlSet, running, startVars, nicVars,
                 oldReport, budget>>

(* A reply with nothing new: its set is adopted and reported back.         *)
EchoReply(w) ==
  /\ session[w] = "conn"
  /\ \E S \in reply[w] :
       /\ S \subseteq chnlSetLast[w]
       /\ chnlSetLast' = [chnlSetLast EXCEPT ![w] = S]
       /\ reply' = [reply EXCEPT ![w] = @ \ {S}]
       /\ report' = [report EXCEPT ![w] = @ \cup {S}]
  /\ UNCHANGED <<mgrVars, voteVars, session, chnlSet, running, startVars, nicVars,
                 oldReport, budget>>

(* A reply with something new: its set is adopted, and published before    *)
(* what is new is started.                                                 *)
TakeReply(w) ==
  /\ session[w] = "conn"
  /\ \E S \in reply[w] :
       LET diffSet == S \ chnlSetLast[w] IN
       /\ diffSet # {}
       /\ chnlSetLast' = [chnlSetLast EXCEPT ![w] = S]
       /\ chnlSet' = [chnlSet EXCEPT ![w] = S]
       /\ starting' = [starting EXCEPT ![w] = diffSet]
       /\ reply' = [reply EXCEPT ![w] = @ \ {S}]
  /\ session' = [session EXCEPT ![w] = "start"]
  /\ UNCHANGED <<mgrVars, voteVars, running, skipped, nicVars, report, oldReport,
                 budget>>

(* Mutant: the loop over diffSet is left after its first channel.          *)
StartFirst(w) ==
  /\ session[w] = "start"
  /\ \E c \in starting[w] :
       /\ \A d \in starting[w] : c <= d
       /\ running' = [running EXCEPT ![w] = @ \cup {c}]
  /\ starting' = [starting EXCEPT ![w] = {}]
  /\ UNCHANGED <<mgrVars, voteVars, session, chnlSet, chnlSetLast, skipped, nicVars,
                 netVars, budget>>

(* The start script of the next new channel.                               *)
StartNext(w) ==
  /\ session[w] = "start"
  /\ \E c \in starting[w] :
       /\ \A d \in starting[w] : c <= d
       /\ starting' = [starting EXCEPT ![w] = @ \ {c}]
       /\ running' = [running EXCEPT ![w] = @ \cup {c}]
       /\ skipped' = [skipped EXCEPT ![w] = @ \ {c}]
  /\ UNCHANGED <<mgrVars, voteVars, session, chnlSet, chnlSetLast, nicVars, netVars,
                 budget>>

(* When all have been started the set goes back as the next report.        *)
SendReport(w) ==
  /\ session[w] = "start"
  /\ starting[w] = {}
  /\ report' = [report EXCEPT ![w] = @ \cup {chnlSetLast[w]}]
  /\ session' = [session EXCEPT ![w] = "conn"]
  /\ UNCHANGED <<mgrVars, voteVars, procVars, nicVars, oldReport, reply, budget>>

(* The connection of w ends: a report under way is lost, or stays readable *)
(* for the manager's thread of that connection.                            *)
DropConnection(w) ==
  /\ oldReport' \in {oldReport,
                     [oldReport EXCEPT ![w] = @ \cup report[w]]}
  /\ report' = [report EXCEPT ![w] = {}]
  /\ reply' = [reply EXCEPT ![w] = {}]

(* A read, a write or the 60 s watchdog ends the session; g_chnlSet stays. *)
(* In the midst of the starts it is the watchdog alone: it found the times *)
(* of the last report and reply old just before this reply was read, and   *)
(* cancels the thread in system(), which leaves the rest unstarted.        *)
Cut(w) ==
  /\ "cut" \in Faults
  /\ budget > 0
  /\ budget' = budget - 1
  /\ session[w] \in {"conn", "start"}
  /\ session' = [session EXCEPT ![w] = "idle"]
  /\ starting' = [starting EXCEPT ![w] = {}]
  /\ skipped' = [skipped EXCEPT ![w] = @ \cup starting[w]]
  /\ DropConnection(w)
  /\ UNCHANGED <<mgrVars, voteVars, chnlSet, chnlSetLast, running, nicVars>>

(* ClientProc sees m_nETHStatus = 0 after a read and closes the socket.    *)
LeaveOffline(w) ==
  /\ session[w] = "conn"
  /\ ~ethStatus[w]
  /\ session' = [session EXCEPT ![w] = "idle"]
  /\ DropConnection(w)
  /\ UNCHANGED <<mgrVars, voteVars, procVars, nicVars, budget>>

ClientProc(w) ==
  \/ Connect(w) \/ EchoReply(w) \/ TakeReply(w) \/ StartNext(w) \/ SendReport(w)
  \/ LeaveOffline(w)

-----------------------------------------------------------------------------
(* JZWorker: the process, the host and the network card                    *)

Alive(w) == session[w] \in {"idle", "conn", "start"}

(* The channels a thread had yet to start die with the process.            *)
ForgetStarts(w) ==
  /\ starting' = [starting EXCEPT ![w] = {}]
  /\ skipped' = [skipped EXCEPT ![w] = {}]

(* The child process dies: g_chnlSet is lost, the channels live on.        *)
Crash(w) ==
  /\ "crash" \in Faults
  /\ budget > 0
  /\ budget' = budget - 1
  /\ Alive(w)
  /\ session' = [session EXCEPT ![w] = "crashed"]
  /\ chnlSet' = [chnlSet EXCEPT ![w] = {}]
  /\ chnlSetLast' = [chnlSetLast EXCEPT ![w] = {}]
  /\ ethStatus' = [ethStatus EXCEPT ![w] = FALSE]
  /\ nicPc' = [nicPc EXCEPT ![w] = "poll"]
  /\ ForgetStarts(w)
  /\ DropConnection(w)
  /\ UNCHANGED <<mgrVars, voteVars, running, link, maintVars>>

(* The whole host goes down, the channels with it.                         *)
HostDown(w) ==
  /\ "host" \in Faults
  /\ budget > 0
  /\ budget' = budget - 1
  /\ session[w] # "down"
  /\ session' = [session EXCEPT ![w] = "down"]
  /\ chnlSet' = [chnlSet EXCEPT ![w] = {}]
  /\ chnlSetLast' = [chnlSetLast EXCEPT ![w] = {}]
  /\ running' = [running EXCEPT ![w] = {}]
  /\ ethStatus' = [ethStatus EXCEPT ![w] = FALSE]
  /\ nicPc' = [nicPc EXCEPT ![w] = "poll"]
  /\ cardSeen' = cardSeen \ {w}
  /\ cron' = [e \in Entries |-> IF e[1] = w THEN "wait" ELSE cron[e]]
  /\ ForgetStarts(w)
  /\ DropConnection(w)
  /\ UNCHANGED <<mgrVars, voteVars, link>>

(* rsmain runs again, 3 seconds later.  RebootFlag is "1" since the first  *)
(* run, so the configured channels are not taken again.  A report of the   *)
(* dead process outlives the pause only when messages may be late.         *)
Restart(w) ==
  /\ session[w] \in {"crashed", "down"}
  /\ Prompt => oldReport[w] = {}
  /\ session' = [session EXCEPT ![w] = "idle"]
  /\ chnlSet' = [chnlSet EXCEPT ![w] = {}]
  /\ UNCHANGED <<mgrVars, voteVars, chnlSetLast, running, startVars, nicVars,
                 netVars, budget>>

LinkDown(w) ==
  /\ "link" \in Faults
  /\ budget > 0
  /\ budget' = budget - 1
  /\ link[w]
  /\ link' = [link EXCEPT ![w] = FALSE]
  /\ UNCHANGED <<mgrVars, voteVars, session, procVars, ethStatus, nicPc,
                 maintVars, netVars>>

LinkUp(w) ==
  /\ ~link[w]
  /\ link' = [link EXCEPT ![w] = TRUE]
  /\ UNCHANGED <<mgrVars, voteVars, session, procVars, ethStatus, nicPc,
                 maintVars, netVars, budget>>

(* ProcessNICProc, cable in: mark the card as up.                          *)
NicOnline(w) ==
  /\ Alive(w)
  /\ nicPc[w] = "poll"
  /\ link[w]
  /\ ethStatus' = [ethStatus EXCEPT ![w] = TRUE]
  /\ UNCHANGED <<mgrVars, voteVars, session, procVars, link, nicPc, maintVars,
                 netVars, budget>>

(* Mutant: only the transition from up to down is acted on.                *)
NicClearOnce(w) ==
  /\ Alive(w)
  /\ nicPc[w] = "poll"
  /\ ~link[w]
  /\ ethStatus[w]
  /\ chnlSet' = [chnlSet EXCEPT ![w] = {}]
  /\ nicPc' = [nicPc EXCEPT ![w] = "kill"]
  /\ UNCHANGED <<mgrVars, voteVars, session, chnlSetLast, running, startVars,
                 link, ethStatus, maintVars, netVars, budget>>

(* ProcessNICProc, cable out: g_chnlSet is cleared first ...               *)
NicClear(w) ==
  /\ Alive(w)
  /\ nicPc[w] = "poll"
  /\ ~link[w]
  /\ chnlSet' = [chnlSet EXCEPT ![w] = {}]
  /\ nicPc' = [nicPc EXCEPT ![w] = "kill"]
  /\ UNCHANGED <<mgrVars, voteVars, session, chnlSetLast, running, startVars,
                 link, ethStatus, maintVars, netVars, budget>>

(* ... then the card is marked down and the kill script is run.            *)
NicKill(w) ==
  /\ Alive(w)
  /\ nicPc[w] = "kill"
  /\ ethStatus' = [ethStatus EXCEPT ![w] = FALSE]
  /\ running' = [running EXCEPT ![w] = {}]
  /\ nicPc' = [nicPc EXCEPT ![w] = "poll"]
  /\ UNCHANGED <<mgrVars, voteVars, session, chnlSet, chnlSetLast, startVars,
                 link, maintVars, netVars, budget>>

ProcessNICProc(w) == NicOnline(w) \/ NicClear(w) \/ NicKill(w)

-----------------------------------------------------------------------------
(* JZMaintain                                                              *)

Maintained == {e[1] : e \in Entries}

(* ProcessNICProc of JZMaintain, every 2 seconds.                          *)
PollCard(w) ==
  /\ session[w] # "down"
  /\ (w \in cardSeen) # link[w]
  /\ cardSeen' = IF link[w] THEN cardSeen \cup {w} ELSE cardSeen \ {w}
  /\ UNCHANGED <<mgrVars, voteVars, session, procVars, link, ethStatus, nicPc,
                 cron, netVars, budget>>

(* A round of JZCrontabThread that saw the card in and then finds the      *)
(* channel listed for this host and the time of its entry come.            *)
FindDue(e) ==
  /\ session[e[1]] # "down"
  /\ cron[e] = "wait"
  /\ e[1] \in cardSeen
  /\ cron' = [cron EXCEPT ![e] = "kill"]
  /\ UNCHANGED <<mgrVars, voteVars, session, procVars, link, ethStatus, nicPc,
                 cardSeen, netVars, budget>>

(* One of the two scripts is run, whatever has happened to the card and to *)
(* the assignment of the channel since.                                    *)
RunScript(e, now, next, left) ==
  /\ session[e[1]] # "down"
  /\ cron[e] = now
  /\ cron' = [cron EXCEPT ![e] = next]
  /\ running' = [running EXCEPT ![e[1]] = left]
  /\ UNCHANGED <<mgrVars, voteVars, session, chnlSet, chnlSetLast, startVars,
                 link, ethStatus, nicPc, cardSeen, netVars, budget>>

KillChannel(e) == RunScript(e, "kill", "start", running[e[1]] \ {e[2]})
StartChannel(e) == RunScript(e, "start", "wait", running[e[1]] \cup {e[2]})
Restarting(e) == KillChannel(e) \/ StartChannel(e)

-----------------------------------------------------------------------------
MaintStep ==
  \/ \E w \in Maintained : PollCard(w)
  \/ \E e \in Entries : FindDue(e) \/ Restarting(e)

VoteStep == VoteScan \/ VoteLock \/ VoteAssign \/ VoteUnlock \/ VoteSnapshot

Next ==
  \/ VoteStep
  \/ MaintStep
  \/ \E w \in Worker :
       \/ HandleReport(w) \/ HandleOldReport(w) \/ Elapse(w)
       \/ ClientProc(w) \/ Cut(w)
       \/ Crash(w) \/ HostDown(w) \/ Restart(w)
       \/ LinkDown(w) \/ LinkUp(w)
       \/ ProcessNICProc(w)

Spec == Init /\ [][Next]_vars

(***************************************************************************)
(* Threads that loop for ever keep running: VoteProc, the worker's         *)
(* ClientProc and ProcessNICProc, and the parent that restarts the child.  *)
(* A report waits for a lock that VoteProc frees for 15 seconds in every   *)
(* round, hence strong fairness.  No fault and no LinkUp is fair.          *)
(***************************************************************************)
Fairness ==
  /\ WF_vars(VoteStep)
  /\ \A w \in Worker :
       /\ SF_vars(HandleReport(w))
       /\ SF_vars(HandleOldReport(w))
       /\ WF_vars(ClientProc(w))
       /\ WF_vars(session[w] = "crashed" /\ Restart(w))
       /\ WF_vars(ProcessNICProc(w))

FairSpec == Spec /\ Fairness

(***************************************************************************)
(* Only the watches of the card, the parent and the threads of JZMaintain: *)
(* no entry need ever be due, and nothing is asked of the manager and of   *)
(* messages.                                                               *)
(***************************************************************************)
WatchSpec ==
  /\ Spec
  /\ \A w \in Worker :
       /\ WF_vars(session[w] = "crashed" /\ Restart(w))
       /\ WF_vars(ProcessNICProc(w))
  /\ \A w \in Maintained : WF_vars(PollCard(w))
  /\ \A e \in Entries : WF_vars(Restarting(e))

-----------------------------------------------------------------------------
(* Properties                                                              *)

(* The shape of every variable.                                            *)
TypeOK ==
  /\ registered \in SUBSET Worker
  /\ chnls \in [Worker -> SUBSET Channel]
  /\ \A w \in Worker \ registered : chnls[w] = {}
  /\ fresh \in SUBSET Worker
  /\ master \in BOOLEAN
  /\ votePc \in {"scan", "gap", "assign", "snap", "gapDiff", "assignDiff"}
  /\ pending \in SUBSET Channel
  /\ session \in [Worker -> {"down", "crashed", "idle", "conn", "start"}]
  /\ chnlSet \in [Worker -> SUBSET Channel]
  /\ chnlSetLast \in [Worker -> SUBSET Channel]
  /\ running \in [Worker -> SUBSET Channel]
  /\ starting \in [Worker -> SUBSET Channel]
  /\ skipped \in [Worker -> SUBSET Channel]
  /\ link \in [Worker -> BOOLEAN]
  /\ ethStatus \in [Worker -> BOOLEAN]
  /\ nicPc \in [Worker -> {"poll", "kill"}]
  /\ cardSeen \in SUBSET Worker
  /\ cron \in [Entries -> {"wait", "kill", "start"}]
  /\ report \in [Worker -> SUBSET SUBSET Channel]
  /\ oldReport \in [Worker -> SUBSET SUBSET Channel]
  /\ reply \in [Worker -> SUBSET SUBSET Channel]
  /\ budget \in 0..MaxFaults

(* No channel belongs to two hosts: a channel that runs on one host, or is *)
(* assigned to it by the manager, neither runs on nor is assigned to       *)
(* another.  It needs a heartbeat that is never 15 seconds late from a     *)
(* host that lives (no "link", no "delay"), a mainhost, and no JZMaintain, *)
(* whose table may still give it a channel that has moved.                 *)
OneOwner ==
  \A a, b \in Worker :
    a # b => (running[a] \cup chnls[a]) \cap (running[b] \cup chnls[b]) = {}

(* What a worker publishes to the platform proxies (g_chnlSet) and what it *)
(* compares the next reply with runs on its host, or its ClientProc is     *)
(* about to start it.  Only the watchdog leaves more: what a thread it     *)
(* cancels in the midst of the starts had published and not started stays  *)
(* published without running, and no later reply makes it start (skipped). *)
(* It fails when the kill script and a reply cross ("link"), and while     *)
(* JZMaintain restarts a channel.                                          *)
PublishedRuns ==
  \A w \in Worker :
    chnlSet[w] \cup chnlSetLast[w] \subseteq running[w] \cup starting[w] \cup skipped[w]

(* The channels the manager has taken charge of.                           *)
Managed == pending \cup UNION {chnls[w] : w \in Worker}

(* The manager never forgets a channel while it has a host to give it to.  *)
NoChannelLost ==
  [][Managed \subseteq Managed' \/ registered = {}]_vars

(* A channel assigned to a host whose worker stays alive ends up running   *)
(* there, unless the assignment changes, or until the process dies again   *)
(* if the watchdog cancelled the thread that was about to start it.        *)
AssignedStarted ==
  \A w \in Worker : \A c \in Channel :
    c \in chnls[w] ~>
      \/ c \in running[w]
      \/ c \notin chnls[w]
      \/ c \in skipped[w]
      \/ session[w] = "down"

(* While the cable of a host stays out, its channels end up stopped, in    *)
(* whatever order the kill script of the worker, the last reply of the     *)
(* manager and the scripts of a scheduled restart come.                    *)
OfflineStopped ==
  \A w \in Worker :
    <>[](~link[w] /\ session[w] # "down") => <>[](running[w] = {})

(* A backhost that has taken over keeps coming back to a map that holds    *)
(* every configured channel, as long as it has a host to give them to.     *)
AllAdopted ==
  []<>( \/ ~master
        \/ registered = {}
        \/ KnownChannels \subseteq UNION {chnls[w] : w \in registered} )

(* The cluster implements the abstract ownership of channels: a channel is *)
(* never started while another host still runs it.                         *)
HeldBy == [c \in Channel |-> {w \in Worker : c \in running[w]}]
Ownership == INSTANCE ChannelOwnership WITH held <- HeldBy
ImplementsOwnership == Ownership!Spec

=============================================================================
