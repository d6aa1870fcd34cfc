------------------------- MODULE ChannelAllocProofs -------------------------
(***************************************************************************)
(* Proofs about ChannelAlloc: the type invariant, PublishedRuns, OneOwner, *)
(* the refinement of ChannelOwnership and NoChannelLost, for every set of  *)
(* hosts and channels.                                                     *)
(***************************************************************************)
EXTENDS ChannelAlloc, FiniteSetTheorems, TLAPS

-----------------------------------------------------------------------------
(* Type correctness                                                        *)

LEMMA KnownTyped == KnownChannels \subseteq Channel
  BY AllocAssumption DEF KnownChannels

LEMMA InitTyped == Init => TypeOK
  BY AllocAssumption DEF Init, TypeOK

(* The critical section of ClientProc keeps the map well-formed.           *)
LEMMA UpdateMapTyped ==
  ASSUME TypeOK, NEW w \in Worker, NEW S \in SUBSET Channel, UpdateMap(w, S)
  PROVE  /\ registered' \in SUBSET Worker
         /\ chnls' \in [Worker -> SUBSET Channel]
         /\ \A v \in Worker \ registered' : chnls'[v] = {}
         /\ fresh' \in SUBSET Worker
         /\ master' \in BOOLEAN
  BY AllocAssumption DEF TypeOK, UpdateMap

LEMMA AnswerTyped ==
  ASSUME TypeOK, NEW w \in Worker, NEW S \in SUBSET Channel
  PROVE  Answer(w, S) \in SUBSET Channel
  BY DEF TypeOK, Answer

LEMMA DropTyped ==
  ASSUME TypeOK, NEW w \in Worker, DropConnection(w)
  PROVE  /\ report' \in [Worker -> SUBSET SUBSET Channel]
         /\ oldReport' \in [Worker -> SUBSET SUBSET Channel]
         /\ reply' \in [Worker -> SUBSET SUBSET Channel]
  BY DEF TypeOK, DropConnection

LEMMA BudgetTyped ==
  ASSUME TypeOK, budget > 0, budget' = budget - 1
  PROVE  budget' \in 0..MaxFaults
  BY AllocAssumption DEF TypeOK

LEMMA VoteTyped == TypeOK /\ VoteStep => TypeOK'
  <1> SUFFICES ASSUME TypeOK, VoteStep PROVE TypeOK'
    OBVIOUS
  <1>1. CASE VoteScan
    BY <1>1
       DEF TypeOK, VoteScan, procVars, startVars, nicVars, maintVars, netVars
  <1>2. CASE VoteLock
    BY <1>2
       DEF TypeOK, VoteLock, mgrVars, procVars, startVars, nicVars, maintVars,
            netVars
  <1>3. CASE VoteAssign
    <2> PICK c \in pending :
          /\ pending' = pending \ {c}
          /\ \/ UNCHANGED chnls
             \/ \E h \in registered : chnls' = [chnls EXCEPT ![h] = @ \cup {c}]
      BY <1>3 DEF VoteAssign
    <2>1. /\ chnls' \in [Worker -> SUBSET Channel]
          /\ \A v \in Worker \ registered : chnls'[v] = {}
      BY DEF TypeOK
    <2> QED
      BY <1>3, <2>1
         DEF TypeOK, VoteAssign, procVars, startVars, nicVars, maintVars,
              netVars
  <1>4. CASE VoteUnlock
    BY <1>4
       DEF TypeOK, VoteUnlock, mgrVars, procVars, startVars, nicVars,
            maintVars, netVars
  <1>5. CASE VoteSnapshot
    BY <1>5, KnownTyped
       DEF TypeOK, VoteSnapshot, mgrVars, procVars, startVars, nicVars,
            maintVars, netVars
  <1> QED
    BY <1>1, <1>2, <1>3, <1>4, <1>5 DEF VoteStep

WorkerStep(w) ==
  \/ HandleReport(w) \/ HandleOldReport(w) \/ Elapse(w)
  \/ Connect(w) \/ EchoReply(w) \/ TakeReply(w) \/ StartNext(w) \/ SendReport(w)
  \/ Cut(w) \/ LeaveOffline(w)
  \/ Crash(w) \/ HostDown(w) \/ Restart(w)
  \/ LinkDown(w) \/ LinkUp(w)
  \/ NicOnline(w) \/ NicClear(w) \/ NicKill(w)

LEMMA NextSplit ==
  [Next]_vars => \/ VoteStep
                 \/ \E w \in Worker : WorkerStep(w)
                 \/ MaintStep
                 \/ UNCHANGED vars
  BY DEF Next, WorkerStep, ClientProc, ProcessNICProc

(* Without entries JZMaintain does nothing.                                *)
LEMMA NoMaint ==
  ASSUME Entries = {} PROVE ~MaintStep
  BY DEF MaintStep, Maintained

LEMMA MaintTyped == TypeOK /\ MaintStep => TypeOK'
  <1> SUFFICES ASSUME TypeOK, MaintStep PROVE TypeOK'
    OBVIOUS
  <1> USE DEF mgrVars, voteVars, procVars, startVars, netVars
  <1>1. ASSUME NEW e \in Entries PROVE e[1] \in Worker /\ e[2] \in Channel
    BY AllocAssumption
  <1>2. ASSUME NEW w \in Maintained, PollCard(w) PROVE TypeOK'
    <2>1. w \in Worker
      BY <1>1 DEF Maintained
    <2> QED
      BY <1>2, <2>1 DEF TypeOK, PollCard
  <1>3. ASSUME NEW e \in Entries, FindDue(e) PROVE TypeOK'
    BY <1>3 DEF TypeOK, FindDue
  <1>4. ASSUME NEW e \in Entries, KillChannel(e) PROVE TypeOK'
    <2>1. /\ running' \in [Worker -> SUBSET Channel]
          /\ cron' \in [Entries -> {"wait", "kill", "start"}]
      BY <1>1, <1>4 DEF TypeOK, KillChannel, RunScript
    <2> QED
      BY <1>4, <2>1 DEF TypeOK, KillChannel, RunScript
  <1>5. ASSUME NEW e \in Entries, StartChannel(e) PROVE TypeOK'
    <2>1. /\ running' \in [Worker -> SUBSET Channel]
          /\ cron' \in [Entries -> {"wait", "kill", "start"}]
      BY <1>1, <1>5 DEF TypeOK, StartChannel, RunScript
    <2> QED
      BY <1>5, <2>1 DEF TypeOK, StartChannel, RunScript
  <1> QED
    BY <1>2, <1>3, <1>4, <1>5 DEF MaintStep, Restarting

LEMMA WorkerTyped ==
  ASSUME TypeOK, NEW w \in Worker, WorkerStep(w) PROVE TypeOK'
  <1> USE DEF mgrVars, voteVars, procVars, startVars, nicVars, maintVars, netVars
  <1>1. CASE HandleReport(w)
    <2> PICK S \in report[w] :
          /\ UpdateMap(w, S)
          /\ report' = [report EXCEPT ![w] = @ \ {S}]
          /\ reply' = [reply EXCEPT ![w] = @ \cup {Answer(w, S)}]
      BY <1>1 DEF HandleReport
    <2>1. S \in SUBSET Channel
      BY DEF TypeOK
    <2>2. /\ report' \in [Worker -> SUBSET SUBSET Channel]
          /\ reply' \in [Worker -> SUBSET SUBSET Channel]
      BY <2>1, AnswerTyped DEF TypeOK
    <2> QED
      BY <1>1, <2>1, <2>2, UpdateMapTyped DEF TypeOK, HandleReport
  <1>2. CASE HandleOldReport(w)
    <2> PICK S \in oldReport[w] :
          /\ UpdateMap(w, S)
          /\ oldReport' = [oldReport EXCEPT ![w] = @ \ {S}]
      BY <1>2 DEF HandleOldReport
    <2>1. S \in SUBSET Channel
      BY DEF TypeOK
    <2>2. oldReport' \in [Worker -> SUBSET SUBSET Channel]
      BY DEF TypeOK
    <2> QED
      BY <1>2, <2>1, <2>2, UpdateMapTyped DEF TypeOK, HandleOldReport
  <1>3. CASE Elapse(w)
    BY <1>3, BudgetTyped DEF TypeOK, Elapse
  <1>4. CASE Connect(w)
    BY <1>4 DEF TypeOK, Connect
  <1>5. CASE EchoReply(w)
    <2> PICK S \in reply[w] :
          /\ chnlSetLast' = [chnlSetLast EXCEPT ![w] = S]
          /\ reply' = [reply EXCEPT ![w] = @ \ {S}]
          /\ report' = [report EXCEPT ![w] = @ \cup {S}]
      BY <1>5 DEF EchoReply
    <2>1. S \in SUBSET Channel
      BY DEF TypeOK
    <2>2. /\ chnlSetLast' \in [Worker -> SUBSET Channel]
          /\ reply' \in [Worker -> SUBSET SUBSET Channel]
          /\ report' \in [Worker -> SUBSET SUBSET Channel]
      BY <2>1 DEF TypeOK
    <2> QED
      BY <1>5, <2>2 DEF TypeOK, EchoReply
  <1>16. CASE TakeReply(w)
    <2> PICK S \in reply[w] :
          /\ chnlSetLast' = [chnlSetLast EXCEPT ![w] = S]
          /\ chnlSet' = [chnlSet EXCEPT ![w] = S]
          /\ starting' = [starting EXCEPT ![w] = S \ chnlSetLast[w]]
          /\ reply' = [reply EXCEPT ![w] = @ \ {S}]
      BY <1>16 DEF TakeReply
    <2>1. S \in SUBSET Channel
      BY DEF TypeOK
    <2>2. /\ chnlSetLast' \in [Worker -> SUBSET Channel]
          /\ chnlSet' \in [Worker -> SUBSET Channel]
          /\ starting' \in [Worker -> SUBSET Channel]
          /\ reply' \in [Worker -> SUBSET SUBSET Channel]
      BY <2>1 DEF TypeOK
    <2> QED
      BY <1>16, <2>2 DEF TypeOK, TakeReply
  <1>17. CASE StartNext(w)
    BY <1>17 DEF TypeOK, StartNext
  <1>18. CASE SendReport(w)
    BY <1>18 DEF TypeOK, SendReport
  <1>6. CASE Cut(w)
    BY <1>6, BudgetTyped, DropTyped DEF TypeOK, Cut
  <1>7. CASE LeaveOffline(w)
    BY <1>7, DropTyped DEF TypeOK, LeaveOffline
  <1>8. CASE Crash(w)
    BY <1>8, BudgetTyped, DropTyped DEF TypeOK, Crash, ForgetStarts
  <1>9. CASE HostDown(w)
    BY <1>9, BudgetTyped, DropTyped DEF TypeOK, HostDown, ForgetStarts
  <1>10. CASE Restart(w)
    BY <1>10 DEF TypeOK, Restart
  <1>11. CASE LinkDown(w)
    BY <1>11, BudgetTyped DEF TypeOK, LinkDown
  <1>12. CASE LinkUp(w)
    BY <1>12 DEF TypeOK, LinkUp
  <1>13. CASE NicOnline(w)
    BY <1>13 DEF TypeOK, NicOnline
  <1>14. CASE NicClear(w)
    BY <1>14 DEF TypeOK, NicClear
  <1>15. CASE NicKill(w)
    BY <1>15 DEF TypeOK, NicKill
  <1> QED
    BY <1>1, <1>2, <1>3, <1>4, <1>5, <1>6, <1>7, <1>8, <1>9, <1>10, <1>11,
       <1>12, <1>13, <1>14, <1>15, <1>16, <1>17, <1>18 DEF WorkerStep

(* Every variable of the cluster keeps its shape, whatever faults occur.   *)
THEOREM TypeCorrect == Spec => []TypeOK
  <1>1. TypeOK /\ [Next]_vars => TypeOK'
    <2> SUFFICES ASSUME TypeOK, [Next]_vars PROVE TypeOK'
      OBVIOUS
    <2>1. CASE UNCHANGED vars
      BY <2>1
         DEF TypeOK, vars, mgrVars, voteVars, procVars, startVars, nicVars,
              maintVars, netVars
    <2> QED
      BY <2>1, NextSplit, VoteTyped, WorkerTyped, MaintTyped
  <1> QED
    BY <1>1, InitTyped, PTL DEF Spec

-----------------------------------------------------------------------------
(* PublishedRuns: without a kill script nothing a worker believes to run   *)
(* ever stops, and only a thread in the midst of the starts has any ahead. *)

NoKill == \A w \in Worker : link[w] /\ nicPc[w] = "poll"

StartsWithin == \A w \in Worker : session[w] # "start" => starting[w] = {}

LEMMA StartsStep ==
  ASSUME TypeOK, StartsWithin, Entries = {}, [Next]_vars PROVE StartsWithin'
  <1> USE DEF mgrVars, voteVars, procVars, startVars, nicVars, netVars, StartsWithin
  <1>1. CASE UNCHANGED vars
    BY <1>1 DEF vars
  <1>2. CASE VoteStep
    BY <1>2
       DEF VoteStep, VoteScan, VoteLock, VoteAssign, VoteUnlock, VoteSnapshot
  <1>3. ASSUME NEW w \in Worker, WorkerStep(w) PROVE StartsWithin'
    <2> USE DEF TypeOK
    <2>1. CASE HandleReport(w) \/ HandleOldReport(w) \/ Elapse(w)
      BY <2>1 DEF HandleReport, HandleOldReport, Elapse
    <2>2. CASE Connect(w) \/ EchoReply(w) \/ LeaveOffline(w) \/ Restart(w)
      BY <2>2 DEF Connect, EchoReply, LeaveOffline, Restart
    <2>3. CASE TakeReply(w) \/ StartNext(w) \/ SendReport(w)
      BY <2>3 DEF TakeReply, StartNext, SendReport
    <2>4. CASE Cut(w) \/ Crash(w) \/ HostDown(w)
      BY <2>4 DEF Cut, Crash, HostDown, ForgetStarts
    <2>5. CASE LinkDown(w) \/ LinkUp(w) \/ NicOnline(w) \/ NicClear(w) \/ NicKill(w)
      BY <2>5 DEF LinkDown, LinkUp, NicOnline, NicClear, NicKill
    <2> QED
      BY <1>3, <2>1, <2>2, <2>3, <2>4, <2>5 DEF WorkerStep
  <1> QED
    BY <1>1, <1>2, <1>3, NextSplit, NoMaint

LEMMA PublishedStep ==
  ASSUME "link" \notin Faults, Entries = {}, TypeOK, PublishedRuns, StartsWithin,
         NoKill, [Next]_vars
  PROVE  PublishedRuns' /\ NoKill'
  <1> USE DEF mgrVars, voteVars, procVars, startVars, nicVars, netVars
  <1>1. CASE UNCHANGED vars
    BY <1>1 DEF PublishedRuns, NoKill, vars
  <1>2. CASE VoteStep
    BY <1>2 DEF PublishedRuns, NoKill, VoteStep, VoteScan, VoteLock, VoteAssign,
                VoteUnlock, VoteSnapshot
  <1>3. ASSUME NEW w \in Worker, WorkerStep(w) PROVE PublishedRuns' /\ NoKill'
    <2>1. CASE HandleReport(w) \/ HandleOldReport(w) \/ Elapse(w)
      BY <2>1 DEF PublishedRuns, NoKill, HandleReport, HandleOldReport, Elapse
    <2>2. CASE Connect(w) \/ EchoReply(w)
      BY <2>2 DEF TypeOK, PublishedRuns, NoKill, Connect, EchoReply
    <2>3. CASE TakeReply(w)
      <3>1. PICK S \in reply[w] :
              /\ chnlSetLast' = [chnlSetLast EXCEPT ![w] = S]
              /\ chnlSet' = [chnlSet EXCEPT ![w] = S]
              /\ starting' = [starting EXCEPT ![w] = S \ chnlSetLast[w]]
        BY <2>3 DEF TakeReply
      <3>2. starting[w] = {}
        BY <2>3 DEF TakeReply, StartsWithin
      <3>3. chnlSet'[w] \cup chnlSetLast'[w]
              \subseteq running'[w] \cup starting'[w] \cup skipped'[w]
        BY <2>3, <3>1, <3>2 DEF TypeOK, PublishedRuns, TakeReply
      <3>4. ASSUME NEW v \in Worker, v # w
            PROVE  chnlSet'[v] \cup chnlSetLast'[v]
                     \subseteq running'[v] \cup starting'[v] \cup skipped'[v]
        BY <2>3, <3>1, <3>4 DEF TypeOK, PublishedRuns, TakeReply
      <3> QED
        BY <2>3, <3>3, <3>4 DEF PublishedRuns, NoKill, TakeReply
    <2>4. CASE LeaveOffline(w) \/ SendReport(w)
      BY <2>4 DEF PublishedRuns, NoKill, LeaveOffline, SendReport
    <2>5. CASE StartNext(w)
      BY <2>5 DEF TypeOK, PublishedRuns, NoKill, StartNext
    <2>6. CASE Cut(w)
      BY <2>6 DEF TypeOK, PublishedRuns, NoKill, Cut
    <2>7. CASE Crash(w) \/ HostDown(w)
      BY <2>7 DEF TypeOK, PublishedRuns, NoKill, Crash, HostDown, ForgetStarts
    <2>8. CASE Restart(w)
      BY <2>8 DEF TypeOK, PublishedRuns, NoKill, Restart
    <2>9. CASE LinkUp(w) \/ NicOnline(w)
      BY <2>9 DEF TypeOK, PublishedRuns, NoKill, LinkUp, NicOnline
    <2>10. ~LinkDown(w) /\ ~NicClear(w) /\ ~NicKill(w)
      BY DEF NoKill, LinkDown, NicClear, NicKill
    <2> QED
      BY <1>3, <2>1, <2>2, <2>3, <2>4, <2>5, <2>6, <2>7, <2>8, <2>9, <2>10
         DEF WorkerStep
  <1> QED
    BY <1>1, <1>2, <1>3, NextSplit, NoMaint

(* As long as no cable is pulled, what a worker publishes runs on its host *)
(* or is being started, wherever threads are cancelled, processes die and  *)
(* messages are late, but for what a cancelled thread left unstarted; no   *)
(* channel is restarted by JZMaintain.                                     *)
THEOREM PublishedRunsHolds ==
  ASSUME "link" \notin Faults, Entries = {} PROVE Spec => []PublishedRuns
  <1>1. Init => PublishedRuns /\ NoKill /\ StartsWithin
    BY DEF Init, PublishedRuns, NoKill, StartsWithin
  <1>2. TypeOK /\ PublishedRuns /\ NoKill /\ StartsWithin /\ [Next]_vars
          => (PublishedRuns /\ NoKill /\ StartsWithin)'
    BY PublishedStep, StartsStep
  <1> QED
    BY <1>1, <1>2, TypeCorrect, PTL DEF Spec

-----------------------------------------------------------------------------
(* OneOwner                                                                *)

(* What a host may still come to run without being assigned anything new.  *)
InFlight(w) == UNION (report[w] \cup oldReport[w] \cup reply[w])

Believed(w) ==
  running[w] \cup starting[w] \cup chnlSet[w] \cup chnlSetLast[w] \cup InFlight(w)

Claimed(w) == chnls[w] \cup Believed(w)

Apart == \A a, b \in Worker : a # b => Claimed(a) \cap Claimed(b) = {}
PendingApart == \A w \in Worker : Claimed(w) \cap pending = {}

(* A host the manager is about to give up believes in nothing any more.    *)
SilentEmpty == \A w \in registered \ fresh : Believed(w) = {}

DownEmpty ==
  \A w \in Worker : session[w] = "down" =>
    /\ running[w] = {} /\ starting[w] = {}
    /\ chnlSet[w] = {} /\ chnlSetLast[w] = {}
    /\ reply[w] = {} /\ report[w] = {}

OwnerInv ==
  /\ Apart /\ PendingApart /\ SilentEmpty /\ DownEmpty /\ NoKill
  /\ votePc \in {"scan", "gap", "assign"}

(* A step that takes nothing over keeps the hosts apart.                   *)
LEMMA Shrinking ==
  ASSUME Apart, PendingApart, pending' \subseteq pending,
         \A v \in Worker : Claimed(v)' \subseteq Claimed(v)
  PROVE  Apart' /\ PendingApart'
  BY DEF Apart, PendingApart

(* A step of worker w that touches no part of the map.                     *)
LEMMA LocalStep ==
  ASSUME OwnerInv, TypeOK, NEW w \in Worker,
         UNCHANGED <<mgrVars, voteVars>>,
         NoKill', DownEmpty',
         \A v \in Worker : Believed(v)' \subseteq Believed(v)
  PROVE  OwnerInv'
  <1>1. \A v \in Worker : Claimed(v)' \subseteq Claimed(v)
    BY DEF Claimed, mgrVars
  <1>2. Apart' /\ PendingApart'
    BY <1>1, Shrinking DEF OwnerInv, voteVars
  <1>3. SilentEmpty'
    BY DEF OwnerInv, SilentEmpty, mgrVars, TypeOK
  <1> QED
    BY <1>2, <1>3 DEF OwnerInv, voteVars

(* A report changes the map only within what its host claims.              *)
LEMMA ReportStep ==
  ASSUME OwnerInv, TypeOK, NEW w \in Worker, NEW S \in SUBSET Channel,
         S \subseteq Claimed(w), UpdateMap(w, S),
         UNCHANGED <<voteVars, session, procVars, nicVars>>,
         DownEmpty',
         Believed(w)' \subseteq Claimed(w),
         \A v \in Worker \ {w} : Believed(v)' = Believed(v)
  PROVE  OwnerInv'
  <1>1. \A v \in Worker : Claimed(v)' \subseteq Claimed(v)
    <2> TAKE v \in Worker
    <2>1. CASE v = w
      <3>1. chnls'[w] \subseteq Claimed(w)
        BY DEF TypeOK, UpdateMap, Claimed
      <3> QED
        BY <2>1, <3>1 DEF Claimed
    <2>2. CASE v # w
      BY <2>2 DEF TypeOK, UpdateMap, Claimed
    <2> QED
      BY <2>1, <2>2
  <1>2. Apart' /\ PendingApart'
    BY <1>1, Shrinking DEF OwnerInv, voteVars
  <1>3. SilentEmpty'
    BY DEF OwnerInv, SilentEmpty, UpdateMap, TypeOK
  <1> QED
    BY <1>2, <1>3 DEF OwnerInv, NoKill, voteVars, nicVars

LEMMA DropShrinks ==
  ASSUME TypeOK, NEW w \in Worker, DropConnection(w)
  PROVE  /\ \A v \in Worker : InFlight(v)' \subseteq InFlight(v)
         /\ \A v \in Worker : reply[v] = {} => reply'[v] = {}
         /\ \A v \in Worker : report[v] = {} => report'[v] = {}
         /\ reply'[w] = {} /\ report'[w] = {}
  <1>1. ASSUME NEW v \in Worker PROVE InFlight(v)' \subseteq InFlight(v)
    <2>1. report'[v] \cup oldReport'[v] \cup reply'[v]
            \subseteq report[v] \cup oldReport[v] \cup reply[v]
      BY DEF TypeOK, DropConnection
    <2> QED
      BY <2>1 DEF InFlight
  <1> QED
    BY <1>1 DEF TypeOK, DropConnection

LEMMA OwnerWorker ==
  ASSUME Prompt, OwnerInv, TypeOK, NEW w \in Worker, WorkerStep(w)
  PROVE  OwnerInv'
  <1> USE DEF procVars, startVars, nicVars, netVars
  <1>0. "link" \notin Faults /\ "delay" \notin Faults
    BY DEF Prompt
  <1>1. CASE HandleReport(w)
    <2> PICK S \in report[w] :
          /\ UpdateMap(w, S)
          /\ report' = [report EXCEPT ![w] = @ \ {S}]
          /\ reply' = [reply EXCEPT ![w] = @ \cup {Answer(w, S)}]
      BY <1>1 DEF HandleReport
    <2>1. S \in SUBSET Channel /\ S \subseteq Believed(w)
      BY DEF TypeOK, Believed, InFlight
    <2>2. Answer(w, S) \subseteq Claimed(w)
      BY <2>1 DEF Answer, Claimed
    <2>3. session[w] # "down"
      BY DEF OwnerInv, DownEmpty
    <2>4. DownEmpty'
      BY <1>1, <2>3 DEF OwnerInv, DownEmpty, HandleReport, TypeOK
    <2>5. Believed(w)' \subseteq Claimed(w)
      BY <1>1, <2>2 DEF HandleReport, Believed, InFlight, Claimed, TypeOK
    <2>6. \A v \in Worker \ {w} : Believed(v)' = Believed(v)
      BY <1>1 DEF HandleReport, Believed, InFlight, TypeOK
    <2>7. S \subseteq Claimed(w)
      BY <2>1 DEF Claimed
    <2> QED
      BY <1>1, <2>1, <2>4, <2>5, <2>6, <2>7, ReportStep DEF HandleReport
  <1>2. CASE HandleOldReport(w)
    <2> PICK S \in oldReport[w] :
          /\ UpdateMap(w, S)
          /\ oldReport' = [oldReport EXCEPT ![w] = @ \ {S}]
      BY <1>2 DEF HandleOldReport
    <2>1. S \in SUBSET Channel /\ S \subseteq Claimed(w)
      BY DEF TypeOK, Believed, InFlight, Claimed
    <2>2. DownEmpty'
      BY <1>2 DEF OwnerInv, DownEmpty, HandleOldReport
    <2>3. Believed(w)' \subseteq Claimed(w)
      BY <1>2 DEF HandleOldReport, Believed, InFlight, Claimed, TypeOK
    <2>4. \A v \in Worker \ {w} : Believed(v)' = Believed(v)
      BY <1>2 DEF HandleOldReport, Believed, InFlight, TypeOK
    <2> QED
      BY <1>2, <2>1, <2>2, <2>3, <2>4, ReportStep DEF HandleOldReport
  <1>3. CASE Elapse(w)
    <2>1. Silent(w)
      BY <1>0, <1>3 DEF Elapse
    <2>2. session[w] = "down" /\ report[w] = {} /\ oldReport[w] = {}
      BY <2>1 DEF Silent, OwnerInv, NoKill
    <2>3. Believed(w) = {}
      BY <2>2 DEF OwnerInv, DownEmpty, Believed, InFlight
    <2>4. \A v \in Worker :
            Believed(v)' = Believed(v) /\ Claimed(v)' = Claimed(v)
      BY <1>3 DEF Elapse, Believed, InFlight, Claimed
    <2>5. SilentEmpty'
      BY <1>3, <2>3, <2>4 DEF Elapse, OwnerInv, SilentEmpty, TypeOK
    <2>6. Apart' /\ PendingApart'
      BY <1>3, <2>4, Shrinking DEF Elapse, OwnerInv, voteVars
    <2> QED
      BY <1>3, <2>5, <2>6 DEF Elapse, OwnerInv, DownEmpty, NoKill, voteVars
  <1>4. CASE Connect(w)
    <2>1. \A v \in Worker : Believed(v)' \subseteq Believed(v)
      BY <1>4 DEF Connect, Believed, InFlight, TypeOK
    <2>2. DownEmpty' /\ NoKill'
      BY <1>4 DEF Connect, OwnerInv, DownEmpty, NoKill, TypeOK
    <2> QED
      BY <1>4, <2>1, <2>2, LocalStep DEF Connect
  <1>5. CASE EchoReply(w)
    <2>1. \A v \in Worker : Believed(v)' \subseteq Believed(v)
      BY <1>5 DEF EchoReply, Believed, InFlight, TypeOK
    <2>2. DownEmpty' /\ NoKill'
      BY <1>5 DEF EchoReply, OwnerInv, DownEmpty, NoKill, TypeOK
    <2> QED
      BY <1>5, <2>1, <2>2, LocalStep DEF EchoReply
  <1>12. CASE TakeReply(w)
    <2>1. \A v \in Worker : Believed(v)' \subseteq Believed(v)
      BY <1>12 DEF TakeReply, Believed, InFlight, TypeOK
    <2>2. DownEmpty' /\ NoKill'
      BY <1>12 DEF TakeReply, OwnerInv, DownEmpty, NoKill, TypeOK
    <2> QED
      BY <1>12, <2>1, <2>2, LocalStep DEF TakeReply
  <1>13. CASE StartNext(w) \/ SendReport(w)
    <2>1. \A v \in Worker : Believed(v)' \subseteq Believed(v)
      BY <1>13 DEF StartNext, SendReport, Believed, InFlight, TypeOK
    <2>2. DownEmpty' /\ NoKill'
      BY <1>13 DEF StartNext, SendReport, OwnerInv, DownEmpty, NoKill, TypeOK
    <2> QED
      BY <1>13, <2>1, <2>2, LocalStep DEF StartNext, SendReport
  <1>6. CASE Cut(w) \/ LeaveOffline(w)
    <2>1. \A v \in Worker : Believed(v)' \subseteq Believed(v)
      BY <1>6, DropShrinks DEF Cut, LeaveOffline, Believed, TypeOK
    <2>2. DownEmpty' /\ NoKill'
      BY <1>6, DropShrinks
         DEF Cut, LeaveOffline, OwnerInv, DownEmpty, NoKill, TypeOK
    <2> QED
      BY <1>6, <2>1, <2>2, LocalStep DEF Cut, LeaveOffline
  <1>7. CASE Crash(w)
    <2>1. \A v \in Worker : Believed(v)' \subseteq Believed(v)
      BY <1>7, DropShrinks DEF Crash, ForgetStarts, Believed, TypeOK
    <2>2. DownEmpty' /\ NoKill'
      BY <1>7, DropShrinks
         DEF Crash, ForgetStarts, OwnerInv, DownEmpty, NoKill, TypeOK
    <2> QED
      BY <1>7, <2>1, <2>2, LocalStep DEF Crash
  <1>8. CASE HostDown(w)
    <2>1. \A v \in Worker : Believed(v)' \subseteq Believed(v)
      BY <1>8, DropShrinks DEF HostDown, ForgetStarts, Believed, TypeOK
    <2>2. DownEmpty' /\ NoKill'
      BY <1>8, DropShrinks
         DEF HostDown, ForgetStarts, OwnerInv, DownEmpty, NoKill, TypeOK
    <2> QED
      BY <1>8, <2>1, <2>2, LocalStep DEF HostDown
  <1>9. CASE Restart(w)
    <2>1. \A v \in Worker : Believed(v)' \subseteq Believed(v)
      BY <1>9 DEF Restart, Believed, InFlight, TypeOK
    <2>2. DownEmpty' /\ NoKill'
      BY <1>9 DEF Restart, OwnerInv, DownEmpty, NoKill, TypeOK
    <2> QED
      BY <1>9, <2>1, <2>2, LocalStep DEF Restart
  <1>10. CASE LinkUp(w) \/ NicOnline(w)
    <2>1. \A v \in Worker : Believed(v)' \subseteq Believed(v)
      BY <1>10 DEF LinkUp, NicOnline, Believed, InFlight
    <2>2. DownEmpty' /\ NoKill'
      BY <1>10 DEF LinkUp, NicOnline, OwnerInv, DownEmpty, NoKill, TypeOK
    <2> QED
      BY <1>10, <2>1, <2>2, LocalStep DEF LinkUp, NicOnline
  <1>11. ~LinkDown(w) /\ ~NicClear(w) /\ ~NicKill(w)
    BY <1>0 DEF OwnerInv, NoKill, LinkDown, NicClear, NicKill
  <1> QED
    BY <1>1, <1>2, <1>3, <1>4, <1>5, <1>6, <1>7, <1>8, <1>9, <1>10, <1>11,
       <1>12, <1>13 DEF WorkerStep

(* VoteProc moves channels from a silent host to nobody, and from nobody   *)
(* to one host.                                                            *)
LEMMA OwnerVote ==
  ASSUME ~BackHost, OwnerInv, TypeOK, VoteStep
  PROVE  OwnerInv'
  <1>1. CASE VoteScan
    <2>1. \A v \in Worker : Believed(v)' = Believed(v)
      BY <1>1 DEF VoteScan, Believed, InFlight, procVars, startVars, netVars
    <2>2. DownEmpty' /\ NoKill'
      BY <1>1
         DEF VoteScan, OwnerInv, DownEmpty, NoKill, procVars, startVars,
              nicVars, netVars
    <2>3. CASE UNCHANGED <<registered, chnls>> /\ pending' = {}
      <3>1. \A v \in Worker : Claimed(v)' \subseteq Claimed(v)
        BY <2>1, <2>3 DEF Claimed
      <3>2. Apart' /\ PendingApart'
        BY <2>3, <3>1, Shrinking DEF OwnerInv
      <3> QED
        BY <1>1, <2>1, <2>2, <2>3, <3>2
           DEF VoteScan, OwnerInv, SilentEmpty, TypeOK
    <2>4. ASSUME NEW w \in registered \ fresh,
                 registered' = registered \ {w},
                 chnls' = [chnls EXCEPT ![w] = {}],
                 pending' = chnls[w]
          PROVE  OwnerInv'
      <3>1. w \in Worker /\ Believed(w) = {}
        BY DEF OwnerInv, SilentEmpty, TypeOK
      <3>2. \A v \in Worker : v # w => Claimed(v)' = Claimed(v)
        BY <2>1, <2>4 DEF Claimed, TypeOK
      <3>3. Claimed(w)' = {} /\ Claimed(w) = chnls[w]
        BY <2>1, <2>4, <3>1 DEF Claimed, TypeOK
      <3>4. Apart'
        BY <3>2, <3>3 DEF OwnerInv, Apart
      <3>5. PendingApart'
        BY <2>4, <3>1, <3>2, <3>3 DEF OwnerInv, Apart, PendingApart
      <3>6. SilentEmpty'
        BY <1>1, <2>1, <2>4 DEF VoteScan, OwnerInv, SilentEmpty, TypeOK
      <3> QED
        BY <1>1, <2>2, <3>4, <3>5, <3>6 DEF VoteScan, OwnerInv
    <2> QED
      BY <1>1, <2>3, <2>4 DEF VoteScan
  <1>2. CASE VoteAssign
    <2>1. \A v \in Worker : Believed(v)' = Believed(v)
      BY <1>2 DEF VoteAssign, Believed, InFlight, procVars, startVars, netVars
    <2>2. DownEmpty' /\ NoKill' /\ SilentEmpty'
      BY <1>2, <2>1 DEF VoteAssign, OwnerInv, DownEmpty, NoKill, SilentEmpty,
                        TypeOK, procVars, startVars, nicVars, netVars
    <2>3. PICK c \in pending :
            /\ pending' = pending \ {c}
            /\ \/ UNCHANGED chnls
               \/ \E h \in registered : chnls' = [chnls EXCEPT ![h] = @ \cup {c}]
      BY <1>2 DEF VoteAssign
    <2>4. CASE UNCHANGED chnls
      <3>1. \A v \in Worker : Claimed(v)' \subseteq Claimed(v)
        BY <2>1, <2>4 DEF Claimed
      <3>2. Apart' /\ PendingApart'
        BY <2>3, <3>1, Shrinking DEF OwnerInv
      <3> QED
        BY <1>2, <2>2, <3>2 DEF VoteAssign, OwnerInv
    <2>5. ASSUME NEW h \in registered, chnls' = [chnls EXCEPT ![h] = @ \cup {c}]
          PROVE  OwnerInv'
      <3>1. \A v \in Worker :
              Claimed(v)' = IF v = h THEN Claimed(v) \cup {c} ELSE Claimed(v)
        BY <2>1, <2>5 DEF Claimed, TypeOK
      <3>2. \A v \in Worker : c \notin Claimed(v)
        BY <2>3 DEF OwnerInv, PendingApart
      <3>3. Apart'
        BY <3>1, <3>2 DEF OwnerInv, Apart
      <3>4. PendingApart'
        BY <2>3, <3>1 DEF OwnerInv, PendingApart
      <3> QED
        BY <1>2, <2>2, <3>3, <3>4 DEF VoteAssign, OwnerInv
    <2> QED
      BY <2>3, <2>4, <2>5
  <1>3. CASE VoteLock \/ VoteUnlock \/ VoteSnapshot
    <2>1. /\ UNCHANGED <<mgrVars, pending, session, procVars, nicVars, netVars>>
          /\ votePc' \in {"scan", "gap", "assign"}
      BY <1>3 DEF VoteLock, VoteUnlock, VoteSnapshot, OwnerInv
    <2>2. \A v \in Worker :
            Believed(v)' = Believed(v) /\ Claimed(v)' \subseteq Claimed(v)
      BY <2>1
         DEF Believed, InFlight, Claimed, mgrVars, procVars, startVars, netVars
    <2>3. Apart' /\ PendingApart'
      BY <2>1, <2>2, Shrinking DEF OwnerInv
    <2>4. SilentEmpty' /\ DownEmpty' /\ NoKill'
      BY <2>1, <2>2 DEF OwnerInv, SilentEmpty, DownEmpty, NoKill, TypeOK,
                        mgrVars, procVars, startVars, nicVars, netVars
    <2> QED
      BY <2>1, <2>3, <2>4 DEF OwnerInv
  <1> QED
    BY <1>1, <1>2, <1>3 DEF VoteStep

LEMMA OwnerInit ==
  ASSUME ~BackHost, Init PROVE OwnerInv
  <1>1. \A w \in Worker : Believed(w) = Config[w] /\ Claimed(w) = Config[w]
    BY AllocAssumption DEF Init, Believed, InFlight, Claimed
  <1>2. Apart /\ PendingApart
    BY <1>1, AllocAssumption DEF Init, Apart, PendingApart
  <1> QED
    BY <1>2 DEF Init, OwnerInv, SilentEmpty, DownEmpty, NoKill

LEMMA OwnerStep ==
  ASSUME Prompt, ~BackHost, Entries = {}, TypeOK, OwnerInv, [Next]_vars
  PROVE  OwnerInv'
  <1>1. CASE UNCHANGED vars
    <2>1. \A v \in Worker :
            Believed(v)' = Believed(v) /\ Claimed(v)' = Claimed(v)
      BY <1>1
         DEF vars, Believed, InFlight, Claimed, mgrVars, procVars, startVars,
              netVars
    <2> QED
      BY <1>1, <2>1 DEF vars, OwnerInv, Apart, PendingApart, SilentEmpty,
           TypeOK, DownEmpty, NoKill, mgrVars, voteVars, procVars, startVars,
           nicVars, netVars
  <1> QED
    BY <1>1, NextSplit, NoMaint, OwnerVote, OwnerWorker

LEMMA OwnerInvariant ==
  ASSUME Prompt, ~BackHost, Entries = {} PROVE Spec => [](TypeOK /\ OwnerInv)
  <1>1. Init => OwnerInv
    BY OwnerInit
  <1>2. TypeOK /\ OwnerInv /\ [Next]_vars => OwnerInv'
    BY OwnerStep
  <1> QED
    BY <1>1, <1>2, TypeCorrect, PTL DEF Spec

(* On a mainhost, if a live host's report is never late, no channel runs   *)
(* on or is assigned to two hosts, whatever processes and hosts die.       *)
THEOREM OneOwnerHolds ==
  ASSUME Prompt, ~BackHost, Entries = {} PROVE Spec => []OneOwner
  <1>1. OwnerInv => OneOwner
    BY DEF OwnerInv, OneOwner, Apart, Claimed, Believed
  <1> QED
    BY <1>1, OwnerInvariant, PTL

-----------------------------------------------------------------------------
(* Implementation of ChannelOwnership                                      *)

(* Only three steps change what runs: a host starts a channel of a reply,  *)
(* its channels stop, ...                                                  *)
Adopts(w) ==
  \E c \in starting[w] : running' = [running EXCEPT ![w] = @ \cup {c}]

Stops(w) == running' = [running EXCEPT ![w] = {}]

(* ... or nothing changes.                                                 *)
LEMMA RunningSteps ==
  ASSUME Entries = {}, [Next]_vars
  PROVE  \/ UNCHANGED running
         \/ \E w \in Worker : Adopts(w) \/ Stops(w)
  <1>1. CASE VoteStep
    BY <1>1 DEF VoteStep, VoteScan, VoteLock, VoteAssign, VoteUnlock,
         VoteSnapshot, procVars, startVars
  <1>2. CASE \E w \in Worker : WorkerStep(w)
    <2> PICK w \in Worker : WorkerStep(w)
      BY <1>2
    <2>1. CASE StartNext(w)
      BY <2>1 DEF StartNext, Adopts
    <2>2. CASE HostDown(w) \/ NicKill(w)
      BY <2>2 DEF HostDown, NicKill, Stops
    <2> QED
      BY <2>1, <2>2 DEF WorkerStep, HandleReport, HandleOldReport, Elapse,
           Connect, EchoReply, TakeReply, SendReport, Cut, LeaveOffline,
           Crash, Restart, LinkDown, LinkUp,
           NicOnline, NicClear, procVars, startVars
  <1>3. CASE UNCHANGED vars
    BY <1>3 DEF vars, procVars, startVars
  <1> QED
    BY <1>1, <1>2, <1>3, NextSplit, NoMaint

(* A channel that is new to the host runs nowhere: the host claims it, and *)
(* claims of different hosts are apart.                                    *)
LEMMA AdoptsIsStart ==
  ASSUME TypeOK, Apart, NEW w \in Worker, Adopts(w)
  PROVE  \E S \in SUBSET Channel : Ownership!Start(w, S)
  <1> PICK s \in starting[w] : running' = [running EXCEPT ![w] = @ \cup {s}]
    BY DEF Adopts
  <1> DEFINE D == {s} \ running[w]
  <1>1. s \in Channel /\ s \in Claimed(w)
    BY DEF TypeOK, Claimed, Believed
  <1>2. D \in SUBSET Channel
    BY <1>1
  <1>3. ASSUME NEW c \in D, NEW v \in Worker PROVE c \notin running[v]
    <2>1. running[v] \subseteq Claimed(v)
      BY DEF Claimed, Believed
    <2> QED
      BY <1>1, <2>1 DEF Apart
  <1>4. \A c \in D : HeldBy[c] = {}
    BY <1>2, <1>3 DEF HeldBy
  <1>5. \A v \in Worker :
          running'[v] = IF v = w THEN running[w] \cup D ELSE running[v]
    BY DEF TypeOK
  <1>6. \A c \in Channel :
          HeldBy'[c] = IF c \in D THEN {w} ELSE HeldBy[c]
    <2> SUFFICES ASSUME NEW c \in Channel
                 PROVE  HeldBy'[c] = IF c \in D THEN {w} ELSE HeldBy[c]
      OBVIOUS
    <2>1. /\ HeldBy[c] = {v \in Worker : c \in running[v]}
          /\ HeldBy'[c] = {v \in Worker : c \in running'[v]}
      BY DEF HeldBy
    <2> HIDE DEF D
    <2> QED
      BY <1>4, <1>5, <2>1
  <1>7. HeldBy' = [c \in Channel |-> IF c \in D THEN {w} ELSE HeldBy[c]]
    <2> HIDE DEF D
    <2> QED
      BY <1>6 DEF HeldBy
  <1> QED
    BY <1>2, <1>4, <1>7 DEF Ownership!Start

LEMMA StopsIsStopAll ==
  ASSUME TypeOK, NEW w \in Worker, Stops(w) PROVE Ownership!StopAll(w)
  <1>1. \A v \in Worker : running'[v] = IF v = w THEN {} ELSE running[v]
    BY DEF TypeOK, Stops
  <1>2. \A c \in Channel : {v \in Worker : c \in running'[v]}
                            = {v \in Worker : c \in running[v]} \ {w}
    BY <1>1
  <1> QED
    BY <1>2 DEF HeldBy, Ownership!StopAll

(* On a mainhost with prompt messages the cluster implements the abstract  *)
(* ownership: a channel is started only where and when nobody runs it.     *)
THEOREM ImplementsOwnershipHolds ==
  ASSUME Prompt, ~BackHost, Entries = {} PROVE Spec => ImplementsOwnership
  <1>1. Init => Ownership!Init
    BY DEF Init, Ownership!Init, HeldBy
  <1>2. TypeOK /\ OwnerInv /\ [Next]_vars => [Ownership!Next]_HeldBy
    <2> SUFFICES ASSUME TypeOK, OwnerInv, [Next]_vars
                 PROVE  [Ownership!Next]_HeldBy
      OBVIOUS
    <2>1. CASE UNCHANGED running
      BY <2>1 DEF HeldBy
    <2>2. ASSUME NEW w \in Worker, Adopts(w) PROVE Ownership!Next
      BY <2>2, AdoptsIsStart DEF OwnerInv, Ownership!Next
    <2>3. ASSUME NEW w \in Worker, Stops(w) PROVE Ownership!Next
      BY <2>3, StopsIsStopAll DEF Ownership!Next
    <2> QED
      BY <2>1, <2>2, <2>3, RunningSteps
  <1> QED
    BY <1>1, <1>2, OwnerInvariant, PTL
       DEF Spec, ImplementsOwnership, Ownership!Spec

-----------------------------------------------------------------------------
(* NoChannelLost                                                           *)

Underway(w) == report[w] \cup oldReport[w] \cup reply[w]

(* What a host still tells or is told about: of a host in the map, parts   *)
(* of what the map has for it; of another, all the same set, which is what *)
(* the worker has if it lives; so is the report a thread has still to send *)
(* after its starts.                                                       *)
Settled(w) ==
  /\ ~Alive(w) => chnlSet[w] = {} /\ report[w] = {} /\ reply[w] = {}
  /\ session[w] = "start" => chnlSetLast[w] = chnlSet[w]
  /\ w \in registered =>
       chnlSet[w] \subseteq chnls[w] /\ \A S \in Underway(w) : S \subseteq chnls[w]
  /\ w \notin registered =>
       IF Alive(w) THEN \A S \in Underway(w) : S = chnlSet[w]
                   ELSE \A S, T \in oldReport[w] : S = T

ToldInv ==
  /\ \A w \in Worker : Settled(w)
  /\ votePc = "scan" => pending = {}

LEMMA SmallerSize ==
  ASSUME NEW S \in SUBSET Channel, NEW T \in SUBSET Channel, S \subseteq T
  PROVE  Cardinality(T) >= Cardinality(S)
  <1>1. IsFiniteSet(T)
    BY AllocAssumption, FS_Subset
  <1>2. /\ Cardinality(S) <= Cardinality(T)
        /\ Cardinality(S) \in Nat /\ Cardinality(T) \in Nat
    BY <1>1, FS_Subset, FS_CardinalityType
  <1> QED
    BY <1>2

(* A report changes the map only when its host is new to it.               *)
LEMMA ReportKnown ==
  ASSUME TypeOK, NEW w \in Worker, Settled(w), NEW S \in Underway(w), UpdateMap(w, S)
  PROVE  /\ w \in registered => chnls' = chnls /\ registered' = registered
         /\ w \notin registered => /\ chnls' = [chnls EXCEPT ![w] = S]
                                   /\ chnls[w] = {} /\ registered' = registered \cup {w}
  <1>1. CASE w \in registered
    <2>1. S \in SUBSET Channel /\ chnls[w] \in SUBSET Channel /\ S \subseteq chnls[w]
      BY <1>1 DEF TypeOK, Underway, Settled
    <2> QED
      BY <1>1, <2>1, SmallerSize DEF UpdateMap
  <1>2. CASE w \notin registered
    BY <1>2 DEF UpdateMap, TypeOK
  <1> QED
    BY <1>1, <1>2

(* What matters to Settled(w), the same before and after a step.           *)
Same(w) ==
  /\ session'[w] = session[w] /\ chnls'[w] = chnls[w]
  /\ chnlSet'[w] = chnlSet[w] /\ chnlSetLast'[w] = chnlSetLast[w]
  /\ report'[w] = report[w] /\ oldReport'[w] = oldReport[w] /\ reply'[w] = reply[w]
  /\ w \in registered' <=> w \in registered

LEMMA SameSettled ==
  ASSUME NEW w \in Worker, Settled(w), Same(w)
  PROVE  Settled(w)'
  BY DEF Same, Settled, Alive, Underway

(* A step of one host is none of another.                                  *)
LEMMA OthersSame ==
  ASSUME TypeOK, NEW w \in Worker, WorkerStep(w), NEW v \in Worker, v # w
  PROVE  Same(v)
  <1> USE DEF TypeOK, Same, mgrVars, procVars, startVars, netVars
  <1>1. CASE HandleReport(w) \/ HandleOldReport(w)
    BY <1>1 DEF HandleReport, HandleOldReport, UpdateMap
  <1>2. CASE Elapse(w) \/ LinkDown(w) \/ LinkUp(w) \/ NicOnline(w) \/ NicKill(w)
    BY <1>2 DEF Elapse, LinkDown, LinkUp, NicOnline, NicKill
  <1>3. CASE Connect(w) \/ Restart(w) \/ NicClear(w)
    BY <1>3 DEF Connect, Restart, NicClear
  <1>5. CASE EchoReply(w) \/ TakeReply(w) \/ StartNext(w) \/ SendReport(w)
    BY <1>5 DEF EchoReply, TakeReply, StartNext, SendReport
  <1>4. CASE Cut(w) \/ LeaveOffline(w) \/ Crash(w) \/ HostDown(w)
    BY <1>4 DEF Cut, LeaveOffline, Crash, HostDown, DropConnection
  <1> QED
    BY <1>1, <1>2, <1>3, <1>4, <1>5 DEF WorkerStep

LEMMA SettledWorker ==
  ASSUME Prompt, TypeOK, NoKill, NEW w \in Worker, Settled(w), WorkerStep(w)
  PROVE  Settled(w)'
  <1> USE DEF TypeOK, mgrVars, procVars, startVars, netVars
  <1>1. CASE HandleReport(w)
    <2>1. PICK S \in report[w] :
            /\ UpdateMap(w, S)
            /\ report' = [report EXCEPT ![w] = @ \ {S}]
            /\ reply' = [reply EXCEPT ![w] = @ \cup {Answer(w, S)}]
      BY <1>1 DEF HandleReport
    <2>2. S \in Underway(w) /\ Alive(w)
      BY DEF Underway, Settled
    <2>3. /\ UNCHANGED <<session, chnlSet, chnlSetLast, oldReport>>
          /\ Underway(w)' \subseteq Underway(w) \cup {Answer(w, S)}
      BY <1>1, <2>1 DEF HandleReport, Underway
    <2>4. CASE w \in registered
      BY <2>1, <2>2, <2>3, <2>4, ReportKnown DEF Settled, Answer, Alive
    <2>5. CASE w \notin registered
      BY <2>1, <2>2, <2>3, <2>5, ReportKnown DEF Settled, Answer, Alive
    <2> QED
      BY <2>4, <2>5
  <1>2. CASE HandleOldReport(w)
    <2>1. PICK S \in oldReport[w] :
            UpdateMap(w, S) /\ oldReport' = [oldReport EXCEPT ![w] = @ \ {S}]
      BY <1>2 DEF HandleOldReport
    <2>2. S \in Underway(w)
      BY DEF Underway
    <2>3. /\ UNCHANGED <<session, chnlSet, chnlSetLast, report, reply>>
          /\ Underway(w)' \subseteq Underway(w)
      BY <1>2, <2>1 DEF HandleOldReport, Underway
    <2>4. CASE w \in registered
      BY <2>1, <2>2, <2>3, <2>4, ReportKnown DEF Settled, Alive
    <2>5. CASE w \notin registered
      <3>1. chnls'[w] = S /\ w \in registered'
        BY <2>1, <2>2, <2>5, ReportKnown
      <3>2. chnlSet[w] \subseteq S /\ \A T \in Underway(w) : T = S
        BY <2>1, <2>2, <2>5 DEF Settled, Underway
      <3> QED
        BY <2>3, <3>1, <3>2 DEF Settled, Alive
    <2> QED
      BY <2>4, <2>5
  <1>3. CASE Elapse(w) \/ LinkUp(w) \/ NicOnline(w)
    BY <1>3, SameSettled DEF Elapse, LinkUp, NicOnline, Same
  <1>4. CASE Connect(w)
    <2>1. /\ Alive(w) /\ Alive(w)' /\ session'[w] # "start"
          /\ UNCHANGED <<registered, chnls, chnlSet>>
          /\ Underway(w)' \subseteq Underway(w) \cup {chnlSet[w]}
      BY <1>4 DEF Connect, Alive, Underway
    <2> QED
      BY <2>1 DEF Settled
  <1>5. CASE EchoReply(w)
    <2>1. /\ Alive(w) /\ Alive(w)' /\ session'[w] # "start"
          /\ UNCHANGED <<registered, chnls, chnlSet>>
          /\ Underway(w)' \subseteq Underway(w)
      BY <1>5 DEF EchoReply, Alive, Underway
    <2> QED
      BY <2>1 DEF Settled
  <1>10. CASE TakeReply(w)
    <2>1. PICK S \in reply[w] :
            /\ chnlSetLast' = [chnlSetLast EXCEPT ![w] = S]
            /\ chnlSet' = [chnlSet EXCEPT ![w] = S]
            /\ reply' = [reply EXCEPT ![w] = @ \ {S}]
      BY <1>10 DEF TakeReply
    <2>2. /\ Alive(w) /\ Alive(w)' /\ UNCHANGED <<registered, chnls>>
          /\ S \in Underway(w) /\ Underway(w)' \subseteq Underway(w)
          /\ chnlSet'[w] = S /\ chnlSetLast'[w] = S
      BY <1>10, <2>1 DEF TakeReply, Alive, Underway
    <2> QED
      BY <2>2 DEF Settled
  <1>11. CASE StartNext(w)
    BY <1>11, SameSettled DEF StartNext, Same
  <1>12. CASE SendReport(w)
    <2>1. /\ Alive(w) /\ Alive(w)' /\ session'[w] # "start"
          /\ UNCHANGED <<registered, chnls, chnlSet>>
          /\ chnlSetLast[w] = chnlSet[w]
          /\ Underway(w)' \subseteq Underway(w) \cup {chnlSet[w]}
      BY <1>12 DEF SendReport, Alive, Underway, Settled
    <2> QED
      BY <2>1 DEF Settled
  <1>6. CASE Cut(w) \/ LeaveOffline(w)
    <2>1. /\ Alive(w) /\ Alive(w)' /\ session'[w] # "start"
          /\ UNCHANGED <<registered, chnls, chnlSet>>
          /\ Underway(w)' \subseteq Underway(w)
      BY <1>6 DEF Cut, LeaveOffline, DropConnection, Alive, Underway
    <2> QED
      BY <2>1 DEF Settled
  <1>7. CASE Crash(w) \/ HostDown(w)
    <2>1. /\ ~Alive(w)' /\ session'[w] # "start" /\ UNCHANGED <<registered, chnls>>
          /\ chnlSet'[w] = {} /\ report'[w] = {} /\ reply'[w] = {}
          /\ Underway(w)' \subseteq Underway(w)
          /\ oldReport'[w] \subseteq oldReport[w] \cup report[w]
      BY <1>7 DEF Crash, HostDown, DropConnection, Alive, Underway
    <2> QED
      BY <2>1 DEF Settled, Underway
  <1>8. CASE Restart(w)
    <2>1. /\ ~Alive(w) /\ Alive(w)' /\ session'[w] # "start"
          /\ UNCHANGED <<registered, chnls>>
          /\ chnlSet'[w] = {} /\ oldReport[w] = {}
          /\ Underway(w)' = Underway(w)
      BY <1>8 DEF Restart, Alive, Underway
    <2> QED
      BY <2>1 DEF Settled, Underway
  <1>9. ~LinkDown(w) /\ ~NicClear(w) /\ ~NicKill(w)
    BY DEF Prompt, NoKill, LinkDown, NicClear, NicKill
  <1> QED
    BY <1>1, <1>2, <1>3, <1>4, <1>5, <1>6, <1>7, <1>8, <1>9, <1>10, <1>11,
       <1>12 DEF WorkerStep

(* VoteProc gives a host channels, or erases one that has nothing.         *)
LEMMA SettledVote ==
  ASSUME TypeOK, SilentEmpty, ~BackHost, VoteStep, NEW w \in Worker, Settled(w)
  PROVE  Settled(w)'
  <1> USE DEF TypeOK, mgrVars, procVars, startVars, netVars
  <1>1. CASE VoteScan
    <2>0. UNCHANGED <<session, chnlSet, chnlSetLast, report, oldReport, reply>>
      BY <1>1 DEF VoteScan
    <2>1. CASE w \in registered /\ w \notin registered'
      <3>1. w \in registered \ fresh
        BY <1>1, <2>1 DEF VoteScan
      <3>2. chnlSet[w] = {} /\ \A S \in Underway(w) : S = {}
        BY <3>1 DEF SilentEmpty, Believed, InFlight, Underway
      <3> QED
        BY <2>0, <2>1, <3>2 DEF Settled, Alive, Underway
    <2>2. CASE ~(w \in registered /\ w \notin registered')
      <3>1. chnls'[w] = chnls[w] /\ (w \in registered' <=> w \in registered)
        BY <1>1, <2>2 DEF VoteScan
      <3> QED
        BY <2>0, <3>1, SameSettled DEF Same
    <2> QED
      BY <2>1, <2>2
  <1>2. CASE VoteAssign
    <2>1. /\ UNCHANGED <<registered, session, chnlSet, chnlSetLast>>
          /\ UNCHANGED <<report, oldReport, reply>>
          /\ chnls[w] \subseteq chnls'[w]
      BY <1>2 DEF VoteAssign
    <2> QED
      BY <2>1 DEF Settled, Alive, Underway
  <1>3. CASE VoteLock \/ VoteUnlock \/ VoteSnapshot
    BY <1>3, SameSettled DEF VoteLock, VoteUnlock, VoteSnapshot, Same
  <1> QED
    BY <1>1, <1>2, <1>3 DEF VoteStep

LEMMA ToldInit == Init => ToldInv
  BY DEF Init, ToldInv, Settled, Alive, Underway

LEMMA ToldStep ==
  ASSUME Prompt, ~BackHost, Entries = {}, TypeOK, OwnerInv, ToldInv, [Next]_vars
  PROVE  ToldInv'
  <1>1. CASE UNCHANGED vars
    BY <1>1, SameSettled
       DEF vars, ToldInv, Same, mgrVars, voteVars, procVars, startVars, netVars
  <1>2. CASE VoteStep
    <2>1. \A w \in Worker : Settled(w)'
      BY <1>2, SettledVote DEF OwnerInv, ToldInv
    <2>2. votePc' = "scan" => pending' = {}
      BY <1>2
         DEF VoteStep, VoteScan, VoteLock, VoteAssign, VoteUnlock, VoteSnapshot,
                  OwnerInv, LockFree
    <2> QED
      BY <2>1, <2>2 DEF ToldInv
  <1>3. ASSUME NEW w \in Worker, WorkerStep(w)
        PROVE  ToldInv'
    <2>1. Settled(w)'
      BY <1>3, SettledWorker DEF OwnerInv, ToldInv
    <2>2. ASSUME NEW v \in Worker, v # w PROVE Settled(v)'
      BY <1>3, <2>2, OthersSame, SameSettled DEF ToldInv
    <2>3. UNCHANGED voteVars
      BY <1>3
         DEF WorkerStep, HandleReport, HandleOldReport, Elapse, Connect,
              EchoReply,
         TakeReply, StartNext, SendReport, Cut, LeaveOffline, Crash, HostDown,
         Restart, LinkDown, LinkUp, NicOnline,
         NicClear, NicKill
    <2> QED
      BY <2>1, <2>2, <2>3 DEF ToldInv, voteVars
  <1> QED
    BY <1>1, <1>2, <1>3, NextSplit, NoMaint

LEMMA NothingLost ==
  ASSUME TypeOK, OwnerInv, ToldInv, Entries = {}, [Next]_vars, registered # {}
  PROVE  Managed \subseteq Managed'
  <1> USE DEF Managed, TypeOK
  <1>1. CASE VoteStep
    <2>1. CASE VoteScan
      BY <2>1 DEF VoteScan, ToldInv
    <2>2. CASE VoteAssign
      BY <2>2 DEF VoteAssign
    <2>3. CASE VoteLock \/ VoteUnlock
      BY <2>3 DEF VoteLock, VoteUnlock, mgrVars
    <2>4. ~VoteSnapshot
      BY DEF VoteSnapshot, OwnerInv
    <2> QED
      BY <1>1, <2>1, <2>2, <2>3, <2>4 DEF VoteStep
  <1>2. ASSUME NEW w \in Worker, WorkerStep(w)
        PROVE  Managed \subseteq Managed'
    <2>1. ASSUME NEW S \in Underway(w), UpdateMap(w, S), UNCHANGED voteVars
          PROVE  Managed \subseteq Managed'
      <3>1. Settled(w)
        BY DEF ToldInv
      <3>2. \A v \in Worker : chnls[v] \subseteq chnls'[v]
        BY <2>1, <3>1, ReportKnown
      <3> QED
        BY <2>1, <3>2 DEF voteVars
    <2>2. CASE HandleReport(w) \/ HandleOldReport(w)
      BY <2>1, <2>2 DEF HandleReport, HandleOldReport, Underway
    <2>3. CASE ~HandleReport(w) /\ ~HandleOldReport(w)
      BY <1>2, <2>3
         DEF WorkerStep, Elapse, Connect, EchoReply, TakeReply, StartNext,
         SendReport, Cut, LeaveOffline, Crash, HostDown, Restart, LinkDown,
         LinkUp, NicOnline, NicClear, NicKill, mgrVars, voteVars
    <2> QED
      BY <2>2, <2>3
  <1>3. CASE UNCHANGED vars
    BY <1>3 DEF vars, mgrVars, voteVars
  <1> QED
    BY <1>1, <1>2, <1>3, NextSplit, NoMaint

(* On a mainhost with prompt messages the manager keeps every channel it   *)
(* has taken charge of while there is a host: no report, old or new,       *)
(* replaces what the map has by less or by other channels.                 *)
THEOREM NoChannelLostHolds ==
  ASSUME Prompt, ~BackHost, Entries = {} PROVE Spec => NoChannelLost
  <1> DEFINE Kept == Managed \subseteq Managed' \/ registered = {}
  <1>1. TypeOK /\ OwnerInv /\ ToldInv /\ [Next]_vars => [Kept]_vars
    BY NothingLost
  <1>2. TypeOK /\ OwnerInv /\ ToldInv /\ [Next]_vars => ToldInv'
    BY ToldStep
  <1>3. Spec => [][Kept]_vars
    BY <1>1, <1>2, ToldInit, OwnerInvariant, PTL DEF Spec
  <1> QED
    BY <1>3 DEF NoChannelLost
=============================================================================
