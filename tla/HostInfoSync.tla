--------------------------- MODULE HostInfoSync ---------------------------
(***************************************************************************)
(* How the channel table of the master manager reaches a standby manager.  *)
(*                                                                         *)
(* The master's SyncProc writes g_sockChannelMap to HostInfo.xml, host by  *)
(* host under the two locks, and posts g_sem.  ProcessSendProc waits for   *)
(* the post and pushes the file to the hosts of the map (type 10); the     *)
(* worker beside the standby pulls it (type 26, answered by 27) and hands  *)
(* it to the standby at 127.0.0.1 (type 28).  A thread of the standby      *)
(* writes what it got to its own HostInfo.xml and, for a type 28, reads    *)
(* the file back and replaces the sets of the hosts it names, one host     *)
(* under the lock at a time.  After a failover the standby gives the       *)
(* channels of its table to the hosts that report.                         *)
(*                                                                         *)
(* A file is opened with truncation and written when it is closed, so it   *)
(* is seen whole or empty; its size is asked for before it is read.        *)
(***************************************************************************)
EXTENDS Integers, FiniteSets, FiniteSetsExt, Functions

CONSTANTS
  Hosts,       \* numbered in the order of hostInfoVect
  Channels,
  Conf0,       \* the configured table, which both managers start from
  Back,        \* the host of the standby manager
  Rare,        \* the rare interleavings that may happen, see Happens
  MaxChanges   \* bound on hosts that fall silent

ASSUME SyncAssumption ==
  /\ Hosts \subseteq Nat /\ IsFiniteSet(Hosts) /\ Back \in Hosts
  /\ IsFiniteSet(Channels)
  /\ Conf0 \in [Hosts -> SUBSET Channels]
  /\ MaxChanges \in Nat
  /\ Rare \subseteq {"last", "twice", "early", "cut", "overlap"}

VARIABLES
  reg,       \* g_sockChannelMap of the master, host to channels
  pending,   \* channels of the host VoteProc has just erased
  file,      \* HostInfo.xml of the master
  sync,      \* SyncProc: place, hosts still to read, table so far
  sem,       \* g_sem, counted up to one: a second post repeats a push
  push,      \* ProcessSendProc: place and the size it found
  pull,      \* RequestHostInfoProc of Back's worker with the master's thread
  job,       \* threads of the standby, one of each type at a time: place,
             \* table, size it found
  hostFile,  \* HostInfo.xml of the standby
  conf,      \* g_configInfo.hostInfoVect of the standby
  unlucky,   \* whether a rare interleaving has happened
  changes

masterVars == <<reg, pending, changes>>
vars == <<masterVars, file, sync, sem, push, pull, job, hostFile, conf, unlucky>>

(* The text of a file: the hosts it lists with their channels.             *)
Tables == UNION {[S -> SUBSET Channels] : S \in SUBSET Hosts}
Blank  == [h \in {} |-> {}]

Known(t) == UNION {t[h] : h \in DOMAIN t}

(* What the elements of a host and of a channel add to the file.           *)
HostBytes    == 101
ChannelBytes == 29
Size(t) ==
  HostBytes * Cardinality(DOMAIN t)
    + ChannelBytes * Cardinality({e \in (DOMAIN t) \X Channels : e[2] \in t[e[1]]})

(* What the parser keeps of a text that ends too early: the hosts before   *)
(* some host, and of that host no more numbers than it had, the last one   *)
(* cut too.                                                                *)
Cuts(t) ==
  LET Fewer(h)   == {s \in SUBSET Channels : Cardinality(s) <= Cardinality(t[h])}
      Upto(h, s) == [g \in {k \in DOMAIN t : k <= h} |-> IF g = h THEN s ELSE t[g]]
  IN  ({Blank} \cup UNION {{Upto(h, s) : s \in Fewer(h)} : h \in DOMAIN t}) \ {t}

(* stat or ftell said n bytes, and the file is read now: a text that grew  *)
(* in between is cut, one that shrank ends before n.                       *)
Readings(t, n) == IF Size(t) > n THEN Cuts(t) ELSE {t}

(* One recv is taken for the whole message.                                *)
Received(t) == {t} \cup Cuts(t)

(* The types of message that carry a table to the standby.                 *)
Jobs == {10, 28}

Idle == [pc |-> "idle", table |-> Blank, size |-> 0]

Init ==
  /\ reg = Conf0 /\ pending = {} /\ changes = 0
  /\ file = Blank /\ hostFile = Blank
  /\ sync = [pc |-> "idle", left |-> {}, table |-> Blank]
  /\ sem = 0
  /\ push = [pc |-> "wait", size |-> 0]
  /\ pull = [pc |-> "idle", size |-> 0]
  /\ job = [j \in Jobs |-> Idle]
  /\ conf = Conf0
  /\ unlucky = FALSE

(* What takes an unlucky moment: "last", the last host falls silent, and   *)
(* none is left to take its channels; "twice", a host falls silent before  *)
(* the standby has heard what it holds, see Heard; "early", a host reports in the     *)
(* 50 ms its channels are on the way, or while the table is collected;     *)
(* "cut", a text is read while it grows, or recv returns a part of it;     *)
(* "overlap", two threads of the standby work at once.                     *)
Happens(kinds) ==
  /\ kinds \subseteq Rare
  /\ unlucky' = (unlucky \/ kinds # {})

-----------------------------------------------------------------------------
(* The master's map (ChannelAlloc has it in full)                          *)

(* The table the thread of a type 28 will apply, or what is left of it.    *)
Carried == IF job[28].pc \in {"size", "load"} THEN hostFile ELSE job[28].table

(* The tables the standby may yet apply.                                   *)
Coming == {Carried, file, sync.table}

(* The standby knows what the host holds, and no table on its way to the   *)
(* standby says otherwise.                                                 *)
Heard(h) ==
  \A t \in Coming \cup {conf} : h \in DOMAIN t => t[h] = reg[h]

(* VoteProc erases a host that is silent for more than 15 seconds.         *)
VoteScan(h) ==
  /\ h \in DOMAIN reg /\ pending = {} /\ changes < MaxChanges
  /\ Happens((IF DOMAIN reg = {h} THEN {"last"} ELSE {})
               \cup (IF Heard(h) THEN {} ELSE {"twice"}))
  /\ reg' = Restrict(reg, DOMAIN reg \ {h})
  /\ pending' = reg[h]
  /\ changes' = changes + 1
  /\ UNCHANGED <<file, sync, sem, push, pull, job, hostFile, conf>>

(* Fifty milliseconds later it hands the channels to hosts of the map, to  *)
(* any host here; with no host left they are dropped.                      *)
VoteAssign ==
  /\ pending # {}
  /\ \E to \in [pending -> DOMAIN reg] \cup (IF reg = Blank THEN {Blank} ELSE {}) :
       reg' = [h \in DOMAIN reg |->
                 reg[h] \cup {c \in DOMAIN to : to[c] = h}]
  /\ pending' = {}
  /\ UNCHANGED <<changes, file, sync, sem, push, pull, job, hostFile, conf, unlucky>>

(* A heartbeat of a host that is not in the map: the set it carries is     *)
(* taken as it is, whatever the host holds after a restart or an outage.   *)
Report(h) ==
  /\ h \notin DOMAIN reg
  /\ \E s \in SUBSET Channels :
       reg' = [g \in DOMAIN reg \cup {h} |-> IF g = h THEN s ELSE reg[g]]
  /\ Happens(IF pending # {} \/ sync.pc # "idle" THEN {"early"} ELSE {})
  /\ UNCHANGED <<pending, changes, file, sync, sem, push, pull, job, hostFile, conf>>

-----------------------------------------------------------------------------
(* SyncProc and WriteHostInfoFile                                          *)

SyncStart ==
  /\ sync.pc = "idle" /\ reg # Blank
  /\ sync' = [pc |-> "read", left |-> Hosts, table |-> Blank]
  /\ UNCHANGED <<masterVars, file, sem, push, pull, job, hostFile, conf, unlucky>>

(* Mutant: a host not in the map is written with no channel.            *)
WriteHostEmpty ==
  /\ sync.pc = "read" /\ sync.left # {}
  /\ LET h == Min(sync.left)
     IN  sync' = [sync EXCEPT
           !.left = @ \ {h},
           !.table = [g \in DOMAIN @ \cup {h} |->
                        IF g # h THEN @[g] ELSE IF h \in DOMAIN reg THEN reg[h] ELSE {}]]
  /\ UNCHANGED <<masterVars, file, sem, push, pull, job, hostFile, conf, unlucky>>

(* One turn of the loop, under both locks: a host not in the map is left   *)
(* out of the file.                                                        *)
WriteHost ==
  /\ sync.pc = "read" /\ sync.left # {}
  /\ LET h == Min(sync.left)
         in == h \in DOMAIN reg
     IN  sync' = [sync EXCEPT
           !.left = @ \ {h},
           !.table = [g \in DOMAIN @ \cup (IF in THEN {h} ELSE {}) |->
                        IF g = h THEN reg[h] ELSE @[g]]]
  /\ UNCHANGED <<masterVars, file, sem, push, pull, job, hostFile, conf, unlucky>>

(* Under 150 bytes, that is with no host, nothing is written.              *)
OpenFile ==
  /\ sync.pc = "read" /\ sync.left = {}
  /\ IF sync.table = Blank
       THEN /\ sync' = [sync EXCEPT !.pc = "idle"]
            /\ sem' = 1
            /\ UNCHANGED file
       ELSE /\ sync' = [sync EXCEPT !.pc = "write"]
            /\ file' = Blank
            /\ UNCHANGED sem
  /\ UNCHANGED <<masterVars, push, pull, job, hostFile, conf, unlucky>>

CloseFile ==
  /\ sync.pc = "write"
  /\ file' = sync.table
  /\ sync' = [pc |-> "idle", left |-> {}, table |-> Blank]
  /\ sem' = 1
  /\ UNCHANGED <<masterVars, push, pull, job, hostFile, conf, unlucky>>

SyncProc == SyncStart \/ WriteHost \/ OpenFile \/ CloseFile

-----------------------------------------------------------------------------
(* A thread of the standby serves a message                                *)

Serve(type, t) ==
  /\ job[type] = Idle
  /\ job' = [job EXCEPT ![type] = [pc |-> "open", table |-> t, size |-> 0]]

Overlap == IF \E j \in Jobs : job[j] # Idle THEN {"overlap"} ELSE {}
IfCut(t, u) == IF u # t THEN {"cut"} ELSE {}

-----------------------------------------------------------------------------
(* ProcessSendProc                                                         *)

(* Mutant: the result of stat is not looked at.                         *)
PushStatUnchecked ==
  /\ push.pc = "wait" /\ sem = 1
  /\ sem' = 0
  /\ push' = [pc |-> "read", size |-> IF file = Blank THEN -1 ELSE Size(file)]
  /\ UNCHANGED <<masterVars, file, sync, pull, job, hostFile, conf, unlucky>>

(* The first wait of three seconds that ends without a post sets nResult,  *)
(* and nothing is pushed ever again.                                       *)
WaitEnds ==
  /\ push.pc = "wait" /\ sem = 0
  /\ push' = [push EXCEPT !.pc = "off"]
  /\ UNCHANGED <<masterVars, file, sync, sem, pull, job, hostFile, conf, unlucky>>

PushStat ==
  /\ push.pc = "wait" /\ sem = 1
  /\ sem' = 0
  /\ push' = IF file = Blank THEN push ELSE [pc |-> "read", size |-> Size(file)]
  /\ UNCHANGED <<masterVars, file, sync, pull, job, hostFile, conf, unlucky>>

(* The standby has the file if its host is in the map.  What an earlier    *)
(* push left in szFileData goes out again where the file has been emptied  *)
(* after stat, and behind it where it got shorter: left out, since a type  *)
(* 28 writes the file anew before it reads it back, or else they overlap.  *)
PushSend ==
  /\ push.pc = "read"
  /\ push' = [pc |-> "wait", size |-> 0]
  /\ IF Back \in DOMAIN reg
       THEN \E t \in Readings(file, push.size) : \E u \in Received(t) :
              Serve(10, u) /\ Happens(IfCut(file, u) \cup Overlap)
       ELSE UNCHANGED <<job, unlucky>>
  /\ UNCHANGED <<masterVars, file, sync, sem, pull, hostFile, conf>>

ProcessSendProc == WaitEnds \/ PushStat \/ PushSend

-----------------------------------------------------------------------------
(* RequestHostInfoProc of the worker at Back, every three seconds          *)

(* Type 26: the master asks for the size of its file.                      *)
PullStat ==
  /\ pull.pc = "idle" /\ file # Blank
  /\ pull' = [pc |-> "read", size |-> Size(file)]
  /\ UNCHANGED <<masterVars, file, sync, sem, push, job, hostFile, conf, unlucky>>

(* It reads the file and answers; a text without a root is dropped, any    *)
(* other is handed on as a type 28.                                        *)
PullSend ==
  /\ pull.pc = "read"
  /\ pull' = [pc |-> "idle", size |-> 0]
  /\ \E t \in Readings(file, pull.size) : \E u \in Received(t) :
       \/ u = Blank /\ UNCHANGED <<job, unlucky>>
       \/ file # Blank /\ Serve(28, u) /\ Happens(IfCut(file, u) \cup Overlap)
  /\ UNCHANGED <<masterVars, file, sync, sem, push, hostFile, conf>>

(* The pull that gets the whole file.                                      *)
PullWhole ==
  /\ PullSend
  /\ file # Blank /\ job'[28].table = file

-----------------------------------------------------------------------------
(* ClientProcForSync at the standby                                        *)

Become(j, pc) == job' = [job EXCEPT ![j].pc = pc]

(* Mutant: a type 28 is only stored, as a type 10 is.                   *)
StoreOnly(j) ==
  /\ job[j].pc = "store"
  /\ hostFile' = job[j].table
  /\ job' = [job EXCEPT ![j] = Idle]
  /\ UNCHANGED <<masterVars, file, sync, sem, push, pull, conf, unlucky>>

StoreOpen(j) ==
  /\ job[j].pc = "open"
  /\ hostFile' = Blank
  /\ Become(j, "store")
  /\ UNCHANGED <<masterVars, file, sync, sem, push, pull, conf, unlucky>>

Store(j) ==
  /\ job[j].pc = "store"
  /\ hostFile' = job[j].table
  /\ job' = [job EXCEPT ![j] =
               IF j = 10 THEN Idle ELSE [@ EXCEPT !.pc = "size", !.table = Blank]]
  /\ UNCHANGED <<masterVars, file, sync, sem, push, pull, conf, unlucky>>

(* ReadConfigInfo3: LoadFile asks for the size, then reads that much.      *)
LoadSize(j) ==
  /\ job[j].pc = "size"
  /\ job' = [job EXCEPT ![j] = IF hostFile = Blank THEN Idle
               ELSE [@ EXCEPT !.pc = "load", !.size = Size(hostFile)]]
  /\ UNCHANGED <<masterVars, file, sync, sem, push, pull, hostFile, conf, unlucky>>

(* A file shorter than its size said is not read at all.                   *)
Load(j) ==
  /\ job[j].pc = "load"
  /\ IF Size(hostFile) < job[j].size
       THEN job' = [job EXCEPT ![j] = Idle] /\ UNCHANGED unlucky
       ELSE \E t \in Readings(hostFile, job[j].size) :
              /\ job' = [job EXCEPT ![j] =
                           [@ EXCEPT !.pc = "apply", !.table = t, !.size = 0]]
              /\ Happens(IfCut(hostFile, t))
  /\ UNCHANGED <<masterVars, file, sync, sem, push, pull, hostFile, conf>>

(* The next host of the table, under m_lock: a host the table does not     *)
(* name keeps the set it had.                                              *)
Apply(j) ==
  /\ job[j].pc = "apply"
  /\ LET t == job[j].table IN
       IF t = Blank
         THEN job' = [job EXCEPT ![j] = Idle] /\ UNCHANGED conf
         ELSE LET h == Min(DOMAIN t) IN
              /\ conf' = [conf EXCEPT ![h] = t[h]]
              /\ job' = [job EXCEPT ![j].table = Restrict(t, DOMAIN t \ {h})]
  /\ UNCHANGED <<masterVars, file, sync, sem, push, pull, hostFile, unlucky>>

ClientProcForSync(j) == StoreOpen(j) \/ Store(j) \/ LoadSize(j) \/ Load(j) \/ Apply(j)

Next ==
  \/ \E h \in Hosts : VoteScan(h) \/ Report(h)
  \/ VoteAssign
  \/ SyncProc
  \/ ProcessSendProc
  \/ PullStat \/ PullSend
  \/ \E j \in Jobs : ClientProcForSync(j)

Spec == Init /\ [][Next]_vars

(* Every thread goes on.  The file is empty for moments of the ten seconds *)
(* between two writings, and most messages come in one piece: a pull that  *)
(* could read it whole again and again does so some time.  The posts come  *)
(* at least ten seconds apart, so that a wait of three ends in vain.       *)
Fairness ==
  /\ WF_vars(VoteAssign)
  /\ WF_vars(SyncProc)
  /\ WF_vars(PushStat) /\ SF_vars(PushSend) /\ <>(push.pc = "off")
  /\ SF_vars(PullStat) /\ WF_vars(PullSend) /\ SF_vars(PullWhole)
  /\ \A j \in Jobs : WF_vars(ClientProcForSync(j))

FairSpec == Spec /\ Fairness

-----------------------------------------------------------------------------
Threads == [pc : {"idle", "open", "store", "size", "load", "apply"},
            table : Tables, size : Nat]

TypeOK ==
  /\ reg \in Tables /\ pending \subseteq Channels /\ changes \in 0 .. MaxChanges
  /\ file \in Tables /\ hostFile \in Tables
  /\ sync \in [pc : {"idle", "read", "write"}, left : SUBSET Hosts, table : Tables]
  /\ sem \in {0, 1}
  /\ push \in [pc : {"wait", "read", "off"}, size : Nat]
  /\ pull \in [pc : {"idle", "read"}, size : Nat]
  /\ job \in [Jobs -> Threads]
  /\ conf \in [Hosts -> SUBSET Channels]
  /\ unlucky \in BOOLEAN

(* Between tables the standby forgets no configured channel while hosts    *)
(* fall silent and return and their channels move, when none of the rare   *)
(* interleavings happens.  While ReadConfigInfo3 goes through the hosts, a *)
(* channel that moved to a later host is in no set: that is excepted.      *)
Remembered ==
  ~unlucky /\ (\A j \in Jobs : job[j].pc # "apply") => Known(Conf0) \subseteq Known(conf)

(* Again and again the standby holds the sets of all hosts in the master's *)
(* map, whatever was cut, came too early or overlapped before, and         *)
(* although the push dies: so it does for good once hosts stay and         *)
(* messages come whole.                                                    *)
TableArrives == []<>(\A h \in DOMAIN reg : conf[h] = reg[h])
=============================================================================
