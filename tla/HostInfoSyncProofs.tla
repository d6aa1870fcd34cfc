------------------------- MODULE HostInfoSyncProofs -------------------------
(***************************************************************************)
(* Proofs about HostInfoSync for any hosts, channels, configuration, and   *)
(* any number of hosts that fall silent.                                   *)
(***************************************************************************)
EXTENDS HostInfoSync, FiniteSetTheorems, WellFoundedInduction, TLAPS

-----------------------------------------------------------------------------
(* Tables                                                                  *)

LEMMA TableIs ==
  ASSUME NEW S \in SUBSET Hosts, NEW t \in [S -> SUBSET Channels]
  PROVE  t \in Tables
  BY DEF Tables

LEMMA IsTable ==
  ASSUME NEW t \in Tables
  PROVE  DOMAIN t \in SUBSET Hosts /\ t \in [DOMAIN t -> SUBSET Channels]
  BY DEF Tables

LEMMA BlankTable == Blank \in Tables /\ DOMAIN Blank = {}
  <1>1. {} \in SUBSET Hosts /\ Blank \in [{} -> SUBSET Channels]
    BY DEF Blank
  <1> QED
    BY <1>1, TableIs

(* A table that is not blank names a host.                                 *)
LEMMA NotBlank ==
  ASSUME NEW t \in Tables, t # Blank
  PROVE  DOMAIN t # {}
  BY IsTable DEF Blank

LEMMA RestrictType ==
  ASSUME NEW t \in Tables, NEW h
  PROVE  /\ Restrict(t, DOMAIN t \ {h}) \in Tables
         /\ DOMAIN Restrict(t, DOMAIN t \ {h}) = DOMAIN t \ {h}
         /\ \A g \in DOMAIN t \ {h} : Restrict(t, DOMAIN t \ {h})[g] = t[g]
  <1> DEFINE r == Restrict(t, DOMAIN t \ {h})
  <1>1. DOMAIN t \ {h} \in SUBSET Hosts /\ r \in [DOMAIN t \ {h} -> SUBSET Channels]
    BY IsTable DEF Restrict
  <1> QED
    BY <1>1, TableIs DEF Restrict

LEMMA MinIn ==
  ASSUME NEW S \in SUBSET Hosts, S # {}
  PROVE  Min(S) \in S
  <1> DEFINE less == {ss \in Nat \X Nat : ss[1] < ss[2]}
  <1>0. S \subseteq Nat
    BY SyncAssumption
  <1>1. IsWellFoundedOn(less, Nat)
    BY NatLessThanWellFounded DEF OpToRel
  <1>2. PICK n \in S : \A m \in S : <<m, n>> \notin less
    BY <1>0, <1>1, WFMin
  <1>3. ASSUME NEW m \in S PROVE n <= m
    <2>1. m \in Nat /\ n \in Nat /\ <<m, n>> \in Nat \X Nat
      BY <1>0
    <2>2. ~(m < n)
      BY <1>2, <2>1
    <2> QED
      BY <2>1, <2>2
  <1> QED
    BY <1>3 DEF Min

LEMMA SizeNat ==
  ASSUME NEW t \in Tables
  PROVE  Size(t) \in Nat
  <1> DEFINE E == {e \in (DOMAIN t) \X Channels : e[2] \in t[e[1]]}
  <1>1. IsFiniteSet(DOMAIN t)
    BY IsTable, FS_Subset, SyncAssumption
  <1>2. IsFiniteSet((DOMAIN t) \X Channels)
    BY <1>1, FS_Product, SyncAssumption
  <1>3. IsFiniteSet(E)
    BY <1>2, FS_Subset, E \in SUBSET ((DOMAIN t) \X Channels)
  <1>4. Cardinality(DOMAIN t) \in Nat /\ Cardinality(E) \in Nat
    BY <1>1, <1>3, FS_CardinalityType
  <1> QED
    BY <1>4 DEF Size, HostBytes, ChannelBytes

LEMMA CutsType ==
  ASSUME NEW t \in Tables
  PROVE  Cuts(t) \subseteq Tables
  <1>1. ASSUME NEW h \in DOMAIN t, NEW s \in SUBSET Channels
        PROVE  [g \in {k \in DOMAIN t : k <= h} |-> IF g = h THEN s ELSE t[g]] \in Tables
    <2> DEFINE S == {k \in DOMAIN t : k <= h}
    <2>1. S \in SUBSET Hosts
      BY IsTable
    <2>2. [g \in S |-> IF g = h THEN s ELSE t[g]] \in [S -> SUBSET Channels]
      BY IsTable
    <2> QED
      BY <2>1, <2>2, TableIs
  <1> DEFINE Fewer(h)   == {s \in SUBSET Channels : Cardinality(s) <= Cardinality(t[h])}
             Upto(h, s) == [g \in {k \in DOMAIN t : k <= h} |-> IF g = h THEN s ELSE t[g]]
             Some       == UNION {{Upto(h, s) : s \in Fewer(h)} : h \in DOMAIN t}
  <1>2. Cuts(t) = ({Blank} \cup Some) \ {t}
    BY DEF Cuts
  <1>3. ASSUME NEW u \in Some PROVE u \in Tables
    <2>1. PICK h \in DOMAIN t : u \in {Upto(h, s) : s \in Fewer(h)}
      OBVIOUS
    <2>2. PICK s \in SUBSET Channels : u = Upto(h, s)
      BY <2>1
    <2> QED
      BY <1>1, <2>2
  <1> QED
    BY <1>2, <1>3, BlankTable

LEMMA ReadingsType ==
  ASSUME NEW t \in Tables, NEW n
  PROVE  Readings(t, n) \subseteq Tables
  BY CutsType DEF Readings

LEMMA ReceivedType ==
  ASSUME NEW t \in Tables
  PROVE  Received(t) \subseteq Tables
  BY CutsType DEF Received

-----------------------------------------------------------------------------
(* Types                                                                   *)

(* SyncProc has written down only hosts it has passed, and the file is     *)
(* empty from its opening to its closing.                                  *)
Passed ==
  /\ sync.left \cap DOMAIN sync.table = {}
  /\ sync.pc = "idle" => sync.table = Blank
  /\ sync.pc = "write" => file = Blank

Shape == TypeOK /\ Passed

SyncPlace == {"idle", "read", "write"}

LEMMA TypeInit == Init => Shape
  <1> SUFFICES ASSUME Init PROVE Shape
    OBVIOUS
  <1> USE SyncAssumption, BlankTable DEF Init, TypeOK
  <1>1. Conf0 \in Tables
    BY TableIs
  <1>2. job \in [Jobs -> Threads]
    BY DEF Threads, Idle
  <1>3. /\ sync \in [pc : SyncPlace, left : SUBSET Hosts, table : Tables]
        /\ push \in [pc : {"wait", "read", "off"}, size : Nat]
        /\ pull \in [pc : {"idle", "read"}, size : Nat]
    BY DEF SyncPlace
  <1>4. reg \in Tables /\ pending \subseteq Channels /\ changes \in 0 .. MaxChanges
    BY <1>1
  <1> QED
    BY <1>2, <1>3, <1>4 DEF SyncPlace, Shape, Passed

LEMMA MasterType ==
  ASSUME TypeOK,
         VoteAssign \/ \E h \in Hosts : VoteScan(h) \/ Report(h)
  PROVE  TypeOK'
  <1> USE DEF TypeOK, Happens
  <1>0. DOMAIN reg \in SUBSET Hosts /\ reg \in [DOMAIN reg -> SUBSET Channels]
    BY IsTable
  <1>1. ASSUME NEW h \in Hosts, VoteScan(h) PROVE TypeOK'
    <2>1. reg' \in Tables
      BY <1>1, RestrictType DEF VoteScan
    <2>2. pending' \subseteq Channels /\ changes' \in 0 .. MaxChanges /\ unlucky' \in BOOLEAN
      BY <1>0, <1>1, SyncAssumption DEF VoteScan
    <2> QED
      BY <1>1, <2>1, <2>2 DEF VoteScan
  <1>2. ASSUME VoteAssign PROVE TypeOK'
    <2>1. PICK to \in [pending -> DOMAIN reg] \cup (IF reg = Blank THEN {Blank} ELSE {}) :
            reg' = [h \in DOMAIN reg |-> reg[h] \cup {c \in DOMAIN to : to[c] = h}]
      BY <1>2 DEF VoteAssign
    <2>2. DOMAIN to \subseteq Channels
      BY BlankTable
    <2>3. reg' \in [DOMAIN reg -> SUBSET Channels]
      BY <1>0, <2>1, <2>2
    <2>4. reg' \in Tables
      BY <1>0, <2>3, TableIs
    <2> QED
      BY <1>2, <2>4 DEF VoteAssign
  <1>3. ASSUME NEW h \in Hosts, Report(h) PROVE TypeOK'
    <2>1. PICK s \in SUBSET Channels :
            reg' = [g \in DOMAIN reg \cup {h} |-> IF g = h THEN s ELSE reg[g]]
      BY <1>3 DEF Report
    <2>2. reg' \in [DOMAIN reg \cup {h} -> SUBSET Channels]
      BY <1>0, <2>1, SyncAssumption
    <2>3. reg' \in Tables
      BY <1>0, <2>2, TableIs
    <2> QED
      BY <1>3, <2>3 DEF Report
  <1> QED
    BY <1>1, <1>2, <1>3

(* What WriteHost adds to the table.                                       *)
LEMMA WriteHostType ==
  ASSUME Shape, WriteHost
  PROVE  /\ sync'.pc = "read"
         /\ sync'.table \in Tables
         /\ \E h \in sync.left :
              /\ sync'.left = sync.left \ {h}
              /\ DOMAIN sync'.table = DOMAIN sync.table \cup ({h} \cap DOMAIN reg)
              /\ \A g \in DOMAIN sync'.table :
                   sync'.table[g] = IF g = h THEN reg[h] ELSE sync.table[g]
  <1> DEFINE h == Min(sync.left)
             S == DOMAIN sync.table \cup ({h} \cap DOMAIN reg)
             t == [g \in S |-> IF g = h THEN reg[h] ELSE sync.table[g]]
  <1>1. h \in sync.left
    BY MinIn DEF Shape, TypeOK, WriteHost
  <1>2. sync' = [pc |-> "read", left |-> sync.left \ {h}, table |-> t]
    BY DEF Shape, TypeOK, WriteHost
  <1> HIDE DEF h
  <1>3. /\ DOMAIN reg \in SUBSET Hosts /\ reg \in [DOMAIN reg -> SUBSET Channels]
        /\ DOMAIN sync.table \in SUBSET Hosts
        /\ sync.table \in [DOMAIN sync.table -> SUBSET Channels]
    BY IsTable DEF Shape, TypeOK
  <1>4. S \in SUBSET Hosts
    BY <1>3
  <1>5. t \in [S -> SUBSET Channels]
    BY <1>1, <1>3 DEF Shape, Passed
  <1>6. t \in Tables
    BY <1>4, <1>5, TableIs
  <1>7. DOMAIN t = S /\ \A g \in S : t[g] = IF g = h THEN reg[h] ELSE sync.table[g]
    OBVIOUS
  <1> HIDE DEF t
  <1>8. sync'.pc = "read" /\ sync'.left = sync.left \ {h} /\ sync'.table = t
    BY <1>2
  <1> QED
    BY <1>1, <1>6, <1>7, <1>8

LEMMA SyncType ==
  ASSUME Shape, SyncProc
  PROVE  Shape'
  <1> USE BlankTable DEF Shape, TypeOK, Passed
  <1>1. CASE SyncStart
    BY <1>1 DEF SyncStart, masterVars
  <1>2. CASE WriteHost
    <2>1. /\ sync' \in [pc : SyncPlace, left : SUBSET Hosts, table : Tables]
          /\ sync'.left \cap DOMAIN sync'.table = {} /\ sync'.pc # "idle"
      BY <1>2, WriteHostType DEF WriteHost, SyncPlace
    <2> QED
      BY <1>2, <2>1 DEF WriteHost, masterVars, SyncPlace
  <1>3. CASE OpenFile
    BY <1>3 DEF OpenFile, masterVars
  <1>4. CASE CloseFile
    BY <1>4 DEF CloseFile, masterVars
  <1> QED
    BY <1>1, <1>2, <1>3, <1>4 DEF SyncProc

LEMMA ServeType ==
  ASSUME TypeOK, NEW j \in Jobs, NEW t \in Tables, Serve(j, t)
  PROVE  job' \in [Jobs -> Threads]
  BY DEF TypeOK, Serve, Threads

LEMMA PushType ==
  ASSUME TypeOK, ProcessSendProc
  PROVE  TypeOK'
  <1> USE DEF TypeOK
  <1>1. CASE WaitEnds
    BY <1>1 DEF WaitEnds, masterVars
  <1>2. CASE PushStat
    BY <1>2, SizeNat DEF PushStat, masterVars
  <1>3. CASE PushSend
    <2>1. job' \in [Jobs -> Threads] /\ unlucky' \in BOOLEAN
      BY <1>3, ReadingsType, ReceivedType, ServeType DEF PushSend, Happens, Jobs
    <2> QED
      BY <1>3, <2>1 DEF PushSend, masterVars
  <1> QED
    BY <1>1, <1>2, <1>3 DEF ProcessSendProc

LEMMA PullType ==
  ASSUME TypeOK, PullStat \/ PullSend
  PROVE  TypeOK'
  <1> USE DEF TypeOK
  <1>1. CASE PullStat
    BY <1>1, SizeNat DEF PullStat, masterVars
  <1>2. CASE PullSend
    <2>1. job' \in [Jobs -> Threads] /\ unlucky' \in BOOLEAN
      BY <1>2, ReadingsType, ReceivedType, ServeType DEF PullSend, Happens, Jobs
    <2> QED
      BY <1>2, <2>1 DEF PullSend, masterVars
  <1> QED
    BY <1>1, <1>2

LEMMA StandbyType ==
  ASSUME TypeOK, NEW j \in Jobs, ClientProcForSync(j)
  PROVE  TypeOK'
  <1> USE BlankTable DEF TypeOK, Threads
  <1>1. CASE StoreOpen(j)
    BY <1>1 DEF StoreOpen, Become, masterVars
  <1>2. CASE Store(j)
    BY <1>2 DEF Store, Idle, masterVars
  <1>3. CASE LoadSize(j)
    BY <1>3, SizeNat DEF LoadSize, Idle, masterVars
  <1>4. CASE Load(j)
    <2>0. Idle \in Threads /\ job[j] \in Threads
      BY DEF Idle
    <2>1. CASE Size(hostFile) < job[j].size
      BY <1>4, <2>0, <2>1 DEF Load, masterVars
    <2>2. CASE ~(Size(hostFile) < job[j].size)
      <3>1. PICK t \in Readings(hostFile, job[j].size) :
              /\ job' = [job EXCEPT ![j] = [@ EXCEPT !.pc = "apply", !.table = t, !.size = 0]]
              /\ Happens(IfCut(hostFile, t))
        BY <1>4, <2>2 DEF Load
      <3>2. t \in Tables
        BY ReadingsType
      <3> QED
        BY <1>4, <2>0, <3>1, <3>2 DEF Load, Happens, masterVars
    <2> QED
      BY <2>1, <2>2
  <1>5. CASE Apply(j)
    <2> DEFINE t == job[j].table
    <2>0. t \in Tables
      OBVIOUS
    <2>1. CASE t = Blank
      BY <1>5, <2>1 DEF Apply, Idle, masterVars
    <2>2. CASE t # Blank
      <3> DEFINE h == Min(DOMAIN t)
      <3>1. h \in DOMAIN t
        BY <2>0, <2>2, MinIn, IsTable, NotBlank
      <3>2. /\ conf' = [conf EXCEPT ![h] = t[h]]
            /\ job' = [job EXCEPT ![j].table = Restrict(t, DOMAIN t \ {h})]
        BY <1>5, <2>2 DEF Apply
      <3> HIDE DEF h
      <3>3. conf' \in [Hosts -> SUBSET Channels]
        BY <2>0, <3>1, <3>2, IsTable
      <3>4. job' \in [Jobs -> Threads]
        <4>1. Restrict(t, DOMAIN t \ {h}) \in Tables
          BY <2>0, RestrictType
        <4> QED
          BY <3>2, <4>1
      <3> QED
        BY <1>5, <3>3, <3>4 DEF Apply, masterVars
    <2> QED
      BY <2>1, <2>2
  <1> QED
    BY <1>1, <1>2, <1>3, <1>4, <1>5 DEF ClientProcForSync

LEMMA TypeStep == Shape /\ [Next]_vars => Shape'
  <1> SUFFICES ASSUME Shape, [Next]_vars PROVE Shape'
    OBVIOUS
  <1>1. CASE UNCHANGED vars
    BY <1>1 DEF vars, masterVars, Shape, TypeOK, Passed
  <1>2. CASE SyncProc
    BY <1>2, SyncType
  <1>3. CASE \/ VoteAssign \/ \E h \in Hosts : VoteScan(h) \/ Report(h)
             \/ ProcessSendProc \/ PullStat \/ PullSend
             \/ \E j \in Jobs : ClientProcForSync(j)
    <2>1. TypeOK'
      BY <1>3, MasterType, PushType, PullType, StandbyType DEF Shape
    <2>2. UNCHANGED <<sync, file>>
      BY <1>3 DEF VoteAssign, VoteScan, Report, ProcessSendProc, WaitEnds, PushStat,
         PushSend, PullStat, PullSend, ClientProcForSync, StoreOpen, Store, LoadSize,
         Load, Apply
    <2> QED
      BY <2>1, <2>2 DEF Shape, Passed
  <1> QED
    BY <1>1, <1>2, <1>3 DEF Next

(* Files, tables in messages and sizes keep their shape, whatever is cut:  *)
(* in particular a size that was asked for is one of a file, not a failure.*)
THEOREM TypeCorrect == Spec => []TypeOK
  <1>1. Shape => TypeOK
    BY DEF Shape
  <1> QED
    BY <1>1, TypeInit, TypeStep, PTL DEF Spec

-----------------------------------------------------------------------------
(* The invariant                                                           *)

(* A table f once t was applied to it.                                     *)
Over(f, t) == [h \in Hosts |-> IF h \in DOMAIN t THEN t[h] ELSE f[h]]

(* What the standby's table will be when its thread is through, and when   *)
(* the master's file of now came after that.                               *)
After == Over(conf, Carried)
Later == Over(After, file)

Names(t, h, c) == h \in DOMAIN t /\ c \in t[h]

(* The threads of the standby work one at a time, and only that of a type  *)
(* 28 goes on to read the file, which keeps its size meanwhile.            *)
OneAtATime ==
  /\ job[10] = Idle \/ job[28] = Idle
  /\ job[10].pc \in {"idle", "open", "store"}
  /\ \A j \in Jobs : job[j].pc = "idle" => job[j] = Idle
  /\ job[28].pc = "load" => job[28].size = Size(hostFile)

(* A channel is in the master's map or in VoteProc's hand.                 *)
Somewhere ==
  /\ DOMAIN reg # {}
  /\ \A c \in Known(Conf0) : c \in pending \/ \E h \in Hosts : Names(reg, h, c)

(* For channels in VoteProc's hand, the standby keeps to the host they     *)
(* were taken from.                                                        *)
PendingHeard ==
  pending # {} =>
    \E a \in Hosts : /\ a \notin DOMAIN reg
                     /\ \A t \in Coming \cup {conf} : a \in DOMAIN t => pending \subseteq t[a]

(* Whatever the standby applies next keeps the channels.                   *)
Kept ==
  /\ \A c \in Known(Conf0) : \E h \in Hosts : c \in After[h]
  /\ \A c \in Known(Conf0) : \E h \in Hosts : c \in Later[h]
  /\ (\A j \in Jobs : job[j].pc # "apply") =>
       \A c \in Known(Conf0) : \E h \in Hosts : c \in conf[h]

(* A table being put together has the channel, or will have it from a host *)
(* still to be read, or does not name the host the standby knows it at.    *)
Covered(c, v) ==
  \E h \in Hosts :
    \/ Names(sync.table, h, c)
    \/ h \in sync.left /\ Names(reg, h, c)
    \/ h \notin DOMAIN sync.table /\ h \notin DOMAIN reg /\ c \in v[h]

Collected ==
  sync.pc = "read" => \A c \in Known(Conf0) : Covered(c, After) /\ Covered(c, Later)

Complete ==
  sync.pc = "write" => \A c \in Known(Conf0) : \E h \in Hosts : c \in Over(After, sync.table)[h]

SyncInv ==
  /\ OneAtATime /\ Somewhere /\ PendingHeard
  /\ Kept /\ Collected /\ Complete

Unforgotten == ~unlucky => SyncInv

LEMMA SyncInits == Init => Unforgotten
  <1> SUFFICES ASSUME Init PROVE SyncInv
    BY DEF Unforgotten
  <1> USE BlankTable, SyncAssumption DEF Init
  <1>1. OneAtATime
    BY DEF OneAtATime, Jobs, Idle
  <1>2. \A c \in Known(Conf0) : \E h \in Hosts : c \in Conf0[h]
    BY DEF Known
  <1>3. Somewhere
    BY <1>2 DEF Somewhere, Names
  <1>4. PendingHeard /\ Collected /\ Complete
    BY DEF PendingHeard, Collected, Complete
  <1>5. Carried = Blank
    BY DEF Carried, Idle, Jobs
  <1>6. \A h \in Hosts : After[h] = Conf0[h] /\ Later[h] = Conf0[h]
    BY <1>5 DEF After, Later, Over
  <1>7. Kept
    BY <1>2, <1>6 DEF Kept
  <1> QED
    BY <1>1, <1>3, <1>4, <1>7 DEF SyncInv

(* Steps that change nothing but how far the standby's thread has come.    *)
LEMMA Quiet ==
  ASSUME SyncInv, UNCHANGED <<reg, pending, sync, file>>, After' = After,
         OneAtATime', PendingHeard',
         (\A j \in Jobs : job[j].pc # "apply")' =>
           \A c \in Known(Conf0) : \E h \in Hosts : c \in conf'[h]
  PROVE  SyncInv'
  <1>1. Later' = Later
    BY DEF Later, Over
  <1>2. Somewhere'
    BY DEF SyncInv, Somewhere, Names
  <1>3. Kept'
    BY <1>1 DEF SyncInv, Kept
  <1>4. Collected'
    BY <1>1 DEF SyncInv, Collected, Covered, Names
  <1>5. Complete'
    BY DEF SyncInv, Complete, Over
  <1> QED
    BY <1>2, <1>3, <1>4, <1>5 DEF SyncInv

-----------------------------------------------------------------------------
(* The master's map                                                        *)

(* A host falls silent when the standby has heard of its channels and      *)
(* another host is left.                                                   *)
LEMMA ScanKeeps ==
  ASSUME Shape, SyncInv, ~unlucky', NEW h \in Hosts, VoteScan(h)
  PROVE  SyncInv'
  <1>1. /\ Heard(h) /\ DOMAIN reg # {h} /\ h \in DOMAIN reg /\ pending = {}
        /\ pending' = reg[h] /\ reg' = Restrict(reg, DOMAIN reg \ {h})
        /\ UNCHANGED <<file, sync, job, hostFile, conf>>
    BY DEF VoteScan, Happens
  <1>2. /\ DOMAIN reg' = DOMAIN reg \ {h}
        /\ \A g \in DOMAIN reg' : reg'[g] = reg[g]
    BY <1>1 DEF Restrict
  <1>3. OneAtATime' /\ Carried' = Carried
    BY <1>1 DEF SyncInv, OneAtATime, Carried
  <1>4. After' = After /\ Later' = Later
    BY <1>1, <1>3 DEF After, Later, Over
  <1>5. Somewhere'
    <2>1. DOMAIN reg' # {}
      BY <1>1, <1>2
    <2>2. ASSUME NEW c \in Known(Conf0)
          PROVE  c \in pending' \/ \E g \in Hosts : Names(reg', g, c)
      BY <1>1, <1>2 DEF SyncInv, Somewhere, Names
    <2> QED
      BY <2>1, <2>2 DEF Somewhere, Names
  <1>6. PendingHeard'
    <2>1. h \notin DOMAIN reg' /\ \A t \in Coming \cup {conf} : h \in DOMAIN t => pending' \subseteq t[h]
      BY <1>1, <1>2 DEF Heard
    <2>2. (Coming \cup {conf})' = Coming \cup {conf}
      BY <1>1, <1>3 DEF Coming
    <2> QED
      BY <2>1, <2>2 DEF PendingHeard
  <1>7. Kept' /\ Complete'
    BY <1>1, <1>4 DEF SyncInv, Kept, Complete, Over
  <1>8. After[h] = reg[h] /\ Later[h] = reg[h]
    <2>1. /\ h \in DOMAIN Carried => Carried[h] = reg[h]
          /\ h \in DOMAIN file => file[h] = reg[h]
          /\ conf[h] = reg[h]
      BY <1>1 DEF Heard, Coming, Shape, TypeOK
    <2> QED
      BY <2>1 DEF After, Later, Over
  <1>9. Collected'
    <2> SUFFICES ASSUME sync.pc = "read", NEW c \in Known(Conf0), NEW v \in {After, Later},
                        Covered(c, v)
                 PROVE  Covered(c, v)'
      BY <1>1, <1>4 DEF SyncInv, Collected, Covered, Names
    <2>1. PICK g \in Hosts :
            \/ Names(sync.table, g, c)
            \/ g \in sync.left /\ Names(reg, g, c)
            \/ g \notin DOMAIN sync.table /\ g \notin DOMAIN reg /\ c \in v[g]
      BY DEF Covered
    <2>2. CASE g = h /\ g \in sync.left /\ Names(reg, g, c)
      BY <1>1, <1>2, <1>4, <1>8, <2>2 DEF Covered, Names, Shape, Passed
    <2> QED
      BY <1>1, <1>2, <1>4, <2>1, <2>2 DEF Covered, Names
  <1> QED
    BY <1>3, <1>5, <1>6, <1>7, <1>9 DEF SyncInv

LEMMA AssignKeeps ==
  ASSUME Shape, SyncInv, VoteAssign
  PROVE  SyncInv'
  <1>1. /\ pending # {} /\ pending' = {}
        /\ UNCHANGED <<file, sync, job, hostFile, conf>>
    BY DEF VoteAssign
  <1>2. DOMAIN reg # {} /\ reg # Blank
    BY BlankTable DEF SyncInv, Somewhere
  <1>3. PICK to \in [pending -> DOMAIN reg] :
          reg' = [h \in DOMAIN reg |-> reg[h] \cup {c \in DOMAIN to : to[c] = h}]
    BY <1>2 DEF VoteAssign
  <1>4. /\ DOMAIN reg' = DOMAIN reg
        /\ \A h \in DOMAIN reg : reg'[h] = reg[h] \cup {c \in pending : to[c] = h}
    BY <1>3
  <1>5. DOMAIN reg \subseteq Hosts
    BY IsTable DEF Shape, TypeOK
  <1>6. OneAtATime' /\ Carried' = Carried
    BY <1>1 DEF SyncInv, OneAtATime, Carried
  <1>7. After' = After /\ Later' = Later
    BY <1>1, <1>6 DEF After, Later, Over
  <1>8. Somewhere'
    <2>1. ASSUME NEW c \in Known(Conf0)
          PROVE  \E h \in Hosts : Names(reg', h, c)
      <3>1. CASE c \in pending
        <4>1. to[c] \in DOMAIN reg
          BY <3>1
        <4> QED
          BY <1>4, <1>5, <3>1, <4>1 DEF Names
      <3>2. CASE \E h \in Hosts : Names(reg, h, c)
        BY <1>4, <3>2 DEF Names
      <3> QED
        BY <3>1, <3>2 DEF SyncInv, Somewhere
    <2> QED
      BY <1>2, <1>4, <2>1 DEF Somewhere, Names
  <1>9. PendingHeard' /\ Kept' /\ Complete'
    BY <1>1, <1>7 DEF SyncInv, PendingHeard, Kept, Complete, Over
  <1>10. Collected'
    BY <1>1, <1>4, <1>7 DEF SyncInv, Collected, Covered, Names
  <1> QED
    BY <1>6, <1>8, <1>9, <1>10 DEF SyncInv

LEMMA ReportKeeps ==
  ASSUME Shape, SyncInv, ~unlucky', NEW h \in Hosts, Report(h)
  PROVE  SyncInv'
  <1>1. /\ h \notin DOMAIN reg /\ pending = {} /\ sync.pc = "idle"
        /\ DOMAIN reg' = DOMAIN reg \cup {h}
        /\ \A g \in DOMAIN reg : reg'[g] = reg[g]
        /\ UNCHANGED <<pending, file, sync, job, hostFile, conf>>
    BY DEF Report, Happens
  <1>2. OneAtATime' /\ Carried' = Carried
    BY <1>1 DEF SyncInv, OneAtATime, Carried
  <1>3. After' = After /\ Later' = Later
    BY <1>1, <1>2 DEF After, Later, Over
  <1>4. Somewhere'
    BY <1>1 DEF SyncInv, Somewhere, Names
  <1>5. PendingHeard' /\ Kept' /\ Collected' /\ Complete'
    BY <1>1, <1>3 DEF SyncInv, PendingHeard, Kept, Collected, Complete
  <1> QED
    BY <1>2, <1>4, <1>5 DEF SyncInv

-----------------------------------------------------------------------------
(* The master's file                                                       *)

(* SyncProc touches neither the master's map nor the standby.              *)
LEMMA SyncLeaves ==
  ASSUME SyncInv, SyncProc
  PROVE  /\ UNCHANGED <<reg, pending, job, hostFile, conf>>
         /\ OneAtATime' /\ Carried' = Carried /\ After' = After /\ Somewhere'
         /\ Later' = Over(After, file')
  <1>1. UNCHANGED <<reg, pending, job, hostFile, conf>>
    BY DEF SyncProc, SyncStart, WriteHost, OpenFile, CloseFile, masterVars
  <1>2. OneAtATime' /\ Carried' = Carried
    BY <1>1 DEF SyncInv, OneAtATime, Carried
  <1>3. After' = After
    BY <1>1, <1>2 DEF After, Over
  <1>4. Somewhere'
    BY <1>1 DEF SyncInv, Somewhere, Names
  <1> QED
    BY <1>1, <1>2, <1>3, <1>4 DEF Later, Over

LEMMA StartKeeps ==
  ASSUME Shape, SyncInv, SyncStart
  PROVE  SyncInv'
  <1> USE SyncLeaves DEF SyncProc
  <1>1. /\ UNCHANGED file /\ sync.pc = "idle" /\ sync.table = Blank
        /\ sync'.pc = "read" /\ sync'.left = Hosts /\ sync'.table = Blank
    BY DEF SyncStart, Shape, Passed
  <1>2. Later' = Later
    BY <1>1 DEF Later
  <1>3. PendingHeard'
    BY <1>1 DEF SyncInv, PendingHeard, Coming
  <1>4. ASSUME NEW c \in Known(Conf0), NEW v \in {After, Later}
        PROVE  \/ \E h \in Hosts : Names(reg, h, c)
               \/ \E h \in Hosts : h \notin DOMAIN reg /\ c \in v[h]
    <2>1. CASE c \in pending
      <3>1. PICK a \in Hosts :
              /\ a \notin DOMAIN reg
              /\ \A t \in Coming \cup {conf} : a \in DOMAIN t => pending \subseteq t[a]
        BY <2>1 DEF SyncInv, PendingHeard
      <3>2. /\ a \in DOMAIN Carried => c \in Carried[a]
            /\ a \in DOMAIN file => c \in file[a]
            /\ c \in conf[a]
        BY <2>1, <3>1 DEF Coming, Shape, TypeOK
      <3>3. c \in After[a] /\ c \in Later[a]
        BY <3>2 DEF After, Later, Over
      <3> QED
        BY <3>1, <3>3
    <2> QED
      BY <2>1 DEF SyncInv, Somewhere
  <1>5. Collected'
    BY <1>1, <1>2, <1>4, BlankTable DEF Collected, Covered, Names
  <1>6. Kept' /\ Complete'
    BY <1>1, <1>2 DEF SyncInv, Kept, Complete
  <1> QED
    BY <1>3, <1>5, <1>6 DEF SyncInv

LEMMA WriteKeeps ==
  ASSUME Shape, SyncInv, WriteHost
  PROVE  SyncInv'
  <1> USE SyncLeaves DEF SyncProc
  <1>1. UNCHANGED file /\ sync.pc = "read" /\ sync'.pc = "read"
    BY WriteHostType DEF WriteHost
  <1>2. PICK h \in sync.left :
          /\ sync'.left = sync.left \ {h}
          /\ DOMAIN sync'.table = DOMAIN sync.table \cup ({h} \cap DOMAIN reg)
          /\ \A g \in DOMAIN sync'.table :
               sync'.table[g] = IF g = h THEN reg[h] ELSE sync.table[g]
    BY WriteHostType
  <1>3. h \notin DOMAIN sync.table
    BY DEF Shape, Passed
  <1>4. Later' = Later
    BY <1>1 DEF Later
  <1>5. PendingHeard'
    <2> SUFFICES ASSUME pending # {} PROVE PendingHeard'
      BY DEF PendingHeard
    <2>1. PICK a \in Hosts :
            /\ a \notin DOMAIN reg
            /\ \A t \in Coming \cup {conf} : a \in DOMAIN t => pending \subseteq t[a]
      BY DEF SyncInv, PendingHeard
    <2>2. ASSUME a \in DOMAIN sync'.table
          PROVE  pending \subseteq sync'.table[a]
      <3>1. a # h /\ a \in DOMAIN sync.table
        BY <1>2, <1>3, <2>1, <2>2
      <3>2. sync'.table[a] = sync.table[a]
        BY <1>2, <2>2, <3>1
      <3> QED
        BY <2>1, <3>1, <3>2 DEF Coming
    <2>3. \A t \in (Coming \cup {conf})' : a \in DOMAIN t => pending \subseteq t[a]
      BY <1>1, <2>1, <2>2 DEF Coming
    <2> QED
      BY <2>1, <2>3 DEF PendingHeard
  <1>6. ASSUME NEW c, NEW v, Covered(c, v)
        PROVE  \E g \in Hosts :
                 \/ Names(sync'.table, g, c)
                 \/ g \in sync'.left /\ Names(reg, g, c)
                 \/ g \notin DOMAIN sync'.table /\ g \notin DOMAIN reg /\ c \in v[g]
    <2>1. PICK g \in Hosts :
            \/ Names(sync.table, g, c)
            \/ g \in sync.left /\ Names(reg, g, c)
            \/ g \notin DOMAIN sync.table /\ g \notin DOMAIN reg /\ c \in v[g]
      BY <1>6 DEF Covered
    <2> QED
      BY <1>2, <1>3, <2>1 DEF Names
  <1>7. Collected'
    BY <1>1, <1>4, <1>6 DEF SyncInv, Collected, Covered
  <1>8. Kept' /\ Complete'
    BY <1>1, <1>4 DEF SyncInv, Kept, Complete
  <1> QED
    BY <1>5, <1>7, <1>8 DEF SyncInv

LEMMA OpenKeeps ==
  ASSUME Shape, SyncInv, OpenFile
  PROVE  SyncInv'
  <1> USE SyncLeaves DEF SyncProc
  <1>1. sync.pc = "read" /\ sync.left = {}
    BY DEF OpenFile
  <1>2. CASE sync.table = Blank
    <2>1. UNCHANGED file /\ sync'.pc = "idle" /\ sync'.table = Blank
      BY <1>2 DEF OpenFile, Shape, TypeOK
    <2>2. PendingHeard'
      BY <1>2, <2>1 DEF SyncInv, PendingHeard, Coming
    <2> QED
      BY <2>1, <2>2 DEF SyncInv, Kept, Collected, Complete, Later
  <1>3. CASE sync.table # Blank
    <2>1. file' = Blank /\ sync'.pc = "write" /\ sync'.table = sync.table
      BY <1>3 DEF OpenFile, Shape, TypeOK
    <2>2. PendingHeard'
      <3>1. \A t \in (Coming \cup {conf})' : t \in Coming \cup {conf} \/ DOMAIN t = {}
        BY <2>1, BlankTable DEF Coming
      <3> QED
        BY <3>1 DEF SyncInv, PendingHeard
    <2>3. \A h \in Hosts : Later'[h] = After[h]
      BY <2>1, BlankTable DEF After, Over
    <2>4. Kept'
      BY <2>3 DEF SyncInv, Kept
    <2>5. Complete'
      BY <1>1, <2>1 DEF SyncInv, Complete, Collected, Covered, Names, Over
    <2> QED
      BY <2>1, <2>2, <2>4, <2>5 DEF SyncInv, Collected
  <1> QED
    BY <1>2, <1>3

LEMMA CloseKeeps ==
  ASSUME Shape, SyncInv, CloseFile
  PROVE  SyncInv'
  <1> USE SyncLeaves DEF SyncProc
  <1>1. /\ sync.pc = "write" /\ file' = sync.table
        /\ sync'.pc = "idle" /\ sync'.table = Blank
    BY DEF CloseFile
  <1>2. PendingHeard'
    <2>1. \A t \in (Coming \cup {conf})' : t \in Coming \cup {conf} \/ DOMAIN t = {}
      BY <1>1, BlankTable DEF Coming
    <2> QED
      BY <2>1 DEF SyncInv, PendingHeard
  <1>3. Kept'
    BY <1>1 DEF SyncInv, Kept, Complete
  <1> QED
    BY <1>1, <1>2, <1>3 DEF SyncInv, Collected, Complete

-----------------------------------------------------------------------------
(* Messages to the standby                                                 *)

(* A message that comes whole while the standby's threads rest: a type 28  *)
(* brings the file of now.                                                 *)
LEMMA ServeKeeps ==
  ASSUME Shape, SyncInv, NEW type \in Jobs, type = 28 => file # Blank,
         Serve(type, file), Overlap = {},
         UNCHANGED <<reg, pending, sync, file, hostFile, conf>>
  PROVE  SyncInv'
  <1>1. \A j \in Jobs : job[j] = Idle
    BY DEF Overlap
  <1>2. /\ job'[type] = [pc |-> "open", table |-> file, size |-> 0]
        /\ \A j \in Jobs : j # type => job'[j] = Idle
    BY <1>1 DEF Serve, Shape, TypeOK
  <1>3. OneAtATime'
    BY <1>2 DEF OneAtATime, Jobs, Idle
  <1>4. Carried = Blank /\ Carried' = IF type = 28 THEN file ELSE Blank
    BY <1>1, <1>2 DEF Carried, Jobs, Idle
  <1>5. /\ After' = IF type = 28 THEN Later ELSE After
        /\ Later' = Later
    <2>1. CASE type = 28
      <3>1. After = [h \in Hosts |-> conf[h]]
        BY <1>4, BlankTable DEF After, Over
      <3>2. Later = Over(conf, file)
        BY <3>1 DEF Later, Over
      <3>3. After' = Over(conf, file)
        BY <1>4, <2>1 DEF After, Over
      <3>4. Later' = Over(Over(conf, file), file)
        BY <3>3 DEF Later, Over
      <3> QED
        BY <2>1, <3>2, <3>3, <3>4 DEF Over
    <2>2. CASE type # 28
      BY <1>4, <2>2 DEF After, Later, Over
    <2> QED
      BY <2>1, <2>2
  <1>6. PendingHeard'
    <2>1. \A t \in (Coming \cup {conf})' : t \in Coming \cup {conf}
      BY <1>4 DEF Coming
    <2> QED
      BY <2>1 DEF SyncInv, PendingHeard
  <1>7. Somewhere'
    BY DEF SyncInv, Somewhere, Names
  <1>8. Kept'
    <2>1. \A j \in Jobs : job[j].pc # "apply"
      BY <1>1 DEF Idle
    <2> QED
      BY <1>5, <2>1 DEF SyncInv, Kept
  <1>9. Collected'
    BY <1>5 DEF SyncInv, Collected, Covered, Names
  <1>10. Complete'
    <2>1. sync.pc = "write" => type # 28
      BY DEF Shape, Passed
    <2> QED
      BY <1>5, <2>1 DEF SyncInv, Complete, Over
  <1> QED
    BY <1>3, <1>6, <1>7, <1>8, <1>9, <1>10 DEF SyncInv

(* A step that leaves the standby and the files alone.                     *)
LEMMA IdleKeeps ==
  ASSUME SyncInv, UNCHANGED <<reg, pending, sync, file, hostFile, conf, job>>
  PROVE  SyncInv'
  <1>1. OneAtATime' /\ Carried' = Carried
    BY DEF SyncInv, OneAtATime, Carried
  <1>2. After' = After
    BY <1>1 DEF After, Over
  <1>3. PendingHeard'
    BY <1>1 DEF SyncInv, PendingHeard, Coming
  <1>4. (\A j \in Jobs : job[j].pc # "apply")' =>
          \A c \in Known(Conf0) : \E h \in Hosts : c \in conf'[h]
    BY DEF SyncInv, Kept
  <1> QED
    BY <1>1, <1>2, <1>3, <1>4, Quiet

LEMMA PushKeeps ==
  ASSUME Shape, SyncInv, ~unlucky', ProcessSendProc
  PROVE  SyncInv'
  <1>0. UNCHANGED <<reg, pending, sync, file, hostFile, conf>>
    BY DEF ProcessSendProc, WaitEnds, PushStat, PushSend, masterVars
  <1>1. CASE UNCHANGED job
    BY <1>0, <1>1, IdleKeeps
  <1>2. CASE ~UNCHANGED job
    <2>1. PICK u : Serve(10, u) /\ Happens(IfCut(file, u) \cup Overlap)
      BY <1>2 DEF ProcessSendProc, WaitEnds, PushStat, PushSend
    <2>2. u = file /\ Overlap = {}
      BY <2>1 DEF Happens, IfCut
    <2> QED
      BY <1>0, <2>1, <2>2, ServeKeeps DEF Jobs
  <1> QED
    BY <1>1, <1>2

LEMMA PullKeeps ==
  ASSUME Shape, SyncInv, ~unlucky', PullStat \/ PullSend
  PROVE  SyncInv'
  <1>0. UNCHANGED <<reg, pending, sync, file, hostFile, conf>>
    BY DEF PullStat, PullSend, masterVars
  <1>1. CASE UNCHANGED job
    BY <1>0, <1>1, IdleKeeps
  <1>2. CASE ~UNCHANGED job
    <2>1. PICK u : file # Blank /\ Serve(28, u) /\ Happens(IfCut(file, u) \cup Overlap)
      BY <1>2 DEF PullStat, PullSend
    <2>2. u = file /\ Overlap = {}
      BY <2>1 DEF Happens, IfCut
    <2> QED
      BY <1>0, <2>1, <2>2, ServeKeeps DEF Jobs
  <1> QED
    BY <1>1, <1>2

-----------------------------------------------------------------------------
(* The standby's thread                                                    *)

(* Steps of the thread before it applies a table leave what it carries.    *)
LEMMA StandbyKeeps ==
  ASSUME Shape, SyncInv, ~unlucky', NEW j \in Jobs,
         StoreOpen(j) \/ Store(j) \/ LoadSize(j) \/ Load(j)
  PROVE  SyncInv'
  <1> USE DEF SyncInv, OneAtATime, Shape, TypeOK, Threads, Jobs
  <1>0. /\ UNCHANGED <<reg, pending, sync, file, conf>>
        /\ job[j].pc \in {"open", "store", "size", "load"}
    BY DEF StoreOpen, Store, LoadSize, Load, masterVars
  <1>1. /\ job[j] # Idle /\ \A i \in Jobs : i # j => job[i] = Idle
        /\ job[j].pc \in {"size", "load"} => j = 28
    BY <1>0 DEF Idle
  <1>2. \A i \in Jobs : i # j => job'[i] = Idle
    BY <1>1 DEF StoreOpen, Store, LoadSize, Load, Become
  <1>3. OneAtATime' /\ Carried' = Carried
    <2>1. CASE StoreOpen(j)
      <3>1. job'[j].pc = "store" /\ job'[j].table = job[j].table
        BY <2>1 DEF StoreOpen, Become
      <3> QED
        BY <1>1, <1>2, <2>1, <3>1 DEF StoreOpen, Carried, Idle
    <2>2. CASE Store(j) /\ j = 10
      <3>1. job'[10] = Idle /\ job'[28] = Idle /\ job[28] = Idle
        BY <1>1, <1>2, <2>2 DEF Store
      <3> QED
        BY <3>1 DEF Carried, Idle
    <2>3. CASE Store(j) /\ j = 28
      <3>1. job'[j].pc = "size" /\ hostFile' = job[j].table /\ job[j].pc = "store"
        BY <2>3 DEF Store
      <3> QED
        BY <1>1, <1>2, <2>3, <3>1 DEF Carried, Idle
    <2>4. CASE LoadSize(j)
      <3>0. j = 28 /\ hostFile' = hostFile /\ Carried = hostFile
        BY <1>1, <2>4 DEF LoadSize, Carried
      <3>1. CASE hostFile = Blank
        <4>1. job'[j] = Idle
          BY <2>4, <3>1 DEF LoadSize
        <4> QED
          BY <1>1, <1>2, <3>0, <3>1, <4>1 DEF Carried, Idle
      <3>2. CASE hostFile # Blank
        <4>1. job'[j].pc = "load" /\ job'[j].size = Size(hostFile)
          BY <2>4, <3>2 DEF LoadSize
        <4> QED
          BY <1>1, <1>2, <3>0, <4>1 DEF Carried, Idle
      <3> QED
        BY <3>1, <3>2
    <2>5. CASE Load(j)
      <3>0. /\ j = 28 /\ hostFile' = hostFile /\ Carried = hostFile
            /\ job[j].size = Size(hostFile) /\ Size(hostFile) \in Nat
        BY <1>1, <2>5, SizeNat DEF Load, Carried
      <3>1. PICK t \in Readings(hostFile, job[j].size) :
              job' = [job EXCEPT ![j] = [@ EXCEPT !.pc = "apply", !.table = t, !.size = 0]]
        <4>1. ~(Size(hostFile) < job[j].size)
          BY <3>0
        <4> QED
          BY <2>5, <4>1 DEF Load
      <3>2. t = hostFile
        BY <3>0 DEF Readings
      <3>3. job'[j].pc = "apply" /\ job'[j].table = hostFile
        BY <3>1, <3>2
      <3> QED
        BY <1>1, <1>2, <3>0, <3>3 DEF Carried, Idle
    <2> QED
      BY <2>1, <2>2, <2>3, <2>4, <2>5
  <1>4. After' = After
    BY <1>0, <1>3 DEF After, Over
  <1>5. PendingHeard'
    BY <1>0, <1>3 DEF PendingHeard, Coming
  <1>6. \A c \in Known(Conf0) : \E h \in Hosts : c \in conf'[h]
    BY <1>0, <1>1 DEF Kept, Idle
  <1> QED
    BY <1>0, <1>3, <1>4, <1>5, <1>6, Quiet

(* A table is applied host by host: what it will come to does not change.  *)
LEMMA ApplyKeeps ==
  ASSUME Shape, SyncInv, NEW j \in Jobs, Apply(j)
  PROVE  SyncInv'
  <1> DEFINE t == job[28].table
  <1>0. UNCHANGED <<reg, pending, sync, file, hostFile>> /\ job[j].pc = "apply"
    BY DEF Apply, masterVars
  <1>1. j = 28 /\ job[10] = Idle /\ t \in Tables /\ Carried = t
    BY <1>0 DEF SyncInv, OneAtATime, Jobs, Idle, Carried, Shape, TypeOK, Threads
  <1>2. CASE t = Blank
    <2>1. conf' = conf /\ job'[28] = Idle /\ job'[10] = Idle
      BY <1>1, <1>2 DEF Apply, Jobs, Shape, TypeOK
    <2>2. OneAtATime' /\ Carried' = Carried
      BY <1>1, <1>2, <2>1 DEF OneAtATime, Carried, Jobs, Idle
    <2>3. After' = After
      BY <2>1, <2>2 DEF After, Over
    <2>4. PendingHeard'
      BY <1>0, <2>1, <2>2 DEF SyncInv, PendingHeard, Coming
    <2>5. \A h \in Hosts : After[h] = conf[h]
      BY <1>1, <1>2, BlankTable DEF After, Over
    <2> QED
      BY <1>0, <2>1, <2>2, <2>3, <2>4, <2>5, Quiet DEF SyncInv, Kept
  <1>3. CASE t # Blank
    <2> DEFINE h == Min(DOMAIN t)
               rest == Restrict(t, DOMAIN t \ {h})
    <2>1. h \in DOMAIN t /\ h \in Hosts
      BY <1>1, <1>3, MinIn, NotBlank, IsTable
    <2>2. /\ conf' = [conf EXCEPT ![h] = t[h]]
          /\ job' = [job EXCEPT ![28].table = rest]
      BY <1>1, <1>3 DEF Apply
    <2> HIDE DEF h
    <2>3. /\ \A g \in Hosts : conf'[g] = IF g = h THEN t[g] ELSE conf[g]
          /\ job'[28].table = rest /\ job'[28].pc = "apply" /\ job'[10] = Idle
      BY <1>0, <1>1, <2>1, <2>2 DEF Jobs, Shape, TypeOK, Threads
    <2>4. DOMAIN rest = DOMAIN t \ {h} /\ \A g \in DOMAIN rest : rest[g] = t[g]
      BY DEF Restrict
    <2>5. OneAtATime' /\ Carried' = rest
      BY <2>3 DEF OneAtATime, Carried, Jobs, Idle
    <2>6. After' = After
      <3>1. ASSUME NEW g \in Hosts
            PROVE  (IF g \in DOMAIN rest THEN rest[g] ELSE conf'[g])
                     = (IF g \in DOMAIN t THEN t[g] ELSE conf[g])
        BY <2>1, <2>3, <2>4
      <3>2. After = [g \in Hosts |-> IF g \in DOMAIN t THEN t[g] ELSE conf[g]]
        BY <1>1 DEF After, Over
      <3>3. After' = [g \in Hosts |-> IF g \in DOMAIN rest THEN rest[g] ELSE conf'[g]]
        BY <2>5 DEF After, Over
      <3> QED
        BY <3>1, <3>2, <3>3
    <2>7. PendingHeard'
      <3> SUFFICES ASSUME pending # {} PROVE PendingHeard'
        BY <1>0 DEF PendingHeard
      <3>1. PICK a \in Hosts :
              /\ a \notin DOMAIN reg
              /\ \A f \in Coming \cup {conf} : a \in DOMAIN f => pending \subseteq f[a]
        BY DEF SyncInv, PendingHeard
      <3>2. /\ a \in DOMAIN t => pending \subseteq t[a]
            /\ pending \subseteq conf[a]
        BY <1>1, <3>1 DEF Coming, Shape, TypeOK
      <3>3. /\ a \in DOMAIN rest => pending \subseteq rest[a]
            /\ pending \subseteq conf'[a]
        BY <2>1, <2>3, <2>4, <3>2
      <3>4. \A f \in (Coming \cup {conf})' : a \in DOMAIN f => pending \subseteq f[a]
        BY <1>0, <2>5, <3>1, <3>3 DEF Coming
      <3> QED
        BY <1>0, <3>1, <3>4 DEF PendingHeard
    <2>8. ~(\A i \in Jobs : job'[i].pc # "apply")
      BY <2>3 DEF Jobs
    <2> QED
      BY <1>0, <2>5, <2>6, <2>7, <2>8, Quiet
  <1> QED
    BY <1>2, <1>3

-----------------------------------------------------------------------------
LEMMA SyncStep == Shape /\ Unforgotten /\ [Next]_vars => Unforgotten'
  <1> SUFFICES ASSUME Shape, Unforgotten, [Next]_vars, ~unlucky' PROVE SyncInv'
    BY DEF Unforgotten
  <1>1. ~unlucky
    BY DEF Next, vars, VoteScan, Report, VoteAssign, SyncProc, SyncStart, WriteHost,
           OpenFile, CloseFile, ProcessSendProc, WaitEnds, PushStat, PushSend, PullStat,
           PullSend, ClientProcForSync, StoreOpen, Store, LoadSize, Load, Apply, Happens
  <1>2. SyncInv
    BY <1>1 DEF Unforgotten
  <1>3. CASE UNCHANGED vars
    BY <1>2, <1>3, IdleKeeps DEF vars, masterVars
  <1>4. CASE VoteAssign \/ \E h \in Hosts : VoteScan(h) \/ Report(h)
    BY <1>2, <1>4, AssignKeeps, ScanKeeps, ReportKeeps
  <1>5. CASE SyncProc
    BY <1>2, <1>5, StartKeeps, WriteKeeps, OpenKeeps, CloseKeeps DEF SyncProc
  <1>6. CASE ProcessSendProc \/ PullStat \/ PullSend
    BY <1>2, <1>6, PushKeeps, PullKeeps
  <1>7. CASE \E j \in Jobs : ClientProcForSync(j)
    BY <1>2, <1>7, StandbyKeeps, ApplyKeeps DEF ClientProcForSync
  <1> QED
    BY <1>3, <1>4, <1>5, <1>6, <1>7 DEF Next

(* Between tables the standby knows every configured channel, whatever     *)
(* hosts fall silent, return or take channels over and in whatever order   *)
(* the table is collected, written, read, stored and applied, until one of *)
(* the rare moments comes.                                                 *)
THEOREM RememberedHolds == Spec => []Remembered
  <1>1. Shape /\ Unforgotten => Remembered
    BY DEF Unforgotten, SyncInv, Kept, Remembered, Known, Shape, TypeOK
  <1> QED
    BY <1>1, TypeInit, TypeStep, SyncInits, SyncStep, PTL DEF Spec
=============================================================================
