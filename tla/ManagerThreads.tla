--------------------------- MODULE ManagerThreads ---------------------------
(***************************************************************************)
(* The threads with which JZManager serves its workers, and the watchdog   *)
(* that cancels them.                                                      *)
(*                                                                         *)
(* AcceptProc gives every connection a slot of pClientSocket and a thread  *)
(* (ClientProc), which notes each report it reads in g_threadMap, works on *)
(* the map of the hosts under g_sockChannelLock, answers, and at the end   *)
(* of the connection gives the slot back.  Every five seconds              *)
(* CancelRecvThread takes one thread out of g_threadMap that has neither   *)
(* read nor written for 15 seconds, and cancels it: after it has let go of *)
(* g_threadMapLock, so that the thread may have gone on meanwhile.  What   *)
(* is cancelled dies at its next cancellation point (recv, send, close,    *)
(* syslog, a sleep), with its slot, and with the lock if it has it.        *)
(***************************************************************************)
EXTENDS Integers

CONSTANTS
  Worker,     \* the worker hosts
  Thread,     \* the pthread_t the library gives out, again and again
  MAX_SOCKET, \* the places of pClientSocket, 0x2000
  Logged,     \* the hosts whose reports are logged with the lock held
  MaxConnects \* bound on the number of connections

ASSUME ThreadsAssumption ==
  /\ Thread \subseteq Nat
  /\ Logged \subseteq Worker
  /\ MAX_SOCKET \in Nat \ {0}
  /\ MaxConnects \in Nat

None == -1
Slot == 0 .. MAX_SOCKET - 1

VARIABLES
  conn,       \* per slot, "free" or its connection as both ends see it:
              \* "idle", "sent" (a report), "taken" (by ClientProc), "cut"
              \* (silent for good), "closed", "dead" (nobody will read it)
  peer,       \* the worker at the other end
  pc,         \* per thread, "none" or the place in ClientProc
  slot,       \* its nIndexOff
  known,      \* the threads of g_threadMap
  recvOld,    \* those whose nRecvTime is more than 15 seconds ago
  sendOld,    \* those whose nSendTime is, or is 0
  registered, \* the hosts of g_sockChannelMap
  lock,       \* the thread that has g_sockChannelLock
  watch,      \* the thread CancelRecvThread has taken out to cancel
  pend,       \* threads that are cancelled and have not died yet
  crossed,    \* history: the watchdog took out a thread that had read or
              \* was to read something before it was cancelled
  connects

connVars == <<conn, peer, connects>>
mapVars  == <<known, recvOld, sendOld>>
vars == <<connVars, pc, slot, mapVars, registered, lock, watch, pend, crossed>>

Init ==
  /\ conn = [s \in Slot |-> "free"]
  /\ peer = [s \in Slot |-> None]
  /\ pc = [t \in Thread |-> "none"]
  /\ slot = [t \in Thread |-> None]
  /\ known = {} /\ recvOld = {} /\ sendOld = {}
  /\ registered = {}
  /\ lock = None
  /\ watch = None
  /\ pend = {}
  /\ crossed = FALSE
  /\ connects = 0

-----------------------------------------------------------------------------
(* The workers: a report, then nothing until it is answered                *)

Using(w) == {s \in Slot : peer[s] = w /\ conn[s] \in {"idle", "sent", "taken"}}

(* A worker connects and AcceptProc finds a free slot and starts a thread. *)
(* Without either the connection is closed or forgotten, with no trace.    *)
AcceptProc(w) ==
  /\ Using(w) = {}
  /\ connects < MaxConnects
  /\ connects' = connects + 1
  /\ \E s \in Slot, t \in Thread :
       /\ conn[s] = "free"
       /\ pc[t] = "none"
       /\ conn' = [conn EXCEPT ![s] = "idle"]
       /\ peer' = [peer EXCEPT ![s] = w]
       /\ pc' = [pc EXCEPT ![t] = "read"]
       /\ slot' = [slot EXCEPT ![t] = s]
  /\ UNCHANGED <<mapVars, registered, lock, watch, pend, crossed>>

(* The connection of a slot changes at the worker's end.                   *)
Turns(s, from, to) ==
  /\ conn[s] \in from
  /\ conn' = [conn EXCEPT ![s] = to]
  /\ UNCHANGED <<peer, connects, pc, slot, mapVars, registered, lock, watch,
                 pend, crossed>>

Report(s) == Turns(s, {"idle"}, "sent")

(* The worker closes, or its process ends.                                 *)
Close(s) == Turns(s, {"idle", "sent", "taken"}, "closed")

(* Its host or its cable goes, with no word to the manager.                *)
Cut(s) == Turns(s, {"idle", "sent", "taken"}, "cut")

-----------------------------------------------------------------------------
(* ClientProc                                                              *)

Goto(t, place) == pc' = [pc EXCEPT ![t] = place]

(* The thread goes on although the watchdog has just taken it out.         *)
Crossing(t) == crossed' = (crossed \/ watch = t)

(* A cancelled thread comes no further than to its next cancellation point.*)
Free(t) == t \notin pend

(* A report is read; the thread has yet to note that it lives.             *)
ReadReport(t) ==
  /\ pc[t] = "read" /\ Free(t)
  /\ conn[slot[t]] = "sent"
  /\ conn' = [conn EXCEPT ![slot[t]] = "taken"]
  /\ Goto(t, "note")
  /\ Crossing(t)
  /\ UNCHANGED <<peer, connects, slot, mapVars, registered, lock, watch, pend>>

(* The report is noted under g_threadMapLock, which is no cancellation     *)
(* point: a thread not in g_threadMap, for the first time or because the   *)
(* watchdog has just taken it out, is put there with an nSendTime of 0.    *)
NoteReport(t) ==
  /\ pc[t] = "note"
  /\ known' = known \cup {t}
  /\ recvOld' = recvOld \ {t}
  /\ sendOld' = IF t \in known THEN sendOld ELSE sendOld \cup {t}
  /\ Goto(t, "enter")
  /\ UNCHANGED <<connVars, slot, registered, lock, watch, pend, crossed>>

ReadFails(t) ==
  /\ pc[t] = "read" /\ Free(t)
  /\ conn[slot[t]] = "closed"
  /\ Goto(t, "leave")
  /\ Crossing(t)
  /\ UNCHANGED <<connVars, slot, mapVars, registered, lock, watch, pend>>

(* g_sockChannelLock.lock() is not a cancellation point.                   *)
Lock(t) ==
  /\ pc[t] = "enter"
  /\ lock = None
  /\ lock' = t
  /\ Goto(t, "locked")
  /\ UNCHANGED <<connVars, slot, mapVars, registered, watch, pend, crossed>>

(* syslog is called with the lock held for one host by its address, and    *)
(* for a host that is new in the map.                                      *)
Logs(t) == peer[slot[t]] \in Logged \/ peer[slot[t]] \notin registered

(* Mutant: a way out of the section that leaves it locked.                 *)
UnlockForgotten(t) ==
  /\ pc[t] = "locked"
  /\ Free(t) \/ ~Logs(t)
  /\ registered' = registered \cup {peer[slot[t]]}
  /\ Goto(t, "answer")
  /\ UNCHANGED <<connVars, slot, mapVars, lock, watch, pend, crossed>>

Unlock(t) ==
  /\ pc[t] = "locked"
  /\ Free(t) \/ ~Logs(t)
  /\ registered' = registered \cup {peer[slot[t]]}
  /\ lock' = None
  /\ Goto(t, "answer")
  /\ UNCHANGED <<connVars, slot, mapVars, watch, pend, crossed>>

(* The answer goes out and is noted, if the entry is still there.          *)
Answer(t) ==
  /\ pc[t] = "answer" /\ Free(t)
  /\ IF conn[slot[t]] = "closed"
       THEN Goto(t, "leave") /\ UNCHANGED <<conn, sendOld>>
       ELSE /\ conn' = [conn EXCEPT ![slot[t]] = IF @ = "taken" THEN "idle" ELSE @]
            /\ sendOld' = sendOld \ {t}
            /\ Goto(t, "read")
  /\ UNCHANGED <<peer, connects, slot, known, recvOld, registered, lock, watch,
                 pend, crossed>>

(* Out of g_threadMap, lest the watchdog cancels a thread that has ended.  *)
Leave(t) ==
  /\ pc[t] = "leave"
  /\ known' = known \ {t}
  /\ recvOld' = recvOld \ {t}
  /\ sendOld' = sendOld \ {t}
  /\ Goto(t, "close")
  /\ UNCHANGED <<connVars, slot, registered, lock, watch, pend, crossed>>

(* Mutant: the place in the table is not given back.                       *)
EndClientKeepsSlot(t) ==
  /\ pc[t] = "close" /\ Free(t)
  /\ slot' = [slot EXCEPT ![t] = None]
  /\ Goto(t, "none")
  /\ UNCHANGED <<connVars, mapVars, registered, lock, watch, pend, crossed>>

(* CloseSocket, a cancellation point, and EndClient: the slot is free, and *)
(* the thread's number may be given out again.                             *)
EndClient(t) ==
  /\ pc[t] = "close" /\ Free(t)
  /\ conn' = [conn EXCEPT ![slot[t]] = "free"]
  /\ peer' = [peer EXCEPT ![slot[t]] = None]
  /\ slot' = [slot EXCEPT ![t] = None]
  /\ Goto(t, "none")
  /\ UNCHANGED <<connects, mapVars, registered, lock, watch, pend, crossed>>

(* A cancelled thread dies, and gives back neither slot nor lock.  One at  *)
(* "note" dies in the syslog after recv, or is past it and goes on.        *)
Die(t) ==
  /\ t \in pend
  /\ \/ pc[t] \in {"read", "note", "answer", "close"} /\ UNCHANGED registered
     \/ /\ pc[t] = "locked" /\ Logs(t)
        /\ registered' = registered \cup {peer[slot[t]]}
  /\ Goto(t, "none")
  /\ pend' = pend \ {t}
  /\ conn' = [conn EXCEPT ![slot[t]] = "dead"]
  /\ peer' = [peer EXCEPT ![slot[t]] = None]
  /\ slot' = [slot EXCEPT ![t] = None]
  /\ UNCHANGED <<connects, mapVars, lock, watch, crossed>>

ClientProc(t) ==
  \/ ReadReport(t) \/ NoteReport(t) \/ ReadFails(t) \/ Unlock(t) \/ Answer(t)
  \/ Leave(t) \/ EndClient(t) \/ Die(t)

-----------------------------------------------------------------------------
(* VoteProc, as far as it minds the lock                                   *)

Silent(w) ==
  \A t \in known \ recvOld : slot[t] # None => peer[slot[t]] # w

(* It erases a silent host, when it gets the lock.                         *)
VoteProc ==
  /\ lock = None
  /\ \E w \in registered : Silent(w) /\ registered' = registered \ {w}
  /\ UNCHANGED <<connVars, pc, slot, mapVars, lock, watch, pend, crossed>>

-----------------------------------------------------------------------------
(* CancelRecvThread                                                        *)

(* The lock of the hosts is with a thread that has died.                   *)
Orphaned == lock \in Thread /\ pc[lock] # "locked"

(* Fifteen seconds pass: for a thread that waits for a report, for all     *)
(* that wait for a lock nobody returns, and for an entry without a thread. *)
Elapse(t) ==
  /\ t \in known
  /\ \/ pc[t] = "read" /\ conn[slot[t]] # "sent"
     \/ pc[t] = "enter" /\ Orphaned
     \/ pc[t] = "none"
  /\ recvOld' = recvOld \cup {t}
  /\ sendOld' = sendOld \cup {t}
  /\ UNCHANGED <<connVars, pc, slot, known, registered, lock, watch, pend, crossed>>

(* Mutant: one of the two times is enough.                                 *)
OverdueOne == recvOld \cup sendOld

(* Neither read from nor written to for 15 seconds.                        *)
Overdue == recvOld \cap sendOld

(* Mutant: the times of the entry stay.                                    *)
TakeOutKeepsTimes ==
  /\ watch = None
  /\ \E t \in Overdue :
       /\ \A u \in Overdue : t <= u
       /\ watch' = t
       /\ known' = known \ {t}
       /\ crossed' = (crossed \/ pc[t] \in {"note", "leave"})
  /\ UNCHANGED <<connVars, pc, slot, recvOld, sendOld, registered, lock, pend>>

(* Mutant: the entry is copied after it is erased.                         *)
TakeOutForgets ==
  /\ watch = None
  /\ \E t \in Overdue :
       /\ \A u \in Overdue : t <= u
       /\ known' = known \ {t}
       /\ recvOld' = recvOld \ {t}
       /\ sendOld' = sendOld \ {t}
       /\ crossed' = (crossed \/ pc[t] \in {"note", "leave"})
  /\ UNCHANGED <<connVars, pc, slot, registered, lock, watch, pend>>

(* The first of them is taken out of the map ...                           *)
TakeOut ==
  /\ watch = None
  /\ \E t \in Overdue :
       /\ \A u \in Overdue : t <= u
       /\ watch' = t
       /\ known' = known \ {t}
       /\ recvOld' = recvOld \ {t}
       /\ sendOld' = sendOld \ {t}
       /\ crossed' = (crossed \/ pc[t] \in {"note", "leave"})
  /\ UNCHANGED <<connVars, pc, slot, registered, lock, pend>>

(* ... and cancelled, or whatever thread has its number now.  If none has, *)
(* the call is undefined: it fails, or the process ends, and with it all   *)
(* that is said here.                                                      *)
Cancel ==
  /\ watch # None
  /\ watch' = None
  /\ pend' = IF pc[watch] = "none" THEN pend ELSE pend \cup {watch}
  /\ UNCHANGED <<connVars, pc, slot, mapVars, registered, lock, crossed>>

-----------------------------------------------------------------------------
Next ==
  \/ \E w \in Worker : AcceptProc(w)
  \/ \E s \in Slot : Report(s) \/ Close(s) \/ Cut(s)
  \/ \E t \in Thread : Lock(t) \/ ClientProc(t) \/ Elapse(t)
  \/ VoteProc \/ TakeOut \/ Cancel

Spec == Init /\ [][Next]_vars

(* The threads run, a lock that comes free again and again is got, and     *)
(* time passes for a connection that stays silent.                         *)
Fairness ==
  /\ \A t \in Thread :
       /\ WF_vars(ClientProc(t))
       /\ SF_vars(Lock(t))
       /\ WF_vars(slot[t] # None /\ conn[slot[t]] = "cut" /\ Elapse(t))
  /\ WF_vars(TakeOut)
  /\ WF_vars(Cancel)

FairSpec == Spec /\ Fairness

-----------------------------------------------------------------------------
(* Properties                                                              *)

Places == {"none", "read", "note", "enter", "locked", "answer", "leave", "close"}
Ends   == {"free", "idle", "sent", "taken", "cut", "closed", "dead"}

(* The shape of every variable.                                            *)
TypeOK ==
  /\ conn \in [Slot -> Ends]
  /\ peer \in [Slot -> Worker \cup {None}]
  /\ pc \in [Thread -> Places]
  /\ slot \in [Thread -> Slot \cup {None}]
  /\ known \subseteq Thread /\ recvOld \subseteq known /\ sendOld \subseteq known
  /\ registered \subseteq Worker
  /\ lock \in Thread \cup {None}
  /\ watch \in Thread \cup {None}
  /\ pend \subseteq Thread
  /\ crossed \in BOOLEAN
  /\ connects \in 0 .. MaxConnects

Serves(t, s) == slot[t] = s

(* A slot in use belongs to one thread that serves it, or to one that was  *)
(* cancelled; a free one to none.  Two threads never have the same.        *)
SlotsAccounted ==
  /\ \A s \in Slot : conn[s] \in {"free", "dead"} <=> \A t \in Thread : ~Serves(t, s)
  /\ \A t, u \in Thread : \A s \in Slot : Serves(t, s) /\ Serves(u, s) => t = u

(* If no report and no end of a connection comes in the moment of the      *)
(* watchdog's decision and call, which lasts from the read that is not yet *)
(* noted to the cancellation, it cancels only a thread that waits for a    *)
(* report, the lock of the hosts is never with a dead thread, and          *)
(* g_threadMap lists no thread that has ended.                             *)
CancelIsSafe ==
  ~crossed =>
    /\ \A t \in pend : pc[t] = "read"
    /\ ~Orphaned
    /\ \A t \in known : pc[t] # "none"

(* Then, too, every report is answered, or its connection or thread ends.  *)
ReportAnswered ==
  \A s \in Slot :
    conn[s] \in {"sent", "taken"} ~> conn[s] \notin {"sent", "taken"} \/ crossed

(* A thread that has read from a worker which then falls silent for good   *)
(* is found and ends.                                                      *)
SilentEnds ==
  \A t \in Thread, s \in Slot :
    (t \in known /\ Serves(t, s) /\ conn[s] = "cut") ~> (~Serves(t, s) \/ crossed)
=============================================================================
