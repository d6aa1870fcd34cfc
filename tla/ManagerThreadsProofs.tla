------------------------ MODULE ManagerThreadsProofs ------------------------
(***************************************************************************)
(* Proofs about ManagerThreads for any number of workers, threads, slots   *)
(* and connections.                                                        *)
(*                                                                         *)
(* CancelIsSafe is not inductive: a thread is taken out some time before   *)
(* it is cancelled, and cancelled before it dies.  Watched says where it   *)
(* is all that time, and that an entry which is 15 seconds old belongs to  *)
(* a thread that waits, has just read, or is just leaving.                 *)
(***************************************************************************)
EXTENDS ManagerThreads, TLAPS

(* A thread has a slot as long as it lives, and a worker at its other end. *)
Living ==
  \A t \in Thread :
    /\ pc[t] = "none" <=> slot[t] = None
    /\ slot[t] # None => peer[slot[t]] \in Worker

Watched ==
  /\ \A t \in pend : pc[t] = "read" /\ t \notin known
  /\ lock \in Thread => pc[lock] = "locked"
  /\ \A t \in known : pc[t] \notin {"none", "close"}
  /\ \A t \in recvOld : pc[t] \in {"read", "note", "leave"}
  /\ watch # None => pc[watch] = "read" /\ watch \notin known \cup pend

IInv ==
  /\ TypeOK
  /\ Living
  /\ SlotsAccounted
  /\ ~crossed => Watched

LEMMA NotAny == None \notin Slot
  BY ThreadsAssumption DEF None, Slot

LEMMA InitInv == Init => IInv
  <1> SUFFICES ASSUME Init PROVE IInv
    OBVIOUS
  <1>1. TypeOK
    <2>1. 0 \in 0 .. MaxConnects
      BY ThreadsAssumption
    <2> QED
      BY <2>1 DEF Init, TypeOK, Ends, Places
  <1>2. SlotsAccounted
    BY NotAny DEF Init, SlotsAccounted, Serves
  <1>3. Living /\ Watched
    BY ThreadsAssumption DEF Init, Living, Watched, None
  <1> QED
    BY <1>1, <1>2, <1>3 DEF IInv

LEMMA TypeStep == TypeOK /\ Living /\ [Next]_vars => TypeOK'
  <1> SUFFICES ASSUME TypeOK, Living, [Next]_vars PROVE TypeOK'
    OBVIOUS
  <1> USE ThreadsAssumption, NotAny
      DEF TypeOK, Places, Ends, connVars, mapVars, Goto, Crossing, Living
  <1>1. CASE UNCHANGED vars
    BY <1>1 DEF vars
  <1>2. ASSUME NEW w \in Worker, AcceptProc(w) PROVE TypeOK'
    BY <1>2 DEF AcceptProc
  <1>3. ASSUME NEW s \in Slot, Report(s) \/ Close(s) \/ Cut(s) PROVE TypeOK'
    BY <1>3 DEF Report, Close, Cut, Turns
  <1>4. ASSUME NEW t \in Thread, ReadReport(t) \/ NoteReport(t) PROVE TypeOK'
    BY <1>4 DEF ReadReport, NoteReport
  <1>5. ASSUME NEW t \in Thread, ReadFails(t) PROVE TypeOK'
    BY <1>5 DEF ReadFails
  <1>6. ASSUME NEW t \in Thread, Lock(t) PROVE TypeOK'
    BY <1>6 DEF Lock
  <1>7. ASSUME NEW t \in Thread, Unlock(t) PROVE TypeOK'
    BY <1>7 DEF Unlock
  <1>8. ASSUME NEW t \in Thread, Answer(t) PROVE TypeOK'
    <2>1. slot[t] \in Slot
      BY <1>8 DEF Answer
    <2>2. conn' \in [Slot -> Ends]
      BY <1>8, <2>1 DEF Answer
    <2>3. pc' \in [Thread -> Places] /\ sendOld' \subseteq known
      BY <1>8 DEF Answer
    <2> QED
      BY <1>8, <2>2, <2>3 DEF Answer
  <1>9. ASSUME NEW t \in Thread, Leave(t) PROVE TypeOK'
    BY <1>9 DEF Leave
  <1>10. ASSUME NEW t \in Thread, EndClient(t) PROVE TypeOK'
    BY <1>10 DEF EndClient
  <1>11. ASSUME NEW t \in Thread, Die(t) PROVE TypeOK'
    BY <1>11 DEF Die
  <1>12. ASSUME NEW t \in Thread, Elapse(t) PROVE TypeOK'
    BY <1>12 DEF Elapse
  <1>13. CASE VoteProc
    BY <1>13 DEF VoteProc
  <1>14. CASE TakeOut
    BY <1>14 DEF TakeOut, Overdue
  <1>15. CASE Cancel
    BY <1>15 DEF Cancel
  <1> QED
    BY <1>1, <1>2, <1>3, <1>4, <1>5, <1>6, <1>7, <1>8, <1>9, <1>10, <1>11, <1>12,
       <1>13, <1>14, <1>15 DEF Next, ClientProc

(* Slots change hands when a connection is accepted, and when its thread   *)
(* ends, in whatever way.                                                  *)
LEMMA SlotsStep ==
  TypeOK /\ Living /\ SlotsAccounted /\ [Next]_vars => Living' /\ SlotsAccounted'
  <1> SUFFICES ASSUME TypeOK, Living, SlotsAccounted, [Next]_vars
               PROVE  Living' /\ SlotsAccounted'
    OBVIOUS
  <1>t. /\ conn \in [Slot -> Ends] /\ pc \in [Thread -> Places]
        /\ slot \in [Thread -> Slot \cup {None}] /\ peer \in [Slot -> Worker \cup {None}]
    BY DEF TypeOK
  <1> USE NotAny DEF Living, SlotsAccounted, Serves
  <1>1. ASSUME NEW w \in Worker, AcceptProc(w) PROVE Living' /\ SlotsAccounted'
    <2>1. PICK s \in Slot, t \in Thread :
             /\ conn[s] = "free" /\ pc[t] = "none"
             /\ conn' = [conn EXCEPT ![s] = "idle"]
             /\ pc' = [pc EXCEPT ![t] = "read"]
             /\ slot' = [slot EXCEPT ![t] = s]
             /\ peer' = [peer EXCEPT ![s] = w]
      BY <1>1 DEF AcceptProc
    <2>2. slot[t] = None /\ \A u \in Thread : slot[u] # s
      BY <2>1
    <2> QED
      BY <1>t, <2>1, <2>2
  <1>2. ASSUME NEW t \in Thread, slot[t] \in Slot, slot' = [slot EXCEPT ![t] = None],
               pc' = [pc EXCEPT ![t] = "none"], NEW e \in {"free", "dead"},
               conn' = [conn EXCEPT ![slot[t]] = e],
               peer' = [peer EXCEPT ![slot[t]] = None]
        PROVE  Living' /\ SlotsAccounted'
    BY <1>t, <1>2
  <1>3. ASSUME NEW t \in Thread, EndClient(t) \/ Die(t) PROVE Living' /\ SlotsAccounted'
    <2>1. slot[t] \in Slot
      BY <1>t, <1>3 DEF EndClient, Die
    <2> QED
      BY <1>2, <1>3, <2>1 DEF EndClient, Die, Goto
  <1>4. ASSUME slot' = slot, peer' = peer,
               \A t \in Thread : pc'[t] = "none" <=> pc[t] = "none",
               \A s \in Slot : conn'[s] \in {"free", "dead"} <=> conn[s] \in {"free", "dead"}
        PROVE  Living' /\ SlotsAccounted'
    BY <1>4
  <1>5. ASSUME NEW s \in Slot, Report(s) \/ Close(s) \/ Cut(s)
        PROVE  Living' /\ SlotsAccounted'
    BY <1>t, <1>4, <1>5 DEF Report, Close, Cut, Turns
  <1>6. ASSUME NEW t \in Thread, ReadReport(t) PROVE Living' /\ SlotsAccounted'
    <2>1. conn[slot[t]] = "sent" /\ pc[t] = "read"
      BY <1>6 DEF ReadReport
    <2> QED
      BY <1>t, <1>4, <1>6, <2>1 DEF ReadReport, Goto
  <1>7. ASSUME NEW t \in Thread, Answer(t) PROVE Living' /\ SlotsAccounted'
    BY <1>t, <1>4, <1>7 DEF Answer, Goto
  <1>8. ASSUME NEW t \in Thread,
               NoteReport(t) \/ ReadFails(t) \/ Lock(t) \/ Unlock(t) \/ Leave(t)
        PROVE  Living' /\ SlotsAccounted'
    BY <1>t, <1>4, <1>8 DEF NoteReport, ReadFails, Lock, Unlock, Leave, Goto, connVars
  <1>9. ASSUME UNCHANGED <<conn, peer, pc, slot>> PROVE Living' /\ SlotsAccounted'
    BY <1>4, <1>9
  <1>10. \/ UNCHANGED <<conn, peer, pc, slot>>
         \/ \E w \in Worker : AcceptProc(w)
         \/ \E s \in Slot : Report(s) \/ Close(s) \/ Cut(s)
         \/ \E t \in Thread : Lock(t) \/ ClientProc(t)
    BY DEF Next, vars, connVars, Elapse, VoteProc, TakeOut, Cancel
  <1> QED
    BY <1>1, <1>3, <1>5, <1>6, <1>7, <1>8, <1>9, <1>10 DEF ClientProc

(* Where the threads are that the watchdog has taken out or cancelled.     *)
LEMMA WatchedStep ==
  ASSUME TypeOK, ~crossed => Watched, [Next]_vars, ~crossed'
  PROVE  Watched'
  <1>t. /\ pc \in [Thread -> Places] /\ known \subseteq Thread
        /\ recvOld \subseteq known /\ sendOld \subseteq known /\ pend \subseteq Thread
        /\ watch \in Thread \cup {None} /\ lock \in Thread \cup {None}
        /\ None \notin Thread
    BY ThreadsAssumption DEF TypeOK, None
  <1>c. ~crossed
    BY DEF Next, vars, connVars, mapVars, AcceptProc, Report, Close, Cut, Turns, ClientProc,
           ReadReport, NoteReport, ReadFails, Lock, Unlock, Answer, Leave, EndClient, Die, Elapse,
           VoteProc, TakeOut, Cancel, Crossing
  <1>w. Watched
    BY <1>c
  <1> USE <1>t, <1>w DEF Watched, Goto, mapVars, connVars
  <1>1. CASE UNCHANGED vars
    BY <1>1 DEF vars
  <1>2. ASSUME NEW w \in Worker, AcceptProc(w) PROVE Watched'
    BY <1>2 DEF AcceptProc
  <1>3. ASSUME NEW s \in Slot, Report(s) \/ Close(s) \/ Cut(s) PROVE Watched'
    BY <1>3 DEF Report, Close, Cut, Turns
  <1>4. ASSUME NEW t \in Thread, ReadReport(t) PROVE Watched'
    BY <1>4 DEF ReadReport, Crossing, Free
  <1>16. ASSUME NEW t \in Thread, NoteReport(t) PROVE Watched'
    BY <1>16 DEF NoteReport
  <1>5. ASSUME NEW t \in Thread, ReadFails(t) PROVE Watched'
    BY <1>5 DEF ReadFails, Crossing, Free
  <1>6. ASSUME NEW t \in Thread, Lock(t) PROVE Watched'
    BY <1>6 DEF Lock
  <1>7. ASSUME NEW t \in Thread, Unlock(t) PROVE Watched'
    BY <1>7 DEF Unlock
  <1>8. ASSUME NEW t \in Thread, Answer(t) PROVE Watched'
    BY <1>8 DEF Answer
  <1>9. ASSUME NEW t \in Thread, Leave(t) PROVE Watched'
    BY <1>9 DEF Leave
  <1>10. ASSUME NEW t \in Thread, EndClient(t) PROVE Watched'
    BY <1>10 DEF EndClient
  <1>11. ASSUME NEW t \in Thread, Die(t) PROVE Watched'
    BY <1>11 DEF Die
  <1>12. ASSUME NEW t \in Thread, Elapse(t) PROVE Watched'
    BY <1>12 DEF Elapse, Orphaned
  <1>13. CASE VoteProc
    BY <1>13 DEF VoteProc
  <1>14. CASE TakeOut
    <2>1. PICK t \in Overdue : /\ watch' = t /\ known' = known \ {t}
                               /\ crossed' = (crossed \/ pc[t] \in {"note", "leave"})
      BY <1>14 DEF TakeOut
    <2>2. pc[t] = "read"
      BY <2>1 DEF Overdue
    <2> QED
      BY <1>14, <2>1, <2>2 DEF TakeOut, Overdue
  <1>15. CASE Cancel
    BY <1>15 DEF Cancel
  <1> QED
    BY <1>1, <1>2, <1>3, <1>4, <1>5, <1>6, <1>7, <1>8, <1>9, <1>10, <1>11, <1>12,
       <1>13, <1>14, <1>15, <1>16 DEF Next, ClientProc

LEMMA Inductive == Spec => []IInv
  <1>1. IInv /\ [Next]_vars => IInv'
    BY TypeStep, SlotsStep, WatchedStep DEF IInv
  <1> QED
    BY <1>1, InitInv, PTL DEF Spec

(* TypeCorrect: the shape of the state.                                    *)
THEOREM TypeCorrect == Spec => []TypeOK
  <1>1. IInv => TypeOK
    BY DEF IInv
  <1> QED
    BY <1>1, Inductive, PTL

(* NoSlotShared: whatever crosses whatever, a slot is used by one thread,  *)
(* and lost to a cancelled one only.                                       *)
THEOREM NoSlotShared == Spec => []SlotsAccounted
  <1>1. IInv => SlotsAccounted
    BY DEF IInv
  <1> QED
    BY <1>1, Inductive, PTL

(* CancelsOnlyIdle: the watchdog does no harm unless it is crossed.        *)
THEOREM CancelsOnlyIdle == Spec => []CancelIsSafe
  <1>1. IInv => CancelIsSafe
    BY DEF IInv, Watched, CancelIsSafe, Orphaned
  <1> QED
    BY <1>1, Inductive, PTL
=============================================================================
