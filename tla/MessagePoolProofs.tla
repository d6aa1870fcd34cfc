-------------------------- MODULE MessagePoolProofs --------------------------
(***************************************************************************)
(* Proofs about MessagePool for every number of slots, producers and       *)
(* messages.                                                               *)
(***************************************************************************)
EXTENDS MessagePool, TLAPS

Safe == Init /\ [][Next]_vars

LEMMA SpecSafe == Spec => Safe
  BY DEF Spec, Safe

-----------------------------------------------------------------------------
(* Type correctness                                                        *)

LEMMA NextSlotTyped == next \in Slot => NextSlot \in Slot
  BY PoolAssumption DEF Slot, NextSlot

LEMMA ClaimTyped ==
  ASSUME TypeOK, get_message
  PROVE  /\ next' \in Slot
         /\ claims' \in 0 .. MaxClaims
         /\ claims' = claims + 1
         /\ [slot |-> next, msg |-> claims + 1] \in Entry
  BY NextSlotTyped, PoolAssumption DEF TypeOK, get_message, Entry

LEMMA TypeInit == Init => TypeOK
  <1> SUFFICES ASSUME Init PROVE TypeOK
    OBVIOUS
  <1>1. 0 \in Slot /\ 0 \in 0 .. MaxClaims
    BY PoolAssumption DEF Slot
  <1>2. [slot |-> 0, msg |-> 0] \in Entry
    BY <1>1 DEF Entry
  <1>3. content \in [Slot -> 0 .. MaxClaims] /\ mine \in [Thread -> Entry]
    BY <1>1, <1>2 DEF Init
  <1>4. list \in Seq(Entry)
    BY DEF Init
  <1> QED
    BY <1>1, <1>2, <1>3, <1>4 DEF Init, TypeOK

SlotStep(t) == Claim(t) \/ Clear(t) \/ Fill(t) \/ put(t)

LEMMA SlotTyped == ASSUME TypeOK, NEW t \in Thread, SlotStep(t) PROVE TypeOK'
  <1> USE DEF handlerVars
  <1>0. mine[t].slot \in Slot /\ mine[t].msg \in 0 .. MaxClaims
    BY DEF TypeOK, Entry
  <1>1. CASE Claim(t)
    BY <1>1, ClaimTyped DEF TypeOK, Claim
  <1>2. CASE Clear(t)
    BY <1>0, <1>2, PoolAssumption DEF TypeOK, Clear, Write, Lapped
  <1>3. CASE Fill(t)
    BY <1>0, <1>3 DEF TypeOK, Fill, Write, Lapped
  <1>4. CASE put(t)
    BY <1>4 DEF TypeOK, put, Spent
  <1> QED
    BY <1>1, <1>2, <1>3, <1>4 DEF SlotStep

LEMMA TypeStep == TypeOK /\ [Next]_vars => TypeOK'
  <1> SUFFICES ASSUME TypeOK, [Next]_vars PROVE TypeOK'
    OBVIOUS
  <1> USE DEF vars, prodVars, handlerVars
  <1>1. CASE handle_timeout
    BY <1>1, ClaimTyped DEF TypeOK, handle_timeout
  <1>2. CASE Wake
    BY <1>2 DEF TypeOK, Wake
  <1>3. CASE Pop
    <2>1. list # << >> => Head(list) \in Entry /\ Tail(list) \in Seq(Entry)
      BY DEF TypeOK
    <2> QED
      BY <1>3, <2>1 DEF TypeOK, Pop
  <1>4. CASE Dispatch
    <2>1. content[current.slot] \in 0 .. MaxClaims
      BY DEF TypeOK, Entry
    <2> QED
      BY <1>4, <2>1 DEF TypeOK, Dispatch
  <1>5. CASE Handle
    BY <1>5 DEF TypeOK, Handle
  <1>6. ASSUME NEW p \in Producer, ProducerStep(p) PROVE TypeOK'
    BY <1>6, SlotTyped DEF ProducerStep, Receive, SlotStep, Thread
  <1>7. CASE Quiet \/ UNCHANGED vars
    BY <1>7 DEF TypeOK, Quiet
  <1>8. CASE Originate \/ HandlerMessage
    BY <1>8, SlotTyped DEF Originate, HandlerMessage, SlotStep, Thread
  <1> QED
    BY <1>1, <1>2, <1>3, <1>4, <1>5, <1>6, <1>7, <1>8 DEF Next, HandlerStep

(* Every variable of the message path keeps its shape; in particular       *)
(* m_nMsgBufferCount never leaves the ring.                                *)
THEOREM TypeCorrect == Spec => []TypeOK
  BY TypeInit, TypeStep, SpecSafe, PTL DEF Safe

-----------------------------------------------------------------------------
(* The semaphore                                                           *)

LEMMA WakeStep ==
  TypeOK /\ OneWakePerMessage /\ [Next]_vars => OneWakePerMessage'
  <1> SUFFICES ASSUME TypeOK, OneWakePerMessage, [Next]_vars
               PROVE  OneWakePerMessage'
    OBVIOUS
  <1> USE DEF vars, prodVars, handlerVars
  <1>1. CASE Wake
    BY <1>1 DEF Wake, OneWakePerMessage, TypeOK
  <1>2. CASE Pop
    <2>1. list # << >>
      BY <1>2 DEF Pop, OneWakePerMessage, TypeOK
    <2>2. Len(Tail(list)) = Len(list) - 1
      BY <2>1 DEF TypeOK
    <2> QED
      BY <1>2, <2>1, <2>2 DEF Pop, OneWakePerMessage, TypeOK
  <1>3. CASE handle_timeout \/ Dispatch \/ Handle \/ Quiet \/ UNCHANGED vars
    BY <1>3 DEF handle_timeout, Dispatch, Handle, Quiet, OneWakePerMessage
  <1>4. ASSUME NEW t \in Thread, SlotStep(t) PROVE OneWakePerMessage'
    <2>1. CASE put(t)
      <3>1. Len(Append(list, mine[t])) = Len(list) + 1
        BY DEF TypeOK
      <3> QED
        BY <2>1, <3>1 DEF put, OneWakePerMessage, TypeOK
    <2> QED
      BY <1>4, <2>1 DEF SlotStep, Claim, Clear, Fill, Write, OneWakePerMessage
  <1>5. ASSUME NEW p \in Producer, ProducerStep(p) PROVE OneWakePerMessage'
    BY <1>4, <1>5 DEF ProducerStep, Receive, SlotStep, Thread
  <1> QED
    BY <1>1, <1>2, <1>3, <1>4, <1>5
       DEF Next, HandlerStep, Originate, HandlerMessage, SlotStep, Thread

(* The permits and the listed messages match at all times: the handler     *)
(* thread never spins on an empty list and never sleeps on a full one.     *)
THEOREM WakesHold == Spec => []OneWakePerMessage
  <1>1. Init => OneWakePerMessage
    BY DEF Init, OneWakePerMessage
  <1> QED
    BY <1>1, WakeStep, TypeCorrect, SpecSafe, PTL DEF Safe

-----------------------------------------------------------------------------
(* The ring                                                                *)

(* The slot that claim k got, seen from m_nMsgBufferCount = n after c      *)
(* claims, as long as fewer than Slots claims followed it.                 *)
Place(k, n, c) ==
  IF n - 1 - (c - k) >= 0 THEN n - 1 - (c - k) ELSE n - 1 - (c - k) + Slots

Placed(e, n, c) ==
  /\ 1 <= e.msg /\ e.msg <= c
  /\ c - e.msg < Slots => e.slot = Place(e.msg, n, c)

Busy(p) == prodPc[p] \notin {"idle", "spent"}
Handling == handlerPc \in {"popped", "typed"}

PlaceInv ==
  /\ \A p \in Thread : Busy(p) => Placed(mine[p], next, claims)
  /\ \A i \in 1 .. Len(list) : Placed(list[i], next, claims)
  /\ Handling => Placed(current, next, claims)

(* A slot being filled is for another message than any other one in use.   *)
ApartInv ==
  \A p \in Thread : Busy(p) =>
    /\ \A q \in Thread : q # p /\ Busy(q) => mine[q].msg # mine[p].msg
    /\ \A i \in 1 .. Len(list) : list[i].msg # mine[p].msg
    /\ Handling => current.msg # mine[p].msg

FilledInv ==
  \A p \in Thread : prodPc[p] = "filled" =>
    stalled \/ Lapped(mine[p]) \/ content[mine[p].slot] = mine[p].msg

RingInv == PlaceInv /\ ApartInv /\ FilledInv /\ IntactUnlessLapped

(* A claim moves the ring on by one: what was placed stays placed, and the *)
(* new entry is placed.                                                    *)
LEMMA ClaimPlaces ==
  ASSUME TypeOK, get_message
  PROVE  /\ \A e \in Entry :
              Placed(e, next, claims) => Placed(e, next', claims')
         /\ Placed([slot |-> next, msg |-> claims + 1], next', claims')
  <1>1. next \in Int /\ 0 <= next /\ next < Slots /\ claims \in Nat
    BY PoolAssumption DEF TypeOK, Slot
  <1>2. next' = (IF next + 1 > Slots - 1 THEN 0 ELSE next + 1) /\ claims' = claims + 1
    BY DEF get_message, NextSlot
  <1>3. ASSUME NEW e \in Entry, Placed(e, next, claims)
        PROVE  Placed(e, next', claims')
    <2>1. e.msg \in Int /\ e.slot \in Int
      BY <1>3 DEF Entry, Slot
    <2> QED
      BY <1>1, <1>2, <1>3, <2>1, PoolAssumption DEF Placed, Place
  <1>4. Placed([slot |-> next, msg |-> claims + 1], next', claims')
    BY <1>1, <1>2, PoolAssumption DEF Placed, Place
  <1> QED
    BY <1>3, <1>4

(* Two messages that have not been lapped are in different slots.          *)
LEMMA PlacesDiffer ==
  ASSUME TypeOK, NEW e \in Entry, NEW f \in Entry,
         Placed(e, next, claims), Placed(f, next, claims),
         e.msg # f.msg, ~Lapped(e), ~Lapped(f)
  PROVE  e.slot # f.slot
  <1>1. next \in Int /\ 0 <= next /\ next < Slots /\ claims \in Nat
    BY PoolAssumption DEF TypeOK, Slot
  <1>2. e.msg \in Int /\ f.msg \in Int
    BY DEF Entry
  <1>3. claims - e.msg < Slots /\ claims - f.msg < Slots
    BY <1>1, <1>2, PoolAssumption DEF Lapped
  <1>4. e.slot = Place(e.msg, next, claims) /\ f.slot = Place(f.msg, next, claims)
    BY <1>3 DEF Placed
  <1>5. e.msg <= claims /\ f.msg <= claims
    BY DEF Placed
  <1> QED
    BY <1>1, <1>2, <1>3, <1>4, <1>5, PoolAssumption DEF Place

LEMMA EntriesTyped ==
  ASSUME TypeOK
  PROVE  /\ \A p \in Thread : mine[p] \in Entry
         /\ \A i \in 1 .. Len(list) : list[i] \in Entry
         /\ current \in Entry
  BY DEF TypeOK

(* A claim on its own disturbs nothing but what it laps.                   *)
LEMMA ClaimKeeps ==
  ASSUME TypeOK, RingInv, get_message,
         UNCHANGED <<handlerVars, content, list, stalled>>
  PROVE  /\ \A p \in Thread : Busy(p) => Placed(mine[p], next', claims')
         /\ \A i \in 1 .. Len(list) : Placed(list[i], next', claims')
         /\ Handling => Placed(current, next', claims')
         /\ \A e \in Entry : Lapped(e) => Lapped(e)'
         /\ IntactUnlessLapped'
  <1>1. \A e \in Entry : Lapped(e) => Lapped(e)'
    BY PoolAssumption DEF Lapped, get_message, TypeOK, Entry
  <1>2. IntactUnlessLapped'
    BY <1>1, EntriesTyped DEF RingInv, IntactUnlessLapped, handlerVars
  <1> QED
    BY <1>1, <1>2, ClaimPlaces, EntriesTyped DEF RingInv, PlaceInv

(* Writing to a slot that is not lapped spoils no other message.           *)
LEMMA WriteKeeps ==
  ASSUME TypeOK, RingInv, NEW p \in Thread, NEW m \in 0 .. MaxClaims,
         Busy(p), Write(p, m)
  PROVE  /\ IntactUnlessLapped'
         /\ \A q \in Thread : q # p /\ prodPc[q] = "filled" =>
              stalled' \/ Lapped(mine[q]) \/ content'[mine[q].slot] = mine[q].msg
  <1> USE DEF Write, handlerVars
  <1>1. CASE stalled'
    BY <1>1 DEF IntactUnlessLapped, RingInv, PlaceInv, Busy, Handling
  <1>2. CASE ~stalled'
    <2>1. ~stalled /\ ~Lapped(mine[p]) /\ mine[p] \in Entry
      BY <1>2, EntriesTyped DEF TypeOK
    <2>2. Placed(mine[p], next, claims)
      BY DEF RingInv, PlaceInv
    <2>3. ASSUME NEW e \in Entry, Placed(e, next, claims), e.msg # mine[p].msg,
                 Lapped(e) \/ content[e.slot] = e.msg
          PROVE  Lapped(e) \/ content'[e.slot] = e.msg
      <3>1. e.slot \in Slot /\ mine[p].slot \in Slot
        BY <2>1 DEF Entry
      <3>2. CASE ~Lapped(e)
        <4>1. e.slot # mine[p].slot
          BY <2>1, <2>2, <2>3, <3>2, PlacesDiffer
        <4> QED
          BY <2>3, <3>1, <4>1 DEF TypeOK
      <3> QED
        BY <3>2
    <2>4. \A i \in 1 .. Len(list) :
            Lapped(list[i]) \/ content'[list[i].slot] = list[i].msg
      BY <2>1, <2>3, EntriesTyped
         DEF RingInv, PlaceInv, ApartInv, IntactUnlessLapped
    <2>5. Handling => Lapped(current) \/ content'[current.slot] = current.msg
      BY <2>1, <2>3, EntriesTyped
         DEF RingInv, PlaceInv, ApartInv, IntactUnlessLapped, Handling
    <2>6. IntactUnlessLapped'
      BY <2>1, <2>4, <2>5
         DEF RingInv, IntactUnlessLapped, Handling, Lapped
    <2>7. \A q \in Thread : q # p /\ prodPc[q] = "filled" =>
            Lapped(mine[q]) \/ content'[mine[q].slot] = mine[q].msg
      BY <2>1, <2>3, EntriesTyped
         DEF RingInv, PlaceInv, ApartInv, FilledInv, Busy
    <2> QED
      BY <2>6, <2>7 DEF RingInv, PlaceInv, Busy, Handling
  <1> QED
    BY <1>1, <1>2

LEMMA RingPut ==
  ASSUME TypeOK, RingInv, NEW p \in Thread, put(p)
  PROVE  RingInv'
  <1>1. /\ prodPc[p] = "filled" /\ Busy(p) /\ mine[p] \in Entry
        /\ list' = Append(list, mine[p])
        /\ prodPc' = [prodPc EXCEPT ![p] = Spent(p)]
        /\ UNCHANGED <<next, claims, mine, handlerVars, content, stalled>>
    BY EntriesTyped DEF put, Busy
  <1>2. \A q \in Thread :
          /\ prodPc'[q] = IF q = p THEN Spent(p) ELSE prodPc[q]
          /\ Spent(p) \in {"idle", "spent"}
    BY <1>1 DEF TypeOK, Spent
  <1>3. /\ Len(list') = Len(list) + 1 /\ Len(list) \in Nat
        /\ \A i \in 1 .. Len(list') :
             list'[i] = IF i = Len(list) + 1 THEN mine[p] ELSE list[i]
    BY <1>1 DEF TypeOK
  <1>4. \A i \in 1 .. Len(list') : i = Len(list) + 1 \/ i \in 1 .. Len(list)
    BY <1>3
  <1>5. PlaceInv'
    BY <1>1, <1>2, <1>3, <1>4
       DEF RingInv, PlaceInv, Busy, Handling, handlerVars
  <1>6. ApartInv'
    BY <1>1, <1>2, <1>3, <1>4
       DEF RingInv, ApartInv, Busy, Handling, handlerVars
  <1>7. FilledInv'
    BY <1>1, <1>2 DEF RingInv, FilledInv, Lapped
  <1>8. IntactUnlessLapped'
    BY <1>1, <1>3, <1>4
       DEF RingInv, FilledInv, IntactUnlessLapped, Lapped, handlerVars
  <1> QED
    BY <1>5, <1>6, <1>7, <1>8 DEF RingInv

LEMMA RingSlot ==
  ASSUME TypeOK, RingInv, NEW p \in Thread, SlotStep(p)
  PROVE  RingInv'
  <1>1. CASE Claim(p)
    <2> DEFINE new == [slot |-> next, msg |-> claims + 1]
    <2>1. /\ get_message
          /\ UNCHANGED <<handlerVars, content, list, stalled>>
          /\ mine' = [mine EXCEPT ![p] = new]
          /\ prodPc' = [prodPc EXCEPT ![p] = "claimed"]
          /\ claims' = claims + 1 /\ claims \in Nat
      BY <1>1 DEF Claim, get_message, TypeOK
    <2>2. \A q \in Thread :
            /\ mine'[q] = IF q = p THEN new ELSE mine[q]
            /\ prodPc'[q] = IF q = p THEN "claimed" ELSE prodPc[q]
      BY <2>1 DEF TypeOK
    <2>3. PlaceInv'
      BY <2>1, <2>2, ClaimKeeps, ClaimPlaces
         DEF PlaceInv, Busy, Handling, handlerVars
    <2>4. /\ \A q \in Thread : Busy(q) => mine[q].msg # claims + 1
          /\ \A i \in 1 .. Len(list) : list[i].msg # claims + 1
          /\ Handling => current.msg # claims + 1
      BY <2>1, EntriesTyped DEF RingInv, PlaceInv, Placed, Entry
    <2>5. ApartInv'
      BY <2>1, <2>2, <2>4 DEF RingInv, ApartInv, Busy, Handling, handlerVars
    <2>6. FilledInv'
      BY <2>1, <2>2, ClaimKeeps, EntriesTyped DEF RingInv, FilledInv, Lapped
    <2> QED
      BY <2>1, <2>3, <2>5, <2>6, ClaimKeeps DEF RingInv
  <1>2. CASE Clear(p)
    <2>1. /\ Busy(p) /\ Write(p, 0) /\ 0 \in 0 .. MaxClaims
          /\ prodPc' = [prodPc EXCEPT ![p] = "cleared"]
          /\ UNCHANGED <<next, claims, mine, handlerVars, list>>
      BY <1>2, PoolAssumption DEF Clear, Write, Busy
    <2>2. \A q \in Thread :
            prodPc'[q] = IF q = p THEN "cleared" ELSE prodPc[q]
      BY <2>1 DEF TypeOK
    <2>3. PlaceInv' /\ ApartInv'
      BY <2>1, <2>2
         DEF RingInv, PlaceInv, ApartInv, Busy, Handling, handlerVars
    <2>4. FilledInv'
      BY <2>1, <2>2, WriteKeeps DEF FilledInv, Lapped
    <2> QED
      BY <2>1, <2>3, <2>4, WriteKeeps DEF RingInv
  <1>3. CASE Fill(p)
    <2>1. /\ Busy(p) /\ Write(p, mine[p].msg) /\ mine[p].msg \in 0 .. MaxClaims
          /\ prodPc' = [prodPc EXCEPT ![p] = "filled"]
          /\ UNCHANGED <<next, claims, mine, handlerVars, list>>
          /\ mine[p].slot \in Slot
      BY <1>3, EntriesTyped DEF Fill, Write, Busy, Entry
    <2>2. \A q \in Thread :
            prodPc'[q] = IF q = p THEN "filled" ELSE prodPc[q]
      BY <2>1 DEF TypeOK
    <2>3. PlaceInv' /\ ApartInv'
      BY <2>1, <2>2
         DEF RingInv, PlaceInv, ApartInv, Busy, Handling, handlerVars
    <2>4. content'[mine[p].slot] = mine[p].msg
      BY <2>1 DEF Write, TypeOK
    <2>5. FilledInv'
      BY <2>1, <2>2, <2>4, WriteKeeps DEF FilledInv, Lapped
    <2> QED
      BY <2>1, <2>3, <2>5, WriteKeeps DEF RingInv
  <1> QED
    BY <1>1, <1>2, <1>3, RingPut DEF SlotStep

(* Pop takes the first entry of the list and shifts the others.            *)
LEMMA PopTakesFirst ==
  ASSUME TypeOK, Pop, list # << >>
  PROVE  /\ handlerPc = "woken" /\ handlerPc' = "popped"
         /\ current' = list[1] /\ 1 \in 1 .. Len(list)
         /\ Len(list') = Len(list) - 1
         /\ \A i \in 1 .. Len(list') :
              list'[i] = list[i + 1] /\ i + 1 \in 1 .. Len(list)
         /\ UNCHANGED <<prodVars, content, stalled>>
  <1>1. list \in Seq(Entry)
    BY DEF TypeOK
  <1>2. handlerPc = "woken" /\ UNCHANGED <<prodVars, content, stalled>>
    BY DEF Pop
  <1>3. handlerPc' = "popped" /\ current' = Head(list) /\ list' = Tail(list)
    BY DEF Pop
  <1> QED
    BY <1>1, <1>2, <1>3

LEMMA RingHandler ==
  ASSUME TypeOK, RingInv, HandlerStep
  PROVE  RingInv'
  <1> USE DEF prodVars, RingInv, PlaceInv, ApartInv, FilledInv,
              IntactUnlessLapped, Busy, Handling, Lapped
  <1>1. CASE Wake
    BY <1>1 DEF Wake
  <1>2. CASE Pop
    <2>1. CASE list = << >>
      BY <1>2, <2>1 DEF Pop
    <2>2. CASE list # << >>
      <3>1. /\ handlerPc = "woken" /\ handlerPc' = "popped"
            /\ current' = list[1] /\ 1 \in 1 .. Len(list)
            /\ Len(list') = Len(list) - 1
            /\ \A i \in 1 .. Len(list') :
                 list'[i] = list[i + 1] /\ i + 1 \in 1 .. Len(list)
            /\ UNCHANGED <<prodVars, content, stalled>>
        BY <1>2, <2>2, PopTakesFirst
      <3>2. PlaceInv'
        BY <3>1
      <3>3. ApartInv'
        BY <3>1
      <3>4. FilledInv' /\ IntactUnlessLapped'
        BY <3>1
      <3> QED
        BY <3>2, <3>3, <3>4
    <2> QED
      BY <2>1, <2>2
  <1>3. CASE Dispatch
    BY <1>3 DEF Dispatch
  <1>4. CASE Handle
    <2>1. \A t \in Thread :
            prodPc'[t] = IF t = Handler THEN "idle" ELSE prodPc[t]
      BY <1>4 DEF Handle, TypeOK
    <2>2. /\ handlerPc = "typed" /\ handlerPc' = "wait"
          /\ UNCHANGED <<next, claims, mine, current, content, list, stalled>>
      BY <1>4 DEF Handle
    <2>3. PlaceInv' /\ ApartInv'
      BY <2>1, <2>2
    <2>4. FilledInv' /\ IntactUnlessLapped'
      BY <2>1, <2>2
    <2> QED
      BY <2>3, <2>4
  <1>5. CASE Originate \/ HandlerMessage
    BY <1>5, RingSlot DEF Originate, HandlerMessage, SlotStep, Thread
  <1> QED
    BY <1>1, <1>2, <1>3, <1>4, <1>5 DEF HandlerStep

LEMMA RingStep == TypeOK /\ RingInv /\ [Next]_vars => RingInv'
  <1> SUFFICES ASSUME TypeOK, RingInv, [Next]_vars PROVE RingInv'
    OBVIOUS
  <1>1. CASE handle_timeout
    <2>1. /\ get_message
          /\ UNCHANGED <<prodPc, mine, handlerVars, content, list, stalled>>
      BY <1>1 DEF handle_timeout
    <2>2. PlaceInv'
      BY <2>1, ClaimKeeps DEF PlaceInv, Busy, Handling, handlerVars
    <2>3. ApartInv'
      BY <2>1 DEF RingInv, ApartInv, Busy, Handling, handlerVars
    <2>4. FilledInv'
      BY <2>1, ClaimKeeps, EntriesTyped DEF RingInv, FilledInv, Lapped
    <2> QED
      BY <2>1, <2>2, <2>3, <2>4, ClaimKeeps DEF RingInv
  <1>2. CASE Quiet \/ UNCHANGED vars
    BY <1>2 DEF Quiet, vars, prodVars, handlerVars, RingInv, PlaceInv, ApartInv,
                FilledInv, IntactUnlessLapped, Busy, Handling, Lapped
  <1> QED
    BY <1>1, <1>2, RingSlot, RingHandler
       DEF Next, ProducerStep, Receive, SlotStep, Thread

(* A message is handled as it was put, type and body, unless get_message   *)
(* was called as often as the ring has slots meanwhile, or some producer   *)
(* stalled that long.                                                      *)
THEOREM IntactHolds == Spec => []IntactUnlessLapped
  <1>1. Init => RingInv
    BY DEF Init, RingInv, PlaceInv, ApartInv, FilledInv, IntactUnlessLapped,
           Busy, Handling
  <1>2. RingInv => IntactUnlessLapped
    BY DEF RingInv
  <1> QED
    BY <1>1, <1>2, RingStep, TypeCorrect, SpecSafe, PTL DEF Safe
=============================================================================
