---------------------------- MODULE MessagePool ----------------------------
(***************************************************************************)
(* The message path of CMSG_Center (XZCenterServer and SerialComProxy).    *)
(*                                                                         *)
(* A thread that receives a message takes the next slot of a ring of       *)
(* MAX_BUFFERD_MESSAGE_NUMBER slots (get_message), clears it, copies the   *)
(* message in and appends the slot to msgToHandleList_ (put).  One thread, *)
(* woken by a semaphore, handles the listed slots in order.  Nothing marks *)
(* a slot as free or in use: the ring only counts on.  The reactor timer   *)
(* takes a slot every two seconds and does nothing with it.                *)
(*                                                                         *)
(* The receiving threads are the reactor, for the channels and the         *)
(* platform, and in SerialComProxy the one that reads the serial server.   *)
(* The handler thread takes slots as well: unpacking a control command     *)
(* calls RecvCtrlCmdCallback, which puts a message of its own.             *)
(*                                                                         *)
(* A message is the number of the get_message call that was made for it.   *)
(***************************************************************************)
EXTENDS Integers, Sequences

CONSTANTS
  Slots,      \* MAX_BUFFERD_MESSAGE_NUMBER
  Producer,   \* the threads that receive messages
  Reactor,    \* the one among them that also runs handle_timeout
  Handler,    \* the thread that handles them
  MaxClaims   \* bound on the number of get_message calls

ASSUME PoolAssumption ==
  /\ Slots \in Nat \ {0}
  /\ Reactor \in Producer
  /\ Handler \notin Producer
  /\ MaxClaims \in Nat

VARIABLES
  next,       \* m_nMsgBufferCount
  claims,     \* how often get_message has been called
  content,    \* which message each slot of msgVec_ holds, 0 when cleared
  prodPc,     \* where each thread is with the slot it got
  mine,       \* that slot, and its message
  list,       \* msgToHandleList_
  sem,        \* msg_semaphore_
  handlerPc,  \* where ThreadHandleMessage is
  current,    \* the slot it popped, and the message that was put in it
  typed,      \* the message whose type HandleNetMessage switched on
  stalled     \* a thread has written to a slot that was given out again

prodVars == <<next, claims, prodPc, mine>>
handlerVars == <<handlerPc, current, typed>>
vars == <<prodVars, handlerVars, content, list, sem, stalled>>

Thread == Producer \cup {Handler}

Slot  == 0 .. Slots - 1
Entry == [slot : Slot, msg : 0 .. MaxClaims]

(* The pool is filled with new packets; the semaphore is made with one     *)
(* permit, which open takes.                                               *)
Init ==
  /\ next = 0
  /\ claims = 0
  /\ content = [s \in Slot |-> 0]
  /\ prodPc = [t \in Thread |-> "idle"]
  /\ mine = [t \in Thread |-> [slot |-> 0, msg |-> 0]]
  /\ list = << >>
  /\ sem = 0
  /\ handlerPc = "wait"
  /\ current = [slot |-> 0, msg |-> 0]
  /\ typed = 0
  /\ stalled = FALSE

-----------------------------------------------------------------------------
(* The producers                                                           *)

(* Mutant: the ring wraps one slot early.                                  *)
NextSlotEarly == IF next + 1 >= Slots - 1 THEN 0 ELSE next + 1

(* Mutant: the bound of the ring is off by one.                            *)
NextSlotLate == IF next + 1 > Slots THEN 0 ELSE next + 1

NextSlot == IF next + 1 > Slots - 1 THEN 0 ELSE next + 1

get_message ==
  /\ claims < MaxClaims
  /\ claims' = claims + 1
  /\ next' = NextSlot

Claim(t) ==
  /\ prodPc[t] = "idle"
  /\ get_message
  /\ mine' = [mine EXCEPT ![t] = [slot |-> next, msg |-> claims + 1]]
  /\ prodPc' = [prodPc EXCEPT ![t] = "claimed"]
  /\ UNCHANGED <<handlerVars, content, list, sem, stalled>>

(* A message has been received: get a slot for it.                         *)
Receive(p) == Claim(p)

(* Slots - 1 later calls of get_message leave the slot of e alone.         *)
Lapped(e) == claims - e.msg >= Slots

Write(t, m) ==
  /\ content' = [content EXCEPT ![mine[t].slot] = m]
  /\ stalled' = (stalled \/ Lapped(mine[t]))
  /\ UNCHANGED <<next, claims, mine, handlerVars, list, sem>>

(* memset(pMsg_, 0, ...)                                                   *)
Clear(t) ==
  /\ prodPc[t] = "claimed"
  /\ Write(t, 0)
  /\ prodPc' = [prodPc EXCEPT ![t] = "cleared"]

(* memcpy and the connection handle.                                       *)
Fill(t) ==
  /\ prodPc[t] = "cleared"
  /\ Write(t, mine[t].msg)
  /\ prodPc' = [prodPc EXCEPT ![t] = "filled"]

(* The handler thread makes at most one message for each that it handles.  *)
Spent(t) == IF t = Handler THEN "spent" ELSE "idle"

(* Mutant: the handler is only signalled when the list was empty.          *)
putWakesEmpty(t) ==
  /\ prodPc[t] = "filled"
  /\ list' = Append(list, mine[t])
  /\ sem' = IF list = << >> THEN sem + 1 ELSE sem
  /\ prodPc' = [prodPc EXCEPT ![t] = Spent(t)]
  /\ UNCHANGED <<next, claims, mine, handlerVars, content, stalled>>

(* Mutant: put drops the message when the list is as long as the ring.     *)
putDropsLate(t) ==
  /\ prodPc[t] = "filled"
  /\ IF Len(list) >= Slots
     THEN UNCHANGED <<list, sem>>
     ELSE list' = Append(list, mine[t]) /\ sem' = sem + 1
  /\ prodPc' = [prodPc EXCEPT ![t] = Spent(t)]
  /\ UNCHANGED <<next, claims, mine, handlerVars, content, stalled>>

put(t) ==
  /\ prodPc[t] = "filled"
  /\ list' = Append(list, mine[t])
  /\ sem' = sem + 1
  /\ prodPc' = [prodPc EXCEPT ![t] = Spent(t)]
  /\ UNCHANGED <<next, claims, mine, handlerVars, content, stalled>>

(* The timer gets a slot and drops it.                                     *)
handle_timeout ==
  /\ prodPc[Reactor] = "idle"
  /\ get_message
  /\ UNCHANGED <<prodPc, mine, handlerVars, content, list, sem, stalled>>

-----------------------------------------------------------------------------
(* ThreadHandleMessage                                                     *)

Wake ==
  /\ handlerPc = "wait"
  /\ sem > 0
  /\ sem' = sem - 1
  /\ handlerPc' = "woken"
  /\ UNCHANGED <<prodVars, current, typed, content, list, stalled>>

(* With the list locked: pop the front, or, on an empty list, start over.  *)
Pop ==
  /\ handlerPc = "woken"
  /\ IF list = << >>
     THEN handlerPc' = "wait" /\ UNCHANGED <<current, list>>
     ELSE handlerPc' = "popped" /\ current' = Head(list) /\ list' = Tail(list)
  /\ UNCHANGED <<prodVars, typed, content, sem, stalled>>

(* HandleNetMessage reads the type of the message ...                      *)
Dispatch ==
  /\ handlerPc = "popped"
  /\ typed' = content[current.slot]
  /\ handlerPc' = "typed"
  /\ UNCHANGED <<prodVars, current, content, list, sem, stalled>>

(* Handling some messages makes another one, in this thread: a manual      *)
(* regather builds its upload in a slot that it never puts, and a control  *)
(* command is put by RecvCtrlCmdCallback.                                  *)
Originate ==
  /\ handlerPc = "typed"
  /\ Claim(Handler)

HandlerMessage == Clear(Handler) \/ Fill(Handler) \/ put(Handler)

(* ... and the handler it selects reads the body and returns.              *)
Handle ==
  /\ handlerPc = "typed"
  /\ prodPc[Handler] \in {"idle", "filled", "spent"}
  /\ handlerPc' = "wait"
  /\ prodPc' = [prodPc EXCEPT ![Handler] = "idle"]
  /\ UNCHANGED <<next, claims, mine, current, typed, content, list, sem, stalled>>

HandlerStep ==
  \/ Wake \/ Pop \/ Dispatch \/ Handle
  \/ Originate \/ HandlerMessage

ProducerStep(p) == Receive(p) \/ Clear(p) \/ Fill(p) \/ put(p)

(* The bound is reached and every thread waits.                            *)
Quiet ==
  /\ claims = MaxClaims
  /\ \A p \in Producer : prodPc[p] = "idle"
  /\ list = << >> /\ handlerPc = "wait"
  /\ UNCHANGED vars

Next ==
  HandlerStep \/ handle_timeout \/ Quiet \/ \E p \in Producer : ProducerStep(p)

(* Threads run: a message that has a slot is put, a listed one is handled. *)
Fairness ==
  /\ WF_vars(Wake \/ Pop \/ Dispatch \/ Handle \/ HandlerMessage)
  /\ \A p \in Producer : WF_vars(Clear(p) \/ Fill(p) \/ put(p))

Spec == Init /\ [][Next]_vars /\ Fairness

-----------------------------------------------------------------------------
(* Properties                                                              *)

TypeOK ==
  /\ next \in Slot
  /\ claims \in 0 .. MaxClaims
  /\ content \in [Slot -> 0 .. MaxClaims]
  /\ prodPc \in [Thread -> {"idle", "claimed", "cleared", "filled", "spent"}]
  /\ mine \in [Thread -> Entry]
  /\ list \in Seq(Entry)
  /\ sem \in Nat
  /\ handlerPc \in {"wait", "woken", "popped", "typed"}
  /\ current \in Entry
  /\ typed \in 0 .. MaxClaims
  /\ stalled \in BOOLEAN

(* What the handler reads at a slot, type and body, is the message that    *)
(* was put there, unless get_message has been called Slots times since, or *)
(* a producer was so slow that its own slot went round.                    *)
IntactUnlessLapped ==
  \/ stalled
  \/ /\ \A i \in 1 .. Len(list) :
          Lapped(list[i]) \/ content[list[i].slot] = list[i].msg
     /\ handlerPc \in {"popped", "typed"} =>
          Lapped(current) \/ content[current.slot] = current.msg
     /\ handlerPc = "typed" => Lapped(current) \/ typed = current.msg

(* The handler is woken exactly once for each listed message: it never     *)
(* finds the list empty (it would hold the lock for 100 ms), and no listed *)
(* message is left without a wake-up.                                      *)
OneWakePerMessage ==
  Len(list) = sem + (IF handlerPc = "woken" THEN 1 ELSE 0)

(* Every message received or put reaches the handler, lapped or not.       *)
EveryMessageHandled ==
  \A m \in 1 .. MaxClaims :
    (\/ \E p \in Producer : prodPc[p] = "claimed" /\ mine[p].msg = m
     \/ \E i \in 1 .. Len(list) : list[i].msg = m)
      ~> (handlerPc = "typed" /\ current.msg = m)
=============================================================================
