# A formal model of the customs gate system (qingdao2017)

TLA+ specifications of the programs under `src/`, the TLC configurations that
model-check them on small instances, and proofs checked by TLAPS that hold for
every value of the constants.

The system drives the lanes ("channels", 通道) of customs gates.  Device servers
at the gates send what they gather to a gathering service, which forwards it to
the customs platform and hands the platform's answers back.  The gathering
channels run as processes on several worker hosts; managers decide which host
runs which channel and move channels when a host fails.

Contents: [components](#1-the-system) · [modules](#2-modules-and-the-code) ·
[runs](#3-what-the-runs-check) · [bounds](#4-bounds) ·
[fairness](#5-fairness) · [proofs](#6-what-is-proved) ·
[finding](#7-a-disagreement-in-the-code) · [limits](#8-what-is-not-modelled) ·
[plan](#9-plan) · [use](#10-running-the-checks)

## 1. The system

Sources are C++ (and small C libraries), about 37 thousand lines without the
vendored TinyXML copies, encoded in GBK.  Programs share code by copying:
`XZCenterServer` and `SerialComProxy` are near twins, as are the platform
libraries.

### JZManager and JZWorker: which host runs which channel

* **Channel allocation** (`JZManager/main.cpp` ClientProc, VoteProc;
  `JZWorker/main.cpp` ClientProc, ProcessNICProc, main).
  State: the manager's `g_sockChannelMap` (host → channels, time of the last
  heartbeat), its role `strMaster`; the worker's `g_chnlSet`, `chnlSetLast`,
  the channel processes it has started, `m_nETHStatus`.
  Operations: heartbeat (type 1) and reply (type 2); erase a host that has been
  silent for 15 s and deal its channels to the least loaded hosts; start new
  channels; on a pulled cable clear the set and kill the channels; fork-restart
  of the worker.
  Interactions: TCP between worker and manager; inside the manager a thread per
  connection and VoteProc share the map under `g_sockChannelLock`.
  Hard: late, lost and crossing messages, the lock given up between erasing a
  host and dealing its channels, crashes, a worker that lives on behind a dead
  cable.
  Correct: a channel is driven by one host at a time; no channel is forgotten;
  what is assigned gets started, what is offline gets stopped.

* **Host table synchronisation** (SyncProc, WriteHostInfoFile, ProcessSendProc,
  ClientProcForSync, ReadConfigInfo3; the worker's RequestHostInfoProc).
  State: `HostInfo.xml` on the master and on each standby, `g_sem`, the standby's
  `g_configInfo.hostInfoVect`.
  Operations: write the file every 15 s, push it (type 10), pull it through
  the worker beside the standby (26, 27, 28), apply it.
  Hard: a file read while it is truncated and rewritten, one `recv` taken for a
  message, two threads writing one file, a semaphore wait whose first timeout
  turns the pusher off for good, per-host locking of the update.
  Correct: a standby comes to hold the master's table, and forgets no channel
  while channels move.

* **Master election** (the worker's WhoIsMaster, types 8 and 9, `strMaster`, the
  card watches of both programs).
  State: `strMaster` of each manager; of each worker where it is in its search
  (`nTimes`, `nLoopTotal`), `strMasterIP` and `g_strLastMasterIP`.
  Operations: a mainhost starts as master, a backhost becomes one by the first
  heartbeat it gets, a manager whose card is down ceases to be one; a worker asks
  every manager twice in turn and, after more than ten answers of others, goes to
  the one after its last master.
  Hard: the managers never speak of it among themselves; the choice is made by
  workers that see different parts of the network.
  Correct: a backhost does not become master beside a mainhost that acts as one;
  a search that can find the master does; every worker is served in the end.

* **Receive watchdogs** (AcceptProc's table of slots, the threads of ClientProc,
  `g_threadMap`, CancelRecvThread).
  State: slot and socket of each thread, time of its last read and write, the
  lock of the hosts.
  Operations: accept, read, note, lock, answer, end; take a thread that was
  silent for 15 s out of the map and cancel it.
  Hard: the thread may go on between the decision and `pthread_cancel`, its id may
  be another's by then, and `syslog` under the lock is a cancellation point.
  Correct: only a waiting thread is cancelled, the lock is never left with a dead
  thread, a slot has one thread, a silent worker's thread ends.

### XZCenterServer and SerialComProxy: the gathering service

One reactor thread accepts the connections of device servers and of platform
proxies, one handler thread works off a list of messages.  In SerialComProxy
only the platform's acceptor is opened, and the data comes over a link to an
event server that two more threads keep.

* **Message pool** (`CMSG_Center::get_message`, `put`, `ThreadHandleMessage`,
  `handle_timeout`).  State: a ring of 100 packets with a rotating index, a list
  of packets to handle, its mutex and semaphore.  Hard: nothing marks a slot as
  free or in use; the timer takes a slot and drops it; the handler thread puts
  messages of its own while it handles one.  Correct: one wake-up per message,
  every message handled, a message is handled as it came unless the ring has
  gone round.

* **Handler pools** (`Cmd_Acceptor.h`, `Plat_Cmd_Acceptor.h`).  State: the use
  flag of each handler, a rotating index.  Hard: two scans that share an index;
  an uninitialised pointer when every handler is taken.  Correct: two
  connections never share a handler, and none leaks.

* **Channel registry** (`handleChannelRegister`, `handleChannelKeeplive`,
  `channel_exit`, `handleUploadCustomsData`, `handleCustomsDataAck`,
  `handleDeviceCtrl`, `handleExceptionFree`, `handleCtrlCmd`,
  `handleChannelPassAck`, `handleRegatherData`).  State: two maps from channel and
  from sequence number to a connection, identified by its file descriptor.
  Hard: the reactor reports a closed connection at once while messages of that
  connection still wait in the list, and the kernel gives the descriptor to
  the next connection.  Correct: a registered device is reachable and stays so;
  an answer, and an order to gather again, goes to the device it is for.

* **Event link** (`CControlCmdHandler`, `CMSG_Center::ConnectToEventServer`).
  State: `socket_`, `m_bConnected`, `event_handle`, `nRecvLen`, shared without a
  lock by the thread that connects, the thread that receives, and the handlers
  that publish.  Correct: no socket is leaked, no foreign connection is closed
  or written to, a lost link comes back.

* **Packet framing** (`CCmdHandler_T::process`, `VerifyRecvPacket`;
  `CControlCmdHandler::svc`, `VerifyRecvPacket`).  State: the receive buffer and
  its length.  Hard: packets cut and joined at any byte, a buffer that is full,
  a handler used again.  Correct: every whole packet is handled once, unchanged.

* **Serial upload and electronic seals**, **entry and configuration** of these
  programs: sequential, not modelled (section 8).

### Around them

* **Park proxy** (`yuanquproxy`).  State: the threads of the uploads, a table of
  client slots, the descriptor table of the process.  Operations: the gathering
  service connects for every upload; a thread connects back to the service's
  platform port, asks the park's web service, reports the passage to it, writes the
  command back and closes.  Hard: threads share the numbers of one descriptor
  table while a number is closed twice; each upload holds one of the service's
  thirty handlers while the web service thinks; error paths that leave a number
  open.  Correct: an upload is answered with its own command, handlers and numbers
  come back.
* **Platform libraries** (`PlatformProxy`, `PlatformProxyX`,
  `SerialComProxyDll`): packing, unpacking and recording, loaded by the gathering
  services with `dlopen`.  Not modelled (section 8).
* **Scheduled restarts** (`JZMaintain`).  State: what it saw of the network card,
  the manager's table as last read from `HostInfo.xml`, the configured times.
  Operations: a thread per configured channel that, with the card in and the channel
  listed for this host, runs its kill and start scripts at the time of the day.
  Hard: it knows nothing of the worker on its host, which starts and kills the same
  processes, and acts on what it saw before.  Correct: it does not keep a channel
  alive behind a cable that is out.
* **Reader-writer lock** (`Log/Mrsw.h`, `MRSWInt.h`), used by nobody; **MySQL
  connection pool**, never filled; **logger**; **TinyXML, JSON and base64** copies:
  not modelled.

`PROJECT.json` lists all components with their status, and under `hazards` the
places where the code is hard to test, each with the properties about it.

## 2. Modules and the code

Every definition that models code has an entry in the `map` of `PROJECT.json`
with the lines it stands for.  Operators preceded by a comment that begins with
"Mutant:" are plausible mistakes in the definition that follows them; they are
no part of any specification and serve to test that a property notices them.

| Module | Models | Notes |
|---|---|---|
| `ChannelOwnership` | abstract | a channel is held by at most one host, and changes hands only through nobody |
| `ChannelAlloc` | manager, workers, JZMaintain beside a worker | refines `ChannelOwnership` through `HeldBy` |
| `HostInfoSync` | the table on its way to a standby | the master's map in outline |
| `MasterElection` | roles of managers, searches of workers | the heartbeats only as far as they make a master |
| `ManagerThreads` | a manager's threads and their watchdog | the map of hosts as a set |
| `MessagePool` | the ring, the list, the semaphore | reactor, link and handler threads |
| `HandlerPool`, `HandlerConstants` | the acceptors' handlers | one reactor thread: a call is a step |
| `ParkProxy` | the park proxy and the service's end | uses `HandlerPool` as an instance |
| `ChannelRegistry` | the two maps of descriptors | the list of `MessagePool` as a FIFO sequence |
| `EventLink` | the link to the event server | statement by statement where threads race |
| `FrameParser` | both readers of packets | `reader` says which, for good; its specification is `FrameSpec`, so that a module can extend it together with EventLink |
| `*Proofs` | theorems | one per component; `ConnectionProofs` is about FrameParser and EventLink |
| `MC*` | constants for TLC | |

**ChannelAlloc.**  `registered`, `chnls`, `fresh` are `g_sockChannelMap`, where
`fresh` stands for `now - nTime <= 15`; `Elapse` lets a host grow stale.
`HandleReport` is the whole critical section of the manager's ClientProc with
the reply it sends.  VoteProc is `VoteScan` (erase the first stale host),
`VoteLock`, `VoteAssign` (one iteration of the dealing loop, the lock held),
`VoteUnlock` and, on a backhost, `VoteSnapshot` for the second dealing of
channels nobody holds.  The worker is `Connect`, `LeaveOffline` and, for a reply,
`EchoReply` when nothing in it is new, else `TakeReply` (the set is adopted and
published in `g_chnlSet`), `StartNext` (one start script) and `SendReport`.  The
session is `"start"` from the publication to the report, and `starting` holds what is
published and not yet started; in between the manager, the card watch, a fault or
CancelRecvThread may come.  `Cut` is the end of a connection, or, while the scripts
run, the cancellation of the thread in `system()`: the next ClientProc takes
`g_chnlSet` for what runs, and what was left unstarted is recorded in the history
variable `skipped`.  The worker's card watch is `NicOnline`,
`NicClear`, `NicKill`, split where the set has been cleared and the channels
still run.  The environment is `Crash`/`Restart` (the process; its channels live
on), `HostDown`, `LinkDown`/`LinkUp`.  A host is its rank in the order of the
`std::map`, which decides ties in `LeastLoaded`.  The constant `Faults` names
the faults a run admits: with neither `"link"` nor `"delay"` every message of a
living host arrives within 15 s (`Prompt`).
JZMaintain has its own watch of the card, `PollCard`; a round of JZCrontabThread that
finds its entry due is `FindDue`, and the two scripts are `KillChannel` and
`StartChannel`, each a step of its own, since the worker's watch, a reply or the
host's failure may come in between.  Whether an entry is due and its channel listed is
left open; `Entries` names the entries, and is empty in the other runs.

**HostInfoSync.**  A file is seen whole or empty (it is truncated by `fopen` and
written by `fclose`); a reader asks for its size first (`PushStat`, `PullStat`,
`LoadSize`) and reads that much later, so a text may be cut (`Readings`,
`Cuts`).  `SyncProc` writes host by host, `ProcessSendProc` pushes,
`RequestHostInfoProc` pulls, `ClientProcForSync` stores and applies, one thread
for each of the two message types.  The constant `Rare` lists unlucky moments
admitted; `unlucky` records that one happened.  Each of the five, added alone to a
statement without `unlucky`, makes TLC refute `Remembered`: the list says under
what circumstances a standby does forget a channel until the next table.  One of
them is that a host falls silent before the standby has heard what it holds
(`Heard`).  That is more than that the standby's set for the host is the
master's: an older table still on its way must not say otherwise.  With three hosts
and three failures TLC refutes `Remembered` without that second half, although
two hosts never show it; the attempt to prove the invariant did.

**MasterElection.**  `WhoIsMaster` is a step per manager asked: `AnswerYes`,
`AnswerNo`, `NoAnswer`, with `NextManager` and `GiveUp` for the turns and the
choice.  `Attach` and `AttachFails` are the connection that follows; `SendReport`
is the heartbeat, `Promote` the manager's reading of it.  A card that goes
down and comes back unseen by the two-second poll is the fault `"blink"`.
`NicOffline` of the worker is one step here and two in ChannelAlloc.  The
worker's CancelRecvThread is a timer of the program, no fault: `idle` counts the time
since the last heartbeat in the sleeps of 3 s that ClientProc's steps are made of
(`Takes`), and past `Interval` (20 sleeps, 60 s) `CancelClientProc` begins the search
again with `nLoopTotal` at 0, as often as that happens.  `dog` is its local state:
nothing is timed before the first heartbeat was answered, and after a cancellation
(`nDelayFlag`) the next expiry only begins a sleep of another 60 s (`Doze`), so that
two cancellations are two intervals apart.  `Slow` is the longest a manager that does
not answer costs, in sleeps.  With `Punctual` the timer is at most one sleep late, which
is how often the code looks; without it the timer may come at any time after its
expiry.  `steady` records which managers could have been found all through a
search, `disturbed` a fault of another kind than a long outage of a card.

**ManagerThreads.**  A slot carries its connection as both ends see it; a thread
has a place in ClientProc.  `TakeOut` is the watchdog's decision under
`g_threadMapLock`, `Cancel` the call that follows, `Die` the next cancellation
point of the victim.  Thread ids and slots are given out again.  A report is two
steps, `ReadReport` (the `recv`) and `NoteReport` (the thread puts itself in
`g_threadMap`), with `syslog` between them.  `crossed` records that a report or the end
of a connection came between decision and call, that the thread taken out was already
leaving, or that it had read a report and not yet noted it.

**MessagePool.**  `Claim` is `get_message` (the slot index advances, nothing is
checked), `Clear` and `Fill` are the `memset` and `memcpy` of the caller, `put`
appends and posts.  `Wake`, `Pop`, `Dispatch`, `Originate`, `Handle` are
ThreadHandleMessage: the type is read at `Dispatch`, the body at `Handle`, and
in between another thread may write the slot.  A message is the number of its
claim; `content` says which message each slot holds.

**HandlerPool.**  `make_svc_handler` is `FirstScan`, `SecondScan` or `Fake` (the
uninitialised pointer, `down`), `free_handler` clears the flag.

**ParkProxy.**  `file` is the descriptor table, `pc` the place of an upload's
thread: `ConnectSocket`, `HttpRequestExec` (for the question and for the report),
`Validated`, `Logged`, `Failed`, and `Nothing` with `CloseAgain`, the two closes of
one number.  `EndClient` writes the command and closes both connections.
`RecvPlatformCmd` is the service seeing the end of a connection.  The pool is
`HandlerPool` itself with the uploads as connections.  `crossed` records that a
close hit a connection of another thread; the behaviours modelled end there,
because what follows (a thread reads another's answer, or its own connection,
and may hold its handler for ever) is no longer this program's protocol.

**ChannelRegistry.**  `process` and `destroy` are the reactor: a message goes to
the list tagged with its descriptor, a close calls `channel_exit` at once and
frees the descriptor.  The handler's actions take the front of the list.
`handleCtrlCmd` and `handleRegatherData` are followed by `handleChannelPassAck`,
the sending, because the descriptor is looked up with the map locked and written
to afterwards.  An unknown channel gets an empty entry by an order to gather
again; a registration treats it as none, and so does the model.  `home` is a
history variable.  A device may connect again, even more than once, before the
reactor has seen that its last connection is gone.  `Underway` says what is on
the wire or in the list, and `Firm` that a route stands and no registration of the
channel is under way from another connection.

**EventLink.**  Connector and receiver have a program counter each and a step
per access to shared state; `file` is the process's descriptor table, in which
the reactor opens and closes other connections.  `raced` records that the
receiver acted on a connection before the connector was done making it.

**FrameParser.**  A unit is a piece of packet that the readers treat as one:
head, length, part of the body, tail.  `Moved` is the whole memory
after the move, so that a copy taken from it is what the code really gets.

## 3. What the runs check

| Run | Module and config | Properties | Shows |
|---|---|---|---|
| `alloc_timely` | ChannelAlloc, AllocTimely | TypeOK, OneOwner, PublishedRuns, NoChannelLost, ImplementsOwnership | with timely heartbeats a channel is driven by one host, is not forgotten, and moves only through nobody; workers publish only what runs or is about to be started, but for what the watchdog cancelled |
| `alloc_backhost` | AllocBackhost | AllAdopted, AssignedStarted | a backhost that takes over comes to adopt every configured channel, and what is assigned to a living host gets started |
| `alloc_offline` | AllocOffline | OfflineStopped | behind a pulled cable both channels of a host end up stopped, however kill script, late messages, the starts of a last reply and a scheduled restart cross |
| `sync` | HostInfoSync, Sync | TypeOK, Remembered, TableArrives | a standby forgets no channel while channels move; the table arrives again and again, although the pusher dies, texts are cut, and hosts report too early or fail too soon |
| `election` | MasterElection, Election | TypeOK, MainUndisputed, SteadySearch, WorkersServed | a backhost is no master beside an acting mainhost, a search finds a master that stays, and a worker is served in the end although its own timer cuts its searches |
| `threads` | ManagerThreads, Threads | TypeOK, SlotsAccounted, CancelIsSafe, ReportAnswered, SilentEnds | the watchdog cancels waiting threads only and loses nothing but their slots, unless a report or a close crosses its decision, counted from a read not yet noted |
| `pool` | MessagePool, Pool | TypeOK, IntactUnlessLapped, OneWakePerMessage, EveryMessageHandled | the list and the semaphore agree; only a ring that goes round spoils a message |
| `park` | ParkProxy, Park | TypeOK, FakeOnlyWhenFull, NumbersAccounted, AnsweredAlone, HandlersComeBack | until a second close crosses connections or the pool is full, an upload is answered with its own command, and handlers and numbers come back |
| `registry` | ChannelRegistry, Registry | TypeOK, RouteStable, SentHome, RegisterRoutes | a device that registers and stays gets its route and keeps it, and what is sent goes to the device it is for |
| `link` | EventLink, Link | TypeOK, OneSocket, PublishReaches, NoMixing, LinkRecovers | the unlocked threads keep one socket and rebuild a lost link, unless one overtakes the other |
| `frames` | FrameParser, Frames | FrameTypeOK, PacketsOnce | cut and joined packets are put once, in order, those of devices whole; the event reader counts right; a full buffer is not taken for an end |
| `frames_copy` | FramesCopy | CopiesOriginal | expected violation, section 7 |

What the properties leave out is part of what was learnt:

* `OneOwner` needs prompt messages and a mainhost.  A host that is only late
  keeps its channels running while others get them; the code has no way to stop
  them (a worker never stops a channel because a reply lacks it).
* `PublishedRuns` says that what a worker publishes runs, is about to be started, or is
  `skipped`.  The last is what the code really loses: the set is published before the
  scripts run, and a thread that CancelRecvThread cancels in between leaves channels
  that are published, reported, assigned, and started by nobody until the process dies.
  `AssignedStarted` excepts the same channels.  Without `skipped` TLC refutes both; with
  it they say that nothing but this cancellation has that effect.
* `OneOwner` and `PublishedRuns` are stated without JZMaintain.  Its table may be behind, and it then
  starts a channel that has moved to another host.
* `AssignedStarted` needs messages that are not late: the manager compares only
  the sizes of a report and of its set, so that a late report of another set of
  the same size is answered with itself, and worker and manager then differ for
  good.  TLC finds this as soon as `"delay"` joins the faults of the run.
* `OneSocket`, `PublishReaches`, `NoMixing` and `LinkRecovers` are conditioned on `~raced`.
  Connector and receiver may cross (a connection that ends between `connect` and
  the last assignment of the connector): then
  `m_bConnected` may stay TRUE with `socket_` −1, and the link is never made
  again.
* `SentHome` excepts a device that left: what was meant for it may then go to
  whoever was given its descriptor.
* `MainUndisputed` excepts worker cables, restarts and blinks.  A worker that is
  cut off for a moment gives up on the mainhost and makes a backhost master, and
  nothing ever makes that one step back; a restarted mainhost is master at once,
  whoever has become one meanwhile.  With three managers or more, workers with and
  without a last master choose different ones.
* `WorkersServed` excepts the mainhost: after its card was out nothing makes it
  master again until it is restarted, but its workers may still be attached to it.
  It is claimed where `SearchFits`: the longest search, in which one manager answers
  that it is not the master and no other answers, ends within the two intervals
  between two cancellations.  With two managers it does, even when a dead one costs
  two sleeps a question, and with three as long as a dead one costs one.  With three
  managers of which two cost two sleeps it does not fit, and without the antecedent TLC
  finds the worker that is never served: CancelRecvThread cuts every search before its
  eleventh answer.  Nor is it so for a timer that may come arbitrarily late: it could
  then strike each time in the moment between choice and connection.  Hence `Punctual`.
* `CancelIsSafe`, `ReportAnswered` and `SilentEnds` are conditioned on `~crossed`.
  When a report or a close comes between the watchdog's decision and its call, or the
  decision between the reading of a report and its noting, the thread may be
  cancelled where it logs with `g_sockChannelLock` held, and VoteProc and every
  ClientProc then wait for ever; or the id is of a thread that has ended, or of a
  new one.  A thread whose worker never sent a report is in no map and is
  never cancelled.  `SlotsAccounted` holds in any case.
* `NumbersAccounted` and `HandlersComeBack` end at the first close that hits
  another thread's connection; the second ends too when the pool of handlers is full
  (31 uploads waiting for the web service), which is what `FakeOnlyWhenFull` says.
  `NumbersAccounted` excepts the numbers left open by a refused request and by a
  thread that could not be made.  `AnsweredAlone` says nothing of the passage
  reported to the web service, which happens before the command is written and also
  when the reply brought no command.
* `IntactUnlessLapped` says exactly when the ring spoils a message: 100 calls of
  `get_message`, those of the timer among them, between the call and the
  handling.

## 4. Bounds

* ChannelAlloc: `MaxFaults` faults in a behaviour (3 in safety runs, 2 in
  liveness runs).  Three hosts let two fail and one take over, which is what the
  dealing loop and its ties need; the channel numbers {1, 2, 4} give one host
  two channels, so that loads differ and a reply may bring several to start.  The
  two-host runs still have a host that loses and one that gains, and two channels, so
  that a thread may be cancelled between two starts.  AllocOffline has one host with
  two channels and four faults, messages that may be late and one entry: enough for a kill,
  the starts of a reply and a scheduled restart to cross; the question is each host's own.
  Two hosts with one channel and two faults pass too, in five minutes, and `AssignedStarted`
  passes on a mainhost with three faults.
  Connections hold sets of reports and replies under way.
* HostInfoSync: two hosts, one channel, one change of the map (an erasure or a
  return with any set), texts cut at any place, hosts that come too early or fall silent
  too soon (`"early"`, `"twice"`).  With the overlap of the standby's two threads
  (`"overlap"`) `TableArrives` passes on a map that does not change; on one that does
  it is too large.  The question of `Remembered` is whether a channel on its way between
  hosts is forgotten, that of `TableArrives` whether a text gets through.  Two
  channels with one change, and one with two changes, pass too without cuts, but take
  longer than a run should.
* MasterElection: three managers, and the code's own numbers, ten answers and twenty sleeps
  of 3 s, since their race is the question of `WorkersServed`; a manager that does not
  answer costs one sleep (`Slow`), with which the longest search just fits.  One worker,
  as two with such counters are too many states, and two faults of any kind.  Two managers
  with up to two sleeps pass as well, as does the safety of two workers with `Patience` 2 and
  a timer that comes at any time (4.8 million states).  The theorems hold for up to four
  managers and any number of workers, faults and cancellations, and any timer.
* ManagerThreads: two workers, one of which is logged under the lock, two thread
  ids and two slots, `MaxConnects` 2: the second connection may take the slot and the id
  of the first.  `MaxConnects` 3 passes too.
* MessagePool: `Slots` = 2 with `MaxClaims` = 5 laps the ring twice; in the code
  100 slots.  Two receiving threads and the handler are all the code has.  The
  theorems of section 6 need neither bound on slots nor on threads.
* HandlerPool: in ParkProxy two handlers (30 in the code) for three uploads, which
  may come again and again: both scans are used and the pool runs full.  The
  theorems are for any pool.
* ParkProxy: three uploads, each again and again, four numbers: a thread has three when it waits
  for the web service, so that threads compete for the last ones, the table runs
  full and a number closed twice goes to another.  One number may be lost.
* ChannelRegistry: two devices, two descriptors (so every reconnection reuses
  one), one upload, `MaxConnects` 3 (a device, its successor on the descriptor,
  and the device again on the other one), one unread message per connection, and
  a reactor that reads while the list is empty; the handler's own messages still
  lengthen it.
* EventLink: three descriptors and one foreign connection: the link may leave
  one open, hold one and meet a foreign one in the number it has closed.
* FrameParser: either reader; bodies of 0 and 3 units, a buffer of 6 (just the longest
  packet, or two short ones), three packets.

CHECK_DEADLOCK is off where the environment may stop: connections in
ManagerThreads, ParkProxy and ChannelRegistry, the link's peer in FrameParser.

## 5. Fairness

Fairness is put on threads that loop for ever, never on faults, on clients or on
what repairs a fault.

* ChannelAlloc (`FairSpec`): VoteProc, the worker's ClientProc and card watch, each as
  one thread, and the parent that restarts a dead child, weakly.  A report waits for a lock that
  VoteProc frees for 15 s in every round: strong fairness of `HandleReport`.
* ChannelAlloc (`WatchSpec`, for `OfflineStopped`): JZMaintain's threads, the
  workers' card watch and the parent that restarts a dead worker.  Nothing is asked
  of the manager or of messages.
* HostInfoSync: all threads weakly; the file is empty for moments of ten seconds
  and most messages come in one piece, so a pull repeated every 3 s reads it
  whole some time (strong fairness of `PullWhole`).  `<>(push.pc = "off")` is a
  timing fact: posts come at least 10 s apart, the wait lasts 3 s, and the
  result of the first that fails is never reset.  It makes `TableArrives` the
  stronger claim: the table comes although the push has died.
* MasterElection: the workers' ClientProc, its heartbeats, CancelRecvThread and the card
  watches, the managers' card watches and ClientProc; none on cards, cables and
  restarts.  How late CancelRecvThread may be is `Punctual`, no fairness.
* ManagerThreads: AcceptProc's threads and the watchdog, and a thread that waits for the lock
  strongly, as the others hold it for a moment only; 15 s of silence elapse.
* MessagePool: the producers finish what they claimed and the handler runs.
* ParkProxy: the threads of the proxy and the service's reactor; the web
  service is taken to end every connection (the code waits for it for ever, in a
  busy loop).
* ChannelRegistry: the handler weakly; `process` strongly, because the bound
  `MaxQueue`, which the real list has not, disables it now and then.
* EventLink: both threads weakly; a retried resolution and connection succeed in
  the end (strong fairness of `ConnectSocket` and `Accepted`).  Without that
  last assumption no client can promise a link.

## 6. What is proved

| Theorem | Says, for every value of the constants |
|---|---|
| `ChannelAllocProofs!TypeCorrect` | the shape of every variable |
| `ChannelAllocProofs!PublishedRunsHolds` | while no cable is pulled, a worker publishes only channels that run there or are about to be started, but for those whose start the watchdog cancelled |
| `ChannelAllocProofs!OneOwnerHolds` | on a mainhost with prompt messages no channel has two hosts |
| `ChannelAllocProofs!ImplementsOwnershipHolds` | under the same hypotheses the cluster implements `ChannelOwnership` |
| `ChannelAllocProofs!NoChannelLostHolds` | under the same hypotheses the manager forgets no channel while it has a host |
| `MasterElectionProofs!TypeCorrect` | the shape of every variable, up to four managers |
| `MasterElectionProofs!MainMaster` | while cables hold and no manager restarts or blinks, no backhost is master beside an acting mainhost |
| `MasterElectionProofs!SteadyFound` | a search during which a manager stays master and reachable ends at a master in its first round |
| `ManagerThreadsProofs!TypeCorrect`, `NoSlotShared` | the shape of every variable; a slot has one thread, whatever crosses the watchdog |
| `ManagerThreadsProofs!CancelsOnlyIdle` | until something crosses its decision (a read not yet noted counts) the watchdog cancels only waiting threads and orphans no lock |
| `MessagePoolProofs!TypeCorrect`, `WakesHold` | indices stay in the ring; one wake-up per listed message |
| `MessagePoolProofs!IntactHolds` | a message is read as it was put unless the ring went round |
| `ParkProxyProofs!PoolHolds` | the two scans, for any pool and any connections: no handler is shared, none leaks, no free one is missed |
| `ParkProxyProofs!ImplementsPool`, `FakeOnlyWhenFullHolds` | the park proxy and the service use the pool as `HandlerPool` says, so that this carries over |
| `ParkProxyProofs!TypeCorrect`, `NumbersAccountedHolds` | until a close crosses connections every open number is accounted for |
| `ParkProxyProofs!AnsweredAloneHolds` | until then an upload is answered with its own command |
| `ChannelRegistryProofs!TypeCorrect`, `RouteStableHolds` | a device that is routed stays so, whatever others do and however late a close is noticed |
| `ChannelRegistryProofs!SentHomeHolds` | an answer or order reaches another device only if its own has left |
| `ConnectionProofs!FrameTypeCorrect` | `recv` never writes past the buffer, whatever the sizes |
| `ConnectionProofs!PacketsOnceHolds` | packets that fit are put once, in order, those of devices unchanged, however they are cut and joined |
| `ConnectionProofs!LinkTypeCorrect`, `OneSocketHolds`, `PublishReachesHolds`, `NoMixingHolds` | the link's descriptors and bytes, for any table |
| `HostInfoSyncProofs!TypeCorrect` | tables, messages and sizes, wherever texts are cut |
| `HostInfoSyncProofs!RememberedHolds` | a standby forgets no channel until a rare moment, for any hosts and any number of failures |

Assumptions are the named ASSUMEs of the modules: sets of the right kind, the
configured sets of different hosts disjoint, a pool that is not empty, −1 not
a descriptor.  `OneOwnerHolds`, `ImplementsOwnershipHolds` and `NoChannelLostHolds` have
the hypotheses `Prompt`, `~BackHost` and `Entries = {}` (no scheduled restart); `PublishedRunsHolds` has
`"link" \notin Faults` and `Entries = {}`; `PacketsOnceHolds` has `Fits`: the code gives a
connection up when a packet is longer than its buffer.

The inductive invariants:

* **OneOwner** is not inductive: a channel assigned to a host may arrive in a
  reply sent earlier, or be in the hand of VoteProc.  `Claimed(w)` collects what
  a host runs, was assigned, has stored or is about to be told; `OwnerInv` says
  claims of different hosts are apart (`Apart`) and apart from `pending`
  (`PendingApart`), that a silent host has nothing under way (`SilentEmpty`), a
  down host claims nothing (`DownEmpty`), and which channels VoteProc may hold.
  `SilentEmpty` is where promptness enters: it is why erasing a silent host
  releases its channels for others.
* **PublishedRuns** is not inductive: a reply replaces what is still to be started, and
  a killed channel stays published.  `StartsWithin` says that nothing is left to start when
  the next reply is taken, `NoKill` that nothing is killed without a pulled cable.
* **ImplementsOwnership**: only a start script, a host that fails and
  the kill script change what runs (`RunningSteps`).  The first maps to the
  abstract `Start` because a reply is part of a host's claim and claims are
  apart, the others to `StopAll`, everything else to a stutter.
* **SteadySearch**: `Tracked` says that a search has not passed the turn of any
  manager that has been master and reachable since it began, and has counted no
  more answers than it asked questions.
* **MainUndisputed** is not inductive: a backhost becomes master by a heartbeat that
  a worker sent some time ago.  `Heeded` says that workers and heartbeats know
  no manager but the mainhost, as long as that one acts as master; it follows from
  `Tracked`, since a search that began under the mainhost ends there.
* **CancelIsSafe**: a thread is taken out some time before it is cancelled, and
  cancelled before it dies.  `Watched` says where it is all that time, until
  `crossed`.  **SlotsAccounted** needs besides only `Living`: a thread has a slot as
  long as it lives.
* **OneWakePerMessage**: the permits, the thread between `Wake` and `Pop` and
  the list's length add up.
* **IntactUnlessLapped**: `PlaceInv` ties the slot of every message in flight to
  its number, as the distance from the ring's index; `ApartInv` keeps the
  message a thread is filling in apart from every other in use; `FilledInv` says
  that what was filled in is in its slot until it is put.
  No induction and no `%` is needed: the index is compared, not computed.
* **NoChannelLost**: a report that is larger than the set in the map replaces it, so
  that reports under way must be known to hold no more than the map.  `ToldInv` says
  so: what a host in the map reports or is told is part of what the map has for it,
  and what a host not in the map reports is always the same set (`Settled`).
* **Exclusive**, **FakeOnlyWhenFull**: together inductive, with TypeOK for the
  index (`PoolOK`).  The theorems are about the instance `Pool` in ParkProxy; its
  connections may be any set, so that nothing is lost.  `StepOfPool` maps every
  step of the proxy and the service to a step of the pool or to a stutter.
* **NumbersAccounted** is not inductive: it does not say that a number closed twice
  belongs to another by then (`AgainOfAnother`), that a lost number stays open
  (`LostStayOpen`), or at which places a thread has which connections
  (`PlacesKnown`).
* **AnsweredAlone** is a property of steps: it follows from `Buffered`, that a
  handler's buffer is empty until the thread of its connection has written.
* **RouteStable**, **SentHome**: `PeersLinked` says that the descriptor of a device's
  connection is that device's, however many old ones the server has not closed yet.
  `StaysRouted` goes through what may touch the entry of a routed channel, and
  `OnItsWay` says that a registration gets under way only from the connection its device
  uses.  `HomeKept` says that the device of an upload, or of an order just looked up, that
  counts as `home` is still at the descriptor the message will go to.
* **Remembered** says nothing of the tables under way, on which it depends.
  `SyncInv` follows a table from the map to the standby: what is in the standby's
  hands keeps every channel (`Kept`, of the table as it will be once its thread
  is through, and once the file of now has followed); the table in SyncProc's hands has
  the channel, will have it from a host still to be read, or does not name the host the
  standby knows it at (`Collected`); what VoteProc has in hand is known to the standby at a
  host no table under way contradicts (`PendingHeard`, where `Heard` enters).
  `OneAtATime` keeps the standby's file from changing between its size and its reading.
  TypeOK needs `Passed`: SyncProc has noted only hosts it has passed.
* **OneSocket**, **PublishReaches**: `Turns` says at each pair of places of the
  two threads what `socket_`, `conn` and `event_handle` are open on; it is an
  invariant until `raced`, and `raced` is never taken back.
* **NoMixing**: `LeftOver` says that the receiver has bytes of an older connection
  in the buffer only until it has reset their count, and that no connection is made
  while there are bytes of the present one.
* **PacketsOnce** speaks of a reader that has searched its buffer, and is not inductive.
  `Stream` says of the buffer and the wire together that they begin with a packet, that
  units follow each other as they were sent, and that before the peer ends the last
  packet is whole.  `Done`, the packets whose last unit came and is no longer in the
  buffer, are those before the first of the stream (`Taken`): a search takes exactly
  that first packet (`FoundFirst`), or there is no end of any in the buffer (`Finds`).
  `DevicePuts` and `EventPuts` say what was put for them.  Nothing is counted: the
  numbers that packets carry order them, so that no induction is needed.

Model-checked only: all liveness (fairness and ENABLED are out of the prover's
reach: OfflineStopped, AllAdopted, AssignedStarted, TableArrives, WorkersServed,
ReportAnswered, SilentEnds, EveryMessageHandled, HandlersComeBack, RegisterRoutes,
LinkRecovers), that the event link's message is not a copy of its packet (a
counterexample), and whatever a recursive definition computes for every input.

## 7. A disagreement in the code

`SerialComProxy/ControlCmdHandler.cpp:164` says *copy the original packet*.  The
statement before it has already moved the rest of the buffer over the packet, so
that with a second packet, or its beginning, behind the first, the message put
is made of the bytes that followed.  `frames_copy` finds it with two packets in
one `recv`.  What does hold, that as many messages of the right lengths are put
as packets came, is part of `PacketsOnce`.

## 8. What is not modelled

* **Platform libraries.**  At this commit their interface does not fit their
  caller: `XZCenterServer/MSG_Center.cpp` passes a NULL database (the pool's use is
  commented out), and `XZCenterServer/PlatProxy.h` lacks the virtual function
  RecordUploadData which `PlatformProxy/include/PlatProxy.h` declares before
  PackUploadData, so that each call lands one entry off.  What is packed and
  recorded is undefined.  SerialComProxyDll fits its caller and keeps no state.
  ChannelRegistry takes from a library only that it calls RecvCtrlCmdCallback.
* **Serial upload and electronic seals** (SerialComProxy's sendGatherInfoToEsealPlatform,
  handleUploadCustomsData): one thread asks, packs, sends and returns; nothing is
  kept between messages and results are thrown away.
* **Pictures**: handleContaPicData saves files and sends them on; it touches
  neither map.  When a platform cannot be reached, those after it in the map are left
  out, for uploads too; no state tells.
* **The worker's CancelRecvThread** is a timer in MasterElection; in ChannelAlloc, where
  it may come whenever the code's stamps allow it, it is part of `Cut`, and the number of
  cuts is bounded.  That it closes `g_socketInfo.nSocket` by a number that may be another's
  by then is in neither: the worker's descriptors are not modelled.  AcceptProcForSync has the same slot table
  as AcceptProc for connections of one message.
* The parts meet in their assumptions: ChannelAlloc has one manager whom workers
  find, HostInfoSync one master and one standby, MasterElection no channels.
* ParkProxy: an upload is taken to come in one `recv`; the table of 0x2000 client
  slots fills after the descriptors; SIGPIPE, which is not ignored, does not come;
  release and stop are one command; writing a command and closing is one step.
* Failures of `malloc`, and of thread creation but in ParkProxy.
* Bytes that are no packet (FrameParser), tables longer than the 2048 bytes they
  are put together in, and the seal service's replies of four fields, read at the
  sixth: peers send what they should.
* Types 20 and 22, commented out in the manager; type 24, which nobody sends;
  SyncConfigProc and CheckUpdatedSequence, which nobody starts.  In XZCenterServer
  the thread that would connect to the event server is not spawned.
* The reader-writer lock, which no code uses; the MySQL pool, which nobody fills.
* JZMaintain's clock and table: that a channel is restarted once a day (a restart is
  followed by 90 s of waiting, longer than the minute that is due) and that a table
  seen half filled makes it miss one.  Entries with a relative time are read and
  never used: `nDay` stays 0.
* Message texts, XML and JSON, logging, configuration parsing, scripts:
  data or pure I/O.  A table that travels as text is modelled where a
  cut changes it.

## 9. Plan

Done: every component with concurrency of its own, and the proofs of every safety
property that a run expects to hold.  What remains is a proof that the two transfers of
a table in HostInfoSync, and the registrations in ChannelRegistry, implement simpler
specifications of their own.

## 10. Running the checks

    tlc -workers 2 -config AllocTimely.cfg MCChannelAlloc.tla
    tlapm ChannelAllocProofs.tla

The run table's module is the `MC` module of the component, and the runs finish
within four minutes each on two cores.
