# Verification of the Tclit core

TLA+ specifications of the concurrent and re-entrant core of Tclit 9.0.1 (`src/tclit`),
the TLC configurations that check them and the TLAPS proofs about them. Source paths
below are relative to `src/tclit`.

## 1. The system

Tclit is a Tcl interpreter as a C library. Its code falls into a language
implementation (values, parser, compiler, bytecode engine, variables, namespaces,
objects), which is sequential and mostly a function of the script it runs, and a
runtime around it, where several actors meet: threads, signal handlers, and above all
the *same* thread re-entering code that is not finished, because every handler may run a
script and every script may enter the event loop again (`vwait`, `update`). The project
models the runtime first.

### Inventory

| Component | State | Operations | What is hard | What makes it correct |
|---|---|---|---|---|
| Event queue (`generic/tclNotify.c`) | linked list, `lastEventPtr`, `markerEventPtr`, `roundDelimPtr`, `roundFinished`, `proc = NULL` for events in service | queue at tail/head/mark from any thread, delete by predicate, service the first event, open a round | nested services, deletion of what an outer frame services, unlocked read of the tail | pointers never dangle, one frame per event, priorities, rounds |
| Event loop (`generic/tclNotify.c`) | service mode, block time, rounds; call frames on the C stack | `Tcl_DoOneEvent`, `Tcl_ServiceAll`, `Tcl_ThreadQueueEvent`, `Tcl_ThreadAlert`, service mode | unlocked test before blocking, alerts only for an empty queue, flags, early returns | no sleep over work, polling between rounds, progress of events, sources and idle handlers |
| Timers (`generic/tclTimer.c`) | sorted list, `lastTimerId`, `timerPending` | create, delete, setup, check, pass | handlers change the list and nest passes | none lost, twice or early; a pass is finite and complete |
| Idle handlers (`generic/tclTimer.c`) | list, `lastIdlePtr`, `idleGeneration` | register, cancel, service all, service one | as above | `lastIdlePtr`, generations |
| Async handlers (`generic/tclAsync.c`, `unix/tclEpollNotfy.c`) | `ready` marks, `asyncReady`, `asyncActive`, `asyncPending`, event fd | create, mark (thread, signal), invoke, delete, wait | signals between any two steps, marks during invocation | no lost wakeup, every mark invoked |
| Joinable threads (`generic/tclThreadJoin.c`, `win/tclWinThrd.c`) | list of structures, two levels of locks | create, exit, join | two-way lock order, exit before registration, rival joiners | no use after free, one joiner, joins return |
| `after`, `vwait`, `update`, background errors (`generic/tclTimer.c`, `tclEvent.c`) | lists of after ids and of pending errors | | cancellation inside handlers, nesting | not modelled yet |
| Select notifier (`unix/tclSelectNotfy.c`, `unix/tclUnixNotfy.c`) | waiting list, `pollState`, masks, trigger pipe, the notifier thread | init, finalize, create and delete file handlers, wait, poll, alert; the loop of the notifier thread | a list that changes under a `select`, alerts crossing alerts, polls handed over | selects for the waiting threads, polls find what is ready, nobody is left asleep |
| Preservation (`generic/tclPreserve.c`) | reference table | preserve, release, eventually free, handles | freeing inside free procs | not modelled yet |
| Channels, output side (`generic/tclIO.c`) | output queue, current buffer, flags, unreported error, interest and event of the channel, tables that hold it | write, flush, blocking mode, event scripts, close, half-close, deletion of an interpreter, writable and channel events | short writes, errors in the background, closing while flushing, handlers that nest | bytes once and in order, loss reported, flushes end, channels are closed |
| Reflected channels (`generic/tclIORChan.c`) | owner, maps of interpreters and of the thread, list of forwarded operations, posted events | forward, answer, close, post, move, delete an interpreter, exit a thread | either side goes away or moves between two steps of the other | no freed memory is used, every operation returns |
| Input of channels, `fcopy`, transforms (`tclIO.c`, `tclIORTrans.c`) | | | | not modelled |
| Interpreters, limits, cancellation (`tclInterp.c`, `tclBasic.c`), traces, namespaces, packages, processes, `http.tcl` | | | deletion of what is in use | not modelled yet |
| Language implementation, numbers, encodings, archives, drivers | | | | outside the scope, see `PROJECT.json` |

How they interact: threads and drivers *post* events into a thread's queue and *alert*
its notifier; the event loop polls *event sources* (timers are one) through setup and
check procs, sleeps in the notifier, and *calls back* the handler of one event, which
runs scripts, which register timers and idle handlers, post and delete events and
re-enter the loop. Async handlers are marked from threads and signal handlers and are
invoked where the loop and the bytecode engine look at `asyncReady`.

## 2. Modules

| Module | Models | Variables |
|---|---|---|
| `Dispatch` | what the queue promises, without list or pointers: the first by rank is started, started events nest, and end by being handled or given back | `pending`, `running` |
| `EventQueue` | the list and the three pointers of `ThreadSpecificData`; `QueueEvent`, `Tcl_DeleteEvents` (one iteration per step, under the mutex), `Tcl_ServiceEvent` split where the mutex is released, and the two halves of `roundDelimPtr = lastEventPtr` | names of the C fields; `stack` is the C stack of frames; `kind`, `born`, `clock` are history |
| `Notifier` | the event loop over an `INSTANCE` of `EventQueue`: one action per stretch of `Tcl_DoOneEvent`/`Tcl_ServiceAll` between calls into handlers or other threads' chances to interfere; and under it the program, which runs in the handlers of events, in idle handlers and in async handlers, and may post, delete events, set the service mode and call the loop again from there | `calls` is the C stack of loop frames; `mode`, `idle`, `alerted`, `asyncReady`; `roundOpen` and `asked` (has the program switched servicing on in this call?) are history |
| `Timers`, `IdleHandlers` | the two halves of `tclTimer.c` in full detail (`Notifier` only counts idle handlers and sees timers as events) | lists with ids; `passes` is the C stack of passes; `fate` is history |
| `Async` | `tclAsync.c` and the wakeup of the epoll notifier, at the granularity at which a signal can interrupt it | C names; `wait` is the place in `TclpWaitForEvent` |
| `ThreadJoin`, `ThreadJoinProofs` | `tclThreadJoin.c` with the creation and exit of threads on Windows | one program counter per thread, lock holders |
| `SelectNotifier` | the select notifier: one action per stretch under `notifierMutex`, `select` and the reading of the pipe on their own | C names; `sleep` is the wait on the condition variable, `pipe` what can be read from the trigger pipe; `asked` is history |
| `Channel` | the output side of one channel: the functions of `tclIO.c` as operators on the channel record, one for the outcomes of each; an operation of a script, an event or a call of a handler is one action, since a channel has one thread | `chan` is `ChannelState` with the device; `frames` is the C stack of `Tcl_NotifyChannel`; `got`, `owed`, `lost`, `detached` are history |
| `Forward` | the forwarding of `tclIORChan.c`: the owners and the handler thread, split where `rcForwardMutex` is released and where scripts run; a use of freed memory is a step to `crashed` | C names; `frames` is the C stack of the handler thread; `op`, `result`, `attached`, `code` are the `ForwardingResult` and the parameters of a waiting owner |
| `Lists` | `Unlinked`: what a walk down a linked list makes of it that unlinks some of its members (`Tcl_CancelIdleCall`, the end of `TclpWaitForEvent`) | |
| `MC...` | instances for TLC: symmetry sets, views, named model values | |
| `SeqLemmas` | lemmas on the sequence operators that the models use, `Unlinked` among them | |
| `EventQueueProofs`, `NotifierProofs`, `ChannelProofs`, `ForwardProofs` | the proofs about `EventQueue`, `Notifier`, `Channel` and `Forward` | |
| `TimersProofs` | the proofs about `Timers` and `IdleHandlers`, the two halves of `tclTimer.c` | |
| `WakeupProofs` | the proofs about `Async` and `SelectNotifier`, the two ways in which a sleeping thread is woken | |

Conventions: a C function that calls handlers is split at the call, because anything may
run there; everything else that a function does under one lock is one action. What the
program does is nondeterminism constrained only by what the API allows. Pointers are kept
as separate variables, never derived, since keeping them right is the code's job. Each
definition that stands for code has its lines in `PROJECT.json` (`map`). Operators that
precede a definition and differ from it by a plausible slip (`DelimKept`,
`AlertDueNever`, ...) are mutants: every checked property is shown to fail under one.

## 3. Runs

| Run | Shows | Bounds |
|---|---|---|
| `event_queue` | pointers, one frame per event, priority order, rounds, refinement of `Dispatch` | 3 event addresses, 4 posts, 2 nested frames, deletion of events in service allowed |
| `event_loop` | no sleep over events, marks or idle handlers; sources are polled between rounds, nested calls included; servicing is not re-entered unasked | a file, a timer and a posted event, 3 posts, 2 nested calls, flags all/file/idle, async handlers, deletions in handlers, both service modes |
| `event_loop_live` | events are started or deleted, sources served, idle handlers run, if signals stop in the end | a file and a posted event, 2 posts, 2 nested calls, async handlers, deletions in handlers |
| `timers` | no loss, no call twice, complete passes, `timerPending`; every timer runs | 3 timers, clock 0..3, 2 nested passes |
| `idle_handlers` | no loss, `lastIdlePtr`, complete passes; every handler runs | 5 handlers, 2 keys, 3 nested passes |
| `async` | no mark of a signal forgotten, no sleep over a thread's mark; such marks are invoked | 3 handlers, 2 nested invocations |
| `thread_join` | no use after free, one joiner, result available; joins return | 2 threads, 2 joiners |
| `select_notifier` | the notifier thread selects for the waiting threads, polls find what is ready, somebody is always alerted, the notifier thread is joined | 2 threads, 1 file, 2 events for one file |
| `channel` | bytes once and in order, loss reported; background flushes and the closing that waits for them end | 2 interpreters, buffers of 2 bytes, 4 bytes, 2 nested notifications |
| `forward` | no use of freed memory at home, nobody forgotten; operations return | 2 owners, 2 channels of 2 interpreters, 2 nested methods, 1 posted event |
| `async_signal`, `channel_closed` | disagreements with the documentation, below | as small as the case needs |

One run asks what there is to ask of a component on one instance, so the safety and the
liveness of the other components are checked together (under fairness, which removes no
reachable state). The event loop has two because its questions need different bounds:
posts multiply with nesting, and liveness with both.

Three addresses suffice for a predecessor, an event and a successor, which is all that
unlinking distinguishes; two frames are an outer and a nested one, and the outer one's view
of a deeper nest is the same; in `event_queue` posts exceed the
addresses so that addresses are reused after removal; three timers or handlers are one
that runs, one that is created, deleted or run by it, and one behind. In `select_notifier`
one file is shared by both threads, which is the worst case for the masks; the second event
is the one queued when a handler was deleted and created again over a queued event. In
`channel` two bytes per buffer are an empty, a partly filled and a full one, and four bytes
fill the queue and the current buffer. In `forward` a second owner, channel and interpreter
give the handler thread something to do, or to lose, while it is inside a method. The bounds
appear in guards only, and the proofs hold for any value.

### Where code and documentation disagree

Two runs expect a violation: each checks a sentence of the documentation or of a comment.

* `async_signal`: a signal between the test of `asyncPending` and the read of the event fd
  loses its wakeup.
* `channel_closed`: a channel with a full and a partly filled buffer, switched to blocking
  and back while a background flush is pending (`tclIO.c:10604` clears the flag) and then
  closed, writes the full buffer, keeps the other (`tclIO.c:2844`), and is neither closed nor
  scheduled to be, although `TclClose` says that it is one or the other (3576).

Seen while modelling, and reflected in the models and in how properties are stated:

* `tclNotify.c:1042`: the early return after an idle handler leaves the service mode at
  `TCL_SERVICE_NONE`, where `doc/Notifier.3:594` says that `Tcl_DoOneEvent` "restores it to its
  previous value before it returns". If the idle handler has set the mode to `TCL_SERVICE_ALL`,
  the caller gets that: an outer event handler, in which nobody asked for it, is then
  re-entered by `Tcl_ServiceAll`. `NoRecursiveService` is violated by this (idle handler sets
  the mode in a nested call, the call returns from its middle, a platform callback follows)
  unless the mode left behind counts as asked for, which is what `LeaveMode` says.
* `tclNotify.c:987`: in a nested call the queue is never empty, since the event that the outer
  call services stays linked, so the block time is zero and the loop spins where
  `doc/DoOneEvent.3:46` says it sleeps.
* `tclNotify.c:1041` runs an idle handler between two rounds whatever the flags are and
  whatever events wait (`doc/DoOneEvent.3:72`, `doc/DoWhenIdle.3:31`).
* `tclNotify.c:552`: an event posted after the last event of a round reopens a round without
  polling the sources, which is why `PollBetweenRounds` says "unless one is queued".
  Progress of the sources (`event_loop_live`) then relies on posts being finitely many.
* `tclTimer.c:594`: a timer set by a handler for a time already past (possible only through
  `TclCreateAbsoluteTimerHandler`) ends the pass before ready timers behind it. The run
  `timers` sets `Absolute` to `FALSE`, as `after` does; with `TRUE`, `PassComplete` fails.
* `tclIORChan.c:2906`: at the exit of the handler thread waiting operations are cancelled
  under the lock and channels are marked dead later without it, in spite of the comment at
  2928. An operation forwarded in between waits for ever: with `AbruptExit = TRUE`, for a thread
  that exits with its interpreters alive, `NobodyForgotten` fails in `Forward`, and so does
  `SafeAtHome`: a close that is cancelled frees its channel, and the map of the thread is
  walked after that. The run `forward` sets `AbruptExit` to `FALSE`, and two of the theorems
  have `~AbruptExit` as hypothesis.
* `tclIORChan.c:2715`, `3384`: an operation that was answered stays listed until its owner wakes;
  if the interpreter is deleted in between, its event is read after it was freed. A method
  that deletes its own interpreter wakes its owner, and the rest of `ForwardProc` then writes
  to the parameters and the result of a caller that has returned, where the comment at 3048
  relies on that caller being blocked. And a closed channel that was dead stays in the map
  of its thread. For all these `SafeAtHome` asks that the interpreter lives.
* `tclIORChan.c:816`: events posted to a thread from which the channel moved away stay there when
  the channel is closed; `SafeAtHome` excepts channels that moved.
* `tclSelectNotfy.c:1159`: `AlertSingleThread` clears the link by which the loop over the waiting
  threads goes on, so each `select` alerts one thread, the first on the list that is due; the
  comment speaks of "any threads that are waiting on a ready file descriptor". `Progress` is
  about somebody being alerted for this reason.
* `tclIO.c:1072`: an interpreter deleted with a background flush pending leaves its channel open
  for ever, since only `Tcl_UnregisterChannel` sets `CHANNEL_CLOSED`, although the comment says
  that it is emulated. `tclIO.c:3859`: closing the write side drops the error of the flush.
  `LossReported` excepts both.
* `tclIO.c:8860`: with both conditions true, `ChannelEventProc` queues two events for one.

### Fairness

`event_loop_live`: a thread that can take a step of the loop does (the loop is a `while (1)`);
handlers return, async handlers too; a thread that has queued an event goes on to alert; the program calls the
loop again with all kinds of events, as `Tcl_Main`, `vwait` and a thread's wait loop do.
Strong fairness is used where a handler's return is disabled while it is inside a nested call.
That signals stop is a premise of `WorkServed`, not a fairness: each call of `Tcl_DoOneEvent`
that finds an async handler marked does nothing else.
`timers`: time passes, `Tcl_WaitForEvent` returns when its limit is over, and a call that
does not ask for timers gets what it sleeps for. `idle_handlers`: handlers return and the
program goes on calling the loop. `async`: handlers return, `epoll_wait` returns when the
event fd is readable, and nothing else ever need wake the thread. `thread_join`: locks are
granted fairly and threads exit. `select_notifier`: the notifier thread runs, and so does the
thread that joins it; no other thread need ever wait, return or serve its events. `channel`:
the event loop serves writable devices and channel events, handlers return, and the peer
of the device reads (a device that stays full holds its output back for ever). `forward`: both
threads go on, methods return, also those that enter the event loop, and the handler thread
comes back to its event loop as long as it lives. No run assumes that posts, marks or readiness happen.

## 4. Proofs

`EventQueueProofs` proves, for every set of events and all bounds, from the three named
assumptions of `EventQueue` alone:

* `TypeCorrect`, `PointersNeverDangle`, `ServicedByOneFrame`, `QueueOrdered`,
  `RoundsKeepTheirEvents`: the five invariants of run `event_queue`;
* `Refinement`: `Spec => D!Spec`, every step maps to a step of `Dispatch` or a stutter.

The argument: `IInv` is the conjunction of the five invariants with what makes them
inductive: the history is bounded by the clock (`born[e] <= clock`, and no two linked
events were born at the same post), the event read but not yet stored by the unlocked
assignment is the end of some prefix (`SplitsAt(sampleEv, sampleClock)` while `sampling`),
and the frame that ran last is not confused with linked events. `PriorityOrder` alone is not
inductive: a marked insertion is only right if the marker is the last of the events
that are not at the tail. `UnlinkFacts` and `InsertFacts` say what the two list
operations do to positions and pointers; each action lemma (`QueueEventIInv`,
`DeleteThisIInv`, ...) has one step per conjunct. For the refinement, `NotOutranked` shows
that the event reached by a scan over busy events is not outranked by any that waits.
`SeqLemmas` proves the facts about `InsertAt`, `RemoveAt`, `Front` and `ToSet` of the
community modules.

`ThreadJoinProofs` proves, for any sets of threads and joiners, from `ThreadsAssumption`
alone, the three invariants of run `thread_join`: `TypeCorrect`, `NoUse` and `JoinedOnce`.
`NoUseAfterFree` is not inductive: it needs the locks that each step holds, and the state of
the structure at each step (`ThreadInv`, `JoinerInv`). The heart of it is `PairInv`: a joiner
that has passed the last lock of the mutex (`free`) has found it open, so nobody is still at
`check`; and nobody can come to it, because the structure is no longer listed (`take` needs it
listed, and holds the list). The exiting thread is out of the way because the waiter goes on
only when `done` is set, which is its last use. Only the implication from a program counter to
a lock held is needed, never the converse, and `joinLock` plays no part: it is there for
liveness.

`NotifierProofs` proves, for every set of events and sources, every program and any depth of
nested calls, from the assumptions of `Notifier` (`QueueAssumption` is that the queue gets a
proper set of events and bounds), the safety properties of run `event_loop`: `TypeCorrect`,
`NeverSleepsOverEvents`, `PollsBetweenRounds` and `NeverServesRecursively`. The module takes an
instance of `EventQueueProofs`, so its inductive invariant begins with that of the queue, and
`QueueSafeUnderLoop` gets the queue's invariants for the loop without a second proof: each
action of the loop is a step of `EventQueue` or leaves its variables alone, by construction
(`QueueKept`). What the loop adds is in `LoopInv`. `EventFrames` ties the two stacks together:
the frames of `Tcl_ServiceEvent` belong, in order, to the calls that are inside an event
handler, which is what a nested call relies on when it returns. `NoSleepOverEvents` is not
inductive, because it is lost long before the sleep: `MarkSeen` says where a call may be
while an async handler is marked of which no alert is left, `BlocksIfIdle` what the block time
of zero or of NULL was computed from, and `RoundClosed` that nobody services a finished round
before the sources were polled. `NeverServesRecursively` has an invariant of its own,
`ModesOK`: servicing is on inside calls only where it was asked for in the innermost one, each
frame has saved a mode that its caller asked for, and every `Tcl_ServiceAll` was entered with
servicing on, which is what makes the constant that it restores the right one.

`TimersProofs` proves the four safety properties of run `timers` for any number of timers, any
clock and any nesting. `NoneLostNoneTwice` needs the list to be in order of time and
token and tokens to be given out in order. `PassesComplete` needs `NewerLater`: a
timer created since a pass began is not earlier than the time which the pass noted.
This is where the hypothesis `~Absolute` enters, and only here; without it the statement is
false (see above, `tclTimer.c:594`), so the theorem has it as its ASSUME and not the module.

Its second half proves the safety properties of run `idle_handlers` for any number of handlers,
keys and nested passes: `IdleTypeCorrect`, `IdleKept` and, as an action property,
`IdlePassesComplete`. A pass stops at a generation, not at the end that the list had when it
began. So the proof needs that generations never decrease along the list (`GenerationsInOrder`)
and that each active pass tells old handlers from new ones by them (`NewByGeneration`), which a
nested pass must not disturb when it advances the generation. A handler is cancelled by a walk
that unlinks all that match, so the proof has to know what such a walk leaves, for a list of
any length: `UnlinkedSelects` of `SeqLemmas` says that it is the members that do not match,
each once, in their order. `Unlinked` is a recursive function, for which the provers have no
induction theorem (those of the library take an operator); the lemma is proved by induction
over a set instead (`NatSetInduction`, from the well-foundedness of `<` on `Nat`): the lengths
up to which the walk is right are a set that holds 0 and with `n` also `n + 1`. That the
recursive equation has a solution at all (`KeptExists`) is proved in the same way.

The first half of `WakeupProofs` proves the invariants of run `async` for any number of
handlers and nested invocations. The three flags have to agree with the marks: no mark of a
thread is left when an invocation is at its end (`NoneLeftAtEnd`), so that clearing
`asyncActive` hides none; a mark that no invocation will find is announced by `asyncReady`
(`MarkAnnounced`); and on the way to sleep `asyncReady` is set together with the event fd
(`AnnouncedWithAlert`).

Its second half proves, for any threads, any files and any number of queued events, from
`MaxEventsAssumption` alone, the safety properties of run `select_notifier`:
`SelectTypeCorrect`, `WatchesTheWaiting` and, as an action property, `PollsFind`. Two machines
meet here, and the notifier thread is without the mutex where it matters. `SelectsForTheList`
is kept by the threads because whoever joins or leaves the list leaves a byte in the pipe, and
everyone else on it keeps its handlers and its `pollState` while it sleeps (`ListLeftAlone`).
`PollFinds` is about a moment when the notifier thread is already somewhere else, so it needs
the whole way of a poll: what was readable for a polling thread all along is among its files
(`AskedIsReadable`); once the thread is marked `POLL_DONE` its files are among the masks that
are selected for, and after `select` what was readable is among those that were found
(`PolledIsSelected`); so the alert brings a file, and one that did not come from `select` has
cut the poll short (`FoundIfSignalled`). A thread leaves its poll only when it was signalled,
and `SignalledAsleep` says that no signal is left over from an earlier wait. `RoomForEvents` is
why a `readyMask` that is clear leaves room for one more event.

`ChannelProofs` proves, for any set of interpreters, any size of buffers and any
behaviour of the device, `TypeCorrect`, `BytesInOrder` and `LossesReported`. The functions of
`tclIO.c` are operators on the channel record in `Channel`, and the proof follows
them: one lemma for each (`FlushFacts`, `CloseFacts`, `PutFacts`, ...) says that what it
returns satisfies `OK` if its argument does. `Faithful` says that the bytes which the device
got, followed by those in the buffers in the order in which they will be flushed, increase and
are those written less the lost ones. `AppendRun` (a run of new bytes at the end), `CutRun`
(what an error throws away is a run at the end) and `MovedBytes` (from a buffer to the queue or
the device nothing changes) are its three lemmas. `Answered` is `LossReported`, which is kept by
every step together with `OK`. `WorldInv` says that the channel's reference count, interest and
frames agree with the tables of the interpreters and with the handlers.

`ForwardProofs` proves, for any number of owners, channels and interpreters and any depth of
nested methods, `TypeCorrect`, `CallersAreAnswered` and `NoFreedMemoryAtHome`, the two latter for
a thread that deletes its interpreters before it exits; `NoFreedMemoryWhileServed` is what holds
of freed memory however the thread exits. The first group of lemmas (`Pushed`, `Popped`,
`Went`) says what a call, a return and a step of the C stack do to the frames of operations.
The event of an operation is at one place only: in the queue (`QueueInv`) or in one frame
(`ServiceInv`), and never both. While the interpreter lives (`Lives`), the caller of a frame
still waits, so its parameters are good; this is what the deletion of an interpreter breaks for
the frames under it. `CloseInv` joins the two sides: while an owner closes a channel,
the maps have it exactly as long as its method has not finished, so the owner may free it when it
is woken and the handler finds it where it must. `HomeInv` says where the events of a channel that
has not moved are, including the one that `postevent` is about to queue. `WaitInv` is the only
part that needs the hypothesis: once the thread exits all channels are dead, so that no
operation comes after the cancelling.

Every safety property that a passing run checks is proved. Only model-checked: liveness, which is
beyond the prover (the properties under fairness of the runs, `PROJECT.json` lists them), and
the two disagreements above, which are counterexamples.

## 5. Not modelled, and why

In the modelled files: `TclFinalizeNotifier`, `Tcl_SetNotifier`, the lists of event
sources, epoll file handlers and the arithmetic of times (planned); reuse of the address of
an event that was freed while in service; in `Notifier` a source that becomes ready again
while its event is in service (it would queue a second event at another address, which for
`Notifier` is an element of `FileEvents` of its own), and the order of async handlers, which
`Async` has; in `Async` the branch of `TclAsyncNotifier` for a thread without a notifier
(`tclEpollNotfy.c:845`: the handler is marked -1 and nobody is alerted), which belongs to
initialization and finalization; in `ThreadJoin` the reuse of the id of a thread that has
ended, and a thread procedure that returns without `TclpThreadExit`; in `SelectNotifier` signals taken by the notifier
thread, fork, spurious wakeups and errors of `select`, and conditions other than readable
(they take the same path in other masks); in `Channel` input and copying, unbuffered and
line-buffered output, stacked channels, seeking, encodings, the moving of a channel
between threads and exit (`TclFinalizeIOSubsystem`), what the driver says to the closing of the
read side by `TclClose`, and writes longer than a buffer (a loop
over what one write does); in `Forward` the exit of an owner (`SrcExitProc`), a channel that
moves into the thread of its handler, a method that goes on in its nested event loop after its
interpreter was deleted, the timers of `postevent` within one thread, and the marshalling of
arguments and results. `ForwardProc` reads `rcPtr->interp` before it looks whether the
operation was cancelled (`tclIORChan.c:3061`); by then the owner may have freed the channel, so
for a cancelled event this reads freed memory. The value is not used, and the step does nothing
in the model; it happens only after the interpreter or thread of the handler has gone, which
`SafeAtHome` excepts. The language implementation is a
function of the script. Drivers are system I/O. zlib and libtommath are third-party.

## 6. Plan

1. `Preserve` (`tclPreserve.c`), `NotifierLife` (initialization and finalization against
   posts of other threads), `TimeLimits` (widths and rounding of block times).
2. `After` and `Vwait` over `Timers` and `IdleHandlers`.
3. Channels: input events and `fcopy`, exit; the exit of an owner in `Forward`.
4. Traces, limits and cancellation of interpreters, deletion of namespaces, exit handlers,
   detached processes, asynchronous connection, `http.tcl`'s kept connections.
5. Proofs: safety of the above as it is modelled; for the event loop, that the timers and
   idle handlers which it counts are those of `Timers` and `IdleHandlers`.
