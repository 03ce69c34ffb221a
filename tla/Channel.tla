------------------------------- MODULE Channel -------------------------------
(***************************************************************************)
(* The output side of one channel (generic/tclIO.c): the buffers, the      *)
(* background flush of a non-blocking channel, the channel events, and the *)
(* ways a channel goes away: unregistered by the last interpreter, closed  *)
(* for writing, or left behind by an interpreter that is deleted.          *)
(*                                                                         *)
(* The channel is managed by one thread, so an operation is one step; the  *)
(* interleaving is that of the scripts, of the handlers that run inside    *)
(* Tcl_NotifyChannel, and of the device, which fills up, drains and breaks *)
(* at any time.  The bytes are numbered in the order they are written.     *)
(* A blocking driver waits for its peer within one step.                   *)
(***************************************************************************)
EXTENDS Naturals, Sequences, FiniteSets, SequencesExt

CONSTANTS
    Interps,        \* the interpreters that share the channel
    BufSize,        \* bytes of one output buffer (bufSize)
    MaxBytes,       \* bound: bytes written in a behaviour
    MaxDepth        \* bound: Tcl_NotifyChannel calls within one another

ASSUME BufSizeAssumption == BufSize \in Nat \ {0}
ASSUME BoundsAssumption ==
    IsFiniteSet(Interps) /\ MaxBytes \in Nat /\ MaxDepth \in Nat

VARIABLES
    chan,           \* ChannelState, its Channel and the device below it
    registered,     \* the interpreters whose table holds the channel
    alive,          \* the interpreters that are not deleted
    handlers,       \* the interpreters with a writable event script
    frames,         \* Tcl_NotifyChannel calls, innermost first: what is left
    next            \* the number of the next byte

vars == <<chan, registered, alive, handlers, frames, next>>

Flags == {"WRITABLE", "NONBLOCKING", "BG_FLUSH", "CLOSED", "CLOSEDWRITE"}
Bytes == 1 .. MaxBytes

(***************************************************************************)
(* owed: bytes thrown away after an error that no caller was told of yet;  *)
(* detached: the channel was closed, or its interpreter deleted, with a    *)
(* background flush pending: nobody is left to be told.  got: what the     *)
(* device took.  These three are history variables.                       *)
(***************************************************************************)
ChannelState ==
    [ flags : SUBSET Flags, curOut : Seq(Bytes), outQueue : Seq(Bytes),
      unreported : BOOLEAN, refCount : Nat, interest : BOOLEAN,
      watch : BOOLEAN, eventQueued : BOOLEAN, events : Nat, open : BOOLEAN,
      device : {"ready", "full", "broken"}, code : {"ok", "error"},
      got : Seq(Bytes), owed : SUBSET Bytes, lost : SUBSET Bytes,
      detached : BOOLEAN ]

Buffered(c) == c.outQueue \o c.curOut
IsBufferFull(buf) == Len(buf) = BufSize
PartOfBuffer(buf) == buf # <<>> /\ ~IsBufferFull(buf)

Has(c, flag) == flag \in c.flags
SetFlag(c, flag) == [c EXCEPT !.flags = @ \union {flag}]
ResetFlags(c, flags) == [c EXCEPT !.flags = @ \ flags]

-----------------------------------------------------------------------------
(* What the notifier is told to watch, and the channel event.              *)

QueueChannelEvent(c) == [c EXCEPT !.events = @ + 1, !.eventQueued = TRUE]

\* Interest in a partly filled buffer, which no device will ever report.
WantsMore(c) ==
    /\ Has(c, "NONBLOCKING") /\ ~Has(c, "BG_FLUSH")
    /\ PartOfBuffer(c.curOut)

\* Mutant: an event is queued whether or not one is.
UpdateInterestTwice(c) ==
    LET mask == c.interest \/ Has(c, "BG_FLUSH")
        queued == IF mask /\ WantsMore(c) THEN QueueChannelEvent(c) ELSE c
    IN IF c.open THEN [queued EXCEPT !.watch = mask] ELSE c

UpdateInterest(c) ==
    LET mask == c.interest \/ Has(c, "BG_FLUSH")
        queued == IF ~c.eventQueued /\ mask /\ WantsMore(c)
                  THEN QueueChannelEvent(c) ELSE c
    IN IF c.open THEN [queued EXCEPT !.watch = mask] ELSE c

-----------------------------------------------------------------------------
(* FlushChannel.  An operator with a set of records as its value gives the *)
(* channel after each outcome of the device.                               *)

\* The current buffer joins the queue unless it may still be filled.
Shifted(c) ==
    IF \/ c.outQueue = <<>> \/ IsBufferFull(c.curOut)
       \/ ~Has(c, "NONBLOCKING")
    THEN [c EXCEPT !.outQueue = @ \o c.curOut, !.curOut = <<>>]
    ELSE c

\* k bytes of the queue went to the driver; in the mutant the buffer is
\* not advanced after a short write.
WrittenAgain(c, k) ==
    [c EXCEPT !.got = @ \o SubSeq(c.outQueue, 1, k),
              !.outQueue = IF k < Len(@) THEN @ ELSE <<>>]

Written(c, k) ==
    [c EXCEPT !.got = @ \o SubSeq(c.outQueue, 1, k),
              !.outQueue = SubSeq(@, k + 1, Len(@))]

\* EAGAIN: the device is full, the rest is flushed in the background; in
\* the mutant the notifier is not told.
ScheduledUnwatched(c) == SetFlag([c EXCEPT !.device = "full"], "BG_FLUSH")

Scheduled(c) ==
    LET full == [c EXCEPT !.device = "full"]
    IN IF Has(c, "BG_FLUSH") THEN full
       ELSE UpdateInterest(SetFlag(full, "BG_FLUSH"))

\* Any other error: the output is thrown away, the error kept or returned;
\* in the mutant it is kept in neither case.
DiscardUnnoticed(c, async) ==
    [c EXCEPT !.device = "broken", !.code = "error",
              !.outQueue = <<>>, !.curOut = <<>>,
              !.lost = @ \union ToSet(Buffered(c)),
              !.owed = @ \union ToSet(Buffered(c))]

DiscardOutputQueued(c, async) ==
    [c EXCEPT !.device = "broken", !.code = "error",
              !.unreported = @ \/ async,
              !.outQueue = <<>>, !.curOut = <<>>,
              !.lost = @ \union ToSet(Buffered(c)),
              !.owed = @ \union ToSet(Buffered(c))]

\* The loop over the output queue, after k bytes.  A blocking device may
\* refuse output, too: another channel has put the tty in the other mode.
Attempts(c, async) ==
    LET n == Len(c.outQueue)
        blocking == ~Has(c, "NONBLOCKING")
        AllGone == { [Written(c, n) EXCEPT !.device = d] :
                                                 d \in {"ready", "full"} }
        \* the driver took some of it before it was full
        AgainAfter == IF c.device = "full" THEN {0} ELSE 1 .. n - 1
        Again(k) == Scheduled(Written(c, k))
        Fails(k) == DiscardOutputQueued(Written(c, k), async)
    IN CASE n = 0 -> {c}
         [] n > 0 /\ c.device = "broken" -> {Fails(0)}
         [] n > 0 /\ c.device # "broken" /\ blocking ->
                AllGone \union { Again(k) : k \in AgainAfter }
                        \union { Fails(k) : k \in 0 .. n - 1 }
         [] n > 0 /\ c.device = "full" /\ ~blocking -> {Again(0)}
         [] n > 0 /\ c.device = "ready" /\ ~blocking ->
                AllGone \union { Again(k) : k \in 1 .. n - 1 }
                        \union { Fails(k) : k \in 1 .. n - 1 }

\* A background flush ends when there was nothing left to write.
BackgroundEnd(c, wroteSome) ==
    IF Has(c, "BG_FLUSH") /\ ~wroteSome /\ c.outQueue = <<>>
    THEN [ResetFlags(c, {"BG_FLUSH"}) EXCEPT !.watch = c.interest]
    ELSE c

\* The driver's close proc may fail; an error found before comes first.
CloseChannel(c) ==
    { [c EXCEPT !.open = FALSE, !.watch = FALSE, !.curOut = <<>>,
                !.code = IF c.unreported \/ fails THEN "error" ELSE @] :
            fails \in BOOLEAN }

\* The result of close2Proc is returned, and so neither errorCode nor the
\* unreported error; when it is an error the channel stays writable.
CloseChannelPart(c) ==
    { [ResetFlags(c, {"WRITABLE"}) EXCEPT !.code = "ok"],
      [c EXCEPT !.code = "error"] }

Closed(c) ==
    IF Buffered(c) # <<>> THEN {c}
    ELSE IF Has(c, "CLOSED") /\ c.refCount = 0 THEN CloseChannel(c)
    ELSE IF Has(c, "CLOSEDWRITE") THEN CloseChannelPart(c)
    ELSE {c}

FlushChannel(c0, async) ==
    LET c == [Shifted(c0) EXCEPT !.code = "ok"]
        Finish(r) ==
            LET wroteSome == r.got # c.got
            IN IF Has(r, "BG_FLUSH") /\ wroteSome THEN {r}
               ELSE Closed(BackgroundEnd(r, wroteSome))
    IN IF ~async /\ Has(c, "BG_FLUSH") THEN {c}
       ELSE UNION { Finish(r) : r \in Attempts(c, async) }

-----------------------------------------------------------------------------
(* Operations of a script.  The caller of an operation that returns an     *)
(* error knows that output is lost.                                        *)

Told(c) == IF c.code = "error" THEN [c EXCEPT !.owed = {}] ELSE c

\* CheckChannelErrors reports the error of a background flush once.
Refused(c) == c.unreported \/ Has(c, "CLOSED") \/ ~Has(c, "WRITABLE")

CheckChannelErrors(c) ==
    IF c.unreported THEN [c EXCEPT !.unreported = FALSE, !.owed = {}] ELSE c

\* The n bytes from b on fill the buffer; when it is full it is flushed, and
\* what is left of the n bytes goes to a new one.
Put(c, b, n) ==
    LET bytes == [j \in 1 .. n |-> b + j - 1]
        room == BufSize - Len(c.curOut)
        filled == [c EXCEPT !.curOut = @ \o SubSeq(bytes, 1, room),
                            !.code = "ok"]
        Rest(r) == IF r.code = "error" THEN r
                   ELSE UpdateInterest(
                          [r EXCEPT !.curOut = @ \o SubSeq(bytes, room + 1, n)])
    IN IF n < room
       THEN {UpdateInterest([c EXCEPT !.curOut = @ \o bytes, !.code = "ok"])}
       ELSE { Rest(r) : r \in FlushChannel(filled, FALSE) }

\* The bytes of the buffer that was flushed with an error were written.
PutBytes(c, r, n) ==
    IF r.code = "error" THEN BufSize - Len(c.curOut) ELSE n

Scripts == registered # {} /\ chan.open

Write(n) ==
    /\ Scripts /\ next + n - 1 <= MaxBytes
    /\ IF Refused(chan)
       THEN chan' = CheckChannelErrors(chan) /\ UNCHANGED next
       ELSE \E r \in Put(chan, next, n) :
                /\ chan' = Told(r)
                /\ next' = next + PutBytes(chan, r, n)
    /\ UNCHANGED <<registered, alive, handlers, frames>>

Flush ==
    /\ Scripts
    /\ IF Refused(chan) THEN chan' = CheckChannelErrors(chan)
       ELSE \E r \in FlushChannel(chan, FALSE) : chan' = Told(r)
    /\ UNCHANGED <<registered, alive, handlers, frames, next>>

SetBlockMode(blocking) ==
    /\ Scripts
    /\ chan' = IF blocking
               THEN ResetFlags(chan, {"NONBLOCKING", "BG_FLUSH"})
               ELSE SetFlag(chan, "NONBLOCKING")
    /\ UNCHANGED <<registered, alive, handlers, frames, next>>

Interested(c, hs) == [c EXCEPT !.interest = hs # {}]

CreateHandler(i) ==
    /\ Scripts /\ i \in registered
    /\ handlers' = handlers \union {i}
    /\ chan' = UpdateInterest(Interested(chan, handlers'))
    /\ UNCHANGED <<registered, alive, frames, next>>

\* A deleted handler is skipped by the calls that were about to reach it.
Without(fs, i) == [f \in DOMAIN fs |-> fs[f] \ {i}]

DeleteHandler(i) ==
    /\ Scripts /\ i \in handlers
    /\ handlers' = handlers \ {i}
    /\ frames' = Without(frames, i)
    /\ chan' = UpdateInterest(Interested(chan, handlers'))
    /\ UNCHANGED <<registered, alive, next>>

-----------------------------------------------------------------------------
(* The ways a channel is closed.                                           *)

\* The end of the encoding is written first, which may find the error of a
\* background flush, unless the channel is binary or has no output; then the
\* handlers go and the output is flushed.
TclClose(c0) ==
    LET Closing(tail, sticky) ==
            LET c == SetFlag([tail EXCEPT !.interest = FALSE], "CLOSED")
            IN { [r EXCEPT !.code = IF sticky THEN "error" ELSE @] :
                        r \in FlushChannel(c, FALSE) }
    IN Closing(c0, FALSE) \union
       IF ~Has(c0, "WRITABLE") THEN {}
       ELSE IF c0.unreported THEN Closing(CheckChannelErrors(c0), TRUE)
       ELSE Closing(UpdateInterest(c0), FALSE)

\* Tcl_UnregisterChannel and the channel table of a deleted interpreter
\* detach the channel in the same way.
Detached(c, i) ==
    LET hs == handlers \ {i}
        cleaned == IF i \in handlers THEN UpdateInterest(Interested(c, hs))
                   ELSE c
    IN [cleaned EXCEPT !.refCount = @ - 1]

\* A flush in the background finishes the closing, and is not entered again.
Unregister(i) ==
    LET c == Detached(chan, i) IN
    /\ i \in registered
    /\ registered' = registered \ {i}
    /\ handlers' = handlers \ {i}
    /\ frames' = Without(frames, i)
    /\ IF c.refCount > 0 THEN chan' = c
       ELSE IF Has(c, "BG_FLUSH")
       THEN chan' = [SetFlag(c, "CLOSED") EXCEPT !.detached = TRUE]
       ELSE \E r \in TclClose(c) :
              chan' = [Told(r) EXCEPT !.detached = @ \/ r.open]
    /\ UNCHANGED <<alive, next>>

DeleteChannelTable(i) ==
    LET c == Detached(chan, i) IN
    /\ i \in alive
    /\ alive' = alive \ {i}
    /\ registered' = registered \ {i}
    /\ handlers' = handlers \ {i}
    /\ frames' = Without(frames, i)
    /\ IF i \notin registered THEN UNCHANGED chan
       ELSE IF c.refCount > 0 THEN chan' = c
       ELSE IF Has(c, "BG_FLUSH") THEN chan' = [c EXCEPT !.detached = TRUE]
       ELSE \E r \in TclClose(c) : chan' = [r EXCEPT !.detached = TRUE]
    /\ UNCHANGED next

\* Tcl_CloseEx for the write side, CloseWrite: the read side stays open.
CloseWrite ==
    /\ Scripts /\ Has(chan, "WRITABLE")
    /\ IF Has(chan, "BG_FLUSH") \/ Has(chan, "CLOSEDWRITE")
       THEN chan' = SetFlag(chan, "CLOSEDWRITE")
       ELSE \E r \in FlushChannel(SetFlag(chan, "CLOSEDWRITE"), FALSE) :
                chan' = Told(r)
    /\ UNCHANGED <<registered, alive, handlers, frames, next>>

-----------------------------------------------------------------------------
(* The events of the channel.                                              *)

\* The channel handlers in hs are called one after the other; at the end
\* the interest may have changed.
Call(c, fs, hs) ==
    IF hs = {} THEN chan' = UpdateInterest(c) /\ frames' = fs
    ELSE \E i \in hs : chan' = c /\ frames' = <<hs \ {i}>> \o fs

\* The device is writable: the background flush comes first, and the
\* handlers do not see the event unless it failed.
NotifyChannel ==
    /\ chan.open /\ chan.watch /\ chan.device # "full"
    /\ Len(frames) < MaxDepth
    /\ IF Has(chan, "BG_FLUSH")
       THEN \E r \in FlushChannel(chan, TRUE) :
              IF r.code = "ok" THEN Call(r, frames, {})
              ELSE Call(r, frames, handlers)
       ELSE Call(chan, frames, handlers)
    /\ UNCHANGED <<registered, alive, handlers, next>>

HandlerReturns ==
    /\ frames # <<>>
    /\ Call(chan, Tail(frames), Head(frames))
    /\ UNCHANGED <<registered, alive, handlers, next>>

\* The event of a partly filled buffer is queued again before the handlers
\* are called, in case one of them enters the event loop.
ChannelEventProc ==
    LET c == [chan EXCEPT !.events = @ - 1, !.eventQueued = FALSE] IN
    /\ chan.events > 0 /\ Len(frames) < MaxDepth
    /\ IF c.open /\ c.interest /\ WantsMore(c)
       THEN Call(QueueChannelEvent(c), frames, handlers)
       ELSE chan' = UpdateInterest(c) /\ UNCHANGED frames
    /\ UNCHANGED <<registered, alive, handlers, next>>

-----------------------------------------------------------------------------
(* The device: its peer reads what was written, or goes away.              *)

DeviceDrains ==
    /\ chan.device = "full"
    /\ chan' = [chan EXCEPT !.device = "ready"]
    /\ UNCHANGED <<registered, alive, handlers, frames, next>>

DeviceBreaks ==
    /\ chan.device # "broken"
    /\ chan' = [chan EXCEPT !.device = "broken"]
    /\ UNCHANGED <<registered, alive, handlers, frames, next>>

-----------------------------------------------------------------------------
Init ==
    /\ chan = [ flags |-> {"WRITABLE"}, curOut |-> <<>>, outQueue |-> <<>>,
                unreported |-> FALSE, refCount |-> Cardinality(Interps),
                interest |-> FALSE, watch |-> FALSE, eventQueued |-> FALSE,
                events |-> 0, open |-> TRUE, device |-> "ready",
                code |-> "ok", got |-> <<>>, owed |-> {}, lost |-> {},
                detached |-> FALSE ]
    /\ registered = Interps /\ alive = Interps
    /\ handlers = {} /\ frames = <<>> /\ next = 1

ScriptStep ==
    \/ \E n \in 1 .. BufSize : Write(n)
    \/ Flush
    \/ \E blocking \in BOOLEAN : SetBlockMode(blocking)
    \/ \E i \in Interps : CreateHandler(i) \/ DeleteHandler(i)
    \/ \E i \in Interps : Unregister(i) \/ DeleteChannelTable(i)
    \/ CloseWrite

EventStep == NotifyChannel \/ HandlerReturns \/ ChannelEventProc

Next == ScriptStep \/ EventStep \/ DeviceDrains \/ DeviceBreaks

Spec == Init /\ [][Next]_vars

\* The event loop serves the device and the queue, handlers return, and the
\* peer of the device reads.
FairSpec ==
    /\ Spec
    /\ WF_vars(NotifyChannel) /\ WF_vars(HandlerReturns)
    /\ WF_vars(ChannelEventProc) /\ WF_vars(DeviceDrains)

-----------------------------------------------------------------------------
(* Properties.                                                             *)

\* Types; the reference count is the number of tables that hold the channel,
\* the interest that of its handlers, and one event is queued at most.  Write
\* relies on FlushChannel to make room (the assertion on curOutPtr), so no
\* operation leaves a full current buffer; and whatever handlers come and go,
\* the notifier watches the device as long as a background flush is scheduled.
TypeOK ==
    /\ chan \in ChannelState
    /\ registered \subseteq alive /\ alive \subseteq Interps
    /\ handlers \subseteq registered
    /\ \A f \in DOMAIN frames : frames[f] \subseteq handlers
    /\ Len(frames) <= MaxDepth
    /\ chan.refCount = Cardinality(registered)
    /\ chan.interest = (handlers # {})
    /\ chan.events = IF chan.eventQueued THEN 1 ELSE 0
    /\ ~IsBufferFull(chan.curOut)
    /\ chan.open /\ Has(chan, "BG_FLUSH") => chan.watch

Increasing(s) == \A j, k \in 1 .. Len(s) : j < k => s[j] < s[k]

\* FlushChannel and Write: what the device got and what is still buffered
\* is what was written, each byte once and in order, less what an error
\* made the channel throw away.
InOrder ==
    LET bytes == chan.got \o Buffered(chan)
    IN Increasing(bytes) /\ ToSet(bytes) = (1 .. next - 1) \ chan.lost

\* DiscardOutputQueued and CheckChannelErrors: output is thrown away only
\* with an error that a caller got, or that the next operation will report;
\* except when the channel was closed in the background, or closed for
\* writing (CloseChannelPart drops the error).
LossReported ==
    chan.owed # {} => \/ chan.unreported \/ chan.detached
                      \/ Has(chan, "CLOSEDWRITE")

\* Tcl_NotifyChannel and FlushChannel: a background flush ends, and one that
\* was pending when the channel was closed ends by closing the channel, if
\* the peer goes on reading and the thread serves its events.
FlushEnds ==
    /\ Has(chan, "BG_FLUSH") ~> ~Has(chan, "BG_FLUSH")
    /\ Has(chan, "BG_FLUSH") /\ Has(chan, "CLOSED") ~> ~chan.open

\* TclClose: "will flush any queued output and invoke the close function of
\* the channel driver, or it will set up the channel to be flushed and
\* closed asynchronously".
ClosedOrScheduled ==
    Has(chan, "CLOSED") /\ chan.open => Has(chan, "BG_FLUSH")
=============================================================================
