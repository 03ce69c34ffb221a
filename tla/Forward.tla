------------------------------ MODULE Forward ------------------------------
(***************************************************************************)
(* Reflected channels that were moved to another thread                    *)
(* (generic/tclIORChan.c).  The thread that owns such a channel forwards   *)
(* each driver operation to the thread that has the handler command, as an *)
(* event, and blocks on a condition until the operation is answered: by    *)
(* ForwardProc, or by the deletion of the handler's interpreter, or by the *)
(* exit of its thread, which cancel what is pending.                       *)
(*                                                                         *)
(* The handler thread is one; its C stack is explicit, since a method may  *)
(* run a script that enters the event loop, deletes interpreters or exits. *)
(* rcForwardMutex protects single actions here: each critical section is   *)
(* one.  An access to memory that has been freed ends the behaviour        *)
(* ("crashed"): C says nothing about what would follow.                    *)
(***************************************************************************)
EXTENDS Naturals, SequencesExt, FiniteSets

CONSTANTS
    Owners,         \* threads that own the channels
    Chans, Interps,
    InterpOf,       \* the interpreter that has the handler of a channel
    NULL,
    AbruptExit,     \* the thread may exit and leave its interpreters behind
    MaxDepth, MaxPosts  \* bounds: nested frames, events posted

ASSUME ForwardAssumption ==
    /\ InterpOf \in [Chans -> Interps]
    /\ NULL \notin Owners \union Chans \union [chan : Chans, close : BOOLEAN]
    /\ AbruptExit \in BOOLEAN
    /\ MaxDepth \in Nat /\ MaxPosts \in Nat

VARIABLES
    owner,          \* rcPtr->owner
    chan,           \* "open", "closing" or "freed"
    dead,           \* rcPtr->dead
    interpMap,      \* channels in the maps of their interpreters
    threadMap,      \* channels in the map of the handler thread
    interp,         \* "live", "deleted" (but preserved) or "gone"
    thread,         \* "live", "exiting" or "gone"
    frames,         \* C stack of the handler thread, outermost first
    queue,          \* its event queue: who waits for each forwarded operation,
                    \* NULL where evPtr->resultPtr is
    op,             \* the operation that an owner has forwarded
    result,         \* resultPtr->result of that operation
    attached,       \* resultPtr->evPtr is not NULL
    code,           \* the owner's param.base.code
    closing,        \* channel that an owner is closing
    inbox,          \* ReflectEvents in an owner's queue, per channel
    moved,          \* history: channels that have changed their owner
    crashed         \* channel whose freed memory was used, or NULL

hvars == <<dead, interpMap, threadMap, interp, thread, frames>>
ovars == <<owner, chan, closing, inbox, moved>>
fvars == <<queue, op, result, attached, code>>
vars == <<hvars, ovars, fvars, crashed>>

Ops == [chan : Chans, close : BOOLEAN]
\* A frame's caller becomes NULL when the caller returns: its parameters and
\* its result are gone.
OpFrames == [at : {"method", "finish", "notify"}, caller : Owners \union {NULL}, op : Ops]
DeleteFrames == [at : {"mark", "cancel", "unmap"}, interp : Interps]
PostFrames == [at : {"post"}, chan : Chans, to : Owners \union {NULL}]
ExitFrames == [at : {"exit cancel", "exit unmap"}]

TypeOK ==
    /\ owner \in [Chans -> Owners \union {NULL}]
    /\ chan \in [Chans -> {"open", "closing", "freed"}]
    /\ dead \in [Chans -> BOOLEAN]
    /\ interpMap \subseteq Chans /\ threadMap \subseteq Chans
    /\ interp \in [Interps -> {"live", "deleted", "gone"}]
    /\ thread \in {"live", "exiting", "gone"}
    /\ frames \in Seq(OpFrames \union DeleteFrames \union PostFrames \union ExitFrames)
    /\ queue \in Seq(Owners \union {NULL})
    /\ op \in [Owners -> Ops \union {NULL}]
    /\ result \in [Owners -> {"none", "wait", "ok", "error"}]
    /\ attached \in [Owners -> BOOLEAN]
    /\ code \in [Owners -> {"unset", "ok", "error"}]
    /\ closing \in [Owners -> Chans \union {NULL}]
    /\ inbox \in [Owners -> [Chans -> 0 .. MaxPosts]]
    /\ moved \subseteq Chans /\ crashed \in Chans \union {NULL}

\* The channels have been created in the handler thread and spliced into the
\* threads of their owners.
Init ==
    /\ owner \in [Chans -> Owners] /\ chan = [c \in Chans |-> "open"]
    /\ dead = [c \in Chans |-> FALSE]
    /\ interpMap = Chans /\ threadMap = Chans
    /\ interp = [i \in Interps |-> "live"] /\ thread = "live"
    /\ frames = <<>> /\ queue = <<>>
    /\ op = [o \in Owners |-> NULL] /\ result = [o \in Owners |-> "none"]
    /\ attached = [o \in Owners |-> FALSE] /\ code = [o \in Owners |-> "unset"]
    /\ closing = [o \in Owners |-> NULL]
    /\ inbox = [o \in Owners |-> [c \in Chans |-> 0]]
    /\ moved = {} /\ crashed = NULL

-----------------------------------------------------------------------------
Top == Last(frames)
TopIs(at) == frames # <<>> /\ Top.at = at
Goto(at) == frames' = [frames EXCEPT ![Len(frames)].at = at]
Return == frames' = Front(frames)
Call(f) == frames' = Append(frames, f)

IsOpFrame(f) == f.at \in {"method", "finish", "notify"}
InService(o) == \E k \in DOMAIN frames : IsOpFrame(frames[k]) /\ frames[k].caller = o
Waits(o) == op[o] # NULL

\* InvokeTclMethod preserves the interpreter, ForwardProc the channel unless
\* it closes it.
InMethod(i) ==
    {k \in DOMAIN frames : frames[k].at = "method" /\ InterpOf[frames[k].op.chan] = i}
Preserved(c) ==
    \E k \in DOMAIN frames :
        /\ frames[k].at \in {"method", "finish"}
        /\ frames[k].op = [chan |-> c, close |-> FALSE]

\* What memory is still good for: a channel, the event of an operation.
Dangling(c) == chan[c] = "freed" /\ ~Preserved(c)
EventLives(o) == o \in ToSet(queue) \/ InService(o)

\* A script of the handler thread can run: the thread's own or a method's.
ScriptRuns ==
    /\ crashed = NULL /\ thread = "live"
    /\ frames # <<>> => Top.at = "method" /\ interp[InterpOf[Top.op.chan]] = "live"

-----------------------------------------------------------------------------
(***************************************************************************)
(* The owner.                                                              *)
(***************************************************************************)
OwnerRuns(o) == crashed = NULL /\ ~Waits(o) /\ closing[o] = NULL

\* ForwardOpToHandlerThread up to the wait.  A dead channel is refused; the
\* event for a thread that does not exist is dropped.
Forwarded(o, c, close) ==
    /\ op' = [op EXCEPT ![o] = [chan |-> c, close |-> close]]
    /\ result' = [result EXCEPT ![o] = "wait"]
    /\ attached' = [attached EXCEPT ![o] = TRUE]
    /\ code' = [code EXCEPT ![o] = "unset"]
    /\ queue' = IF thread = "gone" THEN queue ELSE Append(queue, o)

ForwardThoughDead(o, c, close) == Forwarded(o, c, close)
ForwardOpToHandlerThread(o, c, close) ==
    IF dead[c] THEN UNCHANGED fvars ELSE Forwarded(o, c, close)

\* ReflectInput, ReflectOutput, ReflectSeekWide, ReflectWatch, ReflectBlock,
\* ReflectSetOption, ReflectGetOption, ReflectTruncate.
Operation(o, c) ==
    /\ OwnerRuns(o) /\ owner[c] = o
    /\ ForwardOpToHandlerThread(o, c, FALSE)
    /\ UNCHANGED <<hvars, ovars, crashed>>

\* CloseChannel takes the channel out of the thread first.
ReflectClose(o, c) ==
    /\ OwnerRuns(o) /\ owner[c] = o
    /\ chan' = [chan EXCEPT ![c] = "closing"]
    /\ closing' = [closing EXCEPT ![o] = c]
    /\ owner' = [owner EXCEPT ![c] = NULL]
    /\ ForwardOpToHandlerThread(o, c, TRUE)
    /\ UNCHANGED <<hvars, inbox, moved, crashed>>

\* The wait is over: the result is unlinked and freed.
ForwardReturns(o) ==
    /\ crashed = NULL /\ Waits(o) /\ result[o] # "wait"
    /\ op' = [op EXCEPT ![o] = NULL]
    /\ result' = [result EXCEPT ![o] = "none"]
    /\ attached' = [attached EXCEPT ![o] = FALSE]
    /\ code' = [code EXCEPT ![o] = "unset"]
    /\ frames' = [k \in DOMAIN frames |->
                    IF IsOpFrame(frames[k]) /\ frames[k].caller = o
                    THEN [frames[k] EXCEPT !.caller = NULL] ELSE frames[k]]
    /\ UNCHANGED <<dead, interpMap, threadMap, interp, thread, ovars, queue, crashed>>

\* The rest of ReflectClose, which squashes the events of the channel.
SquashOne(o, c) == [inbox EXCEPT ![o][c] = @ - 1]
Squash(o, c) == [inbox EXCEPT ![o][c] = 0]

CloseReturns(o) ==
    LET c == closing[o] IN
    /\ crashed = NULL /\ c # NULL /\ ~Waits(o)
    /\ inbox' = Squash(o, c)
    /\ chan' = [chan EXCEPT ![c] = "freed"]
    /\ closing' = [closing EXCEPT ![o] = NULL]
    /\ UNCHANGED <<owner, moved, hvars, fvars, crashed>>

ReflectEventRun(o, c) ==
    /\ OwnerRuns(o) /\ inbox[o][c] > 0
    /\ inbox' = [inbox EXCEPT ![o][c] = @ - 1]
    /\ crashed' = IF Dangling(c) THEN c ELSE NULL
    /\ UNCHANGED <<owner, chan, closing, moved, hvars, fvars>>

\* Tcl_CutChannel and Tcl_SpliceChannel: ReflectThread.
CutChannel(o, c) ==
    /\ OwnerRuns(o) /\ owner[c] = o
    /\ owner' = [owner EXCEPT ![c] = NULL]
    /\ UNCHANGED <<chan, closing, inbox, moved, hvars, fvars, crashed>>

SpliceChannel(o, c) ==
    /\ OwnerRuns(o) /\ owner[c] = NULL /\ chan[c] = "open"
    /\ owner' = [owner EXCEPT ![c] = o]
    /\ moved' = moved \union {c}
    /\ UNCHANGED <<chan, closing, inbox, hvars, fvars, crashed>>

-----------------------------------------------------------------------------
(***************************************************************************)
(* ForwardProc.                                                            *)
(***************************************************************************)
\* An operation that nobody waits for any more is ignored; a dead channel has
\* no method to run.
ForwardProc ==
    LET o == Head(queue) IN
    /\ ScriptRuns /\ queue # <<>> /\ Len(frames) < MaxDepth
    /\ queue' = Tail(queue)
    /\ IF o = NULL THEN UNCHANGED <<frames, code>>
       ELSE /\ Call([at |-> IF dead[op[o].chan] THEN "finish" ELSE "method",
                     caller |-> o, op |-> op[o]])
            /\ code' = [code EXCEPT ![o] = "ok"]
    /\ UNCHANGED <<dead, interpMap, threadMap, interp, thread, ovars, op, result,
                   attached, crashed>>

\* InvokeTclMethod releases the interpreter: if it was the last to preserve
\* one that is deleted, its assoc data go now.
MethodReturns ==
    LET i == InterpOf[Top.op.chan]
        finish == [frames EXCEPT ![Len(frames)].at = "finish"]
    IN
    /\ crashed = NULL /\ TopIs("method")
    /\ frames' = IF interp[i] = "deleted" /\ Cardinality(InMethod(i)) = 1
                 THEN Append(finish, [at |-> "mark", interp |-> i])
                 ELSE finish
    /\ UNCHANGED <<dead, interpMap, threadMap, interp, thread, ovars, fvars, crashed>>

\* The results of the method go to the caller's parameters; a channel that is
\* closed leaves both maps, where it must be found.
Closes(f) == IF f.op.close THEN {f.op.chan} ELSE {}
ClosesKept(f) == {}
MayFinish(f) ==
    /\ f.caller # NULL
    /\ \A c \in Closes(f) : ~Dangling(c) /\ c \in interpMap /\ c \in threadMap
Unmapped(f) == Closes(f)

MethodFinishes ==
    /\ crashed = NULL /\ TopIs("finish") /\ MayFinish(Top)
    /\ \E r \in {"ok", "error"} : code' = [code EXCEPT ![Top.caller] = r]
    /\ interpMap' = interpMap \ Unmapped(Top)
    /\ threadMap' = threadMap \ Unmapped(Top)
    /\ dead' = [c \in Chans |-> dead[c] \/ c \in Closes(Top)]
    /\ Goto("notify")
    /\ UNCHANGED <<interp, thread, ovars, queue, op, result, attached, crashed>>

Answer ==
    /\ crashed = NULL /\ TopIs("notify") /\ Top.caller # NULL
    /\ result' = [result EXCEPT ![Top.caller] = "ok"]
    /\ Return
    /\ UNCHANGED <<dead, interpMap, threadMap, interp, thread, ovars, queue, op, attached,
                   code, crashed>>

ForwardProcCrashes ==
    /\ crashed = NULL
    /\ \/ TopIs("finish") /\ ~MayFinish(Top)
       \/ TopIs("notify") /\ Top.caller = NULL
    /\ crashed' = Top.op.chan
    /\ UNCHANGED <<hvars, ovars, fvars>>

-----------------------------------------------------------------------------
(***************************************************************************)
(* DeleteReflectedChannelMap, once an interpreter is deleted and nothing   *)
(* preserves it.                                                           *)
(***************************************************************************)
DeleteInterp(i) ==
    /\ ScriptRuns /\ interp[i] = "live"
    /\ interp' = [interp EXCEPT ![i] = "deleted"]
    /\ IF InMethod(i) = {} THEN Call([at |-> "mark", interp |-> i])
       ELSE UNCHANGED frames
    /\ UNCHANGED <<dead, interpMap, threadMap, thread, ovars, fvars, crashed>>

ChansOf(i) == {c \in Chans : InterpOf[c] = i}

MarkDead ==
    LET mapped == interpMap \intersect ChansOf(Top.interp) IN
    /\ crashed = NULL /\ TopIs("mark")
    /\ dead' = [c \in Chans |-> dead[c] \/ c \in mapped]
    /\ interpMap' = interpMap \ mapped
    /\ Goto("cancel")
    /\ UNCHANGED <<threadMap, interp, thread, ovars, fvars, crashed>>

\* The results that still refer to an event get an error, and their owners
\* are woken.
Detach(S) == queue' = [k \in DOMAIN queue |-> IF queue[k] \in S THEN NULL ELSE queue[k]]
CancelUnset(S) ==
    /\ result' = [o \in Owners |-> IF o \in S THEN "error" ELSE result[o]]
    /\ attached' = [o \in Owners |-> attached[o] /\ o \notin S]
    /\ Detach(S)
    /\ UNCHANGED code
Cancel(S) ==
    /\ result' = [o \in Owners |-> IF o \in S THEN "error" ELSE result[o]]
    /\ code' = [o \in Owners |-> IF o \in S THEN "error" ELSE code[o]]
    /\ attached' = [o \in Owners |-> attached[o] /\ o \notin S]
    /\ Detach(S)

ToCancel(S) == {o \in Owners : attached[o] /\ op[o].chan \in S}

CancelOps(S) ==
    /\ crashed = NULL
    /\ \A o \in ToCancel(S) : EventLives(o)
    /\ Cancel(ToCancel(S))
    /\ UNCHANGED <<dead, interpMap, threadMap, interp, thread, ovars, op, crashed>>

CancelForInterp ==
    /\ TopIs("cancel") /\ CancelOps(ChansOf(Top.interp))
    /\ Goto("unmap")

\* All entries of the thread's map are looked at for those of the interpreter.
UnmapInterp ==
    /\ crashed = NULL /\ TopIs("unmap")
    /\ \A c \in threadMap : ~Dangling(c)
    /\ threadMap' = threadMap \ ChansOf(Top.interp)
    /\ dead' = [c \in Chans |-> dead[c] \/ c \in threadMap \intersect ChansOf(Top.interp)]
    /\ interp' = [interp EXCEPT ![Top.interp] = "gone"]
    /\ Return
    /\ UNCHANGED <<interpMap, thread, ovars, fvars, crashed>>

(***************************************************************************)
(* Exit of the handler thread: DeleteThreadReflectedChannelMap, then       *)
(* TclFinalizeNotifier.  The frames below are never returned to; what they *)
(* serve and preserve stays until the thread is gone.                      *)
(***************************************************************************)
ExitThread ==
    /\ ScriptRuns
    /\ AbruptExit \/ \A i \in Interps : interp[i] = "gone"
    /\ thread' = "exiting"
    /\ Call([at |-> "exit cancel"])
    /\ UNCHANGED <<dead, interpMap, threadMap, interp, ovars, fvars, crashed>>

CancelForThread ==
    /\ TopIs("exit cancel") /\ CancelOps(Chans)
    /\ Goto("exit unmap")

UnmapThread ==
    /\ crashed = NULL /\ TopIs("exit unmap")
    /\ \A c \in threadMap : ~Dangling(c)
    /\ dead' = [c \in Chans |-> dead[c] \/ c \in threadMap]
    /\ threadMap' = {}
    /\ thread' = "gone" /\ queue' = <<>> /\ frames' = <<>>
    /\ UNCHANGED <<interpMap, interp, ovars, op, result, attached, code, crashed>>

\* An event that has been answered is freed, while its result is listed until
\* its owner wakes; a channel that is dead may be closed and freed, while the
\* thread's map has it until the end.
DeletionCrashes ==
    /\ crashed = NULL
    /\ \/ /\ TopIs("cancel") \/ TopIs("exit cancel")
          /\ \E o \in ToCancel(IF TopIs("cancel") THEN ChansOf(Top.interp) ELSE Chans) :
                ~EventLives(o) /\ crashed' = op[o].chan
       \/ /\ TopIs("unmap") \/ TopIs("exit unmap")
          /\ \E c \in threadMap : Dangling(c) /\ crashed' = c
    /\ UNCHANGED <<hvars, ovars, fvars>>

-----------------------------------------------------------------------------
(***************************************************************************)
(* TclChanPostEventObjCmd for a channel owned by another thread: the owner *)
(* is read, and the event goes into that thread's queue some time later.   *)
(***************************************************************************)
RoomToPost(c) ==
    /\ \A o \in Owners : inbox[o][c] < MaxPosts
    /\ Cardinality({p \in Owners \X Chans : inbox[p[1]][p[2]] # 0}) < MaxPosts

PostEvent(c) ==
    /\ ScriptRuns /\ interp[InterpOf[c]] = "live" /\ c \in interpMap
    /\ RoomToPost(c)
    /\ IF Dangling(c) THEN crashed' = c /\ UNCHANGED frames
       ELSE Call([at |-> "post", chan |-> c, to |-> owner[c]]) /\ UNCHANGED crashed
    /\ UNCHANGED <<dead, interpMap, threadMap, interp, thread, ovars, fvars>>

QueueReflectEvent ==
    /\ crashed = NULL /\ TopIs("post")
    /\ inbox' = IF Top.to = NULL THEN inbox
                ELSE [inbox EXCEPT ![Top.to][Top.chan] = @ + 1]
    /\ Return
    /\ UNCHANGED <<owner, chan, closing, moved, dead, interpMap, threadMap, interp,
                   thread, fvars, crashed>>

-----------------------------------------------------------------------------
OwnerStep(o) == ForwardReturns(o) \/ CloseReturns(o)

HandlerStep ==
    \/ MethodFinishes \/ Answer \/ ForwardProcCrashes
    \/ MarkDead \/ CancelForInterp \/ UnmapInterp
    \/ CancelForThread \/ UnmapThread \/ DeletionCrashes
    \/ QueueReflectEvent

Next ==
    \/ \E o \in Owners, c \in Chans :
        \/ Operation(o, c) \/ ReflectClose(o, c) \/ ReflectEventRun(o, c)
        \/ CutChannel(o, c) \/ SpliceChannel(o, c)
    \/ \E o \in Owners : OwnerStep(o)
    \/ ForwardProc \/ MethodReturns \/ HandlerStep
    \/ \E i \in Interps : DeleteInterp(i)
    \/ \E c \in Chans : PostEvent(c)
    \/ ExitThread

Spec == Init /\ [][Next]_vars

\* Both threads go on.  Scripts of the handler thread do other things in
\* between, but each method returns, also one that runs an event loop, and the
\* thread comes back to its event loop as long as it lives.
FairSpec ==
    /\ Spec
    /\ SF_vars(ForwardProc) /\ WF_vars(HandlerStep)
    /\ \A d \in 1 .. MaxDepth : SF_vars(MethodReturns /\ Len(frames) = d)
    /\ \A o \in Owners : WF_vars(OwnerStep(o))

-----------------------------------------------------------------------------
(***************************************************************************)
(* While its interpreter lives and it stays with its owner, no step of     *)
(* either thread uses freed memory of a channel, of an operation or of an  *)
(* event: the caller's parameters and the result outlive the method,       *)
(* `postevent' finds open channels only, and no ReflectEvent is run on a   *)
(* channel that is closed ("ensures that no pending events of this type    *)
(* are run on an invalid channel", tclIORChan.c:816).                      *)
(***************************************************************************)
SafeAtHome ==
    crashed # NULL => crashed \in moved \/ interp[InterpOf[crashed]] # "live"

(***************************************************************************)
(* A caller that waits is not forgotten: its event is still to be handled  *)
(* and knows of the result, or is being handled; and when it is woken, its *)
(* parameters say how the operation ended.                                 *)
(***************************************************************************)
NobodyForgotten ==
    \A o \in Owners :
        /\ result[o] = "wait" =>
            attached[o] /\ (EventLives(o) \/ TopIs("exit cancel"))
        /\ result[o] \in {"ok", "error"} => code[o] # "unset"

(***************************************************************************)
(* Every operation that is forwarded returns, whether the handler answers  *)
(* it, calls other operations in an event loop of its own, or goes away.   *)
(***************************************************************************)
OpsReturn == \A o \in Owners : Waits(o) ~> ~Waits(o) \/ crashed # NULL
=============================================================================
