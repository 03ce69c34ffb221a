---------------------------- MODULE ForwardProofs ----------------------------
(***************************************************************************)
(* For any number of owners, channels and interpreters, any nesting of     *)
(* methods and any order of the steps of the two sides: no freed memory is *)
(* used as long as the interpreter of the handler lives and the channel    *)
(* stays with its owner, and no forwarded operation is forgotten, if the   *)
(* handler thread deletes its interpreters before it exits.                *)
(***************************************************************************)
EXTENDS Forward, SeqLemmas

(***************************************************************************)
(* The inductive invariant.                                                *)
(***************************************************************************)
Frame == OpFrames \union DeleteFrames \union PostFrames \union ExitFrames
OpAt(fs, k) == k \in 1 .. Len(fs) /\ IsOpFrame(fs[k])
Calls(k, o) == OpAt(frames, k) /\ frames[k].caller = o

Lives(c) == thread = "live" /\ interp[InterpOf[c]] = "live"

\* Only the top of the C stack is elsewhere than in a method, or behind it.
Inner == {"method", "finish"}
OuterInMethods(fs) == \A k \in 1 .. Len(fs) - 1 : fs[k].at \in Inner
TopAt(ats) == frames # <<>> /\ Top.at \in ats

ThreadInv ==
    /\ thread = "live" => ~TopAt({"exit cancel", "exit unmap"})
    /\ thread = "exiting" => TopAt({"exit cancel", "exit unmap"})
    /\ thread = "gone" => frames = <<>>
    /\ ~AbruptExit /\ thread # "live" => \A i \in Interps : interp[i] = "gone"
DeleteInv ==
    /\ TopAt({"mark", "cancel", "unmap"}) => interp[Top.interp] = "deleted"
    /\ TopAt({"cancel", "unmap"}) => interpMap \intersect ChansOf(Top.interp) = {}
PostInv ==
    TopAt({"post"}) =>
        /\ Lives(Top.chan) /\ Top.chan \in interpMap
        /\ Top.to # NULL => inbox[Top.to][Top.chan] < MaxPosts
StackInv == OuterInMethods(frames) /\ ThreadInv /\ DeleteInv /\ PostInv

\* The maps of a living interpreter hold the channels that were not closed.
MapInv ==
    \A c \in Chans :
        /\ c \notin interpMap => dead[c] = TRUE
        /\ Lives(c) => /\ c \in interpMap <=> c \in threadMap
                       /\ c \in interpMap <=> dead[c] = FALSE
                       /\ c \in interpMap => chan[c] # "freed"
        /\ interp[InterpOf[c]] = "gone" => c \notin interpMap

\* What an owner waits for.
OpInv ==
    \A o \in Owners :
        /\ op[o] = NULL <=> result[o] = "none"
        /\ attached[o] = TRUE => op[o] # NULL
        /\ result[o] = "wait" => attached[o] = TRUE
        /\ result[o] \in {"ok", "error"} => code[o] # "unset"
        /\ op[o] # NULL => /\ op[o].close = TRUE <=> closing[o] # NULL
                           /\ op[o].close = TRUE => op[o].chan = closing[o]
ClosingInv ==
    /\ \A o \in Owners : closing[o] # NULL =>
        /\ chan[closing[o]] = "closing"
        /\ \A p \in Owners : closing[p] = closing[o] => p = o
    /\ \A c \in Chans : owner[c] # NULL => chan[c] = "open"

\* The event of an operation is in the queue, or in one frame.
Awaited(k) ==
    /\ result[queue[k]] = "wait"
    /\ \A j : ~Calls(j, queue[k])
    /\ \A j \in 1 .. Len(queue) : queue[j] = queue[k] => j = k
QueueInv == \A k \in 1 .. Len(queue) : queue[k] # NULL => Awaited(k)

Serves(k) ==
    /\ frames[k].caller # NULL =>
        /\ op[frames[k].caller] = frames[k].op
        /\ code[frames[k].caller] # "unset"
        /\ \A j : Calls(j, frames[k].caller) => j = k
    /\ Lives(frames[k].op.chan) =>
        frames[k].caller # NULL /\ result[frames[k].caller] = "wait"
ServiceInv == \A k : OpAt(frames, k) => Serves(k)

\* While a caller waits, its event lives, until the exit of the thread cancels
\* what is pending; and then nobody waits any more.
Queued(o) == \E k \in 1 .. Len(queue) : queue[k] = o
WaitInv ==
    ~AbruptExit => \A o \in Owners : result[o] = "wait" =>
        /\ Queued(o) \/ (\E k : Calls(k, o)) \/ TopAt({"exit cancel"})
        /\ ~TopAt({"exit unmap"}) /\ thread # "gone"

\* A channel that is being closed is in the maps until its method has finished.
Unfinished(o) == Queued(o) \/ \E k : Calls(k, o) /\ frames[k].at \in Inner
MappedUntilClosed(o) ==
    closing[o] # NULL /\ Lives(closing[o]) => (closing[o] \in interpMap <=> Unfinished(o))
CloseInv == \A o \in Owners : MappedUntilClosed(o)

\* The events of a channel that has not moved are with its owner.
Notified(o, c) == 
    \/ inbox[o][c] # 0
    \/ TopAt({"post"}) /\ Top.chan = c /\ Top.to = o
HomeInv ==
    \A c \in Chans, o \in Owners : c \notin moved /\ Lives(c) /\ Notified(o, c) =>
        (chan[c] = "open" /\ owner[c] \in {o, NULL}) \/ closing[o] = c

CrashInv == crashed # NULL => crashed \in moved \/ ~Lives(crashed)

IInv ==
    /\ TypeOK /\ StackInv /\ MapInv /\ OpInv /\ ClosingInv
    /\ QueueInv /\ ServiceInv /\ WaitInv /\ CloseInv /\ HomeInv /\ CrashInv

USE ForwardAssumption

-----------------------------------------------------------------------------
(***************************************************************************)
(* The C stack.                                                            *)
(***************************************************************************)
LEMMA FrameKinds ==
  ASSUME NEW f \in Frame
  PROVE  /\ IsOpFrame(f) =>
              /\ f \in OpFrames /\ f.caller \in Owners \union {NULL}
              /\ f.op \in Ops /\ f.op.chan \in Chans /\ f.op.close \in BOOLEAN
         /\ f.at \in {"mark", "cancel", "unmap"} =>
              f \in DeleteFrames /\ f.interp \in Interps
         /\ f.at = "post" =>
              f \in PostFrames /\ f.chan \in Chans /\ f.to \in Owners \union {NULL}
         /\ f.at \in {"exit cancel", "exit unmap"} => f \in ExitFrames
  BY DEF Frame, OpFrames, DeleteFrames, PostFrames, ExitFrames, Ops, IsOpFrame

LEMMA NewFrames ==
  /\ \A at \in {"method", "finish", "notify"}, o \in Owners \union {NULL}, p \in Ops :
        [at |-> at, caller |-> o, op |-> p] \in Frame
  /\ \A at \in {"mark", "cancel", "unmap"}, i \in Interps :
        [at |-> at, interp |-> i] \in Frame
  /\ \A c \in Chans, o \in Owners \union {NULL} :
        [at |-> "post", chan |-> c, to |-> o] \in Frame
  /\ \A at \in {"exit cancel", "exit unmap"} : [at |-> at] \in Frame
  BY DEF Frame, OpFrames, DeleteFrames, PostFrames, ExitFrames

\* A frame that goes on to another place.
MayGo(f, at) ==
    \/ IsOpFrame(f) /\ at \in {"method", "finish", "notify"}
    \/ f.at \in {"mark", "cancel", "unmap"} /\ at \in {"cancel", "unmap"}
    \/ f.at \in {"exit cancel", "exit unmap"} /\ at = "exit unmap"

LEMMA MovedFrame ==
  ASSUME NEW f \in Frame, NEW at, MayGo(f, at), NEW g, g = [f EXCEPT !.at = at]
  PROVE  /\ g \in Frame /\ g.at = at
         /\ IsOpFrame(g) <=> IsOpFrame(f)
         /\ IsOpFrame(f) => g.caller = f.caller /\ g.op = f.op
         /\ f.at \in {"mark", "cancel", "unmap"} => g.interp = f.interp
  <1>1. CASE IsOpFrame(f)
    <2>1. f \in OpFrames
      BY <1>1, FrameKinds
    <2>2. at \in {"method", "finish", "notify"}
      BY <1>1 DEF MayGo, IsOpFrame
    <2> QED
      BY <2>1, <2>2 DEF Frame, OpFrames, IsOpFrame
  <1>2. CASE f.at \in {"mark", "cancel", "unmap"}
    <2>1. f \in DeleteFrames
      BY <1>2, FrameKinds
    <2>2. at \in {"mark", "cancel", "unmap"}
      BY <1>2 DEF MayGo, IsOpFrame
    <2> QED
      BY <2>1, <2>2 DEF Frame, DeleteFrames, IsOpFrame
  <1>3. CASE f.at \in {"exit cancel", "exit unmap"}
    <2>1. f \in ExitFrames
      BY <1>3, FrameKinds
    <2>2. at = "exit unmap"
      BY <1>3 DEF MayGo, IsOpFrame
    <2> QED
      BY <2>1, <2>2 DEF Frame, ExitFrames, IsOpFrame
  <1> QED
    BY <1>1, <1>2, <1>3 DEF MayGo

\* The frames of operations in two states of the stack: where they are, who
\* called and what; and how far they have come.
OpsKept(fs, gs) ==
    /\ \A k : OpAt(gs, k) <=> OpAt(fs, k)
    /\ \A k : OpAt(fs, k) => gs[k].caller = fs[k].caller /\ gs[k].op = fs[k].op
OpsSame(fs, gs) ==
    OpsKept(fs, gs) /\ \A k : OpAt(fs, k) => (gs[k].at \in Inner <=> fs[k].at \in Inner)

Stack(fs) == fs \in Seq(Frame) /\ OuterInMethods(fs)

LEMMA LastFrame ==
  ASSUME NEW fs \in Seq(Frame), fs # <<>>
  PROVE  /\ Len(fs) \in Nat \ {0} /\ Last(fs) = fs[Len(fs)]
         /\ Last(fs) \in Frame /\ Len(fs) \in 1 .. Len(fs)
         /\ OpAt(fs, Len(fs)) <=> IsOpFrame(Last(fs))
  <1>1. Len(fs) \in Nat \ {0} /\ Last(fs) = fs[Len(fs)] /\ Last(fs) \in Frame
    BY FrontFacts
  <1>2. Len(fs) \in 1 .. Len(fs)
    BY <1>1
  <1> QED
    BY <1>1, <1>2 DEF OpAt

PushedOn(fs, gs, f) ==
    /\ Stack(gs) /\ gs # <<>> /\ Last(gs) = f /\ Len(gs) = Len(fs) + 1
    /\ ~IsOpFrame(f) => OpsSame(fs, gs)
    /\ \A k : OpAt(gs, k) => (OpAt(fs, k) /\ gs[k] = fs[k]) \/ (k = Len(gs) /\ gs[k] = f)
    /\ \A k : OpAt(fs, k) => OpAt(gs, k) /\ gs[k] = fs[k] /\ k # Len(gs)

LEMMA Pushed ==
  ASSUME NEW fs, Stack(fs), NEW f \in Frame,
         fs = <<>> \/ Last(fs).at \in Inner,
         NEW gs, gs = Append(fs, f)
  PROVE  PushedOn(fs, gs, f)
  <1>1. /\ gs \in Seq(Frame) /\ gs # <<>> /\ Len(gs) = Len(fs) + 1
        /\ \A i \in 1 .. Len(fs) : gs[i] = fs[i]
        /\ gs[Len(gs)] = f /\ Len(fs) \in Nat
    BY PushFacts, LenProperties DEF Stack
  <1>2. Last(gs) = f
    BY <1>1 DEF Last
  <1>3. OuterInMethods(gs)
    <2>1. \A k \in 1 .. Len(fs) : fs[k].at \in Inner
      <3>1. CASE fs = <<>>
        BY <3>1, EmptySeq
      <3>2. CASE fs # <<>>
        <4>1. fs[Len(fs)].at \in Inner
          BY <3>2 DEF Last
        <4> QED
          BY <4>1, <1>1 DEF Stack, OuterInMethods
      <3> QED
        BY <3>1, <3>2
    <2> QED
      BY <2>1, <1>1 DEF OuterInMethods
  <1>4. \A k : OpAt(gs, k) => (OpAt(fs, k) /\ gs[k] = fs[k]) \/ (k = Len(gs) /\ gs[k] = f)
    BY <1>1 DEF OpAt
  <1>5. \A k : OpAt(fs, k) => OpAt(gs, k) /\ gs[k] = fs[k] /\ k # Len(gs)
    BY <1>1 DEF OpAt
  <1>6. ~IsOpFrame(f) => OpsSame(fs, gs)
    BY <1>4, <1>5 DEF OpsSame, OpsKept, OpAt
  <1> QED
    BY <1>1, <1>2, <1>3, <1>4, <1>5, <1>6 DEF Stack, PushedOn

PoppedOff(fs, gs) ==
    /\ Stack(gs) /\ Len(gs) = Len(fs) - 1
    /\ gs # <<>> => Last(gs).at \in Inner
    /\ ~IsOpFrame(Last(fs)) => OpsSame(fs, gs)
    /\ \A k : OpAt(gs, k) => OpAt(fs, k) /\ gs[k] = fs[k]
    /\ \A k : OpAt(fs, k) => k = Len(fs) \/ (OpAt(gs, k) /\ gs[k] = fs[k])

LEMMA Popped ==
  ASSUME NEW fs, Stack(fs), fs # <<>>, NEW gs, gs = Front(fs)
  PROVE  PoppedOff(fs, gs)
  <1>1. /\ gs \in Seq(Frame) /\ Len(gs) = Len(fs) - 1
        /\ \A i \in 1 .. Len(fs) - 1 : gs[i] = fs[i]
        /\ Len(fs) \in Nat \ {0} /\ Last(fs) = fs[Len(fs)]
    BY FrontFacts DEF Stack
  <1>2. \A i \in 1 .. Len(gs) : gs[i].at \in Inner
    BY <1>1 DEF Stack, OuterInMethods
  <1>3. Stack(gs)
    BY <1>1, <1>2 DEF Stack, OuterInMethods
  <1>4. gs # <<>> => Last(gs).at \in Inner
    BY <1>1, <1>2, LastFrame
  <1>5. \A k : OpAt(gs, k) => OpAt(fs, k) /\ gs[k] = fs[k]
    BY <1>1 DEF OpAt
  <1>6. \A k : OpAt(fs, k) => k = Len(fs) \/ (OpAt(gs, k) /\ gs[k] = fs[k])
    BY <1>1 DEF OpAt
  <1>7. ~IsOpFrame(Last(fs)) => OpsSame(fs, gs)
    BY <1>1, <1>5, <1>6 DEF OpsSame, OpsKept, OpAt
  <1> QED
    BY <1>1, <1>3, <1>4, <1>5, <1>6, <1>7 DEF PoppedOff

SameOp(f, g) ==
    /\ IsOpFrame(g) <=> IsOpFrame(f)
    /\ IsOpFrame(f) => g.caller = f.caller /\ g.op = f.op

Replaced(fs, gs, f) ==
    /\ Stack(gs) /\ gs # <<>> /\ Last(gs) = f /\ Len(gs) = Len(fs)
    /\ OpsKept(fs, gs)
    /\ ~IsOpFrame(f) => OpsSame(fs, gs)
    /\ \A k : OpAt(fs, k) /\ k # Len(fs) => gs[k] = fs[k]

LEMMA TopReplaced ==
  ASSUME NEW fs, Stack(fs), fs # <<>>, NEW f \in Frame,
         SameOp(Last(fs), f), NEW gs, gs = [fs EXCEPT ![Len(fs)] = f]
  PROVE  Replaced(fs, gs, f)
  <1>1. /\ gs \in Seq(Frame) /\ gs # <<>> /\ Len(gs) = Len(fs)
        /\ \A i \in 1 .. Len(fs) - 1 : gs[i] = fs[i]
        /\ gs[Len(gs)] = f
    BY TopFacts DEF Stack
  <1>2. Len(fs) \in Nat \ {0} /\ Last(fs) = fs[Len(fs)]
    BY FrontFacts DEF Stack
  <1>3. Last(gs) = f
    BY <1>1 DEF Last
  <1>4. Stack(gs)
    BY <1>1, <1>2 DEF Stack, OuterInMethods
  <1>5. \A k : OpAt(fs, k) /\ k # Len(fs) => gs[k] = fs[k]
    BY <1>1, <1>2 DEF OpAt
  <1>6. \A k : OpAt(gs, k) <=> OpAt(fs, k)
    BY <1>1, <1>2 DEF OpAt, SameOp
  <1>7. OpsKept(fs, gs)
    BY <1>1, <1>2, <1>5, <1>6 DEF OpsKept, OpAt, SameOp
  <1>8. ~IsOpFrame(f) => OpsSame(fs, gs)
    BY <1>2, <1>5, <1>7 DEF OpsSame, OpAt, SameOp
  <1> QED
    BY <1>1, <1>3, <1>4, <1>5, <1>7, <1>8 DEF Replaced

Advanced(fs, gs, at) ==
    /\ Stack(gs) /\ gs # <<>> /\ Len(gs) = Len(fs) /\ Last(gs).at = at
    /\ IsOpFrame(Last(gs)) <=> IsOpFrame(Last(fs))
    /\ Last(fs).at \in {"mark", "cancel", "unmap"} => Last(gs).interp = Last(fs).interp
    /\ OpsKept(fs, gs)
    /\ ~IsOpFrame(Last(fs)) => OpsSame(fs, gs)
    /\ \A k : OpAt(fs, k) /\ k # Len(fs) => gs[k] = fs[k]

LEMMA Went ==
  ASSUME NEW fs, Stack(fs), fs # <<>>, NEW at, MayGo(Last(fs), at),
         NEW gs, gs = [fs EXCEPT ![Len(fs)].at = at]
  PROVE  Advanced(fs, gs, at)
  <1>1. PICK t : t = Last(fs)
    OBVIOUS
  <1>2. t = fs[Len(fs)] /\ t \in Frame
    BY <1>1, LastFrame DEF Stack
  <1>3. PICK f : f = [t EXCEPT !.at = at]
    OBVIOUS
  <1>4. gs = [fs EXCEPT ![Len(fs)] = f]
    BY <1>2, <1>3
  <1>5. MayGo(t, at)
    BY <1>1
  <1>6. /\ f \in Frame /\ f.at = at
        /\ IsOpFrame(f) <=> IsOpFrame(t)
        /\ IsOpFrame(t) => f.caller = t.caller /\ f.op = t.op
        /\ t.at \in {"mark", "cancel", "unmap"} => f.interp = t.interp
    BY <1>2, <1>3, <1>5, MovedFrame
  <1>7. SameOp(Last(fs), f)
    BY <1>1, <1>6 DEF SameOp
  <1>8. Replaced(fs, gs, f)
    BY <1>4, <1>6, <1>7, TopReplaced
  <1> QED
    BY <1>1, <1>6, <1>7, <1>8 DEF SameOp, Replaced, Advanced

LEMMA TypeStack ==
  ASSUME TypeOK, OuterInMethods(frames)
  PROVE  /\ Stack(frames) /\ DOMAIN frames = 1 .. Len(frames)
         /\ frames # <<>> =>
              Top \in Frame /\ Top = frames[Len(frames)] /\ Len(frames) \in Nat \ {0}
  <1>1. frames \in Seq(Frame)
    BY DEF TypeOK, Frame
  <1>2. DOMAIN frames = 1 .. Len(frames)
    BY <1>1, LenProperties
  <1> QED
    BY <1>1, <1>2, LastFrame DEF Stack, Top

\* The frame of the step under way.
LEMMA InServiceFacts ==
  ASSUME TypeOK, OuterInMethods(frames), NEW o
  PROVE  InService(o) <=> \E k : Calls(k, o)
  BY TypeStack DEF InService, Calls, OpAt

LEMMA QueuedFacts ==
  ASSUME TypeOK, NEW o
  PROVE  o \in ToSet(queue) <=> Queued(o)
  BY ToSetFacts DEF TypeOK, Queued

-----------------------------------------------------------------------------
(***************************************************************************)
(* Initially.                                                              *)
(***************************************************************************)
LEMMA InitIInv == Init => IInv
  <1> SUFFICES ASSUME Init PROVE IInv
    OBVIOUS
  <1>1. TypeOK
    BY EmptySeq DEF Init, TypeOK
  <1>2. frames = <<>> /\ Len(frames) = 0 /\ queue = <<>> /\ Len(queue) = 0
    BY EmptySeq DEF Init
  <1>3. StackInv
    BY <1>2 DEF Init, StackInv, OuterInMethods, ThreadInv, DeleteInv, PostInv, TopAt
  <1>4. MapInv
    BY DEF Init, MapInv
  <1>5. OpInv /\ ClosingInv /\ WaitInv
    BY DEF Init, OpInv, ClosingInv, WaitInv
  <1>6. QueueInv /\ ServiceInv
    BY <1>2 DEF QueueInv, Awaited, ServiceInv, Serves, OpAt
  <1>7. CloseInv /\ CrashInv
    BY DEF Init, CloseInv, MappedUntilClosed, CrashInv
  <1>8. HomeInv
    BY <1>2 DEF Init, HomeInv, Notified, TopAt
  <1> QED
    BY <1>1, <1>3, <1>4, <1>5, <1>6, <1>7, <1>8 DEF IInv

-----------------------------------------------------------------------------
(***************************************************************************)
(* Steps that leave the operations alone: what is in their frames, in the  *)
(* queue and with the owners.                                              *)
(***************************************************************************)
LEMMA Transitive ==
  ASSUME NEW fs, NEW gs, NEW hs, OpsSame(fs, gs), OpsSame(gs, hs)
  PROVE  OpsSame(fs, hs)
  BY DEF OpsSame, OpsKept

LEMMA SameCalls ==
  ASSUME OpsKept(frames, frames')
  PROVE  \A k, o : Calls(k, o)' <=> Calls(k, o)
  BY DEF OpsKept, Calls

LEMMA SameUnfinished ==
  ASSUME OpsSame(frames, frames'), UNCHANGED queue, NEW o
  PROVE  Unfinished(o)' <=> Unfinished(o)
  <1>1. Queued(o)' <=> Queued(o)
    BY DEF Queued
  <1>2. \A k : Calls(k, o)' <=> Calls(k, o)
    BY SameCalls DEF OpsSame
  <1>3. \A k : Calls(k, o) => (frames'[k].at \in Inner <=> frames[k].at \in Inner)
    BY DEF OpsSame, Calls
  <1> QED
    BY <1>1, <1>2, <1>3 DEF Unfinished

LEMMA ServiceKept ==
  ASSUME TypeOK, OuterInMethods(frames), QueueInv, ServiceInv,
         OpsKept(frames, frames'), UNCHANGED <<queue, op, result>>,
         \A o \in Owners : code[o] # "unset" => code'[o] # "unset",
         \A c \in Chans : Lives(c)' => Lives(c)
  PROVE  QueueInv' /\ ServiceInv'
  <1>1. \A k, o : Calls(k, o)' <=> Calls(k, o)
    BY SameCalls
  <1>2. QueueInv'
    BY <1>1 DEF QueueInv, Awaited
  <1>3. ASSUME NEW k, OpAt(frames, k)'
        PROVE  /\ OpAt(frames, k)
               /\ frames'[k].caller = frames[k].caller /\ frames'[k].op = frames[k].op
    BY <1>3 DEF OpsKept
  <1>4. ASSUME NEW k, OpAt(frames, k)
        PROVE  frames[k].caller \in Owners \union {NULL} /\ frames[k].op.chan \in Chans
    BY <1>4, TypeStack, FrameKinds, ElementOfSeq DEF OpAt, Stack
  <1>5. ServiceInv'
    BY <1>1, <1>3, <1>4 DEF ServiceInv, Serves
  <1> QED
    BY <1>2, <1>5

LEMMA HandlerKept ==
  ASSUME IInv, TypeOK', StackInv', MapInv', OpsSame(frames, frames'),
         UNCHANGED <<queue, op, result, attached, code, owner, chan, closing, moved>>,
         crashed' = NULL, thread = "live", thread' = "live",
         \A c \in Chans : Lives(c)' => Lives(c) /\ (c \in interpMap' <=> c \in interpMap),
         \A c \in Chans, o \in Owners :
            Lives(c)' /\ Notified(o, c)' => Notified(o, c) \/ owner[c] = o
  PROVE  IInv'
  <1>1. OpInv' /\ ClosingInv'
    BY DEF IInv, OpInv, ClosingInv
  <1>2. QueueInv' /\ ServiceInv'
    BY ServiceKept DEF IInv, StackInv, OpsSame
  <1>3. WaitInv'
    <2>1. \A k, o : Calls(k, o)' <=> Calls(k, o)
      BY SameCalls DEF OpsSame
    <2>2. \A o : Queued(o)' <=> Queued(o)
      BY DEF Queued
    <2>3. ~TopAt({"exit cancel"}) /\ ~TopAt({"exit unmap"})'
      BY DEF IInv, StackInv, ThreadInv, TopAt
    <2> QED
      BY <2>1, <2>2, <2>3 DEF IInv, WaitInv
  <1>4. CloseInv'
    <2>1. \A o \in Owners : closing[o] # NULL => closing[o] \in Chans
      BY DEF IInv, TypeOK
    <2>2. \A o : Unfinished(o)' <=> Unfinished(o)
      BY SameUnfinished
    <2> QED
      BY <2>1, <2>2 DEF IInv, CloseInv, MappedUntilClosed
  <1>5. HomeInv'
    BY DEF IInv, HomeInv, ClosingInv
  <1>6. CrashInv'
    BY DEF CrashInv
  <1> QED
    BY <1>1, <1>2, <1>3, <1>4, <1>5, <1>6 DEF IInv

\* A crash ends the behaviour.
LEMMA CrashKept ==
  ASSUME IInv, UNCHANGED <<hvars, ovars, fvars>>, crashed' \in Chans \union {NULL},
         crashed' # NULL => crashed' \in moved \/ ~Lives(crashed')
  PROVE  IInv'
  <1> USE DEF IInv, hvars, ovars, fvars
  <1>1. TypeOK'
    BY DEF TypeOK
  <1>2. StackInv'
    BY DEF StackInv, OuterInMethods, ThreadInv, DeleteInv, PostInv, TopAt, Top, Lives
  <1>3. MapInv' /\ OpInv' /\ ClosingInv'
    BY DEF MapInv, OpInv, ClosingInv, Lives
  <1>4. QueueInv' /\ ServiceInv'
    BY DEF QueueInv, Awaited, ServiceInv, Serves, Calls, OpAt, Lives
  <1>5. WaitInv' /\ CloseInv'
    BY DEF WaitInv, CloseInv, MappedUntilClosed, Unfinished, Queued, Calls, OpAt, TopAt, Top, Lives
  <1>6. HomeInv'
    BY DEF HomeInv, Notified, TopAt, Top, Lives
  <1>7. CrashInv'
    BY DEF CrashInv, Lives
  <1> QED
    BY <1>1, <1>2, <1>3, <1>4, <1>5, <1>6, <1>7

LEMMA Stutter ==
  ASSUME IInv, UNCHANGED vars
  PROVE  IInv'
  <1>1. CrashInv /\ TypeOK
    BY DEF IInv
  <1>2. crashed' \in Chans \union {NULL} /\ (crashed' # NULL => crashed' \in moved \/ ~Lives(crashed'))
    BY <1>1 DEF vars, CrashInv, TypeOK
  <1> QED
    BY <1>2, CrashKept DEF vars

-----------------------------------------------------------------------------
(***************************************************************************)
(* The handler thread: methods and deletions of interpreters.              *)
(***************************************************************************)
\* Where the top of the stack is, is where the thread is.
LEMMA TopFrame ==
  ASSUME IInv, frames # <<>>
  PROVE  /\ Stack(frames) /\ Top \in Frame /\ Top = Last(frames)
         /\ Top.at \notin {"exit cancel", "exit unmap"} => thread = "live"
         /\ Top.at \in {"exit cancel", "exit unmap"} => thread = "exiting"
         /\ OpAt(frames, Len(frames)) <=> IsOpFrame(Top)
         /\ Top = frames[Len(frames)]
  <1>1. Stack(frames) /\ Top \in Frame /\ Top = frames[Len(frames)]
    BY TypeStack DEF IInv, StackInv
  <1>2. thread \in {"live", "exiting", "gone"}
    BY DEF IInv, TypeOK
  <1>3. /\ Top.at \notin {"exit cancel", "exit unmap"} => thread = "live"
        /\ Top.at \in {"exit cancel", "exit unmap"} => thread = "exiting"
    BY <1>2 DEF IInv, StackInv, ThreadInv, TopAt
  <1>4. OpAt(frames, Len(frames)) <=> IsOpFrame(Top)
    BY <1>1, LastFrame DEF Top, Stack
  <1> QED
    BY <1>1, <1>3, <1>4 DEF Top

\* The thread lives, and so does its stack.
LEMMA StackKept ==
  ASSUME Stack(frames'), thread' = "live",
         TopAt({"exit cancel", "exit unmap"})' => FALSE,
         DeleteInv', PostInv'
  PROVE  StackInv'
  BY DEF StackInv, Stack, ThreadInv

\* A stack with a method on its top.
LEMMA InnerTop ==
  ASSUME frames' # <<>> => Last(frames').at \in Inner
  PROVE  /\ ~TopAt({"exit cancel", "exit unmap"})'
         /\ DeleteInv' /\ PostInv'
         /\ \A o, c : Notified(o, c)' => inbox'[o][c] # 0
  BY DEF TopAt, Top, Inner, DeleteInv, PostInv, Notified

LEMMA ScriptFacts ==
  ASSUME IInv, ScriptRuns
  PROVE  /\ thread = "live" /\ crashed = NULL /\ Stack(frames)
         /\ frames = <<>> \/ Last(frames).at \in Inner
         /\ \A o, c : Notified(o, c) <=> inbox[o][c] # 0
  <1>1. thread = "live" /\ crashed = NULL
    BY DEF ScriptRuns
  <1>2. Stack(frames)
    BY TypeStack DEF IInv, StackInv
  <1>3. frames = <<>> \/ Last(frames).at = "method"
    BY DEF ScriptRuns, Top
  <1>4. \A o, c : Notified(o, c) <=> inbox[o][c] # 0
    BY <1>3 DEF Notified, TopAt, Top
  <1> QED
    BY <1>1, <1>2, <1>3, <1>4 DEF Inner

LEMMA MethodReturnsStep ==
  ASSUME IInv, MethodReturns
  PROVE  IInv'
  <1> USE DEF MethodReturns, TopIs
  <1>1. /\ frames # <<>> /\ Top.at = "method" /\ crashed = NULL
        /\ UNCHANGED <<dead, interpMap, threadMap, interp, thread, ovars, fvars, crashed>>
    OBVIOUS
  <1>2. /\ Stack(frames) /\ Top \in Frame /\ Top = Last(frames) /\ thread = "live"
        /\ IsOpFrame(Top)
    BY <1>1, TopFrame DEF IsOpFrame
  <1>3. PICK i : i = InterpOf[Top.op.chan]
    OBVIOUS
  <1>4. i \in Interps
    BY <1>2, <1>3, FrameKinds
  <1>5. PICK gs : gs = [frames EXCEPT ![Len(frames)].at = "finish"]
    OBVIOUS
  <1>6. MayGo(Last(frames), "finish")
    BY <1>2 DEF MayGo
  <1>a. Advanced(frames, gs, "finish")
    BY <1>1, <1>2, <1>5, <1>6, Went
  <1>7. /\ Stack(gs) /\ gs # <<>> /\ Last(gs).at = "finish" /\ OpsKept(frames, gs)
        /\ \A k : OpAt(frames, k) /\ k # Len(frames) => gs[k] = frames[k]
        /\ Len(gs) = Len(frames)
    BY <1>a DEF Advanced
  <1>8. OpsSame(frames, gs)
    <2>1. frames[Len(frames)].at \in Inner /\ gs[Len(frames)].at \in Inner
      BY <1>1, <1>7 DEF Top, Last, Inner
    <2> QED
      BY <1>7, <2>1 DEF OpsSame
  <1>9. PICK f : f = [at |-> "mark", interp |-> i]
    OBVIOUS
  <1>10. f \in Frame /\ f.at = "mark" /\ f.interp = i /\ ~IsOpFrame(f)
    BY <1>4, <1>9, NewFrames DEF IsOpFrame
  <1>11. \/ frames' = gs
         \/ interp[i] = "deleted" /\ frames' = Append(gs, f)
    BY <1>3, <1>5, <1>9 DEF MethodReturns
  <1>12. ASSUME frames' = Append(gs, f)
         PROVE  Stack(frames') /\ frames' # <<>> /\ Last(frames') = f /\ OpsSame(gs, frames')
    <2>1. Last(gs).at \in Inner
      BY <1>7 DEF Inner
    <2>2. PushedOn(gs, frames', f)
      BY <1>7, <1>10, <1>12, <2>1, Pushed
    <2> QED
      BY <1>10, <2>2 DEF PushedOn
  <1>13. Stack(frames') /\ OpsSame(frames, frames')
    BY <1>7, <1>8, <1>11, <1>12, Transitive
  <1>14. frames' # <<>> /\ (Top'.at = "finish" \/ (Top' = f /\ interp[i] = "deleted"))
    BY <1>7, <1>11, <1>12 DEF Top
  <1>15. /\ ~TopAt({"exit cancel", "exit unmap"})'
         /\ DeleteInv' /\ PostInv'
         /\ \A o, c : Notified(o, c)' => inbox[o][c] # 0
    BY <1>1, <1>10, <1>14 DEF TopAt, DeleteInv, PostInv, Notified, ovars
  <1>16. TypeOK'
    BY <1>1, <1>13 DEF IInv, TypeOK, Stack, Frame, ovars, fvars
  <1>17. StackInv'
    BY <1>1, <1>2, <1>13, <1>15, StackKept
  <1>18. MapInv'
    BY <1>1 DEF IInv, MapInv, Lives, ovars
  <1> QED
    BY <1>1, <1>2, <1>13, <1>15, <1>16, <1>17, <1>18, HandlerKept DEF Lives, Notified, ovars, fvars

LEMMA DeleteInterpStep ==
  ASSUME IInv, NEW i \in Interps, DeleteInterp(i)
  PROVE  IInv'
  <1>1. /\ thread = "live" /\ crashed = NULL /\ Stack(frames)
        /\ frames = <<>> \/ Last(frames).at \in Inner
        /\ \A o, c : Notified(o, c) <=> inbox[o][c] # 0
    BY ScriptFacts DEF DeleteInterp
  <1>2. PICK f : f = [at |-> "mark", interp |-> i]
    OBVIOUS
  <1>3. f \in Frame /\ f.at = "mark" /\ f.interp = i /\ ~IsOpFrame(f)
    BY <1>2, NewFrames DEF IsOpFrame
  <1>4. /\ interp' = [interp EXCEPT ![i] = "deleted"] /\ interp[i] = "live"
        /\ frames' = frames \/ frames' = Append(frames, f)
        /\ UNCHANGED <<dead, interpMap, threadMap, thread, ovars, fvars, crashed>>
    BY <1>2 DEF DeleteInterp, Call
  <1>5. ASSUME frames' = Append(frames, f)
        PROVE  Stack(frames') /\ frames' # <<>> /\ Last(frames') = f /\ OpsSame(frames, frames')
    BY <1>1, <1>3, <1>5, Pushed DEF PushedOn
  <1>6. OpsSame(frames, frames') /\ Stack(frames')
    BY <1>1, <1>4, <1>5 DEF OpsSame, OpsKept
  <1>7. /\ interp \in [Interps -> {"live", "deleted", "gone"}]
        /\ interp'[i] = "deleted" /\ \A j \in Interps : j # i => interp'[j] = interp[j]
    BY <1>4 DEF IInv, TypeOK
  <1>8. frames' # <<>> => Top'.at \in Inner \/ Top' = f
    BY <1>1, <1>4, <1>5 DEF Top
  <1>9. /\ ~TopAt({"exit cancel", "exit unmap"})'
        /\ DeleteInv' /\ PostInv'
        /\ \A o, c : Notified(o, c)' => inbox[o][c] # 0
    BY <1>3, <1>4, <1>7, <1>8 DEF TopAt, DeleteInv, PostInv, Notified, Inner, ovars
  <1>10. TypeOK'
    BY <1>4, <1>6, <1>7 DEF IInv, TypeOK, Stack, Frame, ovars, fvars
  <1>11. StackInv'
    BY <1>1, <1>4, <1>6, <1>9, StackKept
  <1>12. \A c \in Chans : Lives(c)' => Lives(c)
    BY <1>4, <1>7 DEF Lives
  <1>13. MapInv'
    <2>1. \A c \in Chans : interp'[InterpOf[c]] = "gone" => interp[InterpOf[c]] = "gone"
      BY <1>7
    <2> QED
      BY <1>4, <1>12, <2>1 DEF IInv, MapInv, ovars
  <1> QED
    BY <1>1, <1>4, <1>6, <1>9, <1>10, <1>11, <1>12, <1>13, HandlerKept DEF Notified, ovars, fvars

\* A deletion goes on.
LEMMA DeletionGoes ==
  ASSUME IInv, frames # <<>>, NEW at, Goto(at),
         \/ Top.at = "mark" /\ at = "cancel"
         \/ Top.at = "cancel" /\ at = "unmap"
  PROVE  /\ Stack(frames') /\ frames' # <<>> /\ OpsSame(frames, frames')
         /\ Top'.at = at /\ Top'.interp = Top.interp /\ Top.interp \in Interps
         /\ thread = "live" /\ interp[Top.interp] = "deleted"
  <1>1. /\ Stack(frames) /\ Top \in Frame /\ Top = Last(frames) /\ thread = "live"
    BY TopFrame
  <1>2. MayGo(Last(frames), at) /\ ~IsOpFrame(Last(frames))
    BY <1>1 DEF MayGo, IsOpFrame
  <1>3. Advanced(frames, frames', at)
    BY <1>1, <1>2, Went DEF Goto
  <1>4. Top.interp \in Interps
    BY <1>1, FrameKinds
  <1>5. interp[Top.interp] = "deleted"
    BY DEF IInv, StackInv, DeleteInv, TopAt
  <1> QED
    BY <1>1, <1>2, <1>3, <1>4, <1>5 DEF Advanced, Top

LEMMA MarkDeadStep ==
  ASSUME IInv, MarkDead
  PROVE  IInv'
  <1>1. PICK i : i = Top.interp
    OBVIOUS
  <1>2. PICK mapped : mapped = interpMap \intersect ChansOf(i)
    OBVIOUS
  <1>3. /\ crashed = NULL /\ frames # <<>> /\ Top.at = "mark" /\ Goto("cancel")
        /\ dead' = [c \in Chans |-> dead[c] \/ c \in mapped]
        /\ interpMap' = interpMap \ mapped
        /\ UNCHANGED <<threadMap, interp, thread, ovars, fvars, crashed>>
    BY <1>1, <1>2 DEF MarkDead, TopIs
  <1>4. /\ Stack(frames') /\ frames' # <<>> /\ OpsSame(frames, frames')
        /\ Top'.at = "cancel" /\ Top'.interp = i /\ i \in Interps
        /\ thread = "live" /\ interp[i] = "deleted"
    BY <1>1, <1>3, DeletionGoes
  <1>5. \A c \in Chans : Lives(c)' <=> Lives(c)
    BY <1>3 DEF Lives
  <1>6. \A c \in mapped : c \in Chans /\ ~Lives(c)
    BY <1>2, <1>4 DEF ChansOf, Lives
  <1>7. /\ ~TopAt({"exit cancel", "exit unmap"})'
        /\ DeleteInv' /\ PostInv'
        /\ \A o, c : Notified(o, c)' => inbox[o][c] # 0
    <2>1. interpMap' \intersect ChansOf(i) = {}
      BY <1>2, <1>3
    <2>2. interp'[i] = "deleted" /\ inbox' = inbox
      BY <1>3, <1>4 DEF ovars
    <2> QED
      BY <1>4, <2>1, <2>2 DEF TopAt, DeleteInv, PostInv, Notified, ChansOf
  <1>8. \A c \in Chans : dead'[c] \in BOOLEAN /\ (dead'[c] = TRUE <=> dead[c] = TRUE \/ c \in mapped)
    BY <1>3 DEF IInv, TypeOK
  <1>9. TypeOK'
    BY <1>3, <1>4, <1>8 DEF IInv, TypeOK, Stack, Frame, ovars, fvars
  <1>10. StackInv'
    BY <1>3, <1>4, <1>7, StackKept
  <1>11. MapInv'
    <2>1. chan' = chan /\ interp' = interp /\ threadMap' = threadMap
      BY <1>3 DEF ovars
    <2>2. \A c \in Chans : c \in interpMap' <=> c \in interpMap /\ c \notin mapped
      BY <1>3
    <2>3. \A c \in Chans : dead[c] \in BOOLEAN
      BY DEF IInv, TypeOK
    <2> QED
      BY <1>5, <1>6, <1>8, <2>1, <2>2, <2>3 DEF IInv, MapInv
  <1> QED
    BY <1>3, <1>4, <1>5, <1>6, <1>7, <1>9, <1>10, <1>11, HandlerKept DEF Notified, ovars, fvars

\* The frame of a deletion or of a posted event is left.
LEMMA Leaves ==
  ASSUME IInv, frames # <<>>, Return, Top.at \in {"unmap", "post"}
  PROVE  /\ Stack(frames') /\ OpsSame(frames, frames') /\ thread = "live"
         /\ Top \in Frame /\ (frames' # <<>> => Last(frames').at \in Inner)
  <1>1. Stack(frames) /\ Top \in Frame /\ Top = Last(frames) /\ thread = "live"
    BY TopFrame
  <1>2. PoppedOff(frames, frames')
    BY <1>1, Popped DEF Return
  <1> QED
    BY <1>1, <1>2 DEF PoppedOff, IsOpFrame

LEMMA UnmapInterpStep ==
  ASSUME IInv, UnmapInterp
  PROVE  IInv'
  <1>1. PICK i : i = Top.interp
    OBVIOUS
  <1>2. /\ crashed = NULL /\ frames # <<>> /\ Top.at = "unmap" /\ Return
        /\ threadMap' = threadMap \ ChansOf(i)
        /\ dead' = [c \in Chans |-> dead[c] \/ c \in threadMap \intersect ChansOf(i)]
        /\ interp' = [interp EXCEPT ![i] = "gone"]
        /\ UNCHANGED <<interpMap, thread, ovars, fvars, crashed>>
    BY <1>1 DEF UnmapInterp, TopIs
  <1>3. /\ Stack(frames') /\ OpsSame(frames, frames') /\ thread = "live"
        /\ Top \in Frame /\ (frames' # <<>> => Last(frames').at \in Inner)
    BY <1>2, Leaves
  <1>4. i \in Interps
    BY <1>1, <1>2, <1>3, FrameKinds
  <1>5. interp[i] = "deleted" /\ interpMap \intersect ChansOf(i) = {}
    BY <1>1, <1>2 DEF IInv, StackInv, DeleteInv, TopAt
  <1>6. /\ interp' \in [Interps -> {"live", "deleted", "gone"}]
        /\ interp'[i] = "gone" /\ \A j \in Interps : j # i => interp'[j] = interp[j]
    BY <1>2, <1>4 DEF IInv, TypeOK
  <1>7. \A c \in Chans : c \in ChansOf(i) <=> InterpOf[c] = i
    BY DEF ChansOf
  <1>8. \A c \in Chans : /\ Lives(c)' <=> Lives(c)
                         /\ c \in ChansOf(i) => ~Lives(c)
    BY <1>2, <1>5, <1>6, <1>7 DEF Lives
  <1>9. \A c \in Chans :
            /\ dead[c] \in BOOLEAN /\ dead'[c] \in BOOLEAN
            /\ dead'[c] = TRUE <=> dead[c] = TRUE \/ (c \in threadMap /\ c \in ChansOf(i))
    BY <1>2 DEF IInv, TypeOK
  <1>10. /\ ~TopAt({"exit cancel", "exit unmap"})'
         /\ DeleteInv' /\ PostInv'
         /\ \A o, c : Notified(o, c)' => inbox'[o][c] # 0
    BY <1>3, InnerTop
  <1>11. TypeOK'
    BY <1>2, <1>3, <1>6, <1>9 DEF IInv, TypeOK, Stack, Frame, ovars, fvars
  <1>12. StackInv'
    BY <1>2, <1>3, <1>10, StackKept
  <1>13. MapInv'
    <2>1. chan' = chan /\ interpMap' = interpMap
      BY <1>2 DEF ovars
    <2>2. \A c \in Chans : c \in threadMap' <=> c \in threadMap /\ c \notin ChansOf(i)
      BY <1>2
    <2>3. \A c \in Chans : interp'[InterpOf[c]] = "gone" => c \notin interpMap
      BY <1>5, <1>6, <1>7 DEF IInv, MapInv
    <2> QED
      BY <1>8, <1>9, <2>1, <2>2, <2>3 DEF IInv, MapInv
  <1> QED
    BY <1>2, <1>3, <1>8, <1>10, <1>11, <1>12, <1>13, HandlerKept DEF Notified, ovars, fvars

-----------------------------------------------------------------------------
(***************************************************************************)
(* Posted events.                                                          *)
(***************************************************************************)
LEMMA PostEventStep ==
  ASSUME IInv, NEW c \in Chans, PostEvent(c)
  PROVE  IInv'
  <1>1. /\ thread = "live" /\ crashed = NULL /\ Stack(frames)
        /\ frames = <<>> \/ Last(frames).at \in Inner
        /\ \A o, d : Notified(o, d) <=> inbox[o][d] # 0
    BY ScriptFacts DEF PostEvent
  <1>2. Lives(c) /\ c \in interpMap
    BY <1>1 DEF PostEvent, Lives
  <1>3. ~Dangling(c)
    BY <1>2 DEF Dangling, IInv, MapInv
  <1>4. PICK f : f = [at |-> "post", chan |-> c, to |-> owner[c]]
    OBVIOUS
  <1>5. owner[c] \in Owners \union {NULL}
    BY DEF IInv, TypeOK
  <1>6. f \in Frame /\ f.at = "post" /\ f.chan = c /\ f.to = owner[c] /\ ~IsOpFrame(f)
    BY <1>4, <1>5, NewFrames DEF IsOpFrame
  <1>7. /\ frames' = Append(frames, f) /\ crashed' = NULL
        /\ UNCHANGED <<dead, interpMap, threadMap, interp, thread, ovars, fvars>>
    BY <1>1, <1>3, <1>4 DEF PostEvent, Call
  <1>8. PushedOn(frames, frames', f)
    BY <1>1, <1>6, <1>7, Pushed
  <1>9. Stack(frames') /\ frames' # <<>> /\ Top' = f /\ OpsSame(frames, frames')
    BY <1>6, <1>8 DEF PushedOn, Top
  <1>10. \A o \in Owners : inbox[o][c] < MaxPosts
    BY DEF PostEvent, RoomToPost
  <1>11. UNCHANGED <<inbox, owner, chan, closing, moved>>
    BY <1>7 DEF ovars
  <1>12. /\ ~TopAt({"exit cancel", "exit unmap"})' /\ DeleteInv'
         /\ PostInv'
         /\ \A o \in Owners, d \in Chans : Notified(o, d)' => Notified(o, d) \/ owner[d] = o
    <2>1. ~TopAt({"exit cancel", "exit unmap"})' /\ DeleteInv'
      BY <1>6, <1>9 DEF TopAt, DeleteInv
    <2>2. PostInv'
      BY <1>2, <1>5, <1>6, <1>7, <1>9, <1>10, <1>11 DEF PostInv, Lives
    <2>3. \A o \in Owners, d \in Chans : Notified(o, d)' => Notified(o, d) \/ owner[d] = o
      BY <1>6, <1>9, <1>11 DEF Notified
    <2> QED
      BY <2>1, <2>2, <2>3
  <1>13. TypeOK'
    BY <1>7, <1>9 DEF IInv, TypeOK, Stack, Frame, ovars, fvars
  <1>14. StackInv'
    BY <1>1, <1>7, <1>9, <1>12, StackKept
  <1>15. MapInv'
    BY <1>7, <1>11 DEF IInv, MapInv, Lives
  <1> QED
    BY <1>1, <1>7, <1>9, <1>11, <1>12, <1>13, <1>14, <1>15, HandlerKept DEF Lives, fvars

LEMMA QueueReflectEventStep ==
  ASSUME IInv, QueueReflectEvent
  PROVE  IInv'
  <1>1. PICK o : o = Top.to
    OBVIOUS
  <1>2. PICK c : c = Top.chan
    OBVIOUS
  <1>3. /\ crashed = NULL /\ frames # <<>> /\ Top.at = "post" /\ Return
        /\ inbox' = IF o = NULL THEN inbox ELSE [inbox EXCEPT ![o][c] = @ + 1]
        /\ UNCHANGED <<owner, chan, closing, moved, dead, interpMap, threadMap, interp,
                       thread, fvars, crashed>>
    BY <1>1, <1>2 DEF QueueReflectEvent, TopIs
  <1>4. /\ Stack(frames') /\ OpsSame(frames, frames') /\ thread = "live"
        /\ Top \in Frame /\ (frames' # <<>> => Last(frames').at \in Inner)
    BY <1>3, Leaves
  <1>5. c \in Chans /\ o \in Owners \union {NULL}
    BY <1>1, <1>2, <1>3, <1>4, FrameKinds
  <1>6. o # NULL => inbox[o][c] < MaxPosts /\ Notified(o, c)
    BY <1>1, <1>2, <1>3 DEF IInv, StackInv, PostInv, TopAt, Notified
  <1>7. /\ inbox' \in [Owners -> [Chans -> 0 .. MaxPosts]]
        /\ \A p \in Owners, d \in Chans : p # o \/ d # c => inbox'[p][d] = inbox[p][d]
    <2>1. inbox \in [Owners -> [Chans -> 0 .. MaxPosts]]
      BY DEF IInv, TypeOK
    <2>2. CASE o = NULL
      BY <1>3, <2>1, <2>2
    <2>3. CASE o # NULL
      <3>1. o \in Owners /\ inbox[o][c] + 1 \in 0 .. MaxPosts
        BY <1>5, <1>6, <2>1, <2>3
      <3>2. PICK n : n = inbox[o][c] + 1
        OBVIOUS
      <3>3. inbox' = [inbox EXCEPT ![o][c] = n]
        BY <1>3, <2>3, <3>2
      <3> QED
        BY <1>5, <2>1, <3>1, <3>2, <3>3
    <2> QED
      BY <2>2, <2>3
  <1>8. /\ ~TopAt({"exit cancel", "exit unmap"})'
        /\ DeleteInv' /\ PostInv'
        /\ \A p, d : Notified(p, d)' => inbox'[p][d] # 0
    BY <1>4, InnerTop
  <1>9. \A d \in Chans, p \in Owners : Notified(p, d)' => Notified(p, d)
    <2> SUFFICES ASSUME NEW d \in Chans, NEW p \in Owners, inbox'[p][d] # 0
                 PROVE  Notified(p, d)
      BY <1>8
    <2>1. CASE p = o /\ d = c
      <3>1. o # NULL
        BY <2>1
      <3> QED
        BY <1>6, <2>1, <3>1
    <2>2. CASE p # o \/ d # c
      <3>1. inbox[p][d] # 0
        BY <1>7, <2>2
      <3> QED
        BY <3>1 DEF Notified
    <2> QED
      BY <2>1, <2>2
  <1>10. TypeOK'
    BY <1>3, <1>4, <1>7 DEF IInv, TypeOK, Stack, Frame, fvars
  <1>11. StackInv'
    BY <1>3, <1>4, <1>8, StackKept
  <1>12. MapInv'
    BY <1>3 DEF IInv, MapInv, Lives
  <1> QED
    BY <1>3, <1>4, <1>9, <1>10, <1>11, <1>12, HandlerKept DEF Lives, fvars

-----------------------------------------------------------------------------
(***************************************************************************)
(* ForwardProc.                                                            *)
(***************************************************************************)
\* The frame of an operation: where its caller is, and its channel.
LEMMA OpFacts ==
  ASSUME IInv, NEW k, OpAt(frames, k), NEW f, f = frames[k]
  PROVE  /\ f \in Frame /\ f.caller \in Owners \union {NULL} /\ f.op \in Ops
         /\ f.op.chan \in Chans /\ f.op.close \in BOOLEAN
         /\ f.caller # NULL =>
              /\ op[f.caller] = f.op /\ op[f.caller] # NULL
              /\ code[f.caller] # "unset" /\ ~Queued(f.caller)
              /\ \A j : Calls(j, f.caller) => j = k
         /\ Lives(f.op.chan) => f.caller # NULL /\ result[f.caller] = "wait"
  <1>1. f \in Frame
    <2>1. frames \in Seq(Frame)
      BY DEF IInv, TypeOK, Frame
    <2> QED
      BY <2>1, ElementOfSeq DEF OpAt
  <1>2. /\ f.caller \in Owners \union {NULL} /\ f.op \in Ops
        /\ f.op.chan \in Chans /\ f.op.close \in BOOLEAN
    BY <1>1, FrameKinds DEF OpAt
  <1>3. /\ f.caller # NULL =>
              /\ op[f.caller] = f.op /\ code[f.caller] # "unset"
              /\ \A j : Calls(j, f.caller) => j = k
        /\ Lives(f.op.chan) => f.caller # NULL /\ result[f.caller] = "wait"
    BY DEF IInv, ServiceInv, Serves
  <1>4. f.op # NULL
    BY <1>2 DEF Ops
  <1>5. f.caller # NULL => ~Queued(f.caller)
    BY DEF IInv, QueueInv, Awaited, Queued, Calls
  <1> QED
    BY <1>1, <1>2, <1>3, <1>4, <1>5

\* An event in the queue belongs to an owner that waits.
Waiting(o, k) ==
    /\ o \in Owners /\ result[o] = "wait" /\ attached[o] = TRUE
    /\ op[o] \in Ops /\ op[o] # NULL
    /\ \A j : ~Calls(j, o)
    /\ \A j \in 1 .. Len(queue) : queue[j] = o => j = k

LEMMA QueueFacts ==
  ASSUME IInv, NEW k \in 1 .. Len(queue), NEW o, o = queue[k], o # NULL
  PROVE  Waiting(o, k)
  <1>1. o \in Owners
    BY ElementOfSeq DEF IInv, TypeOK
  <1>2. /\ result[o] = "wait" /\ \A j : ~Calls(j, o)
        /\ \A j \in 1 .. Len(queue) : queue[j] = o => j = k
    BY DEF IInv, QueueInv, Awaited
  <1>3. attached[o] = TRUE /\ op[o] # NULL
    BY <1>1, <1>2 DEF IInv, OpInv
  <1>4. op[o] \in Ops
    BY <1>1, <1>3 DEF IInv, TypeOK
  <1> QED
    BY <1>1, <1>2, <1>3, <1>4 DEF Waiting

\* The steps of ForwardProc keep these apart from the queue and the frames.
LEMMA OthersKept ==
  ASSUME IInv, UNCHANGED <<op, attached, owner, chan, closing, moved, interp, thread,
                           crashed, inbox>>,
         OuterInMethods(frames'), thread = "live", crashed = NULL,
         frames' # <<>> => Top'.at \in {"method", "finish", "notify"}
  PROVE  StackInv' /\ ClosingInv' /\ HomeInv' /\ CrashInv'
  <1>1. ~TopAt({"exit cancel", "exit unmap"})' /\ ~TopAt({"post"})'
    BY DEF TopAt
  <1>2. StackInv'
    BY <1>1 DEF StackInv, ThreadInv, DeleteInv, PostInv, TopAt
  <1>3. ClosingInv' /\ CrashInv'
    BY DEF IInv, ClosingInv, CrashInv
  <1>4. HomeInv'
    <2>1. \A o, c : Notified(o, c)' => Notified(o, c)
      BY <1>1 DEF Notified
    <2>2. \A c : Lives(c)' <=> Lives(c)
      BY DEF Lives
    <2> QED
      BY <2>1, <2>2 DEF IInv, HomeInv
  <1> QED
    BY <1>2, <1>3, <1>4

LEMMA IgnoredStep ==
  ASSUME IInv, ForwardProc, Head(queue) = NULL
  PROVE  IInv'
  <1>1. /\ queue # <<>> /\ queue' = Tail(queue)
        /\ UNCHANGED <<frames, code, dead, interpMap, threadMap, interp, thread, ovars, op,
                       result, attached, crashed>>
    BY DEF ForwardProc
  <1>2. queue \in Seq(Owners \union {NULL})
    BY DEF IInv, TypeOK
  <1>3. /\ queue' \in Seq(Owners \union {NULL}) /\ Len(queue') = Len(queue) - 1
        /\ \A k \in 1 .. Len(queue) - 1 : queue'[k] = queue[k + 1]
    BY <1>1, <1>2, TailFacts
  <1>4. Len(queue) \in Nat \ {0} /\ Head(queue) = queue[1]
    BY <1>1, <1>2, EmptySeq
  <1>5. \A o : o # NULL => (Queued(o)' <=> Queued(o))
    <2> SUFFICES ASSUME NEW o, o # NULL PROVE Queued(o)' <=> Queued(o)
      OBVIOUS
    <2>1. ASSUME NEW k \in 1 .. Len(queue'), queue'[k] = o PROVE Queued(o)
      <3>1. k + 1 \in 1 .. Len(queue) /\ queue[k + 1] = o
        BY <1>3, <1>4, <2>1
      <3> QED
        BY <3>1 DEF Queued
    <2>2. ASSUME NEW k \in 1 .. Len(queue), queue[k] = o PROVE Queued(o)'
      <3>1. k - 1 \in 1 .. Len(queue') /\ queue'[k - 1] = o
        BY <1>3, <1>4, <2>2
      <3> QED
        BY <3>1 DEF Queued
    <2> QED
      BY <2>1, <2>2 DEF Queued
  <1>6. TypeOK'
    BY <1>1, <1>3 DEF IInv, TypeOK, ovars
  <1>7. QueueInv'
    BY <1>1, <1>3, <1>4 DEF IInv, QueueInv, Awaited, Calls, OpAt
  <1>8. StackInv' /\ MapInv' /\ OpInv' /\ ClosingInv' /\ ServiceInv' /\ CrashInv'
    <2>1. StackInv'
      BY <1>1 DEF IInv, StackInv, ThreadInv, DeleteInv, PostInv, TopAt, Top, Lives, ovars
    <2>2. MapInv' /\ OpInv' /\ ClosingInv' /\ CrashInv'
      BY <1>1 DEF IInv, MapInv, OpInv, ClosingInv, CrashInv, Lives, ovars
    <2>3. ServiceInv'
      BY <1>1 DEF IInv, ServiceInv, Serves, Calls, OpAt, Lives
    <2> QED
      BY <2>1, <2>2, <2>3
  <1>9. \A k, o : Calls(k, o)' <=> Calls(k, o)
    BY <1>1 DEF Calls, OpAt
  <1>10. WaitInv'
    BY <1>1, <1>5, <1>9 DEF IInv, WaitInv, TopAt, Top
  <1>11. CloseInv'
    BY <1>1, <1>5, <1>9 DEF IInv, CloseInv, MappedUntilClosed, Unfinished, Lives, ovars
  <1>12. HomeInv'
    BY <1>1 DEF IInv, HomeInv, Notified, TopAt, Top, Lives, ovars
  <1> QED
    BY <1>6, <1>7, <1>8, <1>10, <1>11, <1>12 DEF IInv

LEMMA ServedStep ==
  ASSUME IInv, ForwardProc, Head(queue) # NULL
  PROVE  IInv'
  <1>1. PICK o : o = Head(queue)
    OBVIOUS
  <1>2. PICK f : f = [at |-> IF dead[op[o].chan] THEN "finish" ELSE "method",
                      caller |-> o, op |-> op[o]]
    OBVIOUS
  <1>3. /\ ScriptRuns /\ queue # <<>> /\ queue' = Tail(queue)
        /\ frames' = Append(frames, f) /\ code' = [code EXCEPT ![o] = "ok"]
        /\ UNCHANGED <<dead, interpMap, threadMap, interp, thread, ovars, op, result,
                       attached, crashed>>
    BY <1>1, <1>2 DEF ForwardProc, Call
  <1>4. /\ thread = "live" /\ crashed = NULL /\ Stack(frames)
        /\ frames = <<>> \/ Last(frames).at \in Inner
    BY <1>3, ScriptFacts
  <1>5. queue \in Seq(Owners \union {NULL})
    BY DEF IInv, TypeOK
  <1>6. /\ queue' \in Seq(Owners \union {NULL}) /\ Len(queue') = Len(queue) - 1
        /\ \A k \in 1 .. Len(queue) - 1 : queue'[k] = queue[k + 1]
    BY <1>3, <1>5, TailFacts
  <1>7. Len(queue) \in Nat \ {0} /\ o = queue[1] /\ 1 \in 1 .. Len(queue)
    BY <1>1, <1>3, <1>5, EmptySeq
  <1>8. /\ o \in Owners /\ result[o] = "wait" /\ op[o] \in Ops /\ op[o] # NULL
        /\ \A j : ~Calls(j, o)
        /\ \A j \in 1 .. Len(queue) : queue[j] = o => j = 1
    <2>1. o # NULL
      BY <1>1
    <2>2. Waiting(o, 1)
      BY <1>7, <2>1, QueueFacts
    <2> QED
      BY <2>2 DEF Waiting
  <1>9. /\ f \in Frame /\ IsOpFrame(f) /\ f.at \in Inner /\ f.caller = o /\ f.op = op[o]
    BY <1>2, <1>8, NewFrames DEF IsOpFrame, Inner
  <1>10. PushedOn(frames, frames', f)
    BY <1>3, <1>4, <1>9, Pushed
  <1>11. PICK n : n = Len(frames')
    OBVIOUS
  <1>12. /\ Stack(frames') /\ frames' # <<>> /\ Top' = f
         /\ \A k : OpAt(frames, k)' =>
               (OpAt(frames, k) /\ frames'[k] = frames[k]) \/ (k = n /\ frames'[k] = f)
         /\ \A k : OpAt(frames, k) => OpAt(frames, k)' /\ frames'[k] = frames[k] /\ k # n
         /\ OpAt(frames, n)' /\ frames'[n] = f
    <2>1. OpAt(frames', n) /\ frames'[n] = f
      BY <1>9, <1>10, <1>11, LastFrame DEF PushedOn, Stack
    <2> QED
      BY <1>10, <1>11, <2>1 DEF PushedOn, Top, OpAt
  <1>13. /\ \A k, p : p # o => (Calls(k, p)' <=> Calls(k, p))
         /\ \A k : Calls(k, o)' <=> k = n
         /\ \A k, p : Calls(k, p) => frames'[k] = frames[k]
    BY <1>8, <1>9, <1>12 DEF Calls
  <1>14. ASSUME NEW p, p # o
         PROVE  Queued(p)' <=> Queued(p)
    <2>1. ASSUME NEW k \in 1 .. Len(queue'), queue'[k] = p PROVE Queued(p)
      <3>1. k + 1 \in 1 .. Len(queue) /\ queue[k + 1] = p
        BY <1>6, <1>7, <2>1
      <3> QED
        BY <3>1 DEF Queued
    <2>2. ASSUME NEW k \in 1 .. Len(queue), queue[k] = p PROVE Queued(p)'
      <3>1. k - 1 \in 1 .. Len(queue') /\ queue'[k - 1] = p
        BY <1>6, <1>7, <1>14, <2>2
      <3> QED
        BY <3>1 DEF Queued
    <2> QED
      BY <2>1, <2>2 DEF Queued
  <1>15. /\ code \in [Owners -> {"unset", "ok", "error"}]
         /\ code' \in [Owners -> {"unset", "ok", "error"}] /\ code'[o] = "ok"
         /\ \A p \in Owners : code[p] # "unset" => code'[p] # "unset"
    BY <1>3, <1>8 DEF IInv, TypeOK
  <1>16. TypeOK'
    BY <1>3, <1>6, <1>12, <1>15 DEF IInv, TypeOK, Stack, Frame, ovars
  <1>17. StackInv' /\ ClosingInv' /\ HomeInv' /\ CrashInv'
    <2>1. OuterInMethods(frames')
      BY <1>12 DEF Stack
    <2>2. Top'.at \in {"method", "finish", "notify"}
      BY <1>9, <1>12 DEF Inner
    <2> QED
      BY <1>3, <1>4, <2>1, <2>2, OthersKept DEF ovars
  <1>18. MapInv'
    BY <1>3 DEF IInv, MapInv, Lives, ovars
  <1>19. OpInv'
    BY <1>3, <1>15 DEF IInv, OpInv, ovars
  <1>20. QueueInv'
    <2> SUFFICES ASSUME NEW k \in 1 .. Len(queue'), queue'[k] # NULL
                 PROVE  Awaited(k)'
      BY DEF QueueInv
    <2>1. PICK p : p = queue'[k]
      OBVIOUS
    <2>2. k + 1 \in 1 .. Len(queue) /\ p = queue[k + 1] /\ k + 1 # 1
      BY <1>6, <1>7, <2>1
    <2>3. /\ result[p] = "wait" /\ p # o
          /\ \A j : ~Calls(j, p)
          /\ \A j \in 1 .. Len(queue) : queue[j] = p => j = k + 1
      <3>1. Waiting(p, k + 1)
        BY <2>1, <2>2, QueueFacts
      <3> QED
        BY <1>8, <2>2, <3>1 DEF Waiting
    <2>4. ASSUME NEW j \in 1 .. Len(queue'), queue'[j] = p PROVE j = k
      <3>1. j + 1 \in 1 .. Len(queue) /\ queue[j + 1] = p
        BY <1>6, <1>7, <2>4
      <3>2. j + 1 = k + 1
        BY <2>3, <3>1
      <3> QED
        BY <3>2
    <2>5. \A j : ~Calls(j, p)'
      BY <1>13, <2>3
    <2> QED
      BY <1>3, <2>1, <2>3, <2>4, <2>5 DEF Awaited
  <1>21. ServiceInv'
    <2> SUFFICES ASSUME NEW k, OpAt(frames, k)' PROVE Serves(k)'
      BY DEF ServiceInv
    <2>1. CASE k = n
      <3>1. op'[o] = f.op /\ result'[o] = "wait" /\ o # NULL /\ code'[o] # "unset"
        BY <1>3, <1>8, <1>9, <1>15
      <3> QED
        BY <1>9, <1>12, <1>13, <2>1, <3>1 DEF Serves
    <2>2. CASE k # n
      <3>1. PICK g : g = frames[k]
        OBVIOUS
      <3>2. OpAt(frames, k) /\ frames'[k] = g
        BY <1>12, <2>2, <3>1
      <3>3. /\ g.caller \in Owners \union {NULL}
            /\ g.caller # NULL =>
                 /\ op[g.caller] = g.op /\ code[g.caller] # "unset"
                 /\ \A j : Calls(j, g.caller) => j = k
            /\ Lives(g.op.chan) => g.caller # NULL /\ result[g.caller] = "wait"
        BY <3>1, <3>2, OpFacts
      <3>4. g.caller # o
        BY <1>8, <3>1, <3>2 DEF Calls
      <3>5. Lives(g.op.chan)' <=> Lives(g.op.chan)
        BY <1>3 DEF Lives
      <3>6. g.caller # NULL => code'[g.caller] # "unset"
        BY <1>15, <3>3
      <3> QED
        BY <1>3, <1>13, <3>2, <3>3, <3>4, <3>5, <3>6 DEF Serves
    <2> QED
      BY <2>1, <2>2
  <1>22. WaitInv'
    <2>1. ~TopAt({"exit cancel"}) /\ ~TopAt({"exit unmap"})' /\ thread' # "gone"
      BY <1>3, <1>4, <1>17 DEF IInv, StackInv, ThreadInv, TopAt
    <2> QED
      BY <1>3, <1>13, <1>14, <2>1 DEF IInv, WaitInv
  <1>23. CloseInv'
    <2>1. Unfinished(o) /\ Unfinished(o)'
      BY <1>7, <1>9, <1>12, <1>13 DEF Unfinished, Queued
    <2>2. \A p : p # o => (Unfinished(p)' <=> Unfinished(p))
      BY <1>13, <1>14 DEF Unfinished
    <2> QED
      BY <1>3, <2>1, <2>2 DEF IInv, CloseInv, MappedUntilClosed, Lives, ovars
  <1> QED
    BY <1>16, <1>17, <1>18, <1>19, <1>20, <1>21, <1>22, <1>23 DEF IInv

LEMMA MethodFinishesStep ==
  ASSUME IInv, MethodFinishes
  PROVE  IInv'
  <1>1. PICK f : f = Top
    OBVIOUS
  <1>2. PICK o : o = f.caller
    OBVIOUS
  <1>3. PICK n : n = Len(frames)
    OBVIOUS
  <1>4. PICK r \in {"ok", "error"} : code' = [code EXCEPT ![o] = r]
    BY <1>1, <1>2 DEF MethodFinishes
  <1>5. /\ crashed = NULL /\ frames # <<>> /\ f.at = "finish" /\ o # NULL /\ Goto("notify")
        /\ \A c \in Closes(f) : c \in interpMap /\ c \in threadMap
        /\ interpMap' = interpMap \ Closes(f) /\ threadMap' = threadMap \ Closes(f)
        /\ dead' = [c \in Chans |-> dead[c] \/ c \in Closes(f)]
        /\ UNCHANGED <<interp, thread, ovars, queue, op, result, attached, crashed>>
    BY <1>1, <1>2 DEF MethodFinishes, TopIs, MayFinish, Unmapped
  <1>6. /\ Stack(frames) /\ f \in Frame /\ f = Last(frames) /\ f = frames[n]
        /\ thread = "live" /\ OpAt(frames, n)
    BY <1>1, <1>3, <1>5, TopFrame DEF IsOpFrame
  <1>7. /\ o \in Owners /\ f.op \in Ops /\ f.op.chan \in Chans
        /\ op[o] = f.op /\ op[o] # NULL /\ code[o] # "unset" /\ ~Queued(o)
        /\ \A j : Calls(j, o) <=> j = n
    <2>1. \A j : Calls(j, o) => j = n
      BY <1>2, <1>5, <1>6, OpFacts
    <2>2. Calls(n, o)
      BY <1>2, <1>6 DEF Calls
    <2> QED
      BY <1>2, <1>5, <1>6, <2>1, <2>2, OpFacts
  <1>8. /\ Stack(frames') /\ frames' # <<>> /\ Top'.at = "notify" /\ OpsKept(frames, frames')
        /\ \A k : OpAt(frames, k) /\ k # n => frames'[k] = frames[k]
        /\ frames'[n].at = "notify"
    <2>1. MayGo(Last(frames), "notify")
      BY <1>5, <1>6 DEF MayGo, IsOpFrame
    <2>2. Advanced(frames, frames', "notify")
      BY <1>5, <1>6, <2>1, Went DEF Goto
    <2> QED
      BY <1>3, <2>2 DEF Advanced, Top, Last
  <1>9. \A k, p : Calls(k, p)' <=> Calls(k, p)
    BY <1>8, SameCalls
  <1>10. /\ code' \in [Owners -> {"unset", "ok", "error"}]
         /\ \A p \in Owners : code[p] # "unset" => code'[p] # "unset"
    BY <1>4, <1>7 DEF IInv, TypeOK
  <1>11. /\ Closes(f) \subseteq Chans
         /\ \A c : c \in Closes(f) => f.op.close = TRUE /\ c = f.op.chan /\ c = closing[o]
         /\ f.op.close = TRUE => f.op.chan \in Closes(f)
    <2>1. f.op.close \in BOOLEAN
      BY <1>7 DEF Ops
    <2>2. f.op.close = TRUE => f.op.chan = closing[o]
      BY <1>7 DEF IInv, OpInv
    <2> QED
      BY <1>7, <2>1, <2>2 DEF Closes
  <1>12. \A c \in Chans :
            /\ dead[c] \in BOOLEAN /\ dead'[c] \in BOOLEAN
            /\ dead'[c] = TRUE <=> dead[c] = TRUE \/ c \in Closes(f)
    BY <1>5 DEF IInv, TypeOK
  <1>13. TypeOK'
    BY <1>5, <1>8, <1>10, <1>12 DEF IInv, TypeOK, Stack, Frame, ovars
  <1>14. StackInv' /\ ClosingInv' /\ HomeInv' /\ CrashInv'
    <2>1. OuterInMethods(frames')
      BY <1>8 DEF Stack
    <2> QED
      BY <1>5, <1>6, <1>8, <2>1, OthersKept DEF ovars
  <1>15. MapInv'
    <2>1. chan' = chan /\ interp' = interp /\ thread' = thread
      BY <1>5 DEF ovars
    <2>2. \A c \in Chans : /\ c \in interpMap' <=> c \in interpMap /\ c \notin Closes(f)
                           /\ c \in threadMap' <=> c \in threadMap /\ c \notin Closes(f)
                           /\ Lives(c)' <=> Lives(c)
      BY <1>5, <2>1 DEF Lives
    <2> QED
      BY <1>12, <2>1, <2>2 DEF IInv, MapInv
  <1>16. OpInv'
    BY <1>5, <1>10 DEF IInv, OpInv, ovars
  <1>17. QueueInv' /\ ServiceInv'
    <2>1. \A c \in Chans : Lives(c)' => Lives(c)
      BY <1>5 DEF Lives
    <2> QED
      BY <1>5, <1>8, <1>10, <2>1, ServiceKept DEF IInv, StackInv
  <1>18. WaitInv'
    <2>1. ~TopAt({"exit cancel"}) /\ ~TopAt({"exit unmap"})' /\ thread' # "gone"
      BY <1>5, <1>6, <1>14 DEF IInv, StackInv, ThreadInv, TopAt
    <2>2. \A p : Queued(p)' <=> Queued(p)
      BY <1>5 DEF Queued
    <2> QED
      BY <1>5, <1>9, <2>1, <2>2 DEF IInv, WaitInv
  <1>19. CloseInv'
    <2>1. \A p : Queued(p)' <=> Queued(p)
      BY <1>5 DEF Queued
    <2>2. ~Unfinished(o)'
      BY <1>7, <1>8, <1>9, <2>1 DEF Unfinished, Inner
    <2>3. \A p : p # o => (Unfinished(p)' <=> Unfinished(p))
      <3>1. \A k, p : p # o /\ Calls(k, p) => frames'[k] = frames[k]
        BY <1>7, <1>8, <1>6, <1>2 DEF Calls
      <3> QED
        BY <1>9, <2>1, <3>1 DEF Unfinished
    <2>4. ASSUME NEW p \in Owners, closing[p] # NULL, Lives(closing[p])
          PROVE  closing[p] \in interpMap' <=> Unfinished(p)'
      <3>2. closing[p] \in interpMap <=> Unfinished(p)
        BY <2>4 DEF IInv, CloseInv, MappedUntilClosed
      <3>3. CASE p = o
        <4>1. f.op.close = TRUE
          BY <1>7, <2>4, <3>3 DEF IInv, OpInv
        <4>2. closing[o] \in Closes(f)
          BY <1>11, <4>1
        <4> QED
          BY <1>5, <2>2, <3>3, <4>2
      <3>4. CASE p # o
        <4>1. closing[p] \notin Closes(f)
          BY <1>7, <1>11, <2>4, <3>4 DEF IInv, ClosingInv
        <4> QED
          BY <1>5, <2>3, <3>2, <3>4, <4>1
      <3> QED
        BY <3>3, <3>4
    <2> QED
      BY <1>5, <2>4 DEF CloseInv, MappedUntilClosed, Lives, ovars
  <1> QED
    BY <1>13, <1>14, <1>15, <1>16, <1>17, <1>18, <1>19 DEF IInv

LEMMA AnswerStep ==
  ASSUME IInv, Answer
  PROVE  IInv'
  <1>1. PICK o : o = Top.caller
    OBVIOUS
  <1>2. PICK n : n = Len(frames)
    OBVIOUS
  <1>3. /\ crashed = NULL /\ frames # <<>> /\ Top.at = "notify" /\ o # NULL
        /\ result' = [result EXCEPT ![o] = "ok"] /\ Return
        /\ UNCHANGED <<dead, interpMap, threadMap, interp, thread, ovars, queue, op, attached,
                       code, crashed>>
    BY <1>1 DEF Answer, TopIs
  <1>4. /\ Stack(frames) /\ Top = frames[n] /\ thread = "live" /\ OpAt(frames, n)
    BY <1>2, <1>3, TopFrame DEF IsOpFrame
  <1>5. /\ o \in Owners /\ op[o] # NULL /\ code[o] # "unset" /\ ~Queued(o)
        /\ \A j : Calls(j, o) <=> j = n
    <2>1. \A j : Calls(j, o) => j = n
      BY <1>1, <1>3, <1>4, OpFacts
    <2>2. Calls(n, o)
      BY <1>1, <1>4 DEF Calls
    <2> QED
      BY <1>1, <1>3, <1>4, <2>1, <2>2, OpFacts
  <1>6. PoppedOff(frames, frames')
    BY <1>3, <1>4, Popped DEF Return
  <1>7. /\ Stack(frames') /\ (frames' # <<>> => Top'.at \in Inner)
        /\ Len(frames') = n - 1
        /\ \A k : OpAt(frames, k)' => OpAt(frames, k) /\ frames'[k] = frames[k]
        /\ \A k : OpAt(frames, k) => k = n \/ (OpAt(frames, k)' /\ frames'[k] = frames[k])
    BY <1>2, <1>6 DEF PoppedOff, Top, OpAt
  <1>8. ~OpAt(frames, n)'
    <2>1. Len(frames) \in Nat
      BY <1>4, LenProperties DEF Stack
    <2> QED
      BY <1>2, <1>7, <2>1 DEF OpAt
  <1>9. \A k, p : Calls(k, p)' <=> Calls(k, p) /\ k # n
    BY <1>7, <1>8 DEF Calls
  <1>10. /\ result' \in [Owners -> {"none", "wait", "ok", "error"}]
         /\ result'[o] = "ok" /\ \A p \in Owners : p # o => result'[p] = result[p]
    BY <1>3, <1>5 DEF IInv, TypeOK
  <1>11. TypeOK'
    BY <1>3, <1>7, <1>10 DEF IInv, TypeOK, Stack, Frame, ovars
  <1>12. StackInv' /\ ClosingInv' /\ HomeInv' /\ CrashInv'
    <2>1. OuterInMethods(frames') /\ (frames' # <<>> => Top'.at \in {"method", "finish", "notify"})
      BY <1>7 DEF Stack, Inner
    <2> QED
      BY <1>3, <1>4, <2>1, OthersKept DEF ovars
  <1>13. MapInv'
    BY <1>3 DEF IInv, MapInv, Lives, ovars
  <1>14. OpInv'
    BY <1>3, <1>5, <1>10 DEF IInv, OpInv, ovars
  <1>15. QueueInv'
    <2> SUFFICES ASSUME NEW k \in 1 .. Len(queue), queue[k] # NULL PROVE Awaited(k)'
      BY <1>3 DEF QueueInv
    <2>1. PICK p : p = queue[k]
      OBVIOUS
    <2>2. Waiting(p, k)
      BY <2>1, QueueFacts
    <2>3. p # o
      BY <1>5, <2>1 DEF Queued
    <2> QED
      BY <1>3, <1>9, <1>10, <2>1, <2>2, <2>3 DEF Awaited, Waiting
  <1>16. ServiceInv'
    <2> SUFFICES ASSUME NEW k, OpAt(frames, k)' PROVE Serves(k)'
      BY DEF ServiceInv
    <2>1. PICK g : g = frames[k]
      OBVIOUS
    <2>2. OpAt(frames, k) /\ frames'[k] = g /\ k # n
      BY <1>7, <1>8, <2>1
    <2>3. /\ g.caller \in Owners \union {NULL}
          /\ g.caller # NULL =>
               /\ op[g.caller] = g.op /\ code[g.caller] # "unset"
               /\ \A j : Calls(j, g.caller) => j = k
          /\ Lives(g.op.chan) => g.caller # NULL /\ result[g.caller] = "wait"
      BY <2>1, <2>2, OpFacts
    <2>4. g.caller # o
      BY <1>5, <2>1, <2>2 DEF Calls
    <2>5. Lives(g.op.chan)' <=> Lives(g.op.chan)
      BY <1>3 DEF Lives
    <2> QED
      BY <1>3, <1>9, <1>10, <2>2, <2>3, <2>4, <2>5 DEF Serves
  <1>17. WaitInv'
    <2>1. ~TopAt({"exit cancel"}) /\ ~TopAt({"exit unmap"})' /\ thread' # "gone"
      BY <1>3, <1>4, <1>12 DEF IInv, StackInv, ThreadInv, TopAt
    <2>2. \A p : Queued(p)' <=> Queued(p)
      BY <1>3 DEF Queued
    <2>3. \A k, p : p # o => (Calls(k, p)' <=> Calls(k, p))
      BY <1>5, <1>9 DEF Calls
    <2> QED
      BY <1>10, <2>1, <2>2, <2>3 DEF IInv, WaitInv
  <1>18. CloseInv'
    <2>1. \A p : Queued(p)' <=> Queued(p)
      BY <1>3 DEF Queued
    <2>2. \A p : Unfinished(p)' <=> Unfinished(p)
      <3>1. \A k, p : Calls(k, p) /\ frames[k].at \in Inner => k # n
        BY <1>3, <1>4 DEF Inner
      <3>2. \A k, p : Calls(k, p)' => frames'[k] = frames[k]
        BY <1>7 DEF Calls
      <3> QED
        BY <1>9, <2>1, <3>1, <3>2 DEF Unfinished
    <2> QED
      BY <1>3, <2>2 DEF IInv, CloseInv, MappedUntilClosed, Lives, ovars
  <1> QED
    BY <1>11, <1>12, <1>13, <1>14, <1>15, <1>16, <1>17, <1>18 DEF IInv

LEMMA ForwardProcCrashesStep ==
  ASSUME IInv, ForwardProcCrashes
  PROVE  IInv'
  <1>1. PICK f : f = Top
    OBVIOUS
  <1>2. PICK c : c = f.op.chan
    OBVIOUS
  <1>3. /\ frames # <<>> /\ crashed' = c /\ UNCHANGED <<hvars, ovars, fvars>>
        /\ \/ f.at = "finish" /\ ~MayFinish(f)
           \/ f.at = "notify" /\ f.caller = NULL
    BY <1>1, <1>2 DEF ForwardProcCrashes, TopIs
  <1>4. PICK n : n = Len(frames)
    OBVIOUS
  <1>5. OpAt(frames, n) /\ f = frames[n]
    BY <1>1, <1>3, <1>4, TopFrame DEF IsOpFrame
  <1>6. /\ c \in Chans /\ f.op.close \in BOOLEAN
        /\ f.caller \in Owners \union {NULL}
        /\ f.caller # NULL => op[f.caller] = f.op /\ op[f.caller] # NULL
        /\ Lives(c) => f.caller # NULL
    BY <1>2, <1>5, OpFacts
  <1>7. ASSUME Lives(c) PROVE FALSE
    <2>1. f.at = "finish" /\ ~MayFinish(f) /\ f.caller # NULL
      BY <1>3, <1>6, <1>7
    <2>2. f.op.close = TRUE
      BY <1>6, <2>1 DEF MayFinish, Closes
    <2>3. PICK o : o = f.caller
      OBVIOUS
    <2>4. closing[o] = c /\ o \in Owners /\ c # NULL
      BY <1>2, <1>6, <2>1, <2>2, <2>3 DEF IInv, OpInv
    <2>5. Unfinished(o)
      BY <1>5, <2>1, <2>3 DEF Unfinished, Calls, Inner
    <2>6. c \in interpMap
      BY <1>7, <2>4, <2>5 DEF IInv, CloseInv, MappedUntilClosed
    <2>7. c \in threadMap /\ chan[c] # "freed"
      BY <1>6, <1>7, <2>6 DEF IInv, MapInv
    <2> QED
      BY <1>2, <2>1, <2>2, <2>6, <2>7 DEF MayFinish, Closes, Dangling
  <1> QED
    BY <1>3, <1>6, <1>7, CrashKept

-----------------------------------------------------------------------------
(***************************************************************************)
(* Cancellation, and the exit of the thread.                               *)
(***************************************************************************)
LEMMA CancelKept ==
  ASSUME IInv, NEW T \in SUBSET Chans, CancelOps(T), \A c \in T : ~Lives(c),
         Stack(frames'), OpsSame(frames, frames')
  PROVE  /\ TypeOK' /\ MapInv' /\ OpInv' /\ ClosingInv'
         /\ QueueInv' /\ ServiceInv' /\ CloseInv' /\ CrashInv'
         /\ crashed' = NULL
         /\ \A o \in Owners : result'[o] = "wait" => result[o] = "wait" /\ op[o].chan \notin T
         /\ \A o \in Owners : result'[o] = "wait" => (Queued(o)' <=> Queued(o))
  <1>1. PICK S : S = ToCancel(T)
    OBVIOUS
  <1>2. /\ crashed = NULL /\ Cancel(S)
        /\ UNCHANGED <<dead, interpMap, threadMap, interp, thread, ovars, op, crashed>>
    BY <1>1 DEF CancelOps
  <1>3. \A o : o \in S <=> o \in Owners /\ attached[o] /\ op[o].chan \in T
    BY <1>1 DEF ToCancel
  <1>4. /\ queue \in Seq(Owners \union {NULL}) /\ DOMAIN queue = 1 .. Len(queue)
        /\ Len(queue) \in Nat
    BY LenProperties DEF IInv, TypeOK
  <1>5. queue' = [k \in 1 .. Len(queue) |-> IF queue[k] \in S THEN NULL ELSE queue[k]]
    BY <1>2, <1>4 DEF Cancel, Detach
  <1>6. /\ queue' \in Seq(Owners \union {NULL}) /\ Len(queue') = Len(queue)
        /\ \A k \in 1 .. Len(queue) :
              queue'[k] = IF queue[k] \in S THEN NULL ELSE queue[k]
    <2>1. \A k \in 1 .. Len(queue) : queue[k] \in Owners \union {NULL}
      BY <1>4, ElementOfSeq
    <2> QED
      BY <1>4, <1>5, <2>1
  <1>7. /\ result' \in [Owners -> {"none", "wait", "ok", "error"}]
        /\ code' \in [Owners -> {"unset", "ok", "error"}]
        /\ attached' \in [Owners -> BOOLEAN]
        /\ \A o \in S : result'[o] = "error" /\ code'[o] = "error" /\ attached'[o] = FALSE
        /\ \A o \in Owners : o \notin S =>
              result'[o] = result[o] /\ code'[o] = code[o] /\ attached'[o] = attached[o]
    BY <1>2, <1>3 DEF IInv, TypeOK, Cancel
  <1>8. ASSUME NEW o \in S
        PROVE  o \in Owners /\ op[o] # NULL /\ op[o].chan \in T
    <2>1. attached[o] \in BOOLEAN
      BY <1>3, <1>8 DEF IInv, TypeOK
    <2> QED
      BY <1>3, <1>8, <2>1 DEF IInv, OpInv
  <1>9. \A o : o \notin S /\ o # NULL => (Queued(o)' <=> Queued(o))
    BY <1>6 DEF Queued
  <1>10. \A k, o : Calls(k, o)' <=> Calls(k, o)
    BY SameCalls DEF OpsSame
  <1>11. \A c : Lives(c)' <=> Lives(c)
    BY <1>2 DEF Lives
  <1>12. TypeOK'
    BY <1>2, <1>6, <1>7 DEF IInv, TypeOK, Stack, Frame, ovars
  <1>13. MapInv' /\ ClosingInv' /\ CrashInv'
    BY <1>2 DEF IInv, MapInv, ClosingInv, CrashInv, Lives, ovars
  <1>14. OpInv'
    BY <1>2, <1>7, <1>8 DEF IInv, OpInv, ovars
  <1>15. QueueInv'
    <2> SUFFICES ASSUME NEW k \in 1 .. Len(queue), queue'[k] # NULL PROVE Awaited(k)'
      BY <1>6 DEF QueueInv
    <2>1. PICK p : p = queue[k]
      OBVIOUS
    <2>2. p \notin S /\ queue'[k] = p /\ p # NULL
      BY <1>6, <2>1
    <2>3. Waiting(p, k)
      BY <2>1, <2>2, QueueFacts
    <2>4. \A j \in 1 .. Len(queue) : queue'[j] = p => queue[j] = p
      BY <1>6, <2>2
    <2> QED
      BY <1>6, <1>7, <1>10, <2>2, <2>3, <2>4 DEF Awaited, Waiting
  <1>16. ServiceInv'
    <2> SUFFICES ASSUME NEW k, OpAt(frames, k)' PROVE Serves(k)'
      BY DEF ServiceInv
    <2>1. PICK g : g = frames[k]
      OBVIOUS
    <2>2. OpAt(frames, k) /\ frames'[k].caller = g.caller /\ frames'[k].op = g.op
      BY <2>1 DEF OpsSame, OpsKept
    <2>3. /\ g.caller \in Owners \union {NULL}
          /\ g.caller # NULL =>
               /\ op[g.caller] = g.op /\ code[g.caller] # "unset"
               /\ \A j : Calls(j, g.caller) => j = k
          /\ Lives(g.op.chan) => g.caller # NULL /\ result[g.caller] = "wait"
      BY <2>1, <2>2, OpFacts
    <2>4. g.caller # NULL /\ Lives(g.op.chan) => g.caller \notin S
      BY <1>8, <2>3
    <2>5. g.caller # NULL => code'[g.caller] # "unset"
      BY <1>7, <2>3
    <2>6. Lives(g.op.chan) => g.caller # NULL /\ result'[g.caller] = "wait"
      BY <1>7, <2>3, <2>4
    <2> QED
      BY <1>2, <1>10, <1>11, <2>2, <2>3, <2>5, <2>6 DEF Serves
  <1>17. CloseInv'
    <2> SUFFICES ASSUME NEW p \in Owners PROVE MappedUntilClosed(p)'
      BY DEF CloseInv
    <2>1. closing' = closing /\ interpMap' = interpMap
      BY <1>2 DEF ovars
    <2>2. closing[p] # NULL /\ Lives(closing[p]) => p \notin S
      BY <1>8 DEF IInv, OpInv
    <2>3. p \notin S => (Unfinished(p)' <=> Unfinished(p))
      <3>1. \A k : Calls(k, p) => (frames'[k].at \in Inner <=> frames[k].at \in Inner)
        BY DEF OpsSame, Calls
      <3>2. p # NULL
        OBVIOUS
      <3> QED
        BY <1>9, <1>10, <3>1, <3>2 DEF Unfinished
    <2>4. MappedUntilClosed(p)
      BY DEF IInv, CloseInv
    <2> QED
      BY <1>11, <2>1, <2>2, <2>3, <2>4 DEF MappedUntilClosed
  <1>18. \A o \in Owners : result'[o] = "wait" =>
            /\ result[o] = "wait" /\ op[o].chan \notin T
            /\ Queued(o)' <=> Queued(o)
    <2> SUFFICES ASSUME NEW o \in Owners, result'[o] = "wait"
                 PROVE  /\ result[o] = "wait" /\ op[o].chan \notin T
                        /\ Queued(o)' <=> Queued(o)
      OBVIOUS
    <2>1. o \notin S
      BY <1>7
    <2>2. result[o] = "wait" /\ attached[o] = TRUE
      BY <1>7, <2>1 DEF IInv, OpInv
    <2>3. op[o].chan \notin T
      BY <1>3, <2>1, <2>2
    <2>4. o # NULL
      OBVIOUS
    <2> QED
      BY <1>9, <2>1, <2>2, <2>3, <2>4
  <1> QED
    BY <1>2, <1>12, <1>13, <1>14, <1>15, <1>16, <1>17, <1>18

LEMMA CancelForInterpStep ==
  ASSUME IInv, CancelForInterp
  PROVE  IInv'
  <1>1. PICK i : i = Top.interp
    OBVIOUS
  <1>2. /\ frames # <<>> /\ Top.at = "cancel" /\ Goto("unmap")
        /\ CancelOps(ChansOf(i))
        /\ UNCHANGED <<interpMap, interp, thread, ovars>>
    BY <1>1 DEF CancelForInterp, CancelOps, TopIs
  <1>3. /\ Stack(frames') /\ frames' # <<>> /\ OpsSame(frames, frames')
        /\ Top'.at = "unmap" /\ Top'.interp = i /\ i \in Interps
        /\ thread = "live" /\ interp[i] = "deleted"
    BY <1>1, <1>2, DeletionGoes
  <1>4. \A c \in ChansOf(i) : ~Lives(c)
    BY <1>3 DEF ChansOf, Lives
  <1>5. PICK T \in SUBSET Chans : T = ChansOf(i)
    BY DEF ChansOf
  <1>6. /\ TypeOK' /\ MapInv' /\ OpInv' /\ ClosingInv'
        /\ QueueInv' /\ ServiceInv' /\ CloseInv' /\ CrashInv'
        /\ \A o \in Owners : result'[o] = "wait" => result[o] = "wait"
        /\ \A o \in Owners : result'[o] = "wait" => (Queued(o)' <=> Queued(o))
    BY <1>2, <1>3, <1>4, <1>5, CancelKept
  <1>7. /\ ~TopAt({"exit cancel", "exit unmap"})'
        /\ DeleteInv' /\ PostInv'
        /\ \A o, c : Notified(o, c)' => inbox[o][c] # 0
    <2>1. interpMap' \intersect ChansOf(i) = {}
      BY <1>1, <1>2 DEF IInv, StackInv, DeleteInv, TopAt
    <2>2. interp'[i] = "deleted" /\ inbox' = inbox
      BY <1>2, <1>3 DEF ovars
    <2> QED
      BY <1>3, <2>1, <2>2 DEF TopAt, DeleteInv, PostInv, Notified, ChansOf
  <1>8. StackInv'
    BY <1>2, <1>3, <1>7, StackKept
  <1>9. WaitInv'
    <2>1. ~TopAt({"exit cancel"}) /\ ~TopAt({"exit unmap"})' /\ thread' # "gone"
      BY <1>2, <1>3, <1>8 DEF IInv, StackInv, ThreadInv, TopAt
    <2>2. \A k, o : Calls(k, o)' <=> Calls(k, o)
      BY <1>3, SameCalls DEF OpsSame
    <2> QED
      BY <1>6, <2>1, <2>2 DEF IInv, WaitInv
  <1>10. HomeInv'
    <2>1. \A c : Lives(c)' <=> Lives(c)
      BY <1>2 DEF Lives
    <2>2. \A o, c : Notified(o, c)' => Notified(o, c)
      BY <1>7 DEF Notified
    <2> QED
      BY <1>2, <2>1, <2>2 DEF IInv, HomeInv, ovars
  <1> QED
    BY <1>6, <1>8, <1>9, <1>10 DEF IInv

\* The scripts are over; what is in the frames below stays as it is.
LEMMA ExitThreadStep ==
  ASSUME IInv, ExitThread
  PROVE  IInv'
  <1>1. PICK f : f = [at |-> "exit cancel"]
    OBVIOUS
  <1>2. /\ ScriptRuns /\ thread' = "exiting" /\ frames' = Append(frames, f)
        /\ AbruptExit \/ \A i \in Interps : interp[i] = "gone"
        /\ UNCHANGED <<dead, interpMap, threadMap, interp, ovars, fvars, crashed>>
    BY <1>1 DEF ExitThread, Call
  <1>3. /\ thread = "live" /\ crashed = NULL /\ Stack(frames)
        /\ frames = <<>> \/ Last(frames).at \in Inner
    BY <1>2, ScriptFacts
  <1>4. f \in Frame /\ f.at = "exit cancel" /\ ~IsOpFrame(f)
    BY <1>1, NewFrames DEF IsOpFrame
  <1>5. PushedOn(frames, frames', f)
    BY <1>2, <1>3, <1>4, Pushed
  <1>6. Stack(frames') /\ frames' # <<>> /\ Top' = f /\ OpsSame(frames, frames')
    BY <1>4, <1>5 DEF PushedOn, Top
  <1>7. /\ TopAt({"exit cancel"})'
        /\ ~TopAt({"mark", "cancel", "unmap"})' /\ ~TopAt({"cancel", "unmap"})'
        /\ ~TopAt({"post"})' /\ ~TopAt({"exit unmap"})'
        /\ TopAt({"exit cancel", "exit unmap"})'
    BY <1>4, <1>6 DEF TopAt
  <1>8. \A c : ~Lives(c)'
    BY <1>2 DEF Lives
  <1>9. TypeOK'
    BY <1>2, <1>6 DEF IInv, TypeOK, Stack, Frame, ovars, fvars
  <1>10. StackInv'
    <2>1. OuterInMethods(frames)'
      BY <1>6 DEF Stack
    <2>2. DeleteInv' /\ PostInv'
      BY <1>7 DEF DeleteInv, PostInv
    <2>3. ThreadInv'
      BY <1>2, <1>7 DEF ThreadInv
    <2> QED
      BY <2>1, <2>2, <2>3 DEF StackInv
  <1>11. MapInv' /\ OpInv' /\ ClosingInv' /\ CrashInv'
    <2>1. MapInv'
      BY <1>2, <1>8 DEF IInv, MapInv
    <2>2. OpInv'
      BY <1>2 DEF IInv, OpInv, ovars, fvars
    <2>3. ClosingInv' /\ CrashInv'
      BY <1>2, <1>3 DEF IInv, ClosingInv, CrashInv, ovars
    <2> QED
      BY <2>1, <2>2, <2>3
  <1>12. QueueInv' /\ ServiceInv'
    <2>1. TypeOK /\ OuterInMethods(frames) /\ QueueInv /\ ServiceInv
      BY DEF IInv, StackInv
    <2>2. OpsKept(frames, frames') /\ UNCHANGED <<queue, op, result, code>>
      BY <1>2, <1>6 DEF OpsSame, fvars
    <2> QED
      BY <1>8, <2>1, <2>2, ServiceKept
  <1>13. WaitInv'
    BY <1>2, <1>7 DEF WaitInv
  <1>14. CloseInv' /\ HomeInv'
    BY <1>8 DEF CloseInv, MappedUntilClosed, HomeInv
  <1> QED
    BY <1>9, <1>10, <1>11, <1>12, <1>13, <1>14 DEF IInv

\* While the thread exits, the frame of the exit is on top.
LEMMA ExitingFacts ==
  ASSUME IInv, frames # <<>>, Top.at \in {"exit cancel", "exit unmap"}
  PROVE  /\ thread = "exiting" /\ Stack(frames)
         /\ ~IsOpFrame(Last(frames)) /\ Top = Last(frames)
         /\ \A c : ~Lives(c)
         /\ ~AbruptExit => \A i \in Interps : interp[i] = "gone"
  BY TopFrame DEF IInv, StackInv, ThreadInv, Lives, IsOpFrame

LEMMA CancelForThreadStep ==
  ASSUME IInv, CancelForThread
  PROVE  IInv'
  <1>1. /\ frames # <<>> /\ Top.at = "exit cancel" /\ Goto("exit unmap") /\ CancelOps(Chans)
        /\ UNCHANGED <<interpMap, interp, thread, ovars>>
    BY DEF CancelForThread, CancelOps, TopIs
  <1>2. /\ thread = "exiting" /\ Stack(frames)
        /\ ~IsOpFrame(Last(frames)) /\ Top = Last(frames)
        /\ \A c : ~Lives(c)
        /\ ~AbruptExit => \A i \in Interps : interp[i] = "gone"
    BY <1>1, ExitingFacts
  <1>3. Advanced(frames, frames', "exit unmap")
    <2>1. MayGo(Last(frames), "exit unmap")
      BY <1>1, <1>2 DEF MayGo
    <2> QED
      BY <1>1, <1>2, <2>1, Went DEF Goto
  <1>4. /\ Stack(frames') /\ frames' # <<>> /\ OpsSame(frames, frames')
        /\ Top'.at = "exit unmap"
    BY <1>2, <1>3 DEF Advanced, Top
  <1>5. /\ TypeOK' /\ MapInv' /\ OpInv' /\ ClosingInv'
        /\ QueueInv' /\ ServiceInv' /\ CloseInv' /\ CrashInv'
        /\ \A o \in Owners : result'[o] = "wait" => result[o] = "wait" /\ op[o].chan \notin Chans
    BY <1>1, <1>2, <1>4, CancelKept
  <1>6. \A c : ~Lives(c)'
    BY <1>1, <1>2 DEF Lives
  <1>7. \A o \in Owners : result'[o] # "wait"
    <2>1. \A o \in Owners : result[o] = "wait" => op[o] # NULL
      BY DEF IInv, OpInv
    <2>2. \A o \in Owners : op[o] # NULL => op[o].chan \in Chans
      BY DEF IInv, TypeOK, Ops
    <2> QED
      BY <1>5, <2>1, <2>2
  <1>8. StackInv'
    <2>1. OuterInMethods(frames') /\ DeleteInv' /\ PostInv'
      BY <1>4 DEF Stack, DeleteInv, PostInv, TopAt
    <2>2. ThreadInv'
      BY <1>1, <1>2, <1>4 DEF ThreadInv, TopAt
    <2> QED
      BY <2>1, <2>2 DEF StackInv
  <1>9. WaitInv' /\ HomeInv'
    BY <1>6, <1>7 DEF WaitInv, HomeInv
  <1> QED
    BY <1>5, <1>8, <1>9 DEF IInv

LEMMA UnmapThreadStep ==
  ASSUME IInv, UnmapThread
  PROVE  IInv'
  <1>1. /\ frames # <<>> /\ Top.at = "exit unmap" /\ frames' = <<>> /\ crashed = NULL
        /\ dead' = [c \in Chans |-> dead[c] \/ c \in threadMap]
        /\ threadMap' = {} /\ thread' = "gone" /\ queue' = <<>>
        /\ UNCHANGED <<interpMap, interp, ovars, op, result, attached, code, crashed>>
    BY DEF UnmapThread, TopIs
  <1>2. /\ thread = "exiting"
        /\ ~AbruptExit => \A i \in Interps : interp[i] = "gone"
    BY <1>1, ExitingFacts
  <1>3. frames' = <<>> /\ Len(frames') = 0 /\ frames' \in Seq(Frame)
    BY <1>1, EmptySeq
  <1>4. queue' \in Seq(Owners \union {NULL}) /\ Len(queue') = 0
    BY <1>1, EmptySeq
  <1>5. /\ \A k : ~OpAt(frames, k)'
        /\ \A c : ~Lives(c)'
    <2>1. \A k : ~OpAt(frames, k)'
      BY <1>3 DEF OpAt
    <2>2. \A c : ~Lives(c)'
      BY <1>1 DEF Lives
    <2> QED
      BY <2>1, <2>2
  <1>6. \A c \in Chans : dead'[c] \in BOOLEAN /\ (dead[c] = TRUE => dead'[c] = TRUE)
    BY <1>1 DEF IInv, TypeOK
  <1>7. TypeOK'
    BY <1>1, <1>3, <1>4, <1>6 DEF IInv, TypeOK, Frame, ovars
  <1>8. StackInv'
    <2>1. OuterInMethods(frames)'
      BY <1>3 DEF OuterInMethods
    <2>2. DeleteInv' /\ PostInv'
      BY <1>3 DEF DeleteInv, PostInv, TopAt
    <2>3. ThreadInv'
      BY <1>1, <1>2, <1>3 DEF ThreadInv, TopAt
    <2> QED
      BY <2>1, <2>2, <2>3 DEF StackInv
  <1>9. MapInv'
    BY <1>1, <1>5, <1>6 DEF IInv, MapInv, ovars
  <1>10. OpInv' /\ ClosingInv' /\ CrashInv'
    <2>1. OpInv'
      BY <1>1 DEF IInv, OpInv, ovars
    <2>2. ClosingInv' /\ CrashInv'
      BY <1>1 DEF IInv, ClosingInv, CrashInv, ovars
    <2> QED
      BY <2>1, <2>2
  <1>11. QueueInv' /\ ServiceInv'
    BY <1>4, <1>5 DEF QueueInv, ServiceInv
  <1>12. WaitInv'
    <2>1. TopAt({"exit unmap"})
      BY <1>1 DEF TopAt
    <2> QED
      BY <1>1, <2>1 DEF IInv, WaitInv
  <1>13. CloseInv' /\ HomeInv'
    BY <1>5 DEF CloseInv, MappedUntilClosed, HomeInv
  <1> QED
    BY <1>7, <1>8, <1>9, <1>10, <1>11, <1>12, <1>13 DEF IInv

\* What a deletion trips over has lost its handler.
LEMMA DeletionCrashesStep ==
  ASSUME IInv, DeletionCrashes
  PROVE  IInv'
  <1>1. frames # <<>> /\ UNCHANGED <<hvars, ovars, fvars>>
    BY DEF DeletionCrashes, TopIs
  <1>2. crashed' \in Chans /\ ~Lives(crashed')
    <2>1. CASE Top.at \in {"exit cancel", "exit unmap"}
      <3>1. \A c : ~Lives(c)
        BY <1>1, <2>1, ExitingFacts
      <3>2. \A o \in Owners : op[o].chan \in Chans => op[o].chan \in Chans
        OBVIOUS
      <3>3. threadMap \subseteq Chans
        BY DEF IInv, TypeOK
      <3> QED
        BY <2>1, <3>1, <3>3 DEF DeletionCrashes, TopIs, ToCancel
    <2>2. CASE Top.at = "cancel"
      <3>1. PICK o \in ToCancel(ChansOf(Top.interp)) : crashed' = op[o].chan
        BY <2>2 DEF DeletionCrashes, TopIs
      <3>2. op[o].chan \in ChansOf(Top.interp)
        BY <3>1 DEF ToCancel
      <3>3. interp[Top.interp] = "deleted"
        BY <1>1, <2>2 DEF IInv, StackInv, DeleteInv, TopAt
      <3> QED
        BY <3>1, <3>2, <3>3 DEF ChansOf, Lives
    <2>3. CASE Top.at = "unmap"
      <3>1. PICK c \in threadMap : Dangling(c) /\ crashed' = c
        BY <2>3 DEF DeletionCrashes, TopIs
      <3>2. c \in Chans
        BY DEF IInv, TypeOK
      <3> QED
        BY <3>1, <3>2 DEF Dangling, IInv, MapInv
    <2> QED
      BY <2>1, <2>2, <2>3 DEF DeletionCrashes, TopIs
  <1> QED
    BY <1>1, <1>2, CrashKept

-----------------------------------------------------------------------------
(***************************************************************************)
(* The owners.                                                             *)
(***************************************************************************)
\* Who waits for nothing has nothing in the queue and nothing in service.
LEMMA IdleOwner ==
  ASSUME IInv, NEW o \in Owners, op[o] = NULL
  PROVE  /\ result[o] = "none" /\ ~Queued(o) /\ ~Unfinished(o)
         /\ \A k : ~Calls(k, o)
  <1>1. result[o] = "none"
    BY DEF IInv, OpInv
  <1>2. ~Queued(o)
    <2> SUFFICES ASSUME NEW k \in 1 .. Len(queue), queue[k] = o PROVE FALSE
      BY DEF Queued
    <2>1. Waiting(o, k)
      BY QueueFacts
    <2> QED
      BY <1>1, <2>1 DEF Waiting
  <1>3. ASSUME NEW k, Calls(k, o) PROVE FALSE
    <2>1. PICK f : f = frames[k]
      OBVIOUS
    <2>2. f.caller = o /\ OpAt(frames, k)
      BY <1>3, <2>1 DEF Calls
    <2>3. f.caller # NULL => op[f.caller] # NULL
      BY <2>1, <2>2, OpFacts
    <2> QED
      BY <2>2, <2>3
  <1> QED
    BY <1>1, <1>2, <1>3 DEF Unfinished

\* A step of an owner that forwards nothing and is not answered.
LEMMA OwnerKept ==
  ASSUME IInv, UNCHANGED <<hvars, fvars>>, TypeOK', PostInv', MapInv', OpInv',
         ClosingInv', CloseInv', HomeInv', CrashInv'
  PROVE  IInv'
  <1>1. StackInv'
    BY DEF IInv, StackInv, OuterInMethods, ThreadInv, DeleteInv, TopAt, Top, hvars
  <1>2. QueueInv' /\ ServiceInv'
    BY DEF IInv, QueueInv, Awaited, ServiceInv, Serves, Calls, OpAt, Lives, hvars, fvars
  <1>3. WaitInv'
    BY DEF IInv, WaitInv, Queued, Calls, OpAt, TopAt, Top, hvars, fvars
  <1> QED
    BY <1>1, <1>2, <1>3 DEF IInv

\* The event of an operation has been queued.
QueuedFor(o) ==
    /\ op' \in [Owners -> Ops \union {NULL}]
    /\ result' \in [Owners -> {"none", "wait", "ok", "error"}]
    /\ attached' \in [Owners -> BOOLEAN]
    /\ code' \in [Owners -> {"unset", "ok", "error"}]
    /\ queue' \in Seq(Owners \union {NULL})
    /\ result'[o] = "wait" /\ attached'[o] = TRUE
    /\ \A p \in Owners : p # o =>
          /\ op'[p] = op[p] /\ result'[p] = result[p]
          /\ attached'[p] = attached[p] /\ code'[p] = code[p]
          /\ Queued(p)' <=> Queued(p)
    /\ \A k \in 1 .. Len(queue') : (k \in 1 .. Len(queue) /\ queue'[k] = queue[k])
                                   \/ (queue'[k] = o /\ k = Len(queue) + 1)
    /\ Len(queue) \in Nat
    /\ thread # "gone" => Queued(o)'

LEMMA ForwardedFacts ==
  ASSUME IInv, NEW o \in Owners, NEW c \in Chans, NEW close \in BOOLEAN,
         Forwarded(o, c, close)
  PROVE  QueuedFor(o) /\ op'[o] # NULL /\ op'[o].chan = c /\ op'[o].close = close
  <1>1. /\ op \in [Owners -> Ops \union {NULL}]
        /\ result \in [Owners -> {"none", "wait", "ok", "error"}]
        /\ attached \in [Owners -> BOOLEAN]
        /\ code \in [Owners -> {"unset", "ok", "error"}]
        /\ queue \in Seq(Owners \union {NULL})
    BY DEF IInv, TypeOK
  <1>2. PICK p : p = [chan |-> c, close |-> close]
    OBVIOUS
  <1>3. p \in Ops /\ p # NULL /\ p.chan = c /\ p.close = close
    BY <1>2 DEF Ops
  <1>4. /\ op' = [op EXCEPT ![o] = p]
        /\ result' = [result EXCEPT ![o] = "wait"]
        /\ attached' = [attached EXCEPT ![o] = TRUE]
        /\ code' = [code EXCEPT ![o] = "unset"]
        /\ queue' = IF thread = "gone" THEN queue ELSE Append(queue, o)
    BY <1>2 DEF Forwarded
  <1>5. /\ op' \in [Owners -> Ops \union {NULL}] /\ op'[o] = p
        /\ result' \in [Owners -> {"none", "wait", "ok", "error"}]
        /\ attached' \in [Owners -> BOOLEAN]
        /\ code' \in [Owners -> {"unset", "ok", "error"}]
        /\ result'[o] = "wait" /\ attached'[o] = TRUE
        /\ \A q \in Owners : q # o =>
              /\ op'[q] = op[q] /\ result'[q] = result[q]
              /\ attached'[q] = attached[q] /\ code'[q] = code[q]
    BY <1>1, <1>3, <1>4
  <1>6. Len(queue) \in Nat
    BY <1>1, LenProperties
  <1>7. \/ /\ thread = "gone" /\ queue' = queue
        \/ /\ queue' \in Seq(Owners \union {NULL}) /\ Len(queue') = Len(queue) + 1
           /\ \A k \in 1 .. Len(queue) : queue'[k] = queue[k]
           /\ queue'[Len(queue) + 1] = o
    <2>1. CASE thread = "gone"
      BY <1>4, <2>1
    <2>2. CASE thread # "gone"
      <3>1. o \in Owners \union {NULL} /\ queue' = Append(queue, o)
        BY <1>4, <2>2
      <3> QED
        BY <1>1, <3>1, PushFacts
    <2> QED
      BY <2>1, <2>2
  <1>8. \A k \in 1 .. Len(queue') : (k \in 1 .. Len(queue) /\ queue'[k] = queue[k])
                                    \/ (queue'[k] = o /\ k = Len(queue) + 1)
    BY <1>6, <1>7
  <1>9. \A k \in 1 .. Len(queue) : k \in 1 .. Len(queue') /\ queue'[k] = queue[k]
    BY <1>6, <1>7
  <1>10. \A q : q # o => (Queued(q)' <=> Queued(q))
    BY <1>8, <1>9 DEF Queued
  <1>11. thread # "gone" => Queued(o)'
    <2>1. thread # "gone" =>
              Len(queue) + 1 \in 1 .. Len(queue') /\ queue'[Len(queue) + 1] = o
      BY <1>6, <1>7
    <2> QED
      BY <2>1 DEF Queued
  <1>12. queue' \in Seq(Owners \union {NULL})
    BY <1>1, <1>7
  <1> QED
    BY <1>3, <1>5, <1>6, <1>8, <1>10, <1>11, <1>12 DEF QueuedFor

LEMMA ForwardedKept ==
  ASSUME IInv, NEW o \in Owners, NEW c \in Chans, op[o] = NULL, dead[c] = FALSE,
         QueuedFor(o), UNCHANGED <<hvars, inbox>>
  PROVE  StackInv' /\ QueueInv' /\ ServiceInv' /\ WaitInv'
  <1>1. /\ result[o] = "none" /\ ~Queued(o)
        /\ \A k : ~Calls(k, o)
    BY IdleOwner
  <1>2. \A k, p : Calls(k, p)' <=> Calls(k, p)
    BY DEF Calls, OpAt, hvars
  <1>3. StackInv'
    BY DEF IInv, StackInv, OuterInMethods, ThreadInv, DeleteInv, PostInv, TopAt, Top, Lives, hvars
  <1>4. QueueInv'
    <2> SUFFICES ASSUME NEW k \in 1 .. Len(queue'), queue'[k] # NULL PROVE Awaited(k)'
      BY DEF QueueInv
    <2>1. CASE k \in 1 .. Len(queue) /\ queue'[k] = queue[k]
      <3>1. PICK p : p = queue[k]
        OBVIOUS
      <3>2. p # o
        BY <1>1, <2>1, <3>1 DEF Queued
      <3>3. Waiting(p, k)
        BY <2>1, <3>1, QueueFacts
      <3>4. result'[p] = "wait" /\ \A j : ~Calls(j, p)'
        BY <1>2, <3>2, <3>3 DEF Waiting, QueuedFor
      <3>5. \A j \in 1 .. Len(queue') : queue'[j] = p => j = k
        BY <3>2, <3>3 DEF Waiting, QueuedFor
      <3> QED
        BY <2>1, <3>1, <3>4, <3>5 DEF Awaited
    <2>2. CASE queue'[k] = o /\ k = Len(queue) + 1
      <3>1. \A j \in 1 .. Len(queue) : queue[j] # o
        BY <1>1 DEF Queued
      <3>2. \A j \in 1 .. Len(queue') : queue'[j] = o => j = k
        BY <2>2, <3>1 DEF QueuedFor
      <3>3. result'[o] = "wait" /\ \A j : ~Calls(j, o)'
        BY <1>1, <1>2 DEF QueuedFor
      <3> QED
        BY <2>2, <3>2, <3>3 DEF Awaited
    <2> QED
      BY <2>1, <2>2 DEF QueuedFor
  <1>5. ServiceInv'
    <2> SUFFICES ASSUME NEW k, OpAt(frames, k) PROVE Serves(k)'
      BY DEF ServiceInv, hvars
    <2>1. PICK f : f = frames[k]
      OBVIOUS
    <2>2. /\ f.caller \in Owners \union {NULL}
          /\ f.caller # NULL =>
               /\ op[f.caller] = f.op /\ code[f.caller] # "unset"
               /\ \A j : Calls(j, f.caller) => j = k
          /\ Lives(f.op.chan) => f.caller # NULL /\ result[f.caller] = "wait"
      BY <2>1, OpFacts
    <2>3. f.caller # o
      BY <1>1, <2>1 DEF Calls
    <2>4. frames'[k] = f /\ \A d : Lives(d)' <=> Lives(d)
      BY <2>1 DEF Lives, hvars
    <2>5. f.caller # NULL => op'[f.caller] = f.op /\ code'[f.caller] # "unset"
      BY <2>2, <2>3 DEF QueuedFor
    <2>6. Lives(f.op.chan) => f.caller # NULL /\ result'[f.caller] = "wait"
      BY <2>2, <2>3 DEF QueuedFor
    <2> QED
      BY <1>2, <2>2, <2>4, <2>5, <2>6 DEF Serves
  <1>6. WaitInv'
    <2> SUFFICES ASSUME ~AbruptExit, NEW p \in Owners, result'[p] = "wait"
                 PROVE  /\ Queued(p)' \/ (\E k : Calls(k, p)') \/ TopAt({"exit cancel"})'
                        /\ ~TopAt({"exit unmap"})' /\ thread' # "gone"
      BY DEF WaitInv
    <2>1. CASE p = o
      <3>1. thread = "live"
        <4>1. thread # "live" => interp[InterpOf[c]] = "gone"
          BY DEF IInv, StackInv, ThreadInv
        <4>2. interp[InterpOf[c]] = "gone" => dead[c] = TRUE
          BY DEF IInv, MapInv
        <4> QED
          BY <4>1, <4>2
      <3>2. thread' = "live" /\ Queued(o)'
        BY <3>1 DEF QueuedFor, hvars
      <3>3. ~TopAt({"exit unmap"})'
        BY <1>3, <3>2 DEF StackInv, ThreadInv, TopAt
      <3> QED
        BY <2>1, <3>2, <3>3
    <2>2. CASE p # o
      <3>1. result[p] = "wait" /\ (Queued(p)' <=> Queued(p))
        BY <2>2 DEF QueuedFor
      <3>2. /\ TopAt({"exit cancel"})' <=> TopAt({"exit cancel"})
            /\ TopAt({"exit unmap"})' <=> TopAt({"exit unmap"})
            /\ thread' = thread
        BY DEF TopAt, Top, hvars
      <3> QED
        BY <1>2, <3>1, <3>2 DEF IInv, WaitInv
    <2> QED
      BY <2>1, <2>2
  <1> QED
    BY <1>3, <1>4, <1>5, <1>6

LEMMA OperationStep ==
  ASSUME IInv, NEW o \in Owners, NEW c \in Chans, Operation(o, c)
  PROVE  IInv'
  <1>1. /\ crashed = NULL /\ op[o] = NULL /\ closing[o] = NULL
        /\ dead[c] \in BOOLEAN
        /\ UNCHANGED <<hvars, ovars, crashed>>
    BY DEF Operation, OwnerRuns, Waits, IInv, TypeOK
  <1>2. CASE dead[c] = TRUE
    <2>1. UNCHANGED vars
      BY <1>1, <1>2 DEF Operation, ForwardOpToHandlerThread, vars
    <2> QED
      BY <2>1, Stutter
  <1>3. CASE dead[c] = FALSE
    <2>1. Forwarded(o, c, FALSE)
      BY <1>3 DEF Operation, ForwardOpToHandlerThread
    <2>2. QueuedFor(o) /\ op'[o] # NULL /\ op'[o].close = FALSE
      BY <2>1, ForwardedFacts
    <2>3. StackInv' /\ QueueInv' /\ ServiceInv' /\ WaitInv'
      BY <1>1, <1>3, <2>2, ForwardedKept DEF ovars
    <2>4. TypeOK'
      BY <1>1, <2>2 DEF IInv, TypeOK, QueuedFor, hvars, ovars
    <2>5. MapInv' /\ ClosingInv' /\ CrashInv'
      BY <1>1 DEF IInv, MapInv, ClosingInv, CrashInv, Lives, hvars, ovars
    <2>6. OpInv'
      BY <1>1, <2>2 DEF IInv, OpInv, QueuedFor, ovars
    <2>7. CloseInv'
      <3> SUFFICES ASSUME NEW p \in Owners, closing[p] # NULL PROVE MappedUntilClosed(p)'
        BY <1>1 DEF CloseInv, MappedUntilClosed, ovars
      <3>1. p # o /\ MappedUntilClosed(p)
        BY <1>1 DEF IInv, CloseInv
      <3>2. Queued(p)' <=> Queued(p)
        BY <2>2, <3>1 DEF QueuedFor
      <3> QED
        BY <1>1, <3>1, <3>2
           DEF MappedUntilClosed, Unfinished, Calls, OpAt, Lives, hvars, ovars
    <2>8. HomeInv'
      BY <1>1 DEF IInv, HomeInv, Notified, TopAt, Top, Lives, hvars, ovars
    <2> QED
      BY <2>3, <2>4, <2>5, <2>6, <2>7, <2>8 DEF IInv
  <1> QED
    BY <1>1, <1>2, <1>3

LEMMA ReflectCloseStep ==
  ASSUME IInv, NEW o \in Owners, NEW c \in Chans, ReflectClose(o, c)
  PROVE  IInv'
  <1>1. /\ crashed = NULL /\ op[o] = NULL /\ closing[o] = NULL /\ owner[c] = o
        /\ chan' = [chan EXCEPT ![c] = "closing"]
        /\ closing' = [closing EXCEPT ![o] = c]
        /\ owner' = [owner EXCEPT ![c] = NULL]
        /\ UNCHANGED <<hvars, inbox, moved, crashed>>
    BY DEF ReflectClose, OwnerRuns, Waits
  <1>2. /\ chan' \in [Chans -> {"open", "closing", "freed"}]
        /\ closing' \in [Owners -> Chans \union {NULL}]
        /\ owner' \in [Chans -> Owners \union {NULL}]
        /\ chan'[c] = "closing" /\ closing'[o] = c /\ owner'[c] = NULL
        /\ \A d \in Chans : d # c => chan'[d] = chan[d] /\ owner'[d] = owner[d]
        /\ \A p \in Owners : p # o => closing'[p] = closing[p]
        /\ dead[c] \in BOOLEAN
        /\ c # NULL /\ o # NULL
    BY <1>1 DEF IInv, TypeOK
  <1>3. /\ chan[c] = "open"
        /\ \A p \in Owners : closing[p] # c
    <2>1. chan[c] = "open"
      BY <1>1, <1>2 DEF IInv, ClosingInv
    <2> QED
      BY <1>2, <2>1 DEF IInv, ClosingInv
  <1>4. \A d : Lives(d)' <=> Lives(d)
    BY <1>1 DEF Lives, hvars
  <1>5. \A k, p : Calls(k, p)' <=> Calls(k, p)
    BY <1>1 DEF Calls, OpAt, hvars
  <1>6. MapInv'
    BY <1>1, <1>2, <1>4 DEF IInv, MapInv, hvars
  <1>7. ClosingInv'
    <2>1. \A p \in Owners : closing[p] # NULL => closing[p] \in Chans
      BY DEF IInv, TypeOK
    <2> QED
      BY <1>2, <1>3, <2>1 DEF IInv, ClosingInv
  <1>8. HomeInv'
    <2> SUFFICES ASSUME NEW d \in Chans, NEW p \in Owners,
                        d \notin moved, Lives(d), Notified(p, d)
                 PROVE  (chan'[d] = "open" /\ owner'[d] \in {p, NULL}) \/ closing'[p] = d
      BY <1>1, <1>4 DEF HomeInv, Notified, TopAt, Top, hvars
    <2>1. (chan[d] = "open" /\ owner[d] \in {p, NULL}) \/ closing[p] = d
      BY DEF IInv, HomeInv
    <2>2. CASE d = c
      BY <1>1, <1>2, <1>3, <2>1, <2>2
    <2>3. CASE d # c
      BY <1>1, <1>2, <2>1, <2>3
    <2> QED
      BY <2>2, <2>3
  <1>9. CrashInv'
    BY <1>1 DEF CrashInv
  \* The closing of the other owners.
  <1>10. ASSUME NEW p \in Owners, p # o, Queued(p)' <=> Queued(p)
         PROVE  MappedUntilClosed(p)'
    <2>1. MappedUntilClosed(p) /\ closing'[p] = closing[p]
      BY <1>2, <1>10 DEF IInv, CloseInv
    <2>2. Unfinished(p)' <=> Unfinished(p)
      BY <1>1, <1>5, <1>10 DEF Unfinished, hvars
    <2> QED
      BY <1>1, <1>4, <2>1, <2>2 DEF MappedUntilClosed, hvars
  <1>11. CASE dead[c] = TRUE
    <2>1. UNCHANGED fvars
      BY <1>11 DEF ReflectClose, ForwardOpToHandlerThread
    <2>2. TypeOK'
      BY <1>1, <1>2, <2>1 DEF IInv, TypeOK, hvars, fvars
    <2>3. OpInv'
      BY <1>1, <1>2, <2>1 DEF IInv, OpInv, fvars
    <2>4. PostInv'
      BY <1>1 DEF IInv, StackInv, PostInv, TopAt, Top, Lives, hvars
    <2>5. CloseInv'
      <3>1. ~Unfinished(o)'
        BY <1>1, <2>1, IdleOwner DEF Unfinished, Queued, Calls, OpAt, hvars, fvars
      <3>2. Lives(c) => c \notin interpMap
        BY <1>11 DEF IInv, MapInv
      <3>3. MappedUntilClosed(o)'
        BY <1>1, <1>2, <1>4, <3>1, <3>2 DEF MappedUntilClosed, hvars
      <3>4. \A p : Queued(p)' <=> Queued(p)
        BY <2>1 DEF Queued, fvars
      <3> QED
        BY <1>10, <3>3, <3>4 DEF CloseInv
    <2> QED
      BY <1>1, <1>6, <1>7, <1>8, <1>9, <2>1, <2>2, <2>3, <2>4, <2>5, OwnerKept
  <1>12. CASE dead[c] = FALSE
    <2>1. Forwarded(o, c, TRUE)
      BY <1>12 DEF ReflectClose, ForwardOpToHandlerThread
    <2>2. QueuedFor(o) /\ op'[o] # NULL /\ op'[o].chan = c /\ op'[o].close = TRUE
      BY <2>1, ForwardedFacts
    <2>3. StackInv' /\ QueueInv' /\ ServiceInv' /\ WaitInv'
      BY <1>1, <1>12, <2>2, ForwardedKept
    <2>4. TypeOK'
      BY <1>1, <1>2, <2>2 DEF IInv, TypeOK, QueuedFor, hvars
    <2>5. OpInv'
      BY <1>1, <1>2, <2>2 DEF IInv, OpInv, QueuedFor
    <2>6. CloseInv'
      <3>1. Lives(c) => c \in interpMap /\ Queued(o)'
        BY <1>12, <2>2 DEF IInv, MapInv, QueuedFor, Lives
      <3>2. MappedUntilClosed(o)'
        BY <1>1, <1>2, <1>4, <3>1 DEF MappedUntilClosed, Unfinished, hvars
      <3>3. \A p \in Owners : p # o => (Queued(p)' <=> Queued(p))
        BY <2>2 DEF QueuedFor
      <3> QED
        BY <1>10, <3>2, <3>3 DEF CloseInv
    <2> QED
      BY <1>6, <1>7, <1>8, <1>9, <2>3, <2>4, <2>5, <2>6 DEF IInv
  <1> QED
    BY <1>2, <1>11, <1>12

\* The frames of the owner that returns are left without a caller.
LEMMA CallerGone ==
  ASSUME IInv, NEW o \in Owners, ForwardReturns(o)
  PROVE  /\ Stack(frames') /\ Len(frames') = Len(frames)
         /\ \A k : OpAt(frames, k)' <=> OpAt(frames, k)
         /\ \A k \in 1 .. Len(frames) : frames'[k].at = frames[k].at
         /\ \A k : OpAt(frames, k) =>
               /\ frames'[k].op = frames[k].op
               /\ frames'[k].caller = IF frames[k].caller = o THEN NULL ELSE frames[k].caller
         /\ \A k \in 1 .. Len(frames) : ~OpAt(frames, k) => frames'[k] = frames[k]
  <1>1. Stack(frames) /\ DOMAIN frames = 1 .. Len(frames) /\ Len(frames) \in Nat
    <2>1. Stack(frames) /\ DOMAIN frames = 1 .. Len(frames)
      BY TypeStack DEF IInv, StackInv
    <2> QED
      BY <2>1, LenProperties DEF Stack
  <1>2. frames' = [k \in 1 .. Len(frames) |->
                     IF IsOpFrame(frames[k]) /\ frames[k].caller = o
                     THEN [frames[k] EXCEPT !.caller = NULL] ELSE frames[k]]
    BY <1>1 DEF ForwardReturns
  <1>3. ASSUME NEW k \in 1 .. Len(frames)
        PROVE  /\ frames'[k] \in Frame /\ frames'[k].at = frames[k].at
               /\ IsOpFrame(frames'[k]) <=> IsOpFrame(frames[k])
               /\ IsOpFrame(frames[k]) =>
                    /\ frames'[k].op = frames[k].op
                    /\ frames'[k].caller =
                         IF frames[k].caller = o THEN NULL ELSE frames[k].caller
               /\ ~IsOpFrame(frames[k]) => frames'[k] = frames[k]
    <2>1. PICK f : f = frames[k]
      OBVIOUS
    <2>2. f \in Frame
      BY <1>1, <2>1, ElementOfSeq DEF Stack
    <2>3. CASE IsOpFrame(f) /\ f.caller = o
      <3>1. f \in OpFrames
        BY <2>2, <2>3, FrameKinds
      <3>2. PICK g : g = [f EXCEPT !.caller = NULL]
        OBVIOUS
      <3>3. /\ g \in OpFrames /\ g.at = f.at /\ g.op = f.op /\ g.caller = NULL
        BY <3>1, <3>2 DEF OpFrames
      <3>4. frames'[k] = g
        BY <1>2, <2>1, <2>3, <3>2
      <3> QED
        BY <2>1, <2>3, <3>3, <3>4 DEF Frame, IsOpFrame
    <2>4. CASE ~(IsOpFrame(f) /\ f.caller = o)
      <3>1. frames'[k] = f
        BY <1>2, <2>1, <2>4
      <3> QED
        BY <2>1, <2>2, <2>4, <3>1
    <2> QED
      BY <2>3, <2>4
  <1>4. frames' \in Seq(Frame) /\ Len(frames') = Len(frames)
    <2>1. DOMAIN frames' = 1 .. Len(frames) /\ frames' \in [1 .. Len(frames) -> Frame]
      BY <1>2, <1>3
    <2> QED
      BY <1>1, <2>1
  <1>5. OuterInMethods(frames')
    BY <1>1, <1>3, <1>4 DEF Stack, OuterInMethods
  <1>6. \A k : OpAt(frames, k)' <=> OpAt(frames, k)
    BY <1>3, <1>4 DEF OpAt
  <1> QED
    BY <1>3, <1>4, <1>5, <1>6 DEF Stack, OpAt

LEMMA ForwardReturnsStep ==
  ASSUME IInv, NEW o \in Owners, ForwardReturns(o)
  PROVE  IInv'
  <1>1. /\ crashed = NULL /\ op[o] # NULL /\ result[o] # "wait"
        /\ op' = [op EXCEPT ![o] = NULL]
        /\ result' = [result EXCEPT ![o] = "none"]
        /\ attached' = [attached EXCEPT ![o] = FALSE]
        /\ code' = [code EXCEPT ![o] = "unset"]
        /\ UNCHANGED <<dead, interpMap, threadMap, interp, thread, ovars, queue, crashed>>
    BY DEF ForwardReturns, Waits
  <1>2. /\ Stack(frames') /\ Len(frames') = Len(frames)
        /\ \A k : OpAt(frames, k)' <=> OpAt(frames, k)
        /\ \A k \in 1 .. Len(frames) : frames'[k].at = frames[k].at
        /\ \A k : OpAt(frames, k) =>
               /\ frames'[k].op = frames[k].op
               /\ frames'[k].caller = IF frames[k].caller = o THEN NULL ELSE frames[k].caller
        /\ \A k \in 1 .. Len(frames) : ~OpAt(frames, k) => frames'[k] = frames[k]
    BY CallerGone
  <1>3. /\ op' \in [Owners -> Ops \union {NULL}]
        /\ result' \in [Owners -> {"none", "wait", "ok", "error"}]
        /\ attached' \in [Owners -> BOOLEAN]
        /\ code' \in [Owners -> {"unset", "ok", "error"}]
        /\ op'[o] = NULL /\ result'[o] = "none" /\ attached'[o] = FALSE
        /\ \A p \in Owners : p # o =>
              /\ op'[p] = op[p] /\ result'[p] = result[p]
              /\ attached'[p] = attached[p] /\ code'[p] = code[p]
    BY <1>1 DEF IInv, TypeOK
  <1>4. /\ \A k, p : p # o /\ p # NULL => (Calls(k, p)' <=> Calls(k, p))
        /\ \A k : ~Calls(k, o)'
    BY <1>2 DEF Calls
  <1>5. /\ \A c : Lives(c)' <=> Lives(c)
        /\ \A p : Queued(p)' <=> Queued(p)
    BY <1>1 DEF Lives, Queued
  <1>6. ~Queued(o)
    <2> SUFFICES ASSUME NEW k \in 1 .. Len(queue), queue[k] = o PROVE FALSE
      BY DEF Queued
    <2>1. Waiting(o, k)
      BY QueueFacts
    <2> QED
      BY <1>1, <2>1 DEF Waiting
  \* The top of the stack stays where it is.
  <1>7. /\ frames' # <<>> <=> frames # <<>>
        /\ frames # <<>> =>
             /\ Top'.at = Top.at
             /\ Top.at \in {"mark", "cancel", "unmap", "post"} => Top' = Top
    <2>1. frames \in Seq(Frame) /\ frames' \in Seq(Frame)
      BY <1>2 DEF IInv, TypeOK, Stack, Frame
    <2>2. frames' # <<>> <=> frames # <<>>
      BY <1>2, <2>1, EmptySeq
    <2>3. ASSUME frames # <<>>
          PROVE  /\ Top'.at = Top.at
                 /\ Top.at \in {"mark", "cancel", "unmap", "post"} => Top' = Top
      <3>1. PICK n : n = Len(frames)
        OBVIOUS
      <3>2. Top = frames[n] /\ Top' = frames'[n] /\ n \in 1 .. Len(frames)
        BY <1>2, <2>1, <2>2, <2>3, <3>1, LastFrame DEF Top
      <3>3. Top.at \in {"mark", "cancel", "unmap", "post"} => ~OpAt(frames, n)
        BY <3>2 DEF OpAt, IsOpFrame
      <3> QED
        BY <1>2, <3>2, <3>3
    <2> QED
      BY <2>2, <2>3
  <1>8. TypeOK'
    BY <1>1, <1>2, <1>3 DEF IInv, TypeOK, Stack, Frame, ovars
  <1>9. StackInv'
    <2>1. OuterInMethods(frames)'
      BY <1>2 DEF Stack
    <2>2. ThreadInv'
      <3>1. \A ats : TopAt(ats)' <=> TopAt(ats)
        BY <1>7 DEF TopAt
      <3>2. frames = <<>> => frames' = <<>>
        BY <1>7
      <3> QED
        BY <1>1, <1>2, <3>1, <3>2 DEF IInv, StackInv, ThreadInv
    <2>3. DeleteInv'
      BY <1>1, <1>7 DEF IInv, StackInv, DeleteInv, TopAt
    <2>4. PostInv'
      BY <1>1, <1>5, <1>7 DEF IInv, StackInv, PostInv, TopAt, ovars
    <2> QED
      BY <2>1, <2>2, <2>3, <2>4 DEF StackInv
  <1>10. MapInv' /\ ClosingInv' /\ CrashInv'
    BY <1>1 DEF IInv, MapInv, ClosingInv, CrashInv, Lives, ovars
  <1>11. OpInv'
    BY <1>1, <1>3 DEF IInv, OpInv, ovars
  <1>12. QueueInv'
    <2> SUFFICES ASSUME NEW k \in 1 .. Len(queue), queue[k] # NULL PROVE Awaited(k)'
      BY <1>1 DEF QueueInv
    <2>1. PICK p : p = queue[k]
      OBVIOUS
    <2>2. p # o /\ Waiting(p, k)
      BY <1>6, <2>1, QueueFacts DEF Queued
    <2> QED
      BY <1>1, <1>3, <1>4, <2>1, <2>2 DEF Waiting, Awaited
  <1>13. ServiceInv'
    <2> SUFFICES ASSUME NEW k, OpAt(frames, k) PROVE Serves(k)'
      BY <1>2 DEF ServiceInv
    <2>1. PICK f : f = frames[k]
      OBVIOUS
    <2>2. /\ f.caller \in Owners \union {NULL}
          /\ f.caller # NULL =>
               /\ op[f.caller] = f.op /\ code[f.caller] # "unset"
               /\ \A j : Calls(j, f.caller) => j = k
          /\ Lives(f.op.chan) => f.caller # NULL /\ result[f.caller] = "wait"
      BY <2>1, OpFacts
    <2>3. PICK g : g = frames'[k]
      OBVIOUS
    <2>4. g.op = f.op /\ g.caller = IF f.caller = o THEN NULL ELSE f.caller
      BY <1>2, <2>1, <2>3
    <2>5. ASSUME g.caller # NULL
          PROVE  /\ op'[g.caller] = g.op /\ code'[g.caller] # "unset"
                 /\ \A j : Calls(j, g.caller)' => j = k
      <3>1. g.caller = f.caller /\ f.caller # o /\ f.caller # NULL
        BY <2>4, <2>5
      <3> QED
        BY <1>3, <1>4, <2>2, <2>4, <3>1
    <2>6. Lives(g.op.chan) => g.caller # NULL /\ result'[g.caller] = "wait"
      BY <1>1, <1>3, <2>2, <2>4
    <2> QED
      BY <1>5, <2>3, <2>5, <2>6 DEF Serves, Calls
  <1>14. WaitInv'
    <2> SUFFICES ASSUME ~AbruptExit, NEW p \in Owners, result'[p] = "wait"
                 PROVE  /\ Queued(p)' \/ (\E k : Calls(k, p)') \/ TopAt({"exit cancel"})'
                        /\ ~TopAt({"exit unmap"})' /\ thread' # "gone"
      BY DEF WaitInv
    <2>1. p # o /\ p # NULL /\ result[p] = "wait"
      BY <1>3
    <2>2. \A ats : TopAt(ats)' <=> TopAt(ats)
      BY <1>7 DEF TopAt
    <2> QED
      BY <1>1, <1>4, <1>5, <2>1, <2>2 DEF IInv, WaitInv
  <1>15. CloseInv'
    <2> SUFFICES ASSUME NEW p \in Owners, closing[p] # NULL, Lives(closing[p])
                 PROVE  closing[p] \in interpMap <=> Unfinished(p)'
      BY <1>1, <1>5 DEF CloseInv, MappedUntilClosed, ovars
    <2>1. closing[p] \in interpMap <=> Unfinished(p)
      BY DEF IInv, CloseInv, MappedUntilClosed
    <2>2. CASE p = o
      <3>1. ~Unfinished(o)'
        BY <1>4, <1>5, <1>6 DEF Unfinished
      <3>2. op[o].chan = closing[o]
        BY <1>1, <2>2 DEF IInv, OpInv
      <3>3. ASSUME NEW k, Calls(k, o) PROVE FALSE
        <4>1. PICK f : f = frames[k]
          OBVIOUS
        <4>2. f.caller = o /\ OpAt(frames, k)
          BY <3>3, <4>1 DEF Calls
        <4>3. o # NULL
          OBVIOUS
        <4>4. op[o] = f.op /\ (Lives(f.op.chan) => result[o] = "wait")
          BY <4>1, <4>2, <4>3, OpFacts
        <4> QED
          BY <1>1, <2>2, <3>2, <4>4
      <3> QED
        BY <1>6, <2>1, <2>2, <3>1, <3>3 DEF Unfinished
    <2>3. CASE p # o
      <3>1. p # NULL
        OBVIOUS
      <3>2. \A k : Calls(k, p) => frames'[k].at = frames[k].at
        BY <1>2 DEF Calls, OpAt
      <3> QED
        BY <1>4, <1>5, <2>1, <2>3, <3>1, <3>2 DEF Unfinished
    <2> QED
      BY <2>2, <2>3
  <1>16. HomeInv'
    <2>1. \A p, c : Notified(p, c)' => Notified(p, c)
      BY <1>1, <1>7 DEF Notified, TopAt, ovars
    <2> QED
      BY <1>1, <1>5, <2>1 DEF IInv, HomeInv, ovars
  <1> QED
    BY <1>8, <1>9, <1>10, <1>11, <1>12, <1>13, <1>14, <1>15, <1>16 DEF IInv

\* The channel has left the maps, if its interpreter still lives.
LEMMA CloseReturnsStep ==
  ASSUME IInv, NEW o \in Owners, CloseReturns(o)
  PROVE  IInv'
  <1>1. PICK c : c = closing[o]
    OBVIOUS
  <1>2. /\ crashed = NULL /\ c # NULL /\ op[o] = NULL
        /\ inbox' = [inbox EXCEPT ![o][c] = 0]
        /\ chan' = [chan EXCEPT ![c] = "freed"]
        /\ closing' = [closing EXCEPT ![o] = NULL]
        /\ UNCHANGED <<owner, moved, hvars, fvars, crashed>>
    BY <1>1 DEF CloseReturns, Waits, Squash
  <1>3. /\ c \in Chans /\ chan[c] = "closing" /\ owner[c] = NULL
        /\ \A p \in Owners : closing[p] = c => p = o
    <2>1. c \in Chans
      BY <1>1, <1>2 DEF IInv, TypeOK
    <2> QED
      BY <1>1, <1>2, <2>1 DEF IInv, ClosingInv
  <1>4. /\ chan' \in [Chans -> {"open", "closing", "freed"}]
        /\ closing' \in [Owners -> Chans \union {NULL}]
        /\ closing'[o] = NULL
        /\ \A d \in Chans : d # c => chan'[d] = chan[d]
        /\ \A p \in Owners : p # o => closing'[p] = closing[p]
    BY <1>2, <1>3 DEF IInv, TypeOK
  <1>5. /\ inbox' \in [Owners -> [Chans -> 0 .. MaxPosts]] /\ inbox'[o][c] = 0
        /\ \A p \in Owners, d \in Chans : p # o \/ d # c => inbox'[p][d] = inbox[p][d]
    <2>1. inbox \in [Owners -> [Chans -> 0 .. MaxPosts]] /\ 0 \in 0 .. MaxPosts
      BY DEF IInv, TypeOK
    <2> QED
      BY <1>2, <1>3, <2>1
  <1>6. \A d : Lives(d)' <=> Lives(d)
    BY <1>2 DEF Lives, hvars
  <1>7. Lives(c) => c \notin interpMap
    <2>1. ~Unfinished(o)
      BY <1>2, IdleOwner
    <2> QED
      BY <1>1, <1>2, <2>1 DEF IInv, CloseInv, MappedUntilClosed
  <1>8. TopAt({"post"}) =>
            /\ Lives(Top.chan) /\ Top.chan \in interpMap /\ Top.chan # c
            /\ Top.chan \in Chans /\ Top.to \in Owners \union {NULL}
            /\ Top.to # NULL => inbox[Top.to][Top.chan] < MaxPosts
    <2>1. TopAt({"post"}) => Top \in Frame /\ Top.at = "post"
      BY TopFrame DEF TopAt
    <2>2. TopAt({"post"}) => Top.chan \in Chans /\ Top.to \in Owners \union {NULL}
      BY <2>1, FrameKinds
    <2> QED
      BY <1>7, <2>2 DEF IInv, StackInv, PostInv
  <1>9. (TopAt({"post"})' <=> TopAt({"post"})) /\ Top' = Top
    BY <1>2 DEF TopAt, Top, hvars
  <1>10. TypeOK'
    BY <1>2, <1>4, <1>5 DEF IInv, TypeOK, hvars, fvars
  <1>11. PostInv'
    BY <1>2, <1>5, <1>6, <1>8, <1>9 DEF PostInv, hvars
  <1>12. MapInv'
    <2>1. UNCHANGED <<dead, interpMap, threadMap, interp>>
      BY <1>2 DEF hvars
    <2>2. \A d \in Chans : Lives(d) /\ d \in interpMap => chan'[d] # "freed"
      BY <1>4, <1>7 DEF IInv, MapInv
    <2> QED
      BY <1>6, <2>1, <2>2 DEF IInv, MapInv
  <1>13. OpInv'
    BY <1>2, <1>4 DEF IInv, OpInv, fvars
  <1>14. ClosingInv'
    <2>1. \A p \in Owners : closing[p] # NULL => closing[p] \in Chans
      BY DEF IInv, TypeOK
    <2>2. \A p \in Owners : p # o => closing[p] # c
      BY <1>3
    <2>3. \A d \in Chans : owner'[d] # NULL => chan'[d] = "open"
      BY <1>2, <1>3, <1>4 DEF IInv, ClosingInv
    <2> QED
      BY <1>4, <2>1, <2>2, <2>3 DEF IInv, ClosingInv
  <1>15. CloseInv'
    <2> SUFFICES ASSUME NEW p \in Owners, p # o PROVE MappedUntilClosed(p)'
      BY <1>4 DEF CloseInv, MappedUntilClosed
    <2>1. MappedUntilClosed(p) /\ closing'[p] = closing[p]
      BY <1>4 DEF IInv, CloseInv
    <2>2. Unfinished(p)' <=> Unfinished(p)
      BY <1>2 DEF Unfinished, Queued, Calls, OpAt, hvars, fvars
    <2> QED
      BY <1>2, <1>6, <2>1, <2>2 DEF MappedUntilClosed, hvars
  <1>16. HomeInv'
    <2> SUFFICES ASSUME NEW d \in Chans, NEW p \in Owners,
                        d \notin moved, Lives(d), Notified(p, d)'
                 PROVE  (chan'[d] = "open" /\ owner[d] \in {p, NULL}) \/ closing'[p] = d
      BY <1>2, <1>6 DEF HomeInv
    <2>1. p # o \/ d # c
      BY <1>5, <1>8, <1>9 DEF Notified, TopAt
    <2>2. Notified(p, d)
      BY <1>5, <1>9, <2>1 DEF Notified
    <2>3. (chan[d] = "open" /\ owner[d] \in {p, NULL}) \/ closing[p] = d
      BY <2>2 DEF IInv, HomeInv
    <2>4. CASE d = c
      BY <1>3, <2>1, <2>3, <2>4
    <2>5. CASE d # c
      BY <1>1, <1>4, <2>3, <2>5
    <2> QED
      BY <2>4, <2>5
  <1>17. CrashInv'
    BY <1>2 DEF CrashInv
  <1> QED
    BY <1>2, <1>10, <1>11, <1>12, <1>13, <1>14, <1>15, <1>16, <1>17, OwnerKept

\* An event finds its channel, if that has stayed with its owner.
LEMMA ReflectEventRunStep ==
  ASSUME IInv, NEW o \in Owners, NEW c \in Chans, ReflectEventRun(o, c)
  PROVE  IInv'
  <1>1. /\ crashed = NULL /\ closing[o] = NULL /\ inbox[o][c] > 0
        /\ inbox' = [inbox EXCEPT ![o][c] = @ - 1]
        /\ crashed' = IF Dangling(c) THEN c ELSE NULL
        /\ UNCHANGED <<owner, chan, closing, moved, hvars, fvars>>
    BY DEF ReflectEventRun, OwnerRuns
  <1>2. /\ inbox' \in [Owners -> [Chans -> 0 .. MaxPosts]] /\ inbox'[o][c] < inbox[o][c]
        /\ inbox[o][c] # 0 /\ inbox[o][c] \in 0 .. MaxPosts
        /\ \A p \in Owners, d \in Chans : p # o \/ d # c => inbox'[p][d] = inbox[p][d]
    <2>1. PICK n : n = inbox[o][c] - 1
      OBVIOUS
    <2>2. /\ inbox \in [Owners -> [Chans -> 0 .. MaxPosts]]
          /\ inbox' = [inbox EXCEPT ![o][c] = n]
      BY <1>1, <2>1 DEF IInv, TypeOK
    <2>3. inbox[o][c] \in 0 .. MaxPosts
      BY <2>2
    <2>4. n \in 0 .. MaxPosts /\ n < inbox[o][c]
      BY <1>1, <2>1, <2>3
    <2> QED
      BY <1>1, <2>2, <2>3, <2>4
  <1>3. \A d : Lives(d)' <=> Lives(d)
    BY <1>1 DEF Lives, hvars
  <1>4. (\A ats : TopAt(ats)' <=> TopAt(ats)) /\ Top' = Top
    BY <1>1 DEF TopAt, Top, hvars
  <1>5. \A p \in Owners, d \in Chans : Notified(p, d)' => Notified(p, d)
    BY <1>2, <1>4 DEF Notified
  <1>6. TypeOK'
    BY <1>1, <1>2 DEF IInv, TypeOK, hvars, fvars
  <1>7. PostInv'
    <2> SUFFICES ASSUME TopAt({"post"}), Top.to # NULL
                 PROVE  inbox'[Top.to][Top.chan] < MaxPosts
      BY <1>1, <1>3, <1>4 DEF IInv, StackInv, PostInv, hvars
    <2>1. Top.to \in Owners /\ Top.chan \in Chans
      BY TopFrame, FrameKinds DEF TopAt
    <2>2. inbox[Top.to][Top.chan] < MaxPosts
      BY DEF IInv, StackInv, PostInv
    <2>3. CASE Top.to = o /\ Top.chan = c
      <3>1. inbox'[o][c] \in 0 .. MaxPosts
        BY <1>2
      <3> QED
        BY <1>2, <2>2, <2>3, <3>1
    <2>4. CASE Top.to # o \/ Top.chan # c
      BY <1>2, <2>1, <2>2, <2>4
    <2> QED
      BY <2>3, <2>4
  <1>8. MapInv' /\ OpInv' /\ ClosingInv'
    BY <1>1 DEF IInv, MapInv, OpInv, ClosingInv, Lives, hvars, fvars
  <1>9. CloseInv'
    BY <1>1 DEF IInv, CloseInv, MappedUntilClosed, Unfinished, Queued, Calls, OpAt, Lives, hvars, fvars
  <1>10. HomeInv'
    BY <1>1, <1>3, <1>5 DEF IInv, HomeInv
  <1>11. CrashInv'
    <2>1. Notified(o, c)
      BY <1>2 DEF Notified
    <2>2. c \notin moved /\ Lives(c) => chan[c] = "open"
      BY <1>1, <2>1 DEF IInv, HomeInv
    <2> QED
      BY <1>1, <1>3, <2>2 DEF CrashInv, Dangling
  <1> QED
    BY <1>1, <1>6, <1>7, <1>8, <1>9, <1>10, <1>11, OwnerKept

LEMMA CutChannelStep ==
  ASSUME IInv, NEW o \in Owners, NEW c \in Chans, CutChannel(o, c)
  PROVE  IInv'
  <1>1. /\ crashed = NULL /\ owner[c] = o
        /\ owner' = [owner EXCEPT ![c] = NULL]
        /\ UNCHANGED <<chan, closing, inbox, moved, hvars, fvars, crashed>>
    BY DEF CutChannel, OwnerRuns
  <1>2. /\ owner' \in [Chans -> Owners \union {NULL}]
        /\ owner'[c] = NULL /\ \A d \in Chans : d # c => owner'[d] = owner[d]
    BY <1>1 DEF IInv, TypeOK
  <1>3. TypeOK'
    BY <1>1, <1>2 DEF IInv, TypeOK, hvars, fvars
  <1>4. PostInv'
    BY <1>1 DEF IInv, StackInv, PostInv, TopAt, Top, Lives, hvars
  <1>5. MapInv' /\ OpInv' /\ CrashInv'
    BY <1>1 DEF IInv, MapInv, OpInv, CrashInv, Lives, hvars, fvars
  <1>6. ClosingInv'
    BY <1>1, <1>2 DEF IInv, ClosingInv
  <1>7. CloseInv'
    BY <1>1 DEF IInv, CloseInv, MappedUntilClosed, Unfinished, Queued, Calls, OpAt, Lives, hvars, fvars
  <1>8. HomeInv'
    <2>1. \A p, d : Notified(p, d)' <=> Notified(p, d)
      BY <1>1 DEF Notified, TopAt, Top, hvars
    <2>2. \A d : Lives(d)' <=> Lives(d)
      BY <1>1 DEF Lives, hvars
    <2>3. \A d \in Chans : owner'[d] = owner[d] \/ owner'[d] = NULL
      BY <1>2
    <2> QED
      BY <1>1, <2>1, <2>2, <2>3 DEF IInv, HomeInv
  <1> QED
    BY <1>1, <1>3, <1>4, <1>5, <1>6, <1>7, <1>8, OwnerKept

LEMMA SpliceChannelStep ==
  ASSUME IInv, NEW o \in Owners, NEW c \in Chans, SpliceChannel(o, c)
  PROVE  IInv'
  <1>1. /\ crashed = NULL /\ owner[c] = NULL /\ chan[c] = "open"
        /\ owner' = [owner EXCEPT ![c] = o]
        /\ moved' = moved \union {c}
        /\ UNCHANGED <<chan, closing, inbox, hvars, fvars, crashed>>
    BY DEF SpliceChannel, OwnerRuns
  <1>2. /\ owner' \in [Chans -> Owners \union {NULL}]
        /\ \A d \in Chans : d # c => owner'[d] = owner[d]
    BY <1>1 DEF IInv, TypeOK
  <1>3. TypeOK'
    BY <1>1, <1>2 DEF IInv, TypeOK, hvars, fvars
  <1>4. PostInv'
    BY <1>1 DEF IInv, StackInv, PostInv, TopAt, Top, Lives, hvars
  <1>5. MapInv' /\ OpInv' /\ CrashInv'
    BY <1>1 DEF IInv, MapInv, OpInv, CrashInv, Lives, hvars, fvars
  <1>6. ClosingInv'
    BY <1>1, <1>2 DEF IInv, ClosingInv
  <1>7. CloseInv'
    BY <1>1 DEF IInv, CloseInv, MappedUntilClosed, Unfinished, Queued, Calls, OpAt, Lives, hvars, fvars
  <1>8. HomeInv'
    <2>1. \A p, d : Notified(p, d)' <=> Notified(p, d)
      BY <1>1 DEF Notified, TopAt, Top, hvars
    <2>2. \A d : Lives(d)' <=> Lives(d)
      BY <1>1 DEF Lives, hvars
    <2>3. \A d \in Chans : d \notin moved' => d \notin moved /\ owner'[d] = owner[d]
      BY <1>1, <1>2
    <2> QED
      BY <1>1, <2>1, <2>2, <2>3 DEF IInv, HomeInv
  <1> QED
    BY <1>1, <1>3, <1>4, <1>5, <1>6, <1>7, <1>8, OwnerKept

-----------------------------------------------------------------------------
(***************************************************************************)
(* The theorems.                                                           *)
(***************************************************************************)
LEMMA NextIInv == IInv /\ [Next]_vars => IInv'
  <1> SUFFICES ASSUME IInv, [Next]_vars PROVE IInv'
    OBVIOUS
  <1>1. ASSUME NEW o \in Owners, NEW c \in Chans,
               \/ Operation(o, c) \/ ReflectClose(o, c) \/ ReflectEventRun(o, c)
               \/ CutChannel(o, c) \/ SpliceChannel(o, c)
        PROVE  IInv'
    BY <1>1, OperationStep, ReflectCloseStep, ReflectEventRunStep, CutChannelStep,
       SpliceChannelStep
  <1>2. ASSUME NEW o \in Owners, OwnerStep(o) PROVE IInv'
    BY <1>2, ForwardReturnsStep, CloseReturnsStep DEF OwnerStep
  <1>3. CASE ForwardProc
    BY <1>3, IgnoredStep, ServedStep
  <1>4. CASE MethodReturns
    BY <1>4, MethodReturnsStep
  <1>5. CASE MethodFinishes \/ Answer \/ ForwardProcCrashes
    BY <1>5, MethodFinishesStep, AnswerStep, ForwardProcCrashesStep
  <1>6. CASE MarkDead \/ CancelForInterp \/ UnmapInterp
    BY <1>6, MarkDeadStep, CancelForInterpStep, UnmapInterpStep
  <1>7. CASE CancelForThread \/ UnmapThread \/ DeletionCrashes \/ QueueReflectEvent
    BY <1>7, CancelForThreadStep, UnmapThreadStep, DeletionCrashesStep,
       QueueReflectEventStep
  <1>8. ASSUME NEW i \in Interps, DeleteInterp(i) PROVE IInv'
    BY <1>8, DeleteInterpStep
  <1>9. ASSUME NEW c \in Chans, PostEvent(c) PROVE IInv'
    BY <1>9, PostEventStep
  <1>10. CASE ExitThread
    BY <1>10, ExitThreadStep
  <1>11. CASE UNCHANGED vars
    BY <1>11, Stutter
  <1> QED
    BY <1>1, <1>2, <1>3, <1>4, <1>5, <1>6, <1>7, <1>8, <1>9, <1>10, <1>11
       DEF Next, HandlerStep

(* The invariant above holds in every behaviour of the two sides, also of  *)
(* a thread that exits and leaves its interpreters behind.                 *)
THEOREM Invariance == Spec => []IInv
  BY InitIInv, NextIInv, PTL DEF Spec

(* Channels, operations, maps and the C stack of the handler thread keep   *)
(* their types whatever the two threads do, the crashes included.          *)
THEOREM TypeCorrect == Spec => []TypeOK
  <1>1. IInv => TypeOK
    BY DEF IInv
  <1> QED
    BY <1>1, Invariance, PTL

(* If the handler thread has deleted its interpreters when it exits, a     *)
(* caller that waits has its event in the queue or in service and can be   *)
(* found through its result, until the exit has cancelled what is pending; *)
(* and one that is woken finds how its operation ended.                    *)
THEOREM CallersAreAnswered ==
  ASSUME ~AbruptExit
  PROVE  Spec => []NobodyForgotten
  <1>1. IInv => NobodyForgotten
    <2> SUFFICES ASSUME IInv, NEW o \in Owners
                 PROVE  /\ result[o] = "wait" =>
                             attached[o] /\ (EventLives(o) \/ TopIs("exit cancel"))
                        /\ result[o] \in {"ok", "error"} => code[o] # "unset"
      BY DEF NobodyForgotten
    <2>1. result[o] = "wait" => attached[o]
      BY DEF IInv, OpInv
    <2>2. result[o] \in {"ok", "error"} => code[o] # "unset"
      BY DEF IInv, OpInv
    <2>3. EventLives(o) <=> Queued(o) \/ \E k : Calls(k, o)
      BY InServiceFacts, QueuedFacts DEF EventLives, IInv, StackInv
    <2>4. TopAt({"exit cancel"}) => TopIs("exit cancel")
      BY DEF TopAt, TopIs
    <2>5. result[o] = "wait" => EventLives(o) \/ TopIs("exit cancel")
      BY <2>3, <2>4 DEF IInv, WaitInv
    <2> QED
      BY <2>1, <2>2, <2>5
  <1> QED
    BY <1>1, Invariance, PTL

(* However the handler thread exits: freed memory is used only for a       *)
(* channel that has changed its owner, or whose interpreter or thread is   *)
(* no longer alive.                                                        *)
THEOREM NoFreedMemoryWhileServed == Spec => []CrashInv
  <1>1. IInv => CrashInv
    BY DEF IInv
  <1> QED
    BY <1>1, Invariance, PTL

(* If the handler thread has deleted its interpreters when it exits,       *)
(* freed memory of a channel, an operation or an event is used only for a  *)
(* channel that has changed its owner, or whose interpreter is deleted.    *)
THEOREM NoFreedMemoryAtHome ==
  ASSUME ~AbruptExit
  PROVE  Spec => []SafeAtHome
  <1>1. IInv => SafeAtHome
    <2> SUFFICES ASSUME IInv, crashed # NULL, interp[InterpOf[crashed]] = "live"
                 PROVE  crashed \in moved
      BY DEF SafeAtHome
    <2>1. crashed \in Chans
      BY DEF IInv, TypeOK
    <2>2. thread = "live"
      <3>1. InterpOf[crashed] \in Interps /\ thread \in {"live", "exiting", "gone"}
        BY <2>1 DEF IInv, TypeOK
      <3> QED
        BY <3>1 DEF IInv, StackInv, ThreadInv
    <2> QED
      BY <2>2 DEF IInv, CrashInv, Lives
  <1> QED
    BY <1>1, Invariance, PTL
=============================================================================
