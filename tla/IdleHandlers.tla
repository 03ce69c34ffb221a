---------------------------- MODULE IdleHandlers ----------------------------
(***************************************************************************)
(* The idle handlers of a thread (generic/tclTimer.c): a list with a       *)
(* pointer to its end, run by passes that nest when a handler enters the   *)
(* event loop, and changed by the handlers that a pass runs.               *)
(***************************************************************************)
EXTENDS Integers, SequencesExt, Lists

CONSTANTS
    Keys,           \* what tells handlers apart to Tcl_CancelIdleCall: the
                    \*   proc and its clientData
    MaxIdle,        \* bound: handlers registered
    MaxIdleDepth    \* bound: nested passes

ASSUME IdleAssumption == MaxIdle \in Nat /\ MaxIdleDepth \in Nat

VARIABLES
    idleList,       \* from idleList on, as [id, key, generation]
    lastIdle,       \* lastIdlePtr: the id of a handler, or 0 for NULL
    idleGeneration,
    idlePasses,     \* frames of TclServiceIdle and TclDoOneIdle, outermost first
    registered,     \* history: calls of Tcl_DoWhenIdle
    idleFate        \* history: what became of each handler

idleVars == <<idleList, lastIdle, idleGeneration, idlePasses, registered, idleFate>>

IdleIds == 1 .. MaxIdle

IdleTypeOK ==
    /\ idleList \in Seq([id : IdleIds, key : Keys, generation : Nat])
    /\ lastIdle \in 0 .. MaxIdle
    /\ idleGeneration \in Nat
    /\ idlePasses \in Seq([fn : {"ServiceIdle", "DoOneIdle"}, old : Nat,
                           newest : 0 .. MaxIdle, running : 0 .. MaxIdle])
    /\ registered \in 0 .. MaxIdle
    /\ idleFate \in [IdleIds -> {"none", "set", "run", "cancelled"}]

IdleInit ==
    /\ idleList = <<>> /\ lastIdle = 0 /\ idleGeneration = 0
    /\ idlePasses = <<>>
    /\ registered = 0 /\ idleFate = [i \in IdleIds |-> "none"]

idlePass == Last(idlePasses)
InIdlePass == idlePasses # <<>>
IdleProgramRuns == InIdlePass => idlePass.running # 0

-----------------------------------------------------------------------------
(***************************************************************************)
(* Tcl_DoWhenIdle links the new handler behind *lastIdlePtr, whatever that *)
(* points to: a handler in the middle of the list loses its successors,    *)
(* and one that has been freed takes the new handler with it.              *)
(***************************************************************************)
Linked(h) ==
    IF lastIdle = 0 THEN <<h>>
    ELSE IF \E p \in 1 .. Len(idleList) : idleList[p].id = lastIdle
    THEN LET p == CHOOSE p \in 1 .. Len(idleList) : idleList[p].id = lastIdle
         IN Append(SubSeq(idleList, 1, p), h)
    ELSE idleList

DoWhenIdle(key) ==
    /\ IdleProgramRuns /\ registered < MaxIdle
    /\ registered' = registered + 1
    /\ idleList' = Linked([id |-> registered + 1, key |-> key,
                           generation |-> idleGeneration])
    /\ lastIdle' = registered + 1
    /\ idleFate' = [idleFate EXCEPT ![registered + 1] = "set"]
    /\ UNCHANGED <<idleGeneration, idlePasses>>

(***************************************************************************)
(* Tcl_CancelIdleCall removes every handler with the key.  lastIdlePtr     *)
(* moves only if the end of the list is removed, to what is then the last. *)
(***************************************************************************)
LastOf(list) == IF list = <<>> THEN 0 ELSE list[Len(list)].id

LastKept(list) == lastIdle
LastAfterCancel(list) == LastOf(list)

CancelIdleCall(key) ==
    /\ IdleProgramRuns
    /\ LET kept == Unlinked(idleList, {h \in ToSet(idleList) : h.key = key}) IN
        /\ idleList' = kept
        /\ lastIdle' = IF idleList # <<>> /\ Last(idleList).key = key
                       THEN LastAfterCancel(kept) ELSE lastIdle
    /\ idleFate' = [i \in IdleIds |->
                    IF \E p \in 1 .. Len(idleList) :
                            idleList[p].id = i /\ idleList[p].key = key
                    THEN "cancelled" ELSE idleFate[i]]
    /\ UNCHANGED <<idleGeneration, idlePasses, registered>>

-----------------------------------------------------------------------------
(***************************************************************************)
(* TclServiceIdle: every handler of the old generation is taken off the    *)
(* list before it is run, and those of newer ones end the pass.            *)
(***************************************************************************)
LastWhenTakenKept == lastIdle
LastWhenTaken == IF Len(idleList) = 1 THEN 0 ELSE lastIdle

TakeFirst ==
    /\ idleList' = Tail(idleList)
    /\ lastIdle' = LastWhenTaken
    /\ idleFate' = [idleFate EXCEPT ![idleList[1].id] = "run"]

GenerationBack == idleGeneration - 1
NextGeneration == idleGeneration + 1

ServiceIdle ==
    /\ IdleProgramRuns /\ Len(idlePasses) < MaxIdleDepth
    /\ idleList # <<>>
    /\ idleGeneration' = NextGeneration
    /\ idlePasses' = Append(idlePasses,
            [fn |-> "ServiceIdle", old |-> idleGeneration,
             newest |-> registered, running |-> idleList[1].id])
    /\ TakeFirst
    /\ UNCHANGED registered

\* TclDoOneIdle: the first handler alone, whatever its generation.
DoOneIdle ==
    /\ IdleProgramRuns /\ Len(idlePasses) < MaxIdleDepth
    /\ idleList # <<>>
    /\ idlePasses' = Append(idlePasses,
            [fn |-> "DoOneIdle", old |-> idleGeneration,
             newest |-> registered, running |-> idleList[1].id])
    /\ TakeFirst
    /\ UNCHANGED <<idleGeneration, registered>>

IdleHandlerReturns ==
    /\ InIdlePass /\ idlePass.running # 0
    /\ idlePasses' = [idlePasses EXCEPT ![Len(idlePasses)].running = 0]
    /\ UNCHANGED <<idleList, lastIdle, idleGeneration, registered, idleFate>>

MoreOfSame == idleList # <<>> /\ idleList[1].generation = idlePass.old
MoreOld == idleList # <<>> /\ idleList[1].generation <= idlePass.old

NextHandler ==
    /\ InIdlePass /\ idlePass.running = 0 /\ idlePass.fn = "ServiceIdle" /\ MoreOld
    /\ idlePasses' = [idlePasses EXCEPT ![Len(idlePasses)].running = idleList[1].id]
    /\ TakeFirst
    /\ UNCHANGED <<idleGeneration, registered>>

IdlePassEnds ==
    /\ InIdlePass /\ idlePass.running = 0
    /\ idlePass.fn = "ServiceIdle" => ~MoreOld
    /\ idlePasses' = Front(idlePasses)
    /\ UNCHANGED <<idleList, lastIdle, idleGeneration, registered, idleFate>>

-----------------------------------------------------------------------------
IdleNext ==
    \/ \E key \in Keys : DoWhenIdle(key) \/ CancelIdleCall(key)
    \/ ServiceIdle \/ DoOneIdle
    \/ IdleHandlerReturns \/ NextHandler \/ IdlePassEnds

IdleSpec == IdleInit /\ [][IdleNext]_idleVars

\* Handlers return, and the program goes on calling the event loop, which
\* runs idle handlers when there is nothing else to do.
IdleFairSpec ==
    /\ IdleSpec
    /\ SF_idleVars(IdleHandlerReturns)
    /\ WF_idleVars(NextHandler) /\ WF_idleVars(IdlePassEnds)
    /\ SF_idleVars(~InIdlePass /\ ServiceIdle)

-----------------------------------------------------------------------------
(***************************************************************************)
(* Exactly the handlers that were registered, have not run and were not    *)
(* cancelled are in the list, in the order of registration and once each:  *)
(* none is lost by a cancellation inside a pass, none runs twice; and      *)
(* lastIdlePtr is the end of the list whenever the program may register a  *)
(* handler, so that the next one is linked behind all the others.          *)
(***************************************************************************)
IdleNoneLostNoneTwice ==
    /\ {idleList[i].id : i \in 1 .. Len(idleList)} =
            {id \in IdleIds : idleFate[id] = "set"}
    /\ \A i, j \in 1 .. Len(idleList) : i < j => idleList[i].id < idleList[j].id
    /\ lastIdle = LastOf(idleList)

(***************************************************************************)
(* TclServiceIdle "will invoke all idle handlers that are present at the   *)
(* time the call is invoked", and those only ("new handlers can get added  *)
(* to the list ... we don't want to process them during this pass"), also  *)
(* when nested passes advance the generation under it.                     *)
(***************************************************************************)
IdlePassComplete ==
    /\ [][NextHandler => idleList[1].id <= idlePass.newest]_idleVars
    /\ [][IdlePassEnds /\ idlePass.fn = "ServiceIdle" =>
            \A i \in 1 .. Len(idleList) : idleList[i].id > idlePass.newest]_idleVars

(***************************************************************************)
(* "Proc will eventually be called" (Tcl_DoWhenIdle), unless cancelled.    *)
(***************************************************************************)
IdleRun == \A id \in IdleIds : idleFate[id] = "set" ~> idleFate[id] # "set"
=============================================================================
