------------------------------ MODULE Dispatch ------------------------------
(***************************************************************************)
(* What the event queue of a thread promises its callers, without a list   *)
(* and without pointers: an event that has been queued waits until it is   *)
(* started or dropped; the one started is never outranked by another that  *)
(* waits; a started event ends by being handled, and is gone, or by being  *)
(* given back, and waits again.  Running events nest.                      *)
(***************************************************************************)
EXTENDS Naturals, SequencesExt

CONSTANTS Events, MaxPosts, MaxDepth

VARIABLES
    pending,    \* queued and not in service
    running,    \* in service, outermost first
    kind, born, clock

vars == <<pending, running, kind, born, clock>>

Positions == {"TAIL", "HEAD", "MARK"}

Init ==
    /\ pending = {} /\ running = <<>>
    /\ kind = [e \in Events |-> "TAIL"]
    /\ born = [e \in Events |-> 0]
    /\ clock = 0

(***************************************************************************)
(* f is to be serviced before e.  Nothing is promised between an event     *)
(* pushed at the head and a marked one.                                    *)
(***************************************************************************)
Outranks(f, e) ==
    \/ kind[e] = "TAIL" /\ (kind[f] # "TAIL" \/ born[f] < born[e])
    \/ kind[e] = "MARK" /\ kind[f] = "MARK" /\ born[f] < born[e]
    \/ kind[e] = "HEAD" /\ kind[f] = "HEAD" /\ born[f] > born[e]

Post(e, pos) ==
    /\ e \notin pending \union ToSet(running)
    /\ clock < MaxPosts
    /\ pending' = pending \union {e}
    /\ clock' = clock + 1
    /\ kind' = [kind EXCEPT ![e] = pos]
    /\ born' = [born EXCEPT ![e] = clock + 1]
    /\ UNCHANGED running

Drop(e) ==
    /\ e \in pending
    /\ pending' = pending \ {e}
    /\ UNCHANGED <<running, kind, born, clock>>

Start(e) ==
    /\ Len(running) < MaxDepth
    /\ e \in pending
    /\ \A f \in pending : ~Outranks(f, e)
    /\ pending' = pending \ {e}
    /\ running' = Append(running, e)
    /\ UNCHANGED <<kind, born, clock>>

Handled ==
    /\ running # <<>>
    /\ running' = Front(running)
    /\ UNCHANGED <<pending, kind, born, clock>>

GivenBack ==
    /\ running # <<>>
    /\ pending' = pending \union {Last(running)}
    /\ running' = Front(running)
    /\ UNCHANGED <<kind, born, clock>>

\* Given back, and the next one started instead.  An event that outranks it
\* and still waits has been passed over before, so it is not behind the one
\* given back.
PassedOver(e) ==
    /\ running # <<>>
    /\ e \in pending
    /\ \A f \in pending : Outranks(f, e) => ~Outranks(Last(running), f)
    /\ pending' = (pending \ {e}) \union {Last(running)}
    /\ running' = Append(Front(running), e)
    /\ UNCHANGED <<kind, born, clock>>

Next ==
    \/ \E e \in Events, pos \in Positions : Post(e, pos)
    \/ \E e \in Events : Drop(e) \/ Start(e) \/ PassedOver(e)
    \/ Handled \/ GivenBack

Spec == Init /\ [][Next]_vars
=============================================================================
