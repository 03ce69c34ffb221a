----------------------------- MODULE MCNotifier -----------------------------
(* Notifier for TLC: a file event, a timer event and a thread's event. *)
EXTENDS Notifier

CONSTANTS f, t, m

\* The history of EventQueue decides nothing here, nor do the flags of a call
\* that is about to return.
Decisive(c) ==
    [c EXCEPT !.flags = IF c.pc \in {"done", "oneIdle", "async"} THEN {} ELSE @]
Visible == <<queue, last, marker, delim, roundFinished, busy, stack, walk,
             sampling, sampleEv, clock, [i \in 1 .. Len(calls) |-> Decisive(calls[i])],
             mode, idle, ready, alerted, alerting, asyncReady, roundOpen>>
=============================================================================
