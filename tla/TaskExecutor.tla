---------------------------- MODULE TaskExecutor ----------------------------
(***************************************************************************)
(* What a thread pool promises to its callers, with no threads, lock or    *)
(* condition variable in sight: an accepted task is started exactly once,  *)
(* tasks are started in the order they were accepted, and the pool is      *)
(* gone only when every accepted task has ended.                           *)
(***************************************************************************)
EXTENDS Naturals, Sequences, Functions

CONSTANT Tasks     \* the tasks that callers may hand to the pool

VARIABLES
    accepted,      \* the tasks accepted so far, in order
    started,       \* the tasks given to some thread so far, in order
    ended,         \* the set of tasks that have returned
    gone           \* the pool has been destroyed

vars == <<accepted, started, ended, gone>>

Init ==
    /\ accepted = <<>>
    /\ started = <<>>
    /\ ended = {}
    /\ gone = FALSE

Accept(k) ==
    /\ ~gone
    /\ k \notin Range(accepted)
    /\ accepted' = Append(accepted, k)
    /\ UNCHANGED <<started, ended, gone>>

Start ==
    /\ ~gone
    /\ Len(started) < Len(accepted)
    /\ started' = Append(started, accepted[Len(started) + 1])
    /\ UNCHANGED <<accepted, ended, gone>>

End(k) ==
    /\ ~gone
    /\ k \in Range(started) \ ended
    /\ ended' = ended \cup {k}
    /\ UNCHANGED <<accepted, started, gone>>

Destroy ==
    /\ ~gone
    /\ ended = Range(accepted)
    /\ gone' = TRUE
    /\ UNCHANGED <<accepted, started, ended>>

Next ==
    \/ \E k \in Tasks : Accept(k) \/ End(k)
    \/ Start
    \/ Destroy

Spec == Init /\ [][Next]_vars
=============================================================================
