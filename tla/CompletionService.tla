------------------------- MODULE CompletionService -------------------------
(***************************************************************************)
(* What a completion thread promises the rest of its process: whatever the *)
(* adapter completes is handled, once, in the order of completion, for as  *)
(* long as the process lives.  A failure of the library may hold up what   *)
(* is pending, but only until the adapter completes something else.        *)
(* Nothing is said here of completion channels, of arming or of polling;   *)
(* CqThread implements this module with them.                              *)
(***************************************************************************)
EXTENDS Integers, Sequences

CONSTANT Kind      \* the kinds of work request: "send" and "recv"

VARIABLES
    pending,       \* completions not handled yet, oldest first
    served,        \* completions handled, in order
    stopped,       \* the process has exited
    failures,      \* failures of the library so far
    stalled        \* one of them holds up what is pending

serviceVars == <<pending, served, stopped, failures, stalled>>

Init ==
    /\ pending = <<>>
    /\ served = <<>>
    /\ stopped = FALSE
    /\ failures = 0
    /\ stalled = FALSE

\* The adapter completes a work request, which ends a stall.
Complete(k) ==
    /\ ~stopped
    /\ pending' = Append(pending, k)
    /\ stalled' = FALSE
    /\ UNCHANGED <<served, stopped, failures>>

\* The oldest completion is handled.
Serve ==
    /\ ~stopped
    /\ ~stalled
    /\ pending # <<>>
    /\ served' = Append(served, Head(pending))
    /\ pending' = Tail(pending)
    /\ UNCHANGED <<stopped, failures, stalled>>

\* A failure, which may stall the service; nothing else does.
Fail ==
    /\ ~stopped
    /\ failures' = failures + 1
    /\ stalled' \in BOOLEAN
    /\ UNCHANGED <<pending, served, stopped>>

\* A handler, or a failing verbs call, ends the process with exit(1).
Stop ==
    /\ stopped' = TRUE
    /\ stalled' = FALSE
    /\ UNCHANGED <<pending, served, failures>>

\* A handler ends the process while it handles the oldest completion.
ServeAndStop ==
    /\ ~stopped
    /\ ~stalled
    /\ pending # <<>>
    /\ served' = Append(served, Head(pending))
    /\ pending' = Tail(pending)
    /\ stopped' = TRUE
    /\ UNCHANGED <<failures, stalled>>

Next ==
    \/ \E k \in Kind : Complete(k)
    \/ Serve
    \/ Fail
    \/ Stop
    \/ ServeAndStop

Spec == Init /\ [][Next]_serviceVars /\ WF_serviceVars(Serve)

=============================================================================
