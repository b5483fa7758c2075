------------------------------ MODULE RunOutcome ------------------------------
(***************************************************************************)
(* What the run service promises of a run, whoever ends it: a run is       *)
(* recorded once, stays open while it is worked on, and is closed at most  *)
(* once, with one of three outcomes that nothing ever replaces.            *)
(* RunLifecycle is the detailed specification that implements this one;    *)
(* ConversationQueue uses runs only through this view of them.             *)
(***************************************************************************)
CONSTANT Runs    \* the identifiers of the runs

VARIABLE phase   \* phase[r]: "none" (not recorded), "open", or an outcome

\* The statuses Finish accepts: the terminal values of runs.status.
Outcomes == {"done", "failed", "cancelled"}

Phases == {"none", "open"} \cup Outcomes

TypeOK == phase \in [Runs -> Phases]

Init == phase = [r \in Runs |-> "none"]

\* A caller commits a new run.
Open(r) ==
    /\ phase[r] = "none"
    /\ phase' = [phase EXCEPT ![r] = "open"]

\* Exactly one of the callers that try to end a run succeeds.
Close(r, o) ==
    /\ phase[r] = "open"
    /\ phase' = [phase EXCEPT ![r] = o]

Next == \E r \in Runs : Open(r) \/ \E o \in Outcomes : Close(r, o)

Spec == Init /\ [][Next]_phase
===============================================================================
