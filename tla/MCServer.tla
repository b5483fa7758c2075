------------------------------- MODULE MCServer -------------------------------
(* The scheduler loop, the handover of a conversation's queue and payments   *)
(* in one run.  They share no state: a behaviour is one of any, and the      *)
(* others stay at their first state.                                         *)
EXTENDS Payments

CONSTANTS Routines, Replicas, Periods, Edits, MaxTime, MaxEdits, MaxSlips,
          Posted, Enqueued, MaxRuns, Bodies, MaxRequests, MaxRestarts, Events

VARIABLES part,
          now, state, trigger, next, edit, edition, at, todo, job, fired, slips,
          archived, posting, queue, said, phase, prompt, drain, picked, asked,
          answering, answers, confirmed, removed, accepted, restarts

S == INSTANCE Scheduler WITH MaxFaults <- MaxSlips, faults <- slips
C == INSTANCE ConversationQueue WITH request <- posting

ASSUME ServerConstants == S!SchedulerConstants /\ MaxFaults \in Nat

schedulerVars == <<now, state, trigger, next, edit, edition, at, todo, job, fired, slips>>

conversationVars == <<archived, posting, queue, said, phase, prompt, drain, picked, asked,
                      answering, answers, confirmed, removed, accepted, restarts>>

ServerInit == part \in {"scheduler", "conversation", "payments"} /\ Init /\ S!Init /\ C!Init

ServerNext ==
    /\ UNCHANGED part
    /\ \/ part = "scheduler" /\ S!Next /\ UNCHANGED <<vars, conversationVars>>
       \/ part = "conversation" /\ C!Next /\ UNCHANGED <<vars, schedulerVars>>
       \/ part = "payments" /\ Next /\ UNCHANGED <<schedulerVars, conversationVars>>

\* The fairness of the three modules: passes go on (in a behaviour of the
\* scheduler), requests that have begun go on, row locks are granted in turn,
\* and Stripe delivers again what was not answered.
ServerSpec ==
    /\ ServerInit /\ [][ServerNext]_<<part, vars, schedulerVars, conversationVars>>
    /\ \A s \in Replicas : WF_schedulerVars(part = "scheduler" /\ S!Pass(s))
    /\ \A t \in Posted : WF_conversationVars(C!PostQueues(t)) /\ WF_conversationVars(C!PostStarts(t))
    /\ \A r \in C!Runs : SF_conversationVars(C!DrainLocks(r)) /\ WF_conversationVars(C!DrainStarts(r))
    /\ WF_conversationVars(C!AnswerEnds)
    /\ Fairness

\* Occurrences missed while the loop was down, slow or the routine paused make
\* one run, not a burst.
NoBurst == S!NoBurst

\* "a restart never loses a schedule": an enabled schedule does not stay
\* without a next time or overdue.
NoScheduleLost == S!NoScheduleLost

\* "drainQueue sends the next queued message once a run finishes": a text that
\* waits while a finish is handled does not stay behind no run, whoever cancels,
\* queues or removes meanwhile.
FinishMovesQueueOn == C!FinishMovesQueueOn
===============================================================================
