--------------------------- MODULE ConversationQueue ---------------------------
(***************************************************************************)
(* One conversation: the messages people send, the queue that holds them   *)
(* while a run is live, and the runs that answer them                      *)
(* (server/internal/api/conversations.go, runtimeMessage and afterRun in   *)
(* runs_handlers.go).  Posting and draining are transactions under the     *)
(* row lock of the conversation: such a transaction is two actions, one    *)
(* that takes the lock and reads, one that writes and commits; runs end    *)
(* and queued messages are removed without that lock, in between.          *)
(*                                                                         *)
(* Runs are used through RunOutcome, which RunLifecycle implements.  Each  *)
(* text is sent once; a text stands for the request that carries it.       *)
(***************************************************************************)
EXTENDS Naturals, Sequences, SequencesExt

CONSTANTS
    Posted,      \* texts sent as messages (POST .../messages)
    Enqueued,    \* texts sent to the queue (POST .../queue)
    MaxRuns,     \* bound on the runs of the conversation
    Bodies,      \* what a run may post as its answer
    MaxRequests, \* bound on copies of one answer in flight (the client retries)
    MaxRestarts, \* bound on server restarts
    Events       \* what else may happen: "cancel", "archive", "fail"

ASSUME TextsAssumption == Posted \cap Enqueued = {}
ASSUME BoundsAssumption ==
    MaxRuns \in Nat \ {0} /\ MaxRequests \in Nat \ {0} /\ MaxRestarts \in Nat

Texts == Posted \cup Enqueued
Runs == 1..MaxRuns   \* numbered in the order they are created

VARIABLES
    archived,  \* conversations.archived_at is not null
    request,   \* how far the request carrying each text has got
    queue,     \* message_queue, in the order of position
    said,      \* the texts in the transcript (messages with role user)
    phase,     \* the conversation's runs, as RunOutcome sees them
    prompt,    \* runs.prompt: the text each run answers ({} before it exists)
    drain,     \* the drainQueue that follows each run's finish
    picked,    \* the queue row a drain has read ({} if none)
    asked,     \* copies of each answer of a run on their way to the server
    answering, \* transactions of runtimeMessage that hold the lock
    answers,   \* messages with role operator of each run
    confirmed, \* history: the answers the runtime was told are stored (201)
    removed,   \* texts that a person took out of the queue
    accepted,  \* history: the accepted texts, in order
    restarts

answerVars == <<asked, answering, answers, confirmed>>
vars == <<archived, request, queue, said, phase, prompt, drain, picked, answerVars,
          removed, accepted, restarts>>

Run == INSTANCE RunOutcome

Live == {r \in Runs : phase[r] = "open"}

\* A set with at most one text: a value that may be absent.
Maybe(S) == {{}} \cup {{t} : t \in S}

TypeOK ==
    /\ archived \in BOOLEAN
    /\ request \in [Texts -> {"idle", "queueing", "starting", "done", "refused"}]
    /\ queue \in Seq(Texts)
    /\ said \subseteq Texts
    /\ Run!TypeOK
    /\ prompt \in [Runs -> Maybe(Texts)]
    /\ drain \in [Runs -> {"none", "due", "picked", "done"}]
    /\ picked \in [Runs -> Maybe(Texts)]
    /\ asked \in [Runs -> [Bodies -> 0..MaxRequests]]
    /\ answering \subseteq [run : Runs, body : Bodies, earlier : SUBSET Bodies]
    /\ answers \in [Runs -> Seq(Bodies)]
    /\ confirmed \in [Runs -> SUBSET Bodies]
    /\ removed \subseteq Texts
    /\ accepted \in Seq(Texts)
    /\ restarts \in 0..MaxRestarts

Init ==
    /\ archived = FALSE
    /\ request = [t \in Texts |-> "idle"]
    /\ queue = <<>>
    /\ said = {}
    /\ Run!Init
    /\ prompt = [r \in Runs |-> {}]
    /\ drain = [r \in Runs |-> "none"]
    /\ picked = [r \in Runs |-> {}]
    /\ asked = [r \in Runs |-> [b \in Bodies |-> 0]]
    /\ answering = {}
    /\ answers = [r \in Runs |-> <<>>]
    /\ confirmed = [r \in Runs |-> {}]
    /\ removed = {}
    /\ accepted = <<>>
    /\ restarts = 0
-------------------------------------------------------------------------------
(* The row lock: held by a post, a drain or an answer between its actions.  *)

\* (Reading without "for update", a bug:)
NeverLocked == TRUE
Unlocked ==
    /\ \A t \in Texts : request[t] \notin {"queueing", "starting"}
    /\ \A r \in Runs : drain[r] # "picked"
    /\ answering = {}

\* A new run takes the next number and the text it answers.
NewRun(r, t) ==
    /\ \A q \in 1..(r - 1) : phase[q] # "none"
    /\ Run!Open(r)
    /\ prompt' = [prompt EXCEPT ![r] = {t}]
-------------------------------------------------------------------------------
(* postMessage: lock, refuse when archived, insert the message, then queue  *)
(* it behind a live run or start a run for it.                              *)

Respond(t, from, to) ==
    /\ request[t] = from
    /\ request' = [request EXCEPT ![t] = to]

PostLocks(t) ==
    /\ Unlocked
    /\ Respond(t, "idle", IF archived THEN "refused"
                          ELSE IF Live # {} THEN "queueing" ELSE "starting")
    /\ UNCHANGED <<archived, queue, said, phase, prompt, drain, picked, answerVars, removed,
                   accepted, restarts>>

PostQueues(t) ==
    /\ Respond(t, "queueing", "done")
    /\ said' = said \cup {t}
    /\ queue' = Append(queue, t)
    /\ accepted' = Append(accepted, t)
    /\ UNCHANGED <<archived, phase, prompt, drain, picked, answerVars, removed, restarts>>

PostStarts(t) ==
    /\ Respond(t, "starting", "done")
    /\ said' = said \cup {t}
    /\ \E r \in Runs : NewRun(r, t)
    /\ accepted' = Append(accepted, t)
    /\ UNCHANGED <<archived, queue, drain, picked, answerVars, removed, restarts>>

SaidAfterRefusal(t) == said

\* CreateInTx refuses (no credit, a connector gone): the message is rolled
\* back with the run.
PostFails(t) ==
    /\ "fail" \in Events
    /\ Respond(t, "starting", "refused")
    /\ said' = SaidAfterRefusal(t)
    /\ UNCHANGED <<archived, queue, phase, prompt, drain, picked, answerVars, removed,
                   accepted, restarts>>

\* enqueueMessage writes the queue only: no message, and never a run.
Enqueue(t) ==
    /\ Unlocked
    /\ IF archived
         THEN Respond(t, "idle", "refused") /\ UNCHANGED <<queue, accepted>>
         ELSE /\ Respond(t, "idle", "done")
              /\ queue' = Append(queue, t)
              /\ accepted' = Append(accepted, t)
    /\ UNCHANGED <<archived, said, phase, prompt, drain, picked, answerVars, removed, restarts>>

\* dequeueMessage deletes the row without the conversation lock.
Dequeue(t) ==
    /\ t \in ToSet(queue)
    /\ queue' = RemoveFirst(queue, t)
    /\ removed' = removed \cup {t}
    /\ UNCHANGED <<archived, request, said, phase, prompt, drain, picked, answerVars, accepted,
                   restarts>>

\* Archiving and unarchiving update the row, so they wait for the lock.
Archive ==
    /\ "archive" \in Events
    /\ Unlocked
    /\ archived' = ~archived
    /\ UNCHANGED <<request, queue, said, phase, prompt, drain, picked, answerVars, removed,
                   accepted, restarts>>
-------------------------------------------------------------------------------
(* Runs end, and afterRun drains the queue.  With what outcome does not     *)
(* matter to the conversation: "done" stands for the outcomes a runtime     *)
(* reports, "cancelled" for those the server gives.                         *)

\* Finish accepts the three outcomes only.
ReportedStatus == "done"

\* The runtime's finish: afterRun runs in the same request, later.
RuntimeFinishes(r) ==
    /\ Run!Close(r, ReportedStatus)
    /\ drain' = [drain EXCEPT ![r] = "due"]
    /\ UNCHANGED <<archived, request, queue, said, prompt, picked, answerVars, removed, accepted,
                   restarts>>

\* cancelRun, Reconcile and a failed launch end a run; nothing drains.
ServerEnds(r) ==
    /\ "cancel" \in Events
    /\ Run!Close(r, "cancelled")
    /\ UNCHANGED <<archived, request, queue, said, prompt, drain, picked, answerVars, removed,
                   accepted, restarts>>

\* "order by position limit 1".  (Taking the newest row, a bug:)
NewestQueued == queue[Len(queue)]
NextQueued == Head(queue)

DrainMayStart == ~archived /\ Live = {} /\ queue # <<>>

DrainLocks(r) ==
    /\ drain[r] = "due"
    /\ Unlocked
    /\ IF DrainMayStart
         THEN /\ drain' = [drain EXCEPT ![r] = "picked"]
              /\ picked' = [picked EXCEPT ![r] = {NextQueued}]
         ELSE /\ drain' = [drain EXCEPT ![r] = "done"]
              /\ UNCHANGED picked
    /\ UNCHANGED <<archived, request, queue, said, phase, prompt, answerVars, removed, accepted,
                   restarts>>

\* "delete from message_queue where id = ..." after the run is created.
QueueWithout(t) == RemoveFirst(queue, t)

DrainStarts(r) ==
    /\ drain[r] = "picked"
    /\ drain' = [drain EXCEPT ![r] = "done"]
    /\ picked' = [picked EXCEPT ![r] = {}]
    /\ \E t \in picked[r] :
         /\ \E new \in Runs : NewRun(new, t)
         /\ queue' = QueueWithout(t)
    /\ UNCHANGED <<archived, request, said, answerVars, removed, accepted, restarts>>

\* (Deleting the row outside the transaction that creates the run, a bug:)
QueueWithoutPicked(r) == SelectSeq(queue, LAMBDA t : t \notin picked[r])
QueueAfterFailure(r) == queue

\* The run cannot be created: the row stays in the queue.
DrainFails(r) ==
    /\ "fail" \in Events
    /\ drain[r] = "picked"
    /\ drain' = [drain EXCEPT ![r] = "done"]
    /\ picked' = [picked EXCEPT ![r] = {}]
    /\ queue' = QueueAfterFailure(r)
    /\ UNCHANGED <<archived, request, said, phase, prompt, answerVars, removed, accepted, restarts>>
-------------------------------------------------------------------------------
(* runtimeMessage: the run posts its answer.                                *)

\* The token check passes while the run is open; the client sends again when
\* no answer comes back in time, and nothing keeps it from sending another body.
SendAnswer(r, b) ==
    /\ phase[r] = "open"
    /\ asked[r][b] < MaxRequests
    /\ asked' = [asked EXCEPT ![r][b] = @ + 1]
    /\ UNCHANGED <<archived, request, queue, said, phase, prompt, drain, picked, answering, answers,
                   confirmed, removed, accepted, restarts>>

\* "select id from conversations ... for update", then the run's earlier answer.
\* The run may have ended since its token was checked.
AnswerLocks(r, b) ==
    /\ asked[r][b] > 0
    /\ Unlocked
    /\ asked' = [asked EXCEPT ![r][b] = @ - 1]
    /\ answering' = answering \cup {[run |-> r, body |-> b, earlier |-> ToSet(answers[r])]}
    /\ UNCHANGED <<archived, request, queue, said, phase, prompt, drain, picked, answers, confirmed,
                   removed, accepted, restarts>>

\* There is an earlier answer: 201 with it when it says the same, and otherwise
\* 409, "this run already posted a different answer".
AnswerRepeats(a) ==
    /\ a.earlier # {}
    /\ answering' = answering \ {a}
    /\ \E m \in a.earlier :
         confirmed' = IF m = a.body THEN [confirmed EXCEPT ![a.run] = @ \cup {m}] ELSE confirmed
    /\ UNCHANGED <<archived, request, queue, said, phase, prompt, drain, picked, asked, answers,
                   removed, accepted, restarts>>

\* There is none: insert the message and commit.
AnswerStores(a) ==
    /\ a.earlier = {}
    /\ answering' = answering \ {a}
    /\ answers' = [answers EXCEPT ![a.run] = Append(@, a.body)]
    /\ confirmed' = [confirmed EXCEPT ![a.run] = @ \cup {a.body}]
    /\ UNCHANGED <<archived, request, queue, said, phase, prompt, drain, picked, asked, removed,
                   accepted, restarts>>

\* A statement fails: nothing is stored, and the client may send again.
AnswerFails(a) ==
    /\ "fail" \in Events
    /\ answering' = answering \ {a}
    /\ UNCHANGED <<archived, request, queue, said, phase, prompt, drain, picked, asked, answers,
                   confirmed, removed, accepted, restarts>>

\* A restart aborts the open transactions and forgets the drains that are due.
Restart ==
    /\ restarts < MaxRestarts
    /\ restarts' = restarts + 1
    /\ request' = [t \in Texts |-> IF request[t] \in {"queueing", "starting"} THEN "idle" ELSE request[t]]
    /\ drain' = [r \in Runs |-> IF drain[r] \in {"due", "picked"} THEN "done" ELSE drain[r]]
    /\ picked' = [r \in Runs |-> {}]
    /\ asked' = [r \in Runs |-> [b \in Bodies |-> 0]]
    /\ answering' = {}
    /\ UNCHANGED <<archived, queue, said, phase, prompt, answers, confirmed, removed, accepted>>
-------------------------------------------------------------------------------
Next ==
    \/ \E t \in Posted : PostLocks(t) \/ PostQueues(t) \/ PostStarts(t) \/ PostFails(t)
    \/ \E t \in Enqueued : Enqueue(t)
    \/ \E t \in Texts : Dequeue(t)
    \/ Archive
    \/ \E r \in Runs :
         \/ RuntimeFinishes(r) \/ ServerEnds(r)
         \/ DrainLocks(r) \/ DrainStarts(r) \/ DrainFails(r)
         \/ \E b \in Bodies : SendAnswer(r, b) \/ AnswerLocks(r, b)
    \/ \E a \in answering : AnswerRepeats(a) \/ AnswerStores(a) \/ AnswerFails(a)
    \/ Restart

Spec == Init /\ [][Next]_vars

AnswerEnds == \E a \in answering : AnswerRepeats(a) \/ AnswerStores(a)

\* A request that has begun goes on, and one that waits for the row lock gets
\* it in the end: Postgres grants the lock in turn.  Nobody is obliged to
\* send, remove or cancel anything, and no run to end.
Fairness ==
    /\ \A t \in Posted : WF_vars(PostQueues(t)) /\ WF_vars(PostStarts(t))
    /\ \A r \in Runs : SF_vars(DrainLocks(r)) /\ WF_vars(DrainStarts(r))
    /\ WF_vars(AnswerEnds)

FairSpec == Spec /\ Fairness
-------------------------------------------------------------------------------
(* Safety.                                                                  *)

\* Simultaneous posts and drains never give the conversation two live runs:
\* the conversation has one operator at a time.
OneLiveRun == \A q, r \in Live : q = r

\* Two answers of one run that arrive together, repeated or different, leave one
\* operator message, and a runtime is told that an answer is stored only if that
\* message is it.
OneAnswerPerRun ==
    \A r \in Runs : Len(answers[r]) <= 1 /\ confirmed[r] \subseteq ToSet(answers[r])

RunsOf(t) == {r \in Runs : t \in prompt[r]}
QueuedTimes(t) == Cardinality({i \in DOMAIN queue : queue[i] = t})

\* An accepted text is never lost and never handled twice: it waits in the
\* queue once, or one run answers it, or somebody removed it.
NoTextLostOrRepeated ==
    \A t \in ToSet(accepted) :
       /\ QueuedTimes(t) <= 1
       /\ \A q, r \in RunsOf(t) : q = r
       /\ QueuedTimes(t) + (IF RunsOf(t) = {} THEN 0 ELSE 1) <= 1
       /\ QueuedTimes(t) = 0 /\ RunsOf(t) = {} => t \in removed

Before(t, u) ==
    \E i, j \in 1..Len(accepted) : i < j /\ accepted[i] = t /\ accepted[j] = u

\* The run a drain starts answers the oldest text that was waiting: nothing
\* accepted before it is still in the queue.
DrainTakesOldest ==
    [][\A r \in Runs, t \in Texts :
         drain[r] = "picked" /\ drain'[r] = "done" /\ RunsOf(t)' # RunsOf(t)
           => ~\E u \in ToSet(queue) : Before(u, t)]_vars

\* A refused text leaves no trace: no message, no queue row, no run.
RefusedLeavesNothing ==
    \A t \in Texts : request[t] = "refused" =>
       t \notin said /\ t \notin ToSet(queue) /\ RunsOf(t) = {}

\* Every text is accounted for, whichever of its steps failed or was cut off by
\* a restart: an accepted one by the queue, its one run or its removal, and a
\* refused one by nothing.
TextsAreAccountedFor == NoTextLostOrRepeated /\ RefusedLeavesNothing
-------------------------------------------------------------------------------
(* Liveness, and what the code says of the queue.                           *)

\* "drainQueue sends the next queued message once a run finishes": while the
\* finish of a run is being handled, a text that waits, or whose post has decided
\* to queue it behind the run that has just ended, does not stay behind no run.
Waits(t) == t \in ToSet(queue) \/ request[t] = "queueing"
FinishMovesQueueOn ==
    \A t \in Texts :
      Waits(t) /\ (\E r \in Runs : drain[r] = "due") /\ Live = {} /\ ~archived
        ~> ~Waits(t) \/ Live # {} \/ archived

Waiting == queue # <<>> /\ Live = {} /\ ~archived

\* A queue with no live run before it moves on.  It does not: nothing drains when
\* the server ends a run, and a text may be queued when no run is live.
QueueMovesOn == Waiting ~> ~Waiting

\* "A second message while a run is live is queued, not dropped": the text a
\* run was started for is in the transcript, which is all the model is shown.
PromptIsInTranscript == \A r \in Runs : prompt[r] \subseteq said
===============================================================================
