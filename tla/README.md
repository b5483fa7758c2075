# Verification of BotInc v2 in TLA+

BotInc v2 is a Go server over Postgres with a web application in front of it. A
*run* is one piece of agent work: the server records it, starts a sandbox for
it, and a small Go *runtime* in the sandbox claims it, works and reports back
over HTTP. Conversations, routines and issues start runs; a credit ledger pays
for them; Stripe fills the ledger. On the server everything is concurrent: HTTP
handlers, one launching goroutine per run, kill goroutines, a scheduler ticker,
and the runtimes, all meeting in the database and nowhere else. In the browser
one page has many actors too: the member, requests under way, timers, the
socket. The modules here model those components step by step, TLC checks them
on small instances, and TLAPS proves the main safety properties for every
instance.

Paths below are relative to the repository root. `runs.go` is
`server/internal/runs/runs.go`; `api/` is `server/internal/api/`; `logic/`,
`views/` and `live/` are below `apps/web/features/workspace/`.

## 1. Inventory

| component | state | operations | meets | what makes it correct |
|---|---|---|---|---|
| run service, `server/internal/runs` | `runs`, `run_steps`, `run_events`, `sandboxes` | Create/CreateInTx, dispatch, Claim, AppendEvents, UpdateStep, Finish, Cancel, Reconcile | provider (Provision, Kill), hub, everybody who starts runs | one outcome per run, decided once; late answers harm nobody; abandoned runs end; sandboxes of ended runs go |
| runtime, `runtime/cmd`, `runtime/internal/protocol` | local cost, sequence number | claim, heartbeat, step reports with retry, answer, finish | run service over HTTP | reports may be repeated; the budget is not exceeded |
| conversations, `api/conversations.go` | `conversations`, `messages`, `message_queue` | post, enqueue, dequeue, archive, drain, fork | run service (creates runs in its own transaction), afterRun | one live run; no text lost or answered twice |
| credit, `runs.go`, `api/billing.go` | `credit_ledger`, `runs.cost_cents`, `run_steps.cost_cents` | reserve, charge, release, top up | run service, runtime, Stripe | simultaneous runs never spend the same credit; nothing charged twice |
| Stripe, `api/stripe.go` | `billing_orders`, `billing_events` | checkout, webhook | credit | an order is credited once, whatever the webhooks do |
| scheduler, `server/internal/scheduler` | `autopilots.next_run_at` | arm, claim, fire, reschedule; calls Reconcile | routines, run service | an occurrence fires once; a schedule is never lost |
| routines, `api/autopilots.go` | `autopilots`, `autopilot_runs` | create, update, pause, delete, trigger, webhook | scheduler, run service | edits and the loop do not undo one another |
| issues, `api/issues.go` | `issues` | start, work on, approve, request changes, afterRun | run service, GitHub | issue status agrees with its runs |
| workflows, `api/workflows.go`, `runtime/internal/workflow` | graphs, versions | validate, steps, version, activate, execute | runtime, issues, routines | a valid graph ends, within its attempt limits |
| run input, `api/run_input.go` | answers in `run_steps.output` | answer, poll | runtime, people | an answer belongs to the question that was asked |
| realtime hub, `server/internal/realtime` | subscribers, buffers | publish, serve | every component | publishing never blocks; a slow client only loses its own events |
| accounts, `api/accounts.go`, `account_refresh.go` | `model_accounts`, OAuth tokens | connect, refresh, route | run spec | a rotating token is refreshed by one run at a time |
| sign-in, `server/internal/auth` | codes, device codes, sessions | start, verify, device approve and poll | mail, CLI | a code is used once, guesses are counted |
| sandbox providers, `server/internal/sandbox` | external | Provision, Kill | run service | - |
| MCP server and OAuth, workspaces, projects, knowledge, plugins, secrets, attachments | their tables | mostly single statements | - | access control by workspace |
| live workspace, `live/use-live-workspace.ts`, socket of `packages/api` | the page's copy of the rows, refreshes in flight, one timer, drafts, sends | hydrate, refreshActiveWork, openChat, write, connect, send | server over HTTP and the socket | what is shown is never older than it was, refreshes asked for are served, messages go where they were written |
| conversation and thread, `logic/base16.js`, `logic/flow18.js` | threads, chats, queue, turn timers | send, queue, steer, answer, edit, fork, stop, resume | the issue's runs | no text is lost; a stopped chat stays stopped |
| Ask Operator dock, `logic/base16.js` | a slot for each member, its queue, answer timer, files, plan, goal, tools | ask, queue, stop, open, close, sign in | timers | every question ends, none is lost |
| run threads, `logic/runs16.js` | the open thread and the stack behind it, drafts, instructions, answers | open, back, follow, answer, instruct, stop, retry | the record of the runs | what is recorded is not rewritten; Back climbs |
| issue desk, `logic/base16.js`, `logic/v19.js`, `views/page-conversation-inspector.tsx` | status, owner, review, merge snapshot, dialogs, file, player | open, review, merge, assign, promote, play | members | a merge was looked at; dialogs act on the right issue |
| routine desk, `logic/v19.js` with `live/use-live-workspace.ts` | form, requests, what the browser keeps | edit, save, pause, run, delete | server | the answer of a request lands in the form it came from |
| public page, `apps/web/features/landing` | address, code, screens, choices kept in the browser, timers | type, sign in, choose, go back, reload | auth over HTTP | a code belongs to the address typed; nobody gets past sign-in without it |
| v1 import, CLI, other views and settings, deployment | - | - | - | no state the others depend on |

Hard behaviours, by kind: several actors that end one run; results of slow
calls that arrive after the run moved on; row locks that some writers take and
others do not; transactions that create a run for somebody else; a restart that
loses every goroutine but no sandbox; HTTP requests repeated by the client;
rows claimed by one loop and re-armed by another. In the browser: answers that
arrive when the member is elsewhere, one timer for several purposes, rendering
that lags behind the state, snapshots that outlive what they were taken of, and
stacks of pages. `PROJECT.json` lists each at its line, under `hazards`.

## 2. Structure

| module | models | composed with |
|---|---|---|
| `RunOutcome` | what the run service promises of a run | implemented by `RunLifecycle`, used by `ConversationQueue` |
| `RunLifecycle` | a run, from its creation to its end | - |
| `ConversationQueue`, `MCConversation` | posts, the queue, drains, answers | `RunOutcome` |
| `CreditLedger`, `MCCredit` | reservations, charges, releases | - |
| `Payments` | checkout and webhook | what it credits is `TopUp` of `CreditLedger` |
| `Scheduler` | arming, claiming and firing of routines | - |
| `MCServer` | `Scheduler`, `ConversationQueue` and `Payments` in one run | |
| `LiveSync` | how a page follows the server | - |
| `Composer`, `ThreadQueue`, `Dock`, `MCWriting` | the three places where a member writes | |
| `IssueDesk`, `RoutineDesk`, `RunThreads`, `MCDesks` | the two desks, and the record of an issue's runs | |
| `Landing` | the public page | - |
| `*Proofs` | theorems about the module or composition they are named after | |

`MCServer`, `MCWriting` and `MCDesks` put components that share no state into
one run: a behaviour picks a part and the others stay at their first state.
Interleaving independent parts would multiply states and add no behaviour of
any of them, and the fairness of a part is asked for only in its behaviours.
The constant `Desks` says which parts of `MCDesks` a run looks at.

## 3. Modules

### RunOutcome

The promise of the run service: a run is recorded, is open, and is closed at
most once, with `done`, `failed` or `cancelled`. `RunLifecycle` implements it
(`OutcomeSpec`, checked and proved); `ConversationQueue` instantiates it.

### RunLifecycle

One action per database statement of `runs.go`. The variable `launcher[r]` is
the program counter of the goroutine `dispatch` (lines 315-366): `TakeToken`
(323), `InsertSandbox` (333), `ProvisionReturns` (337), `FailLaunch` (346),
`RecordExternal` (359), `LinkSandbox` (360), `CheckEnded` (362),
`LauncherKills` (364). `call[c][r]` is a `Finish` that caller `c` - the
runtime's request, a user's cancel, Reconcile - is about to make with the copy
of the run it read earlier: `Begin` is that read, `FinishWrites` the guarded
update (502), `FinishKills` the look for a sandbox in the old copy (510), and
`killing` the goroutine of line 513. `box` and `runtime` are the sandbox and
the process in it. `Claim`, `AppendEvents` and `UpdateStep` are one statement
or one transaction each. `UpdateStep` joins the check of the token (395-404) and
the transaction (445-482), so a report that passed the check while its runtime
lived and commits after it died is not a step here; one that sets the run to
`waiting` would leave it as `RunAbandoned` finds other waiting runs.

Abstracted: time is a flag per run, "past the deadline Reconcile compares
with"; tokens (a runtime has the right one or is refused); the text of errors;
`sandboxes.status` and `ended_at`, which nothing reads. A statement whose error
the code drops (`_, _ =`) is taken to succeed. Requests of the runtime arrive
once; repeated ones are in `ConversationQueue` and `CreditLedger` where they
matter.

### ConversationQueue

`postMessage` and `drainQueue` are transactions under `select ... for update`
of the conversation: each is two actions, the lock with its reads
(`PostLocks`, `DrainLocks`) and the writes with the commit (`PostQueues`,
`PostStarts`, `PostFails`, `DrainStarts`, `DrainFails`). `Unlocked` is the row
lock. `Dequeue` (450-467) and the end of a run take no lock, so they fall
between the two actions. A runtime's finish makes a drain due (`afterRun`); a
cancel does not. `Enqueue` does not ask whether a run is live (423-447). A run
may send several answers, the same or different (`SendAnswer`); each is a
transaction under the same lock, which reads the earlier answer (`AnswerLocks`)
and then confirms it, refuses another with 409 (`AnswerRepeats`), stores the
first (`AnswerStores`) or fails. `accepted`, `removed`, `picked`, `said` and
`confirmed` are the history and reads that the properties need.

### CreditLedger

`CreateReads` and `CreateCommits` are the two halves of `CreateInTx` under the
row lock of the workspace; `UpdateStep`, `Finish` and `TopUp` do not take it.
`sent[r]` is the set of reports ever sent: any of them may arrive, any number
of times, in any order, which is what retries over HTTP amount to.
`ReportedCost` is what `main.go` sends: the sum of the attempts for a build
(line 519), the attempt's own cost for a routine (322) and a chat (220). The agent's
command line is assumed to stop at `--max-budget-usd`.

### Scheduler

A replica's loop: `Begin` reads the rows without a next time, `ArmComputes` /
`ArmWrites` set them, then `Claim`, `FireReads`, `FireCreates` or `FireFails`,
`Plan` (the clock is read) and `Reschedule` (the write-back, line 70). People
create and edit routines in two steps, because `parseTrigger` reads the clock
before the row is written. A cron expression is a period; `NextAt` is the first
multiple after a time. `Crash` also stands for a failed claim, which ends a pass.

### Payments

`createCheckout` (api/stripe.go:20-95) is a chain of three calls - insert the
order, create the session at Stripe, store the session's id - that may break off
after each. A webhook is a transaction: `LockOrder` takes the row lock of the
order, `CommitPayment` inserts the event, credits the ledger if the event is
new, and commits; `PaymentFails` rolls back; the answer may be lost. Stripe and
the customer are external: `Pays` (by card, or by a transfer that arrives
later), `Deliver` until answered. A webhook refused because of its signature,
amount or session changes nothing and is left out.

### LiveSync

`hydrate()` and `refreshActiveWork()` each have three steps of their own: sent,
answered by the server, continued in the page. The continuation of
`refreshActiveWork` copies the list of conversations (line 254) and, when the
dock or an issue is to be asked for as well, sets it after that
(`ActContinues`, `ActApplies`). `hyd.again` and `hyd.full` are
the call that waits behind the one in flight; `cache` is the inventory promise
navigation may reuse for sixty seconds; `boot` what the first request brought.
`link` is the socket with the events on the wire and the one debounce timer.
Rows are version numbers. Lists of conversations, uploads and what the rows
hold are left out.

### Composer

`send()` is a chain of requests, a job, in a conversation or the thread of an
issue; between two of them the member may type, attach, open another place or
reload. The guard `sending` is held to the end of the refresh that follows, and
when that fails the page shows an error although the message was sent. A text is
a number, new each time.
`field` is the textarea with the draft it was last drawn with, `deferred` a
change that waits for the quiet time of `lib/dc/logic.ts`. A request that fails
may have been done all the same.

### ThreadQueue, Dock, RunThreads, IssueDesk, RoutineDesk, Landing

These model the logic of the pages with their markup. A section of the markup is
an operator, the set of controls it offers in a state, and a member can do only
what a section on the page offers: a control that is hidden or disabled guards
as well as the handler. Timers are variables that hold what will run when they
fire. `ThreadQueue` is the conversation page (chats of the member and the thread
of an issue); a callback without delay (`steer18` of a row, `editSend18`) waits
in `soon` and runs in a step of its own. `Dock` is the conversation that floats
beside every page, with the marks of a composer (files, plan, goal, tools);
`RunThreads` what agents wrote (a constant, `Script`) and what members add to
it; `IssueDesk` the panes, dialogs, review, merge gate and player of an issue;
`RoutineDesk` the schedule, the page and the form of a routine, with the
requests to the server; `Landing` signing in and the onboarding of the public
page, with reloads and the addresses (`?returnTo`, `?demo`) it is reached by.

**Which page this is.** `logic/` holds conversations, issues and runs in memory;
it is the whole page in fixture mode, without a server. With a server
`live/use-live-workspace.ts` binds its own handlers over many of these. `Dock`,
`ThreadQueue`, `RunThreads` and most of `IssueDesk` are therefore models of the
page without a server, and what they show is shown of that page. What the
adapter does is in `LiveSync` and `Composer`; `RoutineDesk` is the page with a
server, its form from `logic/` and its requests from the adapter. `IssueDesk`
has both for going from one conversation to another: `live` chooses between the
handlers of the page (`Shown`, which resets the open file) and those of the
adapter (`ShownLive`, `Back`, which do not).

In `RoutineDesk` a document is known by its first line that is neither heading
nor fence (`FirstLine`), which is what `commitInstr` sends as the prompt, or the
earlier prompt when there is none.

## 4. Runs

| run | instance | shows |
|---|---|---|
| `RunLifecycle` | 1 run, 1 restart | the outcome is written once and stands; `finished_at` and `status` agree; launchers and kills spare open runs; the refinement of `RunOutcome`; deserted runs end; the sandbox of a run that ended while being launched goes |
| `RunAbandoned` | 1 run | refuted: a lost launch leaves a queued run, and a lost sandbox a waiting run, that nothing ends |
| `Conversation` | 2 messages, 1 queued text, 3 runs, 2 different answers each sent once, 1 restart | at most one live run; one answer per run, and no other is confirmed; every text accounted for; drains take the oldest |
| `ConversationTranscript` | 1 message, 1 queued text, 2 runs | refuted: a queued text never enters the transcript the prompt is built from |
| `Credit` | 2 runs, 2 steps, builds, chats and routines, 2 cents and a top-up of 1 | credit is promised and charged once and explained by receipts; no step is overcharged; what was reported is charged, and but for routines that is what was spent |
| `Server` | scheduler: 1 replica, 1 routine, time to 3, 2 edits, 2 faults; conversation: 2 messages, 1 queued text, 3 runs, cancels; payments: 2 orders, 2 deliveries at a time, 2 losses | missed occurrences make no burst, no schedule is lost; what waits while a finish is handled moves on; an order is credited once and, once paid, is credited |
| `ScheduleReplicas` | 2 replicas, 1 routine, time to 2 | refuted: an occurrence fires twice, although "two replicas cannot double-fire" |
| `LiveSync` | 2 conversations, 2 changes, 1 navigation, 1 fault; opened at either route | the inventory never goes back; a full refresh is served; the rows of an opened conversation are shown |
| `Writing` | composer: 1 conversation, 2 new ones, 1 issue, 1 file, 2 texts, 1 navigation, 1 fault; dock: 2 members, 3 questions; thread: 1 chat, 1 question, 2 texts, 1 step | messages go where they were written; the send button is right; no question is lost and no text but a row steered while a new chat opens; sends and questions end; a stopped chat stays stopped |
| `Desks` | 2 members, 2 issues and a chat, 2 changes; 2 routines, one of three budgets; 2 runs, 2 delegated checks, 2 attempts, 1 text, 1 fold | no review is left open; without a server the file is of this conversation; what is merged was opened; saves go where they were shown; Back climbs; instructions are where they were typed; the record only grows |
| `Landing` | 1 address, 3 screens of a demo, 1 choice, 2 edits | sign-in is earned, stored choices survive a reload, the first fix arrives |
| `RoutineText` | as `Desks` | refuted: instructions edited on a routine's page never reach the server |

*Properties that are conjunctions.* `TextsAreAccountedFor` is
`NoTextLostOrRepeated` (an accepted text waits once, is answered once or was
removed) and `RefusedLeavesNothing`; `CreditIsAccountedFor` is
`CreditCoversReservations`, `BalanceHasReceipts` and `CostStaysWithinLimit`;
`SignInIsEarned` is `CodeIsForThisAddress` and `OnboardingAfterSignIn`;
`SavesGoWhereShown` the two halves of a save. `OneAnswerPerRun` is about the lock:
two answers in their transactions at once, one of which stores. `EveryQuestionEnds`
asks for a question's turn only while its member is signed in, `OpenChatIsShown`
for the moment the rows arrive, `FinishMovesQueueOn` for what waits while the
finish of a run is handled; what is left out each time is refuted in section 5.
The parts are named in the modules.

*Bounds.* Runs do not interact in `RunLifecycle` except in Reconcile's loop, so
one run with all five actors has every race; the proofs cover any number.
A conversation needs one message to hold the lock, one to queue and one queued
text to race with both; three runs let a drain follow a drain. Two different
bodies are the least for which an answer is refused. Two runs and a
credit of two cents are the least for which a reservation is clamped, a second
creation is refused, and both charge at once; two steps and repeated reports
cover the order of charges, and a top-up arrives at any point. Three ticks with
periods 1 and 2 let an occurrence be missed, caught up and rescheduled; two
faults let a crash follow a failed write. Two deliveries at a time contend for
the lock of one order, and two losses let a delivery fail and its repetition go
unanswered. In the browser an instance has one more of everything than the
race needs: two conversations (or one and an issue) so that one is elsewhere, two
changes so that a second arrives behind the first, one fault. `Routes` are the
addresses a page is opened at, with and without a conversation. `MaxSteps` counts
edits, replies, moves, forks and changes of status of a thread; sending, steering
and stopping are bounded by its texts. `DemoScreens` are an onboarding step, the
first-run workspace and the first page; `?demo` is tried at the first frame and at
the one that waits for an approval. `RunThreads` needs a child that runs and one
that waits for an answer. Of the documents of a routine one has a first line and
one has headings only; `Lines` and `Short` hold one prompt that can be sent and
one that cannot. In `Desks` a behaviour of the routine desk has one of three
budgets - many places, or a record looked at in full, or instructions edited and
a run - because together they only multiply.

*Fairness.* Goroutines and requests that have started run on, and the ticker of
the scheduler keeps ticking (`time.NewTicker`, also after a restart, because
`main` starts it): weak fairness of their next step. Waiting for a row lock is
strongly fair, because Postgres grants it in turn. Time passes. Stripe delivers
an event again until it is answered. In the browser a timer that is set fires,
a request is answered or fails, and a socket that is down is retried: weak
fairness of each. Nothing is assumed of providers, runtimes, customers and
people; in particular no run is assumed to end, and `FinishMovesQueueOn` begins
where one has. An answer that is being stored is stored or refused (`AnswerEnds`),
or else it would hold the lock for good. The callbacks and timers of a thread are
fair only in `QueueDrains.cfg` (`ThreadsSpec`), where a property needs it.
`CHECK_DEADLOCK FALSE` is used where everything may legitimately come to rest: all runs ended, all messages handled, all bounds used up.

*Mutants.* Beside the definitions that carry a property stands the same
operator with a plausible bug; `PROJECT.json` pairs them. The modules never use
them.

## 5. Disagreements between the code and what it says

The four runs above that are refuted quote their comment, test or message in
`PROJECT.json`. The configurations below each refute one more property; the
comment at the property says which words of the code it takes up, if any. They
are not among the runs of the project and are run by hand, with
`tlc -config <configuration> <module>`:

| configuration | module | property | what happens |
|---|---|---|---|
| `RunStaleRead.cfg` | `RunLifecycle` | `ReconcileSparesLiveRun` | Reconcile fails a run that reported after its query |
| `RunLeak.cfg` | `RunLifecycle` | `EndedRunHasNoSandbox` | a cancel that read the run before the link, and writes after the launcher's check, leaves the sandbox |
| `ConversationCancel.cfg` | `ConversationQueue` | `QueueMovesOn` | after a cancel nothing drains: a queued message waits until the next one |
| `ConversationIdle.cfg` | `ConversationQueue` | `QueueMovesOn` | a text queued when no run is live, or just after its run has finished, waits although every run is ended by its runtime: `enqueueMessage` does not look for one |
| `CreditRoutine.cfg` | `CreditLedger` | `SpendingIsCharged` | a routine that comes back to a step reports the attempt's own cost, and is undercharged; `ReportedCostIsCharged` makes the exception by name |
| `LiveEvents.cfg` | `LiveSync` | `EventsRefreshAll` | an event about a run takes the place of the timer of a full refresh |
| `LiveOverwrite.cfg` | `LiveSync` | `OpenChatNeverGoesBack` | `refreshActiveWork` sets the list it copied before two more requests, over rows that came meanwhile |
| `ComposerDrafts.cfg` | `MCWriting` | `DraftsIsolated` | the answer of a send clears the draft of the conversation that is open by then |
| `DockQueue.cfg` | `MCWriting` | `WaitingQuestionEnds` | an answer that comes while another member is signed in does not take up the queue, and nothing does when its member returns |
| `ThreadSteer.cfg` | `MCWriting` | `SteeredTextsLand` | a row is taken out of the queue, a new chat opens, and the timer that steers the text finds no conversation |
| `QueueDrains.cfg` | `MCWriting` | `QueuedGoesOut` | a text queued in a thread stays queued when the turn finishes |
| `LandingSwitch.cfg` | `Landing` | `EverySwitchSurvivesReload` | the API fallback is handed to `persist()`, which does not store it |
| `IssueFiles.cfg` | `MCDesks` | `FileIsOfThisLiveConversation` | with a server, going to another conversation leaves the file of the one before in the pane |
| `IssueMerge.cfg` | `MCDesks` | `MergedByItsOwner` | the gate is a snapshot: who owned the issue when its Files were first opened may merge after the owner has changed |
| `RoutineForm.cfg` | `MCDesks` | `OpensOnItsOwn` | the form of a new routine opens on what the last one left, and an edit on the document of the routine that is open |
| `RoutinePrompt.cfg` | `MCDesks` | `NothingElseIsSent` | a document of headings sends the prompt of before, which the form does not show |
| `RunReplies.cfg` | `MCDesks` | `ReplyIsInTheThread` | the main composer keeps the context of an earlier reply, and what it sends is stored with the run's summary, which a run with a transcript does not show |

Two more behaviours are visible in `ConversationQueue` and are noted as hazards:
a queued text removed while a drain holds it is run all the same; a text that
cannot be started blocks the ones behind it.

## 6. Proofs

`RunLifecycleProofs` - from `RestartsAssumption` alone, for any set of runs:
`TypeCorrect`, `StatusesAgree`, `KillsAreSafe`, `OutcomesAreFinal`,
`LauncherIsHarmless`, `RunsHaveOneOutcome`. The inductive invariant `IInv` adds
to the type invariant and `FinishedIffTerminal`: a run that somebody launches,
claims or ends has been recorded (`Recorded`); whoever holds a kill, or a
`Finish` that won, has seen the run end (`KillersSawTheEnd`); a launcher that
has not taken the token has no sandbox and no runtime yet (`NotLaunchedYet`).
The first is needed because `Claim` tests the status only and `Finish` the
time only: without the agreement of the two columns neither preserves the
outcome. The second carries `KillsOnlyEndedRuns` over the unguarded steps, and
the third rules out that a runtime has claimed a run whose launch was parked.
One lemma per action group shows that it preserves `IInv`; the two action
properties follow from `IInv` and the guards; refinement maps each step to
`Open`, `Close` or a stutter.

`CreditLedgerProofs` - from the assumptions on amounts, which include that the
sets of runs, steps and top-ups are finite, and for runs of every purpose:
`RetriesNeverOvercharge`, `ReportsAreCharged` and `CreditIsSafe`
(`CreditIsAccountedFor`). What `ReportsAreCharged` says of a routine is that each
of its reports is charged; that its spending is, is false. The inductive invariant of the first two says that
every report ever sent is at most what its step cost when it was sent
(`ReportsAreHonest`), that a run being created has no history
(`CreationsAreNew`), and that a step is charged up to every report that was
acknowledged, and all that was sent is when the runtime goes on
(`ChargedUpToReport`, `SentIsCharged`). The third is about sums over all runs. What
the library offers for induction over finite sets takes an operator as a
parameter, which the provers cannot instantiate; so the lemmas about sums - one
amount changes, one is taken away, sums compare as their amounts do - are proved
with the least counterexample (`MinimalSubset`): a set of subsets that is not
empty has a member with no smaller one in it. With them each action is a change
of one amount on each side of an equation.

`ConversationQueueProofs` - for any texts, runs and restarts:
`ConversationHasOneRun` and `RunAnswersOnce`. One live run is not inductive by
itself. It needs that the row lock has one holder (`LockIsExclusive`) and that
what a holder read when it decided to start a run stays so until it commits
(`StartersSeeNoRun`): runs may end without the lock, but none begins. One answer
needs the same of an answer that is being stored: the earlier answer it has read
is the one there is (`AnswersAreRead`), because answers are stored under the
lock only. The
lemmas follow the lock: the actions that take it, those that start a run and
let it go, and the rest, of which it is enough that they make no holder and open
no run.

The same module proves `EveryTextIsAccountedFor` and `DrainsTakeTheOldest`. The
invariant (`QInv`) says that the accepted texts are those whose request was
answered, each once; that the queue stands in the order of acceptance
(`QueueIsInOrder`); that a text in a prompt has left the queue and is in no
other prompt (`RunsAnswerAccepted`); that an accepted text is queued, in a
prompt or removed (`NothingIsLost`); and that what a drain has read may have
been removed since, but no run has begun with it and nothing older came into the
queue (`PickedIsOldest`), which makes the order of drains inductive. Removing
the first occurrence from a queue without repetitions is characterised by one
lemma (what stays, in which order, and that nothing stays twice).

`ServerProofs` - about `MCServer`, for any routines, periods, orders, deliveries
and bounds: `SchedulerTypeCorrect` and `OnlySharedRowsFireTwice` of the
scheduler, `CreditedOnce` of the payments. A step of the composition is a step of
the part or leaves its variables alone. `OnlySharedRowsFireTwice` is about any
number of replicas and says where the danger lies: as long as no two of them are
at work on one routine at the same time (`RowsAreNotShared`), `NoBurst` and
`FiresOnce` hold. The claim's `skip locked` gives that only until the claim
commits, and the run `ScheduleReplicas` shows what follows; one replica always
satisfies it. Neither conclusion is inductive. They follow from one idea: every time a
routine may still fire at is later than all runs created for it under its
present trigger. The time stands on the row (`NextIsLater`), or was claimed from
it and is held by the loop (`ClaimIsLater`), or was computed from the clock and
is not written back (`PlanIsLater`); an edit between claim and write-back begins
a new trigger, for which nothing has fired. In payments, an order that was not
stored has no history (`NewOrdersAreNew`), holders of its row lock agree
(`LockHoldersAgree`), Stripe only tells what happened (`EventsAreTrue`), and the
ledger has one row for an order recorded as paid and none for any other
(`LedgerAgrees`).

`LiveSyncProofs` - for any conversations, changes and faults:
`PageNeverGoesBack`. Whatever a hydration may take its rows from - server, cache,
boot snapshot - is as new as the page, and the rows it carries are those the
cache holds (`RowsAreNewer`). That last part is what the proof is about: a
navigation may begin from the cache while no hydration carries rows, and one
that carries rows is joined, not replaced (`CallsBeginEmptyHanded`).

`WritingProofs` - about `MCWriting`, from `WritingConstants`, for any members,
conversations, files and texts: `MessagesGoWhereWritten` and
`SendButtonNeverLies` of the composer, `QuestionsAreNotLost` of the dock,
`TextsAreNotLost` and `StopIsFinal` of the thread. A job of the composer that
waits for its conversation was written on the new-chat screen, and one that
waits for its message knows where it goes (`Addressed`), whatever page is open.
The button is drawn from a rendered copy of the draft; it is right because the
field that lags follows the draft of the page it is bound to (`Tracked`). Threads of issues
are places like conversations. In the dock all that can happen to a slot is put in one lemma, `OneSlotKeepsQuestions`:
what a slot gives up was removed by its member or is on its way. For the thread
a relation between a page and the next (`Follows`) says that no text is lost and
no paused chat answered; one lemma for each kind of change (a queue, the
messages of a place, the answers, the field) shows it, and every control of the
page is an instance of them. The invariant adds what makes the cuts and the
forks harmless: an edit points at a message that is there, and a chat that does
not exist has no messages that a fork could overwrite (`ChatsAreThere`). What
the markup offers is needed as well (`OfferedByTheThread`): that a row is moved,
steered or removed only while it is in the queue is the page's doing, not the
handler's. A callback is a step like any other: what waits in `soon` counts as
under way (`Away`), sending from a callback is the same lemma as sending from a
click, and what a steering that finds no conversation drops is counted, not
denied.

`LandingProofs` - for any addresses, demos and choices: `NobodySkipsTheSignIn`,
which excepts the page an address with `?demo` shows, and `NoChoiceIsLost`, which
is about the six keys `persist()` stores. That the steps behind the sign-in are earned needs to know what
is under way: a request for a code is about the address in the form, because
while one is in flight the address cannot be edited (`RequestIsForThisAddress`).
What is stored is compared with what is shown after every action, reloads and
the way back from GitHub included.

`DesksProofs` - about `MCDesks`, for any members, issues, chats, routines and
runs: `ClosingSettlesTheReview`, `FilesStayWithTheirConversation`,
`MergesWereLookedAt` and `FormsSaveWhatTheyShow`. The second is about the page
without a server; the last about the first line of the document, where it has
one. A review is open although
nothing is stored while it is implied by the owner, so closing has to settle
both; the gate keeps a snapshot only from when the files were opened
(`StoredIsSeen`). A save in flight is compared with the form it left, which may show
another routine by the time it is answered (`GoodCall`).

For the threads of runs it proves `BackAlwaysClimbs`, `InstructionsStayInPlace`
and the action property `RecordsAreNotRewritten`. Back is right because the
stack is never anything but the way up from the run that is open
(`WaysAreKept`), whatever opened, left or closed it; that needs to know what the
markup offers: a child is opened from its parent only. A record only grows
because an answer, which takes the place of the last entry, comes before
anything that is added behind it: a child that waits can be neither instructed
nor stopped (`WaitingIsUntouched`), and its transcript ends with the notice it
waits with. The last is an assumption on `Script` (`RunThreadsConstants`): the
transcripts are written in `runs16.js`, and the one child that waits there ends
so.

Only model-checked: liveness, for the prover handles neither fairness nor
ENABLED.

## 7. Not modelled

The components marked `not_modelled` in `PROJECT.json`, with the reason at
each: mostly handlers of one statement, lookups, formatting and pure I/O, where
no step can come between two others.

Of the server: the issue handlers (`api/issues.go`) and the issue half of
`afterRun`; workflow graphs, which run inside one process; answers to a run's
questions (`api/run_input.go`); the realtime hub (in memory, under one mutex;
what a lost event means is in `LiveSync`); sign-in and sessions, whose codes
are single statements with counters; model accounts, whose refresh depends on
rules of the providers; the MCP server, the plain create-read-update-delete
handlers, the v1 import, the command line client, and deployment. Within the
modelled parts: authorisation and scoping by workspace, attachments and
connectors (a refusal is one failing branch), forking and renaming
conversations, stored events, the Spec a runtime receives, graceful shutdown (a
restart may lose any step that is under way), and refusals of webhooks.

Of the web application: settings, search, knowledge and the other forms that
write one row each (`page-settings.tsx`, `overlay-overlay12-1.tsx`),
`live/map.ts`, routing. Within the modelled parts: marketing sections,
animations and the preview dialog of the public page; previews, live rows,
scroll offsets and the discussion of a question in `RunThreads`; mentions,
recall, voice, `/compact` and `sharedWork10` in `ThreadQueue`; dictation,
position and size in `Dock`; unfolding, pickers, the live pull-request pane,
phase cards and `approveDecision9` in `IssueDesk`; repair controls and limits
that only the browser keeps in `RoutineDesk`. `page-issue-detail.tsx` and
`page-autopilot-details.tsx` are opened by nothing.
