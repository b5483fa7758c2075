----------------------------- MODULE RunLifecycle -----------------------------
(***************************************************************************)
(* The run service (server/internal/runs/runs.go) with everybody who acts  *)
(* on a run: the goroutine that launches its sandbox, the runtime inside   *)
(* the sandbox, the user who cancels, the scheduler tick that reconciles.  *)
(* Every action is one database statement (or one committed transaction)   *)
(* of the code; between two statements of the same Go function the others  *)
(* take steps.  A server restart loses every goroutine and request, and    *)
(* keeps the database, the sandboxes and the runtimes.                     *)
(*                                                                         *)
(* Abstractions: time is one flag per run, "the deadline Reconcile looks   *)
(* at has passed"; sandboxes.status and ended_at are written by the code   *)
(* and read by nothing, so of the sandboxes table only external_id is      *)
(* kept; a statement whose error the code ignores succeeds.                *)
(***************************************************************************)
EXTENDS Naturals, FiniteSets

CONSTANTS Runs,        \* the runs that may be created
          MaxRestarts  \* bound on server restarts

ASSUME RestartsAssumption == MaxRestarts \in Nat

VARIABLES
    status,    \* runs.status ("none" before the row exists)
    finished,  \* runs.finished_at is not null
    linked,    \* runs.sandbox_id is not null
    external,  \* sandboxes.external_id of the run's row is set
    overdue,   \* heartbeat_at (running) or queued_at (provisioning) is too old
    launcher,  \* where the dispatch goroutine of the run stands
    box,       \* the sandbox at the provider
    runtime,   \* the runtime process in the sandbox
    call,      \* the Finish calls in flight, by caller and run
    killing,   \* a kill goroutine started by Finish has not run yet
    restarts   \* server restarts so far

vars == <<status, finished, linked, external, overdue, launcher, box, runtime,
          call, killing, restarts>>
-------------------------------------------------------------------------------
Outcomes == {"done", "failed", "cancelled"}
Statuses == {"none", "queued", "provisioning", "running", "waiting"} \cup Outcomes
Callers  == {"runtime", "user", "reconciler"}

\* A Finish call holds the Run its caller read earlier; only the status it
\* writes and whether that copy had a sandbox id matter.
Idle == [at |-> "idle", to |-> "none", link |-> FALSE]
Call(at, to, link) == [at |-> at, to |-> to, link |-> link]
Calls == [at : {"read", "won"}, to : Outcomes, link : BOOLEAN] \cup {Idle}

TypeOK ==
    /\ status \in [Runs -> Statuses]
    /\ finished \in [Runs -> BOOLEAN]
    /\ linked \in [Runs -> BOOLEAN]
    /\ external \in [Runs -> BOOLEAN]
    /\ overdue \in [Runs -> BOOLEAN]
    /\ launcher \in [Runs -> {"none", "park", "start", "row", "provision", "fail",
                              "record", "link", "check", "kill", "end"}]
    /\ box \in [Runs -> {"none", "asked", "up", "gone"}]
    /\ runtime \in [Runs -> {"none", "booting", "working", "finishing", "off"}]
    /\ call \in [Callers -> [Runs -> Calls]]
    /\ killing \in [Runs -> BOOLEAN]
    /\ restarts \in 0..MaxRestarts

Init ==
    /\ status = [r \in Runs |-> "none"]
    /\ finished = [r \in Runs |-> FALSE]
    /\ linked = [r \in Runs |-> FALSE]
    /\ external = [r \in Runs |-> FALSE]
    /\ overdue = [r \in Runs |-> FALSE]
    /\ launcher = [r \in Runs |-> "none"]
    /\ box = [r \in Runs |-> "none"]
    /\ runtime = [r \in Runs |-> "none"]
    /\ call = [c \in Callers |-> [r \in Runs |-> Idle]]
    /\ killing = [r \in Runs |-> FALSE]
    /\ restarts = 0
-------------------------------------------------------------------------------
(* Recording a run and launching its sandbox.                               *)

Goto(r, from, to) ==
    /\ launcher[r] = from
    /\ launcher' = [launcher EXCEPT ![r] = to]

\* The row is committed as 'queued', then Dispatch starts the goroutine.  With
\* the routing fallback "wait" no account pays for the run.
Create(r, funding) ==
    /\ status[r] = "none"
    /\ status' = [status EXCEPT ![r] = "queued"]
    /\ Goto(r, "none", IF funding = "wait" THEN "park" ELSE "start")
    /\ UNCHANGED <<finished, linked, external, overdue, box, runtime, call, killing, restarts>>

\* setStatus leaves a finished run alone.  (Without its guard, a bug:)
ParkedStatusUnguarded(r) == "waiting"
ParkedStatus(r) == IF finished[r] THEN status[r] ELSE "waiting"

\* A run nobody can pay for waits.
Park(r) ==
    /\ Goto(r, "park", "end")
    /\ status' = [status EXCEPT ![r] = ParkedStatus(r)]
    /\ UNCHANGED <<finished, linked, external, overdue, box, runtime, call, killing, restarts>>

\* The token is stored with the move to 'provisioning', only for a run that is
\* still queued; otherwise the launch is dropped.
TakeToken(r) ==
    /\ IF status[r] = "queued" /\ ~finished[r]
         THEN /\ Goto(r, "start", "row")
              /\ status' = [status EXCEPT ![r] = "provisioning"]
         ELSE /\ Goto(r, "start", "end")
              /\ UNCHANGED status
    /\ UNCHANGED <<finished, linked, external, overdue, box, runtime, call, killing, restarts>>

\* The sandboxes row is inserted and the provider is asked for a sandbox.
InsertSandbox(r) ==
    /\ Goto(r, "row", "provision")
    /\ box' = [box EXCEPT ![r] = "asked"]
    /\ UNCHANGED <<status, finished, linked, external, overdue, runtime, call, killing, restarts>>

\* The token update or the row insert fails: logged, and the goroutine returns.
LaunchAborts(r) ==
    /\ \/ Goto(r, "start", "end")
       \/ Goto(r, "row", "end")
    /\ UNCHANGED <<status, finished, linked, external, overdue, box, runtime, call, killing, restarts>>

\* Provision answers with a sandbox, or with an error: a slow provider may
\* have started the sandbox all the same.
ProvisionReturns(r) ==
    /\ \/ box[r] \in {"up", "gone"} /\ Goto(r, "provision", "record")
       \/ Goto(r, "provision", "fail")
    /\ UNCHANGED <<status, finished, linked, external, overdue, box, runtime, call, killing, restarts>>

\* After a launch error only a run still in 'provisioning' is failed.
\* (With the test on finished_at alone, a bug:)
LaunchFailsOpenRun(r) == ~finished[r]
LaunchFailsRun(r) == status[r] = "provisioning" /\ ~finished[r]

FailLaunch(r) ==
    /\ Goto(r, "fail", "end")
    /\ IF LaunchFailsRun(r)
         THEN /\ status' = [status EXCEPT ![r] = "failed"]
              /\ finished' = [finished EXCEPT ![r] = TRUE]
         ELSE UNCHANGED <<status, finished>>
    /\ UNCHANGED <<linked, external, overdue, box, runtime, call, killing, restarts>>

RecordExternal(r) ==
    /\ Goto(r, "record", "link")
    /\ external' = [external EXCEPT ![r] = TRUE]
    /\ UNCHANGED <<status, finished, linked, overdue, box, runtime, call, killing, restarts>>

LinkSandbox(r) ==
    /\ Goto(r, "link", "check")
    /\ linked' = [linked EXCEPT ![r] = TRUE]
    /\ UNCHANGED <<status, finished, external, overdue, box, runtime, call, killing, restarts>>

\* The launcher reads the run again: it kills a sandbox whose run has ended.
\* (Not looking, or taking every run that is not running for ended, bugs:)
NeverSurplus(r) == FALSE
SurplusUnlessRunning(r) == status[r] # "running"
SurplusSandbox(r) == finished[r]

CheckEnded(r) ==
    /\ Goto(r, "check", IF SurplusSandbox(r) THEN "kill" ELSE "end")
    /\ UNCHANGED <<status, finished, linked, external, overdue, box, runtime, call, killing, restarts>>

\* The sandbox goes away and takes the runtime process with it.
StopBox(r) ==
    /\ box' = [box EXCEPT ![r] = IF box[r] = "up" THEN "gone" ELSE @]
    /\ runtime' = [runtime EXCEPT ![r] = IF box[r] = "up" THEN "off" ELSE @]

LauncherKills(r) ==
    /\ Goto(r, "kill", "end")
    /\ StopBox(r)
    /\ UNCHANGED <<status, finished, linked, external, overdue, call, killing, restarts>>

\* The steps of the launcher that need no answer from outside.
Launch(r) ==
    \/ Park(r) \/ TakeToken(r) \/ InsertSandbox(r) \/ ProvisionReturns(r)
    \/ FailLaunch(r) \/ RecordExternal(r) \/ LinkSandbox(r) \/ CheckEnded(r)
    \/ LauncherKills(r)
-------------------------------------------------------------------------------
(* The sandbox and the runtime in it.                                       *)

\* The provider starts what it was asked for, at its own time.
BoxStarts(r) ==
    /\ box[r] = "asked"
    /\ box' = [box EXCEPT ![r] = "up"]
    /\ runtime' = [runtime EXCEPT ![r] = "booting"]
    /\ UNCHANGED <<status, finished, linked, external, overdue, launcher, call, killing, restarts>>

\* The claim moves the run to 'running' and starts its heartbeat.  When the
\* answer is lost the runtime claims again.
Claim(r) ==
    /\ runtime[r] = "booting"
    /\ status[r] \in {"provisioning", "running", "waiting"}
    /\ status' = [status EXCEPT ![r] = "running"]
    /\ overdue' = [overdue EXCEPT ![r] = FALSE]
    /\ \E next \in {"booting", "working"} : runtime' = [runtime EXCEPT ![r] = next]
    /\ UNCHANGED <<finished, linked, external, launcher, box, call, killing, restarts>>

\* Events and the empty heartbeat batch refresh heartbeat_at.
AppendEvents(r) ==
    /\ runtime[r] \in {"working", "finishing"}
    /\ ~finished[r]
    /\ overdue' = [overdue EXCEPT ![r] = FALSE]
    /\ UNCHANGED <<status, finished, linked, external, launcher, box, runtime, call, killing, restarts>>

\* The statuses a step is reported with.
ReportStatuses == {"running", "waiting", "done", "changes", "skipped", "stuck"}

\* Only 'running' and 'waiting' carry over from the step to the run.  (Copying
\* every step status to the run, a bug:)
StatusIsStep(r, step) == step
StatusAfterStep(r, step) == IF step \in {"waiting", "running"} THEN step ELSE status[r]

\* A step report; the run row is locked and a finished run refuses it.
UpdateStep(r, step) ==
    /\ runtime[r] = "working"
    /\ ~finished[r]
    /\ status' = [status EXCEPT ![r] = StatusAfterStep(r, step)]
    /\ UNCHANGED <<finished, linked, external, overdue, launcher, box, runtime, call, killing, restarts>>

\* A finished run's token is refused and the runtime stops; it also dies
\* when its sandbox runs out of time or memory.
RuntimeStops(r) ==
    /\ runtime[r] \in {"booting", "working", "finishing"}
    /\ runtime' = [runtime EXCEPT ![r] = "off"]
    /\ UNCHANGED <<status, finished, linked, external, overdue, launcher, box, call, killing, restarts>>

\* The sandbox reaches its time to live.
BoxExpires(r) ==
    /\ box[r] = "up"
    /\ StopBox(r)
    /\ UNCHANGED <<status, finished, linked, external, overdue, launcher, call, killing, restarts>>
-------------------------------------------------------------------------------
(* Ending a run: Finish on a Run its caller has read before.                *)

Begin(c, r, to) ==
    /\ call[c][r] = Idle
    /\ call' = [call EXCEPT ![c][r] = Call("read", to, linked[r])]

\* POST finish: the run is read by the token check; a repeated request after
\* a lost answer passes the check only while the run is open.
RuntimeFinishes(r, to) ==
    /\ runtime[r] \in {"working", "finishing"}
    /\ ~finished[r]
    /\ Begin("runtime", r, to)
    /\ runtime' = [runtime EXCEPT ![r] = "finishing"]
    /\ UNCHANGED <<status, finished, linked, external, overdue, launcher, box, killing, restarts>>

\* Cancel reads the run and returns at once when it has finished.
UserCancels(r) ==
    /\ status[r] # "none"
    /\ ~finished[r]
    /\ Begin("user", r, "cancelled")
    /\ UNCHANGED <<status, finished, linked, external, overdue, launcher, box, runtime, killing, restarts>>

\* The runs one Reconcile query returns.  (Without the clause for runs that
\* were never claimed, a bug:)
StaleRunning == {r \in Runs : status[r] = "running" /\ overdue[r]}
Stale == {r \in Runs : status[r] \in {"provisioning", "running"} /\ overdue[r]}

\* Reconcile reads all stale runs first and only then finishes them, one by one.
ReconcileReads ==
    /\ \A r \in Runs : call["reconciler"][r] = Idle
    /\ Stale # {}
    /\ call' = [call EXCEPT !["reconciler"] =
                   [r \in Runs |-> IF r \in Stale THEN Call("read", "failed", linked[r]) ELSE Idle]]
    /\ UNCHANGED <<status, finished, linked, external, overdue, launcher, box, runtime, killing, restarts>>

\* "where finished_at is null".  (Without it, a bug:)
AlwaysFinishable(r) == TRUE
Finishable(r) == ~finished[r]

\* The one statement that decides who ended the run: the others get
\* "run has already finished".
FinishWrites(c, r) ==
    /\ call[c][r].at = "read"
    /\ c = "reconciler" => \A q \in Runs : call[c][q].at \in {"idle", "read"}
    /\ IF Finishable(r)
         THEN /\ status' = [status EXCEPT ![r] = call[c][r].to]
              /\ finished' = [finished EXCEPT ![r] = TRUE]
              /\ call' = [call EXCEPT ![c][r].at = "won"]
         ELSE /\ call' = [call EXCEPT ![c][r] = Idle]
              /\ UNCHANGED <<status, finished>>
    /\ UNCHANGED <<linked, external, overdue, launcher, box, runtime, killing, restarts>>

\* The winner looks for a sandbox to kill, in the copy of the run it read
\* before, and starts a goroutine that kills it.
FinishKills(c, r) ==
    /\ call[c][r].at = "won"
    /\ killing' = [killing EXCEPT ![r] = @ \/ (call[c][r].link /\ external[r])]
    /\ call' = [call EXCEPT ![c][r] = Idle]
    /\ UNCHANGED <<status, finished, linked, external, overdue, launcher, box, runtime, restarts>>

KillBox(r) ==
    /\ killing[r]
    /\ killing' = [killing EXCEPT ![r] = FALSE]
    /\ StopBox(r)
    /\ UNCHANGED <<status, finished, linked, external, overdue, launcher, call, restarts>>
-------------------------------------------------------------------------------
(* Time and restarts.                                                       *)

\* Three minutes without a heartbeat, or ten since the run was queued.
TimePasses(r) ==
    /\ status[r] \in {"provisioning", "running"}
    /\ ~overdue[r]
    /\ overdue' = [overdue EXCEPT ![r] = TRUE]
    /\ UNCHANGED <<status, finished, linked, external, launcher, box, runtime, call, killing, restarts>>

\* The server process restarts; nothing in it resumes a launch or a call.
Restart ==
    /\ restarts < MaxRestarts
    /\ restarts' = restarts + 1
    /\ launcher' = [r \in Runs |-> IF launcher[r] = "none" THEN "none" ELSE "end"]
    /\ call' = [c \in Callers |-> [r \in Runs |-> Idle]]
    /\ killing' = [r \in Runs |-> FALSE]
    /\ UNCHANGED <<status, finished, linked, external, overdue, box, runtime>>

Next ==
    \/ \E r \in Runs :
         \/ \E funding \in {"paid", "wait"} : Create(r, funding)
         \/ Launch(r) \/ LaunchAborts(r)
         \/ BoxStarts(r) \/ BoxExpires(r)
         \/ Claim(r) \/ AppendEvents(r) \/ RuntimeStops(r)
         \/ \E step \in ReportStatuses : UpdateStep(r, step)
         \/ \E to \in Outcomes : RuntimeFinishes(r, to)
         \/ UserCancels(r)
         \/ \E c \in Callers : FinishWrites(c, r) \/ FinishKills(c, r)
         \/ KillBox(r) \/ TimePasses(r)
    \/ ReconcileReads
    \/ Restart

Spec == Init /\ [][Next]_vars

\* Goroutines and requests that have started run on; the scheduler's ticker
\* keeps calling Reconcile; time passes.  Nothing obliges a provider to start
\* a sandbox, a runtime to report, a user to cancel or a server to restart.
Fairness ==
    /\ \A r \in Runs :
         /\ WF_vars(Launch(r))
         /\ \A c \in Callers : WF_vars(FinishWrites(c, r) \/ FinishKills(c, r))
         /\ WF_vars(KillBox(r))
         /\ WF_vars(TimePasses(r))
    /\ WF_vars(ReconcileReads)

FairSpec == Spec /\ Fairness
-------------------------------------------------------------------------------
(* Safety.                                                                  *)

\* The status column and finished_at never disagree: Claim tests only the
\* status, Finish and the queue of a conversation only finished_at.
FinishedIffTerminal == \A r \in Runs : finished[r] <=> status[r] \in Outcomes

\* The first outcome written stands: no late launch error, claim, report,
\* finish, cancel or reconciliation changes a run that has ended.
OutcomeIsFinal ==
    [][\A r \in Runs : finished[r] => finished'[r] /\ status'[r] = status[r]]_vars

\* A run that a runtime has claimed is never ended by its launcher, however
\* late the provider's error arrives.
LauncherSparesClaimedRun ==
    [][\A r \in Runs : status[r] \in {"running", "waiting"} /\ launcher'[r] # launcher[r]
         => status'[r] = status[r]]_vars

\* The server kills the sandboxes of ended runs only: no kill is under way for
\* a run that is still open.
KillsOnlyEndedRuns ==
    \A r \in Runs : killing[r] \/ launcher[r] = "kill" => finished[r]

\* Every run behaves as RunOutcome says.
Phase == [r \in Runs |-> IF status[r] \in Outcomes \cup {"none"} THEN status[r] ELSE "open"]
Outcome == INSTANCE RunOutcome WITH phase <- Phase
OutcomeSpec == Outcome!Spec
-------------------------------------------------------------------------------
(* Liveness.                                                                *)

\* A run in 'provisioning' or 'running' whose runtime is gone for good.
Deserted(r) ==
    /\ status[r] \in {"provisioning", "running"}
    /\ runtime[r] = "off"

\* Reconcile ends every such run, over any number of ticks and restarts.
DesertedRunEnds == \A r \in Runs : Deserted(r) ~> finished[r]

\* A run that ends while its launcher still works on the sandbox does not keep
\* that sandbox, unless a restart loses the launcher.
EndedWhileStarting(r) ==
    /\ finished[r]
    /\ launcher[r] \in {"record", "link", "check"}
    /\ restarts = MaxRestarts

SandboxOfEndedLaunchGoes == \A r \in Runs : EndedWhileStarting(r) ~> box[r] # "up"
-------------------------------------------------------------------------------
(* What comments in the code say, and the runs of this module refute.       *)

\* "Reconcile fails runs whose runtime stopped reporting, and times out runs
\* that never claimed their sandbox": neither a run whose runtime went away with
\* its sandbox nor one that no launcher will ever launch stays open.  (A run
\* that waits because no account pays for it is not meant.)
Silent(r) == status[r] \in {"running", "waiting"} /\ box[r] = "gone"
Unlaunched(r) == status[r] = "queued" /\ launcher[r] = "end"

AbandonedRunEnds == \A r \in Runs : Silent(r) \/ Unlaunched(r) ~> finished[r]

\* Reconcile fails a run only while that run is overdue.
ReconcileSparesLiveRun ==
    [][\A r \in Runs : call["reconciler"][r].at = "read" /\ call'["reconciler"][r].at = "won"
         => r \in Stale]_vars

\* "Cancellation may win while the provider is starting the sandbox": once
\* launcher and callers are through, an ended run has no linked sandbox up.
Settled(r) ==
    /\ launcher[r] \in {"none", "end"}
    /\ \A c \in Callers : call[c][r] = Idle
    /\ ~killing[r]

EndedRunHasNoSandbox ==
    \A r \in Runs : Settled(r) /\ finished[r] /\ linked[r] => box[r] # "up"
===============================================================================
