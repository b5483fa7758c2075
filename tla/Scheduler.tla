------------------------------- MODULE Scheduler -------------------------------
(***************************************************************************)
(* The scheduler loop over the routines of the database                    *)
(* (server/internal/scheduler/scheduler.go) with the handlers that edit    *)
(* them (server/internal/api/autopilots.go).  A pass of the loop arms the  *)
(* schedules that have no next_run_at, then claims the due routines one by *)
(* one: the claim clears next_run_at, FireDue creates the run, and the     *)
(* time of the next run is computed and written back.  Every database      *)
(* statement, and every reading of the clock, is an action of its own.     *)
(*                                                                         *)
(* A cron expression is a period: it fires at the multiples of it.  Time 0 *)
(* is before every run and stands for null.  Manual and webhook triggers   *)
(* (period 0) never touch next_run_at when they fire.                      *)
(***************************************************************************)
EXTENDS Naturals, Sequences

CONSTANTS
    Routines,  \* the rows of autopilots that may be created
    Replicas,  \* the server processes, one scheduler loop each
    Periods,   \* the triggers: a period, or 0 for "no schedule"
    Edits,     \* what people do: "trigger", "toggle", "delete"
    MaxTime,   \* bound on the clock
    MaxEdits,  \* bound on the triggers set for one routine
    MaxFaults  \* bound on crashes and failed statements

SchedulerConstants ==
    /\ Periods \subseteq Nat
    /\ MaxTime \in Nat \ {0} /\ MaxEdits \in Nat \ {0} /\ MaxFaults \in Nat

VARIABLES
    now,
    state,    \* the row: "none", "on", "off" (enabled or not) or "gone"
    trigger,  \* autopilots.trigger
    next,     \* autopilots.next_run_at, 0 for null
    edit,     \* the request that is about to write a trigger
    edition,  \* history: the triggers set so far
    at,       \* where the loop of each replica stands
    todo,     \* the rows it still has to arm
    job,      \* the row it holds, with what it read and computed
    fired,    \* history: the runs the loops have created
    faults

vars == <<now, state, trigger, next, edit, edition, at, todo, job, fired, faults>>
rows == <<state, trigger, next, edit, edition>>

Null == 0
NoJob == [routine |-> {}, trigger |-> 0, due |-> Null, edition |-> 0, next |-> Null]

\* The first occurrence after a time ("sched.Next").
NextAt(period, t) == IF period = 0 THEN Null ELSE (t \div period + 1) * period

Jobs == [routine : {{}} \cup {{r} : r \in Routines}, trigger : Periods \cup {0},
         due : Nat, edition : 0..MaxEdits, next : Nat]

TypeOK ==
    /\ now \in 0..MaxTime
    /\ state \in [Routines -> {"none", "on", "off", "gone"}]
    /\ trigger \in [Routines -> Periods \cup {0}]
    /\ next \in [Routines -> Nat]
    /\ edit \in [Routines -> SUBSET [trigger : Periods, next : Nat]]
    /\ edition \in [Routines -> 0..MaxEdits]
    /\ at \in [Replicas -> {"idle", "arm", "armed", "fire", "create", "plan", "write"}]
    /\ todo \in [Replicas -> SUBSET [routine : Routines, trigger : Periods \ {0}]]
    /\ job \in [Replicas -> Jobs]
    /\ fired \in [Routines -> Seq([due : Nat, at : Nat, edition : Nat])]
    /\ faults \in 0..MaxFaults

Init ==
    /\ now = 0
    /\ state = [r \in Routines |-> "none"]
    /\ trigger = [r \in Routines |-> 0]
    /\ next = [r \in Routines |-> Null]
    /\ edit = [r \in Routines |-> {}]
    /\ edition = [r \in Routines |-> 0]
    /\ at = [s \in Replicas |-> "idle"]
    /\ todo = [s \in Replicas |-> {}]
    /\ job = [s \in Replicas |-> NoJob]
    /\ fired = [r \in Routines |-> <<>>]
    /\ faults = 0

Live(r) == state[r] \in {"on", "off"}
-------------------------------------------------------------------------------
(* The clock, and the people who edit routines.                             *)

Tick ==
    /\ now < MaxTime
    /\ now' = now + 1
    /\ UNCHANGED <<rows, at, todo, job, fired, faults>>

\* createAutopilot and updateAutopilot: parseTrigger reads the clock first,
\* the statement that writes the row comes later.
EditReads(r, p) ==
    /\ state[r] = "none" \/ ("trigger" \in Edits /\ Live(r))
    /\ edit[r] = {}
    /\ edition[r] < MaxEdits
    /\ edit' = [edit EXCEPT ![r] = {[trigger |-> p, next |-> NextAt(p, now)]}]
    /\ UNCHANGED <<now, state, trigger, next, edition, at, todo, job, fired, faults>>

\* The same statement may switch the routine on or off.
EditWrites(r, to) ==
    /\ edit[r] # {}
    /\ edit' = [edit EXCEPT ![r] = {}]
    /\ IF state[r] = "gone"
         THEN UNCHANGED <<state, trigger, next, edition>>
         ELSE \E e \in edit[r] :
                /\ state' = [state EXCEPT ![r] = to]
                /\ trigger' = [trigger EXCEPT ![r] = e.trigger]
                /\ next' = [next EXCEPT ![r] = e.next]
                /\ edition' = [edition EXCEPT ![r] = @ + 1]
    /\ UNCHANGED <<now, at, todo, job, fired, faults>>

\* A connector is not available, the server stops: the request comes to nothing.
EditAborts(r) ==
    /\ edit[r] # {}
    /\ edit' = [edit EXCEPT ![r] = {}]
    /\ UNCHANGED <<now, state, trigger, next, edition, at, todo, job, fired, faults>>

\* updateAutopilot without a trigger leaves next_run_at alone.
Toggle(r) ==
    /\ "toggle" \in Edits
    /\ Live(r)
    /\ state' = [state EXCEPT ![r] = IF @ = "on" THEN "off" ELSE "on"]
    /\ UNCHANGED <<now, trigger, next, edit, edition, at, todo, job, fired, faults>>

Delete(r) ==
    /\ "delete" \in Edits
    /\ Live(r)
    /\ state' = [state EXCEPT ![r] = "gone"]
    /\ UNCHANGED <<now, trigger, next, edit, edition, at, todo, job, fired, faults>>
-------------------------------------------------------------------------------
(* One pass of a loop: initializeSchedules.                                 *)

Goto(s, from, to) == at[s] = from /\ at' = [at EXCEPT ![s] = to]

\* (Leaving the rows without a time to those who edit them, a bug:)
NoneUnarmed == {}
Unarmed == {r \in Routines : state[r] = "on" /\ next[r] = Null /\ trigger[r] # 0}

Begin(s) ==
    /\ Goto(s, "idle", "arm")
    /\ todo' = [todo EXCEPT ![s] = {[routine |-> r, trigger |-> trigger[r]] : r \in Unarmed}]
    /\ UNCHANGED <<now, rows, job, fired, faults>>

ArmComputes(s) ==
    /\ Goto(s, "arm", "armed")
    /\ \E item \in todo[s] :
         /\ todo' = [todo EXCEPT ![s] = @ \ {item}]
         /\ job' = [job EXCEPT ![s] = [NoJob EXCEPT !.routine = {item.routine},
                                                    !.next = NextAt(item.trigger, now)]]
    /\ UNCHANGED <<now, rows, fired, faults>>

\* "... where id = $1 and next_run_at is null".
ArmWrites(s) ==
    /\ Goto(s, "armed", "arm")
    /\ next' = [r \in Routines |->
          IF r \in job[s].routine /\ Live(r) /\ next[r] = Null THEN job[s].next ELSE next[r]]
    /\ job' = [job EXCEPT ![s] = NoJob]
    /\ UNCHANGED <<now, state, trigger, edit, edition, todo, fired, faults>>
-------------------------------------------------------------------------------
(* The claim loop.                                                          *)

Due == {r \in Routines : state[r] = "on" /\ next[r] # Null /\ next[r] <= now}

\* "set next_run_at = null".  (Leaving the time until the run is created, a bug:)
ClaimedTime(r) == next[r]
ClearedTime(r) == Null

\* "order by next_run_at limit 1 for update skip locked".
Claim(s) ==
    /\ todo[s] = {}
    /\ Goto(s, "arm", "fire")
    /\ \E r \in Due :
         /\ \A q \in Due : next[r] <= next[q]
         /\ next' = [next EXCEPT ![r] = ClearedTime(r)]
         /\ job' = [job EXCEPT ![s] =
               [NoJob EXCEPT !.routine = {r}, !.trigger = trigger[r], !.due = next[r],
                             !.edition = edition[r]]]
    /\ UNCHANGED <<now, state, trigger, edit, edition, todo, fired, faults>>

\* No due row: the pass is over.
EndPass(s) ==
    /\ todo[s] = {}
    /\ Due = {}
    /\ Goto(s, "arm", "idle")
    /\ UNCHANGED <<now, rows, todo, job, fired, faults>>

\* FireDue reads the routine again; a paused or deleted one is not fired.
FireReads(s) ==
    /\ Goto(s, "fire", IF \E r \in job[s].routine : state[r] = "on" THEN "create" ELSE "plan")
    /\ UNCHANGED <<now, rows, todo, job, fired, faults>>

FireCreates(s) ==
    /\ Goto(s, "create", "plan")
    /\ fired' = [r \in Routines |->
          IF r \in job[s].routine
            THEN Append(fired[r], [due |-> job[s].due, at |-> now, edition |-> job[s].edition])
            ELSE fired[r]]
    /\ UNCHANGED <<now, rows, todo, job, faults>>

\* The run cannot be created (no credit, a connector gone); logged only.
FireFails(s) ==
    /\ Goto(s, "create", "plan")
    /\ UNCHANGED <<now, rows, todo, job, fired, faults>>

\* nextFrom reads the clock now, for the trigger that was claimed.  (Counting
\* from the claimed time instead, a bug:)
NextAfterDue(j) == NextAt(j.trigger, j.due)
NextFrom(j) == NextAt(j.trigger, now)

Plan(s) ==
    /\ Goto(s, "plan", IF job[s].trigger = 0 THEN "arm" ELSE "write")
    /\ job' = [job EXCEPT ![s].next = NextFrom(job[s])]
    /\ UNCHANGED <<now, rows, todo, fired, faults>>

\* The write-back does not look at what the row holds by now.
Reschedule(s) ==
    /\ Goto(s, "write", "arm")
    /\ next' = [r \in Routines |-> IF r \in job[s].routine /\ Live(r) THEN job[s].next ELSE next[r]]
    /\ job' = [job EXCEPT ![s] = NoJob]
    /\ UNCHANGED <<now, state, trigger, edit, edition, todo, fired, faults>>
-------------------------------------------------------------------------------
(* Faults.                                                                  *)

Fault ==
    /\ faults < MaxFaults
    /\ faults' = faults + 1

\* A write fails: logged, and the loop goes on.
WriteFails(s) ==
    /\ Fault
    /\ Goto(s, "armed", "arm") \/ Goto(s, "write", "arm")
    /\ job' = [job EXCEPT ![s] = NoJob]
    /\ UNCHANGED <<now, rows, todo, fired>>

\* The process stops at any point and comes up again; or the claim fails and
\* ends the pass.
Crash(s) ==
    /\ Fault
    /\ at[s] # "idle"
    /\ at' = [at EXCEPT ![s] = "idle"]
    /\ todo' = [todo EXCEPT ![s] = {}]
    /\ job' = [job EXCEPT ![s] = NoJob]
    /\ UNCHANGED <<now, rows, fired>>

Pass(s) ==
    \/ Begin(s) \/ ArmComputes(s) \/ ArmWrites(s) \/ Claim(s) \/ EndPass(s)
    \/ FireReads(s) \/ FireCreates(s) \/ FireFails(s) \/ Plan(s) \/ Reschedule(s)

Next ==
    \/ Tick
    \/ \E r \in Routines :
         \/ \E p \in Periods : EditReads(r, p)
         \/ \E to \in {"on", "off"} : EditWrites(r, to)
         \/ EditAborts(r) \/ Toggle(r) \/ Delete(r)
    \/ \E s \in Replicas : Pass(s) \/ WriteFails(s) \/ Crash(s)

Spec == Init /\ [][Next]_vars

\* The ticker keeps starting passes and a pass that has begun goes on, also
\* after a crash: the process is started again.
FairSpec == Spec /\ \A s \in Replicas : WF_vars(Pass(s))
-------------------------------------------------------------------------------
\* Two runs created for a routine under one trigger, the i-th before the j-th.
Successive(r, i, j) == i < j /\ fired[r][i].edition = fired[r][j].edition

\* "two replicas cannot double-fire": one occurrence of a schedule creates one
\* run.  Two loops that share a row do fire it twice.
FiresOnce ==
    \A r \in Routines : \A i, j \in DOMAIN fired[r] :
       Successive(r, i, j) => fired[r][i].due # fired[r][j].due

\* Occurrences missed while the loop was down, slow or the routine paused make
\* one run, not a burst: a run is never for a time before the last run.
NoBurst ==
    \A r \in Routines : \A i, j \in DOMAIN fired[r] :
       Successive(r, i, j) => fired[r][j].due > fired[r][i].at

\* "a restart never loses a schedule": an enabled schedule does not stay
\* without a next time or overdue, whatever crashes or fails on the way.
Overlooked(r) == state[r] = "on" /\ trigger[r] # 0 /\ (next[r] = Null \/ next[r] <= now)
NoScheduleLost == \A r \in Routines : Overlooked(r) ~> ~Overlooked(r)
===============================================================================
