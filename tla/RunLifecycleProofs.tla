-------------------------- MODULE RunLifecycleProofs --------------------------
(***************************************************************************)
(* Safety of the run service for every set of runs and every number of     *)
(* restarts.  The inductive invariant adds to the type invariant and to    *)
(* FinishedIffTerminal that nobody acts on a run before its row exists     *)
(* (Recorded), and that whoever is about to kill a sandbox has seen the    *)
(* run end (KillersSawTheEnd): a Finish call past its deciding statement,  *)
(* the kill goroutine it started, or the launcher after its check.  A run  *)
(* whose launcher has not taken its token has no sandbox and no runtime,   *)
(* so nobody can have claimed it (NotLaunchedYet).                         *)
(***************************************************************************)
EXTENDS RunLifecycle, TLAPS

-------------------------------------------------------------------------------
(* Each action, one lemma: the variables keep their types.                  *)

LEMMA InitTypeOK == Init => TypeOK
  <1> SUFFICES ASSUME Init PROVE TypeOK
    OBVIOUS
  <1>1. Idle \in Calls
    BY DEF Idle, Calls
  <1> QED
    BY <1>1, RestartsAssumption DEF Init, TypeOK, Statuses, Outcomes

LEMMA LaunchTypeOK ==
    ASSUME TypeOK, NEW r \in Runs, Launch(r) \/ LaunchAborts(r)
    PROVE  TypeOK'
  <1> USE DEF TypeOK, Goto, Statuses, Outcomes
  <1>1. CASE Park(r)
    BY <1>1 DEF Park, ParkedStatus
  <1>2. CASE TakeToken(r)
    BY <1>2 DEF TakeToken
  <1>3. CASE InsertSandbox(r)
    BY <1>3 DEF InsertSandbox
  <1>4. CASE ProvisionReturns(r)
    BY <1>4 DEF ProvisionReturns
  <1>5. CASE FailLaunch(r)
    BY <1>5 DEF FailLaunch
  <1>6. CASE RecordExternal(r)
    BY <1>6 DEF RecordExternal
  <1>7. CASE LinkSandbox(r)
    BY <1>7 DEF LinkSandbox
  <1>8. CASE CheckEnded(r)
    BY <1>8 DEF CheckEnded
  <1>9. CASE LauncherKills(r)
    BY <1>9 DEF LauncherKills, StopBox
  <1>10. CASE LaunchAborts(r)
    BY <1>10 DEF LaunchAborts
  <1> QED
    BY <1>1, <1>2, <1>3, <1>4, <1>5, <1>6, <1>7, <1>8, <1>9, <1>10 DEF Launch

LEMMA RuntimeTypeOK ==
    ASSUME TypeOK, NEW r \in Runs,
           \/ BoxStarts(r) \/ BoxExpires(r)
           \/ Claim(r) \/ AppendEvents(r) \/ RuntimeStops(r)
           \/ \E step \in ReportStatuses : UpdateStep(r, step)
    PROVE  TypeOK'
  <1> USE DEF TypeOK, Statuses, Outcomes
  <1>1. CASE BoxStarts(r)
    BY <1>1 DEF BoxStarts
  <1>2. CASE BoxExpires(r)
    BY <1>2 DEF BoxExpires, StopBox
  <1>3. CASE Claim(r)
    BY <1>3 DEF Claim
  <1>4. CASE AppendEvents(r)
    BY <1>4 DEF AppendEvents
  <1>5. CASE RuntimeStops(r)
    BY <1>5 DEF RuntimeStops
  <1>6. CASE \E step \in ReportStatuses : UpdateStep(r, step)
    BY <1>6 DEF UpdateStep, StatusAfterStep
  <1> QED
    BY <1>1, <1>2, <1>3, <1>4, <1>5, <1>6

LEMMA CallTypeOK ==
    ASSUME TypeOK, NEW r \in Runs, NEW c \in Callers,
           \/ \E to \in Outcomes : RuntimeFinishes(r, to)
           \/ UserCancels(r)
           \/ FinishWrites(c, r) \/ FinishKills(c, r)
    PROVE  TypeOK'
  <1> USE DEF TypeOK
  <1>i. Idle \in Calls
    BY DEF Calls
  <1>c. call[c][r] \in Calls
    OBVIOUS
  <1>1. CASE \E to \in Outcomes : RuntimeFinishes(r, to)
    BY <1>1 DEF RuntimeFinishes, Begin, Call, Calls, Callers
  <1>2. CASE UserCancels(r)
    BY <1>2 DEF UserCancels, Begin, Call, Calls, Callers, Outcomes
  <1>3. CASE FinishWrites(c, r)
    <2>1. ASSUME Finishable(r)
          PROVE  TypeOK'
      <3>1. /\ call[c][r].to \in Statuses
            /\ [call[c][r] EXCEPT !.at = "won"] \in Calls
        BY <1>3, <1>c DEF FinishWrites, Calls, Idle, Statuses, Outcomes
      <3>2. call' = [call EXCEPT ![c][r] = [call[c][r] EXCEPT !.at = "won"]]
        BY <1>3, <2>1 DEF FinishWrites
      <3>3. call' \in [Callers -> [Runs -> Calls]]
        BY <3>1, <3>2
      <3>4. status' \in [Runs -> Statuses] /\ finished' \in [Runs -> BOOLEAN]
        BY <1>3, <2>1, <3>1 DEF FinishWrites
      <3> QED
        BY <1>3, <3>3, <3>4 DEF FinishWrites
    <2>2. ASSUME ~Finishable(r)
          PROVE  TypeOK'
      BY <1>3, <1>i, <2>2 DEF FinishWrites
    <2> QED
      BY <2>1, <2>2
  <1>4. CASE FinishKills(c, r)
    BY <1>4, <1>i, <1>c DEF FinishKills
  <1> QED
    BY <1>1, <1>2, <1>3, <1>4

LEMMA ServerTypeOK ==
    ASSUME TypeOK,
           \/ \E r \in Runs : KillBox(r) \/ TimePasses(r)
           \/ \E r \in Runs, funding \in {"paid", "wait"} : Create(r, funding)
           \/ ReconcileReads
           \/ Restart
    PROVE  TypeOK'
  <1> USE DEF TypeOK
  <1>1. CASE \E r \in Runs : KillBox(r)
    BY <1>1 DEF KillBox, StopBox
  <1>2. CASE \E r \in Runs : TimePasses(r)
    BY <1>2 DEF TimePasses
  <1>3. CASE \E r \in Runs, funding \in {"paid", "wait"} : Create(r, funding)
    BY <1>3 DEF Create, Goto, Statuses
  <1>4. CASE ReconcileReads
    <2>1. \A r \in Runs : (IF r \in Stale THEN Call("read", "failed", linked[r]) ELSE Idle) \in Calls
      BY DEF Call, Calls, Outcomes
    <2> QED
      BY <1>4, <2>1 DEF ReconcileReads, Callers
  <1>5. CASE Restart
    <2>1. Idle \in Calls
      BY DEF Calls
    <2> QED
      BY <1>5, <2>1, RestartsAssumption DEF Restart
  <1> QED
    BY <1>1, <1>2, <1>3, <1>4, <1>5

LEMMA StepTypeOK == TypeOK /\ [Next]_vars => TypeOK'
  <1> SUFFICES ASSUME TypeOK, [Next]_vars PROVE TypeOK'
    OBVIOUS
  <1>1. CASE Next
    BY <1>1, LaunchTypeOK, RuntimeTypeOK, CallTypeOK, ServerTypeOK DEF Next, Callers
  <1>2. CASE UNCHANGED vars
    BY <1>2 DEF vars, TypeOK
  <1> QED
    BY <1>1, <1>2

\* Every behaviour of the run service is type correct.
THEOREM TypeCorrect == Spec => []TypeOK
  <1> QED
    BY InitTypeOK, StepTypeOK, PTL DEF Spec
-------------------------------------------------------------------------------
(* Nobody acts on a run before its row exists.                              *)

Recorded ==
    \A r \in Runs :
       \/ launcher[r] # "none" \/ box[r] # "none" \/ runtime[r] # "none"
       \/ \E c \in Callers : call[c][r] # Idle
       => status[r] # "none"

KillersSawTheEnd ==
    \A r \in Runs :
       /\ killing[r] => finished[r]
       /\ launcher[r] = "kill" => finished[r]
       /\ \A c \in Callers : call[c][r].at = "won" => finished[r]

NotLaunchedYet ==
    \A r \in Runs : launcher[r] \in {"none", "park", "start"} =>
       /\ box[r] = "none" /\ runtime[r] = "none"
       /\ status[r] \in {"none", "queued"} \cup Outcomes

IInv == TypeOK /\ FinishedIffTerminal /\ Recorded /\ KillersSawTheEnd /\ NotLaunchedYet

(* What one step does to the statuses: it records a run, moves an open run  *)
(* on, closes an open run, or changes none of them.                         *)

Records(r) ==
    /\ status[r] = "none"
    /\ status' = [status EXCEPT ![r] = "queued"]
    /\ UNCHANGED finished

Moves(r) ==
    /\ status[r] # "none" /\ ~finished[r]
    /\ \E s \in {"provisioning", "running", "waiting"} : status' = [status EXCEPT ![r] = s]
    /\ UNCHANGED finished

Closes(r) ==
    /\ status[r] # "none" /\ ~finished[r]
    /\ \E o \in Outcomes : status' = [status EXCEPT ![r] = o]
    /\ finished' = [finished EXCEPT ![r] = TRUE]

StatusStep ==
    \/ UNCHANGED <<status, finished>>
    \/ \E r \in Runs : Records(r) \/ Moves(r) \/ Closes(r)

LEMMA LaunchStatus ==
    ASSUME TypeOK, FinishedIffTerminal, Recorded, NEW r \in Runs, Launch(r) \/ LaunchAborts(r)
    PROVE  StatusStep
  <1> USE DEF StatusStep
  <1>1. CASE Park(r)
    <2>1. status[r] # "none"
      BY <1>1 DEF Park, Goto, Recorded
    <2>2. CASE finished[r]
      BY <1>1, <2>2 DEF Park, ParkedStatus, TypeOK
    <2>3. CASE ~finished[r]
      BY <1>1, <2>1, <2>3 DEF Park, ParkedStatus, Moves
    <2> QED
      BY <2>2, <2>3
  <1>2. CASE TakeToken(r)
    BY <1>2 DEF TakeToken, Goto, Moves
  <1>3. CASE FailLaunch(r)
    BY <1>3 DEF FailLaunch, LaunchFailsRun, Closes, Outcomes
  <1>4. CASE UNCHANGED <<status, finished>>
    BY <1>4
  <1> QED
    BY <1>1, <1>2, <1>3, <1>4
    DEF Launch, InsertSandbox, ProvisionReturns, RecordExternal, LinkSandbox, CheckEnded,
        LauncherKills, LaunchAborts

LEMMA RuntimeStatus ==
    ASSUME TypeOK, FinishedIffTerminal, Recorded, NEW r \in Runs,
           Claim(r) \/ \E step \in ReportStatuses : UpdateStep(r, step)
    PROVE  StatusStep
  <1>1. CASE Claim(r)
    BY <1>1 DEF Claim, StatusStep, Moves, FinishedIffTerminal, Outcomes
  <1>2. ASSUME NEW step \in ReportStatuses, UpdateStep(r, step)
        PROVE  StatusStep
    <2>1. status[r] # "none" /\ ~finished[r] /\ UNCHANGED finished
      BY <1>2 DEF UpdateStep, Recorded
    <2>2. CASE step \in {"waiting", "running"}
      BY <1>2, <2>1, <2>2 DEF UpdateStep, StatusAfterStep, StatusStep, Moves
    <2>3. CASE step \notin {"waiting", "running"}
      BY <1>2, <2>1, <2>3 DEF UpdateStep, StatusAfterStep, StatusStep, TypeOK
    <2> QED
      BY <2>2, <2>3
  <1> QED
    BY <1>1, <1>2

LEMMA FinishStatus ==
    ASSUME TypeOK, Recorded, NEW r \in Runs, NEW c \in Callers, FinishWrites(c, r)
    PROVE  StatusStep
  <1>1. call[c][r].at = "read"
    BY DEF FinishWrites
  <1>2. call[c][r] \in Calls /\ call[c][r] # Idle
    BY <1>1 DEF TypeOK, Idle
  <1>3. call[c][r].to \in Outcomes /\ status[r] # "none"
    BY <1>2 DEF Calls, Recorded
  <1>4. CASE Finishable(r)
    BY <1>3, <1>4 DEF FinishWrites, Finishable, StatusStep, Closes
  <1>5. CASE ~Finishable(r)
    BY <1>5 DEF FinishWrites, StatusStep
  <1> QED
    BY <1>4, <1>5

LEMMA NextStatus ==
    ASSUME TypeOK, FinishedIffTerminal, Recorded, [Next]_vars
    PROVE  StatusStep
  <1>1. ASSUME NEW r \in Runs, NEW funding \in {"paid", "wait"}, Create(r, funding)
        PROVE  StatusStep
    BY <1>1 DEF Create, StatusStep, Records
  <1>2. CASE UNCHANGED <<status, finished>>
    BY <1>2 DEF StatusStep
  <1> QED
    BY <1>1, <1>2, LaunchStatus, RuntimeStatus, FinishStatus
    DEF Next, vars, BoxStarts, BoxExpires, AppendEvents, RuntimeStops, RuntimeFinishes, UserCancels,
        FinishKills, KillBox, TimePasses, ReconcileReads, Restart
-------------------------------------------------------------------------------
(* The inductive invariant.                                                 *)

LEMMA InitIInv == Init => IInv
  <1> SUFFICES ASSUME Init PROVE IInv
    OBVIOUS
  <1>1. FinishedIffTerminal
    BY DEF Init, FinishedIffTerminal, Outcomes
  <1>2. Recorded
    BY DEF Init, Recorded
  <1>3. KillersSawTheEnd
    BY DEF Init, KillersSawTheEnd, Idle
  <1>4. NotLaunchedYet
    BY DEF Init, NotLaunchedYet
  <1> QED
    BY <1>1, <1>2, <1>3, <1>4, InitTypeOK DEF IInv

LEMMA StepFinishedIffTerminal ==
    ASSUME TypeOK, FinishedIffTerminal, StatusStep
    PROVE  FinishedIffTerminal'
  <1> USE DEF FinishedIffTerminal, TypeOK
  <1>1. CASE UNCHANGED <<status, finished>>
    BY <1>1
  <1>2. ASSUME NEW r \in Runs, Records(r)
        PROVE  FinishedIffTerminal'
    BY <1>2 DEF Records, Outcomes
  <1>3. ASSUME NEW r \in Runs, Moves(r)
        PROVE  FinishedIffTerminal'
    BY <1>3 DEF Moves, Outcomes
  <1>4. ASSUME NEW r \in Runs, Closes(r)
        PROVE  FinishedIffTerminal'
    BY <1>4 DEF Closes
  <1> QED
    BY <1>1, <1>2, <1>3, <1>4 DEF StatusStep

\* A run that has a row keeps it, and a run that has ended stays ended.
LEMMA StatusStepKeeps ==
    ASSUME TypeOK, FinishedIffTerminal, StatusStep, NEW r \in Runs
    PROVE  /\ status[r] # "none" => status'[r] # "none"
           /\ finished[r] => finished'[r] /\ status'[r] = status[r]
  <1> USE DEF TypeOK
  <1>1. CASE UNCHANGED <<status, finished>>
    BY <1>1
  <1>2. ASSUME NEW q \in Runs, Records(q)
        PROVE  /\ status[r] # "none" => status'[r] # "none"
               /\ finished[r] => finished'[r] /\ status'[r] = status[r]
    BY <1>2 DEF Records, FinishedIffTerminal, Outcomes
  <1>3. ASSUME NEW q \in Runs, Moves(q)
        PROVE  /\ status[r] # "none" => status'[r] # "none"
               /\ finished[r] => finished'[r] /\ status'[r] = status[r]
    BY <1>3 DEF Moves
  <1>4. ASSUME NEW q \in Runs, Closes(q)
        PROVE  /\ status[r] # "none" => status'[r] # "none"
               /\ finished[r] => finished'[r] /\ status'[r] = status[r]
    BY <1>4 DEF Closes, Outcomes
  <1> QED
    BY <1>1, <1>2, <1>3, <1>4 DEF StatusStep

Untouched(r) ==
    /\ launcher[r] = "none" /\ box[r] = "none" /\ runtime[r] = "none"
    /\ \A c \in Callers : call[c][r] = Idle

LEMMA StepRecorded ==
    ASSUME TypeOK, FinishedIffTerminal, Recorded, [Next]_vars
    PROVE  Recorded'
  <1> SUFFICES ASSUME NEW r \in Runs, status'[r] = "none"
               PROVE  Untouched(r)'
    BY DEF Recorded, Untouched
  <1>1. status[r] = "none"
    BY NextStatus, StatusStepKeeps
  <1>2. Untouched(r)
    BY <1>1 DEF Recorded, Untouched
  <1> USE DEF TypeOK, Untouched
  <1>3. ASSUME NEW q \in Runs, NEW funding \in {"paid", "wait"}, Create(q, funding)
        PROVE  Untouched(r)'
    BY <1>2, <1>3 DEF Create, Goto
  <1>4. ASSUME NEW q \in Runs, Launch(q) \/ LaunchAborts(q)
        PROVE  Untouched(r)'
    BY <1>2, <1>4 DEF Launch, LaunchAborts, Park, TakeToken, InsertSandbox, ProvisionReturns,
       FailLaunch, RecordExternal, LinkSandbox, CheckEnded, LauncherKills, Goto, StopBox
  <1>5. ASSUME NEW q \in Runs,
               \/ BoxStarts(q) \/ BoxExpires(q) \/ Claim(q) \/ AppendEvents(q) \/ RuntimeStops(q)
               \/ KillBox(q) \/ TimePasses(q)
               \/ \E step \in ReportStatuses : UpdateStep(q, step)
        PROVE  Untouched(r)'
    BY <1>2, <1>5 DEF BoxStarts, BoxExpires, Claim, AppendEvents, RuntimeStops, KillBox,
       TimePasses, UpdateStep, StopBox
  <1>6. ASSUME NEW q \in Runs, NEW c \in Callers, FinishWrites(c, q) \/ FinishKills(c, q)
        PROVE  Untouched(r)'
    <2>1. call[c][q] # Idle
      BY <1>6 DEF FinishWrites, FinishKills, Idle
    <2>2. q # r
      BY <1>2, <2>1
    <2> QED
      BY <1>2, <1>6, <2>2 DEF FinishWrites, FinishKills
  <1>7. ASSUME NEW q \in Runs,
               UserCancels(q) \/ \E to \in Outcomes : RuntimeFinishes(q, to)
        PROVE  Untouched(r)'
    BY <1>1, <1>2, <1>7 DEF UserCancels, RuntimeFinishes, Begin, Callers
  <1>8. CASE ReconcileReads
    BY <1>1, <1>2, <1>8 DEF ReconcileReads, Stale, Callers
  <1>9. CASE Restart
    BY <1>2, <1>9 DEF Restart
  <1>10. CASE UNCHANGED vars
    BY <1>2, <1>10 DEF vars
  <1> QED
    BY <1>3, <1>4, <1>5, <1>6, <1>7, <1>8, <1>9, <1>10 DEF Next

LEMMA StepKillersSawTheEnd ==
    ASSUME TypeOK, FinishedIffTerminal, Recorded, KillersSawTheEnd, [Next]_vars
    PROVE  KillersSawTheEnd'
  <1> USE DEF TypeOK, KillersSawTheEnd
  <1>0. \A r \in Runs : finished[r] => finished'[r]
    BY NextStatus, StatusStepKeeps
  <1>1. ASSUME NEW q \in Runs, NEW funding \in {"paid", "wait"}, Create(q, funding)
        PROVE  KillersSawTheEnd'
    BY <1>0, <1>1 DEF Create, Goto
  <1>2. ASSUME NEW q \in Runs, Launch(q) \/ LaunchAborts(q)
        PROVE  KillersSawTheEnd'
    <2>1. launcher'[q] = "kill" => finished[q]
      BY <1>2 DEF Launch, LaunchAborts, Park, TakeToken, InsertSandbox, ProvisionReturns,
         FailLaunch, RecordExternal, LinkSandbox, CheckEnded, LauncherKills, Goto, SurplusSandbox
    <2>2. /\ UNCHANGED <<killing, call>>
          /\ \A r \in Runs \ {q} : launcher'[r] = launcher[r]
      BY <1>2 DEF Launch, LaunchAborts, Park, TakeToken, InsertSandbox, ProvisionReturns,
         FailLaunch, RecordExternal, LinkSandbox, CheckEnded, LauncherKills, Goto
    <2> QED
      BY <1>0, <2>1, <2>2
  <1>3. ASSUME NEW q \in Runs,
               \/ BoxStarts(q) \/ BoxExpires(q) \/ Claim(q) \/ AppendEvents(q) \/ RuntimeStops(q)
               \/ KillBox(q) \/ TimePasses(q)
               \/ \E step \in ReportStatuses : UpdateStep(q, step)
        PROVE  KillersSawTheEnd'
    BY <1>0, <1>3 DEF BoxStarts, BoxExpires, Claim, AppendEvents, RuntimeStops, KillBox,
       TimePasses, UpdateStep
  <1>4. ASSUME NEW q \in Runs, NEW c \in Callers, FinishWrites(c, q)
        PROVE  KillersSawTheEnd'
    BY <1>0, <1>4 DEF FinishWrites, Finishable, Idle
  <1>5. ASSUME NEW q \in Runs, NEW c \in Callers, FinishKills(c, q)
        PROVE  KillersSawTheEnd'
    BY <1>0, <1>5 DEF FinishKills, Idle
  <1>6. ASSUME NEW q \in Runs,
               UserCancels(q) \/ \E to \in Outcomes : RuntimeFinishes(q, to)
        PROVE  KillersSawTheEnd'
    BY <1>0, <1>6 DEF UserCancels, RuntimeFinishes, Begin, Call, Callers
  <1>7. CASE ReconcileReads
    BY <1>0, <1>7 DEF ReconcileReads, Call, Idle, Callers
  <1>8. CASE Restart
    BY <1>0, <1>8 DEF Restart, Idle
  <1>9. CASE UNCHANGED vars
    BY <1>9 DEF vars
  <1> QED
    BY <1>1, <1>2, <1>3, <1>4, <1>5, <1>6, <1>7, <1>8, <1>9 DEF Next

LEMMA LauncherFrame ==
    ASSUME TypeOK, NEW q \in Runs, Launch(q) \/ LaunchAborts(q)
    PROVE  /\ \A r \in Runs \ {q} : launcher'[r] = launcher[r]
           /\ launcher[q] # "none"
           /\ launcher'[q] \notin {"none", "park", "start"}
  <1> QED
    BY DEF TypeOK, Launch, LaunchAborts, Park, TakeToken, InsertSandbox, ProvisionReturns,
       FailLaunch, RecordExternal, LinkSandbox, CheckEnded, LauncherKills, Goto

LEMMA StepNotLaunchedYet ==
    ASSUME TypeOK, FinishedIffTerminal, Recorded, NotLaunchedYet, [Next]_vars
    PROVE  NotLaunchedYet'
  <1> SUFFICES ASSUME NEW r \in Runs, launcher'[r] \in {"none", "park", "start"}
               PROVE  /\ box'[r] = "none" /\ runtime'[r] = "none"
                      /\ status'[r] \in {"none", "queued"} \cup Outcomes
    BY DEF NotLaunchedYet
  <1> DEFINE Goal == /\ box'[r] = "none" /\ runtime'[r] = "none"
                     /\ status'[r] \in {"none", "queued"} \cup Outcomes
  <1> USE DEF TypeOK, NotLaunchedYet
  <1>1. ASSUME NEW q \in Runs, NEW funding \in {"paid", "wait"}, Create(q, funding)
        PROVE  Goal
    BY <1>1 DEF Create, Goto
  <1>2. ASSUME NEW q \in Runs, Launch(q) \/ LaunchAborts(q)
        PROVE  Goal
    <2>1. q # r /\ launcher[r] = launcher'[r]
      BY <1>2, LauncherFrame
    <2>2. UNCHANGED <<box[r], runtime[r], status[r]>>
      BY <1>2, <2>1 DEF Launch, LaunchAborts, Park, TakeToken, InsertSandbox, ProvisionReturns,
         FailLaunch, RecordExternal, LinkSandbox, CheckEnded, LauncherKills, StopBox
    <2> QED
      BY <2>1, <2>2
  <1>3. ASSUME NEW q \in Runs, BoxStarts(q) \/ BoxExpires(q) \/ KillBox(q) \/ RuntimeStops(q)
        PROVE  Goal
    BY <1>3 DEF BoxStarts, BoxExpires, KillBox, RuntimeStops, StopBox
  <1>4. ASSUME NEW q \in Runs, Claim(q)
        PROVE  Goal
    BY <1>4 DEF Claim
  <1>5. ASSUME NEW q \in Runs, AppendEvents(q) \/ TimePasses(q)
        PROVE  Goal
    BY <1>5 DEF AppendEvents, TimePasses
  <1>6. ASSUME NEW q \in Runs, NEW step \in ReportStatuses, UpdateStep(q, step)
        PROVE  Goal
    BY <1>6 DEF UpdateStep
  <1>7. ASSUME NEW q \in Runs, UserCancels(q) \/ \E to \in Outcomes : RuntimeFinishes(q, to)
        PROVE  Goal
    BY <1>7 DEF UserCancels, RuntimeFinishes
  <1>8. ASSUME NEW q \in Runs, NEW c \in Callers, FinishWrites(c, q)
        PROVE  Goal
    <2>1. call[c][q].to \in Outcomes
      BY <1>8 DEF FinishWrites, Calls, Idle
    <2> QED
      BY <1>8, <2>1 DEF FinishWrites
  <1>9. ASSUME NEW q \in Runs, NEW c \in Callers, FinishKills(c, q)
        PROVE  Goal
    BY <1>9 DEF FinishKills
  <1>10. CASE ReconcileReads
    BY <1>10 DEF ReconcileReads
  <1>11. CASE Restart
    BY <1>11 DEF Restart
  <1>12. CASE UNCHANGED vars
    BY <1>12 DEF vars
  <1> QED
    BY <1>1, <1>2, <1>3, <1>4, <1>5, <1>6, <1>7, <1>8, <1>9, <1>10, <1>11, <1>12 DEF Next

LEMMA StepIInv == IInv /\ [Next]_vars => IInv'
  <1> SUFFICES ASSUME IInv, [Next]_vars PROVE IInv'
    OBVIOUS
  <1> QED
    BY StepTypeOK, NextStatus, StepFinishedIffTerminal, StepRecorded, StepKillersSawTheEnd,
       StepNotLaunchedYet DEF IInv

LEMMA Invariance == Spec => []IInv
  <1> QED
    BY InitIInv, StepIInv, PTL DEF Spec
-------------------------------------------------------------------------------
(* What the invariant gives.                                                *)

\* status and finished_at always agree.
THEOREM StatusesAgree == Spec => []FinishedIffTerminal
  <1>1. IInv => FinishedIffTerminal
    BY DEF IInv
  <1> QED
    BY <1>1, Invariance, PTL

\* No sandbox of an open run is ever about to be killed by the server.
THEOREM KillsAreSafe == Spec => []KillsOnlyEndedRuns
  <1>1. IInv => KillsOnlyEndedRuns
    BY DEF IInv, KillersSawTheEnd, KillsOnlyEndedRuns
  <1> QED
    BY <1>1, Invariance, PTL

\* No step of anybody replaces the outcome of a run that has ended.
THEOREM OutcomesAreFinal == Spec => OutcomeIsFinal
  <1>1. IInv /\ [Next]_vars => [\A r \in Runs : finished[r] => finished'[r] /\ status'[r] = status[r]]_vars
    BY NextStatus, StatusStepKeeps DEF IInv
  <1> QED
    BY <1>1, Invariance, PTL DEF Spec, OutcomeIsFinal

\* A step in which the launcher of a claimed run advances leaves that run's
\* status alone: only FailLaunch could end it, and it looks at the status.
THEOREM LauncherIsHarmless == Spec => LauncherSparesClaimedRun
  <1> DEFINE Harmless == \A r \in Runs : status[r] \in {"running", "waiting"} /\ launcher'[r] # launcher[r]
                                           => status'[r] = status[r]
  <1>1. ASSUME IInv, [Next]_vars
        PROVE  Harmless
    <2> SUFFICES ASSUME NEW r \in Runs, status[r] \in {"running", "waiting"}, launcher'[r] # launcher[r]
                 PROVE  status'[r] = status[r]
      OBVIOUS
    <2> USE DEF IInv, TypeOK, Goto
    <2>1. ASSUME NEW q \in Runs, NEW funding \in {"paid", "wait"}, Create(q, funding)
          PROVE  status'[r] = status[r]
      BY <1>1, <2>1 DEF Create
    <2>2. ASSUME NEW q \in Runs, Launch(q) \/ LaunchAborts(q)
          PROVE  status'[r] = status[r]
      <3>1. q = r
        BY <1>1, <2>2, LauncherFrame
      <3>2. launcher[r] \notin {"none", "park", "start"}
        BY <1>1 DEF NotLaunchedYet, Outcomes
      <3> QED
        BY <1>1, <2>2, <3>1, <3>2 DEF Launch, LaunchAborts, Park, TakeToken, InsertSandbox, ProvisionReturns,
           FailLaunch, LaunchFailsRun, RecordExternal, LinkSandbox, CheckEnded, LauncherKills
    <2>3. CASE Restart
      BY <1>1, <2>3 DEF Restart
    <2>4. CASE UNCHANGED launcher
      BY <2>4
    <2> QED
      BY <1>1, <2>1, <2>2, <2>3, <2>4
      DEF Next, vars, BoxStarts, BoxExpires, Claim, AppendEvents, RuntimeStops, UpdateStep,
          RuntimeFinishes, UserCancels, FinishWrites, FinishKills, KillBox, TimePasses, ReconcileReads
  <1>2. IInv /\ [Next]_vars => [Harmless]_vars
    BY <1>1
  <1> QED
    BY <1>2, Invariance, PTL DEF Spec, LauncherSparesClaimedRun
-------------------------------------------------------------------------------
(* The run service implements RunOutcome: every step records a run, closes  *)
(* one with an outcome, or changes nothing that RunOutcome sees.            *)

LEMMA PhaseStep ==
    ASSUME TypeOK, FinishedIffTerminal, StatusStep
    PROVE  [Outcome!Next]_Phase
  <1> USE DEF TypeOK, Phase
  <1>1. CASE UNCHANGED <<status, finished>>
    BY <1>1
  <1>2. ASSUME NEW r \in Runs, Records(r)
        PROVE  Outcome!Next
    <2>1. Outcome!Open(r)
      BY <1>2 DEF Records, Outcome!Open, Outcomes
    <2> QED
      BY <2>1 DEF Outcome!Next
  <1>3. ASSUME NEW r \in Runs, Moves(r)
        PROVE  UNCHANGED Phase
    <2>1. status[r] \notin Outcomes \cup {"none"}
      BY <1>3 DEF Moves, FinishedIffTerminal
    <2> QED
      BY <1>3, <2>1 DEF Moves, Outcomes
  <1>4. ASSUME NEW r \in Runs, Closes(r)
        PROVE  Outcome!Next
    <2>1. status[r] \notin Outcomes \cup {"none"}
      BY <1>4 DEF Closes, FinishedIffTerminal
    <2>2. PICK o \in Outcomes : status' = [status EXCEPT ![r] = o]
      BY <1>4 DEF Closes
    <2>3. Outcome!Close(r, o)
      BY <2>1, <2>2 DEF Outcome!Close
    <2> QED
      BY <2>3 DEF Outcome!Next, Outcome!Outcomes, Outcomes
  <1> QED
    BY <1>1, <1>2, <1>3, <1>4 DEF StatusStep

\* Seen through RunOutcome, every behaviour of the run service is a behaviour
\* of the abstract specification.
THEOREM RunsHaveOneOutcome == Spec => OutcomeSpec
  <1>1. Init => Outcome!Init
    BY DEF Init, Outcome!Init, Phase, Outcomes
  <1>2. IInv /\ [Next]_vars => [Outcome!Next]_Phase
    BY NextStatus, PhaseStep DEF IInv
  <1> QED
    BY <1>1, <1>2, Invariance, PTL DEF Spec, OutcomeSpec, Outcome!Spec
===============================================================================
