----------------------------- MODULE CreditLedger -----------------------------
(***************************************************************************)
(* The credit of one workspace: what it has (credit_ledger), what its open *)
(* runs hold back (the unspent part of their task limit), and how the cost *)
(* that the runtime reports step by step is charged                        *)
(* (CreateInTx, UpdateStep and Finish in server/internal/runs/runs.go, the *)
(* reports of runtime/cmd/botinc-runtime/main.go).                         *)
(*                                                                         *)
(* Creating a run is a transaction under the row lock of the workspace,    *)
(* in two actions: read what is available, insert the run.  Nothing else   *)
(* that moves credit takes that lock.  A report is an HTTP request that    *)
(* the runtime repeats when no answer comes: copies of it may arrive late, *)
(* twice and out of order.  The agent's command line stops at the budget   *)
(* it is given (--max-budget-usd).                                         *)
(***************************************************************************)
EXTENDS Integers, FiniteSets, FiniteSetsExt

CONSTANTS
    Runs,          \* the runs of the workspace
    Steps,         \* the step keys of a run
    Purposes,      \* which of "build", "autopilot" and "chat" are created
    Requests,      \* the task limits asked for, in cents
    DefaultLimit,  \* the limit of a run that asks for 0 (200 in the code)
    StarterCredit, \* what the ledger starts with
    TopUps         \* the top-ups that may be credited, in cents

ASSUME PurposesAssumption == Purposes \subseteq {"build", "autopilot", "chat"}
ASSUME AmountsAssumption ==
    /\ Requests \subseteq Int /\ DefaultLimit \in Nat \ {0}
    /\ StarterCredit \in Nat /\ TopUps \subseteq Nat
ASSUME FinitenessAssumption == IsFiniteSet(Runs) /\ IsFiniteSet(Steps) /\ IsFiniteSet(TopUps)

VARIABLES
    balance,   \* the sum of credit_ledger.amount_cents
    pending,   \* the top-ups not credited yet
    creating,  \* the run each open creation transaction is about to insert
    run,       \* the rows of runs: phase, purpose and funding,
    limit,     \* task_limit_cents
    cost,      \* and cost_cents
    stepCost,  \* run_steps.cost_cents
    usage,     \* the sum of the run's 'usage' rows in the ledger, positive
    runtime,   \* where the runtime of each run stands
    report,    \* the step it works on, and the cost it reports for it
    spent,     \* history: what the provider took for each step
    sent       \* the reports sent so far; a copy of any of them may arrive

vars == <<balance, pending, creating, run, limit, cost, stepCost, usage, runtime, report, spent, sent>>
-------------------------------------------------------------------------------
Total(f) == MapThenSumSet(LAMBDA k : f[k], DOMAIN f)

None == [phase |-> "none"]
Reports == [key : Steps, cost : Nat]
Fundings == {"credits", "account"}
RunRows == [phase : {"open", "finished"}, purpose : Purposes, funding : Fundings]
NewRows == [purpose : Purposes, funding : Fundings, limit : Nat \ {0}]

TypeOK ==
    /\ balance \in Int
    /\ pending \subseteq TopUps
    /\ creating \in [Runs -> {None} \cup NewRows]
    /\ run \in [Runs -> {None} \cup RunRows]
    /\ limit \in [Runs -> Nat]
    /\ cost \in [Runs -> Nat]
    /\ stepCost \in [Runs -> [Steps -> Nat]]
    /\ usage \in [Runs -> Nat]
    /\ runtime \in [Runs -> {"off", "ready", "working", "reporting", "ended"}]
    /\ report \in [Runs -> Reports]
    /\ spent \in [Runs -> [Steps -> Nat]]
    /\ sent \in [Runs -> SUBSET Reports]

Init ==
    /\ balance = StarterCredit
    /\ pending = TopUps
    /\ creating = [r \in Runs |-> None]
    /\ run = [r \in Runs |-> None]
    /\ limit = [r \in Runs |-> 0]
    /\ cost = [r \in Runs |-> 0]
    /\ stepCost = [r \in Runs |-> [k \in Steps |-> 0]]
    /\ usage = [r \in Runs |-> 0]
    /\ runtime = [r \in Runs |-> "off"]
    /\ report \in [Runs -> [key : Steps, cost : {0}]]
    /\ spent = [r \in Runs |-> [k \in Steps |-> 0]]
    /\ sent = [r \in Runs |-> {}]
-------------------------------------------------------------------------------
(* Creating a run.                                                          *)

OpenOnCredit(r) == run[r].phase = "open" /\ run[r].funding = "credits"

\* greatest(task_limit_cents - cost_cents, 0)
Held(r) == IF OpenOnCredit(r) /\ limit[r] > cost[r] THEN limit[r] - cost[r] ELSE 0
Reserved == Total([r \in Runs |-> Held(r)])

Available == balance - Reserved

\* "select id from workspaces ... for update".  (Leaving it out, a bug:)
AlwaysUnlocked == TRUE
WorkspaceUnlocked == \A r \in Runs : creating[r] = None

AskedLimit(request) == IF request = 0 THEN DefaultLimit ELSE request

TaskLimit(request, funding) ==
    IF funding = "credits" /\ AskedLimit(request) > Available
      THEN Available ELSE AskedLimit(request)

\* A run on credit is refused when no credit is left unreserved.
Affordable(funding) == funding = "credits" => Available >= 1

\* A limit below one cent is refused too.
CreateReads(r, request, funding, purpose) ==
    /\ run[r] = None
    /\ WorkspaceUnlocked
    /\ AskedLimit(request) >= 1
    /\ Affordable(funding)
    /\ creating' = [creating EXCEPT ![r] =
          [purpose |-> purpose, funding |-> funding, limit |-> TaskLimit(request, funding)]]
    /\ UNCHANGED <<balance, pending, run, limit, cost, stepCost, usage, runtime, report, spent, sent>>

CreateCommits(r) ==
    /\ creating[r] # None
    /\ run' = [run EXCEPT ![r] =
          [phase |-> "open", purpose |-> creating[r].purpose, funding |-> creating[r].funding]]
    /\ limit' = [limit EXCEPT ![r] = creating[r].limit]
    /\ creating' = [creating EXCEPT ![r] = None]
    /\ UNCHANGED <<balance, pending, cost, stepCost, usage, runtime, report, spent, sent>>

\* A connector is gone, the caller's own statements fail, the server restarts.
CreateAborts(r) ==
    /\ creating[r] # None
    /\ creating' = [creating EXCEPT ![r] = None]
    /\ UNCHANGED <<balance, pending, run, limit, cost, stepCost, usage, runtime, report, spent, sent>>

\* A paid order is credited; no row lock of the workspace is taken.
TopUp(amount) ==
    /\ amount \in pending
    /\ pending' = pending \ {amount}
    /\ balance' = balance + amount
    /\ UNCHANGED <<creating, run, limit, cost, stepCost, usage, runtime, report, spent, sent>>
-------------------------------------------------------------------------------
(* The runtime works and reports.                                           *)

\* The runtime has claimed the run and read its limit.
RuntimeStarts(r) ==
    /\ run[r].phase = "open"
    /\ runtime[r] = "off"
    /\ runtime' = [runtime EXCEPT ![r] = "ready"]
    /\ UNCHANGED <<balance, pending, creating, run, limit, cost, stepCost, usage, report, spent, sent>>

\* The test before every attempt, and the budget the agent is given.
RemainingBudget(r) == limit[r] - Total(spent[r])

\* A build or a routine reports 'running' and stops when that is refused; a
\* chat starts its one attempt whatever comes of the report.
StartAttempt(r, k) ==
    /\ runtime[r] = "ready"
    /\ run[r].purpose = "chat" \/ run[r].phase = "open"
    /\ Total(spent[r]) < limit[r]
    /\ runtime' = [runtime EXCEPT ![r] = "working"]
    /\ report' = [report EXCEPT ![r] = [key |-> k, cost |-> 0]]
    /\ UNCHANGED <<balance, pending, creating, run, limit, cost, stepCost, usage, spent, sent>>

\* A build adds up what the attempts of a step cost; a routine reports the cost
\* of the attempt, and so does a chat, which makes one.
ReportedCost(r, k, cents) ==
    IF run[r].purpose = "build" THEN spent[r][k] + cents ELSE cents

Report(r, cents) ==
    LET k == report[r].key
        m == [key |-> k, cost |-> ReportedCost(r, k, cents)] IN
    /\ runtime[r] = "working"
    /\ runtime' = [runtime EXCEPT ![r] = "reporting"]
    /\ spent' = [spent EXCEPT ![r][k] = @ + cents]
    /\ report' = [report EXCEPT ![r] = m]
    /\ sent' = [sent EXCEPT ![r] = @ \cup {m}]
    /\ UNCHANGED <<balance, pending, creating, run, limit, cost, stepCost, usage>>

\* The agent is killed, or the sandbox is: nothing more is reported.  A
\* runtime that gives up on a report or has no step left ends too.
RuntimeEnds(r) ==
    /\ runtime[r] \in {"ready", "working", "reporting"}
    /\ runtime' = [runtime EXCEPT ![r] = "ended"]
    /\ UNCHANGED <<balance, pending, creating, run, limit, cost, stepCost, usage, report, spent, sent>>
-------------------------------------------------------------------------------
(* The server charges.                                                      *)

Larger(a, b) == IF a >= b THEN a ELSE b

\* What a report adds to the cost of its step.  (Charging every report in full,
\* or taking back what an older report leaves out, bugs:)
FullCharge(r, m) == m.cost
SignedCharge(r, m) == m.cost - stepCost[r][m.key]
Charge(r, m) == Larger(stepCost[r][m.key], m.cost) - stepCost[r][m.key]

\* Only a run on credit is debited.
Debit(r, m) == IF run[r].funding = "credits" THEN Charge(r, m) ELSE 0

\* UpdateStep: one transaction under the row lock of the run.  The runtime goes
\* on when the answer to its current report reaches it.
UpdateStep(r, m) ==
    /\ m \in sent[r]
    /\ run[r].phase = "open"
    /\ stepCost' = [stepCost EXCEPT ![r][m.key] = @ + Charge(r, m)]
    /\ cost' = [cost EXCEPT ![r] = @ + Charge(r, m)]
    /\ usage' = [usage EXCEPT ![r] = @ + Debit(r, m)]
    /\ balance' = balance - Debit(r, m)
    /\ \/ UNCHANGED runtime
       \/ /\ runtime[r] = "reporting"
          /\ m = report[r]
          /\ runtime' = [runtime EXCEPT ![r] = IF run[r].purpose = "chat" THEN "ended" ELSE "ready"]
    /\ UNCHANGED <<pending, creating, run, limit, report, spent, sent>>

\* The run is finished, cancelled or reconciled; its reservation is released.
Finish(r) ==
    /\ run[r].phase = "open"
    /\ run' = [run EXCEPT ![r].phase = "finished"]
    /\ UNCHANGED <<balance, pending, creating, limit, cost, stepCost, usage, runtime, report, spent, sent>>
-------------------------------------------------------------------------------
Next ==
    \/ \E r \in Runs :
         \/ \E request \in Requests, funding \in {"credits", "account"}, purpose \in Purposes :
               CreateReads(r, request, funding, purpose)
         \/ CreateCommits(r) \/ CreateAborts(r)
         \/ RuntimeStarts(r) \/ RuntimeEnds(r)
         \/ \E k \in Steps : StartAttempt(r, k)
         \/ runtime[r] = "working" /\ \E cents \in 0..RemainingBudget(r) : Report(r, cents)
         \/ \E m \in sent[r] : UpdateStep(r, m)
         \/ Finish(r)
    \/ \E amount \in TopUps : TopUp(amount)

Spec == Init /\ [][Next]_vars
-------------------------------------------------------------------------------
\* Simultaneous runs never spend the same credit: whatever the order of
\* creations, charges, top-ups and finishes, the ledger covers what every open
\* run, and every run about to be inserted, may still spend.
Pledged(r) ==
    IF creating[r] # None /\ creating[r].funding = "credits" THEN creating[r].limit ELSE 0
CreditCoversReservations == balance >= Reserved + Total([r \in Runs |-> Pledged(r)])

\* The balance is explained by its receipts: what came in, less exactly the
\* recorded cost of every run on credit, finished or not; a run on somebody's
\* own account is never debited.
BalanceHasReceipts ==
    /\ balance = StarterCredit + Total([amount \in TopUps \ pending |-> amount]) - Total(usage)
    /\ \A r \in Runs \ {q \in Runs : run[q] = None} :
         /\ cost[r] = Total(stepCost[r])
         /\ usage[r] = IF run[r].funding = "credits" THEN cost[r] ELSE 0

\* However often and in whatever order its reports arrive, a step is never
\* charged more than the provider took for it.
NeverOvercharged == \A r \in Runs, k \in Steps : stepCost[r][k] <= spent[r][k]

\* A run never costs more than the limit it was created with.
CostStaysWithinLimit == \A r \in Runs : run[r] # None => cost[r] <= limit[r]

\* No credit is promised twice, spent beyond a promise or lost, in whatever
\* order runs are created, reported on and finished.
CreditIsAccountedFor == CreditCoversReservations /\ BalanceHasReceipts /\ CostStaysWithinLimit

\* "CostCents is the cumulative provider-reported cost for this step": a runtime
\* that goes on to its next attempt has had every report charged, through any
\* retries, and unless it works on a routine these are all it spent.  (A routine
\* that repeats a step reports the last attempt only: CreditRoutine.cfg.)
Cumulative(r) == run[r].purpose # "autopilot"
ReportedCostIsCharged ==
    \A r \in Runs : runtime[r] = "ready" =>
       /\ \A m \in sent[r] : m.cost <= stepCost[r][m.key]
       /\ Cumulative(r) => stepCost[r] = spent[r]

\* The same without the exception.
SpendingIsCharged == \A r \in Runs : runtime[r] = "ready" => stepCost[r] = spent[r]
===============================================================================
