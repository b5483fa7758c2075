-------------------------- MODULE CreditLedgerProofs --------------------------
(***************************************************************************)
(* What CreditLedger promises of charges and of the balance, proved for    *)
(* every workspace: any number of runs and steps, any limits and top-ups.  *)
(* The charges come first.  The balance is a sum over the runs, so the     *)
(* second part proves what is needed of sums, and the third uses it.       *)
(***************************************************************************)
EXTENDS CreditLedger, FiniteSetTheorems, WellFoundedInduction, TLAPS

\* The types the charges rest on; the limits, which come from a sum, are left out.
ChargeTypes ==
    /\ run \in [Runs -> {None} \cup RunRows]
    /\ stepCost \in [Runs -> [Steps -> Nat]]
    /\ spent \in [Runs -> [Steps -> Nat]]
    /\ runtime \in [Runs -> {"off", "ready", "working", "reporting", "ended"}]
    /\ report \in [Runs -> Reports]
    /\ sent \in [Runs -> SUBSET Reports]

\* No report, however old, says more than was spent.
ReportsAreHonest == \A r \in Runs : \A m \in sent[r] : m.cost <= spent[r][m.key]

CInv == ChargeTypes /\ ReportsAreHonest /\ NeverOvercharged

\* A run about to be inserted is well formed and not inserted yet.
CreationsAreNew ==
    /\ creating = [r \in Runs |-> creating[r]]
    /\ \A r \in Runs : creating[r] # None =>
         /\ creating[r].purpose \in Purposes
         /\ creating[r].funding \in Fundings
         /\ run[r] = None
    /\ \A r \in Runs : run[r] = None => runtime[r] = "off"
-------------------------------------------------------------------------------
\* The difference UpdateStep charges brings a step exactly to the larger of
\* what was charged and what is reported.
LEMMA ChargeReachesReport ==
    ASSUME ChargeTypes, NEW r \in Runs, NEW m \in sent[r]
    PROVE  /\ Charge(r, m) \in Nat
           /\ stepCost[r][m.key] + Charge(r, m) = Larger(stepCost[r][m.key], m.cost)
<1>1. m.key \in Steps /\ m.cost \in Nat
  BY DEF ChargeTypes, Reports
<1>2. stepCost[r][m.key] \in Nat
  BY <1>1 DEF ChargeTypes
<1> QED
  BY <1>1, <1>2 DEF Charge, Larger

LEMMA ChargeInit == Init => CInv
<1> SUFFICES ASSUME Init PROVE CInv
  OBVIOUS
<1>1. ChargeTypes
  BY DEF Init, ChargeTypes, Reports
<1>2. ReportsAreHonest
  BY DEF Init, ReportsAreHonest
<1>3. NeverOvercharged
  BY DEF Init, NeverOvercharged
<1> QED
  BY <1>1, <1>2, <1>3 DEF CInv

\* Every action keeps the charges below what was spent.
LEMMA ChargeStep == CInv /\ CreationsAreNew /\ [Next]_vars => CInv'
<1> SUFFICES ASSUME CInv, CreationsAreNew, [Next]_vars PROVE CInv'
  OBVIOUS
<1> USE DEF CInv
<1>1. ASSUME NEW r \in Runs, CreateCommits(r) PROVE CInv'
  <2>1. run' \in [Runs -> {None} \cup RunRows]
    BY <1>1 DEF CreateCommits, CreationsAreNew, ChargeTypes, RunRows
  <2> QED
    BY <1>1, <2>1 DEF CreateCommits, ChargeTypes, ReportsAreHonest, NeverOvercharged
<1>2. ASSUME NEW r \in Runs, NEW k \in Steps, StartAttempt(r, k) PROVE CInv'
  BY <1>2 DEF StartAttempt, ChargeTypes, ReportsAreHonest, NeverOvercharged, Reports
<1>3. ASSUME NEW r \in Runs, NEW cents \in Nat, Report(r, cents) PROVE CInv'
  <2> DEFINE k == report[r].key
  <2> DEFINE m == [key |-> k, cost |-> ReportedCost(r, k, cents)]
  <2>1. k \in Steps /\ spent[r][k] \in Nat
    BY DEF ChargeTypes, Reports
  <2>2. m.cost \in Nat /\ m.cost <= spent[r][k] + cents /\ m \in Reports
    BY <2>1 DEF ReportedCost, Reports
  <2>3. spent' = [spent EXCEPT ![r][k] = spent[r][k] + cents] /\ sent' = [sent EXCEPT ![r] = sent[r] \cup {m}]
    BY <1>3 DEF Report
  <2>4. spent' \in [Runs -> [Steps -> Nat]]
    BY <2>1, <2>3 DEF ChargeTypes
  <2>5. \A q \in Runs, j \in Steps : spent[q][j] <= spent'[q][j]
    BY <2>1, <2>3 DEF ChargeTypes
  <2>6. ChargeTypes'
    BY <1>3, <2>2, <2>3, <2>4 DEF Report, ChargeTypes
  <2>7. ASSUME NEW q \in Runs, NEW n \in sent'[q] PROVE n.cost <= spent'[q][n.key]
    <3>1. CASE n \in sent[q]
      <4>1. n.cost \in Nat /\ n.key \in Steps /\ n.cost <= spent[q][n.key]
        BY <3>1 DEF ChargeTypes, Reports, ReportsAreHonest
      <4> QED
        BY <4>1, <2>4, <2>5 DEF ChargeTypes
    <3>2. CASE n \notin sent[q]
      <4>1. q = r /\ n = m
        BY <2>3, <3>2 DEF ChargeTypes
      <4>2. spent'[r][k] = spent[r][k] + cents
        BY <2>1, <2>3 DEF ChargeTypes
      <4> QED
        BY <4>1, <4>2, <2>2
    <3> QED
      BY <3>1, <3>2
  <2>8. NeverOvercharged'
    <3> SUFFICES ASSUME NEW q \in Runs, NEW j \in Steps PROVE stepCost'[q][j] <= spent'[q][j]
      BY DEF NeverOvercharged
    <3>1. stepCost'[q][j] = stepCost[q][j] /\ stepCost[q][j] <= spent[q][j]
      BY <1>3 DEF Report, NeverOvercharged
    <3> QED
      BY <3>1, <2>4, <2>5 DEF ChargeTypes
  <2> QED
    BY <2>6, <2>7, <2>8 DEF ReportsAreHonest
<1>4. ASSUME NEW r \in Runs, NEW m \in sent[r], UpdateStep(r, m) PROVE CInv'
  <2>1. m.key \in Steps /\ m.cost \in Nat /\ m.cost <= spent[r][m.key]
    BY DEF ChargeTypes, Reports, ReportsAreHonest
  <2>2. /\ Charge(r, m) \in Nat
        /\ stepCost[r][m.key] + Charge(r, m) = Larger(stepCost[r][m.key], m.cost)
    BY ChargeReachesReport
  <2>3. stepCost' = [stepCost EXCEPT ![r][m.key] = stepCost[r][m.key] + Charge(r, m)]
    BY <1>4 DEF UpdateStep
  <2>4. stepCost' \in [Runs -> [Steps -> Nat]]
    BY <2>1, <2>2, <2>3 DEF ChargeTypes
  <2>5. ChargeTypes' /\ ReportsAreHonest'
    BY <1>4, <2>4 DEF UpdateStep, ChargeTypes, ReportsAreHonest
  <2>6. ASSUME NEW q \in Runs, NEW j \in Steps PROVE stepCost'[q][j] <= spent'[q][j]
    <3>1. spent' = spent /\ stepCost[q][j] <= spent[q][j]
      BY <1>4 DEF UpdateStep, NeverOvercharged
    <3>2. CASE q = r /\ j = m.key
      <4>1. stepCost'[q][j] = Larger(stepCost[q][j], m.cost)
        BY <2>1, <2>2, <2>3, <3>2 DEF ChargeTypes
      <4> QED
        BY <4>1, <2>1, <3>1, <3>2 DEF Larger
    <3>3. CASE ~(q = r /\ j = m.key)
      <4>1. stepCost'[q][j] = stepCost[q][j]
        BY <2>1, <2>3, <3>3 DEF ChargeTypes
      <4> QED
        BY <4>1, <3>1
    <3> QED
      BY <3>2, <3>3
  <2> QED
    BY <2>5, <2>6 DEF NeverOvercharged
<1>5. ASSUME NEW r \in Runs, Finish(r) PROVE CInv'
  <2>1. run[r] \in RunRows
    BY <1>5 DEF Finish, ChargeTypes, None
  <2>2. run' \in [Runs -> {None} \cup RunRows]
    BY <1>5, <2>1 DEF Finish, ChargeTypes, RunRows
  <2> QED
    BY <1>5, <2>2 DEF Finish, ChargeTypes, ReportsAreHonest, NeverOvercharged
<1>6. ASSUME NEW r \in Runs, RuntimeStarts(r) \/ RuntimeEnds(r) PROVE CInv'
  BY <1>6 DEF RuntimeStarts, RuntimeEnds, ChargeTypes, ReportsAreHonest, NeverOvercharged
<1>7. ASSUME UNCHANGED <<run, stepCost, runtime, report, spent, sent>> PROVE CInv'
  BY <1>7 DEF ChargeTypes, ReportsAreHonest, NeverOvercharged
<1> QED
  BY <1>1, <1>2, <1>3, <1>4, <1>5, <1>6, <1>7
     DEF Next, vars, CreateReads, CreateAborts, TopUp
-------------------------------------------------------------------------------
LEMMA CreationInit == Init => CreationsAreNew
BY DEF Init, CreationsAreNew

\* Only the creation transaction of a run inserts it, and it inserts it once.
LEMMA CreationStep == ChargeTypes /\ CreationsAreNew /\ [Next]_vars => CreationsAreNew'
<1> SUFFICES ASSUME ChargeTypes, CreationsAreNew, [Next]_vars PROVE CreationsAreNew'
  OBVIOUS
<1>1. ASSUME NEW r \in Runs, NEW request \in Requests, NEW funding \in {"credits", "account"},
             NEW purpose \in Purposes, CreateReads(r, request, funding, purpose)
      PROVE  CreationsAreNew'
  <2> DEFINE new == [purpose |-> purpose, funding |-> funding, limit |-> TaskLimit(request, funding)]
  <2>1. /\ creating' = [creating EXCEPT ![r] = new] /\ run[r] = None
        /\ UNCHANGED <<run, runtime>>
    BY <1>1 DEF CreateReads
  <2>2. new.purpose \in Purposes /\ new.funding \in Fundings
    BY DEF Fundings
  <2> HIDE DEF new
  <2> QED
    BY <2>1, <2>2 DEF CreationsAreNew
<1>2. ASSUME NEW r \in Runs, CreateCommits(r) PROVE CreationsAreNew'
  <2>1. run'[r] # None
    BY <1>2 DEF CreateCommits, ChargeTypes, None
  <2>2. /\ creating' = [creating EXCEPT ![r] = None]
        /\ \A q \in Runs \ {r} : run'[q] = run[q]
        /\ UNCHANGED runtime
    BY <1>2 DEF CreateCommits, ChargeTypes
  <2> QED
    BY <2>1, <2>2 DEF CreationsAreNew
<1>3. ASSUME NEW r \in Runs, CreateAborts(r) PROVE CreationsAreNew'
  BY <1>3 DEF CreateAborts, CreationsAreNew
<1>4. ASSUME NEW r \in Runs, RuntimeStarts(r) PROVE CreationsAreNew'
  BY <1>4 DEF RuntimeStarts, CreationsAreNew, None
<1>5. ASSUME NEW r \in Runs, UNCHANGED <<creating, run>>,
             \A q \in Runs \ {r} : runtime'[q] = runtime[q], runtime[r] # "off"
      PROVE  CreationsAreNew'
  BY <1>5 DEF CreationsAreNew
<1>6. ASSUME NEW r \in Runs, Finish(r) PROVE CreationsAreNew'
  <2>1. run[r] \in RunRows
    BY <1>6 DEF Finish, ChargeTypes, None
  <2>2. run'[r] # None
    BY <1>6, <2>1 DEF Finish, ChargeTypes, RunRows, None
  <2>3. /\ UNCHANGED <<creating, runtime>>
        /\ \A q \in Runs \ {r} : run'[q] = run[q]
    BY <1>6 DEF Finish, ChargeTypes
  <2>4. creating[r] = None
    BY <2>1 DEF CreationsAreNew, RunRows, None
  <2> QED
    BY <2>2, <2>3, <2>4 DEF CreationsAreNew
<1>7. ASSUME UNCHANGED <<creating, run, runtime>> PROVE CreationsAreNew'
  BY <1>7 DEF CreationsAreNew
<1>8. ASSUME NEW r \in Runs, NEW m \in sent[r], UpdateStep(r, m) PROVE CreationsAreNew'
  <2>1. UNCHANGED <<creating, run>>
    BY <1>8 DEF UpdateStep
  <2>2. \A q \in Runs : run[q] = None => runtime'[q] = "off"
    BY <1>8 DEF UpdateStep, CreationsAreNew, ChargeTypes
  <2> QED
    BY <2>1, <2>2 DEF CreationsAreNew
<1>9. ASSUME NEW r \in Runs,
             RuntimeEnds(r) \/ (\E k \in Steps : StartAttempt(r, k)) \/ (\E cents : Report(r, cents))
      PROVE  CreationsAreNew'
  <2>1. UNCHANGED <<creating, run>> /\ runtime[r] # "off" /\ \A q \in Runs \ {r} : runtime'[q] = runtime[q]
    BY <1>9 DEF RuntimeEnds, StartAttempt, Report, ChargeTypes
  <2> QED
    BY <2>1, <1>5
<1> QED
  BY <1>1, <1>2, <1>3, <1>4, <1>6, <1>7, <1>8, <1>9 DEF Next, vars, TopUp

\* However often and in whatever order its reports arrive, a step is never
\* charged more than the provider took for it (UpdateStep).
THEOREM RetriesNeverOvercharge == Spec => []NeverOvercharged
<1>1. Init => CInv /\ CreationsAreNew
  BY ChargeInit, CreationInit
<1>2. CInv /\ CreationsAreNew /\ [Next]_vars => (CInv /\ CreationsAreNew)'
  BY ChargeStep, CreationStep DEF CInv
<1>3. CInv => NeverOvercharged
  BY DEF CInv
<1> QED
  BY <1>1, <1>2, <1>3, PTL DEF Spec
-------------------------------------------------------------------------------
\* Between two attempts every report is charged; while one is reported, all but
\* that one.
SentIsCharged ==
    \A r \in Runs :
      /\ runtime[r] \in {"off", "ready", "working"} =>
           \A m \in sent[r] : m.cost <= stepCost[r][m.key]
      /\ runtime[r] = "reporting" =>
           \A m \in sent[r] \ {report[r]} : m.cost <= stepCost[r][m.key]

\* But for routines, that is all that was spent: the report says what its step
\* has cost so far.  A chat has spent nothing before its one attempt.
ChargedUpToReport ==
    \A r \in Runs :
      /\ runtime[r] = "off" => \A k \in Steps : stepCost[r][k] = 0 /\ spent[r][k] = 0
      /\ runtime[r] \in {"ready", "working"} /\ Cumulative(r) =>
           \A k \in Steps : stepCost[r][k] = spent[r][k]
      /\ runtime[r] = "reporting" /\ Cumulative(r) =>
           /\ report[r].cost = spent[r][report[r].key]
           /\ \A k \in Steps \ {report[r].key} : stepCost[r][k] = spent[r][k]
      /\ runtime[r] \in {"ready", "working"} /\ run[r].purpose = "chat" =>
           \A k \in Steps : spent[r][k] = 0

LEMMA ChargedInit == Init => ChargedUpToReport /\ SentIsCharged
BY DEF Init, ChargedUpToReport, SentIsCharged

LEMMA SentStep ==
    ASSUME CInv, SentIsCharged, [Next]_vars
    PROVE  SentIsCharged'
<1> USE DEF CInv
<1>1. ASSUME NEW r \in Runs, NEW cents \in Nat, Report(r, cents) PROVE SentIsCharged'
  <2>1. /\ runtime[r] = "working" /\ runtime'[r] = "reporting" /\ UNCHANGED stepCost
        /\ sent' = [sent EXCEPT ![r] = sent[r] \cup {report'[r]}]
        /\ \A q \in Runs \ {r} : runtime'[q] = runtime[q] /\ report'[q] = report[q]
    BY <1>1 DEF Report, ChargeTypes
  <2> QED
    BY <2>1 DEF SentIsCharged, ChargeTypes
<1>2. ASSUME NEW r \in Runs, NEW m \in sent[r], UpdateStep(r, m) PROVE SentIsCharged'
  <2>1. m.key \in Steps /\ m.cost \in Nat
    BY DEF ChargeTypes, Reports
  <2>2. stepCost[r][m.key] + Charge(r, m) = Larger(stepCost[r][m.key], m.cost)
    BY ChargeReachesReport
  <2>3. stepCost' = [stepCost EXCEPT ![r][m.key] = stepCost[r][m.key] + Charge(r, m)]
    BY <1>2 DEF UpdateStep
  <2>4. stepCost'[r][m.key] = Larger(stepCost[r][m.key], m.cost)
    BY <2>1, <2>2, <2>3 DEF ChargeTypes
  <2>5. \A q \in Runs, k \in Steps : ~(q = r /\ k = m.key) => stepCost'[q][k] = stepCost[q][k]
    BY <2>1, <2>3 DEF ChargeTypes
  <2>6. m.cost <= stepCost'[r][m.key] /\ stepCost[r][m.key] <= stepCost'[r][m.key]
        /\ stepCost'[r][m.key] \in Nat
    BY <2>1, <2>4 DEF Larger, ChargeTypes
  <2>7. ASSUME NEW q \in Runs, NEW n \in sent[q], n.cost <= stepCost[q][n.key]
        PROVE  n.cost <= stepCost'[q][n.key]
    <3>1. n.key \in Steps /\ n.cost \in Nat /\ stepCost[q][n.key] \in Nat
      BY DEF ChargeTypes, Reports
    <3>2. CASE q = r /\ n.key = m.key
      BY <2>6, <2>7, <3>1, <3>2
    <3>3. CASE ~(q = r /\ n.key = m.key)
      BY <2>5, <2>7, <3>1, <3>3
    <3> QED
      BY <3>2, <3>3
  <2>8. UNCHANGED <<sent, report>> /\ \A q \in Runs \ {r} : runtime'[q] = runtime[q]
    BY <1>2 DEF UpdateStep, ChargeTypes
  <2>9. \/ runtime'[r] = runtime[r]
        \/ runtime[r] = "reporting" /\ m = report[r] /\ runtime'[r] \in {"ended", "ready"}
    BY <1>2 DEF UpdateStep, ChargeTypes
  <2>10. CASE runtime'[r] = runtime[r]
    BY <2>7, <2>8, <2>10 DEF SentIsCharged
  <2>11. CASE runtime[r] = "reporting" /\ m = report[r] /\ runtime'[r] \in {"ended", "ready"}
    <3>1. ASSUME NEW n \in sent[r] PROVE n.cost <= stepCost'[r][n.key]
      <4>1. CASE n = m
        BY <2>6, <4>1
      <4>2. CASE n # m
        BY <2>7, <2>11, <4>2 DEF SentIsCharged
      <4> QED
        BY <4>1, <4>2
    <3> QED
      BY <2>7, <2>8, <2>11, <3>1 DEF SentIsCharged
  <2> QED
    BY <2>9, <2>10, <2>11
<1>3. ASSUME NEW r \in Runs, NEW k \in Steps, StartAttempt(r, k) PROVE SentIsCharged'
  <2>1. /\ UNCHANGED <<stepCost, sent>> /\ runtime[r] = "ready" /\ runtime'[r] = "working"
        /\ \A q \in Runs \ {r} : runtime'[q] = runtime[q] /\ report'[q] = report[q]
    BY <1>3 DEF StartAttempt, ChargeTypes
  <2> QED
    BY <2>1 DEF SentIsCharged
<1>4. ASSUME NEW r \in Runs, RuntimeStarts(r) \/ RuntimeEnds(r) PROVE SentIsCharged'
  BY <1>4 DEF RuntimeStarts, RuntimeEnds, SentIsCharged, ChargeTypes
<1>5. ASSUME UNCHANGED <<stepCost, runtime, report, sent>> PROVE SentIsCharged'
  BY <1>5 DEF SentIsCharged
<1> QED
  BY <1>1, <1>2, <1>3, <1>4, <1>5
     DEF Next, vars, CreateReads, CreateCommits, CreateAborts, Finish, TopUp

LEMMA ChargedStep ==
    ASSUME CInv, CreationsAreNew, ChargedUpToReport, [Next]_vars
    PROVE  ChargedUpToReport'
<1> USE DEF CInv, Cumulative
<1>1. ASSUME NEW r \in Runs, CreateCommits(r) PROVE ChargedUpToReport'
  <2>1. runtime[r] = "off"
    BY <1>1 DEF CreateCommits, CreationsAreNew
  <2>2. UNCHANGED <<stepCost, spent, runtime, report>> /\ \A q \in Runs \ {r} : run'[q] = run[q]
    BY <1>1 DEF CreateCommits, ChargeTypes
  <2> QED
    BY <2>1, <2>2 DEF ChargedUpToReport
<1>2. ASSUME NEW r \in Runs, NEW k \in Steps, StartAttempt(r, k) PROVE ChargedUpToReport'
  <2>1. /\ UNCHANGED <<run, stepCost, spent>> /\ runtime[r] = "ready" /\ runtime'[r] = "working"
        /\ \A q \in Runs \ {r} : runtime'[q] = runtime[q] /\ report'[q] = report[q]
    BY <1>2 DEF StartAttempt, ChargeTypes
  <2> QED
    BY <2>1 DEF ChargedUpToReport
<1>3. ASSUME NEW r \in Runs, NEW cents \in Nat, Report(r, cents) PROVE ChargedUpToReport'
  <2> DEFINE k == report[r].key
  <2>1. k \in Steps /\ spent[r][k] \in Nat
    BY DEF ChargeTypes, Reports
  <2>2. run[r] \in RunRows /\ run[r].purpose \in Purposes
    BY <1>3 DEF Report, CreationsAreNew, ChargeTypes, RunRows
  <2>3. CASE run[r].purpose = "build"
    BY <1>3, <2>1, <2>3 DEF Report, ReportedCost, ChargedUpToReport, ChargeTypes
  <2>4. CASE run[r].purpose = "chat"
    <3>1. spent[r][k] = 0
      BY <1>3, <2>1, <2>4 DEF Report, ChargedUpToReport
    <3> QED
      BY <1>3, <2>1, <2>4, <3>1 DEF Report, ReportedCost, ChargedUpToReport, ChargeTypes
  <2>5. CASE run[r].purpose = "autopilot"
    BY <1>3, <2>1, <2>5 DEF Report, ChargedUpToReport, ChargeTypes
  <2> QED
    BY <2>2, <2>3, <2>4, <2>5, PurposesAssumption
<1>4. ASSUME NEW r \in Runs, NEW m \in sent[r], UpdateStep(r, m) PROVE ChargedUpToReport'
  <2>1. m.key \in Steps /\ m.cost \in Nat /\ m.cost <= spent[r][m.key]
    BY DEF ChargeTypes, Reports, ReportsAreHonest
  <2>2. stepCost[r][m.key] + Charge(r, m) = Larger(stepCost[r][m.key], m.cost)
    BY ChargeReachesReport
  <2>3. stepCost' = [stepCost EXCEPT ![r][m.key] = stepCost[r][m.key] + Charge(r, m)]
    BY <1>4 DEF UpdateStep
  <2>4. stepCost'[r][m.key] = Larger(stepCost[r][m.key], m.cost)
    BY <2>1, <2>2, <2>3 DEF ChargeTypes
  <2>5. \A q \in Runs, k \in Steps : ~(q = r /\ k = m.key) => stepCost'[q][k] = stepCost[q][k]
    BY <2>1, <2>3 DEF ChargeTypes
  <2>6. stepCost[r][m.key] = spent[r][m.key] => stepCost'[r][m.key] = spent[r][m.key]
    BY <2>1, <2>4 DEF Larger
  <2>7. m.cost = spent[r][m.key] => stepCost'[r][m.key] = spent[r][m.key]
    <3>1. stepCost[r][m.key] \in Nat /\ spent[r][m.key] \in Nat /\ stepCost[r][m.key] <= spent[r][m.key]
      BY <2>1 DEF ChargeTypes, NeverOvercharged
    <3> QED
      BY <2>4, <3>1 DEF Larger
  <2>8. CASE UNCHANGED runtime
    BY <1>4, <2>1, <2>5, <2>6, <2>8 DEF UpdateStep, ChargedUpToReport
  <2>9. CASE /\ runtime[r] = "reporting" /\ m = report[r]
             /\ runtime' = [runtime EXCEPT ![r] = IF run[r].purpose = "chat" THEN "ended" ELSE "ready"]
    <3>1. Cumulative(r) => \A k \in Steps : stepCost'[r][k] = spent[r][k]
      BY <2>5, <2>7, <2>9 DEF ChargedUpToReport
    <3>2. /\ UNCHANGED <<run, spent, report>>
          /\ \A q \in Runs \ {r} : runtime'[q] = runtime[q]
          /\ runtime'[r] = IF run[r].purpose = "chat" THEN "ended" ELSE "ready"
      BY <1>4, <2>9 DEF UpdateStep, ChargeTypes
    <3> QED
      BY <3>1, <3>2, <2>5 DEF ChargedUpToReport
  <2> QED
    BY <1>4, <2>8, <2>9 DEF UpdateStep
<1>5. ASSUME NEW r \in Runs, Finish(r) PROVE ChargedUpToReport'
  <2>1. run[r] \in RunRows
    BY <1>5 DEF Finish, ChargeTypes, None
  <2>2. \A q \in Runs : run'[q].purpose = run[q].purpose
    BY <1>5, <2>1 DEF Finish, ChargeTypes, RunRows
  <2> QED
    BY <1>5, <2>2 DEF Finish, ChargedUpToReport
<1>6. ASSUME NEW r \in Runs, RuntimeStarts(r) PROVE ChargedUpToReport'
  BY <1>6 DEF RuntimeStarts, ChargedUpToReport, ChargeTypes
<1>7. ASSUME NEW r \in Runs, RuntimeEnds(r) PROVE ChargedUpToReport'
  BY <1>7 DEF RuntimeEnds, ChargedUpToReport, ChargeTypes
<1>8. ASSUME UNCHANGED <<run, stepCost, runtime, report, spent>> PROVE ChargedUpToReport'
  BY <1>8 DEF ChargedUpToReport
<1> QED
  BY <1>1, <1>2, <1>3, <1>4, <1>5, <1>6, <1>7, <1>8
     DEF Next, vars, CreateReads, CreateAborts, TopUp

\* "CostCents is the cumulative provider-reported cost for this step": a runtime
\* that goes on to its next attempt has had every report charged, through any
\* retries, and but for routines all that it spent (Step, UpdateStep).
THEOREM ReportsAreCharged == Spec => []ReportedCostIsCharged
<1> DEFINE I == CInv /\ CreationsAreNew /\ ChargedUpToReport /\ SentIsCharged
<1>1. Init => I
  BY ChargeInit, CreationInit, ChargedInit
<1>2. I /\ [Next]_vars => I'
  BY ChargeStep, CreationStep, ChargedStep, SentStep DEF CInv
<1>3. I => ReportedCostIsCharged
  <2> SUFFICES ASSUME I, NEW r \in Runs, runtime[r] = "ready"
               PROVE  /\ \A m \in sent[r] : m.cost <= stepCost[r][m.key]
                      /\ Cumulative(r) => stepCost[r] = spent[r]
    BY DEF ReportedCostIsCharged
  <2>1. Cumulative(r) => \A k \in Steps : stepCost[r][k] = spent[r][k]
    BY DEF ChargedUpToReport
  <2>2. stepCost[r] \in [Steps -> Nat] /\ spent[r] \in [Steps -> Nat]
    BY DEF CInv, ChargeTypes
  <2>3. \A m \in sent[r] : m.cost <= stepCost[r][m.key]
    BY DEF SentIsCharged
  <2> QED
    BY <2>1, <2>2, <2>3
<1> QED
  BY <1>1, <1>2, <1>3, PTL DEF Spec
-------------------------------------------------------------------------------
(* Sums over finite sets.  Total folds with a recursive function, which      *)
(* takes the elements in the order that CHOOSE gives them.                   *)

Sum(f, S) == MapThenSumSet(LAMBDA k : f[k], S)

First(s) == CHOOSE x \in s : TRUE

Unfolds(f, D, g) ==
    g = [s \in D |-> IF s = {} THEN 0 ELSE f[First(s)] + g[s \ {First(s)}]]

\* Induction over finite sets, as the least counterexample: a set of subsets
\* that is not empty has a minimal member.
LEMMA MinimalSubset ==
    ASSUME NEW S, IsFiniteSet(S), NEW Bad, Bad \subseteq SUBSET S, Bad # {}
    PROVE  \E U \in Bad : \A V \in Bad : V \subseteq U => V = U
<1>1. IsWellFoundedOn(StrictSubsetOrdering(S), SUBSET S)
  BY FS_StrictSubsetOrderingWellFounded, FS_FiniteSubsetsOfFinite
<1>2. \E x \in Bad : \A y \in Bad : ~(<<y,x>> \in StrictSubsetOrdering(S))
  BY <1>1, WFMin
<1> QED
  BY <1>2 DEF StrictSubsetOrdering


\* Two unfoldings agree where both are defined.
LEMMA SumUnique ==
    ASSUME NEW S, IsFiniteSet(S), NEW T, NEW f, NEW g, NEW h,
           Unfolds(f, SUBSET S, g), Unfolds(f, SUBSET T, h)
    PROVE  \A s \in SUBSET (S \cap T) : g[s] = h[s]
<1> DEFINE Bad == {s \in SUBSET (S \cap T) : g[s] # h[s]}
<1> SUFFICES ASSUME Bad # {} PROVE FALSE
  OBVIOUS
<1>0. Bad \subseteq SUBSET S
  OBVIOUS
<1> HIDE DEF Bad
<1>1. PICK U \in Bad : \A V \in Bad : V \subseteq U => V = U
  BY <1>0, MinimalSubset
<1> USE DEF Bad
<1>2. /\ g[U] = IF U = {} THEN 0 ELSE f[First(U)] + g[U \ {First(U)}]
      /\ h[U] = IF U = {} THEN 0 ELSE f[First(U)] + h[U \ {First(U)}]
  BY DEF Unfolds
<1>3. U # {} => g[U \ {First(U)}] = h[U \ {First(U)}]
  BY <1>1 DEF First
<1> QED
  BY <1>2, <1>3

\* The recursion has a solution on the subsets of a finite set.
LEMMA SumSolution ==
    ASSUME NEW S, IsFiniteSet(S), NEW f
    PROVE  \E g : Unfolds(f, SUBSET S, g)
<1> DEFINE Bad == {V \in SUBSET S : ~(\E g : Unfolds(f, SUBSET V, g))}
<1> SUFFICES ASSUME Bad # {} PROVE FALSE
  OBVIOUS
<1>0. Bad \subseteq SUBSET S
  OBVIOUS
<1> HIDE DEF Bad
<1>1. PICK U \in Bad : \A V \in Bad : V \subseteq U => V = U
  BY <1>0, MinimalSubset
<1> USE DEF Bad
<1> DEFINE G(V) == CHOOSE g : Unfolds(f, SUBSET V, g)
<1>2. \A V \in SUBSET U : V # U => Unfolds(f, SUBSET V, G(V))
  BY <1>1
<1>3. \A V \in SUBSET U : IsFiniteSet(V)
  BY FS_Subset
<1> DEFINE val(s) == IF s = {} THEN 0
                     ELSE f[First(s)] + G(s \ {First(s)})[s \ {First(s)}]
<1> DEFINE g == [s \in SUBSET U |-> val(s)]
<1> HIDE DEF G
<1>4. \A V \in SUBSET U : V # U => G(V)[V] = val(V)
  <2> SUFFICES ASSUME NEW V \in SUBSET U, V # U, V # {} PROVE G(V)[V] = val(V)
    BY <1>2 DEF Unfolds
  <2> DEFINE W == V \ {First(V)}
  <2>1. W \in SUBSET V /\ W # U /\ W \in SUBSET U
    BY DEF First
  <2>2. G(V)[V] = f[First(V)] + G(V)[W]
    BY <1>2 DEF Unfolds
  <2>3. G(V)[W] = G(W)[W]
    <3>1. Unfolds(f, SUBSET V, G(V)) /\ Unfolds(f, SUBSET W, G(W)) /\ IsFiniteSet(V)
      BY <1>2, <1>3, <2>1
    <3>2. W \in SUBSET (V \cap W)
      OBVIOUS
    <3> HIDE DEF W
    <3> QED
      BY <3>1, <3>2, SumUnique
  <2> QED
    BY <2>2, <2>3
<1>5. \A s \in SUBSET U : s # {} => g[s \ {First(s)}] = G(s \ {First(s)})[s \ {First(s)}]
  <2> TAKE s \in SUBSET U
  <2> HAVE s # {}
  <2> DEFINE W == s \ {First(s)}
  <2>1. W \in SUBSET U /\ W # U
    BY DEF First
  <2> QED
    BY <1>4, <2>1
<1>6. Unfolds(f, SUBSET U, g)
  BY <1>5 DEF Unfolds
<1> QED
  BY <1>6

LEMMA SumEmpty == ASSUME NEW f PROVE Sum(f, {}) = 0
<1> DEFINE Iter == CHOOSE g : Unfolds(f, SUBSET {}, g)
<1>1. Sum(f, {}) = Iter[{}]
  BY DEF Sum, MapThenSumSet, MapThenFoldSet, Unfolds, First
<1>2. Unfolds(f, SUBSET {}, Iter)
  BY SumSolution, FS_EmptySet
<1> HIDE DEF Iter
<1> QED
  BY <1>1, <1>2 DEF Unfolds

\* One step of the recursion.
LEMMA SumFirst ==
    ASSUME NEW S, IsFiniteSet(S), S # {}, NEW f
    PROVE  Sum(f, S) = f[First(S)] + Sum(f, S \ {First(S)})
<1> DEFINE Iter(T) == CHOOSE g : Unfolds(f, SUBSET T, g)
<1> DEFINE R == S \ {First(S)}
<1>1. Sum(f, S) = Iter(S)[S] /\ Sum(f, R) = Iter(R)[R]
  BY DEF Sum, MapThenSumSet, MapThenFoldSet, Unfolds, First
<1>2. IsFiniteSet(R) /\ R \in SUBSET (S \cap R)
  BY FS_Subset
<1>3. Unfolds(f, SUBSET S, Iter(S)) /\ Unfolds(f, SUBSET R, Iter(R))
  BY <1>2, SumSolution
<1> HIDE DEF Iter
<1>4. Iter(S)[S] = f[First(S)] + Iter(S)[R]
  BY <1>3 DEF Unfolds
<1>5. Iter(S)[R] = Iter(R)[R]
  <2> HIDE DEF R
  <2> QED
    BY <1>2, <1>3, SumUnique
<1> QED
  BY <1>1, <1>4, <1>5

LEMMA SumType ==
    ASSUME NEW S, IsFiniteSet(S), NEW f, \A x \in S : f[x] \in Int
    PROVE  Sum(f, S) \in Int
<1> DEFINE Bad == {T \in SUBSET S : Sum(f, T) \notin Int}
<1> SUFFICES ASSUME Bad # {} PROVE FALSE
  OBVIOUS
<1>1. Bad \subseteq SUBSET S
  OBVIOUS
<1> HIDE DEF Bad
<1>2. PICK U \in Bad : \A V \in Bad : V \subseteq U => V = U
  BY <1>1, MinimalSubset
<1> USE DEF Bad
<1>3. IsFiniteSet(U) /\ U # {}
  <2>1. U \in SUBSET S
    BY <1>1
  <2>2. Sum(f, {}) = 0
    BY SumEmpty
  <2>3. Sum(f, U) \notin Int
    BY DEF Bad
  <2>4. U # {}
    BY <2>2, <2>3
  <2> QED
    BY <2>1, <2>4, FS_Subset
<1>4. First(U) \in U /\ Sum(f, U \ {First(U)}) \in Int
  BY <1>2, <1>3 DEF First
<1> QED
  BY <1>3, <1>4, SumFirst

\* Any element may be taken out first.
LEMMA SumRemove ==
    ASSUME NEW S, IsFiniteSet(S), NEW f, \A x \in S : f[x] \in Int, NEW x \in S
    PROVE  Sum(f, S) = f[x] + Sum(f, S \ {x})
<1> DEFINE Bad == {T \in SUBSET S : \E y \in T : Sum(f, T) # f[y] + Sum(f, T \ {y})}
<1> SUFFICES ASSUME Bad # {} PROVE FALSE
  OBVIOUS
<1>1. Bad \subseteq SUBSET S
  OBVIOUS
<1> HIDE DEF Bad
<1>2. PICK U \in Bad : \A V \in Bad : V \subseteq U => V = U
  BY <1>1, MinimalSubset
<1>3. PICK y \in U : Sum(f, U) # f[y] + Sum(f, U \ {y})
  BY DEF Bad
<1> DEFINE z == First(U)
<1>4. \A T \in SUBSET S : IsFiniteSet(T) /\ Sum(f, T) \in Int
  BY FS_Subset, SumType
<1>5. z \in U /\ U \in SUBSET S
  BY DEF First, Bad
<1>6. Sum(f, U) = f[z] + Sum(f, U \ {z})
  BY <1>4, <1>5, SumFirst
<1>7. y # z
  BY <1>3, <1>6
<1>8. \A T \in SUBSET U : T # U => \A w \in T : Sum(f, T) = f[w] + Sum(f, T \ {w})
  BY <1>2, <1>5 DEF Bad
<1>9. /\ Sum(f, U \ {z}) = f[y] + Sum(f, (U \ {z}) \ {y})
      /\ Sum(f, U \ {y}) = f[z] + Sum(f, (U \ {y}) \ {z})
  <2> HIDE DEF z
  <2>1. (U \ {z}) \in SUBSET U /\ U \ {z} # U /\ y \in U \ {z}
    BY <1>5, <1>7
  <2>2. (U \ {y}) \in SUBSET U /\ U \ {y} # U /\ z \in U \ {y}
    BY <1>5, <1>7
  <2> QED
    BY <1>8, <2>1, <2>2
<1>10. (U \ {z}) \ {y} = (U \ {y}) \ {z}
  OBVIOUS
<1>11. f[y] \in Int /\ f[z] \in Int /\ Sum(f, (U \ {y}) \ {z}) \in Int
  <2>1. (U \ {y}) \ {z} \in SUBSET S
    BY <1>5
  <2> QED
    BY <1>4, <1>5, <2>1
<1> DEFINE rest == Sum(f, (U \ {y}) \ {z})
<1> HIDE DEF z, rest
<1>12. \A a, b, c \in Int : a + (b + c) = b + (a + c)
  OBVIOUS
<1>13. f[z] + (f[y] + rest) = f[y] + (f[z] + rest)
  BY <1>11, <1>12 DEF rest
<1>14. Sum(f, U) = f[z] + (f[y] + rest) /\ Sum(f, U \ {y}) = f[z] + rest
  BY <1>6, <1>9, <1>10 DEF rest
<1> QED
  BY <1>3, <1>13, <1>14

\* A sum depends on the values of its members only.
LEMMA SumAgree ==
    ASSUME NEW S, IsFiniteSet(S), NEW f, NEW g, \A x \in S : f[x] = g[x]
    PROVE  Sum(f, S) = Sum(g, S)
<1> DEFINE Bad == {T \in SUBSET S : Sum(f, T) # Sum(g, T)}
<1> SUFFICES ASSUME Bad # {} PROVE FALSE
  OBVIOUS
<1>1. Bad \subseteq SUBSET S
  OBVIOUS
<1> HIDE DEF Bad
<1>2. PICK U \in Bad : \A V \in Bad : V \subseteq U => V = U
  BY <1>1, MinimalSubset
<1> USE DEF Bad
<1>3. IsFiniteSet(U) /\ U # {}
  <2>1. U \in SUBSET S
    BY <1>1
  <2>2. Sum(f, {}) = 0 /\ Sum(g, {}) = 0
    BY SumEmpty
  <2> QED
    BY <2>1, <2>2, FS_Subset
<1>4. First(U) \in U /\ Sum(f, U \ {First(U)}) = Sum(g, U \ {First(U)})
  BY <1>2, <1>3 DEF First
<1> QED
  BY <1>3, <1>4, SumFirst

\* Changing one value changes the sum by the difference.
LEMMA SumChange ==
    ASSUME NEW S, IsFiniteSet(S), NEW f, NEW g, NEW x \in S,
           \A y \in S : f[y] \in Int /\ g[y] \in Int,
           \A y \in S \ {x} : g[y] = f[y]
    PROVE  Sum(g, S) = Sum(f, S) + g[x] - f[x]
<1>1. Sum(f, S) = f[x] + Sum(f, S \ {x}) /\ Sum(g, S) = g[x] + Sum(g, S \ {x})
  BY SumRemove
<1>2. IsFiniteSet(S \ {x})
  BY FS_Subset
<1>3. Sum(f, S \ {x}) = Sum(g, S \ {x}) /\ Sum(f, S \ {x}) \in Int
  BY <1>2, SumAgree, SumType
<1> QED
  BY <1>1, <1>3

LEMMA SumLeq ==
    ASSUME NEW S, IsFiniteSet(S), NEW f, NEW g,
           \A x \in S : f[x] \in Int /\ g[x] \in Int /\ f[x] <= g[x]
    PROVE  Sum(f, S) <= Sum(g, S)
<1> DEFINE Bad == {T \in SUBSET S : ~(Sum(f, T) <= Sum(g, T))}
<1> SUFFICES ASSUME Bad # {} PROVE FALSE
  OBVIOUS
<1>1. Bad \subseteq SUBSET S
  OBVIOUS
<1> HIDE DEF Bad
<1>2. PICK U \in Bad : \A V \in Bad : V \subseteq U => V = U
  BY <1>1, MinimalSubset
<1> USE DEF Bad
<1>3. IsFiniteSet(U) /\ U # {}
  <2>1. U \in SUBSET S
    BY <1>1
  <2>2. Sum(f, {}) = 0 /\ Sum(g, {}) = 0
    BY SumEmpty
  <2>3. ~(Sum(f, U) <= Sum(g, U))
    BY DEF Bad
  <2>4. U # {}
    BY <2>2, <2>3
  <2> QED
    BY <2>1, <2>4, FS_Subset
<1> DEFINE R == U \ {First(U)}
<1>4. First(U) \in U /\ Sum(f, R) <= Sum(g, R)
  BY <1>2, <1>3 DEF First
<1>5. Sum(f, R) \in Int /\ Sum(g, R) \in Int
  BY <1>3, FS_Subset, SumType
<1>6. Sum(f, U) = f[First(U)] + Sum(f, R) /\ Sum(g, U) = g[First(U)] + Sum(g, R)
  BY <1>3, SumFirst
<1> HIDE DEF R
<1> QED
  BY <1>4, <1>5, <1>6

\* The same of Total.
LEMMA TotalIsSum == \A f : Total(f) = Sum(f, DOMAIN f)
BY DEF Total, Sum

LEMMA TotalChange ==
    ASSUME NEW S, IsFiniteSet(S), NEW f \in [S -> Int], NEW g \in [S -> Int], NEW x \in S,
           \A y \in S \ {x} : g[y] = f[y]
    PROVE  Total(g) = Total(f) + g[x] - f[x]
<1>1. Sum(g, S) = Sum(f, S) + g[x] - f[x]
  BY SumChange
<1> QED
  BY <1>1, TotalIsSum

LEMMA TotalLeq ==
    ASSUME NEW S, IsFiniteSet(S), NEW f \in [S -> Int], NEW g \in [S -> Int],
           \A x \in S : f[x] <= g[x]
    PROVE  Total(f) <= Total(g)
<1>1. Sum(f, S) <= Sum(g, S)
  BY SumLeq
<1> QED
  BY <1>1, TotalIsSum

LEMMA TotalType ==
    ASSUME NEW S, IsFiniteSet(S), NEW f \in [S -> Int]
    PROVE  Total(f) \in Int
<1>1. Sum(f, S) \in Int
  BY SumType
<1> QED
  BY <1>1, TotalIsSum

LEMMA TotalOfZeros ==
    ASSUME NEW S, IsFiniteSet(S), NEW f \in [S -> Int], \A x \in S : f[x] = 0
    PROVE  Total(f) = 0
<1> DEFINE Bad == {T \in SUBSET S : Sum(f, T) # 0}
<1>1. Bad \subseteq SUBSET S
  OBVIOUS
<1>2. Bad = {}
  <2> SUFFICES ASSUME Bad # {} PROVE FALSE
    OBVIOUS
  <2> HIDE DEF Bad
  <2>1. PICK U \in Bad : \A V \in Bad : V \subseteq U => V = U
    BY <1>1, MinimalSubset
  <2> USE DEF Bad
  <2>2. U \in SUBSET S /\ Sum(f, U) # 0
    OBVIOUS
  <2>3. U # {}
    BY <2>2, SumEmpty
  <2>4. IsFiniteSet(U)
    BY <2>2, FS_Subset
  <2>5. First(U) \in U /\ Sum(f, U \ {First(U)}) = 0
    BY <2>1, <2>3 DEF First
  <2>6. Sum(f, U) = f[First(U)] + Sum(f, U \ {First(U)})
    BY <2>3, <2>4, SumFirst
  <2> QED
    BY <2>2, <2>5, <2>6
<1>3. Sum(f, S) = 0
  BY <1>2
<1> QED
  BY <1>3, TotalIsSum

\* Taking an amount out of a finite set of amounts.
LEMMA TotalOfAmounts ==
    ASSUME NEW A \in SUBSET Nat, IsFiniteSet(A), NEW amount \in A
    PROVE  Total([a \in A |-> a]) = amount + Total([a \in A \ {amount} |-> a])
<1> DEFINE f == [a \in A |-> a]
<1> DEFINE g == [a \in A \ {amount} |-> a]
<1>1. Sum(f, A) = f[amount] + Sum(f, A \ {amount})
  <2>1. \A a \in A : f[a] \in Int
    OBVIOUS
  <2> HIDE DEF f
  <2> QED
    BY <2>1, SumRemove
<1>2. IsFiniteSet(A \ {amount})
  BY FS_Subset
<1>3. \A a \in A \ {amount} : f[a] = g[a]
  OBVIOUS
<1>4. Sum(f, A \ {amount}) = Sum(g, A \ {amount})
  <2> HIDE DEF f, g
  <2> QED
    BY <1>2, <1>3, SumAgree
<1> QED
  BY <1>1, <1>4, TotalIsSum
-------------------------------------------------------------------------------
(* The balance.                                                             *)

LedgerTypes ==
    /\ balance \in Int
    /\ pending \subseteq TopUps
    /\ limit \in [Runs -> Nat]
    /\ cost \in [Runs -> Nat]
    /\ usage \in [Runs -> Nat]
    /\ \A r \in Runs : creating[r] # None => creating[r].limit \in Nat \ {0}

\* The row lock of the workspace has one holder.
OneCreation == \A q, r \in Runs : creating[q] # None /\ creating[r] # None => q = r

OnCredit(r) == run[r] # None /\ run[r].funding = "credits"

\* What is recorded of a run agrees, from before it is inserted.
CostsAddUp ==
    \A r \in Runs :
      /\ cost[r] = Total(stepCost[r])
      /\ usage[r] = IF OnCredit(r) THEN cost[r] ELSE 0
      /\ run[r] = None => cost[r] = 0

\* The runtime stops at the limit, and has spent nothing before the run is there.
SpendingIsLimited ==
    \A r \in Runs : Total(spent[r]) <= IF run[r] = None THEN 0 ELSE limit[r]

BalanceAddsUp == balance = StarterCredit + Total([amount \in TopUps \ pending |-> amount]) - Total(usage)

Books ==
    /\ LedgerTypes /\ OneCreation /\ CostsAddUp /\ SpendingIsLimited /\ BalanceAddsUp
    /\ CreditCoversReservations

LedgerInv == CInv /\ CreationsAreNew /\ Books

LEMMA HeldTypes ==
    ASSUME LedgerTypes, NEW r \in Runs
    PROVE  Held(r) \in Nat /\ Pledged(r) \in Nat
BY DEF LedgerTypes, Held, Pledged

\* What every step does that concerns one run: if it takes no more from the
\* balance than from what is held back for that run, the rest stays covered.
LEMMA CoverMoves ==
    ASSUME LedgerTypes, LedgerTypes', CreditCoversReservations, NEW r \in Runs,
           \A q \in Runs \ {r} : Held(q)' = Held(q) /\ Pledged(q)' = Pledged(q),
           balance' - Held(r)' - Pledged(r)' >= balance - Held(r) - Pledged(r)
    PROVE  CreditCoversReservations'
<1> DEFINE h == [q \in Runs |-> Held(q)]
<1> DEFINE i == [q \in Runs |-> Held(q)']
<1> DEFINE p == [q \in Runs |-> Pledged(q)]
<1> DEFINE o == [q \in Runs |-> Pledged(q)']
<1>1. \A q \in Runs : Held(q) \in Nat /\ Pledged(q) \in Nat
  BY HeldTypes
<1>2. \A q \in Runs : Held(q)' \in Nat /\ Pledged(q)' \in Nat
  BY DEF LedgerTypes, Held, Pledged
<1>3. h \in [Runs -> Int] /\ i \in [Runs -> Int] /\ p \in [Runs -> Int] /\ o \in [Runs -> Int]
  BY <1>1, <1>2
<1>4. /\ \A q \in Runs \ {r} : i[q] = h[q] /\ o[q] = p[q]
      /\ h[r] = Held(r) /\ i[r] = Held(r)' /\ p[r] = Pledged(r) /\ o[r] = Pledged(r)'
  OBVIOUS
<1>5. balance >= Total(h) + Total(p)
  BY DEF CreditCoversReservations, Reserved
<1>6. CreditCoversReservations' <=> balance' >= Total(i) + Total(o)
  BY DEF CreditCoversReservations, Reserved
<1> HIDE DEF h, i, p, o
<1>7. /\ Total(i) = Total(h) + i[r] - h[r]
      /\ Total(o) = Total(p) + o[r] - p[r]
  BY <1>3, <1>4, FinitenessAssumption, TotalChange
<1>8. Total(h) \in Int /\ Total(p) \in Int
  BY <1>3, FinitenessAssumption, TotalType
<1>9. balance \in Int /\ balance' \in Int
  BY DEF LedgerTypes
<1>10. balance' - i[r] - o[r] >= balance - h[r] - p[r] /\ {i[r], o[r], h[r], p[r]} \subseteq Int
  BY <1>1, <1>2, <1>4
<1> QED
  BY <1>5, <1>6, <1>7, <1>8, <1>9, <1>10

\* A run costs what its steps cost, they cost no more than was spent, and that
\* was within the limit.
LEMMA CostWithinLimit ==
    ASSUME CInv, LedgerTypes, CostsAddUp, SpendingIsLimited, NEW r \in Runs, run[r] # None
    PROVE  cost[r] <= limit[r]
<1>1. /\ stepCost[r] \in [Steps -> Int] /\ spent[r] \in [Steps -> Int]
      /\ \A k \in Steps : stepCost[r][k] <= spent[r][k]
  BY DEF CInv, ChargeTypes, NeverOvercharged
<1>2. Total(stepCost[r]) <= Total(spent[r]) /\ Total(stepCost[r]) \in Int /\ Total(spent[r]) \in Int
  BY <1>1, FinitenessAssumption, TotalLeq, TotalType
<1>3. cost[r] = Total(stepCost[r]) /\ Total(spent[r]) <= limit[r] /\ limit[r] \in Nat
  BY DEF CostsAddUp, SpendingIsLimited, LedgerTypes
<1> QED
  BY <1>2, <1>3

LEMMA ReservedType ==
    ASSUME LedgerTypes
    PROVE  Reserved \in Int /\ Total([r \in Runs |-> Pledged(r)]) \in Int
<1>1. [r \in Runs |-> Held(r)] \in [Runs -> Int] /\ [r \in Runs |-> Pledged(r)] \in [Runs -> Int]
  BY HeldTypes
<1> QED
  BY <1>1, FinitenessAssumption, TotalType DEF Reserved

LEMMA LedgerInit == Init => LedgerInv
<1> SUFFICES ASSUME Init PROVE LedgerInv
  OBVIOUS
<1>1. CInv /\ CreationsAreNew
  BY ChargeInit, CreationInit
<1>2. LedgerTypes /\ OneCreation
  BY AmountsAssumption DEF Init, LedgerTypes, OneCreation
<1>3. \A r \in Runs : Total(stepCost[r]) = 0 /\ Total(spent[r]) = 0
  <2> TAKE r \in Runs
  <2>1. /\ stepCost[r] \in [Steps -> Int] /\ spent[r] \in [Steps -> Int]
        /\ \A k \in Steps : stepCost[r][k] = 0 /\ spent[r][k] = 0
    BY DEF Init
  <2> QED
    BY <2>1, FinitenessAssumption, TotalOfZeros
<1>4. CostsAddUp /\ SpendingIsLimited
  <2>1. \A r \in Runs : cost[r] = 0 /\ usage[r] = 0 /\ run[r] = None
    BY DEF Init
  <2>2. CostsAddUp
    BY <1>3, <2>1 DEF CostsAddUp, OnCredit
  <2>3. SpendingIsLimited
    BY <1>3, <2>1 DEF SpendingIsLimited
  <2> QED
    BY <2>2, <2>3
<1>5. Total(usage) = 0
  <2>1. usage \in [Runs -> Int] /\ \A r \in Runs : usage[r] = 0
    BY DEF Init
  <2> QED
    BY <2>1, FinitenessAssumption, TotalOfZeros
<1>6. BalanceAddsUp
  <2> DEFINE f == [amount \in TopUps \ pending |-> amount]
  <2>1. f \in [{} -> Int]
    BY DEF Init
  <2>2. Total(f) = 0
    <3> HIDE DEF f
    <3> QED
      BY <2>1, FS_EmptySet, TotalOfZeros
  <2>3. balance = StarterCredit /\ StarterCredit \in Nat
    BY AmountsAssumption DEF Init
  <2> HIDE DEF f
  <2>4. StarterCredit = StarterCredit + Total(f) - Total(usage)
    BY <1>5, <2>2, <2>3
  <2> QED
    BY <2>3, <2>4 DEF BalanceAddsUp, f
<1>7. CreditCoversReservations
  <2> DEFINE h == [r \in Runs |-> Held(r)]
  <2> DEFINE p == [r \in Runs |-> Pledged(r)]
  <2>1. h \in [Runs -> Int] /\ p \in [Runs -> Int] /\ \A r \in Runs : h[r] = 0 /\ p[r] = 0
    BY DEF Init, Held, OpenOnCredit, Pledged
  <2> HIDE DEF h, p
  <2>2. Total(h) = 0 /\ Total(p) = 0
    BY <2>1, FinitenessAssumption, TotalOfZeros
  <2>3. balance \in Nat
    BY AmountsAssumption DEF Init
  <2> QED
    BY <2>2, <2>3 DEF CreditCoversReservations, Reserved, h, p
<1> QED
  BY <1>1, <1>2, <1>4, <1>6, <1>7 DEF LedgerInv, Books

\* The limit of a new run is taken from what is not held back, under the lock.
LEMMA ReadingKeepsBooks ==
    ASSUME LedgerInv, NEW r \in Runs, NEW request \in Requests, NEW funding \in Fundings,
           NEW purpose \in Purposes, CreateReads(r, request, funding, purpose)
    PROVE  Books'
<1> USE DEF LedgerInv, Books
<1> DEFINE L == TaskLimit(request, funding)
<1>1. /\ creating' = [creating EXCEPT ![r] = [purpose |-> purpose, funding |-> funding, limit |-> L]]
      /\ UNCHANGED <<balance, pending, run, limit, cost, stepCost, usage, spent>>
      /\ \A q \in Runs : creating[q] = None
      /\ AskedLimit(request) >= 1 /\ Affordable(funding)
  BY DEF CreateReads, WorkspaceUnlocked
<1>2. AskedLimit(request) \in Nat \ {0} /\ Available \in Int
  <2>1. AskedLimit(request) \in Int
    BY AmountsAssumption DEF AskedLimit
  <2>2. Available \in Int
    BY ReservedType DEF Available, LedgerTypes
  <2> QED
    BY <1>1, <2>1, <2>2
<1>3. L \in Nat \ {0} /\ (funding = "credits" => L <= Available)
  BY <1>1, <1>2 DEF TaskLimit, Affordable
<1> HIDE DEF L
<1>4. \A q \in Runs : creating'[q] = IF q = r THEN [purpose |-> purpose, funding |-> funding, limit |-> L]
                                              ELSE None
  BY <1>1 DEF CreationsAreNew
<1>5. LedgerTypes' /\ OneCreation'
  BY <1>1, <1>3, <1>4 DEF LedgerTypes, OneCreation
<1>6. CostsAddUp' /\ SpendingIsLimited' /\ BalanceAddsUp'
  BY <1>1 DEF CostsAddUp, SpendingIsLimited, BalanceAddsUp, OnCredit
<1>7. CreditCoversReservations'
  <2> DEFINE p == [q \in Runs |-> Pledged(q)]
  <2> DEFINE o == [q \in Runs |-> Pledged(q)']
  <2>1. p \in [Runs -> Int] /\ \A q \in Runs : p[q] = 0
    BY <1>1 DEF Pledged
  <2>2. /\ o \in [Runs -> Int] /\ \A q \in Runs \ {r} : o[q] = p[q]
        /\ o[r] = IF funding = "credits" THEN L ELSE 0
    BY <1>3, <1>4, <2>1 DEF Pledged, None
  <2>3. Reserved' = Reserved
    BY <1>1 DEF Reserved, Held, OpenOnCredit
  <2>4. CreditCoversReservations' <=> balance >= Reserved + Total(o)
    BY <1>1, <2>3 DEF CreditCoversReservations
  <2>5. CreditCoversReservations <=> balance >= Reserved + Total(p)
    BY DEF CreditCoversReservations
  <2> HIDE DEF p, o
  <2>6. Total(p) = 0 /\ Total(o) = Total(p) + o[r] - p[r]
    BY <2>1, <2>2, FinitenessAssumption, TotalOfZeros, TotalChange
  <2>7. Total(o) = IF funding = "credits" THEN L ELSE 0
    BY <1>3, <2>1, <2>2, <2>6
  <2>8. balance \in Int /\ Reserved \in Int /\ Available = balance - Reserved
    BY ReservedType DEF LedgerTypes, Available
  <2> QED
    BY <1>3, <2>4, <2>5, <2>6, <2>7, <2>8
<1> QED
  BY <1>5, <1>6, <1>7

\* What was pledged to the new run is held back for it.
LEMMA CommittingKeepsBooks ==
    ASSUME LedgerInv, NEW r \in Runs, CreateCommits(r)
    PROVE  Books'
<1> USE DEF LedgerInv, Books
<1> DEFINE new == creating[r]
<1>1. /\ new # None /\ run[r] = None /\ new.limit \in Nat \ {0}
      /\ cost[r] = 0 /\ usage[r] = 0 /\ Total(spent[r]) <= 0
  BY DEF CreateCommits, CreationsAreNew, LedgerTypes, CostsAddUp, SpendingIsLimited
<1>2. /\ creating' = [creating EXCEPT ![r] = None]
      /\ limit' = [limit EXCEPT ![r] = new.limit]
      /\ UNCHANGED <<balance, pending, cost, stepCost, usage, spent>>
      /\ \A q \in Runs \ {r} : run'[q] = run[q]
      /\ run'[r] = [phase |-> "open", purpose |-> new.purpose, funding |-> new.funding]
  BY DEF CreateCommits, CInv, ChargeTypes
<1> HIDE DEF new
<1>3. /\ \A q \in Runs \ {r} : creating'[q] = creating[q] /\ limit'[q] = limit[q]
      /\ creating'[r] = None /\ limit'[r] = new.limit
  BY <1>2 DEF CreationsAreNew, LedgerTypes
<1>4. LedgerTypes'
  BY <1>1, <1>2, <1>3 DEF LedgerTypes
<1>5. OneCreation'
  BY <1>3 DEF OneCreation
<1>6. CostsAddUp'
  <2> SUFFICES ASSUME NEW q \in Runs
               PROVE  /\ cost[q] = Total(stepCost[q])
                      /\ usage[q] = IF OnCredit(q)' THEN cost[q] ELSE 0
                      /\ run'[q] = None => cost[q] = 0
    BY <1>2 DEF CostsAddUp
  <2>1. CASE q = r
    BY <1>1, <2>1 DEF CostsAddUp
  <2>2. CASE q # r
    BY <1>2, <2>2 DEF CostsAddUp, OnCredit
  <2> QED
    BY <2>1, <2>2
<1>7. SpendingIsLimited'
  <2> SUFFICES ASSUME NEW q \in Runs
               PROVE  Total(spent[q]) <= IF run'[q] = None THEN 0 ELSE limit'[q]
    BY <1>2 DEF SpendingIsLimited
  <2>1. CASE q = r
    <3>1. spent[r] \in [Steps -> Int]
      BY DEF CInv, ChargeTypes
    <3>2. Total(spent[r]) \in Int
      BY <3>1, FinitenessAssumption, TotalType
    <3> QED
      BY <1>1, <1>3, <2>1, <3>2
  <2>2. CASE q # r
    BY <1>2, <1>3, <2>2 DEF SpendingIsLimited
  <2> QED
    BY <2>1, <2>2
<1>8. BalanceAddsUp'
  BY <1>2 DEF BalanceAddsUp
<1>9. CreditCoversReservations'
  <2>1. \A q \in Runs \ {r} : Held(q)' = Held(q) /\ Pledged(q)' = Pledged(q)
    BY <1>2, <1>3 DEF Held, OpenOnCredit, Pledged
  <2>2. Held(r) = 0 /\ Pledged(r)' = 0
    BY <1>1, <1>3 DEF Held, OpenOnCredit, Pledged, None
  <2>3. Held(r)' = Pledged(r) /\ Pledged(r) \in Nat
    BY <1>1, <1>2, <1>3 DEF Held, OpenOnCredit, Pledged, new
  <2>4. balance' = balance /\ balance \in Int
    BY <1>2 DEF LedgerTypes
  <2> QED
    BY <1>4, <2>1, <2>2, <2>3, <2>4, CoverMoves
<1> QED
  BY <1>4, <1>5, <1>6, <1>7, <1>8, <1>9

LEMMA AbortingKeepsBooks ==
    ASSUME LedgerInv, NEW r \in Runs, CreateAborts(r)
    PROVE  Books'
<1> USE DEF LedgerInv, Books
<1>1. /\ UNCHANGED <<balance, pending, run, limit, cost, stepCost, usage, spent>>
      /\ \A q \in Runs : creating'[q] = IF q = r THEN None ELSE creating[q]
  BY DEF CreateAborts, CreationsAreNew
<1>2. LedgerTypes' /\ OneCreation'
  BY <1>1 DEF LedgerTypes, OneCreation
<1>3. CostsAddUp' /\ SpendingIsLimited' /\ BalanceAddsUp'
  BY <1>1 DEF CostsAddUp, SpendingIsLimited, BalanceAddsUp, OnCredit
<1>4. CreditCoversReservations'
  <2>1. /\ \A q \in Runs \ {r} : Held(q)' = Held(q) /\ Pledged(q)' = Pledged(q)
        /\ Held(r)' = Held(r) /\ Pledged(r)' = 0
    BY <1>1 DEF Held, OpenOnCredit, Pledged
  <2>2. balance' = balance /\ balance \in Int /\ Held(r) \in Nat /\ Pledged(r) \in Nat
    BY <1>1, HeldTypes DEF LedgerTypes
  <2> QED
    BY <1>2, <2>1, <2>2, CoverMoves
<1> QED
  BY <1>2, <1>3, <1>4

LEMMA ToppingUpKeepsBooks ==
    ASSUME LedgerInv, NEW amount \in TopUps, TopUp(amount)
    PROVE  Books'
<1> USE DEF LedgerInv, Books
<1>1. /\ amount \in pending /\ pending' = pending \ {amount} /\ balance' = balance + amount
      /\ UNCHANGED <<creating, run, limit, cost, stepCost, usage, spent>>
  BY DEF TopUp
<1>2. amount \in Nat
  BY AmountsAssumption
<1>3. LedgerTypes' /\ OneCreation'
  BY <1>1, <1>2 DEF LedgerTypes, OneCreation
<1>4. CostsAddUp' /\ SpendingIsLimited'
  BY <1>1 DEF CostsAddUp, SpendingIsLimited, OnCredit
<1>5. BalanceAddsUp'
  <2> DEFINE A == TopUps \ pending'
  <2>1. A \in SUBSET Nat /\ amount \in A /\ A \ {amount} = TopUps \ pending
    BY <1>1, AmountsAssumption DEF LedgerTypes
  <2>2. IsFiniteSet(A)
    BY FinitenessAssumption, FS_Subset
  <2> HIDE DEF A
  <2>3. Total([a \in A |-> a]) = amount + Total([a \in A \ {amount} |-> a])
    BY <2>1, <2>2, TotalOfAmounts
  <2>4. Total([a \in A \ {amount} |-> a]) \in Int
    <3>1. IsFiniteSet(A \ {amount}) /\ [a \in A \ {amount} |-> a] \in [A \ {amount} -> Int]
      BY <2>1, <2>2, FS_Subset
    <3> QED
      BY <3>1, TotalType
  <2>5. Total(usage) \in Int
    <3>1. usage \in [Runs -> Int]
      BY DEF LedgerTypes
    <3> QED
      BY <3>1, FinitenessAssumption, TotalType
  <2>6. balance = StarterCredit + Total([a \in A \ {amount} |-> a]) - Total(usage)
    BY <2>1 DEF BalanceAddsUp
  <2>7. balance + amount = StarterCredit + (amount + Total([a \in A \ {amount} |-> a])) - Total(usage)
    BY <1>2, <2>4, <2>5, <2>6, AmountsAssumption
  <2> QED
    BY <1>1, <2>3, <2>7 DEF BalanceAddsUp, A
<1>6. CreditCoversReservations'
  <2> DEFINE p == Total([r \in Runs |-> Pledged(r)])
  <2>1. Reserved' = Reserved /\ p' = p
    BY <1>1 DEF Reserved, Held, OpenOnCredit, Pledged
  <2>2. Reserved \in Int /\ p \in Int /\ balance \in Int /\ balance >= Reserved + p
    BY ReservedType DEF LedgerTypes, CreditCoversReservations
  <2>3. balance + amount >= Reserved + p
    BY <1>2, <2>2
  <2> QED
    BY <1>1, <2>1, <2>3 DEF CreditCoversReservations
<1> QED
  BY <1>3, <1>4, <1>5, <1>6

LEMMA ReportingKeepsBooks ==
    ASSUME LedgerInv, NEW r \in Runs, runtime[r] = "working",
           NEW cents \in 0..RemainingBudget(r), Report(r, cents)
    PROVE  Books'
<1> USE DEF LedgerInv, Books
<1> DEFINE k == report[r].key
<1>1. /\ spent' = [spent EXCEPT ![r][k] = spent[r][k] + cents]
      /\ UNCHANGED <<balance, pending, creating, run, limit, cost, stepCost, usage>>
  BY DEF Report
<1>2. k \in Steps /\ spent \in [Runs -> [Steps -> Nat]]
  BY DEF CInv, ChargeTypes, Reports
<1> HIDE DEF k
<1>3. Total(spent[r]) \in Int
  <2>1. spent[r] \in [Steps -> Int]
    BY <1>2
  <2> QED
    BY <2>1, FinitenessAssumption, TotalType
<1>4. limit[r] \in Nat /\ run[r] # None
  BY DEF LedgerTypes, CreationsAreNew
<1>5. cents \in Nat /\ Total(spent[r]) + cents <= limit[r]
  BY <1>3, <1>4 DEF RemainingBudget
<1>6. Total(spent'[r]) = Total(spent[r]) + cents
  <2>1. /\ spent[r] \in [Steps -> Int] /\ spent'[r] \in [Steps -> Int]
        /\ \A j \in Steps \ {k} : spent'[r][j] = spent[r][j]
        /\ spent'[r][k] = spent[r][k] + cents /\ spent[r][k] \in Int
    BY <1>1, <1>2, <1>5
  <2>2. k \in Steps /\ IsFiniteSet(Steps)
    BY <1>2, FinitenessAssumption
  <2>3. Total(spent'[r]) = Total(spent[r]) + spent'[r][k] - spent[r][k]
    BY <2>1, <2>2, TotalChange
  <2> QED
    BY <1>3, <1>5, <2>1, <2>3
<1>7. SpendingIsLimited'
  <2> SUFFICES ASSUME NEW q \in Runs
               PROVE  Total(spent'[q]) <= IF run[q] = None THEN 0 ELSE limit[q]
    BY <1>1 DEF SpendingIsLimited
  <2>1. CASE q = r
    BY <1>4, <1>5, <1>6, <2>1
  <2>2. CASE q # r
    <3>1. spent'[q] = spent[q]
      BY <1>1, <1>2, <2>2
    <3> QED
      BY <3>1 DEF SpendingIsLimited
  <2> QED
    BY <2>1, <2>2
<1>8. LedgerTypes' /\ OneCreation' /\ CostsAddUp' /\ BalanceAddsUp' /\ CreditCoversReservations'
  BY <1>1 DEF LedgerTypes, OneCreation, CostsAddUp, BalanceAddsUp, CreditCoversReservations,
              OnCredit, Reserved, Held, OpenOnCredit, Pledged
<1> QED
  BY <1>7, <1>8

\* A charge moves cents from what is held back for the run to its cost, in the
\* step, the run and the ledger alike.
LEMMA ChargingKeepsBooks ==
    ASSUME LedgerInv, CInv', NEW r \in Runs, NEW m \in sent[r], UpdateStep(r, m)
    PROVE  Books'
<1> USE DEF LedgerInv, Books
<1> DEFINE c == Charge(r, m)
<1> DEFINE d == Debit(r, m)
<1>1. /\ stepCost' = [stepCost EXCEPT ![r][m.key] = stepCost[r][m.key] + c]
      /\ cost' = [cost EXCEPT ![r] = cost[r] + c]
      /\ usage' = [usage EXCEPT ![r] = usage[r] + d]
      /\ balance' = balance - d
      /\ UNCHANGED <<pending, creating, run, limit, spent>>
      /\ run[r].phase = "open"
  BY DEF UpdateStep
<1>2. /\ m.key \in Steps /\ c \in Nat
      /\ stepCost \in [Runs -> [Steps -> Nat]] /\ cost \in [Runs -> Nat] /\ usage \in [Runs -> Nat]
  BY ChargeReachesReport DEF CInv, ChargeTypes, Reports, LedgerTypes
<1>3. run[r] # None /\ d = (IF OnCredit(r) THEN c ELSE 0)
  BY <1>1 DEF None, Debit, OnCredit
<1> HIDE DEF c, d
<1>4. d \in Nat
  BY <1>2, <1>3
<1>5. Total(stepCost'[r]) = cost[r] + c
  <2>1. /\ stepCost[r] \in [Steps -> Int] /\ stepCost'[r] \in [Steps -> Int]
        /\ \A j \in Steps \ {m.key} : stepCost'[r][j] = stepCost[r][j]
        /\ stepCost'[r][m.key] = stepCost[r][m.key] + c /\ stepCost[r][m.key] \in Int
    BY <1>1, <1>2
  <2>2. Total(stepCost'[r]) = Total(stepCost[r]) + stepCost'[r][m.key] - stepCost[r][m.key]
    BY <1>2, <2>1, FinitenessAssumption, TotalChange
  <2>3. Total(stepCost[r]) = cost[r] /\ cost[r] \in Nat
    BY <1>2 DEF CostsAddUp
  <2> QED
    BY <1>2, <2>1, <2>2, <2>3
<1>6. LedgerTypes' /\ OneCreation'
  BY <1>1, <1>2, <1>4 DEF LedgerTypes, OneCreation
<1>7. SpendingIsLimited'
  BY <1>1 DEF SpendingIsLimited
<1>8. CostsAddUp'
  <2> SUFFICES ASSUME NEW q \in Runs
               PROVE  /\ cost'[q] = Total(stepCost'[q])
                      /\ usage'[q] = IF OnCredit(q) THEN cost'[q] ELSE 0
                      /\ run[q] = None => cost'[q] = 0
    BY <1>1 DEF CostsAddUp, OnCredit
  <2>1. CASE q = r
    BY <1>1, <1>2, <1>3, <1>5, <2>1 DEF CostsAddUp
  <2>2. CASE q # r
    <3>1. stepCost'[q] = stepCost[q] /\ cost'[q] = cost[q] /\ usage'[q] = usage[q]
      BY <1>1, <1>2, <2>2
    <3> QED
      BY <3>1 DEF CostsAddUp
  <2> QED
    BY <2>1, <2>2
<1>9. BalanceAddsUp'
  <2> DEFINE t == Total([amount \in TopUps \ pending |-> amount])
  <2>1. Total(usage') = Total(usage) + d
    <3>1. /\ usage \in [Runs -> Int] /\ usage' \in [Runs -> Int]
          /\ \A q \in Runs \ {r} : usage'[q] = usage[q]
          /\ usage'[r] = usage[r] + d /\ usage[r] \in Int
      BY <1>1, <1>2, <1>4
    <3>2. Total(usage') = Total(usage) + usage'[r] - usage[r] /\ Total(usage) \in Int
      BY <3>1, FinitenessAssumption, TotalChange, TotalType
    <3> QED
      BY <1>4, <3>1, <3>2
  <2>2. t \in Int
    <3>1. IsFiniteSet(TopUps \ pending)
      BY FinitenessAssumption, FS_Subset
    <3>2. \A amount \in TopUps \ pending : amount \in Int
      <4>1. \A amount \in TopUps : amount \in Nat
        BY AmountsAssumption
      <4> QED
        BY <4>1
    <3>3. [amount \in TopUps \ pending |-> amount] \in [TopUps \ pending -> Int]
      BY <3>2
    <3> QED
      BY <3>1, <3>3, TotalType DEF t
  <2>3. Total(usage) \in Int
    <3>1. usage \in [Runs -> Int]
      BY <1>2
    <3> QED
      BY <3>1, FinitenessAssumption, TotalType
  <2>4. balance = StarterCredit + t - Total(usage)
    BY DEF BalanceAddsUp
  <2> HIDE DEF t
  <2>5. balance - d = StarterCredit + t - (Total(usage) + d)
    BY <1>4, <2>2, <2>3, <2>4, AmountsAssumption
  <2> QED
    BY <1>1, <2>1, <2>5 DEF BalanceAddsUp, t
<1>10. CreditCoversReservations'
  <2>1. cost'[r] <= limit[r]
    <3>1. /\ stepCost'[r] \in [Steps -> Int] /\ spent[r] \in [Steps -> Int]
          /\ \A j \in Steps : stepCost'[r][j] <= spent[r][j]
      BY <1>1 DEF CInv, ChargeTypes, NeverOvercharged
    <3>2. Total(stepCost'[r]) <= Total(spent[r]) /\ Total(spent[r]) \in Int
      BY <3>1, FinitenessAssumption, TotalLeq, TotalType
    <3>3. Total(spent[r]) <= limit[r] /\ limit[r] \in Nat
      BY <1>3 DEF SpendingIsLimited, LedgerTypes
    <3>4. cost'[r] = cost[r] + c /\ cost[r] \in Nat
      BY <1>1, <1>2
    <3> QED
      BY <1>2, <1>5, <3>2, <3>3, <3>4
  <2>2. cost'[r] = cost[r] + c /\ cost[r] \in Nat /\ limit[r] \in Nat
    BY <1>1, <1>2 DEF LedgerTypes
  <2>3. \A q \in Runs \ {r} : Held(q)' = Held(q) /\ Pledged(q)' = Pledged(q)
    BY <1>1, <1>2 DEF Held, OpenOnCredit, Pledged
  <2>4. Pledged(r)' = Pledged(r) /\ Pledged(r) \in Nat
    BY <1>1, HeldTypes DEF Pledged
  <2>5. Held(r) = IF OnCredit(r) THEN limit[r] - cost[r] ELSE 0
    <3>1. cost[r] <= limit[r] /\ (OpenOnCredit(r) <=> OnCredit(r))
      BY <1>1, <1>2, <1>3, <2>1, <2>2 DEF OpenOnCredit, OnCredit
    <3> QED
      BY <2>2, <3>1 DEF Held
  <2>8. Held(r)' = IF OnCredit(r) THEN limit[r] - cost'[r] ELSE 0
    <3>1. OpenOnCredit(r)' <=> OnCredit(r)
      BY <1>1, <1>3 DEF OpenOnCredit, OnCredit
    <3>2. Held(r)' = IF OpenOnCredit(r)' /\ limit[r] > cost'[r] THEN limit[r] - cost'[r] ELSE 0
      BY <1>1 DEF Held
    <3>3. cost'[r] \in Int /\ limit[r] \in Int
      BY <1>2, <2>2
    <3>4. CASE limit[r] > cost'[r]
      BY <3>1, <3>2, <3>4
    <3>5. CASE limit[r] = cost'[r]
      BY <3>2, <3>3, <3>5
    <3> QED
      BY <2>1, <3>3, <3>4, <3>5
  <2>6. balance \in Int
    BY DEF LedgerTypes
  <2>7. balance' - Held(r)' - Pledged(r)' >= balance - Held(r) - Pledged(r)
    BY <1>1, <1>2, <1>3, <2>2, <2>4, <2>5, <2>6, <2>8
  <2> QED
    BY <1>6, <2>3, <2>7, CoverMoves
<1> QED
  BY <1>6, <1>7, <1>8, <1>9, <1>10

LEMMA FinishingKeepsBooks ==
    ASSUME LedgerInv, NEW r \in Runs, Finish(r)
    PROVE  Books'
<1> USE DEF LedgerInv, Books
<1>1. /\ UNCHANGED <<balance, pending, creating, limit, cost, stepCost, usage, spent>>
      /\ run[r].phase = "open" /\ run' = [run EXCEPT ![r].phase = "finished"]
      /\ run \in [Runs -> {None} \cup RunRows]
  BY DEF Finish, CInv, ChargeTypes
<1>2. run[r] \in RunRows
  BY <1>1 DEF None
<1>3. /\ \A q \in Runs \ {r} : run'[q] = run[q]
      /\ run'[r].phase = "finished" /\ run'[r].funding = run[r].funding
      /\ run[r] # None /\ run'[r] # None
  BY <1>1, <1>2 DEF RunRows, None
<1>4. LedgerTypes' /\ OneCreation'
  BY <1>1 DEF LedgerTypes, OneCreation
<1>5. \A q \in Runs : (run'[q] = None <=> run[q] = None) /\ (OnCredit(q)' <=> OnCredit(q))
  BY <1>3 DEF OnCredit
<1>6. CostsAddUp' /\ SpendingIsLimited' /\ BalanceAddsUp'
  BY <1>1, <1>5 DEF CostsAddUp, SpendingIsLimited, BalanceAddsUp
<1>7. CreditCoversReservations'
  <2>1. \A q \in Runs \ {r} : Held(q)' = Held(q) /\ Pledged(q)' = Pledged(q)
    BY <1>1, <1>3 DEF Held, OpenOnCredit, Pledged
  <2>2. Held(r)' = 0 /\ Pledged(r)' = Pledged(r) /\ balance' = balance
    BY <1>1, <1>3 DEF Held, OpenOnCredit, Pledged
  <2>3. Held(r) \in Nat /\ Pledged(r) \in Nat /\ balance \in Int
    BY HeldTypes DEF LedgerTypes
  <2> QED
    BY <1>4, <2>1, <2>2, <2>3, CoverMoves
<1> QED
  BY <1>4, <1>6, <1>7

LEMMA LedgerStep == LedgerInv /\ [Next]_vars => LedgerInv'
<1> SUFFICES ASSUME LedgerInv, [Next]_vars PROVE LedgerInv'
  OBVIOUS
<1>1. CInv' /\ CreationsAreNew'
  BY ChargeStep, CreationStep DEF LedgerInv, CInv
<1>2. ASSUME UNCHANGED <<balance, pending, creating, run, limit, cost, stepCost, usage, spent>>
      PROVE  Books'
  BY <1>2 DEF LedgerInv, Books, LedgerTypes, OneCreation, CostsAddUp, SpendingIsLimited, BalanceAddsUp,
              CreditCoversReservations, OnCredit, Reserved, Held, OpenOnCredit, Pledged
<1>3. ASSUME UNCHANGED vars PROVE Books'
  BY <1>2, <1>3 DEF vars
<1>4. ASSUME NEW r \in Runs, NEW request \in Requests, NEW funding \in {"credits", "account"},
             NEW purpose \in Purposes, CreateReads(r, request, funding, purpose)
      PROVE  Books'
  BY <1>4, ReadingKeepsBooks DEF Fundings
<1>5. ASSUME NEW r \in Runs, CreateCommits(r) PROVE Books'
  BY <1>5, CommittingKeepsBooks
<1>6. ASSUME NEW r \in Runs, CreateAborts(r) PROVE Books'
  BY <1>6, AbortingKeepsBooks
<1>7. ASSUME NEW r \in Runs, RuntimeStarts(r) PROVE Books'
  BY <1>2, <1>7 DEF RuntimeStarts
<1>8. ASSUME NEW r \in Runs, RuntimeEnds(r) PROVE Books'
  BY <1>2, <1>8 DEF RuntimeEnds
<1>9. ASSUME NEW r \in Runs, NEW k \in Steps, StartAttempt(r, k) PROVE Books'
  BY <1>2, <1>9 DEF StartAttempt
<1>10. ASSUME NEW r \in Runs, runtime[r] = "working", NEW cents \in 0..RemainingBudget(r),
              Report(r, cents)
       PROVE  Books'
  BY <1>10, ReportingKeepsBooks
<1>11. ASSUME NEW r \in Runs, NEW m \in sent[r], UpdateStep(r, m) PROVE Books'
  BY <1>1, <1>11, ChargingKeepsBooks
<1>12. ASSUME NEW r \in Runs, Finish(r) PROVE Books'
  BY <1>12, FinishingKeepsBooks
<1>13. ASSUME NEW amount \in TopUps, TopUp(amount) PROVE Books'
  BY <1>13, ToppingUpKeepsBooks
<1>14. Books'
  BY <1>3, <1>4, <1>5, <1>6, <1>7, <1>8, <1>9, <1>10, <1>11, <1>12, <1>13 DEF Next
<1> QED
  BY <1>1, <1>14 DEF LedgerInv

\* No credit is promised twice, spent beyond a promise or lost: the ledger
\* covers what every open run and every run about to be inserted may still
\* spend, and explains every cent, in whatever order runs are created, reported
\* on and finished (CreateInTx, UpdateStep, Finish).
THEOREM CreditIsSafe == Spec => []CreditIsAccountedFor
<1>1. LedgerInv => CreditIsAccountedFor
  <2> SUFFICES ASSUME LedgerInv PROVE CreditIsAccountedFor
    OBVIOUS
  <2>1. BalanceHasReceipts
    BY DEF LedgerInv, Books, CostsAddUp, BalanceAddsUp, OnCredit, BalanceHasReceipts
  <2>2. CostStaysWithinLimit
    BY CostWithinLimit DEF LedgerInv, Books, CostStaysWithinLimit
  <2> QED
    BY <2>1, <2>2 DEF LedgerInv, Books, CreditIsAccountedFor
<1> QED
  BY <1>1, LedgerInit, LedgerStep, PTL DEF Spec
===============================================================================
