------------------------ MODULE ConversationQueueProofs ------------------------
(***************************************************************************)
(* A conversation has one live run, each run one answer and each accepted  *)
(* text one fate, proved for any set of texts, any number of runs and any  *)
(* number of restarts.  All rest on the row lock: a transaction that found *)
(* no live run keeps every other one out until it has committed its own,   *)
(* and the row a drain has read is not overtaken meanwhile.                *)
(***************************************************************************)
EXTENDS ConversationQueue, FiniteSetTheorems, TLAPS

\* The variables the lock and the runs live in.
LockTypes ==
    /\ request \in [Texts -> {"idle", "queueing", "starting", "done", "refused"}]
    /\ phase \in [Runs -> Run!Phases]
    /\ drain \in [Runs -> {"none", "due", "picked", "done"}]

Posting(t) == request[t] \in {"queueing", "starting"}
Draining(r) == drain[r] = "picked"

\* The row lock has one holder.
LockIsExclusive ==
    /\ \A t, u \in Texts : Posting(t) /\ Posting(u) => t = u
    /\ \A q, r \in Runs : Draining(q) /\ Draining(r) => q = r
    /\ \A t \in Texts, r \in Runs : ~(Posting(t) /\ Draining(r))

\* What the holder read when it decided to start a run is still so: runs may
\* end without the lock, but none begins.
StartersSeeNoRun ==
    \A s \in Runs : phase[s] = "open" =>
       /\ \A t \in Texts : request[t] # "starting"
       /\ \A r \in Runs : ~Draining(r)

LockInv == LockTypes /\ LockIsExclusive /\ StartersSeeNoRun /\ OneLiveRun

AnswerTypes ==
    /\ answering \subseteq [run : Runs, body : Bodies, earlier : SUBSET Bodies]
    /\ answers \in [Runs -> Seq(Bodies)]
    /\ confirmed \in [Runs -> SUBSET Bodies]

\* An answer keeps every other one out until it is done, so what it has read of
\* its run is still all there is.
AnswersAreRead ==
    /\ \A a, b \in answering : a = b
    /\ \A a \in answering : a.earlier = ToSet(answers[a.run])

AnswerInv == AnswerTypes /\ AnswersAreRead /\ OneAnswerPerRun

IInv == LockInv /\ AnswerInv
-------------------------------------------------------------------------------
LEMMA InitIInv == Init => IInv
BY DEF Init, IInv, LockInv, LockTypes, LockIsExclusive, StartersSeeNoRun, OneLiveRun,
       AnswerInv, AnswerTypes, AnswersAreRead, OneAnswerPerRun, ToSet,
       Posting, Draining, Live, Run!Init, Run!Phases

\* A transaction that takes the free lock becomes its only holder, and it
\* starts a run only if it finds none.
LEMMA LockingKeepsLockInv ==
    ASSUME LockInv,
           (\E t \in Posted : PostLocks(t)) \/ (\E r \in Runs : DrainLocks(r))
    PROVE  LockInv'
<1> USE DEF LockInv
<1>1. ASSUME NEW t \in Posted, PostLocks(t) PROVE LockInv'
  <2>1. t \in Texts
    BY DEF Texts
  <2>2. /\ \A u \in Texts : ~Posting(u)
        /\ \A r \in Runs : ~Draining(r)
    BY <1>1 DEF PostLocks, Unlocked, Posting, Draining
  <2>3. /\ request' = [request EXCEPT ![t] = IF archived THEN "refused"
                                             ELSE IF Live # {} THEN "queueing" ELSE "starting"]
        /\ UNCHANGED <<phase, drain>>
    BY <1>1 DEF PostLocks, Respond
  <2>4. LockTypes'
    BY <2>1, <2>3 DEF LockTypes
  <2>5. LockIsExclusive'
    BY <2>1, <2>2, <2>3 DEF LockTypes, LockIsExclusive, Posting, Draining
  <2>6. StartersSeeNoRun'
    <3> SUFFICES ASSUME NEW s \in Runs, phase[s] = "open"
                 PROVE  /\ \A u \in Texts : request'[u] # "starting"
                        /\ \A r \in Runs : ~Draining(r)'
      BY <2>3 DEF StartersSeeNoRun
    <3>1. Live # {}
      BY DEF Live
    <3>2. request'[t] # "starting"
      BY <2>1, <2>3, <3>1 DEF LockTypes
    <3> QED
      BY <2>1, <2>2, <2>3, <3>2 DEF LockTypes, Posting, Draining
  <2>7. OneLiveRun'
    BY <2>3 DEF OneLiveRun, Live
  <2> QED
    BY <2>4, <2>5, <2>6, <2>7
<1>2. ASSUME NEW r \in Runs, DrainLocks(r) PROVE LockInv'
  <2>1. /\ \A u \in Texts : ~Posting(u)
        /\ \A q \in Runs : ~Draining(q)
    BY <1>2 DEF DrainLocks, Unlocked, Posting, Draining
  <2>2. /\ drain' = [drain EXCEPT ![r] = IF DrainMayStart THEN "picked" ELSE "done"]
        /\ UNCHANGED <<phase, request>>
    BY <1>2 DEF DrainLocks
  <2>3. LockTypes'
    BY <2>2 DEF LockTypes
  <2>4. LockIsExclusive'
    BY <2>1, <2>2 DEF LockTypes, LockIsExclusive, Posting, Draining
  <2>5. StartersSeeNoRun'
    <3> SUFFICES ASSUME NEW s \in Runs, phase[s] = "open"
                 PROVE  /\ \A u \in Texts : request'[u] # "starting"
                        /\ \A q \in Runs : ~Draining(q)'
      BY <2>2 DEF StartersSeeNoRun
    <3>1. ~DrainMayStart
      BY DEF DrainMayStart, Live
    <3> QED
      BY <2>1, <2>2, <3>1 DEF LockTypes, Posting, Draining
  <2>6. OneLiveRun'
    BY <2>2 DEF OneLiveRun, Live
  <2> QED
    BY <2>3, <2>4, <2>5, <2>6
<1> QED
  BY <1>1, <1>2

\* The holder that starts a run opens the only one, and lets the lock go.
LEMMA StartingKeepsLockInv ==
    ASSUME LockInv,
           (\E t \in Posted : PostStarts(t)) \/ (\E r \in Runs : DrainStarts(r))
    PROVE  LockInv'
<1> USE DEF LockInv
<1>1. ASSUME NEW t \in Posted, PostStarts(t) PROVE LockInv'
  <2>1. t \in Texts
    BY DEF Texts
  <2>2. /\ request[t] = "starting"
        /\ request' = [request EXCEPT ![t] = "done"]
        /\ UNCHANGED drain
    BY <1>1 DEF PostStarts, Respond
  <2>3. PICK new \in Runs : phase' = [phase EXCEPT ![new] = "open"]
    BY <1>1 DEF PostStarts, NewRun, Run!Open
  <2>4. \A s \in Runs : phase[s] # "open"
    BY <2>1, <2>2 DEF StartersSeeNoRun
  <2>5. \A r \in Runs : ~Draining(r)
    BY <2>1, <2>2 DEF LockIsExclusive, Posting
  <2>6. \A u \in Texts : ~Posting(u)'
    BY <2>1, <2>2 DEF LockTypes, LockIsExclusive, Posting
  <2>7. LockTypes'
    BY <2>1, <2>2, <2>3 DEF LockTypes, Run!Phases
  <2>8. OneLiveRun'
    BY <2>3, <2>4 DEF LockTypes, OneLiveRun, Live
  <2> QED
    BY <2>2, <2>5, <2>6, <2>7, <2>8 DEF LockIsExclusive, StartersSeeNoRun, Posting, Draining
<1>2. ASSUME NEW r \in Runs, DrainStarts(r) PROVE LockInv'
  <2>1. /\ Draining(r)
        /\ drain' = [drain EXCEPT ![r] = "done"]
        /\ UNCHANGED request
    BY <1>2 DEF DrainStarts, Draining
  <2>2. PICK new \in Runs : phase' = [phase EXCEPT ![new] = "open"]
    BY <1>2 DEF DrainStarts, NewRun, Run!Open
  <2>3. \A s \in Runs : phase[s] # "open"
    BY <2>1 DEF StartersSeeNoRun
  <2>4. \A u \in Texts : ~Posting(u)
    BY <2>1 DEF LockIsExclusive
  <2>5. \A q \in Runs : ~Draining(q)'
    BY <2>1 DEF LockTypes, LockIsExclusive, Draining
  <2>6. LockTypes'
    BY <2>1, <2>2 DEF LockTypes, Run!Phases
  <2>7. OneLiveRun'
    BY <2>2, <2>3 DEF LockTypes, OneLiveRun, Live
  <2> QED
    BY <2>1, <2>4, <2>5, <2>6, <2>7 DEF LockIsExclusive, StartersSeeNoRun, Posting, Draining
<1> QED
  BY <1>1, <1>2

\* Nothing else takes the lock or begins a run: holders leave, runs end.
LEMMA OthersKeepLockInv ==
    ASSUME LockInv,
           \/ \E t \in Posted : PostQueues(t) \/ PostFails(t)
           \/ \E t \in Enqueued : Enqueue(t)
           \/ \E t \in Texts : Dequeue(t)
           \/ Archive
           \/ \E r \in Runs : \/ RuntimeFinishes(r) \/ ServerEnds(r) \/ DrainFails(r)
                              \/ \E b \in Bodies : SendAnswer(r, b) \/ AnswerLocks(r, b)
           \/ \E a \in answering : AnswerRepeats(a) \/ AnswerStores(a) \/ AnswerFails(a)
           \/ Restart
           \/ UNCHANGED vars
    PROVE  LockInv'
<1> DEFINE NewHolders ==
      /\ \A t \in Texts : request'[t] \in {"queueing", "starting"} => request'[t] = request[t]
      /\ \A r \in Runs : drain'[r] = "picked" => drain[r] = "picked"
      /\ \A r \in Runs : phase'[r] = "open" => phase[r] = "open"
<1> SUFFICES LockTypes' /\ NewHolders
  BY DEF LockInv, LockIsExclusive, StartersSeeNoRun, OneLiveRun, Live, Posting, Draining
<1> USE DEF LockInv, LockTypes
<1>1. ASSUME NEW t \in Posted, PostQueues(t) \/ PostFails(t) PROVE LockTypes' /\ NewHolders
  BY <1>1 DEF PostQueues, PostFails, Respond, Texts
<1>2. ASSUME NEW t \in Enqueued, Enqueue(t) PROVE LockTypes' /\ NewHolders
  BY <1>2 DEF Enqueue, Respond, Texts
<1>3. ASSUME NEW t \in Texts, Dequeue(t) PROVE LockTypes' /\ NewHolders
  BY <1>3 DEF Dequeue
<1>4. CASE Archive
  BY <1>4 DEF Archive
<1>5. ASSUME NEW r \in Runs, RuntimeFinishes(r) \/ ServerEnds(r) PROVE LockTypes' /\ NewHolders
  BY <1>5 DEF RuntimeFinishes, ServerEnds, Run!Close, Run!Phases, Run!Outcomes, ReportedStatus
<1>6. ASSUME NEW r \in Runs, DrainFails(r) PROVE LockTypes' /\ NewHolders
  BY <1>6 DEF DrainFails
<1>7. ASSUME NEW r \in Runs, NEW b \in Bodies, SendAnswer(r, b) \/ AnswerLocks(r, b)
      PROVE  LockTypes' /\ NewHolders
  BY <1>7 DEF SendAnswer, AnswerLocks
<1>8. ASSUME NEW a \in answering, AnswerRepeats(a) \/ AnswerStores(a) \/ AnswerFails(a)
      PROVE  LockTypes' /\ NewHolders
  BY <1>8 DEF AnswerRepeats, AnswerStores, AnswerFails
<1>9. CASE Restart
  BY <1>9 DEF Restart
<1>10. CASE UNCHANGED vars
  BY <1>10 DEF vars
<1> QED
  BY <1>1, <1>2, <1>3, <1>4, <1>5, <1>6, <1>7, <1>8, <1>9, <1>10

\* What an answer finds under the lock stays true until it is done: nobody else
\* holds it, and only the holder writes.
LEMMA AnswersAreKept == ASSUME AnswerInv, [Next]_vars PROVE AnswerInv'
<1> USE DEF AnswerInv
<1>1. ASSUME NEW r \in Runs, NEW b \in Bodies, AnswerLocks(r, b) PROVE AnswerInv'
  <2> DEFINE mine == [run |-> r, body |-> b, earlier |-> ToSet(answers[r])]
  <2>1. answering' = {mine} /\ UNCHANGED <<answers, confirmed>>
    BY <1>1 DEF AnswerLocks, Unlocked
  <2>2. ToSet(answers[r]) \subseteq Bodies
    BY DEF AnswerTypes, ToSet
  <2> QED
    BY <2>1, <2>2 DEF AnswerTypes, AnswersAreRead, OneAnswerPerRun
<1>2. ASSUME NEW a \in answering, AnswerRepeats(a) PROVE AnswerInv'
  <2>1. PICK m \in a.earlier :
           confirmed' = IF m = a.body THEN [confirmed EXCEPT ![a.run] = @ \cup {m}] ELSE confirmed
    BY <1>2 DEF AnswerRepeats
  <2>2. answering' = answering \ {a} /\ answers' = answers
    BY <1>2 DEF AnswerRepeats
  <2>3. a.run \in Runs /\ m \in Bodies /\ m \in ToSet(answers[a.run])
    BY <2>1 DEF AnswerTypes, AnswersAreRead
  <2> QED
    BY <2>1, <2>2, <2>3 DEF AnswerTypes, AnswersAreRead, OneAnswerPerRun
<1>3. ASSUME NEW a \in answering, AnswerStores(a) PROVE AnswerInv'
  <2>1. /\ a.run \in Runs /\ a.body \in Bodies /\ ToSet(answers[a.run]) = {}
        /\ answers[a.run] \in Seq(Bodies)
    BY <1>3 DEF AnswerStores, AnswerTypes, AnswersAreRead
  <2>2. answers[a.run] = <<>>
    <3>1. answers[a.run][1] \notin ToSet(answers[a.run])
      BY <2>1
    <3>2. 1 \notin DOMAIN answers[a.run]
      BY <3>1 DEF ToSet
    <3> QED
      BY <2>1, <3>2
  <2>3. /\ answering' = {}
        /\ answers' = [answers EXCEPT ![a.run] = <<a.body>>]
        /\ confirmed' = [confirmed EXCEPT ![a.run] = @ \cup {a.body}]
    BY <1>3, <2>2 DEF AnswerStores, AnswersAreRead
  <2>4. confirmed[a.run] = {}
    BY <2>1 DEF OneAnswerPerRun
  <2>5. <<a.body>> \in Seq(Bodies) /\ Len(<<a.body>>) = 1 /\ a.body \in ToSet(<<a.body>>)
    BY <2>1 DEF ToSet
  <2>6. AnswerTypes'
    BY <2>1, <2>3, <2>5 DEF AnswerTypes
  <2>7. OneAnswerPerRun'
    <3> SUFFICES ASSUME NEW r \in Runs
                 PROVE  Len(answers'[r]) <= 1 /\ confirmed'[r] \subseteq ToSet(answers'[r])
      BY DEF OneAnswerPerRun
    <3>1. CASE r = a.run
      <4>1. answers'[r] = <<a.body>> /\ confirmed'[r] = {a.body}
        BY <2>1, <2>3, <2>4, <3>1 DEF AnswerTypes
      <4> QED
        BY <2>5, <4>1
    <3>2. CASE r # a.run
      BY <2>3, <3>2 DEF AnswerTypes, OneAnswerPerRun
    <3> QED
      BY <3>1, <3>2
  <2> QED
    BY <2>3, <2>6, <2>7 DEF AnswersAreRead
<1>4. ASSUME NEW a \in answering, AnswerFails(a) PROVE AnswerInv'
  BY <1>4 DEF AnswerFails, AnswerTypes, AnswersAreRead, OneAnswerPerRun
<1>5. CASE Restart
  BY <1>5 DEF Restart, AnswerTypes, AnswersAreRead, OneAnswerPerRun
<1>6. CASE UNCHANGED <<answering, answers, confirmed>>
  BY <1>6 DEF AnswerTypes, AnswersAreRead, OneAnswerPerRun
<1>7. \/ \E r \in Runs, b \in Bodies : AnswerLocks(r, b)
      \/ \E a \in answering : AnswerRepeats(a) \/ AnswerStores(a) \/ AnswerFails(a)
      \/ Restart
      \/ UNCHANGED <<answering, answers, confirmed>>
  BY DEF Next, vars, answerVars, PostLocks, PostQueues, PostStarts, PostFails, Enqueue, Dequeue,
         Archive, RuntimeFinishes, ServerEnds, DrainLocks, DrainStarts, DrainFails, SendAnswer
<1> QED
  BY <1>1, <1>2, <1>3, <1>4, <1>5, <1>6, <1>7

LEMMA NextIInv == IInv /\ [Next]_vars => IInv'
<1> SUFFICES ASSUME IInv, [Next]_vars PROVE LockInv'
  BY AnswersAreKept DEF IInv
<1> QED
  BY LockingKeepsLockInv, StartingKeepsLockInv, OthersKeepLockInv DEF IInv, Next
-------------------------------------------------------------------------------
THEOREM AlwaysIInv == Spec => []IInv
BY InitIInv, NextIInv, PTL DEF Spec

\* Simultaneous posts and drains never give a conversation two live runs,
\* whatever is queued, removed, cancelled, refused or cut off by a restart.
THEOREM ConversationHasOneRun == Spec => []OneLiveRun
<1>1. IInv => OneLiveRun
  BY DEF IInv, LockInv
<1> QED
  BY <1>1, AlwaysIInv, PTL

\* However many answers a run sends, and however they overlap, the conversation
\* shows one, and the runtime is told "201" of no other (runtimeMessage).
THEOREM RunAnswersOnce == Spec => []OneAnswerPerRun
<1>1. IInv => OneAnswerPerRun
  BY DEF IInv, AnswerInv
<1> QED
  BY <1>1, AlwaysIInv, PTL
-------------------------------------------------------------------------------
(* Sequences without repetitions.                                           *)

\* An entry at the end.
LEMMA Appending ==
    ASSUME NEW S, NEW s \in Seq(S), NEW e \in S
    PROVE  /\ Append(s, e) \in Seq(S)
           /\ DOMAIN Append(s, e) = DOMAIN s \cup {Len(s) + 1}
           /\ Append(s, e)[Len(s) + 1] = e
           /\ \A i \in DOMAIN s : i \in Nat /\ i < Len(s) + 1 /\ Append(s, e)[i] = s[i]
           /\ Len(s) + 1 \notin DOMAIN s
           /\ ToSet(Append(s, e)) = ToSet(s) \cup {e}
           /\ IsInjective(s) /\ e \notin ToSet(s) => IsInjective(Append(s, e))
<1>1. /\ Append(s, e) \in Seq(S)
      /\ DOMAIN Append(s, e) = DOMAIN s \cup {Len(s) + 1}
      /\ Append(s, e)[Len(s) + 1] = e
      /\ \A i \in DOMAIN s : i \in Nat /\ i < Len(s) + 1 /\ Append(s, e)[i] = s[i]
      /\ Len(s) + 1 \notin DOMAIN s
  OBVIOUS
<1>2. ToSet(Append(s, e)) = ToSet(s) \cup {e}
  BY <1>1 DEF ToSet
<1>3. ASSUME IsInjective(s), e \notin ToSet(s) PROVE IsInjective(Append(s, e))
  BY <1>1, <1>3 DEF ToSet, IsInjective
<1> QED
  BY <1>1, <1>2, <1>3

\* Taking the entry at one place out of a sequence closes the gap.
LEMMA Closing ==
    ASSUME NEW S, NEW s \in Seq(S), NEW k \in DOMAIN s
    PROVE  /\ RemoveAt(s, k) \in Seq(S)
           /\ Len(RemoveAt(s, k)) = Len(s) - 1
           /\ \A i \in 1..(Len(s) - 1) : RemoveAt(s, k)[i] = IF i < k THEN s[i] ELSE s[i + 1]
<1> DEFINE a == SubSeq(s, 1, k - 1)
<1> DEFINE b == SubSeq(s, k + 1, Len(s))
<1>1. k \in 1..Len(s) /\ Len(s) \in Nat
  OBVIOUS
<1>2. a \in Seq(S) /\ Len(a) = k - 1 /\ \A i \in 1..(k - 1) : a[i] = s[i]
  BY <1>1
<1>3. b \in Seq(S) /\ Len(b) = Len(s) - k /\ \A i \in 1..(Len(s) - k) : b[i] = s[k + i]
  BY <1>1
<1> HIDE DEF a, b
<1>4. RemoveAt(s, k) = a \o b
  BY DEF RemoveAt, a, b
<1>5. /\ a \o b \in Seq(S) /\ Len(a \o b) = Len(s) - 1
      /\ \A i \in 1..(Len(s) - 1) : (a \o b)[i] = IF i <= k - 1 THEN a[i] ELSE b[i - (k - 1)]
  BY <1>1, <1>2, <1>3
<1>6. ASSUME NEW i \in 1..(Len(s) - 1) PROVE (a \o b)[i] = IF i < k THEN s[i] ELSE s[i + 1]
  <2>1. CASE i < k
    BY <1>1, <1>2, <1>5, <2>1
  <2>2. CASE ~(i < k)
    <3>1. i - (k - 1) \in 1..(Len(s) - k) /\ k + (i - (k - 1)) = i + 1
      BY <1>1, <2>2
    <3>2. (a \o b)[i] = b[i - (k - 1)]
      BY <1>1, <1>5, <2>2
    <3>3. b[i - (k - 1)] = s[k + (i - (k - 1))]
      BY <1>3, <3>1
    <3> QED
      BY <2>2, <3>1, <3>2, <3>3
  <2> QED
    BY <2>1, <2>2
<1> QED
  BY <1>4, <1>5, <1>6

\* Taking a text out leaves the others, in their order.
LEMMA Removing ==
    ASSUME NEW S, NEW s \in Seq(S), IsInjective(s), NEW e
    PROVE  /\ RemoveFirst(s, e) \in Seq(S)
           /\ ToSet(RemoveFirst(s, e)) = ToSet(s) \ {e}
           /\ \A i, j \in DOMAIN RemoveFirst(s, e) : i < j =>
                \E k, l \in DOMAIN s : k < l /\ s[k] = RemoveFirst(s, e)[i] /\ s[l] = RemoveFirst(s, e)[j]
           /\ IsInjective(RemoveFirst(s, e))
<1>1. CASE e \notin ToSet(s)
  <2>1. RemoveFirst(s, e) = s
    BY <1>1 DEF RemoveFirst, ToSet
  <2> QED
    BY <1>1, <2>1
<1>2. CASE e \in ToSet(s)
  <2>1. PICK k \in DOMAIN s : s[k] = e
    BY <1>2 DEF ToSet
  <2>2. k \in 1..Len(s) /\ Len(s) \in Nat /\ DOMAIN s = 1..Len(s)
    OBVIOUS
  <2>3. {i \in 1..Len(s) : s[i] = e} = {k}
    BY <2>1, <2>2 DEF IsInjective
  <2>4. Min({k}) = k
    BY <2>2 DEF Min
  <2>5. RemoveFirst(s, e) = RemoveAt(s, k)
    BY <2>1, <2>2, <2>3, <2>4 DEF RemoveFirst, SelectInSeq
  <2> DEFINE q == RemoveAt(s, k)
  <2>6. /\ q \in Seq(S) /\ DOMAIN q = 1..(Len(s) - 1)
        /\ \A i \in 1..(Len(s) - 1) : q[i] = IF i < k THEN s[i] ELSE s[i + 1]
    BY <2>2, Closing
  <2> HIDE DEF q
  <2>7. ToSet(q) = ToSet(s) \ {e}
    <3>1. ASSUME NEW i \in DOMAIN q PROVE q[i] \in ToSet(s) \ {e}
      BY <2>1, <2>2, <2>6 DEF ToSet, IsInjective
    <3>2. ASSUME NEW i \in DOMAIN s, s[i] # e PROVE \E j \in DOMAIN q : q[j] = s[i]
      <4>1. CASE i < k
        BY <2>1, <2>2, <2>6, <4>1
      <4>2. CASE i > k
        <5>1. i - 1 \in 1..(Len(s) - 1) /\ ~(i - 1 < k) /\ (i - 1) + 1 = i
          BY <2>2, <4>2
        <5>2. q[i - 1] = s[i]
          BY <2>6, <5>1
        <5> QED
          BY <2>6, <5>1, <5>2
      <4> QED
        BY <2>1, <2>2, <3>2, <4>1, <4>2
    <3> QED
      BY <3>1, <3>2 DEF ToSet
  <2>8. ASSUME NEW i \in DOMAIN q, NEW j \in DOMAIN q, i < j
        PROVE  \E l, m \in DOMAIN s : l < m /\ s[l] = q[i] /\ s[m] = q[j]
    <3> DEFINE l == IF i < k THEN i ELSE i + 1
    <3> DEFINE m == IF j < k THEN j ELSE j + 1
    <3>1. l \in DOMAIN s /\ m \in DOMAIN s /\ l < m
      BY <2>2, <2>6, <2>8
    <3>2. s[l] = q[i] /\ s[m] = q[j]
      BY <2>2, <2>6
    <3> QED
      BY <3>1, <3>2
  <2>9. IsInjective(q)
    <3> SUFFICES ASSUME NEW i \in DOMAIN q, NEW j \in DOMAIN q, i < j PROVE q[i] # q[j]
      BY <2>6 DEF IsInjective
    <3> QED
      BY <2>2, <2>8 DEF IsInjective
  <2> QED
    BY <2>5, <2>6, <2>7, <2>8, <2>9 DEF q
<1> QED
  BY <1>1, <1>2

-------------------------------------------------------------------------------
(* Where the texts are.                                                     *)

TextTypes ==
    /\ queue \in Seq(Texts)
    /\ accepted \in Seq(Texts)
    /\ prompt \in [Runs -> SUBSET Texts]
    /\ picked \in [Runs -> SUBSET Texts]

\* The texts whose request was answered with success, each once.
AcceptedOnce ==
    /\ IsInjective(accepted)
    /\ \A t \in Texts : t \in ToSet(accepted) <=> request[t] = "done"

QueueIsInOrder ==
    /\ IsInjective(queue)
    /\ ToSet(queue) \subseteq ToSet(accepted)
    /\ \A i, j \in DOMAIN queue : i < j => Before(queue[i], queue[j])

\* A text leaves the queue when a run takes it, and no other run has it.
RunsAnswerAccepted ==
    \A r \in Runs :
      /\ prompt[r] \subseteq ToSet(accepted) \ ToSet(queue)
      /\ phase[r] = "none" => prompt[r] = {}
      /\ \A q \in Runs : prompt[q] \cap prompt[r] # {} => q = r

\* What a drain has read may have been removed since, but nothing older came
\* into the queue and no run has begun with it.
PickedIsOldest ==
    \A r \in Runs : \A t \in picked[r] :
      /\ Draining(r)
      /\ t \in ToSet(accepted)
      /\ RunsOf(t) = {}
      /\ \A u \in ToSet(queue) : ~Before(u, t)

NothingIsLost ==
    \A t \in ToSet(accepted) : t \in ToSet(queue) \/ RunsOf(t) # {} \/ t \in removed

SaidIsAccepted == said \subseteq ToSet(accepted)

QInv ==
    /\ TextTypes /\ AcceptedOnce /\ QueueIsInOrder /\ RunsAnswerAccepted
    /\ PickedIsOldest /\ NothingIsLost /\ SaidIsAccepted

LEMMA InitQInv == Init => QInv
BY DEF Init, QInv, TextTypes, AcceptedOnce, QueueIsInOrder, RunsAnswerAccepted, PickedIsOldest,
       NothingIsLost, SaidIsAccepted, ToSet, IsInjective

\* The order of acceptance has no cycles.
LEMMA OrderIsStrict ==
    ASSUME TextTypes, AcceptedOnce, NEW t, NEW u, Before(t, u)
    PROVE  ~Before(u, t)
BY DEF TextTypes, AcceptedOnce, Before, IsInjective

\* A request succeeds once, and its text comes after all the others.
LEMMA Accepting ==
    ASSUME LockTypes, TextTypes, AcceptedOnce, NEW t \in Texts, request[t] # "done",
           request' = [request EXCEPT ![t] = "done"], accepted' = Append(accepted, t)
    PROVE  /\ accepted' \in Seq(Texts)
           /\ AcceptedOnce'
           /\ t \notin ToSet(accepted)
           /\ ToSet(accepted') = ToSet(accepted) \cup {t}
           /\ \A u, v : Before(u, v) => Before(u, v)'
           /\ \A u \in ToSet(accepted) : Before(u, t)'
<1>1. /\ accepted' \in Seq(Texts)
      /\ DOMAIN accepted' = DOMAIN accepted \cup {Len(accepted) + 1}
      /\ accepted'[Len(accepted) + 1] = t
      /\ \A i \in DOMAIN accepted : i \in Nat /\ i < Len(accepted) + 1 /\ accepted'[i] = accepted[i]
      /\ ToSet(accepted') = ToSet(accepted) \cup {t}
      /\ t \notin ToSet(accepted) => IsInjective(accepted')
  BY Appending DEF TextTypes, AcceptedOnce
<1>2. t \notin ToSet(accepted)
  BY DEF AcceptedOnce
<1>3. AcceptedOnce'
  BY <1>1, <1>2 DEF LockTypes, AcceptedOnce
<1>4. DOMAIN accepted = 1..Len(accepted) /\ DOMAIN accepted' = 1..Len(accepted')
  BY <1>1 DEF TextTypes
<1>5. \A u, v : Before(u, v) => Before(u, v)'
  BY <1>1, <1>4 DEF Before
<1>6. \A u \in ToSet(accepted) : Before(u, t)'
  <2> SUFFICES ASSUME NEW i \in DOMAIN accepted PROVE Before(accepted[i], t)'
    BY DEF ToSet
  <2> QED
    BY <1>1, <1>4 DEF Before
<1> QED
  BY <1>1, <1>2, <1>3, <1>5, <1>6

\* Nothing is picked while no drain holds the lock.
LEMMA NothingPicked ==
    ASSUME TextTypes, PickedIsOldest, \A r \in Runs : ~Draining(r)
    PROVE  \A r \in Runs : picked[r] = {}
BY DEF TextTypes, PickedIsOldest

\* Steps that move no text.
LEMMA IdleStepsKeepTexts ==
    ASSUME QInv, UNCHANGED <<queue, accepted, prompt, said, removed>>,
           \A t \in Texts : request'[t] = "done" <=> request[t] = "done",
           \A r \in Runs : phase'[r] = "none" => phase[r] = "none",
           picked' \in [Runs -> SUBSET Texts],
           \A r \in Runs : picked'[r] = {} \/ (picked'[r] = picked[r] /\ drain'[r] = drain[r])
    PROVE  QInv'
<1> USE DEF QInv
<1>1. TextTypes' /\ AcceptedOnce' /\ QueueIsInOrder'
  BY DEF TextTypes, AcceptedOnce, QueueIsInOrder, Before
<1>2. RunsAnswerAccepted' /\ NothingIsLost' /\ SaidIsAccepted'
  BY DEF RunsAnswerAccepted, NothingIsLost, SaidIsAccepted, RunsOf
<1>3. PickedIsOldest'
  BY DEF PickedIsOldest, Draining, RunsOf, Before
<1> QED
  BY <1>1, <1>2, <1>3

\* PostQueues and Enqueue: the text goes behind the others.
LEMMA QueueingKeepsTexts ==
    ASSUME LockTypes, QInv, NEW t \in Texts, request[t] # "done", \A r \in Runs : ~Draining(r),
           request' = [request EXCEPT ![t] = "done"],
           queue' = Append(queue, t), accepted' = Append(accepted, t),
           said' = said \/ said' = said \cup {t},
           UNCHANGED <<phase, prompt, drain, picked, removed>>
    PROVE  QInv'
<1> USE DEF QInv
<1>1. /\ accepted' \in Seq(Texts) /\ AcceptedOnce'
      /\ t \notin ToSet(accepted) /\ ToSet(accepted') = ToSet(accepted) \cup {t}
      /\ \A u, v : Before(u, v) => Before(u, v)'
      /\ \A u \in ToSet(accepted) : Before(u, t)'
  BY Accepting
<1>2. t \notin ToSet(queue)
  BY <1>1 DEF QueueIsInOrder
<1>3. /\ queue' \in Seq(Texts)
      /\ DOMAIN queue' = DOMAIN queue \cup {Len(queue) + 1}
      /\ queue'[Len(queue) + 1] = t
      /\ \A i \in DOMAIN queue : i \in Nat /\ i < Len(queue) + 1 /\ queue'[i] = queue[i]
      /\ ToSet(queue') = ToSet(queue) \cup {t}
      /\ IsInjective(queue')
  BY <1>2, Appending DEF TextTypes, QueueIsInOrder
<1>4. QueueIsInOrder'
  <2>1. ASSUME NEW i \in DOMAIN queue', NEW j \in DOMAIN queue', i < j
        PROVE  Before(queue[i], queue[j])'
    <3>1. i \in DOMAIN queue
      BY <1>3, <2>1 DEF TextTypes
    <3>2. CASE j \in DOMAIN queue
      BY <1>1, <1>3, <2>1, <3>1, <3>2 DEF QueueIsInOrder
    <3>3. CASE j \notin DOMAIN queue
      <4>1. queue'[j] = t /\ queue'[i] = queue[i] /\ queue[i] \in ToSet(queue)
        BY <1>3, <3>1, <3>3 DEF ToSet
      <4> QED
        BY <1>1, <4>1 DEF QueueIsInOrder
    <3> QED
      BY <3>2, <3>3
  <2> QED
    BY <1>1, <1>3, <2>1 DEF QueueIsInOrder
<1>5. RunsAnswerAccepted'
  BY <1>1, <1>3 DEF RunsAnswerAccepted
<1>6. PickedIsOldest'
  BY NothingPicked DEF PickedIsOldest
<1>7. NothingIsLost' /\ SaidIsAccepted' /\ TextTypes'
  BY <1>1, <1>3 DEF NothingIsLost, SaidIsAccepted, TextTypes, RunsOf
<1> QED
  BY <1>1, <1>4, <1>5, <1>6, <1>7

\* The run a post starts is the only one with its text.
LEMMA PostStartsKeepsTexts ==
    ASSUME LockInv, QInv, NEW t \in Posted, PostStarts(t)
    PROVE  QInv'
<1> USE DEF QInv
<1>1. /\ t \in Texts /\ request[t] = "starting" /\ request' = [request EXCEPT ![t] = "done"]
      /\ accepted' = Append(accepted, t) /\ said' = said \cup {t}
      /\ UNCHANGED <<queue, drain, picked, removed>>
  BY DEF PostStarts, Respond, Texts
<1>2. \A r \in Runs : ~Draining(r)
  BY <1>1 DEF LockInv, LockIsExclusive, Posting
<1>3. PICK new \in Runs : /\ phase[new] = "none" /\ phase' = [phase EXCEPT ![new] = "open"]
                          /\ prompt' = [prompt EXCEPT ![new] = {t}]
  BY DEF PostStarts, NewRun, Run!Open
<1>4. /\ accepted' \in Seq(Texts) /\ AcceptedOnce'
      /\ t \notin ToSet(accepted) /\ ToSet(accepted') = ToSet(accepted) \cup {t}
      /\ \A u, v : Before(u, v) => Before(u, v)'
  BY <1>1, Accepting DEF LockInv
<1>5. /\ phase'[new] = "open" /\ \A r \in Runs \ {new} : phase'[r] = phase[r]
      /\ prompt[new] = {} /\ prompt' \in [Runs -> SUBSET Texts]
      /\ \A r \in Runs : prompt'[r] = IF r = new THEN {t} ELSE prompt[r]
  BY <1>1, <1>3 DEF RunsAnswerAccepted, TextTypes, LockInv, LockTypes
<1>6. TextTypes' /\ QueueIsInOrder' /\ SaidIsAccepted'
  BY <1>1, <1>4, <1>5 DEF TextTypes, QueueIsInOrder, SaidIsAccepted
<1>7. RunsAnswerAccepted'
  BY <1>1, <1>4, <1>5 DEF RunsAnswerAccepted, QueueIsInOrder
<1>8. PickedIsOldest'
  BY <1>1, <1>2, NothingPicked DEF PickedIsOldest
<1>9. NothingIsLost'
  <2> SUFFICES ASSUME NEW u \in ToSet(accepted')
               PROVE  u \in ToSet(queue) \/ (\E r \in Runs : u \in prompt'[r]) \/ u \in removed
    BY <1>1 DEF NothingIsLost, RunsOf
  <2>1. CASE u = t
    BY <1>5, <2>1
  <2>2. CASE u # t
    <3>1. u \in ToSet(queue) \/ (\E r \in Runs : u \in prompt[r]) \/ u \in removed
      BY <1>4, <2>2 DEF NothingIsLost, RunsOf
    <3> QED
      BY <1>5, <3>1
  <2> QED
    BY <2>1, <2>2
<1> QED
  BY <1>4, <1>6, <1>7, <1>8, <1>9

\* Dequeue and DrainStarts take a text out of the queue.
LEMMA TakingOutKeepsOrder ==
    ASSUME QInv, NEW t, queue' = RemoveFirst(queue, t), UNCHANGED accepted
    PROVE  /\ queue' \in Seq(Texts) /\ ToSet(queue') = ToSet(queue) \ {t}
           /\ QueueIsInOrder'
<1> USE DEF QInv
<1>1. /\ queue' \in Seq(Texts)
      /\ ToSet(queue') = ToSet(queue) \ {t}
      /\ \A i, j \in DOMAIN queue' : i < j =>
           \E k, l \in DOMAIN queue : k < l /\ queue[k] = queue'[i] /\ queue[l] = queue'[j]
      /\ IsInjective(queue')
  BY Removing DEF TextTypes, QueueIsInOrder
<1>2. \A u, v : Before(u, v)' <=> Before(u, v)
  BY DEF Before
<1>3. ASSUME NEW i \in DOMAIN queue', NEW j \in DOMAIN queue', i < j
      PROVE  Before(queue[i], queue[j])'
  <2>1. PICK k \in DOMAIN queue, l \in DOMAIN queue : k < l /\ queue[k] = queue'[i] /\ queue[l] = queue'[j]
    BY <1>1, <1>3
  <2>2. Before(queue'[i], queue'[j])
    BY <2>1 DEF QueueIsInOrder
  <2> QED
    BY <1>2, <2>2
<1> QED
  BY <1>1, <1>3 DEF QueueIsInOrder

LEMMA DequeueKeepsTexts ==
    ASSUME QInv, NEW t \in Texts, Dequeue(t)
    PROVE  QInv'
<1> USE DEF QInv
<1>1. /\ queue' = RemoveFirst(queue, t) /\ removed' = removed \cup {t}
      /\ UNCHANGED <<request, said, phase, prompt, drain, picked, accepted>>
  BY DEF Dequeue
<1>2. queue' \in Seq(Texts) /\ ToSet(queue') = ToSet(queue) \ {t} /\ QueueIsInOrder'
  BY <1>1, TakingOutKeepsOrder
<1>3. TextTypes' /\ AcceptedOnce' /\ SaidIsAccepted'
  BY <1>1, <1>2 DEF TextTypes, AcceptedOnce, SaidIsAccepted
<1>4. RunsAnswerAccepted' /\ NothingIsLost'
  BY <1>1, <1>2 DEF RunsAnswerAccepted, NothingIsLost, RunsOf
<1>5. PickedIsOldest'
  BY <1>1, <1>2 DEF PickedIsOldest, Draining, RunsOf, Before
<1> QED
  BY <1>2, <1>3, <1>4, <1>5

\* The head of the queue is the oldest text in it.
LEMMA DrainLocksKeepsTexts ==
    ASSUME LockTypes, QInv, NEW r \in Runs, DrainLocks(r)
    PROVE  QInv'
<1> USE DEF QInv
<1>1. UNCHANGED <<request, queue, said, phase, prompt, removed, accepted>>
      /\ \A q \in Runs : ~Draining(q)
  BY DEF DrainLocks, Unlocked, Draining
<1>2. \A q \in Runs : picked[q] = {}
  BY <1>1, NothingPicked
<1>3. CASE ~DrainMayStart
  <2>1. picked' = picked
    BY <1>3 DEF DrainLocks
  <2> QED
    BY <1>1, <1>2, <2>1, IdleStepsKeepTexts DEF TextTypes
<1>4. CASE DrainMayStart
  <2>1. /\ drain' = [drain EXCEPT ![r] = "picked"] /\ drain[r] = "due"
        /\ picked' = [picked EXCEPT ![r] = {Head(queue)}] /\ queue # <<>>
    BY <1>4 DEF DrainLocks, DrainMayStart, NextQueued
  <2>2. Head(queue) = queue[1] /\ 1 \in DOMAIN queue /\ queue[1] \in Texts
    BY <2>1 DEF TextTypes
  <2>3. queue[1] \in ToSet(queue) /\ queue[1] \in ToSet(accepted)
    BY <2>2 DEF ToSet, QueueIsInOrder
  <2>4. RunsOf(queue[1]) = {}
    BY <2>3 DEF RunsOf, RunsAnswerAccepted
  <2>5. \A u \in ToSet(queue) : ~Before(u, queue[1])
    <3> SUFFICES ASSUME NEW i \in DOMAIN queue, Before(queue[i], queue[1]) PROVE FALSE
      BY DEF ToSet
    <3>1. CASE i = 1
      BY <3>1, OrderIsStrict
    <3>2. CASE i # 1
      <4>1. 1 < i
        BY <3>2 DEF TextTypes
      <4>2. Before(queue[1], queue[i])
        BY <2>2, <4>1 DEF QueueIsInOrder
      <4> QED
        BY <4>2, OrderIsStrict
    <3> QED
      BY <3>1, <3>2
  <2>6. /\ picked' \in [Runs -> SUBSET Texts]
        /\ \A q \in Runs : \A t \in picked'[q] : q = r /\ t = queue[1]
    BY <1>2, <2>1, <2>2 DEF TextTypes
  <2>7. PickedIsOldest'
    <3> SUFFICES ASSUME NEW q \in Runs, NEW t \in picked'[q]
                 PROVE  /\ drain'[q] = "picked"
                        /\ t \in ToSet(accepted)
                        /\ RunsOf(t) = {}
                        /\ \A u \in ToSet(queue) : ~Before(u, t)
      BY <1>1 DEF PickedIsOldest, Draining, RunsOf, Before
    <3>1. q = r /\ t = queue[1]
      BY <2>6
    <3>2. drain'[r] = "picked"
      BY <2>1 DEF LockTypes
    <3> QED
      BY <2>3, <2>4, <2>5, <3>1, <3>2
  <2>8. TextTypes' /\ AcceptedOnce' /\ QueueIsInOrder' /\ RunsAnswerAccepted' /\ NothingIsLost'
        /\ SaidIsAccepted'
    BY <1>1, <2>6 DEF TextTypes, AcceptedOnce, QueueIsInOrder, RunsAnswerAccepted, NothingIsLost,
                      SaidIsAccepted, RunsOf, Before
  <2> QED
    BY <2>7, <2>8
<1> QED
  BY <1>3, <1>4

\* What the run of a drain takes is still nobody else's, also if it was removed
\* from the queue in between.
LEMMA DrainStartsFacts ==
    ASSUME LockInv, QInv, NEW r \in Runs, DrainStarts(r)
    PROVE  \E t \in picked[r], new \in Runs :
             /\ t \in Texts
             /\ queue' = RemoveFirst(queue, t)
             /\ phase[new] = "none" /\ phase' = [phase EXCEPT ![new] = "open"]
             /\ prompt[new] = {} /\ prompt' \in [Runs -> SUBSET Texts]
             /\ \A q \in Runs : prompt'[q] = IF q = new THEN {t} ELSE prompt[q]
<1> USE DEF QInv
<1>1. PICK t \in picked[r] : (\E new \in Runs : NewRun(new, t)) /\ queue' = RemoveFirst(queue, t)
  BY DEF DrainStarts, QueueWithout
<1>2. PICK new \in Runs : NewRun(new, t)
  BY <1>1
<1>3. /\ phase[new] = "none" /\ phase' = [phase EXCEPT ![new] = "open"]
      /\ prompt' = [prompt EXCEPT ![new] = {t}] /\ t \in Texts
  BY <1>2 DEF NewRun, Run!Open, TextTypes
<1>4. /\ prompt[new] = {} /\ prompt' \in [Runs -> SUBSET Texts]
      /\ \A q \in Runs : prompt'[q] = IF q = new THEN {t} ELSE prompt[q]
  BY <1>3 DEF RunsAnswerAccepted, TextTypes
<1> QED
  BY <1>1, <1>3, <1>4

LEMMA DrainStartsKeepsTexts ==
    ASSUME LockInv, QInv, NEW r \in Runs, DrainStarts(r)
    PROVE  QInv'
<1> USE DEF QInv
<1>1. PICK t \in picked[r], new \in Runs :
             /\ t \in Texts
             /\ queue' = RemoveFirst(queue, t)
             /\ phase[new] = "none" /\ phase' = [phase EXCEPT ![new] = "open"]
             /\ prompt[new] = {} /\ prompt' \in [Runs -> SUBSET Texts]
             /\ \A q \in Runs : prompt'[q] = IF q = new THEN {t} ELSE prompt[q]
  BY DrainStartsFacts
<1>2. /\ drain[r] = "picked" /\ picked' = [picked EXCEPT ![r] = {}]
      /\ UNCHANGED <<request, said, removed, accepted>>
  BY DEF DrainStarts
<1>3. queue' \in Seq(Texts) /\ ToSet(queue') = ToSet(queue) \ {t} /\ QueueIsInOrder'
  BY <1>1, <1>2, TakingOutKeepsOrder
<1>4. t \in ToSet(accepted) /\ \A q \in Runs : t \notin prompt[q]
  BY DEF PickedIsOldest, RunsOf
<1>5. phase'[new] = "open" /\ \A q \in Runs \ {new} : phase'[q] = phase[q]
  BY <1>1 DEF LockInv, LockTypes
<1>6. picked' \in [Runs -> SUBSET Texts] /\ \A q \in Runs : picked'[q] = {}
  <2>1. \A q \in Runs \ {r} : ~Draining(q)
    BY <1>2 DEF LockInv, LockIsExclusive, Draining
  <2> QED
    BY <1>2, <2>1 DEF PickedIsOldest, TextTypes
<1>7. TextTypes' /\ AcceptedOnce' /\ SaidIsAccepted' /\ PickedIsOldest'
  BY <1>1, <1>2, <1>3, <1>6 DEF TextTypes, AcceptedOnce, SaidIsAccepted, PickedIsOldest
<1>8. RunsAnswerAccepted'
  BY <1>1, <1>2, <1>3, <1>4, <1>5 DEF RunsAnswerAccepted
<1>9. NothingIsLost'
  <2> SUFFICES ASSUME NEW u \in ToSet(accepted)
               PROVE  u \in ToSet(queue') \/ (\E q \in Runs : u \in prompt'[q]) \/ u \in removed
    BY <1>2 DEF NothingIsLost, RunsOf
  <2>1. CASE u = t
    BY <1>1, <2>1
  <2>2. CASE u # t
    <3>1. u \in ToSet(queue) \/ (\E q \in Runs : u \in prompt[q]) \/ u \in removed
      BY DEF NothingIsLost, RunsOf
    <3> QED
      BY <1>1, <1>3, <2>2, <3>1
  <2> QED
    BY <2>1, <2>2
<1> QED
  BY <1>3, <1>7, <1>8, <1>9

LEMMA NextQInv == IInv /\ QInv /\ [Next]_vars => QInv'
<1> SUFFICES ASSUME IInv, QInv, [Next]_vars PROVE QInv'
  OBVIOUS
<1> USE DEF IInv, LockInv
<1>1. ASSUME NEW t \in Posted, PostLocks(t) PROVE QInv'
  <2>1. /\ t \in Texts /\ request[t] = "idle"
        /\ request' = [request EXCEPT ![t] = IF archived THEN "refused"
                                             ELSE IF Live # {} THEN "queueing" ELSE "starting"]
        /\ UNCHANGED <<queue, said, phase, prompt, drain, picked, removed, accepted>>
    BY <1>1 DEF PostLocks, Respond, Texts
  <2>2. \A u \in Texts : request'[u] = "done" <=> request[u] = "done"
    BY <2>1 DEF LockTypes
  <2> QED
    BY <2>1, <2>2, IdleStepsKeepTexts DEF QInv, TextTypes
<1>2. ASSUME NEW t \in Posted, PostQueues(t) PROVE QInv'
  <2>1. /\ t \in Texts /\ request[t] = "queueing" /\ request' = [request EXCEPT ![t] = "done"]
        /\ queue' = Append(queue, t) /\ accepted' = Append(accepted, t) /\ said' = said \cup {t}
        /\ UNCHANGED <<phase, prompt, drain, picked, removed>>
    BY <1>2 DEF PostQueues, Respond, Texts
  <2>2. \A r \in Runs : ~Draining(r)
    BY <2>1 DEF LockIsExclusive, Posting
  <2> QED
    BY <2>1, <2>2, QueueingKeepsTexts
<1>3. ASSUME NEW t \in Posted, PostStarts(t) PROVE QInv'
  BY <1>3, PostStartsKeepsTexts
<1>4. ASSUME NEW t \in Posted, PostFails(t) PROVE QInv'
  <2>1. /\ t \in Texts /\ request[t] = "starting" /\ request' = [request EXCEPT ![t] = "refused"]
        /\ UNCHANGED <<queue, said, phase, prompt, drain, picked, removed, accepted>>
    BY <1>4 DEF PostFails, Respond, Texts, SaidAfterRefusal
  <2>2. \A u \in Texts : request'[u] = "done" <=> request[u] = "done"
    BY <2>1 DEF LockTypes
  <2> QED
    BY <2>1, <2>2, IdleStepsKeepTexts DEF QInv, TextTypes
<1>5. ASSUME NEW t \in Enqueued, Enqueue(t) PROVE QInv'
  <2>1. /\ t \in Texts /\ request[t] = "idle" /\ \A r \in Runs : ~Draining(r)
        /\ UNCHANGED <<said, phase, prompt, drain, picked, removed>>
    BY <1>5 DEF Enqueue, Respond, Texts, Unlocked, Draining
  <2>2. CASE archived
    <3>1. request' = [request EXCEPT ![t] = "refused"] /\ UNCHANGED <<queue, accepted>>
      BY <1>5, <2>2 DEF Enqueue, Respond
    <3>2. \A u \in Texts : request'[u] = "done" <=> request[u] = "done"
      BY <2>1, <3>1 DEF LockTypes
    <3> QED
      BY <2>1, <3>1, <3>2, IdleStepsKeepTexts DEF QInv, TextTypes
  <2>3. CASE ~archived
    <3>1. /\ request' = [request EXCEPT ![t] = "done"]
          /\ queue' = Append(queue, t) /\ accepted' = Append(accepted, t)
      BY <1>5, <2>3 DEF Enqueue, Respond
    <3> QED
      BY <2>1, <3>1, QueueingKeepsTexts
  <2> QED
    BY <2>2, <2>3
<1>6. ASSUME NEW t \in Texts, Dequeue(t) PROVE QInv'
  BY <1>6, DequeueKeepsTexts
<1>7. ASSUME NEW r \in Runs, RuntimeFinishes(r) PROVE QInv'
  <2>1. /\ phase[r] = "open" /\ phase' = [phase EXCEPT ![r] = "done"]
        /\ drain' = [drain EXCEPT ![r] = "due"]
        /\ UNCHANGED <<request, queue, said, prompt, picked, removed, accepted>>
    BY <1>7 DEF RuntimeFinishes, Run!Close, ReportedStatus
  <2>2. picked[r] = {}
    <3>1. ~Draining(r)
      BY <2>1 DEF StartersSeeNoRun
    <3> QED
      BY <3>1 DEF QInv, PickedIsOldest, TextTypes
  <2>3. \A q \in Runs : phase'[q] = "none" => phase[q] = "none"
    BY <2>1 DEF LockTypes
  <2>4. \A q \in Runs : picked'[q] = {} \/ (picked'[q] = picked[q] /\ drain'[q] = drain[q])
    BY <2>1, <2>2 DEF LockTypes
  <2> QED
    BY <2>1, <2>3, <2>4, IdleStepsKeepTexts DEF QInv, TextTypes
<1>8. ASSUME NEW r \in Runs, ServerEnds(r) PROVE QInv'
  <2>1. /\ phase[r] = "open" /\ phase' = [phase EXCEPT ![r] = "cancelled"]
        /\ UNCHANGED <<request, queue, said, prompt, drain, picked, removed, accepted>>
    BY <1>8 DEF ServerEnds, Run!Close
  <2>2. \A q \in Runs : phase'[q] = "none" => phase[q] = "none"
    BY <2>1 DEF LockTypes
  <2> QED
    BY <2>1, <2>2, IdleStepsKeepTexts DEF QInv, TextTypes
<1>9. ASSUME NEW r \in Runs, DrainLocks(r) PROVE QInv'
  BY <1>9, DrainLocksKeepsTexts
<1>10. ASSUME NEW r \in Runs, DrainStarts(r) PROVE QInv'
  BY <1>10, DrainStartsKeepsTexts
<1>11. ASSUME NEW r \in Runs, DrainFails(r) PROVE QInv'
  <2>1. /\ drain' = [drain EXCEPT ![r] = "done"] /\ picked' = [picked EXCEPT ![r] = {}]
        /\ UNCHANGED <<request, queue, said, phase, prompt, removed, accepted>>
    BY <1>11 DEF DrainFails, QueueAfterFailure
  <2>2. /\ picked' \in [Runs -> SUBSET Texts]
        /\ \A q \in Runs : picked'[q] = {} \/ (picked'[q] = picked[q] /\ drain'[q] = drain[q])
    BY <2>1 DEF QInv, TextTypes, LockTypes
  <2> QED
    BY <2>1, <2>2, IdleStepsKeepTexts
<1>12. CASE \/ \E r \in Runs, b \in Bodies : SendAnswer(r, b) \/ AnswerLocks(r, b)
            \/ \E a \in answering : AnswerRepeats(a) \/ AnswerStores(a) \/ AnswerFails(a)
  <2>1. UNCHANGED <<request, queue, said, phase, prompt, drain, picked, removed, accepted>>
    BY <1>12 DEF SendAnswer, AnswerLocks, AnswerRepeats, AnswerStores, AnswerFails
  <2> QED
    BY <2>1, IdleStepsKeepTexts DEF QInv, TextTypes
<1>13. CASE Archive \/ UNCHANGED vars
  <2>1. UNCHANGED <<request, queue, said, phase, prompt, drain, picked, removed, accepted>>
    BY <1>13 DEF Archive, vars
  <2> QED
    BY <2>1, IdleStepsKeepTexts DEF QInv, TextTypes
<1>14. CASE Restart
  <2>1. /\ picked' = [r \in Runs |-> {}]
        /\ request' = [t \in Texts |-> IF request[t] \in {"queueing", "starting"} THEN "idle" ELSE request[t]]
        /\ UNCHANGED <<queue, said, phase, prompt, removed, accepted>>
    BY <1>14 DEF Restart
  <2>2. \A t \in Texts : request'[t] = "done" <=> request[t] = "done"
    BY <2>1
  <2>3. picked' \in [Runs -> SUBSET Texts] /\ \A r \in Runs : picked'[r] = {}
    BY <2>1
  <2> QED
    BY <2>1, <2>2, <2>3, IdleStepsKeepTexts
<1> QED
  BY <1>1, <1>2, <1>3, <1>4, <1>5, <1>6, <1>7, <1>8, <1>9, <1>10, <1>11, <1>12, <1>13, <1>14 DEF Next

THEOREM AlwaysQInv == Spec => [](IInv /\ QInv)
BY InitIInv, InitQInv, NextIInv, NextQInv, PTL DEF Spec

LEMMA QueuedOnce ==
    ASSUME QInv, NEW t
    PROVE  QueuedTimes(t) = IF t \in ToSet(queue) THEN 1 ELSE 0
<1>1. CASE t \in ToSet(queue)
  <2>1. PICK i \in DOMAIN queue : queue[i] = t
    BY <1>1 DEF ToSet
  <2>2. {j \in DOMAIN queue : queue[j] = t} = {i}
    BY <2>1 DEF QInv, QueueIsInOrder, IsInjective
  <2> QED
    BY <1>1, <2>2, FS_Singleton DEF QueuedTimes
<1>2. CASE t \notin ToSet(queue)
  <2>1. {j \in DOMAIN queue : queue[j] = t} = {}
    BY <1>2 DEF ToSet
  <2> QED
    BY <1>2, <2>1, FS_EmptySet DEF QueuedTimes
<1> QED
  BY <1>1, <1>2

\* An accepted text is in the queue once, or in the one run that answers it, or
\* was removed (one that was removed while a drain was taking it may be a run as
\* well, never two), and a refused one leaves nothing, in whatever order posts, removals, drains,
\* failures and restarts come (postMessage, dequeueMessage, drainQueue).
THEOREM EveryTextIsAccountedFor == Spec => []TextsAreAccountedFor
<1>1. ASSUME IInv, QInv PROVE TextsAreAccountedFor
  <2> USE <1>1 DEF QInv
  <2>1. NoTextLostOrRepeated
    <3> SUFFICES ASSUME NEW t \in ToSet(accepted)
                 PROVE  /\ QueuedTimes(t) <= 1
                        /\ \A q, r \in RunsOf(t) : q = r
                        /\ QueuedTimes(t) + (IF RunsOf(t) = {} THEN 0 ELSE 1) <= 1
                        /\ QueuedTimes(t) = 0 /\ RunsOf(t) = {} => t \in removed
      BY DEF NoTextLostOrRepeated
    <3>1. \A q, r \in RunsOf(t) : q = r
      BY DEF RunsOf, RunsAnswerAccepted
    <3>2. t \in ToSet(queue) => RunsOf(t) = {}
      BY DEF RunsOf, RunsAnswerAccepted
    <3>3. t \in ToSet(queue) \/ RunsOf(t) # {} \/ t \in removed
      BY DEF NothingIsLost
    <3>4. QueuedTimes(t) = IF t \in ToSet(queue) THEN 1 ELSE 0
      BY QueuedOnce
    <3> QED
      BY <3>1, <3>2, <3>3, <3>4
  <2>2. RefusedLeavesNothing
    <3> SUFFICES ASSUME NEW t \in Texts, request[t] = "refused"
                 PROVE  t \notin said /\ t \notin ToSet(queue) /\ RunsOf(t) = {}
      BY DEF RefusedLeavesNothing
    <3>1. t \notin ToSet(accepted)
      BY DEF AcceptedOnce
    <3> QED
      BY <3>1 DEF SaidIsAccepted, QueueIsInOrder, RunsOf, RunsAnswerAccepted
  <2> QED
    BY <2>1, <2>2 DEF TextsAreAccountedFor
<1> QED
  BY <1>1, AlwaysQInv, PTL

\* A drain's run answers the oldest text in the queue, whatever was queued or
\* removed between reading the row and starting the run (drainQueue).
THEOREM DrainsTakeTheOldest == Spec => DrainTakesOldest
<1> DEFINE OldestTaken ==
      \A r \in Runs, t \in Texts :
         drain[r] = "picked" /\ drain'[r] = "done" /\ RunsOf(t)' # RunsOf(t)
           => ~\E u \in ToSet(queue) : Before(u, t)
<1>1. ASSUME IInv, QInv, Next PROVE OldestTaken
  <2> SUFFICES ASSUME NEW r \in Runs, NEW t \in Texts,
                      drain[r] = "picked", drain'[r] = "done", RunsOf(t)' # RunsOf(t)
               PROVE  \A u \in ToSet(queue) : ~Before(u, t)
    OBVIOUS
  <2>1. prompt' # prompt
    BY DEF RunsOf
  <2>2. \A s \in Posted : ~PostStarts(s)
    BY <1>1 DEF PostStarts, Respond, IInv, LockInv, LockIsExclusive, Posting, Draining, Texts
  <2>3. PICK q \in Runs : DrainStarts(q)
    BY <1>1, <2>1, <2>2 DEF Next, PostLocks, PostQueues, PostFails, Enqueue, Dequeue, Archive,
       RuntimeFinishes, ServerEnds, DrainLocks, DrainFails, SendAnswer, AnswerLocks,
       AnswerRepeats, AnswerStores, AnswerFails, Restart
  <2>4. PICK s \in picked[q], new \in Runs :
             /\ s \in Texts
             /\ queue' = RemoveFirst(queue, s)
             /\ phase[new] = "none" /\ phase' = [phase EXCEPT ![new] = "open"]
             /\ prompt[new] = {} /\ prompt' \in [Runs -> SUBSET Texts]
             /\ \A p \in Runs : prompt'[p] = IF p = new THEN {s} ELSE prompt[p]
    <3>1. LockInv /\ QInv /\ DrainStarts(q)
      BY <1>1, <2>3 DEF IInv
    <3> QED
      BY <3>1, DrainStartsFacts
  <2>5. s = t
    BY <2>4 DEF RunsOf
  <2> QED
    BY <1>1, <2>4, <2>5 DEF QInv, PickedIsOldest
<1>2. IInv /\ QInv /\ [Next]_vars => [OldestTaken]_vars
  BY <1>1
<1> QED
  BY <1>2, AlwaysQInv, PTL DEF Spec, DrainTakesOldest
===============================================================================
