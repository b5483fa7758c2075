----------------------------- MODULE ServerProofs -----------------------------
(***************************************************************************)
(* The scheduler and the payments of the composition, proved for every set *)
(* of routines, periods, orders and deliveries and for every bound.        *)
(*                                                                         *)
(* The scheduler, for any number of replicas: as long as no two of them    *)
(* are at work on one routine (nothing in the code keeps them from it: the *)
(* run ScheduleReplicas), every time a loop, or an edit, gives a routine   *)
(* is later than the runs created for it so far under its present trigger. *)
(* The time is on the row (NextIsLater), or claimed from it                *)
(* (ClaimIsLater), or computed but not written back yet (PlanIsLater).     *)
(*                                                                         *)
(* The payments: whoever holds the row lock of an order knows its status,  *)
(* and nobody else holds it (LockHoldersAgree).                            *)
(***************************************************************************)
EXTENDS MCServer, Integers, Sequences, TLAPS

(* ------------------------- The scheduler loop. ------------------------- *)

\* A loop has claimed the routine, or has a next time for it to write.
WorksOn(s, r) == r \in job[s].routine /\ at[s] \in {"armed", "fire", "create", "write"}

\* No two replicas are at work on one routine.  The claim's "skip locked" gives
\* this only until the claim commits.
RowsAreNotShared ==
    \A s, t \in Replicas : \A r \in Routines : WorksOn(s, r) /\ WorksOn(t, r) => s = t

\* A request has read the clock only while another edit is allowed.
EditsAreCounted == \A r \in Routines : edit[r] # {} => edition[r] < MaxEdits

\* What is recorded of a run lies in the past.
RunsAreRecorded ==
    \A r \in Routines : \A i \in DOMAIN fired[r] :
      /\ fired[r][i].due <= fired[r][i].at
      /\ fired[r][i].at <= now
      /\ fired[r][i].edition <= edition[r]

NextIsLater ==
    \A r \in Routines : \A i \in DOMAIN fired[r] :
      next[r] # S!Null /\ fired[r][i].edition = edition[r] => next[r] > fired[r][i].at

\* While a claim is held the row stays without a time, unless it was edited.
ClaimIsLater ==
    \A s \in Replicas : \A r \in job[s].routine :
      at[s] \in {"fire", "create"} =>
        /\ job[s].due <= now
        /\ job[s].edition <= edition[r]
        /\ job[s].edition = edition[r] => next[r] = S!Null
        /\ \A i \in DOMAIN fired[r] :
             fired[r][i].edition = job[s].edition => job[s].due > fired[r][i].at

\* A computed time is later than every run, whatever trigger it is for.
PlanIsLater ==
    \A s \in Replicas : \A r \in job[s].routine :
      at[s] \in {"armed", "write"} => \A i \in DOMAIN fired[r] : job[s].next > fired[r][i].at

Timely == RunsAreRecorded /\ NextIsLater /\ ClaimIsLater /\ PlanIsLater /\ S!NoBurst

SInv == S!TypeOK /\ EditsAreCounted /\ Timely
-------------------------------------------------------------------------------
\* The next occurrence is after the time it is computed at.
LEMMA NextAtIsLater ==
    ASSUME NEW p \in Nat \ {0}, NEW t \in Nat
    PROVE  S!NextAt(p, t) \in Nat /\ S!NextAt(p, t) > t
<1>1. (t \div p + 1) * p > t
  OBVIOUS
<1>2. (t \div p + 1) * p \in Int
  OBVIOUS
<1> QED
  BY <1>1, <1>2 DEF S!NextAt

LEMMA NextAtType ==
    ASSUME NEW p \in Nat, NEW t \in Nat
    PROVE  S!NextAt(p, t) \in Nat
<1>1. CASE p = 0
  BY <1>1 DEF S!NextAt, S!Null
<1>2. CASE p # 0
  BY <1>2, NextAtIsLater
<1> QED
  BY <1>1, <1>2

\* Times and periods are numbers.
LEMMA Numbers ==
    ASSUME S!SchedulerConstants, S!TypeOK
    PROVE  now \in Nat /\ slips \in Nat /\ \A p \in Periods \cup {0} : p \in Nat
BY DEF S!SchedulerConstants, S!TypeOK

LEMMA JobTypes ==
    ASSUME S!SchedulerConstants, S!TypeOK, NEW s \in Replicas
    PROVE  /\ job[s].routine \subseteq Routines
           /\ job[s].trigger \in Nat /\ job[s].due \in Nat /\ job[s].edition \in Nat
           /\ job[s].next \in Nat
<1>1. job[s] \in S!Jobs
  BY DEF S!TypeOK
<1>2. /\ job[s].routine \in {{}} \cup {{r} : r \in Routines} /\ job[s].trigger \in Periods \cup {0}
      /\ job[s].due \in Nat /\ job[s].edition \in 0..MaxEdits /\ job[s].next \in Nat
  BY <1>1 DEF S!Jobs
<1>3. job[s].routine \subseteq Routines
  BY <1>2
<1>4. job[s].trigger \in Nat
  BY <1>2, Numbers
<1> QED
  BY <1>2, <1>3, <1>4 DEF S!SchedulerConstants

\* One more entry at the end of a history.
LEMMA Recording ==
    ASSUME NEW R, NEW history \in Seq(R), NEW entry \in R
    PROVE  /\ Append(history, entry) \in Seq(R)
           /\ DOMAIN Append(history, entry) = DOMAIN history \cup {Len(history) + 1}
           /\ \A i \in DOMAIN history : i < Len(history) + 1 /\ Append(history, entry)[i] = history[i]
           /\ Append(history, entry)[Len(history) + 1] = entry
           /\ Len(history) + 1 \notin DOMAIN history
OBVIOUS

LEMMA EntryTypes ==
    ASSUME S!TypeOK, NEW r \in Routines, NEW i \in DOMAIN fired[r]
    PROVE  fired[r][i].due \in Nat /\ fired[r][i].at \in Nat /\ fired[r][i].edition \in Nat
<1> DEFINE R == [due : Nat, at : Nat, edition : Nat]
<1>1. fired[r] \in Seq(R)
  BY DEF S!TypeOK
<1>2. fired[r][i] \in R
  <2> HIDE DEF R
  <2> QED
    BY <1>1
<1> QED
  BY <1>2

LEMMA SchedulerInit == S!SchedulerConstants /\ S!Init => SInv
BY DEF S!SchedulerConstants, S!Init, SInv, S!TypeOK, S!Jobs, S!NoJob, S!Null, EditsAreCounted,
       Timely, RunsAreRecorded, NextIsLater, ClaimIsLater, PlanIsLater, S!NoBurst, S!Successive
-------------------------------------------------------------------------------
(* Types.                                                                   *)

LEMMA TypesOfPeople ==
    ASSUME S!SchedulerConstants, S!TypeOK, EditsAreCounted, NEW r \in Routines,
           \/ \E p \in Periods : S!EditReads(r, p)
           \/ \E to \in {"on", "off"} : S!EditWrites(r, to)
           \/ S!EditAborts(r) \/ S!Toggle(r) \/ S!Delete(r)
    PROVE  S!TypeOK' /\ EditsAreCounted'
<1>1. ASSUME NEW p \in Periods, S!EditReads(r, p) PROVE S!TypeOK' /\ EditsAreCounted'
  <2>1. S!NextAt(p, now) \in Nat
    BY Numbers, NextAtType
  <2> QED
    BY <1>1, <2>1 DEF S!EditReads, S!TypeOK, EditsAreCounted
<1>2. ASSUME NEW to \in {"on", "off"}, S!EditWrites(r, to) PROVE S!TypeOK' /\ EditsAreCounted'
  <2>1. CASE state[r] = "gone"
    BY <1>2, <2>1 DEF S!EditWrites, S!TypeOK, EditsAreCounted
  <2>2. CASE state[r] # "gone"
    <3>1. PICK e \in edit[r] : /\ state' = [state EXCEPT ![r] = to]
                               /\ trigger' = [trigger EXCEPT ![r] = e.trigger]
                               /\ next' = [next EXCEPT ![r] = e.next]
                               /\ edition' = [edition EXCEPT ![r] = edition[r] + 1]
      BY <1>2, <2>2 DEF S!EditWrites
    <3>2. e.trigger \in Periods /\ e.next \in Nat /\ edition[r] + 1 \in 0..MaxEdits
      <4>1. e \in [trigger : Periods, next : Nat]
        BY DEF S!TypeOK
      <4>2. edition[r] \in 0..MaxEdits /\ edition[r] < MaxEdits
        BY <1>2 DEF S!EditWrites, S!TypeOK, EditsAreCounted
      <4> QED
        BY <4>1, <4>2 DEF S!SchedulerConstants
    <3>3. edit' = [edit EXCEPT ![r] = {}] /\ UNCHANGED <<now, at, todo, job, fired, slips>>
      BY <1>2 DEF S!EditWrites
    <3> QED
      BY <3>1, <3>2, <3>3 DEF S!TypeOK, EditsAreCounted
  <2> QED
    BY <2>1, <2>2
<1>3. ASSUME S!EditAborts(r) PROVE S!TypeOK' /\ EditsAreCounted'
  BY <1>3 DEF S!EditAborts, S!TypeOK, EditsAreCounted
<1>4. ASSUME S!Toggle(r) PROVE S!TypeOK' /\ EditsAreCounted'
  BY <1>4 DEF S!Toggle, S!TypeOK, EditsAreCounted
<1>5. ASSUME S!Delete(r) PROVE S!TypeOK' /\ EditsAreCounted'
  BY <1>5 DEF S!Delete, S!TypeOK, EditsAreCounted
<1> QED
  BY <1>1, <1>2, <1>3, <1>4, <1>5

LEMMA TypesOfLoop ==
    ASSUME S!SchedulerConstants, S!TypeOK, EditsAreCounted, NEW s \in Replicas,
           S!Pass(s) \/ S!WriteFails(s) \/ S!Crash(s)
    PROVE  S!TypeOK' /\ EditsAreCounted'
<1>1. S!NoJob \in S!Jobs
  BY DEF S!NoJob, S!Jobs, S!Null, S!SchedulerConstants
<1>2. ASSUME S!Begin(s) PROVE S!TypeOK' /\ EditsAreCounted'
  <2>1. {[routine |-> r, trigger |-> trigger[r]] : r \in S!Unarmed}
          \subseteq [routine : Routines, trigger : Periods \ {0}]
    BY DEF S!Unarmed, S!TypeOK
  <2> QED
    BY <1>2, <2>1 DEF S!Begin, S!Goto, S!rows, S!TypeOK, EditsAreCounted
<1>3. ASSUME S!ArmComputes(s) PROVE S!TypeOK' /\ EditsAreCounted'
  <2>1. PICK item \in todo[s] :
          /\ todo' = [todo EXCEPT ![s] = todo[s] \ {item}]
          /\ job' = [job EXCEPT ![s] = [S!NoJob EXCEPT !.routine = {item.routine},
                                                     !.next = S!NextAt(item.trigger, now)]]
    BY <1>3 DEF S!ArmComputes
  <2>2. item.routine \in Routines /\ item.trigger \in Nat
    <3>1. item \in [routine : Routines, trigger : Periods \ {0}]
      BY DEF S!TypeOK
    <3> QED
      BY <3>1, Numbers
  <2>3. S!NextAt(item.trigger, now) \in Nat
    BY <2>2, Numbers, NextAtType
  <2>4. [S!NoJob EXCEPT !.routine = {item.routine}, !.next = S!NextAt(item.trigger, now)] \in S!Jobs
    BY <1>1, <2>2, <2>3 DEF S!NoJob, S!Jobs
  <2> QED
    BY <1>3, <2>1, <2>4 DEF S!ArmComputes, S!Goto, S!rows, S!TypeOK, EditsAreCounted
<1>4. ASSUME S!ArmWrites(s) PROVE S!TypeOK' /\ EditsAreCounted'
  <2>1. job[s].next \in Nat
    BY DEF S!TypeOK, S!Jobs
  <2> QED
    BY <1>1, <1>4, <2>1 DEF S!ArmWrites, S!Goto, S!TypeOK, EditsAreCounted
<1>5. ASSUME S!Claim(s) PROVE S!TypeOK' /\ EditsAreCounted'
  <2>1. PICK r \in S!Due :
          /\ next' = [next EXCEPT ![r] = S!ClearedTime(r)]
          /\ job' = [job EXCEPT ![s] =
               [S!NoJob EXCEPT !.routine = {r}, !.trigger = trigger[r], !.due = next[r],
                             !.edition = edition[r]]]
    BY <1>5 DEF S!Claim
  <2>2. r \in Routines /\ S!ClearedTime(r) \in Nat
    BY DEF S!Due, S!ClearedTime, S!Null
  <2>3. [S!NoJob EXCEPT !.routine = {r}, !.trigger = trigger[r], !.due = next[r],
                      !.edition = edition[r]] \in S!Jobs
    BY <2>2 DEF S!TypeOK, S!NoJob, S!Jobs, S!Null
  <2> QED
    BY <1>5, <2>1, <2>2, <2>3 DEF S!Claim, S!Goto, S!TypeOK, EditsAreCounted
<1>6. ASSUME S!EndPass(s) \/ S!FireReads(s) \/ S!FireFails(s) PROVE S!TypeOK' /\ EditsAreCounted'
  BY <1>6 DEF S!EndPass, S!FireReads, S!FireFails, S!Goto, S!rows, S!TypeOK, EditsAreCounted
<1>7. ASSUME S!FireCreates(s) PROVE S!TypeOK' /\ EditsAreCounted'
  <2>1. [due |-> job[s].due, at |-> now, edition |-> job[s].edition]
          \in [due : Nat, at : Nat, edition : Nat]
    BY JobTypes, Numbers
  <2>2. fired' \in [Routines -> Seq([due : Nat, at : Nat, edition : Nat])]
    <3> DEFINE entry == [due |-> job[s].due, at |-> now, edition |-> job[s].edition]
    <3>1. fired' = [r \in Routines |-> IF r \in job[s].routine THEN Append(fired[r], entry) ELSE fired[r]]
      BY <1>7 DEF S!FireCreates
    <3>4. entry \in [due : Nat, at : Nat, edition : Nat]
      BY <2>1
    <3> HIDE DEF entry
    <3>2. \A r \in Routines : fired[r] \in Seq([due : Nat, at : Nat, edition : Nat])
      BY DEF S!TypeOK
    <3>3. \A r \in Routines : Append(fired[r], entry) \in Seq([due : Nat, at : Nat, edition : Nat])
      BY <3>2, <3>4, Recording
    <3> QED
      BY <3>1, <3>2, <3>3
  <2> QED
    BY <1>7, <2>2 DEF S!FireCreates, S!Goto, S!rows, S!TypeOK, EditsAreCounted
<1>8. ASSUME S!Plan(s) PROVE S!TypeOK' /\ EditsAreCounted'
  <2>1. job[s].trigger \in Nat /\ job[s] \in S!Jobs
    BY JobTypes DEF S!TypeOK
  <2>2. S!NextFrom(job[s]) \in Nat
    BY <2>1, Numbers, NextAtType DEF S!NextFrom
  <2>3. job' \in [Replicas -> S!Jobs]
    BY <1>8, <2>1, <2>2 DEF S!Plan, S!TypeOK, S!Jobs
  <2> QED
    BY <1>8, <2>3 DEF S!Plan, S!Goto, S!rows, S!TypeOK, EditsAreCounted
<1>9. ASSUME S!Reschedule(s) PROVE S!TypeOK' /\ EditsAreCounted'
  <2>1. job[s].next \in Nat
    BY DEF S!TypeOK, S!Jobs
  <2> QED
    BY <1>1, <1>9, <2>1 DEF S!Reschedule, S!Goto, S!TypeOK, EditsAreCounted
<1>10. ASSUME S!WriteFails(s) \/ S!Crash(s) PROVE S!TypeOK' /\ EditsAreCounted'
  <2>1. slips' \in 0..MaxSlips
    BY <1>10 DEF S!WriteFails, S!Crash, S!Fault, S!TypeOK, S!SchedulerConstants
  <2>2. at' \in [Replicas -> {"idle", "arm", "armed", "fire", "create", "plan", "write"}]
    BY <1>10 DEF S!WriteFails, S!Crash, S!Goto, S!TypeOK
  <2>3. /\ job' = [job EXCEPT ![s] = S!NoJob] /\ UNCHANGED <<S!rows, now, fired>>
        /\ todo' = todo \/ todo' = [todo EXCEPT ![s] = {}]
    BY <1>10 DEF S!WriteFails, S!Crash, S!rows
  <2> QED
    BY <1>1, <2>1, <2>2, <2>3 DEF S!rows, S!TypeOK, EditsAreCounted
<1> QED
  BY <1>2, <1>3, <1>4, <1>5, <1>6, <1>7, <1>8, <1>9, <1>10 DEF S!Pass

LEMMA SchedulerTypes ==
    S!SchedulerConstants /\ S!TypeOK /\ EditsAreCounted /\ [S!Next]_(S!vars) => S!TypeOK' /\ EditsAreCounted'
<1> SUFFICES ASSUME S!SchedulerConstants, S!TypeOK, EditsAreCounted, [S!Next]_(S!vars)
             PROVE  S!TypeOK' /\ EditsAreCounted'
  OBVIOUS
<1>1. ASSUME S!Tick PROVE S!TypeOK' /\ EditsAreCounted'
  BY <1>1 DEF S!Tick, S!rows, S!TypeOK, EditsAreCounted, S!SchedulerConstants
<1>2. ASSUME UNCHANGED S!vars PROVE S!TypeOK' /\ EditsAreCounted'
  BY <1>2 DEF S!vars, S!TypeOK, EditsAreCounted
<1> QED
  BY <1>1, <1>2, TypesOfPeople, TypesOfLoop DEF S!Next
-------------------------------------------------------------------------------
(* Times.                                                                   *)

\* Most steps create no run and leave every claimed or computed time alone, or
\* drop it.
LEMMA QuietSteps ==
    ASSUME S!SchedulerConstants, SInv, NEW s \in Replicas, UNCHANGED <<fired, S!rows, now>>,
           \A q \in Replicas \ {s} : at'[q] = at[q] /\ job'[q] = job[q],
           \/ at'[s] \in {"idle", "arm", "plan"}
           \/ job'[s] = job[s] /\ (at'[s] = at[s] \/ (at[s] = "fire" /\ at'[s] = "create"))
    PROVE  Timely'
<1> QED
  BY DEF SInv, Timely, RunsAreRecorded, NextIsLater, ClaimIsLater, PlanIsLater, S!NoBurst, S!Successive, S!rows

LEMMA PeopleKeepTime ==
    ASSUME S!SchedulerConstants, SInv, NEW r \in Routines,
           \/ \E p \in Periods : S!EditReads(r, p)
           \/ \E to \in {"on", "off"} : S!EditWrites(r, to)
           \/ S!EditAborts(r) \/ S!Toggle(r) \/ S!Delete(r)
    PROVE  Timely'
<1> USE DEF SInv, Timely
<1>1. ASSUME UNCHANGED <<now, next, edition, at, todo, job, fired>> PROVE Timely'
  BY <1>1 DEF RunsAreRecorded, NextIsLater, ClaimIsLater, PlanIsLater, S!NoBurst, S!Successive
<1>2. ASSUME NEW to \in {"on", "off"}, S!EditWrites(r, to), state[r] # "gone" PROVE Timely'
  <2>1. PICK e \in edit[r] : /\ next' = [next EXCEPT ![r] = e.next]
                             /\ edition' = [edition EXCEPT ![r] = edition[r] + 1]
    BY <1>2 DEF S!EditWrites
  <2>2. UNCHANGED <<now, at, job, fired>>
    BY <1>2 DEF S!EditWrites
  <2>3. /\ edition[r] \in Nat /\ edition'[r] = edition[r] + 1
        /\ \A q \in Routines \ {r} : edition'[q] = edition[q] /\ next'[q] = next[q]
    BY <2>1 DEF S!TypeOK, S!SchedulerConstants
  <2>4. \A i \in DOMAIN fired[r] : fired[r][i].edition \in Nat /\ fired[r][i].edition <= edition[r]
    BY EntryTypes DEF RunsAreRecorded
  <2>5. RunsAreRecorded'
    <3> SUFFICES ASSUME NEW q \in Routines, NEW i \in DOMAIN fired[q]
                 PROVE  /\ fired[q][i].due <= fired[q][i].at
                        /\ fired[q][i].at <= now
                        /\ fired[q][i].edition <= edition'[q]
      BY <2>2 DEF RunsAreRecorded
    <3>1. CASE q = r
      BY <2>3, <2>4, <3>1 DEF RunsAreRecorded
    <3>2. CASE q # r
      BY <2>3, <3>2 DEF RunsAreRecorded
    <3> QED
      BY <3>1, <3>2
  <2>6. NextIsLater'
    <3> SUFFICES ASSUME NEW q \in Routines, NEW i \in DOMAIN fired[q],
                        next'[q] # S!Null, fired[q][i].edition = edition'[q]
                 PROVE  next'[q] > fired[q][i].at
      BY <2>2 DEF NextIsLater
    <3>1. q # r
      BY <2>3, <2>4
    <3> QED
      BY <2>3, <3>1 DEF NextIsLater
  <2>7. ClaimIsLater'
    <3> SUFFICES ASSUME NEW p \in Replicas, NEW q \in job[p].routine, at[p] \in {"fire", "create"}
                 PROVE  /\ job[p].due <= now
                        /\ job[p].edition <= edition'[q]
                        /\ job[p].edition = edition'[q] => next'[q] = S!Null
                        /\ \A i \in DOMAIN fired[q] :
                             fired[q][i].edition = job[p].edition => job[p].due > fired[q][i].at
      BY <2>2 DEF ClaimIsLater
    <3>1. q \in Routines /\ job[p].edition \in Nat
      BY JobTypes
    <3>2. CASE q = r
      BY <2>3, <3>1, <3>2 DEF ClaimIsLater
    <3>3. CASE q # r
      BY <2>3, <3>1, <3>3 DEF ClaimIsLater
    <3> QED
      BY <3>2, <3>3
  <2>8. PlanIsLater' /\ S!NoBurst'
    BY <2>2 DEF PlanIsLater, S!NoBurst, S!Successive
  <2> QED
    BY <2>5, <2>6, <2>7, <2>8
<1>3. ASSUME NEW to \in {"on", "off"}, S!EditWrites(r, to), state[r] = "gone" PROVE Timely'
  BY <1>1, <1>3 DEF S!EditWrites
<1>4. ASSUME NEW p \in Periods, S!EditReads(r, p) PROVE Timely'
  BY <1>1, <1>4 DEF S!EditReads
<1>5. ASSUME S!EditAborts(r) \/ S!Toggle(r) \/ S!Delete(r) PROVE Timely'
  BY <1>1, <1>5 DEF S!EditAborts, S!Toggle, S!Delete
<1> QED
  BY <1>2, <1>3, <1>4, <1>5

LEMMA ClockKeepsTime ==
    ASSUME S!SchedulerConstants, SInv, S!Tick
    PROVE  Timely'
<1> USE DEF SInv, Timely
<1>1. now \in Nat /\ now' = now + 1 /\ UNCHANGED <<next, edition, at, job, fired>>
  BY Numbers DEF S!Tick, S!rows
<1>2. RunsAreRecorded'
  <2>1. \A r \in Routines : \A i \in DOMAIN fired[r] : fired[r][i].at \in Nat
    BY EntryTypes
  <2> QED
    BY <1>1, <2>1 DEF RunsAreRecorded
<1>3. ClaimIsLater'
  BY <1>1, JobTypes DEF ClaimIsLater
<1> QED
  BY <1>1, <1>2, <1>3 DEF NextIsLater, PlanIsLater, S!NoBurst, S!Successive

LEMMA ComputingKeepsTime ==
    ASSUME S!SchedulerConstants, SInv, NEW s \in Replicas, S!ArmComputes(s)
    PROVE  Timely'
<1> USE DEF SInv, Timely
<1>1. \A q \in Replicas \ {s} : at'[q] = at[q] /\ job'[q] = job[q]
  BY DEF S!ArmComputes, S!Goto, S!TypeOK
<1>2. at'[s] = "armed" /\ UNCHANGED <<fired, S!rows, now>>
  BY DEF S!ArmComputes, S!Goto, S!TypeOK
<1>3. PICK item \in todo[s] :
        job' = [job EXCEPT ![s] = [S!NoJob EXCEPT !.routine = {item.routine},
                                                !.next = S!NextAt(item.trigger, now)]]
  BY DEF S!ArmComputes
<1>4. item.trigger \in Nat \ {0}
  <2>1. item \in [routine : Routines, trigger : Periods \ {0}]
    BY DEF S!TypeOK
  <2> QED
    BY <2>1, Numbers
<1>5. now \in Nat /\ S!NextAt(item.trigger, now) \in Nat /\ S!NextAt(item.trigger, now) > now
  BY <1>4, NextAtIsLater, Numbers
<1>6. job'[s].routine = {item.routine} /\ job'[s].next = S!NextAt(item.trigger, now)
  BY <1>3 DEF S!NoJob, S!TypeOK
<1>7. PlanIsLater'
  <2> SUFFICES ASSUME NEW r \in {item.routine}, NEW i \in DOMAIN fired[r]
               PROVE  S!NextAt(item.trigger, now) > fired[r][i].at
    BY <1>1, <1>2, <1>6 DEF PlanIsLater
  <2>1. r \in Routines
    BY DEF S!TypeOK
  <2>2. fired[r][i].at \in Nat /\ fired[r][i].at <= now
    BY <2>1, EntryTypes DEF RunsAreRecorded
  <2> QED
    BY <1>5, <2>2
<1>8. ClaimIsLater'
  BY <1>1, <1>2 DEF ClaimIsLater, S!rows
<1> QED
  BY <1>2, <1>7, <1>8 DEF RunsAreRecorded, NextIsLater, S!NoBurst, S!Successive, S!rows

\* ArmWrites and Reschedule: whatever of the computed time reaches the row.
LEMMA WritingKeepsTime ==
    ASSUME S!SchedulerConstants, SInv, RowsAreNotShared, NEW s \in Replicas,
           at[s] \in {"armed", "write"}, at'[s] = "arm", UNCHANGED <<fired, edition, now>>,
           \A q \in Replicas \ {s} : at'[q] = at[q] /\ job'[q] = job[q],
           \A r \in Routines : next'[r] = next[r] \/ (r \in job[s].routine /\ next'[r] = job[s].next)
    PROVE  Timely'
<1> USE DEF SInv, Timely
<1>1. ASSUME NEW q \in Replicas \ {s}, NEW r \in job[q].routine, at[q] \in {"fire", "create"}
      PROVE  next'[r] = next[r]
  <2>1. r \in Routines
    BY JobTypes
  <2>2. WorksOn(q, r) /\ ~WorksOn(s, r)
    BY <1>1, <2>1 DEF WorksOn, RowsAreNotShared
  <2> QED
    BY <2>1, <2>2 DEF WorksOn
<1>2. NextIsLater'
  BY DEF NextIsLater, PlanIsLater
<1>3. ClaimIsLater' /\ PlanIsLater'
  BY <1>1 DEF ClaimIsLater, PlanIsLater
<1> QED
  BY <1>2, <1>3 DEF RunsAreRecorded, S!NoBurst, S!Successive

LEMMA ClaimingKeepsTime ==
    ASSUME S!SchedulerConstants, SInv, NEW s \in Replicas, S!Claim(s)
    PROVE  Timely'
<1> USE DEF SInv, Timely
<1>1. \A q \in Replicas \ {s} : at'[q] = at[q] /\ job'[q] = job[q] /\ job[q].routine \subseteq Routines
  BY JobTypes DEF S!Claim, S!Goto, S!TypeOK
<1>2. at'[s] = "fire" /\ UNCHANGED <<fired, edition, now>>
  BY DEF S!Claim, S!Goto, S!TypeOK
<1>3. PICK r \in S!Due :
        /\ next' = [next EXCEPT ![r] = S!ClearedTime(r)]
        /\ job' = [job EXCEPT ![s] =
             [S!NoJob EXCEPT !.routine = {r}, !.trigger = trigger[r], !.due = next[r],
                           !.edition = edition[r]]]
  BY DEF S!Claim
<1>4. r \in Routines /\ next[r] # S!Null /\ next[r] <= now
  BY DEF S!Due
<1>5. /\ job'[s].routine = {r} /\ job'[s].due = next[r] /\ job'[s].edition = edition[r]
      /\ \A q \in Routines : next'[q] = IF q = r THEN S!Null ELSE next[q]
  BY <1>3, <1>4 DEF S!NoJob, S!TypeOK, S!ClearedTime
<1>6. edition[r] <= edition[r]
  <2>1. edition[r] \in 0..MaxEdits
    BY <1>4 DEF S!TypeOK
  <2> QED
    BY <2>1
<1>7. ClaimIsLater'
  BY <1>1, <1>2, <1>4, <1>5, <1>6 DEF ClaimIsLater, NextIsLater
<1>8. NextIsLater'
  BY <1>2, <1>5 DEF NextIsLater
<1>9. PlanIsLater'
  BY <1>1, <1>2 DEF PlanIsLater
<1> QED
  BY <1>2, <1>7, <1>8, <1>9 DEF RunsAreRecorded, S!NoBurst, S!Successive

LEMMA PlanningKeepsTime ==
    ASSUME S!SchedulerConstants, SInv, NEW s \in Replicas, S!Plan(s)
    PROVE  Timely'
<1> USE DEF SInv, Timely
<1>1. \A q \in Replicas \ {s} : at'[q] = at[q] /\ job'[q] = job[q]
  BY DEF S!Plan, S!Goto, S!TypeOK
<1>2. UNCHANGED <<now, S!rows, fired>> /\ at'[s] = IF job[s].trigger = 0 THEN "arm" ELSE "write"
  BY DEF S!Plan, S!Goto, S!TypeOK
<1>3. CASE job[s].trigger = 0
  BY <1>1, <1>2, <1>3, QuietSteps
<1>4. CASE job[s].trigger # 0
  <2>1. /\ job'[s].routine = job[s].routine /\ job'[s].next = S!NextAt(job[s].trigger, now)
        /\ job[s].routine \subseteq Routines /\ job[s].trigger \in Nat \ {0}
    <3>1. job' = [job EXCEPT ![s] = [job[s] EXCEPT !.next = S!NextFrom(job[s])]] /\ job[s] \in S!Jobs
      BY DEF S!Plan, S!TypeOK
    <3>2. job'[s].routine = job[s].routine /\ job'[s].next = S!NextAt(job[s].trigger, now)
      BY <3>1 DEF S!NextFrom, S!TypeOK, S!Jobs
    <3> QED
      BY <1>4, <3>2, JobTypes
  <2>2. now \in Nat /\ S!NextAt(job[s].trigger, now) \in Nat /\ S!NextAt(job[s].trigger, now) > now
    BY <2>1, NextAtIsLater, Numbers
  <2>3. PlanIsLater'
    <3> SUFFICES ASSUME NEW r \in job[s].routine, NEW i \in DOMAIN fired[r]
                 PROVE  S!NextAt(job[s].trigger, now) > fired[r][i].at
      BY <1>1, <1>2, <2>1 DEF PlanIsLater
    <3>1. fired[r][i].at \in Nat /\ fired[r][i].at <= now
      BY <2>1, EntryTypes DEF RunsAreRecorded
    <3> QED
      BY <2>2, <3>1
  <2>4. ClaimIsLater'
    BY <1>1, <1>2, <1>4 DEF ClaimIsLater, S!rows
  <2> QED
    BY <1>2, <2>3, <2>4 DEF RunsAreRecorded, NextIsLater, S!NoBurst, S!Successive, S!rows
<1> QED
  BY <1>3, <1>4

\* The one step that creates a run: its time is after the earlier runs, and the
\* row holds no time that is not after this one.
LEMMA FiringKeepsTime ==
    ASSUME S!SchedulerConstants, SInv, RowsAreNotShared, NEW s \in Replicas, S!FireCreates(s)
    PROVE  Timely'
<1> USE DEF SInv, Timely
<1> DEFINE R == [due : Nat, at : Nat, edition : Nat]
<1> DEFINE entry == [due |-> job[s].due, at |-> now, edition |-> job[s].edition]
<1>1. /\ \A q \in Replicas \ {s} : at'[q] = at[q] /\ job[q].routine \subseteq Routines
      /\ \A q \in Replicas \ {s} : \A r \in job[q].routine :
           at[q] \in {"armed", "fire", "create", "write"} => r \notin job[s].routine
  BY JobTypes DEF S!FireCreates, S!Goto, S!TypeOK, RowsAreNotShared, WorksOn
<1>2. /\ at[s] = "create" /\ at'[s] = "plan" /\ UNCHANGED <<now, next, edition, job>>
      /\ \A r \in Routines : fired'[r] = IF r \in job[s].routine THEN Append(fired[r], entry) ELSE fired[r]
  BY DEF S!FireCreates, S!Goto, S!TypeOK, S!rows
<1>3. entry \in R /\ entry.due = job[s].due /\ entry.at = now /\ entry.edition = job[s].edition
  BY JobTypes, Numbers
<1>4. \A r \in Routines : fired[r] \in Seq(R)
  BY DEF S!TypeOK
<1> HIDE DEF entry
<1>5. ASSUME NEW r \in Routines, r \in job[s].routine
      PROVE  /\ DOMAIN fired'[r] = DOMAIN fired[r] \cup {Len(fired[r]) + 1}
             /\ \A i \in DOMAIN fired[r] : i < Len(fired[r]) + 1 /\ fired'[r][i] = fired[r][i]
             /\ fired'[r][Len(fired[r]) + 1] = entry
             /\ \A i \in DOMAIN fired[r] : fired[r][i] \in R
             /\ Len(fired[r]) + 1 \in Nat /\ DOMAIN fired[r] \subseteq Nat
  <2> HIDE DEF R
  <2>1. fired'[r] = Append(fired[r], entry) /\ fired[r] \in Seq(R) /\ entry \in R
    BY <1>2, <1>3, <1>4, <1>5
  <2>2. /\ \A i \in DOMAIN fired[r] : fired[r][i] \in R
        /\ Len(fired[r]) + 1 \in Nat /\ DOMAIN fired[r] \subseteq Nat
    BY <2>1
  <2> QED
    BY <2>1, <2>2, Recording
<1>6. \A r \in job[s].routine :
        /\ job[s].due <= now /\ job[s].edition <= edition[r]
        /\ job[s].edition = edition[r] => next[r] = S!Null
        /\ \A i \in DOMAIN fired[r] : fired[r][i].edition = job[s].edition => job[s].due > fired[r][i].at
  BY <1>2 DEF ClaimIsLater
<1>7. RunsAreRecorded'
  <2> SUFFICES ASSUME NEW r \in Routines, NEW i \in DOMAIN fired'[r]
               PROVE  /\ fired'[r][i].due <= fired'[r][i].at
                      /\ fired'[r][i].at <= now
                      /\ fired'[r][i].edition <= edition[r]
    BY <1>2 DEF RunsAreRecorded
  <2>1. CASE r \notin job[s].routine
    BY <1>2, <2>1 DEF RunsAreRecorded
  <2>2. CASE r \in job[s].routine /\ i \in DOMAIN fired[r]
    BY <1>5, <2>2 DEF RunsAreRecorded
  <2>3. CASE r \in job[s].routine /\ i \notin DOMAIN fired[r]
    <3>1. fired'[r][i] = entry
      BY <1>5, <2>3
    <3> QED
      BY <1>3, <1>6, <2>3, <3>1, Numbers
  <2> QED
    BY <2>1, <2>2, <2>3
<1>8. NextIsLater'
  <2> SUFFICES ASSUME NEW r \in Routines, NEW i \in DOMAIN fired'[r],
                      next[r] # S!Null, fired'[r][i].edition = edition[r]
               PROVE  next[r] > fired'[r][i].at
    BY <1>2 DEF NextIsLater
  <2>1. CASE r \notin job[s].routine
    BY <1>2, <2>1 DEF NextIsLater
  <2>2. CASE r \in job[s].routine /\ i \in DOMAIN fired[r]
    BY <1>5, <2>2 DEF NextIsLater
  <2>3. CASE r \in job[s].routine /\ i \notin DOMAIN fired[r]
    <3>1. fired'[r][i] = entry
      BY <1>5, <2>3
    <3> QED
      BY <1>3, <1>6, <2>3, <3>1
  <2> QED
    BY <2>1, <2>2, <2>3
<1>9. S!NoBurst'
  <2> SUFFICES ASSUME NEW r \in Routines, NEW i \in DOMAIN fired'[r], NEW j \in DOMAIN fired'[r],
                      i < j, fired'[r][i].edition = fired'[r][j].edition
               PROVE  fired'[r][j].due > fired'[r][i].at
    BY DEF S!NoBurst, S!Successive
  <2>1. CASE r \notin job[s].routine
    BY <1>2, <2>1 DEF S!NoBurst, S!Successive
  <2>2. CASE r \in job[s].routine /\ j \in DOMAIN fired[r]
    <3>1. i \in DOMAIN fired[r]
      BY <1>5, <2>2
    <3> QED
      BY <1>5, <2>2, <3>1 DEF S!NoBurst, S!Successive
  <2>3. CASE r \in job[s].routine /\ j \notin DOMAIN fired[r]
    <3>1. fired'[r][j] = entry /\ i \in DOMAIN fired[r]
      BY <1>5, <2>3
    <3> QED
      BY <1>3, <1>5, <1>6, <2>3, <3>1
  <2> QED
    BY <2>1, <2>2, <2>3
<1>10. ClaimIsLater' /\ PlanIsLater'
  BY <1>1, <1>2 DEF ClaimIsLater, PlanIsLater
<1> QED
  BY <1>7, <1>8, <1>9, <1>10

LEMMA SchedulerStep == S!SchedulerConstants /\ RowsAreNotShared /\ SInv /\ [S!Next]_(S!vars) => SInv'
<1> SUFFICES ASSUME S!SchedulerConstants, RowsAreNotShared, SInv, [S!Next]_(S!vars) PROVE SInv'
  OBVIOUS
<1>1. S!TypeOK' /\ EditsAreCounted'
  BY SchedulerTypes DEF SInv
<1>2. ASSUME UNCHANGED S!vars PROVE Timely'
  BY <1>2 DEF S!vars, SInv, Timely, RunsAreRecorded, NextIsLater, ClaimIsLater, PlanIsLater, S!NoBurst, S!Successive
<1>3. ASSUME NEW s \in Replicas, S!Pass(s) \/ S!WriteFails(s) \/ S!Crash(s) PROVE Timely'
  <2>1. at \in [Replicas -> {"idle", "arm", "armed", "fire", "create", "plan", "write"}]
        /\ job \in [Replicas -> S!Jobs]
    BY DEF SInv, S!TypeOK
  <2>2. ASSUME S!Begin(s) \/ S!EndPass(s) \/ S!FireReads(s) \/ S!FireFails(s) PROVE Timely'
    <3>1. UNCHANGED <<fired, S!rows, now, job>>
      BY <2>2 DEF S!Begin, S!EndPass, S!FireReads, S!FireFails
    <3>2. at'[s] \in {"idle", "arm", "plan"} \/ (at[s] = "fire" /\ at'[s] = "create")
      BY <2>1, <2>2 DEF S!Begin, S!EndPass, S!FireReads, S!FireFails, S!Goto
    <3>3. \A q \in Replicas \ {s} : at'[q] = at[q]
      BY <2>1, <2>2 DEF S!Begin, S!EndPass, S!FireReads, S!FireFails, S!Goto
    <3> QED
      BY <3>1, <3>2, <3>3, QuietSteps
  <2>3. ASSUME S!WriteFails(s) \/ S!Crash(s) PROVE Timely'
    <3>1. UNCHANGED <<fired, S!rows, now>>
      BY <2>3 DEF S!WriteFails, S!Crash
    <3>2. at'[s] \in {"idle", "arm"}
      BY <2>1, <2>3 DEF S!WriteFails, S!Crash, S!Goto
    <3>3. \A q \in Replicas \ {s} : at'[q] = at[q] /\ job'[q] = job[q]
      BY <2>1, <2>3 DEF S!WriteFails, S!Crash, S!Goto
    <3> QED
      BY <3>1, <3>2, <3>3, QuietSteps
  <2>4. ASSUME S!ArmWrites(s) PROVE Timely'
    <3>1. /\ at[s] = "armed" /\ at'[s] = "arm" /\ UNCHANGED <<fired, edition, now>>
          /\ \A r \in Routines : next'[r] = next[r] \/ (r \in job[s].routine /\ next'[r] = job[s].next)
      BY <2>1, <2>4 DEF S!ArmWrites, S!Goto
    <3>2. \A q \in Replicas \ {s} : at'[q] = at[q] /\ job'[q] = job[q]
      BY <2>1, <2>4 DEF S!ArmWrites, S!Goto
    <3> QED
      BY <3>1, <3>2, WritingKeepsTime
  <2>5. ASSUME S!Reschedule(s) PROVE Timely'
    <3>1. /\ at[s] = "write" /\ at'[s] = "arm" /\ UNCHANGED <<fired, edition, now>>
          /\ \A r \in Routines : next'[r] = next[r] \/ (r \in job[s].routine /\ next'[r] = job[s].next)
      BY <2>1, <2>5 DEF S!Reschedule, S!Goto
    <3>2. \A q \in Replicas \ {s} : at'[q] = at[q] /\ job'[q] = job[q]
      BY <2>1, <2>5 DEF S!Reschedule, S!Goto
    <3> QED
      BY <3>1, <3>2, WritingKeepsTime
  <2> QED
    BY <1>3, <2>2, <2>3, <2>4, <2>5, ComputingKeepsTime, ClaimingKeepsTime, PlanningKeepsTime,
       FiringKeepsTime DEF S!Pass
<1>4. Timely'
  BY <1>2, <1>3, PeopleKeepTime, ClockKeepsTime DEF S!Next
<1> QED
  BY <1>1, <1>4 DEF SInv

-------------------------------------------------------------------------------
(* Payments. *)

\* A webhook request that holds the row lock of the order.
Locked(d) == request[d].stage = "locked"

\* The lock has one holder at a time, and what it read is still so.
LockHoldersAgree ==
    /\ \A c, d \in Deliveries :
         Locked(c) /\ Locked(d) /\ request[c].event.order = request[d].event.order => c = d
    /\ \A d \in Deliveries : Locked(d) => request[d].status = status[request[d].event.order]

\* Events are of orders whose checkout was shown, one that says an order was
\* paid says the truth, and what is under way is an event.
EventsAreTrue ==
    /\ \A e \in events : checkout[e.order] = "shown" /\ (e.payment_status = "paid" => payment[e.order] = "paid")
    /\ \A d \in Deliveries : request[d] # Idle => request[d].event \in events
    /\ \A d \in Deliveries : Locked(d) => request[d].event.payment_status = "paid"

\* Status and ledger agree, order by order.
LedgerAgrees ==
    \A o \in Orders :
       /\ credits[o] = IF status[o] = "paid" THEN 1 ELSE 0
       /\ status[o] = "paid" => payment[o] = "paid"

\* An order that has not been inserted has no other trace.
NewOrdersAreNew == \A o \in Orders : checkout[o] = "none" => status[o] = "none" /\ payment[o] = "none"

PaymentsInv == TypeOK /\ NewOrdersAreNew /\ LockHoldersAgree /\ EventsAreTrue /\ LedgerAgrees
-------------------------------------------------------------------------------
USE DEF PaymentsInv

\* What a request is made of, stage by stage.
LEMMA RequestShapes ==
    ASSUME TypeOK, NEW d \in Deliveries
    PROVE  /\ request[d] # Idle => request[d].event \in StripeEvents
           /\ request[d] = Idle => request[d].stage = "idle"
           /\ request[d].stage \in {"idle", "sent", "locked", "answered"}
           /\ request[d].stage = "idle" => request[d] = Idle
  BY DEF TypeOK, Requests, Idle

\* Nothing is there at first.
LEMMA PaymentsInit == Init => PaymentsInv
  BY DEF Init, TypeOK, Requests, Idle, NewOrdersAreNew, LockHoldersAgree, EventsAreTrue, LedgerAgrees, Locked

\* The checkout touches no order that has an event.
LEMMA CheckoutKeepsPayments ==
    ASSUME PaymentsInv, NEW o \in Orders,
           InsertOrder(o) \/ CreateSession(o) \/ StoreSession(o) \/ CheckoutBreaks(o)
    PROVE  PaymentsInv'
<1> USE DEF InsertOrder, CreateSession, StoreSession, CheckoutBreaks, Goto
<1>1. TypeOK'
  BY DEF TypeOK
<1>2. NewOrdersAreNew'
  BY DEF NewOrdersAreNew, TypeOK
<1>3. EventsAreTrue'
  BY DEF EventsAreTrue, TypeOK, StripeEvents, Locked
<1>4. LockHoldersAgree'
  <2>1. ASSUME NEW d \in Deliveries, Locked(d)
        PROVE  /\ request[d].event.order \in Orders
               /\ status'[request[d].event.order] = status[request[d].event.order]
    <3>1. request[d] # Idle
      BY <2>1 DEF Locked, Idle
    <3>2. request[d].event \in events /\ request[d].event \in StripeEvents
      BY <3>1, RequestShapes DEF EventsAreTrue
    <3>3. checkout[request[d].event.order] = "shown" /\ request[d].event.order \in Orders
      BY <3>2 DEF EventsAreTrue, StripeEvents
    <3> QED BY <3>3 DEF TypeOK
  <2> QED BY <2>1 DEF LockHoldersAgree, Locked
<1>5. LedgerAgrees'
  BY DEF LedgerAgrees, TypeOK, NewOrdersAreNew
<1> QED BY <1>1, <1>2, <1>3, <1>4, <1>5

\* Paying adds an event that is true.
LEMMA PayingKeepsPayments ==
    ASSUME PaymentsInv, NEW o \in Orders, PayNow(o) \/ PayLater(o) \/ MoneyArrives(o)
    PROVE  PaymentsInv'
<1> USE DEF PayNow, PayLater, MoneyArrives, Pays
<1>1. TypeOK'
  BY DEF TypeOK, StripeEvents
<1>2. NewOrdersAreNew'
  BY DEF NewOrdersAreNew, TypeOK
<1>3. EventsAreTrue'
  BY DEF EventsAreTrue, TypeOK, StripeEvents, Locked
<1>4. LockHoldersAgree'
  BY DEF LockHoldersAgree, Locked
<1>5. LedgerAgrees'
  BY DEF LedgerAgrees, TypeOK
<1> QED BY <1>1, <1>2, <1>3, <1>4, <1>5

\* A delivery that begins, waits no longer, or is over holds no lock.
LEMMA DeliveryKeepsPayments ==
    ASSUME PaymentsInv, NEW d \in Deliveries,
           (\E e \in events : Deliver(d, e)) \/ IgnoreUnpaid(d) \/ AnswerArrives(d) \/ AnswerIsLost(d)
    PROVE  PaymentsInv'
<1> USE DEF Deliver, IgnoreUnpaid, AnswerArrives, AnswerIsLost, Answered, selling, Fault
<1>0. request[d] # Idle => request[d].event \in StripeEvents
  BY RequestShapes
<1>1. TypeOK'
  BY <1>0 DEF TypeOK, Requests, StripeEvents, Idle
<1>2. NewOrdersAreNew' /\ LedgerAgrees'
  BY DEF NewOrdersAreNew, LedgerAgrees
<1>3. EventsAreTrue'
  BY DEF EventsAreTrue, TypeOK, Locked, Idle
<1>4. LockHoldersAgree'
  BY DEF LockHoldersAgree, TypeOK, Locked, Idle
<1> QED BY <1>1, <1>2, <1>3, <1>4

\* Taking the lock reads the status as it is; nobody else holds it.
LEMMA LockingKeepsPayments == ASSUME PaymentsInv, NEW d \in Deliveries, LockOrder(d) PROVE PaymentsInv'
<1> USE DEF LockOrder, selling
<1>0. request[d] # Idle /\ request[d].event \in StripeEvents /\ request[d].event \in events
  BY RequestShapes DEF Idle, EventsAreTrue
<1>1. TypeOK'
  BY <1>0 DEF TypeOK, Requests, StripeEvents
<1>2. NewOrdersAreNew' /\ LedgerAgrees'
  BY DEF NewOrdersAreNew, LedgerAgrees
<1>3. EventsAreTrue'
  BY <1>0 DEF EventsAreTrue, TypeOK, Locked, Idle
<1>4. LockHoldersAgree'
  <2>1. Locked(d)' /\ request'[d].event = request[d].event /\ request'[d].status = status[request[d].event.order]
    BY DEF TypeOK, Locked
  <2>2. ASSUME NEW c \in Deliveries, c # d, Locked(c)'
        PROVE  /\ request'[c] = request[c] /\ Locked(c)
               /\ request[c].event.order # request[d].event.order
    BY <2>2 DEF OrderUnlocked, TypeOK, Locked
  <2> QED BY <2>1, <2>2 DEF LockHoldersAgree, Locked
<1> QED BY <1>1, <1>2, <1>3, <1>4

\* The holder of the lock credits an order that it knows to be unpaid, which
\* nobody else can be about to credit.
LEMMA CommitKeepsPayments == ASSUME PaymentsInv, NEW d \in Deliveries, CommitPayment(d) PROVE PaymentsInv'
<1> USE DEF CommitPayment, Answered
<1> DEFINE e == request[d].event
           o == e.order
<1>0. /\ e \in StripeEvents /\ e \in events /\ e.payment_status = "paid" /\ o \in Orders
      /\ request[d].status = status[o] /\ Locked(d) /\ payment[o] = "paid" /\ checkout[o] = "shown"
  BY RequestShapes DEF Idle, EventsAreTrue, LockHoldersAgree, Locked, StripeEvents
<1>1. TypeOK'
  BY <1>0 DEF TypeOK, Requests, StripeEvents
<1>2. NewOrdersAreNew'
  BY <1>0 DEF NewOrdersAreNew, TypeOK
<1>3. EventsAreTrue'
  BY <1>0 DEF EventsAreTrue, TypeOK, Locked, Idle
<1>4. LockHoldersAgree'
  <2>1. ASSUME NEW c \in Deliveries, Locked(c)'
        PROVE  c # d /\ request'[c] = request[c] /\ Locked(c) /\ request[c].event.order # o
    BY <1>0, <2>1 DEF LockHoldersAgree, TypeOK, Locked
  <2>2. ASSUME NEW c \in Deliveries, Locked(c)'
        PROVE  request'[c].status = status'[request'[c].event.order]
    <3>1. request[c].event \in StripeEvents
      BY <2>1, <2>2, RequestShapes DEF Locked, Idle
    <3>2. status'[request[c].event.order] = status[request[c].event.order]
      BY <3>1, <2>1, <2>2 DEF TypeOK, StripeEvents
    <3> QED BY <3>2, <2>1, <2>2 DEF LockHoldersAgree
  <2>3. ASSUME NEW b \in Deliveries, NEW c \in Deliveries, Locked(b)', Locked(c)',
               request'[b].event.order = request'[c].event.order
        PROVE  b = c
    BY <2>1, <2>3 DEF LockHoldersAgree
  <2> QED BY <2>2, <2>3 DEF LockHoldersAgree, Locked
<1>5. LedgerAgrees'
  BY <1>0 DEF LedgerAgrees, TypeOK, Fresh
<1> QED BY <1>1, <1>2, <1>3, <1>4, <1>5

\* A transaction that fails leaves only its request undone.
LEMMA FailureKeepsPayments == ASSUME PaymentsInv, NEW d \in Deliveries, PaymentFails(d) PROVE PaymentsInv'
<1> USE DEF PaymentFails, RecordedAfterFailure, Fault, selling
<1>1. TypeOK'
  BY DEF TypeOK, Requests
<1>2. NewOrdersAreNew' /\ LedgerAgrees'
  BY DEF NewOrdersAreNew, LedgerAgrees
<1>3. EventsAreTrue'
  BY DEF EventsAreTrue, TypeOK, Locked, Idle
<1>4. LockHoldersAgree'
  BY DEF LockHoldersAgree, TypeOK, Locked, Idle
<1> QED BY <1>1, <1>2, <1>3, <1>4

LEMMA PaymentsStep == PaymentsInv /\ [Next]_vars => PaymentsInv'
<1> SUFFICES ASSUME PaymentsInv, [Next]_vars PROVE PaymentsInv'
  OBVIOUS
<1>1. CASE UNCHANGED vars
  BY <1>1 DEF vars, TypeOK, NewOrdersAreNew, LockHoldersAgree, EventsAreTrue, LedgerAgrees, Locked
<1>2. CASE \E o \in Orders : InsertOrder(o) \/ CreateSession(o) \/ StoreSession(o) \/ CheckoutBreaks(o)
  BY <1>2, CheckoutKeepsPayments
<1>3. CASE \E o \in Orders : PayNow(o) \/ PayLater(o) \/ MoneyArrives(o)
  BY <1>3, PayingKeepsPayments
<1>4. CASE \E d \in Deliveries :
             (\E e \in events : Deliver(d, e)) \/ IgnoreUnpaid(d) \/ AnswerArrives(d) \/ AnswerIsLost(d)
  BY <1>4, DeliveryKeepsPayments
<1>5. CASE \E d \in Deliveries : LockOrder(d)
  BY <1>5, LockingKeepsPayments
<1>6. CASE \E d \in Deliveries : CommitPayment(d)
  BY <1>6, CommitKeepsPayments
<1>7. CASE \E d \in Deliveries : PaymentFails(d)
  BY <1>7, FailureKeepsPayments
<1> QED BY <1>1, <1>2, <1>3, <1>4, <1>5, <1>6, <1>7 DEF Next

-------------------------------------------------------------------------------
(* The composition: a part takes its own step, or its variables stay.       *)

HIDE DEF PaymentsInv

LEMMA SchedulerTakesItsSteps == [ServerNext]_<<part, vars, schedulerVars, conversationVars>> => [S!Next]_(S!vars)
BY DEF ServerNext, schedulerVars, S!vars

LEMMA PaymentsTakeTheirSteps == [ServerNext]_<<part, vars, schedulerVars, conversationVars>> => [Next]_vars
BY DEF ServerNext

\* The rows and the loops hold values of their types (autopilots, FireDue).
THEOREM SchedulerTypeCorrect == ServerSpec => []S!TypeOK
<1>1. S!Init => S!TypeOK /\ EditsAreCounted
  BY SchedulerInit, ServerConstants DEF SInv
<1>2. S!TypeOK /\ EditsAreCounted /\ [S!Next]_(S!vars) => S!TypeOK' /\ EditsAreCounted'
  BY SchedulerTypes, ServerConstants
<1>3. ServerInit => S!Init
  BY DEF ServerInit
<1> QED
  BY <1>1, <1>2, <1>3, SchedulerTakesItsSteps, PTL DEF ServerSpec

\* While no routine is worked on twice at a time, what the loops do is timely.
LEMMA AlwaysTimely == ServerSpec /\ []RowsAreNotShared => []SInv
<1>1. S!Init => SInv
  BY SchedulerInit, ServerConstants
<1>2. SInv /\ RowsAreNotShared /\ [S!Next]_(S!vars) => SInv'
  BY SchedulerStep, ServerConstants
<1>3. ServerInit => S!Init
  BY DEF ServerInit
<1> QED
  BY <1>1, <1>2, <1>3, SchedulerTakesItsSteps, PTL DEF ServerSpec

\* With any number of replicas: unless two of them are at work on one routine at
\* the same time, occurrences missed while the loops were down or slow, or the
\* routine paused, make one run and no burst, and no occurrence makes two, whatever
\* edits, failures and crashes come between (RunDue's claim and write-back).
THEOREM OnlySharedRowsFireTwice ==
    ServerSpec /\ []RowsAreNotShared => [](NoBurst /\ S!FiresOnce)
<1>1. ASSUME SInv PROVE NoBurst /\ S!FiresOnce
  <2>1. NoBurst
    BY <1>1 DEF SInv, Timely, NoBurst
  <2>2. S!FiresOnce
    <3> SUFFICES ASSUME NEW r \in Routines, NEW i \in DOMAIN fired[r], NEW j \in DOMAIN fired[r],
                        S!Successive(r, i, j)
                 PROVE  fired[r][i].due # fired[r][j].due
      BY DEF S!FiresOnce
    <3>1. fired[r][j].due > fired[r][i].at /\ fired[r][i].due <= fired[r][i].at
      BY <1>1 DEF SInv, Timely, RunsAreRecorded, S!NoBurst
    <3>2. {fired[r][i].due, fired[r][i].at, fired[r][j].due} \subseteq Nat
      BY <1>1, EntryTypes DEF SInv
    <3> QED
      BY <3>1, <3>2
  <2> QED
    BY <2>1, <2>2
<1> QED
  BY <1>1, AlwaysTimely, PTL

\* However many deliveries of its events race, fail or are repeated, an order is
\* credited once, only when it was paid for, and then says "paid" (stripeWebhook).
THEOREM CreditedOnce == ServerSpec => []OrderCreditedOnce
<1>1. ServerInit => PaymentsInv
  BY PaymentsInit DEF ServerInit
<1>2. PaymentsInv /\ [Next]_vars => PaymentsInv'
  BY PaymentsStep
<1>3. PaymentsInv => OrderCreditedOnce
  BY DEF PaymentsInv, OrderCreditedOnce, LedgerAgrees, TypeOK
<1> QED
  BY <1>1, <1>2, <1>3, PaymentsTakeTheirSteps, PTL DEF ServerSpec
===============================================================================
