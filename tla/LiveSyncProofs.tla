---------------------------- MODULE LiveSyncProofs ----------------------------
(***************************************************************************)
(* The inventory a page shows never goes back, proved for any number of    *)
(* conversations, changes, navigations and faults.                         *)
(***************************************************************************)
EXTENDS LiveSync, TLAPS

\* The records the inventory travels through, with the fields they have.
IsPage(p) ==
  p = [inv |-> p.inv, work |-> p.work, active |-> p.active, hydrated |-> p.hydrated, error |-> p.error]

IsJob(j) ==
  j = [at |-> j.at, reuse |-> j.reuse, subject |-> j.subject, inv |-> j.inv, work |-> j.work,
       chats |-> j.chats]

IsHyd(h) == h = [job |-> h.job, again |-> h.again, full |-> h.full] /\ IsJob(h.job)

IsCache(c) == c = [inv |-> c.inv, fresh |-> c.fresh]

IsBoot(b) == b = [route |-> b.route, detail |-> b.detail, inv |-> b.inv]

IsServer(s) == s = [inv |-> s.inv, work |-> s.work]

Shapes == IsPage(page) /\ IsHyd(hyd) /\ IsCache(cache) /\ IsBoot(boot) /\ IsServer(server)

Carried(at) == at \in {"listed", "detail", "ready"}

\* Wherever a hydration may take its rows from, they are as new as the page's:
\* the server, the cached promise, the boot snapshot, and the rows in hand,
\* which are the ones the cache holds.
Newer(s, p, at, j, c, b) ==
  /\ s \in Version /\ p \in Version
  /\ p <= s
  /\ c = NoVersion \/ (c \in Version /\ p <= c /\ c <= s)
  /\ b = NoVersion \/ (b \in Version /\ p <= b /\ b <= s)
  /\ Carried(at) => c = j /\ c # NoVersion /\ b = NoVersion

RowsAreNewer ==
  Newer(server.inv, page.inv, hyd.job.at, hyd.job.inv, cache.inv, boot.inv)

IInv == Shapes /\ RowsAreNewer
-------------------------------------------------------------------------------
\* What EXCEPT does to the record of a hydration.
LEMMA NewJobField ==
  ASSUME NEW h, NEW j, IsHyd(h)
  PROVE  [h EXCEPT !.job = j] = [job |-> j, again |-> h.again, full |-> h.full]
BY DEF IsHyd

LEMMA NewFlags ==
  ASSUME NEW h, NEW a, NEW f, IsHyd(h)
  PROVE  [h EXCEPT !.again = a, !.full = f] = [job |-> h.job, again |-> a, full |-> f]
<1> DEFINE g == [h EXCEPT !.again = a]
<1>1. g = [job |-> h.job, again |-> a, full |-> h.full]
  BY DEF IsHyd
<1>2. [h EXCEPT !.again = a, !.full = f] = [g EXCEPT !.full = f]
  OBVIOUS
<1> HIDE DEF g
<1>3. [g EXCEPT !.full = f] = [job |-> h.job, again |-> a, full |-> f]
  BY <1>1
<1> QED
  BY <1>2, <1>3

LEMMA HydRecord ==
  ASSUME NEW j, NEW a, NEW f, IsJob(j)
  PROVE  /\ IsHyd([job |-> j, again |-> a, full |-> f])
         /\ [job |-> j, again |-> a, full |-> f].job = j
BY DEF IsHyd

LEMMA JobFields ==
  ASSUME NEW j, NEW b, NEW q, IsJob(j)
  PROVE  LET new == [j EXCEPT !.at = b, !.reuse = q] IN IsJob(new) /\ new.at = b
<1> DEFINE mid == [j EXCEPT !.at = b]
<1> DEFINE new == [j EXCEPT !.at = b, !.reuse = q]
<1>1. mid = [at |-> b, reuse |-> j.reuse, subject |-> j.subject, inv |-> j.inv, work |-> j.work,
             chats |-> j.chats]
  BY DEF IsJob
<1>2. new = [mid EXCEPT !.reuse = q]
  OBVIOUS
<1> HIDE DEF mid, new
<1>3. new = [at |-> b, reuse |-> q, subject |-> j.subject, inv |-> j.inv, work |-> j.work,
             chats |-> j.chats]
  BY <1>1, <1>2
<1>4. IsJob(new) /\ new.at = b
  BY <1>3 DEF IsJob
<1> QED
  BY <1>4 DEF new

\* A step of a hydration writes fields of its job; at and inv are followed.
LEMMA JobSteps ==
  ASSUME NEW h, NEW v, IsHyd(h)
  PROVE  /\ LET g == [h EXCEPT !.job.at = v]
            IN IsHyd(g) /\ g.job.at = v /\ g.job.inv = h.job.inv
         /\ LET g == [h EXCEPT !.job.inv = v]
            IN IsHyd(g) /\ g.job.inv = v
         /\ LET g == [h EXCEPT !.job.work = v] IN IsHyd(g) /\ g.job.inv = h.job.inv
         /\ LET g == [h EXCEPT !.job.chats = v] IN IsHyd(g) /\ g.job.inv = h.job.inv
         /\ LET g == [h EXCEPT !.job.subject = v] IN IsHyd(g) /\ g.job.inv = h.job.inv
<1>1. LET g == [h EXCEPT !.job.at = v]
      IN IsHyd(g) /\ g.job.at = v /\ g.job.inv = h.job.inv
  BY DEF IsHyd, IsJob
<1>2. LET g == [h EXCEPT !.job.inv = v] IN IsHyd(g) /\ g.job.inv = v
  BY DEF IsHyd, IsJob
<1>3. LET g == [h EXCEPT !.job.work = v] IN IsHyd(g) /\ g.job.inv = h.job.inv
  BY DEF IsHyd, IsJob
<1>4. LET g == [h EXCEPT !.job.chats = v] IN IsHyd(g) /\ g.job.inv = h.job.inv
  BY DEF IsHyd, IsJob
<1>5. LET g == [h EXCEPT !.job.subject = v] IN IsHyd(g) /\ g.job.inv = h.job.inv
  BY DEF IsHyd, IsJob
<1> QED
  BY <1>1, <1>2, <1>3, <1>4, <1>5

\* A call of hydrate() joins the one in flight or begins a new one: it never
\* touches rows that are on their way.
LEMMA CallsBeginEmptyHanded ==
  ASSUME NEW h, NEW reuse, IsHyd(h)
  PROVE  /\ IsHyd(HydrateState(h, reuse))
         /\ Carried(HydrateState(h, reuse).job.at) => HydrateState(h, reuse).job = h.job
<1>1. CASE h.job.at # "idle"
  <2> DEFINE joined == [job |-> h.job, again |-> TRUE, full |-> h.full \/ ~reuse]
  <2>1. HydrateState(h, reuse) = [h EXCEPT !.again = TRUE, !.full = h.full \/ ~reuse]
    BY <1>1, Zenon DEF HydrateState
  <2>2. HydrateState(h, reuse) = joined
    BY <2>1, NewFlags, Zenon
  <2>3. IsJob(h.job)
    BY DEF IsHyd
  <2>4. IsHyd(joined) /\ joined.job = h.job
    BY <2>3, HydRecord, Zenon
  <2> HIDE DEF joined
  <2> QED
    BY <2>2, <2>4, Zenon
<1>2. CASE h.job.at = "idle"
  <2> DEFINE new == [Idle EXCEPT !.at = "inventory", !.reuse = reuse]
             begun == [job |-> new, again |-> h.again, full |-> h.full]
  <2>1. HydrateState(h, reuse) = [h EXCEPT !.job = new]
    BY <1>2, Zenon DEF HydrateState
  <2>2. IsJob(new) /\ new.at = "inventory"
    <3>1. IsJob(Idle)
      BY DEF IsJob, Idle
    <3> QED
      BY <3>1, JobFields, Zenon
  <2> HIDE DEF new
  <2>3. HydrateState(h, reuse) = begun
    BY <2>1, NewJobField, Zenon
  <2>4. ~Carried("inventory")
    BY DEF Carried
  <2>5. IsHyd(begun) /\ begun.job = new
    BY <2>2, HydRecord, Zenon
  <2> HIDE DEF begun
  <2> QED
    BY <2>2, <2>3, <2>4, <2>5, Zenon
<1> QED
  BY <1>1, <1>2

\* A hydration that ends leaves nothing in hand, also when a call waited.
LEMMA SettledIsEmptyHanded ==
  ASSUME NEW h, IsHyd(h)
  PROVE  IsHyd(Settle(h)) /\ ~Carried(Settle(h).job.at)
<1> DEFINE done == [h EXCEPT !.job = Idle]
<1>1. done = [job |-> Idle, again |-> h.again, full |-> h.full]
  BY NewJobField
<1>2. IsJob(Idle) /\ Idle.at = "idle"
  BY DEF IsJob, Idle
<1>3. ~Carried("idle")
  BY DEF Carried
<1>4. CASE h.again
  <2> DEFINE clear == [done EXCEPT !.again = FALSE, !.full = FALSE]
  <2>1. Settle(h) = HydrateState(clear, ~h.full)
    BY <1>4, Zenon DEF Settle
  <2> HIDE DEF done
  <2>2. IsHyd(done)
    BY <1>1, <1>2, HydRecord, Zenon
  <2>3. clear = [job |-> done.job, again |-> FALSE, full |-> FALSE]
    BY <2>2, NewFlags
  <2>4. done.job = Idle
    BY <1>1, <1>2, HydRecord, Zenon
  <2> HIDE DEF clear
  <2>5. IsHyd(clear) /\ clear.job = Idle
    BY <2>3, <2>4, <1>2, HydRecord, Zenon
  <2>6. /\ IsHyd(HydrateState(clear, ~h.full))
        /\ Carried(HydrateState(clear, ~h.full).job.at) => HydrateState(clear, ~h.full).job = Idle
    BY <2>5, CallsBeginEmptyHanded, Zenon
  <2> QED
    BY <2>1, <2>6, <1>2, <1>3, Zenon
<1>5. CASE ~h.again
  <2>1. Settle(h) = done
    BY <1>5, Zenon DEF Settle
  <2> HIDE DEF done
  <2>2. IsHyd(done) /\ done.job = Idle
    BY <1>1, <1>2, HydRecord, Zenon
  <2> QED
    BY <2>1, <2>2, <1>2, <1>3, Zenon
<1> QED
  BY <1>4, <1>5
-------------------------------------------------------------------------------
\* The server may move on and calls may be made: what the page shows, the
\* cache and the snapshot hold, and a hydration carries is not touched.
LEMMA RowsStayNewer ==
  ASSUME RowsAreNewer,
         server'.inv \in Version, server.inv <= server'.inv,
         page'.inv = page.inv, cache'.inv = cache.inv, boot'.inv = boot.inv,
         Carried(hyd'.job.at) => hyd'.job = hyd.job
  PROVE  RowsAreNewer'
BY LiveSyncConstants DEF RowsAreNewer, Newer, Version, NoVersion

LEMMA InitIInv == Init => IInv
<1> SUFFICES ASSUME NEW route \in Routes, NEW snapshot \in {0, NoVersion},
                    server = [inv |-> 0, work |-> [c \in Convs |-> 0]],
                    page = [inv |-> 0, work |-> [c \in Convs |-> 0], active |-> route,
                            hydrated |-> FALSE, error |-> FALSE],
                    hyd = [job |-> [Idle EXCEPT !.at = "inventory"], again |-> FALSE, full |-> FALSE],
                    cache = [inv |-> NoVersion, fresh |-> FALSE],
                    boot = [route |-> route, detail |-> IF route = None THEN NoVersion ELSE 0,
                            inv |-> snapshot]
             PROVE  IInv
  BY Zenon DEF Init
<1>1. IsJob([Idle EXCEPT !.at = "inventory"]) /\ [Idle EXCEPT !.at = "inventory"].at = "inventory"
  <2>1. IsJob(Idle)
    BY DEF Idle, IsJob
  <2> QED
    BY <2>1 DEF IsJob
<1>2. IsHyd(hyd) /\ hyd.job = [Idle EXCEPT !.at = "inventory"]
  BY <1>1, HydRecord, Zenon
<1>3. IsPage(page) /\ page.inv = 0
  BY DEF IsPage
<1>4. IsCache(cache) /\ cache.inv = NoVersion
  BY DEF IsCache
<1>5. IsBoot(boot) /\ boot.inv = snapshot
  BY DEF IsBoot
<1>6. IsServer(server) /\ server.inv = 0
  BY DEF IsServer
<1>7. hyd.job.at = "inventory"
  BY <1>1, <1>2, Zenon
<1>8. RowsAreNewer
  BY <1>3, <1>4, <1>5, <1>6, <1>7, LiveSyncConstants
     DEF RowsAreNewer, Newer, Carried, Version, NoVersion
<1> QED
  BY <1>2, <1>3, <1>4, <1>5, <1>6, <1>8 DEF IInv, Shapes

\* Changes on the server.
LEMMA ServerKeepsIInv ==
  ASSUME IInv, InventoryChanges \/ MemberWrites \/ \E c \in Convs : WorkProgresses(c)
  PROVE  IInv' /\ page' = page
<1> USE DEF IInv, Shapes
<1>1. server.inv \in Version
  BY DEF RowsAreNewer, Newer
<1>2. CASE InventoryChanges
  <2>1. server' = [server EXCEPT !.inv = server.inv + 1] /\ server.inv < MaxVersion
    BY <1>2, Zenon DEF InventoryChanges
  <2>2. IsServer(server') /\ server'.inv = server.inv + 1
    BY <2>1 DEF IsServer
  <2>3. UNCHANGED <<page, hyd, cache, boot>>
    BY <1>2, Zenon DEF InventoryChanges
  <2>4. server'.inv \in Version /\ server.inv <= server'.inv
    BY <2>1, <2>2, <1>1, LiveSyncConstants DEF Version
  <2>5. RowsAreNewer'
    BY <2>3, <2>4, RowsStayNewer
  <2> QED
    BY <2>2, <2>3, <2>5
<1>3. CASE MemberWrites
  <2>1. server' = [server EXCEPT !.inv = server.inv + 1] /\ server.inv < MaxVersion
    BY <1>3, Zenon DEF MemberWrites
  <2>2. IsServer(server') /\ server'.inv = server.inv + 1
    BY <2>1 DEF IsServer
  <2>3. UNCHANGED <<page, cache, boot>> /\ hyd' = HydrateState(hyd, FALSE)
    BY <1>3, Zenon DEF MemberWrites
  <2>4. server'.inv \in Version /\ server.inv <= server'.inv
    BY <2>1, <2>2, <1>1, LiveSyncConstants DEF Version
  <2>5. IsHyd(hyd') /\ (Carried(hyd'.job.at) => hyd'.job = hyd.job)
    BY <2>3, CallsBeginEmptyHanded, Zenon
  <2>6. RowsAreNewer'
    BY <2>3, <2>4, <2>5, RowsStayNewer
  <2> QED
    BY <2>2, <2>3, <2>5, <2>6
<1>4. ASSUME NEW c \in Convs, WorkProgresses(c) PROVE IInv' /\ page' = page
  <2>1. server' = [server EXCEPT !.work[c] = server.work[c] + 1]
    BY <1>4, Zenon DEF WorkProgresses
  <2>2. IsServer(server') /\ server'.inv = server.inv
    BY <2>1 DEF IsServer
  <2>3. UNCHANGED <<page, hyd, cache, boot>>
    BY <1>4, Zenon DEF WorkProgresses
  <2>4. server'.inv \in Version /\ server.inv <= server'.inv
    BY <2>2, <1>1, LiveSyncConstants DEF Version
  <2>5. RowsAreNewer'
    BY <2>3, <2>4, RowsStayNewer
  <2> QED
    BY <2>2, <2>3, <2>5
<1> QED
  BY <1>2, <1>3, <1>4

\* The steps of the socket and of the member that may call hydrate().
LEMMA CallsKeepIInv ==
  ASSUME IInv,
         SocketOpens \/ TimerFires \/ NewChat \/ \E c \in Convs : OpenChat(c)
  PROVE  IInv' /\ page'.inv = page.inv
<1> USE DEF IInv, Shapes
<1>1. UNCHANGED <<server, cache, boot>>
  BY Zenon DEF SocketOpens, TimerFires, NewChat, OpenChat
<1>2. hyd' = hyd \/ \E reuse \in BOOLEAN : hyd' = HydrateState(hyd, reuse)
  BY Zenon DEF SocketOpens, TimerFires, NewChat, OpenChat
<1>3. page' = page \/ \E s \in Subject : page' = [page EXCEPT !.active = s]
  BY Zenon DEF SocketOpens, TimerFires, NewChat, OpenChat, Subject
<1>4. IsHyd(hyd') /\ (Carried(hyd'.job.at) => hyd'.job = hyd.job)
  BY <1>2, CallsBeginEmptyHanded, Zenon
<1>5. IsPage(page') /\ page'.inv = page.inv
  BY <1>3 DEF IsPage
<1>6. server'.inv \in Version /\ server.inv <= server'.inv
  BY <1>1, LiveSyncConstants DEF RowsAreNewer, Newer, Version
<1>7. RowsAreNewer'
  BY <1>1, <1>4, <1>5, <1>6, RowsStayNewer
<1> QED
  BY <1>1, <1>4, <1>5, <1>7

\* The refresh of the active work writes no inventory; the rest is not about rows.
LEMMA OthersKeepIInv ==
  ASSUME IInv,
         ActAnswered \/ ActContinues \/ ActApplies \/ ActFails \/ SocketCloses \/ EventArrives \/ CacheExpires
           \/ UNCHANGED vars
  PROVE  IInv' /\ page'.inv = page.inv
<1> USE DEF IInv, Shapes
<1>1. UNCHANGED <<server, hyd, boot>>
  BY Zenon DEF ActAnswered, ActContinues, ActApplies, ActFails, SocketCloses, EventArrives,
              CacheExpires, vars
<1>2. cache' = cache \/ cache' = [cache EXCEPT !.fresh = FALSE]
  BY Zenon DEF ActAnswered, ActContinues, ActApplies, ActFails, SocketCloses, EventArrives,
              CacheExpires, vars
<1>3. page' = page \/ page' = [page EXCEPT !.error = TRUE]
        \/ \E list : page' = [page EXCEPT !.work = list]
  BY Zenon DEF ActAnswered, ActContinues, ActApplies, ActFails, SocketCloses, EventArrives,
              CacheExpires, vars
<1>4. IsCache(cache') /\ cache'.inv = cache.inv
  BY <1>2 DEF IsCache
<1>5. IsPage(page') /\ page'.inv = page.inv
  BY <1>3 DEF IsPage
<1>6. server'.inv \in Version /\ server.inv <= server'.inv
  BY <1>1, LiveSyncConstants DEF RowsAreNewer, Newer, Version
<1>7. RowsAreNewer'
  BY <1>1, <1>4, <1>5, <1>6, RowsStayNewer
<1> QED
  BY <1>1, <1>4, <1>5, <1>7

\* The inventory is answered: from the cache, the snapshot or the server.
LEMMA AnswerKeepsIInv ==
  ASSUME IInv, InventoryAnswered
  PROVE  IInv' /\ page' = page
<1> USE DEF IInv, Shapes
<1> DEFINE v == IF Fresh(hyd.job.reuse) THEN cache.inv
                ELSE IF boot.inv # NoVersion THEN boot.inv ELSE server.inv
<1>1. /\ hyd' = [hyd EXCEPT !.job.inv = v, !.job.at = "listed"]
      /\ cache' = [inv |-> v, fresh |-> TRUE]
      /\ boot' = [boot EXCEPT !.inv = NoVersion]
      /\ UNCHANGED <<server, page>>
  BY Zenon DEF InventoryAnswered
<1>2. v \in Version /\ page.inv <= v /\ v <= server.inv
  <2>1. Fresh(hyd.job.reuse) => cache.inv # NoVersion
    BY Zenon DEF Fresh
  <2>2. \/ v = cache.inv /\ cache.inv # NoVersion
        \/ v = boot.inv /\ boot.inv # NoVersion
        \/ v = server.inv
    BY <2>1, Zenon
  <2> QED
    BY <2>2, LiveSyncConstants DEF RowsAreNewer, Newer, Version
<1> HIDE DEF v
<1>3. IsHyd(hyd') /\ hyd'.job.at = "listed" /\ hyd'.job.inv = v
  <2> DEFINE g == [hyd EXCEPT !.job.inv = v]
  <2>1. hyd' = [g EXCEPT !.job.at = "listed"]
    BY <1>1
  <2>2. IsHyd(g) /\ g.job.inv = v
    BY JobSteps
  <2> HIDE DEF g
  <2> QED
    BY <2>1, <2>2, JobSteps
<1>4. IsCache(cache') /\ cache'.inv = v
  BY <1>1 DEF IsCache
<1>5. IsBoot(boot') /\ boot'.inv = NoVersion
  BY <1>1 DEF IsBoot
<1>6. RowsAreNewer'
  BY <1>1, <1>2, <1>3, <1>4, <1>5, LiveSyncConstants
     DEF RowsAreNewer, Newer, Carried, Version, NoVersion
<1> QED
  BY <1>1, <1>3, <1>4, <1>5, <1>6

\* The hydration goes on with the rows it has in hand.
LEMMA ContinuationKeepsIInv ==
  ASSUME IInv, ListContinues \/ DetailAnswered
  PROVE  IInv' /\ page' = page
<1> USE DEF IInv, Shapes
<1> SUFFICES /\ UNCHANGED <<server, page, cache>>
             /\ Carried(hyd.job.at)
             /\ IsHyd(hyd') /\ hyd'.job.inv = hyd.job.inv
             /\ IsBoot(boot') /\ boot'.inv = boot.inv
  BY DEF RowsAreNewer, Newer
<1>1. CASE ListContinues
  <2>1. UNCHANGED <<server, page, cache>> /\ hyd.job.at = "listed"
    BY <1>1, Zenon DEF ListContinues
  <2>2. boot' = [boot EXCEPT !.detail = NoVersion]
    BY <1>1, Zenon DEF ListContinues
  <2>3. \E w, at : hyd' = [hyd EXCEPT !.job.subject = page.active, !.job.chats = page.work,
                                      !.job.work = w, !.job.at = at]
    BY <1>1, Zenon DEF ListContinues
  <2>4. PICK w, at : hyd' = [hyd EXCEPT !.job.subject = page.active, !.job.chats = page.work,
                                        !.job.work = w, !.job.at = at]
    BY <2>3
  <2>5. IsHyd(hyd') /\ hyd'.job.inv = hyd.job.inv
    <3> DEFINE g1 == [hyd EXCEPT !.job.subject = page.active]
               g2 == [g1 EXCEPT !.job.chats = page.work]
               g3 == [g2 EXCEPT !.job.work = w]
    <3>1. hyd' = [g3 EXCEPT !.job.at = at]
      BY <2>4
    <3>2. IsHyd(g1) /\ g1.job.inv = hyd.job.inv
      BY JobSteps
    <3> HIDE DEF g1
    <3>3. IsHyd(g2) /\ g2.job.inv = hyd.job.inv
      BY <3>2, JobSteps
    <3> HIDE DEF g2
    <3>4. IsHyd(g3) /\ g3.job.inv = hyd.job.inv
      BY <3>3, JobSteps
    <3> HIDE DEF g3
    <3> QED
      BY <3>1, <3>4, JobSteps
  <2>6. IsBoot(boot') /\ boot'.inv = boot.inv
    BY <2>2 DEF IsBoot
  <2> QED
    BY <2>1, <2>5, <2>6 DEF Carried
<1>2. CASE DetailAnswered
  <2>1. /\ UNCHANGED <<server, page, cache, boot>> /\ hyd.job.at = "detail"
        /\ hyd' = [hyd EXCEPT !.job.work = server.work[hyd.job.subject], !.job.at = "ready"]
    BY <1>2, Zenon DEF DetailAnswered
  <2> DEFINE g == [hyd EXCEPT !.job.work = server.work[hyd.job.subject]]
  <2>2. hyd' = [g EXCEPT !.job.at = "ready"]
    BY <2>1
  <2>3. IsHyd(g) /\ g.job.inv = hyd.job.inv
    BY JobSteps
  <2> HIDE DEF g
  <2>4. IsHyd(hyd') /\ hyd'.job.inv = hyd.job.inv
    BY <2>2, <2>3, JobSteps
  <2> QED
    BY <2>1, <2>4 DEF Carried
<1> QED
  BY <1>1, <1>2

\* The rows in hand are shown, and are the ones the cache holds; or a request
\* failed, and nothing is.
LEMMA EndKeepsIInv ==
  ASSUME IInv, HydrateApplies \/ HydrateFails
  PROVE  IInv' /\ page'.inv >= page.inv
<1> USE DEF IInv, Shapes
<1>1. CASE HydrateApplies
  <2>1. /\ hyd.job.at = "ready" /\ UNCHANGED <<server, cache, boot>>
        /\ \E b : hyd' = Settle([hyd EXCEPT !.again = b])
        /\ \E shown, active :
             page' = [page EXCEPT !.inv = hyd.job.inv, !.work = shown, !.active = active, !.hydrated = TRUE]
    BY <1>1, Zenon DEF HydrateApplies
  <2>2. PICK b : hyd' = Settle([hyd EXCEPT !.again = b])
    BY <2>1
  <2>3. IsHyd([hyd EXCEPT !.again = b])
    BY DEF IsHyd
  <2>4. IsHyd(hyd') /\ ~Carried(hyd'.job.at)
    BY <2>2, <2>3, SettledIsEmptyHanded, Zenon
  <2>5. IsPage(page') /\ page'.inv = hyd.job.inv
    BY <2>1 DEF IsPage
  <2>6. /\ cache.inv = hyd.job.inv /\ cache.inv # NoVersion /\ boot.inv = NoVersion
        /\ page.inv <= cache.inv /\ cache.inv <= server.inv
        /\ page.inv \in Version /\ cache.inv \in Version
    BY <2>1 DEF RowsAreNewer, Newer, Carried
  <2>7. RowsAreNewer' /\ page'.inv >= page.inv
    BY <2>1, <2>4, <2>5, <2>6, LiveSyncConstants DEF RowsAreNewer, Newer, Version
  <2> QED
    BY <2>1, <2>4, <2>5, <2>7
<1>2. CASE HydrateFails
  <2>1. /\ hyd' = Settle(hyd) /\ UNCHANGED server
        /\ page' = [page EXCEPT !.error = TRUE]
        /\ cache' = cache \/ cache' = [inv |-> NoVersion, fresh |-> FALSE]
        /\ boot' = [boot EXCEPT !.inv = NoVersion, !.detail = NoVersion]
    BY <1>2, Zenon DEF HydrateFails
  <2>2. IsHyd(hyd') /\ ~Carried(hyd'.job.at)
    BY <2>1, SettledIsEmptyHanded, Zenon
  <2>3. IsPage(page') /\ page'.inv = page.inv
    BY <2>1 DEF IsPage
  <2>4. IsCache(cache') /\ cache'.inv \in {cache.inv, NoVersion}
    BY <2>1 DEF IsCache
  <2>5. IsBoot(boot') /\ boot'.inv = NoVersion
    BY <2>1 DEF IsBoot
  <2>6. RowsAreNewer' /\ page'.inv >= page.inv
    BY <2>1, <2>2, <2>3, <2>4, <2>5, LiveSyncConstants DEF RowsAreNewer, Newer, Version
  <2> QED
    BY <2>1, <2>2, <2>3, <2>4, <2>5, <2>6
<1> QED
  BY <1>1, <1>2

LEMMA NextIInv == IInv /\ [Next]_vars => IInv' /\ page'.inv >= page.inv
<1> SUFFICES ASSUME IInv, [Next]_vars PROVE IInv' /\ page'.inv >= page.inv
  OBVIOUS
<1>1. IInv' /\ (page'.inv = page.inv \/ page'.inv >= page.inv)
  BY ServerKeepsIInv, CallsKeepIInv, OthersKeepIInv, AnswerKeepsIInv, ContinuationKeepsIInv,
     EndKeepsIInv, Zenon DEF Next
<1>2. page.inv \in Int
  BY DEF IInv, RowsAreNewer, Newer, Version
<1> QED
  BY <1>1, <1>2
-------------------------------------------------------------------------------
THEOREM AlwaysIInv == Spec => []IInv
BY InitIInv, NextIInv, PTL DEF Spec

\* However refreshes, navigations, the boot snapshot, reconnects and failures
\* mix, the inventory on the screen is never replaced by an older one.
THEOREM PageNeverGoesBack == Spec => InventoryNeverGoesBack
<1>1. IInv /\ [Next]_vars => [page'.inv >= page.inv]_vars
  BY NextIInv
<1> QED
  BY <1>1, AlwaysIInv, PTL DEF Spec, InventoryNeverGoesBack
===============================================================================
