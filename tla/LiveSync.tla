------------------------------ MODULE LiveSync ------------------------------
(***************************************************************************)
(* How a browser page follows the workspace on the server:                 *)
(* apps/web/features/workspace/live/use-live-workspace.ts and the socket   *)
(* of packages/api/src/client.ts.                                          *)
(*                                                                         *)
(* The page copies two kinds of rows.  The inventory (issues, routines,    *)
(* members, skills ...) is fetched by hydrate() only; the messages and     *)
(* runs of the open conversation are fetched by hydrate() and by           *)
(* refreshActiveWork(), which run at the same time and share one state     *)
(* object.  Rows are abstracted to version numbers: what is on the server, *)
(* what a response carries, what the page shows.  A request has three      *)
(* steps of its own (sent, answered by the server, its continuation run in *)
(* the page), so that anything can happen between two of them.             *)
(***************************************************************************)
EXTENDS Integers, Sequences

CONSTANTS
  Convs,       \* conversations of the workspace
  None,        \* no conversation: the new-chat screen
  Routes,      \* what the address of the page may name when it is loaded
  MaxVersion,  \* bound on the changes of the inventory and of a conversation
  MaxChanges,  \* bound on all changes together
  MaxOpens,    \* bound on how often the member opens a conversation
  MaxFaults    \* bound on the drops of the socket and the requests that fail

ASSUME LiveSyncConstants ==
  /\ None \notin Convs
  /\ Routes \subseteq Convs \cup {None}
  /\ MaxVersion \in Nat /\ MaxChanges \in Nat /\ MaxOpens \in Nat /\ MaxFaults \in Nat

VARIABLES
  server,   \* [inv, work]: versions of the rows in the database
  page,     \* what the member sees
  hyd,      \* the hydration in flight and what was asked for meanwhile
  act,      \* the refresh of the active work in flight
  cache,    \* the inventory promise kept for navigation
  boot,     \* the response that the boot path hands to the first hydration
  link,     \* the socket, the events on it, and the debounce timer
  asked,    \* ghost: the newest inventory a full refresh was asked for
  opened,   \* ghost: the conversation opened last, and its version then
  budget    \* what the bounds leave

vars == <<server, page, hyd, act, cache, boot, link, asked, opened, budget>>

Version == 0 .. MaxVersion
NoVersion == -1
Subject == Convs \cup {None}

Max2(a, b) == IF a > b THEN a ELSE b

-----------------------------------------------------------------------------
Idle == [at |-> "idle", reuse |-> FALSE, subject |-> None,
         inv |-> NoVersion, work |-> NoVersion, chats |-> [c \in Convs |-> 0]]

NoRefresh == [at |-> "idle", subject |-> None, work |-> NoVersion, chats |-> [c \in Convs |-> 0],
              again |-> FALSE]

(* The state in which the boot path calls hydrate(): the page shows the      *)
(* conversation its address names, from one response, or the new-chat screen *)
Init ==
  \E route \in Routes, snapshot \in {0, NoVersion} :
    /\ server = [inv |-> 0, work |-> [c \in Convs |-> 0]]
    /\ page = [inv |-> 0, work |-> [c \in Convs |-> 0], active |-> route,
               hydrated |-> FALSE, error |-> FALSE]
    /\ hyd = [job |-> [Idle EXCEPT !.at = "inventory"], again |-> FALSE, full |-> FALSE]
    /\ act = NoRefresh
    /\ cache = [inv |-> NoVersion, fresh |-> FALSE]
    /\ boot = [route |-> route, detail |-> IF route = None THEN NoVersion ELSE 0, inv |-> snapshot]
    /\ link = [up |-> FALSE, wanted |-> FALSE, before |-> FALSE, wire |-> <<>>, timer |-> "off"]
    /\ asked = 0
    /\ opened = [chat |-> route, work |-> 0]
    /\ budget = [changes |-> MaxChanges, opens |-> MaxOpens, faults |-> MaxFaults]

-----------------------------------------------------------------------------
(* The server.                                                              *)

Publish(kind) == IF link.up THEN Append(link.wire, kind) ELSE link.wire

CountChange ==
  /\ budget.changes > 0
  /\ budget' = [budget EXCEPT !.changes = @ - 1]

InventoryChanges ==
  /\ server.inv < MaxVersion
  /\ server' = [server EXCEPT !.inv = @ + 1]
  /\ link' = [link EXCEPT !.wire = Publish("other")]
  /\ CountChange
  /\ UNCHANGED <<page, hyd, act, cache, boot, asked, opened>>

WorkProgresses(c) ==
  /\ server.work[c] < MaxVersion
  /\ server' = [server EXCEPT !.work[c] = @ + 1]
  /\ link' = [link EXCEPT !.wire = Publish("work")]
  /\ CountChange
  /\ UNCHANGED <<page, hyd, act, cache, boot, asked, opened>>

-----------------------------------------------------------------------------
(* hydrate().  HydrateState(reuse) is hyd after the call.                    *)

Fresh(reuse) == reuse /\ cache.inv # NoVersion /\ cache.fresh

(* Faults for the runs to find: the kind of a call made meanwhile is         *)
(* forgotten; the call itself is.                                            *)
HydrateState_Forgets(h, reuse) ==
  IF h.job.at # "idle"
  THEN [h EXCEPT !.again = TRUE]
  ELSE [h EXCEPT !.job = [Idle EXCEPT !.at = "inventory", !.reuse = reuse]]

HydrateState_Drops(h, reuse) ==
  IF h.job.at # "idle" THEN h
  ELSE [h EXCEPT !.job = [Idle EXCEPT !.at = "inventory", !.reuse = reuse]]

HydrateState(h, reuse) ==
  IF h.job.at # "idle"
  THEN [h EXCEPT !.again = TRUE, !.full = @ \/ ~reuse]
  ELSE [h EXCEPT !.job = [Idle EXCEPT !.at = "inventory", !.reuse = reuse]]

Owed(reuse) == IF reuse THEN asked ELSE Max2(asked, server.inv)

Settle(h) ==
  LET done == [h EXCEPT !.job = Idle] IN
  IF h.again
  THEN HydrateState([done EXCEPT !.again = FALSE, !.full = FALSE], ~h.full)
  ELSE done

(* The server answers the inventory requests, or the page takes the boot     *)
(* snapshot (once) or the cached promise (navigation only).                  *)
InventoryAnswered_KeepsCache ==
  /\ hyd.job.at = "inventory"
  /\ LET v == IF Fresh(hyd.job.reuse) THEN cache.inv ELSE server.inv
     IN /\ hyd' = [hyd EXCEPT !.job.inv = v, !.job.at = "listed"]
        /\ cache' = IF cache.fresh THEN cache ELSE [inv |-> v, fresh |-> TRUE]
        /\ boot' = [boot EXCEPT !.inv = NoVersion]
  /\ UNCHANGED <<server, page, act, link, asked, budget, opened>>

InventoryAnswered ==
  /\ hyd.job.at = "inventory"
  /\ LET v == IF Fresh(hyd.job.reuse) THEN cache.inv
              ELSE IF boot.inv # NoVersion THEN boot.inv ELSE server.inv
     IN /\ hyd' = [hyd EXCEPT !.job.inv = v, !.job.at = "listed"]
        /\ cache' = [inv |-> v, fresh |-> TRUE]
        /\ boot' = [boot EXCEPT !.inv = NoVersion]
  /\ UNCHANGED <<server, page, act, link, asked, budget, opened>>

(* The continuation after the inventory: it copies the chats the page shows  *)
(* now, and asks for the open conversation.                                  *)
ListContinues ==
  /\ hyd.job.at = "listed"
  /\ LET taken == boot.detail # NoVersion /\ boot.route = page.active
         next == CASE page.active = None -> "ready"
                   [] taken              -> "ready"
                   [] OTHER              -> "detail"
     IN /\ hyd' = [hyd EXCEPT !.job.subject = page.active, !.job.chats = page.work,
                              !.job.work = IF taken THEN boot.detail ELSE NoVersion,
                              !.job.at = next]
        /\ boot' = [boot EXCEPT !.detail = NoVersion]
  /\ UNCHANGED <<server, page, act, cache, link, asked, budget, opened>>

DetailAnswered ==
  /\ hyd.job.at = "detail"
  /\ hyd' = [hyd EXCEPT !.job.work = server.work[hyd.job.subject], !.job.at = "ready"]
  /\ UNCHANGED <<server, page, act, cache, boot, link, asked, budget, opened>>

ShownAfter(job) ==
  IF job.subject = None THEN job.chats ELSE [job.chats EXCEPT ![job.subject] = job.work]

(* One setState with everything.  The first hydration also opens what the    *)
(* address names, refreshes it once more, and lets the boot path connect.    *)
HydrateApplies ==
  /\ hyd.job.at = "ready"
  /\ LET first == ~page.hydrated
         routed == first /\ boot.route # None
     IN /\ page' = [page EXCEPT !.inv = hyd.job.inv, !.work = ShownAfter(hyd.job),
                                !.active = IF routed THEN boot.route ELSE @,
                                !.hydrated = TRUE]
        /\ hyd' = Settle([hyd EXCEPT !.again = @ \/ routed])
        /\ link' = [link EXCEPT !.wanted = @ \/ (first /\ ~page.error)]
  /\ UNCHANGED <<server, act, cache, boot, asked, budget, opened>>

(* A request of the hydration fails: the page says so.  A first hydration    *)
(* that fails ends the boot path before it connects.                         *)
HydrateFails ==
  /\ hyd.job.at \in {"inventory", "detail"}
  /\ budget.faults > 0
  /\ budget' = [budget EXCEPT !.faults = @ - 1]
  /\ page' = [page EXCEPT !.error = TRUE]
  /\ cache' = IF hyd.job.at = "inventory" THEN [inv |-> NoVersion, fresh |-> FALSE] ELSE cache
  /\ boot' = [boot EXCEPT !.inv = NoVersion, !.detail = NoVersion]
  /\ hyd' = Settle(hyd)
  /\ UNCHANGED <<server, act, link, asked, opened>>

(* Sixty seconds pass: the cached inventory may not be reused any more.      *)
CacheExpires ==
  /\ cache.fresh
  /\ cache' = [cache EXCEPT !.fresh = FALSE]
  /\ UNCHANGED <<server, page, hyd, act, boot, link, asked, budget, opened>>

-----------------------------------------------------------------------------
(* refreshActiveWork(): the open conversation, and what is shown beside it    *)
(* (the dock's conversation, an issue), of which there may be something or    *)
(* nothing.  A call while one is in flight waits behind it.                   *)

ActState(a, beside) ==
  CASE a.at # "idle"       -> [a EXCEPT !.again = TRUE]
    [] page.active # None  -> [a EXCEPT !.at = "detail", !.subject = page.active]
    [] beside              -> [a EXCEPT !.at = "beside"]
    [] OTHER               -> a

\* The call is over, and the one that was made meanwhile begins.
ActEnds ==
  IF act.again THEN \E beside \in BOOLEAN : act' = ActState(NoRefresh, beside)
  ELSE act' = NoRefresh

ActAnswered ==
  /\ act.at = "detail"
  /\ act' = [act EXCEPT !.work = server.work[act.subject], !.at = "answered"]
  /\ UNCHANGED <<server, page, hyd, cache, boot, link, asked, budget, opened>>

(* The continuation copies the whole list of chats the page shows now, with   *)
(* the one that was fetched.  It is set at once if nothing else is asked for, *)
(* and otherwise after that has been answered, whatever is shown by then.     *)
ActContinues ==
  /\ act.at = "answered"
  /\ LET list == [page.work EXCEPT ![act.subject] = act.work] IN
     \/ /\ act' = [act EXCEPT !.at = "beside", !.work = NoVersion, !.chats = list]
        /\ UNCHANGED page
     \/ /\ page' = [page EXCEPT !.work = list]
        /\ ActEnds
  /\ UNCHANGED <<server, hyd, cache, boot, link, asked, budget, opened>>

ActApplies ==
  /\ act.at = "beside"
  /\ page' = [page EXCEPT !.work = IF act.subject = None THEN @ ELSE act.chats]
  /\ ActEnds
  /\ UNCHANGED <<server, hyd, cache, boot, link, asked, budget, opened>>

ActFails ==
  /\ act.at \in {"detail", "beside"}
  /\ budget.faults > 0
  /\ budget' = [budget EXCEPT !.faults = @ - 1]
  /\ page' = [page EXCEPT !.error = TRUE]
  /\ ActEnds
  /\ UNCHANGED <<server, hyd, cache, boot, link, asked, opened>>

-----------------------------------------------------------------------------
(* The socket.                                                              *)

SocketOpens ==
  /\ link.wanted /\ ~link.up
  /\ link' = [link EXCEPT !.up = TRUE, !.before = TRUE]
  /\ IF link.before
     THEN /\ hyd' = HydrateState(hyd, FALSE)
          /\ asked' = Owed(FALSE)
     ELSE UNCHANGED <<hyd, asked>>
  /\ UNCHANGED <<server, page, act, cache, boot, budget, opened>>

SocketCloses ==
  /\ link.up /\ budget.faults > 0
  /\ budget' = [budget EXCEPT !.faults = @ - 1]
  /\ link' = [link EXCEPT !.up = FALSE, !.wire = <<>>]
  /\ UNCHANGED <<server, page, hyd, act, cache, boot, asked, opened>>

(* One timer for all events: an event takes the place of the one that waits. *)
EventArrives ==
  /\ link.up /\ link.wire # <<>>
  /\ link' = [link EXCEPT !.wire = Tail(@), !.timer = Head(link.wire)]
  /\ UNCHANGED <<server, page, hyd, act, cache, boot, asked, budget, opened>>

TimerFires ==
  /\ link.timer # "off"
  /\ link' = [link EXCEPT !.timer = "off"]
  /\ IF link.timer = "work"
     THEN /\ \E beside \in BOOLEAN : act' = ActState(act, beside)
          /\ UNCHANGED <<hyd, asked>>
     ELSE /\ hyd' = HydrateState(hyd, FALSE)
          /\ asked' = Owed(FALSE)
          /\ UNCHANGED act
  /\ UNCHANGED <<server, page, cache, boot, budget, opened>>

-----------------------------------------------------------------------------
(* The member.                                                              *)

OpenChat(c) ==
  /\ budget.opens > 0 /\ page.active # c
  /\ budget' = [budget EXCEPT !.opens = @ - 1]
  /\ page' = [page EXCEPT !.active = c]
  /\ hyd' = HydrateState(hyd, TRUE)
  /\ opened' = [chat |-> c, work |-> server.work[c]]
  /\ UNCHANGED <<server, act, cache, boot, link, asked>>

NewChat ==
  /\ budget.opens > 0 /\ page.active # None
  /\ budget' = [budget EXCEPT !.opens = @ - 1]
  /\ page' = [page EXCEPT !.active = None]
  /\ UNCHANGED <<server, hyd, act, cache, boot, link, asked, opened>>

(* write(): the change is made and answered, then everything is refreshed.   *)
MemberWrites ==
  /\ server.inv < MaxVersion
  /\ server' = [server EXCEPT !.inv = @ + 1]
  /\ link' = [link EXCEPT !.wire = Publish("other")]
  /\ hyd' = HydrateState(hyd, FALSE)
  /\ asked' = Max2(asked, server.inv + 1)
  /\ CountChange
  /\ UNCHANGED <<page, act, cache, boot, opened>>

-----------------------------------------------------------------------------
Next ==
  \/ InventoryChanges \/ \E c \in Convs : WorkProgresses(c)
  \/ InventoryAnswered \/ ListContinues \/ DetailAnswered \/ HydrateApplies \/ HydrateFails
  \/ CacheExpires
  \/ ActAnswered \/ ActContinues \/ ActApplies \/ ActFails
  \/ SocketOpens \/ SocketCloses \/ EventArrives \/ TimerFires
  \/ \E c \in Convs : OpenChat(c)
  \/ NewChat \/ MemberWrites

(* Requests are answered or fail, continuations and timers run, a socket     *)
(* that is down is retried; nobody owes the page another change.             *)
Fairness ==
  /\ WF_vars(InventoryAnswered) /\ WF_vars(ListContinues) /\ WF_vars(DetailAnswered)
  /\ WF_vars(HydrateApplies) /\ WF_vars(ActAnswered) /\ WF_vars(ActContinues)
  /\ WF_vars(ActApplies) /\ WF_vars(SocketOpens) /\ WF_vars(EventArrives) /\ WF_vars(TimerFires)

Spec == Init /\ [][Next]_vars /\ Fairness

-----------------------------------------------------------------------------
Job == [at : {"idle", "inventory", "listed", "detail", "ready"}, reuse : BOOLEAN,
        subject : Subject, inv : Version \cup {NoVersion}, work : Version \cup {NoVersion},
        chats : [Convs -> Version]]

(* The shape of the state.  A call only waits (again) behind one in flight,   *)
(* and the kind of the waiting call is only kept while one waits.            *)
TypeOK ==
  /\ hyd.again => hyd.job.at # "idle"
  /\ hyd.full => hyd.again
  /\ act.again => act.at # "idle"
  /\ server \in [inv : Version, work : [Convs -> Version]]
  /\ page \in [inv : Version, work : [Convs -> Version], active : Subject,
               hydrated : BOOLEAN, error : BOOLEAN]
  /\ hyd \in [job : Job, again : BOOLEAN, full : BOOLEAN]
  /\ act \in [at : {"idle", "detail", "answered", "beside"}, subject : Subject,
              work : Version \cup {NoVersion}, chats : [Convs -> Version],
              again : BOOLEAN]
  /\ cache \in [inv : Version \cup {NoVersion}, fresh : BOOLEAN]
  /\ boot \in [route : Subject, detail : Version \cup {NoVersion}, inv : Version \cup {NoVersion}]
  /\ link \in [up : BOOLEAN, wanted : BOOLEAN, before : BOOLEAN,
               wire : Seq({"work", "other"}), timer : {"off", "work", "other"}]
  /\ asked \in Version
  /\ opened \in [chat : Subject, work : Version]
  /\ budget \in [changes : 0 .. MaxChanges, opens : 0 .. MaxOpens, faults : 0 .. MaxFaults]

(* The inventory on the screen never goes back to older rows, although a     *)
(* navigation may reuse a promise and the first hydration a boot snapshot.   *)
InventoryNeverGoesBack == [][page'.inv >= page.inv]_vars

(* Every call that asks for a full refresh (a write, a reconnect, an event's *)
(* timer) is answered by rows at least that new, or by an error, also when   *)
(* it arrives while another hydration is in flight.                          *)
FullRefreshServed ==
  \A v \in 1 .. MaxVersion : (asked >= v) ~> (page.inv >= v \/ page.error)

(* A conversation the member opens, and one that an event's timer stands     *)
(* for, comes to be shown at least as it was then, whatever other refreshes  *)
(* are in flight, unless the member leaves it or an error is shown.  This is  *)
(* of the moment its rows arrive: they need not stay (OpenChatNeverGoesBack). *)
ShowsOpened(c, v) == page.active # c \/ page.work[c] >= v \/ page.error

Fetching(c, v) == hyd.job.at # "idle" /\ opened = [chat |-> c, work |-> v]

OpenChatIsShown ==
  \A c \in Convs, v \in Version :
    /\ Fetching(c, v) ~> ShowsOpened(c, v)
    /\ (link.timer # "off" /\ page.active = c /\ server.work[c] = v) ~> ShowsOpened(c, v)

(* What is shown of the open conversation never goes back to older rows.  It  *)
(* does: two requests are answered in one order and applied in the other, and *)
(* a refresh sets the list it copied before the conversation was fetched.     *)
OpenChatNeverGoesBack ==
  [][\A c \in Convs : page.active = c /\ page'.active = c => page'.work[c] >= page.work[c]]_vars

(* "Realtime events [...] still refresh all of it" (use-live-workspace.ts):  *)
(* the inventory comes to be as new as when an event about it set the timer. *)
EventsRefreshAll ==
  \A v \in 1 .. MaxVersion :
    (link.timer = "other" /\ server.inv = v) ~> (page.inv >= v \/ page.error)
=============================================================================
