------------------------------ MODULE Composer ------------------------------
(***************************************************************************)
(* Writing and sending a message in the browser: send(), openChat(),       *)
(* openIssue() and the drafts of live/use-live-workspace.ts, the field of  *)
(* composer-textarea.tsx and the deferred rendering of lib/dc/logic.ts.    *)
(*                                                                         *)
(* The composer stands under a chat and under the thread of an issue.  A   *)
(* text is a number: each thing the member types is a new one, 0 is the    *)
(* empty text.  send() is a chain of requests; between two of them the     *)
(* member may type, attach, open another place or reload the page.         *)
(***************************************************************************)
EXTENDS Integers, Sequences, FiniteSets

CONSTANTS
  Chats,     \* conversations the workspace has at the start
  NewChats,  \* ids for the conversations that sending creates
  New,       \* no conversation: the new-chat screen
  Issues,    \* issues, each with a thread of comments
  Attachments, \* files the member may attach, each once
  MaxTyped,  \* bound on the texts typed
  MaxOpens,  \* bound on navigations and reloads
  MaxFaults  \* bound on the requests that fail

ComposerConstants ==
  /\ New \notin Chats \cup NewChats
  /\ Chats \cap NewChats = {}
  /\ Issues \cap (Chats \cup NewChats \cup {New}) = {}
  /\ MaxTyped \in Nat /\ MaxOpens \in Nat /\ MaxFaults \in Nat

VARIABLES
  server,   \* conversations that exist, the messages and comments each place was given
  page,     \* the logic's state: open chat, its draft, open thread (or New: the chat
            \* is on the screen), the draft in it, attachment rows, error
  stored,   \* the drafts in localStorage, one for each chat, New and each issue
  field,    \* the textarea: its own text and the draft it was last rendered with
  deferred, \* the store holds a change it has not rendered
  jobs,     \* the sends in flight (the guard allows one)
  typed,    \* texts typed so far
  budget

vars == <<server, page, stored, field, deferred, jobs, typed, budget>>

Ids == Chats \cup NewChats
Places == Ids \cup Issues
Keys == Places \cup {New}
Default == MaxTyped + 1          \* "Review the attached files."
Texts == 0 .. Default

Draft(c) == stored[c]

\* What the composer on the screen is bound to, and what it writes to.
OnScreen(p) == IF p.thread = New THEN p.draft ELSE p.note
Place == IF page.thread = New THEN page.active ELSE page.thread

Init ==
  /\ server = [convs |-> Chats, log |-> [c \in Places |-> <<>>]]
  /\ \E c \in Chats \cup {New}, i \in Issues \cup {New} :
       /\ i # New => c = New
       /\ page = [active |-> c, draft |-> 0, thread |-> i, note |-> 0, files |-> {}, error |-> FALSE]
  /\ stored = [c \in Keys |-> 0]
  /\ field = [text |-> 0, bound |-> 0]
  /\ deferred = FALSE
  /\ jobs = {}
  /\ typed = 0
  /\ budget = [opens |-> MaxOpens, faults |-> MaxFaults, files |-> Attachments]

-----------------------------------------------------------------------------
(* createStore(): notify() renders at once.  The textarea takes the draft it *)
(* is rendered with only when that differs from the one it saw before; a     *)
(* chat and a thread have a textarea each, which begins with the draft.      *)

Rendered(f, draft) == [text |-> IF draft # f.bound THEN draft ELSE f.text, bound |-> draft]

Drawn(f, p) ==
  IF (p.thread = New) = (page.thread = New) THEN Rendered(f, OnScreen(p))
  ELSE [text |-> OnScreen(p), bound |-> OnScreen(p)]

(* setState outside deferRender: the page changes and is rendered.           *)
Publish(p) ==
  /\ page' = p
  /\ field' = Drawn(field, p)
  /\ deferred' = FALSE

(* A click takes the focus from the field, and Enter is handled by it: both  *)
(* render what is deferred before the handler runs.                          *)
PublishAfterBlur(p) ==
  /\ page' = p
  /\ field' = Drawn(Rendered(field, OnScreen(page)), p)
  /\ deferred' = FALSE

(* flushRender(), after the quiet time or on blur. *)
Quiet ==
  /\ deferred
  /\ Publish(page)
  /\ UNCHANGED <<server, stored, jobs, typed, budget>>

-----------------------------------------------------------------------------
(* The member writes.  editComposer10() stores every change under the chat   *)
(* or issue that is on the screen; the first character and the last deletion *)
(* are rendered at once.                                                     *)

Written(t) == IF page.thread = New THEN [page EXCEPT !.draft = t] ELSE [page EXCEPT !.note = t]

(* A fault for the runs to find: every change waits for the quiet time.      *)
Edit_Waits(t) ==
  /\ page' = Written(t)
  /\ stored' = [stored EXCEPT ![Place] = t]
  /\ field' = [field EXCEPT !.text = t]
  /\ deferred' = TRUE

Edit(t) ==
  /\ page' = Written(t)
  /\ stored' = [stored EXCEPT ![Place] = t]
  /\ IF (field.text = 0) # (t = 0)
     THEN /\ field' = [text |-> t, bound |-> t]
          /\ deferred' = FALSE
     ELSE /\ field' = [field EXCEPT !.text = t]
          /\ deferred' = TRUE

Type ==
  /\ typed < MaxTyped
  /\ typed' = typed + 1
  /\ Edit(typed + 1)
  /\ UNCHANGED <<server, jobs, budget>>

Erase ==
  /\ field.text # 0
  /\ Edit(0)
  /\ UNCHANGED <<server, jobs, typed, budget>>

Attach(f) ==
  /\ f \in budget.files
  /\ budget' = [budget EXCEPT !.files = @ \ {f}]
  /\ PublishAfterBlur([page EXCEPT !.files = @ \cup {f}])
  /\ UNCHANGED <<server, stored, jobs, typed>>

Detach(f) ==
  /\ f \in page.files
  /\ PublishAfterBlur([page EXCEPT !.files = @ \ {f}])
  /\ \/ jobs' = {[j EXCEPT !.files = @ \ {f}] : j \in jobs}
     \/ (\A j \in jobs : j.at = "message") /\ UNCHANGED jobs    \* it is uploaded already
  /\ UNCHANGED <<server, stored, typed, budget>>

-----------------------------------------------------------------------------
(* The member moves.                                                        *)

CountOpen == budget.opens > 0 /\ budget' = [budget EXCEPT !.opens = @ - 1]

Opened(c) ==
  IF c \in Issues THEN [page EXCEPT !.thread = c, !.note = Draft(c)]
  ELSE [page EXCEPT !.thread = New, !.active = c, !.draft = Draft(c)]

(* openChat(), openIssue() and newChat() from a click.  The first two leave   *)
(* the files where they are; newChat() takes the rows off the page.          *)
Clicked(c) == IF c = New THEN [Opened(c) EXCEPT !.files = {}] ELSE Opened(c)

Open(c) ==
  /\ c # Place /\ CountOpen
  /\ PublishAfterBlur(Clicked(c))
  /\ UNCHANGED <<server, stored, jobs, typed>>

(* popRoute(): back and forward do not take the focus from the field.        *)
History(c) ==
  /\ c # Place /\ CountOpen
  /\ Publish(Opened(c))
  /\ UNCHANGED <<server, stored, jobs, typed>>

(* A reload of the page: the address names the chat or the issue, drafts     *)
(* come from localStorage, files and a send that waits are gone.             *)
Reload ==
  /\ CountOpen
  /\ LET chat == IF page.thread = New THEN page.active ELSE New
         note == IF page.thread = New THEN 0 ELSE Draft(page.thread)
     IN /\ page' = [active |-> chat, draft |-> Draft(chat), thread |-> page.thread, note |-> note,
                    files |-> {}, error |-> FALSE]
        /\ field' = [text |-> Draft(Place), bound |-> Draft(Place)]
  /\ deferred' = FALSE
  /\ jobs' = {}
  /\ UNCHANGED <<server, stored, typed>>

-----------------------------------------------------------------------------
(* send().  A job is the chain of requests of one call; the guard `sending`  *)
(* is set while there is one.                                                *)

Job(sent) ==
  [from |-> Place, to |-> Place, text |-> sent, files |-> page.files,
   at |-> IF Place = New THEN "create" ELSE "message"]

Starts ==
  /\ OnScreen(page) # 0 \/ page.files # {}
  /\ Place = New => NewChats \ server.convs # {}    \* bound: an id is left to create
  /\ jobs' = jobs \cup {Job(IF OnScreen(page) = 0 THEN Default ELSE OnScreen(page))}
  /\ PublishAfterBlur(page)
  /\ UNCHANGED <<server, stored, typed, budget>>

Send == jobs = {} /\ Starts

(* The new conversation opens as soon as it exists, wherever the member is.  *)
Created(j, c) ==
  /\ j.at = "create" /\ c \notin server.convs
  /\ server' = [server EXCEPT !.convs = @ \cup {c}]
  /\ jobs' = (jobs \ {j}) \cup {[j EXCEPT !.to = c, !.at = "message"]}
  /\ Publish([page EXCEPT !.active = c, !.thread = New])
  /\ UNCHANGED <<stored, typed, budget>>

Message(j) == [text |-> j.text, from |-> j.from, files |-> j.files]

(* A fault for the runs to find: the message goes where the member is when   *)
(* the uploads are done.                                                     *)
Delivered_Here(j) ==
  [server EXCEPT !.log[IF Place = New THEN j.to ELSE Place] = Append(@, Message(j))]

(* The queued files are uploaded one by one, and named by the message to a   *)
(* chat; a comment on an issue stands beside its files.                      *)
Delivered(j) == [server EXCEPT !.log[j.to] = Append(@, Message(j))]

(* The answer of the last request: the drafts of the chat that was sent to   *)
(* and of the chat that is open are cleared, and the chat's field and the    *)
(* files; of an issue, its draft, the thread's field and the files.          *)
Cleared(j) ==
  IF j.to \in Issues THEN [stored EXCEPT ![j.to] = 0]
  ELSE [stored EXCEPT ![page.active] = 0, ![j.to] = 0]

Emptied(j) ==
  IF j.to \in Issues THEN [page EXCEPT !.note = 0, !.files = {}]
  ELSE [page EXCEPT !.draft = 0, !.files = {}]

(* The guard stays set: send() goes on to refresh the page with hydrate().   *)
MessageAnswered(j) ==
  /\ j.at = "message"
  /\ server' = Delivered(j)
  /\ stored' = Cleared(j)
  /\ jobs' = (jobs \ {j}) \cup {[j EXCEPT !.at = "refresh"]}
  /\ Publish(Emptied(j))
  /\ UNCHANGED <<typed, budget>>

(* A fault for the runs to find: the guard stays set after a failure.        *)
Settled_Stuck(j) == IF jobs = {j} THEN {[j EXCEPT !.at = "stuck"]} ELSE jobs \ {j}

(* The finally block. *)
Settled(j) == jobs \ {j}

(* The refresh is done, or hydrate() returned at once because another one is *)
(* in flight.                                                                *)
Refreshed(j) ==
  /\ j.at = "refresh"
  /\ jobs' = Settled(j)
  /\ UNCHANGED <<server, page, stored, field, deferred, typed, budget>>

(* A request fails before the server has done it, or its answer is lost:     *)
(* either way the page shows an error and keeps draft and files.  The page   *)
(* shows one also when the message was sent and the refresh after it fails.  *)
SendFails(j) ==
  /\ j.at \in {"create", "message", "refresh"} /\ budget.faults > 0
  /\ budget' = [budget EXCEPT !.faults = @ - 1]
  /\ \/ UNCHANGED server
     \/ j.at = "message" /\ server' = Delivered(j)
     \/ /\ j.at = "create"
        /\ \E c \in NewChats \ server.convs : server' = [server EXCEPT !.convs = @ \cup {c}]
  /\ jobs' = Settled(j)
  /\ Publish([page EXCEPT !.error = TRUE])
  /\ UNCHANGED <<stored, typed>>

-----------------------------------------------------------------------------
Answers ==
  \/ \E j \in jobs, c \in NewChats : Created(j, c)
  \/ \E j \in jobs : MessageAnswered(j) \/ Refreshed(j) \/ SendFails(j)

Next ==
  \/ Quiet \/ Type \/ Erase
  \/ \E f \in Attachments : Attach(f) \/ Detach(f)
  \/ \E c \in Chats \cup Issues \cup {New} : Open(c) \/ History(c)
  \/ Reload \/ Send \/ Answers

(* The quiet timer fires and every request is answered or fails. *)
Fairness == WF_vars(Quiet) /\ WF_vars(Answers)

Spec == Init /\ [][Next]_vars /\ Fairness

-----------------------------------------------------------------------------
Jobs == [from : Keys, to : Keys, text : Texts, files : SUBSET Attachments,
         at : {"create", "message", "refresh"}]

(* The shape of the state: at most one send is in flight, and one that waits *)
(* for its message has a place to send it to.                                *)
TypeOK ==
  /\ jobs \subseteq Jobs /\ Cardinality(jobs) <= 1
  /\ \A j \in jobs : (j.at = "create") <=> (j.to = New)
  /\ server.convs \subseteq Ids
  /\ DOMAIN server.log = Places
  /\ page \in [active : Ids \cup {New}, draft : Texts, thread : Issues \cup {New}, note : Texts,
               files : SUBSET Attachments, error : BOOLEAN]
  /\ stored \in [Keys -> Texts]
  /\ field \in [text : Texts, bound : Texts]
  /\ deferred \in BOOLEAN

Messages(c) == {server.log[c][i] : i \in 1 .. Len(server.log[c])}

(* A message written in a conversation or on an issue is given to it, and    *)
(* one written on the new-chat screen to a conversation made for it,         *)
(* although the member may be elsewhere when the uploads are done.           *)
SentWhereWritten ==
  \A c \in Places : \A m \in Messages(c) : m.from = c \/ (m.from = New /\ c \in NewChats)

(* What the page is rendered with lags behind the draft while the member     *)
(* types, but never about whether there is one: the send button, which is    *)
(* drawn from it, is enabled exactly when a text can be sent.                *)
SendButtonIsRight == (field.bound = 0) <=> (OnScreen(page) = 0)

(* A send ends, whichever of its requests fails: the member can send again.  *)
SendEnds == (jobs # {}) ~> (jobs = {})

(* The test "keeps drafts isolated by workspace and conversation": a stored  *)
(* draft goes away only when the member erases it or a message that was      *)
(* written in that chat is sent.                                             *)
DraftsIsolated ==
  [][\A c \in Keys : stored[c] # 0 /\ stored'[c] = 0 =>
        (c = Place /\ field.text # 0 /\ jobs' = jobs) \/ \E j \in jobs : c \in {j.from, j.to}]_vars
=============================================================================
