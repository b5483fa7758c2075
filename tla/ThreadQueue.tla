---------------------------- MODULE ThreadQueue ----------------------------
(***************************************************************************)
(* The conversation page: the thread of an issue and the member's private  *)
(* chats, with one composer that sends, queues, steers, answers and edits  *)
(* (logic/base16.js and flow18.js with the markup of the two pages).       *)
(*                                                                         *)
(* This is the workspace's own logic, which holds conversations in memory; *)
(* the adapter that sends them to the server is LiveSync and Composer.  A  *)
(* section of the markup is an operator: the set of controls it offers.    *)
(* A callback with no delay runs in a step of its own, after any others    *)
(* that were set before it, and the member may do something first.         *)
(***************************************************************************)
EXTENDS Integers, Sequences, FiniteSets, SequencesExt

CONSTANTS
  Chats,       \* private chats that may be created
  Questions,   \* how many questions the issue asks
  Short,       \* texts of fewer than eight characters
  None,
  MaxTexts,    \* bound: texts the member types
  MaxSteps     \* bound: edits, replies, moves, forks and changes of status

Texts == 1 .. MaxTexts
Blank == 0
Canned == MaxTexts + 1   \* a quotation, a suggestion, "Review the attached files."
Plan == MaxTexts + 2     \* the command /plan
Values == Blank .. Plan

Statuses == {"asks", "incoming", "running", "paused", "review", "done"}
Phases == {"empty", "working", "credits", "paused", "done"}

ThreadQueueConstants ==
  /\ None \notin Chats /\ {"issue", "new"} \cap Chats = {}
  /\ {Questions, MaxTexts, MaxSteps} \subseteq Nat
  /\ Short \subseteq Texts

VARIABLES
  page,      \* the conversation shown and all a member can change in it
  timer,     \* the chat the answering timer was set for
  stopped,   \* history: chats stopped and not started again
  sent,      \* history: texts that reached a thread, an answer or the queue
  taken,     \* history: texts the member then took back
  soon,      \* the callbacks with no delay, in the order they were set
  missed,    \* history: texts steered when no conversation was open
  left       \* bounds

vars == <<page, timer, stopped, sent, taken, soon, missed, left>>

-----------------------------------------------------------------------------
(* What a page shows.                                                       *)

Places == {"issue"} \cup Chats
OnIssue(p) == p.open = "issue"
Exists(p, c) == p.chat[c] # "absent"

Mine(t) == [who |-> "member", text |-> t]
Operator == [who |-> "operator", text |-> Blank]
Empty == [text |-> Blank, files |-> FALSE]

Held(q) == {q[n].text : n \in 1 .. Len(q)}

(* running12: the turn that a message would have to wait for. *)
Running(p) == IF OnIssue(p) THEN p.status = "running" ELSE p.open \in Chats /\ p.chat[p.open] = "working"

Asking(p) == ~p.resolved /\ Len(p.answers) < Questions

Init ==
  /\ \E s \in {"asks", "running"} :
       page = [open |-> "issue", status |-> s, resolved |-> (s = "running"), answers |-> <<>>,
               chat |-> [c \in Chats |-> "absent"], phase |-> "empty",
               msgs |-> [c \in Places |-> <<>>], field |-> Empty,
               queue |-> [c \in Places |-> <<>>],
               at |-> 0, edit |-> Blank, reply |-> FALSE, replies |-> {}, plan |-> {},
               dialog |-> FALSE]
  /\ timer = None /\ stopped = {} /\ sent = {} /\ taken = {} /\ soon = <<>> /\ missed = {}
  /\ left = [texts |-> MaxTexts, steps |-> MaxSteps]

-----------------------------------------------------------------------------
(* The markup of an issue.                                                  *)

Queue == IF page.open = "new" THEN <<>> ELSE page.queue[page.open]
Msgs == IF page.open = "new" THEN <<>> ELSE page.msgs[page.open]
OwnMessages == {i \in 1 .. Len(Msgs) : Msgs[i].who = "member"}
FieldEmpty == page.field = Empty

MessageActions ==
  IF OnIssue(page)
  THEN UNION {{<<"editMessage", i>>, <<"fork", i>>} : i \in OwnMessages}
  ELSE {}

(* A scenario is a written thread that comes before the messages. *)
ScenarioActions == IF OnIssue(page) THEN {<<"quote">>, <<"openFork">>} ELSE {}

ForkDialog == {<<"confirmFork">>, <<"cancelFork">>}

EditForm ==
  IF OnIssue(page) /\ page.at # 0
  THEN {<<"editText">>, <<"editCancel">>}
         \cup (IF Running(page) THEN {<<"editQueue">>, <<"editSteer">>} ELSE {<<"editSend">>})
  ELSE {}

Decision ==
  IF OnIssue(page) /\ ~page.resolved
  THEN IF Asking(page) THEN {<<"option">>} ELSE {<<"editAnswers">>, <<"continue">>}
  ELSE {}

StageRows == IF OnIssue(page) THEN {<<"reply">>} ELSE {}

ThreadReply == IF OnIssue(page) /\ page.reply THEN {<<"cancelReply">>} ELSE {}

RowControls(q, i) ==
  (IF i > 1 THEN {<<"move", i, i - 1>>} ELSE {}) \cup (IF i < Len(q) THEN {<<"move", i, i + 1>>} ELSE {})
    \cup {<<"pullBack", i>>, <<"steerRow", i>>, <<"remove", i>>}

AllRows(q) == UNION {RowControls(q, i) : i \in 1 .. Len(q)}

QueueControls(q) == AllRows(q) \cup (IF Len(q) > 1 THEN {<<"clearQueue">>} ELSE {})

ThreadQueueRows == IF OnIssue(page) THEN QueueControls(Queue) ELSE {}

FieldControls ==
  {<<"type">>, <<"attach">>, <<"send">>} \cup (IF page.field.files THEN {<<"detach">>} ELSE {})

ThreadForm == IF OnIssue(page) THEN FieldControls ELSE {}

PlanBar == IF OnIssue(page) /\ page.open \in page.plan THEN {<<"build">>} ELSE {}

ThreadStop ==
  IF OnIssue(page) /\ Running(page)
  THEN {<<"stop">>} \cup (IF FieldEmpty THEN {} ELSE {<<"steer">>})
  ELSE {}

ThreadSend == IF OnIssue(page) THEN {<<"dictate">>} \cup (IF FieldEmpty THEN {} ELSE {<<"send">>}) ELSE {}

(* The status of the issue is chosen in the pane on the right. *)
StatusMenu == IF OnIssue(page) THEN {<<"status", s>> : s \in {"running", "review", "done"}} ELSE {}

-----------------------------------------------------------------------------
(* The markup of a chat.                                                    *)

OnChat == ~OnIssue(page)

ChatMessages ==
  IF page.open \in Chats
  THEN {<<"editPrompt", i>> : i \in OwnMessages}
         \cup {<<"fork", i>> : i \in OwnMessages}
         \cup (IF OwnMessages = 1 .. Len(Msgs) THEN {} ELSE {<<"quote">>})
  ELSE {}

ChatPaused == IF page.open \in Chats /\ page.phase = "paused" THEN {<<"resume">>} ELSE {}

ChatQueueRows == IF OnChat THEN QueueControls(Queue) ELSE {}

ChatForm == IF OnChat THEN FieldControls ELSE {}

ChatPlanBar == IF OnChat /\ page.open \in page.plan THEN {<<"build">>} ELSE {}

ChatStop ==
  IF OnChat /\ Running(page)
  THEN {<<"stop">>} \cup (IF FieldEmpty THEN {} ELSE {<<"steer">>})
  ELSE {}

ChatSend == IF OnChat THEN {<<"dictate">>} \cup (IF FieldEmpty THEN {} ELSE {<<"send">>}) ELSE {}

Welcome == IF page.open = "new" THEN {<<"suggest">>} ELSE {}

Conversations ==
  {<<"openIssue">>, <<"newChat">>} \cup {<<"openChat", c>> : c \in {c \in Chats : Exists(page, c)}}

Offered ==
  IF page.dialog THEN ForkDialog ELSE
  UNION {MessageActions, ScenarioActions, EditForm, Decision, StageRows, ThreadReply, ThreadQueueRows, ThreadForm, PlanBar,
         ThreadStop, ThreadSend, StatusMenu, ChatMessages, ChatPaused, ChatQueueRows, ChatForm, ChatPlanBar,
         ChatStop, ChatSend, Welcome, Conversations}

-----------------------------------------------------------------------------
(* What Send does: the pages it may lead to, and the chat it starts.        *)

Said(p, c, ms) == [p EXCEPT !.msgs[c] = @ \o ms]
Text(p) == p.field.text

ReplySent(p) == {[p EXCEPT !.replies = @ \cup {Text(p)}, !.reply = FALSE, !.field.text = Blank]}

Command(p) == {[p EXCEPT !.plan = @ \cup {p.open}, !.field.text = Blank]}

Queued(p) == {[p EXCEPT !.queue[p.open] = Append(@, p.field), !.field = Empty]}

(* A short answer is refused, and the field is cleared all the same. *)
OnThread(p, t) ==
  IF Asking(p)
  THEN {[p EXCEPT !.answers = IF t \in Short THEN @ ELSE Append(@, t), !.field = Empty]}
  ELSE {[Said(p, "issue", <<Mine(t), Operator>>) EXCEPT !.field = Empty]}

Into(p) == IF p.open = "new" THEN {c \in Chats : ~Exists(p, c)} ELSE {p.open}

Posted(p, t, c, s) == [Said(p, c, <<Mine(t)>>) EXCEPT !.open = c, !.chat[c] = s, !.phase = s, !.field = Empty]

(* sendWith(): refused in silence while the page's phase is "working";       *)
(* blocked funding opens a dialog and keeps the text.  A full workspace and  *)
(* missing credit hold the turn back alike: "credits".                       *)
OnPrivate(p, t) ==
  LET kept == [p EXCEPT !.field = [text |-> t, files |-> FALSE]]
  IN IF p.phase = "working" THEN {kept}
     ELSE {kept} \cup {Posted(p, t, c, s) : c \in Into(p), s \in {"working", "credits"}}

Plain(p) ==
  IF p.field = Empty THEN {p}
  ELSE LET t == IF Text(p) = Blank THEN Canned ELSE Text(p)
       IN IF OnIssue(p) THEN OnThread(p, t) ELSE OnPrivate(p, t)

(* In plan mode the text is planned about, and files wait for another send. *)
(* A new chat is created as usual and paused, its page stays "working".      *)
Planned(p) ==
  IF p.open # "new"
  THEN {[Said(p, p.open, <<Mine(Text(p)), Operator>>) EXCEPT !.field.text = Blank]}
  ELSE {IF q.open = "new" THEN [q EXCEPT !.field.text = Blank]
        ELSE [q EXCEPT !.chat[q.open] = "paused", !.field.text = Blank] : q \in Plain(p)}

Sent(p) ==
  IF p.reply /\ Text(p) # Blank THEN ReplySent(p)
  ELSE IF Text(p) = Plan THEN Command(p)
  ELSE IF Running(p) /\ Text(p) # Blank THEN Queued(p)
  ELSE IF p.open \in p.plan /\ Text(p) # Blank THEN Planned(p)
  ELSE Plain(p)

(* The texts a page keeps for others or for later. *)
HeldIn(f) == UNION {Held(f[c]) : c \in Places}

Accepted(p) == (HeldIn(p.msgs) \cup HeldIn(p.queue) \cup ToSet(p.answers) \cup p.replies) \cap Texts

Goes(p) == page' = p /\ sent' = sent \cup Accepted(p)

(* A chat that was created or answered anew gets the timer; one that was     *)
(* paused by the plan mode loses it.                                         *)
TimerAfter(p) ==
  IF p.open \in Chats /\ p.chat[p.open] = "working" /\ page.chat[p.open] # "working" THEN p.open
  ELSE IF p.open # page.open THEN None ELSE timer

Bounded == UNCHANGED left
Spend == left.steps > 0 /\ left' = [left EXCEPT !.steps = @ - 1]

Submit ==
  \E p \in Sent(page) :
    Goes(p) /\ timer' = TimerAfter(p)
    /\ stopped' = IF p.open \in Chats /\ p.chat[p.open] = "working" THEN stopped \ {p.open} ELSE stopped

AtOnce == UNCHANGED <<soon, missed>>

Send(c) ==
  /\ c[1] = "send"
  /\ Submit
  /\ UNCHANGED taken /\ AtOnce /\ Bounded

-----------------------------------------------------------------------------
(* The field.                                                               *)

Quietly == UNCHANGED <<timer, stopped, taken>> /\ AtOnce

Type(c) ==
  /\ c[1] = "type"
  /\ \/ /\ page.field.text = Blank /\ left.texts > 0
        /\ Goes([page EXCEPT !.field.text = MaxTexts + 1 - left.texts])
        /\ left' = [left EXCEPT !.texts = @ - 1]
     \/ /\ page.field.text = Blank /\ page.open \notin page.plan /\ Spend
        /\ Goes([page EXCEPT !.field.text = Plan])
     \/ /\ page.field.text # Blank
        /\ Goes([page EXCEPT !.field.text = Blank]) /\ Bounded
  /\ Quietly

Files(c) ==
  /\ c[1] \in {"attach", "detach"}
  /\ Spend
  /\ Goes([page EXCEPT !.field.files = (c[1] = "attach")])
  /\ Quietly

(* What was dictated is added to what was typed. *)
Dictate(c) ==
  /\ c[1] = "dictate"
  /\ page.field.text = Blank /\ Spend
  /\ Goes([page EXCEPT !.field.text = Canned])
  /\ Quietly

(* A quotation and a suggestion replace what was typed. *)
Fill(c) ==
  /\ c[1] \in {"quote", "suggest"}
  /\ page.field.text # Canned /\ Spend
  /\ Goes([page EXCEPT !.field.text = Canned])
  /\ Quietly

Reply(c) ==
  /\ c[1] \in {"reply", "cancelReply"}
  /\ IF c[1] = "reply" THEN Spend ELSE Bounded
  /\ Goes([page EXCEPT !.reply = (c[1] = "reply")])
  /\ Quietly

Build(c) ==
  /\ c[1] = "build"
  /\ Goes([page EXCEPT !.plan = @ \ {page.open}])
  /\ Quietly /\ Bounded

-----------------------------------------------------------------------------
(* The queue and steering.                                                  *)

Without(q, i) == RemoveAt(q, i)

Swapped(q, i, j) == [q EXCEPT ![i] = q[j], ![j] = q[i]]

Move(c) ==
  /\ c[1] = "move"
  /\ Spend
  /\ Goes([page EXCEPT !.queue[page.open] = Swapped(@, c[2], c[3])])
  /\ Quietly

(* What the member takes out of the queue again. *)
Takes(ts) == taken' = taken \cup ts

Unqueue(c) ==
  /\ c[1] \in {"remove", "clearQueue"}
  /\ Takes(IF c[1] = "remove" THEN {Queue[c[2]].text} ELSE Held(Queue))
  /\ Goes([page EXCEPT !.queue[page.open] = IF c[1] = "remove" THEN Without(@, c[2]) ELSE <<>>])
  /\ UNCHANGED <<timer, stopped>> /\ AtOnce /\ Bounded

(* The row goes back to the field, over what is in it. *)
PullBack(c) ==
  /\ c[1] = "pullBack"
  /\ Takes({Queue[c[2]].text})
  /\ Goes([page EXCEPT !.queue[page.open] = Without(@, c[2]), !.field = Queue[c[2]]])
  /\ UNCHANGED <<timer, stopped>> /\ AtOnce /\ Bounded

(* steer18(): appended at once, and the field is cleared, whatever is in it. *)
Steered(p, t) == [Said(p, p.open, <<Mine(t)>>) EXCEPT !.field.text = Blank]

Later(w, t) == soon' = Append(soon, [what |-> w, text |-> t])

(* A fault for the runs to find: the row is removed and nothing is steered.  *)
SteerRow_Lost(c) ==
  /\ c[1] = "steerRow"
  /\ Goes([page EXCEPT !.queue[page.open] = Without(@, c[2])])
  /\ Quietly /\ Bounded

(* The row leaves the queue at once, and its text is steered from a timer.   *)
SteerRow(c) ==
  /\ c[1] = "steerRow"
  /\ Goes([page EXCEPT !.queue[page.open] = Without(@, c[2])])
  /\ Later("steer", Queue[c[2]].text)
  /\ UNCHANGED <<timer, stopped, taken, missed>> /\ Bounded

Steer(c) ==
  /\ c[1] = "steer"
  /\ page.field.text # Blank
  /\ Goes(Steered(page, page.field.text))
  /\ Quietly /\ Bounded

-----------------------------------------------------------------------------
(* Editing a message of the thread.                                         *)

EditMessage(c) ==
  /\ c[1] = "editMessage"
  /\ Spend
  /\ Goes([page EXCEPT !.at = c[2], !.edit = Msgs[c[2]].text])
  /\ Quietly

EditText(c) ==
  /\ c[1] = "editText"
  /\ left.texts > 0 /\ left' = [left EXCEPT !.texts = @ - 1]
  /\ Goes([page EXCEPT !.edit = MaxTexts + 1 - left.texts])
  /\ Quietly

NoEdit(p) == [p EXCEPT !.at = 0, !.edit = Blank]

EditCancel(c) ==
  /\ c[1] = "editCancel"
  /\ Goes(NoEdit(page))
  /\ Quietly /\ Bounded

EditQueue(c) ==
  /\ c[1] = "editQueue"
  /\ page.edit # Blank
  /\ Goes(NoEdit([page EXCEPT !.queue["issue"] = Append(@, [text |-> page.edit, files |-> FALSE])]))
  /\ Quietly /\ Bounded

EditSteer(c) ==
  /\ c[1] = "editSteer"
  /\ Goes(NoEdit(IF page.edit = Blank THEN page ELSE Steered(page, page.edit)))
  /\ Quietly /\ Bounded

Kept(i) == SubSeq(Msgs, 1, i - 1)

(* editSend18(): the thread is cut before the message at once.  One timer    *)
(* puts the new text in the field of the conversation that is open then, and *)
(* a second sends what the field of the open conversation holds.             *)
EditSend(c) ==
  /\ c[1] = "editSend"
  /\ page.edit # Blank
  /\ Takes(Held(SubSeq(Msgs, page.at, Len(Msgs))))
  /\ Goes(NoEdit([page EXCEPT !.msgs["issue"] = Kept(page.at)]))
  /\ Later("fill", page.edit)
  /\ UNCHANGED <<timer, stopped, missed>> /\ Bounded

(* editPrompt12(), in a chat: the edited text takes the message's place and  *)
(* what followed gives way to a note of the Operator.                        *)
EditPrompt(c) ==
  /\ c[1] = "editPrompt"
  /\ left.texts > 0 /\ left' = [left EXCEPT !.texts = @ - 1]
  /\ Takes(Held(SubSeq(Msgs, c[2], Len(Msgs))))
  /\ Goes([page EXCEPT !.msgs[page.open] = Kept(c[2]) \o <<Mine(MaxTexts + 1 - left.texts), Operator>>,
                       !.chat[page.open] = "paused"])
  /\ UNCHANGED <<timer, stopped>> /\ AtOnce

-----------------------------------------------------------------------------
(* Decisions and status of the issue.                                       *)

PickOption(c) ==
  /\ c[1] = "option"
  /\ Goes([page EXCEPT !.answers = Append(@, Canned)])
  /\ Quietly /\ Bounded

EditAnswers(c) ==
  /\ c[1] = "editAnswers"
  /\ Spend
  /\ Takes(ToSet(page.answers))
  /\ Goes([page EXCEPT !.answers = <<>>])
  /\ UNCHANGED <<timer, stopped>> /\ AtOnce

(* Funding, credit and the issue's limit may refuse; a full workspace queues. *)
(* The answers stay with the resolved decision and are told in one message.   *)
ContinueDecision(c) ==
  /\ c[1] = "continue"
  /\ \E s \in {"running", "incoming"} :
       Goes([Said(page, "issue", <<Mine(Blank), Operator>>) EXCEPT !.resolved = TRUE, !.status = s])
  /\ Quietly /\ Bounded

ChangeStatus(c) ==
  /\ c[1] = "status"
  /\ c[2] # page.status /\ Spend
  /\ Goes([page EXCEPT !.status = c[2], !.resolved = @ \/ c[2] = "done"])
  /\ Quietly

-----------------------------------------------------------------------------
(* Turns of a chat.                                                         *)

(* A fault for the runs to find: the timer goes on after Stop. *)
TimerAfterStop_Runs == timer

TimerAfterStop == IF page.open \in Chats THEN None ELSE timer

(* stopRun12(): a chat is paused, the phase of the page stays "working".     *)
Stop(c) ==
  /\ c[1] = "stop"
  /\ Goes(IF OnIssue(page) THEN [page EXCEPT !.status = "paused"]
          ELSE [page EXCEPT !.chat[page.open] = "paused"])
  /\ timer' = TimerAfterStop
  /\ stopped' = IF page.open \in Chats THEN stopped \cup {page.open} ELSE stopped
  /\ UNCHANGED taken /\ AtOnce /\ Bounded

Resume(c) ==
  /\ c[1] = "resume"
  /\ Goes([page EXCEPT !.phase = "working"])
  /\ timer' = page.open
  /\ stopped' = stopped \ {page.open}
  /\ UNCHANGED taken /\ AtOnce /\ Bounded

(* finishChat(): the answer is given only on the page of the chat the timer  *)
(* was set for; otherwise the timer is spent and the chat stays as it is.    *)
TimerFires ==
  /\ timer # None
  /\ timer' = None
  /\ IF page.open = timer /\ page.phase = "working"
     THEN \/ Goes([Said(page, timer, <<Operator>>) EXCEPT !.chat[timer] = "done", !.phase = "done"])
          \/ Goes([page EXCEPT !.phase = "paused"])
     ELSE UNCHANGED <<page, sent>>
  /\ UNCHANGED <<stopped, taken, left>> /\ AtOnce

(* steer18() from its timer returns when no conversation is open by then.    *)
SteersLate(t) ==
  /\ IF page.open = "new"
     THEN missed' = missed \cup {t} /\ UNCHANGED <<page, sent>>
     ELSE Goes(Steered(page, t)) /\ UNCHANGED missed
  /\ UNCHANGED <<timer, stopped>>

SoonRuns ==
  /\ soon # <<>>
  /\ LET n == Head(soon)
     IN \/ n.what = "steer" /\ SteersLate(n.text) /\ soon' = Tail(soon)
        \/ /\ n.what = "fill"
           /\ Goes([page EXCEPT !.field.text = n.text])
           /\ soon' = Append(Tail(soon), [what |-> "send", text |-> n.text])
           /\ UNCHANGED <<timer, stopped, missed>>
        \/ n.what = "send" /\ Submit /\ soon' = Tail(soon) /\ UNCHANGED missed
  /\ UNCHANGED <<taken, left>>

-----------------------------------------------------------------------------
(* Opening conversations clears the field.                                  *)

Fresh(p) == [NoEdit(p) EXCEPT !.field = Empty, !.reply = FALSE]

OpenIssue(c) ==
  /\ c[1] = "openIssue"
  /\ Goes([Fresh(page) EXCEPT !.open = "issue"])
  /\ Quietly /\ Bounded

Loaded(p, c) == [Fresh(p) EXCEPT !.open = c, !.phase = p.chat[c]]

OpenChat(c) ==
  /\ c[1] = "openChat"
  /\ Goes(Loaded(page, c[2]))
  /\ Quietly /\ Bounded

NewChat(c) ==
  /\ c[1] = "newChat"
  /\ \E d \in Chats : ~Exists(page, d)
  /\ Goes([Fresh(page) EXCEPT !.open = "new", !.phase = "empty"])
  /\ Quietly /\ Bounded

(* A fork is a paused chat of its own with a copy of the messages so far.   *)
Fork(c) ==
  /\ c[1] = "fork"
  /\ Spend
  /\ \E d \in Chats :
       /\ ~Exists(page, d)
       /\ Goes(Loaded([page EXCEPT !.chat[d] = "paused", !.msgs[d] = SubSeq(Msgs, 1, c[2])], d))
  /\ Quietly

(* Forking a scenario is confirmed in a dialog, and the chat counts as done.  *)
OpenFork(c) ==
  /\ c[1] = "openFork"
  /\ Spend
  /\ Goes([page EXCEPT !.dialog = TRUE])
  /\ Quietly

CancelFork(c) ==
  /\ c[1] = "cancelFork"
  /\ Goes([page EXCEPT !.dialog = FALSE])
  /\ Quietly /\ Bounded

ConfirmFork(c) ==
  /\ c[1] = "confirmFork"
  /\ \E d \in Chats :
       /\ ~Exists(page, d)
       /\ Goes(Loaded([page EXCEPT !.chat[d] = "done", !.msgs[d] = <<Operator>>, !.dialog = FALSE], d))
  /\ Quietly /\ Bounded

Act(c) ==
  \/ Send(c) \/ Type(c) \/ Files(c) \/ Dictate(c) \/ Fill(c) \/ Reply(c) \/ Build(c)
  \/ Move(c) \/ Unqueue(c) \/ PullBack(c) \/ SteerRow(c) \/ Steer(c)
  \/ EditMessage(c) \/ EditText(c) \/ EditCancel(c) \/ EditQueue(c) \/ EditSteer(c) \/ EditSend(c)
  \/ EditPrompt(c) \/ PickOption(c) \/ EditAnswers(c) \/ ContinueDecision(c) \/ ChangeStatus(c)
  \/ Stop(c) \/ Resume(c) \/ OpenIssue(c) \/ OpenChat(c) \/ NewChat(c) \/ Fork(c)
  \/ OpenFork(c) \/ CancelFork(c) \/ ConfirmFork(c)

Next == (\E c \in Offered : Act(c)) \/ TimerFires \/ SoonRuns

(* A browser runs its timers; members do what they like. *)
Spec == Init /\ [][Next]_vars /\ WF_vars(TimerFires) /\ WF_vars(SoonRuns)

-----------------------------------------------------------------------------
(* Every part of the page has its values, and a queue belongs to a           *)
(* conversation that exists.                                                 *)
TypeOK ==
  /\ page.open \in Places \cup {"new"} /\ page.status \in Statuses /\ page.phase \in Phases
  /\ Len(page.answers) <= Questions
  /\ page.field.text \in Values /\ page.edit \in Values
  /\ page.at \in 0 .. Len(page.msgs["issue"])
  /\ \A c \in Chats : page.chat[c] = "absent" => page.msgs[c] = <<>> /\ page.queue[c] = <<>>
  /\ timer \in Chats \cup {None}
  /\ (sent \cup taken \cup missed \cup Held(soon)) \subseteq Values

(* The texts whose rows have left a queue to be steered from a timer.        *)
Underway == {soon[n].text : n \in {n \in 1 .. Len(soon) : soon[n].what = "steer"}}

(* A text that was sent, queued or given as an answer stays somewhere until  *)
(* the member takes it back: out of the queue, by editing a message before   *)
(* it or by clearing the answers.  The one exception is a row steered while  *)
(* its member opens a new chat (flow18.js steer18, its timer in queueRows18, *)
(* editSend18 and the queue's rows).                                         *)
SentTextsAreKept == sent \subseteq Accepted(page) \cup taken \cup Underway \cup missed

(* What the page says of steering, "Sent now. The current turn continues     *)
(* with your note.", is true of every row that is steered.  It is not: the   *)
(* timer may find no conversation open (flow18.js steer18, queueRows18).     *)
SteeredTextsLand == missed = {}

(* After Stop nothing is answered until the member resumes or writes again,  *)
(* although the page keeps the phase "working" that lets the timer answer    *)
(* (base16.js stopRun12 and finishChat).                                     *)
StoppedStaysStopped ==
  [][\A c \in stopped : page.chat[c] = "paused" /\ page'.chat[c] = "done" => c \notin stopped']_vars

(* What the page says of a queued message: "Queued. It goes out when the     *)
(* current turn finishes." (flow18.js editQueue18, queueHint18).             *)
QueuedGoesOut ==
  \A c \in Chats : \A t \in Texts :
    t \in Held(page.queue[c]) /\ page.chat[c] = "done" ~> t \notin Held(page.queue[c])
=============================================================================
