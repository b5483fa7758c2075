-------------------------------- MODULE Dock --------------------------------
(***************************************************************************)
(* "Ask Operator", the conversation that floats beside every page, and the *)
(* marks both composers carry: files, plan mode, a goal and connected      *)
(* tools (logic/base16.js and v19.js with the markup of the dock and of    *)
(* the composers).                                                         *)
(*                                                                         *)
(* The dock keeps a slot for each member and answers with a timer.  Plan,  *)
(* goal and tools are kept by composer: the dock of a member, or the       *)
(* conversation that is open.  Position, size and wording are left out.    *)
(***************************************************************************)
EXTENDS Integers, Sequences, FiniteSets, SequencesExt

CONSTANTS
  Members,
  Convs,      \* conversations a member may have open
  None,
  MaxTexts,   \* bound: questions asked
  MaxMarks    \* bound: changes of files, plan, goal, tools and page

Texts == 1 .. MaxTexts
Blank == 0

DockConstants ==
  /\ Members # {} /\ Convs # {}
  /\ "dock" \notin Convs /\ None \notin Convs
  /\ {MaxTexts, MaxMarks} \subseteq Nat

VARIABLES
  member,   \* who is signed in
  conv,     \* the conversation that is open
  open,     \* the dock is open
  slot,     \* for each member what the dock keeps
  timer,    \* members whose answer is due
  popped,   \* texts taken from a queue, sent in 20 milliseconds
  marks,    \* composers with plan mode, with a goal and with a tool
  where,    \* plusWhere15: the composer whose menu was opened last
  goal,     \* goalEdit16: the composer whose goal is being typed
  picker,   \* fileTarget15: where the chosen files go
  files,    \* what is attached in the open conversation, by where it was asked for
  sent,     \* history: questions that were sent or queued
  taken,    \* history: questions the member gave up, by removing or by Stop
  left      \* bounds

vars == <<member, conv, open, slot, timer, popped, marks, where, goal, picker, files, sent, taken, left>>

-----------------------------------------------------------------------------
(* composerKey15() *)
KeyOf(w) == <<member, IF w = "dock" THEN "dock" ELSE conv>>
Keys == Members \X (Convs \cup {"dock"})

Slot == slot[member]
EmptySlot == [log |-> <<>>, draft |-> Blank, context |-> TRUE, attach |-> FALSE, running |-> FALSE, queue |-> <<>>]

Asked(t) == [mine |-> TRUE, text |-> t]
Reply == [mine |-> FALSE, text |-> Blank]

Init ==
  /\ member \in Members /\ conv \in Convs
  /\ open = FALSE
  /\ slot = [m \in Members |-> EmptySlot]
  /\ timer = {} /\ popped = <<>>
  /\ marks = [plan |-> {}, goals |-> {}, tools |-> {}]
  /\ where = "main" /\ goal = None /\ picker = None /\ files = {}
  /\ sent = {} /\ taken = {}
  /\ left = [texts |-> MaxTexts, marks |-> MaxMarks]

-----------------------------------------------------------------------------
(* The markup.  The chips of every composer show the composer whose menu    *)
(* was opened last.                                                         *)

Marked == KeyOf(where)

GoalChip ==
  IF goal = Marked THEN {<<"goalCommit">>, <<"goalEscape">>, <<"goalClear">>}
  ELSE IF Marked \in marks.goals THEN {<<"goalOpen">>, <<"goalClear">>} ELSE {}

PlanChip == IF Marked \in marks.plan THEN {<<"planClear">>} ELSE {}

(* The same chips beside a block of the thread, a preview, the composer and  *)
(* its foot; and in the pane on the right.                                   *)
BlockChips == GoalChip \cup PlanChip
PreviewChips == GoalChip \cup PlanChip
ThreadChips == GoalChip \cup PlanChip
ThreadFootChips == GoalChip \cup PlanChip
ChatPreviewChips == GoalChip \cup PlanChip
ChatChips == GoalChip \cup PlanChip
ChatFootChips == GoalChip \cup PlanChip
RunChips == GoalChip \cup PlanChip
ReviewChips == GoalChip \cup PlanChip
FileChips == GoalChip \cup PlanChip
SettingsChips == GoalChip \cup PlanChip
DockChips == IF open THEN GoalChip \cup PlanChip ELSE {}

ToolBar == IF KeyOf("main") \in marks.tools THEN {<<"tool", "main">>} ELSE {}
GoalBar == IF KeyOf("main") \in marks.goals THEN {<<"goalDialog">>} ELSE {}
ChatToolBar == ToolBar
ChatGoalBar == GoalBar

DockRows == IF open /\ \E n \in 1 .. Len(Slot.log) : ~Slot.log[n].mine THEN {<<"quote">>} ELSE {}

DockSuggestions == IF open /\ Slot.log = <<>> THEN {<<"ask">>} ELSE {}

DockQueue == IF open THEN {<<"unqueue", n>> : n \in 1 .. Len(Slot.queue)} ELSE {}

DockContext == IF open /\ ~Slot.context THEN {<<"context">>} ELSE {}

DockTools == IF open /\ KeyOf("dock") \in marks.tools THEN {<<"tool", "dock">>} ELSE {}

DockForm ==
  IF open
  THEN {<<"type">>} \cup (IF Slot.attach THEN {<<"detach">>} ELSE {})
         \cup (IF Slot.draft # Blank THEN {<<"send">>} ELSE {})
  ELSE {}

DockMenu == IF open THEN {<<"plus", "dock">>} ELSE {}

DockStop == IF open /\ Slot.running THEN {<<"stop">>} ELSE {}

DockHead == IF open THEN {<<"close">>} ELSE {<<"openDock">>}

(* plusMenu15(), for the composer it was opened from. *)
PlusMenu == {<<"files", where>>, <<"goalStart", where>>, <<"plan", where>>, <<"tool", where>>}

Page ==
  {<<"plus", "main">>} \cup {<<"member", m>> : m \in Members \ {member}} \cup {<<"go", c>> : c \in Convs \ {conv}}

Offered ==
  UNION {BlockChips, PreviewChips, ThreadChips, ThreadFootChips, ChatPreviewChips, ChatChips, ChatFootChips,
         RunChips, ReviewChips, FileChips, SettingsChips, DockChips, ToolBar, GoalBar, ChatToolBar, ChatGoalBar, DockRows,
         DockSuggestions, DockQueue, DockContext, DockTools, DockForm, DockMenu, DockStop, DockHead, PlusMenu,
         Page}

-----------------------------------------------------------------------------
(* Asking.                                                                  *)

Marking == UNCHANGED <<marks, where, goal, picker, files>>
Staying == UNCHANGED <<member, conv, open>>
Spend == left.marks > 0 /\ left' = [left EXCEPT !.marks = @ - 1]
NewText == MaxTexts + 1 - left.texts
SpendText == left.texts > 0 /\ left' = [left EXCEPT !.texts = @ - 1]

(* dockSendText15() *)
AskedOf(s, t) ==
  IF s.running THEN [s EXCEPT !.queue = Append(@, t), !.draft = Blank]
  ELSE [s EXCEPT !.log = Append(@, Asked(t)), !.draft = Blank, !.attach = FALSE, !.running = TRUE]

SendText(t) ==
  /\ slot' = [slot EXCEPT ![member] = AskedOf(@, t)]
  /\ timer' = timer \cup {member}
  /\ sent' = sent \cup {t}

Type(c) ==
  /\ c[1] = "type"
  /\ IF Slot.draft = Blank
     THEN SpendText /\ slot' = [slot EXCEPT ![member].draft = NewText]
     ELSE slot' = [slot EXCEPT ![member].draft = Blank] /\ UNCHANGED left
  /\ Staying /\ Marking /\ UNCHANGED <<timer, popped, sent, taken>>

Send(c) ==
  /\ c[1] = "send"
  /\ SendText(Slot.draft)
  /\ Staying /\ Marking /\ UNCHANGED <<popped, taken, left>>

Ask(c) ==
  /\ c[1] = "ask"
  /\ SpendText /\ SendText(NewText)
  /\ Staying /\ Marking /\ UNCHANGED <<popped, taken>>

(* Quoting an answer replaces the draft; the quotation is the member's text. *)
Quote(c) ==
  /\ c[1] = "quote"
  /\ SpendText
  /\ slot' = [slot EXCEPT ![member].draft = NewText]
  /\ Staying /\ Marking /\ UNCHANGED <<timer, popped, sent, taken>>

Unqueue(c) ==
  /\ c[1] = "unqueue"
  /\ taken' = taken \cup {Slot.queue[c[2]]}
  /\ slot' = [slot EXCEPT ![member].queue = RemoveAt(@, c[2])]
  /\ Staying /\ Marking /\ UNCHANGED <<timer, popped, sent, left>>

TimerAfterStop == timer \ {member}

(* dockStop15(): Stop empties the queue too. *)
Stop(c) ==
  /\ c[1] = "stop"
  /\ taken' = taken \cup ToSet(Slot.queue)
  /\ slot' = [slot EXCEPT ![member].running = FALSE, ![member].queue = <<>>, ![member].log = Append(@, Reply)]
  /\ timer' = TimerAfterStop
  /\ Staying /\ Marking /\ UNCHANGED <<popped, sent, left>>

(* A fault for the runs to find: two questions are taken from the queue.     *)
Drained_Two(q) == SubSeq(q, 3, Len(q))

Drained(q) == Tail(q)

(* A fault for the runs to find: the slot stays busy while a queue waits.    *)
Answered_Busy(s) == [s EXCEPT !.log = Append(@, Reply), !.running = s.queue # <<>>]

Answered(s) == [s EXCEPT !.log = Append(@, Reply), !.running = FALSE]

(* The answer is given whoever is signed in, but the queue moves on only     *)
(* when its member still is.                                                 *)
TimerFires ==
  \E m \in timer :
    /\ timer' = timer \ {m}
    /\ IF slot[m].queue # <<>> /\ m = member
       THEN /\ popped' = Append(popped, Head(slot[m].queue))
            /\ slot' = [slot EXCEPT ![m] = [Answered(@) EXCEPT !.queue = Drained(slot[m].queue)]]
       ELSE /\ slot' = [slot EXCEPT ![m] = Answered(@)]
            /\ UNCHANGED popped
    /\ Staying /\ Marking /\ UNCHANGED <<sent, taken, left>>

(* 20 milliseconds later the text goes to whoever is signed in then. *)
PoppedIsSent ==
  /\ popped # <<>>
  /\ popped' = Tail(popped)
  /\ SendText(Head(popped))
  /\ open' = TRUE
  /\ Marking /\ UNCHANGED <<member, conv, taken, left>>

-----------------------------------------------------------------------------
(* Files, plan mode, goal and tools.                                        *)

Asking == UNCHANGED <<timer, popped, sent, taken>>

(* The menu of a composer is opened: its marks are shown everywhere. *)
Plus(c) ==
  /\ c[1] = "plus"
  /\ c[2] # where
  /\ where' = c[2]
  /\ Staying /\ Asking /\ UNCHANGED <<slot, marks, goal, picker, files, left>>

PickFiles(c) ==
  /\ c[1] = "files"
  /\ Spend
  /\ picker' = [who |-> member, where |-> c[2], key |-> KeyOf("main")]
  /\ Staying /\ Asking /\ UNCHANGED <<slot, marks, where, goal, files>>

Lands(p) == member = p.who /\ KeyOf("main") = p.key

(* filesChanged15(): the browser answers the picker, whatever is open then.  *)
FilesChosen ==
  /\ picker # None
  /\ picker' = None
  /\ IF picker.where = "dock"
     THEN slot' = [slot EXCEPT ![picker.who].attach = TRUE] /\ UNCHANGED files
     ELSE /\ files' = IF Lands(picker) THEN files \cup {picker.key} ELSE files
          /\ UNCHANGED slot
  /\ Staying /\ Asking /\ UNCHANGED <<marks, where, goal, left>>

Detach(c) ==
  /\ c[1] \in {"detach", "context"}
  /\ slot' = [slot EXCEPT ![member].attach = IF c[1] = "detach" THEN FALSE ELSE @,
                          ![member].context = IF c[1] = "context" THEN TRUE ELSE @]
  /\ Staying /\ Asking /\ Marking /\ UNCHANGED left

Toggled(S, k) == IF k \in S THEN S \ {k} ELSE S \cup {k}

Plan(c) ==
  /\ c[1] \in {"plan", "planClear"}
  /\ Spend
  /\ marks' = [marks EXCEPT !.plan = Toggled(@, Marked)]
  /\ Staying /\ Asking /\ UNCHANGED <<slot, where, goal, picker, files>>

Tool(c) ==
  /\ c[1] = "tool"
  /\ Spend
  /\ marks' = [marks EXCEPT !.tools = Toggled(@, KeyOf(c[2]))]
  /\ Staying /\ Asking /\ UNCHANGED <<slot, where, goal, picker, files>>

(* startGoal16() *)
StartGoal(c) ==
  /\ c[1] \in {"goalStart", "goalOpen"}
  /\ Spend
  /\ goal' = Marked
  /\ Staying /\ Asking /\ UNCHANGED <<slot, marks, where, picker, files>>

(* openGoal15(): the dialog sets the goal of the open conversation. *)
GoalDialog(c) ==
  /\ c[1] = "goalDialog"
  /\ marks' = [marks EXCEPT !.goals = @ \cup {KeyOf("main")}]
  /\ Staying /\ Asking /\ UNCHANGED <<slot, where, goal, picker, files, left>>

(* commitGoal16(): an empty goal is removed. *)
CommitGoal(c) ==
  /\ c[1] = "goalCommit"
  /\ \E g \in BOOLEAN :
       marks' = [marks EXCEPT !.goals = IF g THEN @ \cup {goal} ELSE @ \ {goal}]
  /\ goal' = None
  /\ Staying /\ Asking /\ UNCHANGED <<slot, where, picker, files, left>>

ClearGoal(c) ==
  /\ c[1] \in {"goalClear", "goalEscape"}
  /\ marks' = IF c[1] = "goalClear" THEN [marks EXCEPT !.goals = @ \ {Marked}] ELSE marks
  /\ goal' = None
  /\ Staying /\ Asking /\ UNCHANGED <<slot, where, picker, files, left>>

-----------------------------------------------------------------------------
(* The page.  Opening a conversation empties its attachments.               *)

OpenDock(c) ==
  /\ c[1] \in {"openDock", "close"}
  /\ open' = (c[1] = "openDock")
  /\ Asking /\ Marking /\ UNCHANGED <<member, conv, slot, left>>

(* A conversation opened through a shortcut leaves a goal being typed.       *)
Go(c) ==
  /\ c[1] = "go"
  /\ Spend
  /\ conv' = c[2] /\ files' = {}
  /\ Asking /\ UNCHANGED <<member, open, slot, marks, where, goal, picker>>

SwitchMember(c) ==
  /\ c[1] = "member"
  /\ Spend
  /\ member' = c[2] /\ files' = {}
  /\ Asking /\ UNCHANGED <<conv, open, slot, marks, where, goal, picker>>

Act(c) ==
  \/ Type(c) \/ Send(c) \/ Ask(c) \/ Quote(c) \/ Unqueue(c) \/ Stop(c)
  \/ Plus(c) \/ PickFiles(c) \/ Detach(c) \/ Plan(c) \/ Tool(c) \/ StartGoal(c) \/ GoalDialog(c)
  \/ CommitGoal(c) \/ ClearGoal(c) \/ OpenDock(c) \/ Go(c) \/ SwitchMember(c)

Next == (\E c \in Offered : Act(c)) \/ TimerFires \/ PoppedIsSent \/ FilesChosen

(* The browser runs its timers. *)
Spec == Init /\ [][Next]_vars /\ WF_vars(TimerFires) /\ WF_vars(PoppedIsSent)

-----------------------------------------------------------------------------
(* Every part of the dock has its values, and an answer is due exactly for   *)
(* the slots that say so (base16.js dockSendText15 and dockStop15 keep the   *)
(* flag and the timer apart).                                                *)
TypeOK ==
  /\ member \in Members /\ conv \in Convs /\ where \in {"main", "dock"}
  /\ \A m \in Members : slot[m].draft \in Texts \cup {Blank} /\ ToSet(slot[m].queue) \subseteq Texts
  /\ timer = {m \in Members : slot[m].running}
  /\ (marks.plan \cup marks.goals \cup marks.tools) \subseteq Keys /\ goal \in Keys \cup {None}

(* A question that was sent is in a log, in a queue or on its way between    *)
(* them, unless the member removed it or pressed Stop.                       *)
QuestionsAreKept ==
  \A t \in sent \ taken :
    \/ t \in ToSet(popped)
    \/ \E m \in Members : t \in ToSet(slot[m].queue) \/ Asked(t) \in ToSet(slot[m].log)

(* A question that was asked is answered or stopped, whoever is signed in by *)
(* then, and one that waits behind it gets its turn, is removed or stopped,  *)
(* as long as its member stays signed in.                                    *)
EveryQuestionEnds ==
  \A m \in Members :
    /\ slot[m].running ~> ~slot[m].running
    /\ \A t \in Texts :
         (slot[m].running /\ t \in ToSet(slot[m].queue)) ~> (t \notin ToSet(slot[m].queue) \/ member # m)

(* Every question that waits gets its turn, is removed or stopped.  It does   *)
(* not: an answer that comes while another member is signed in leaves the    *)
(* queue standing, and nothing takes it up when the member returns.          *)
WaitingQuestionEnds ==
  \A m \in Members, t \in Texts : t \in ToSet(slot[m].queue) ~> t \notin ToSet(slot[m].queue)
=============================================================================
