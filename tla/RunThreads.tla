----------------------------- MODULE RunThreads -----------------------------
(***************************************************************************)
(* The runs of one issue as a member reads them: the blocks of the         *)
(* conversation, the list of runs and the thread of one run in the pane on *)
(* the right (logic/runs16.js with the markup of the inspector and of the  *)
(* work conversation).                                                     *)
(*                                                                         *)
(* What agents wrote is a constant, Script.  The state is what a member    *)
(* adds to it and where the member is.  A section of the markup is an      *)
(* operator: the set of controls it offers; a member can only do what some *)
(* section offers.  Scroll offsets, layout and wording are left out.       *)
(***************************************************************************)
EXTENDS Integers, Sequences, FiniteSets, SequencesExt

CONSTANTS
  Runs,        \* the runs of the issue
  Children,    \* runs another run delegated to
  Parent,      \* the run that delegated
  Script,      \* for each run its attempts, each a sequence of entries
  ActiveRuns,  \* runs of the workflow that are running
  Tone,        \* of a child: "done", "running" or "needs" an answer
  Options,     \* the answers offered for a question
  Files,       \* files of the issue
  Tabs,        \* tabs of the pane, with "pr" when the issue has a pull request
  None,
  MaxTexts, MaxFolds   \* bounds: texts typed; folds, finds and attempts picked

Ids == Runs \cup Children
Waiting == {c \in Children : Tone[c] = "needs"}

Kinds == {"say", "tools", "kids", "hand", "result", "find", "live", "answer", "steer", "stop"}

\* What may stand in the transcript of a run: it delegates to its own children.
Entries(id) ==
  [k : Kinds, runs : SUBSET {c \in Children : Parent[c] = id}, to : Ids \cup {None}, text : {None}]

RunThreadsConstants ==
  /\ Runs \cap Children = {} /\ None \notin Ids
  /\ Parent \in [Children -> Runs]
  /\ \A id \in Ids : Script[id] \in Seq(Seq(Entries(id))) \ {<<>>}
  /\ \A c \in Waiting :  \* the transcript of a child that waits ends with saying so
        LET s == Last(Script[c]) IN s # <<>> /\ Last(s).k \in {"live", "hand"}
  /\ \A c, d \in Children : Parent[c] = Parent[d]  \* one run delegates
  /\ ActiveRuns \subseteq Runs
  /\ {"issue", "runs"} \subseteq Tabs
  /\ {MaxTexts, MaxFolds} \subseteq Nat

VARIABLES
  mine,    \* the member owns the execution of the issue
  nav,     \* what the pane shows and the ways back it remembers
  picked,  \* the attempt chosen for a run, 0 for none
  folds,   \* folds that differ from their default
  find,    \* the search in a thread
  work,    \* answers to children, instructions and stops of runs
  drafts,  \* for each run what is typed and attached for it
  reply,   \* the main composer: the run it replies to, and what was sent
  left     \* bounds

vars == <<mine, nav, picked, folds, find, work, drafts, reply, left>>

-----------------------------------------------------------------------------
(* What a run is.                                                          *)

E(k) == [k |-> k, runs |-> {}, to |-> None, text |-> None]

LastAttempt(id) == Len(Script[id])

(* The attempt shown: the latest unless an earlier one was picked. *)
Attempt(id) == IF picked[id] = 0 THEN LastAttempt(id) ELSE picked[id]

Answered(c) == work.answered[c] # None

ChildTone(c) == IF Answered(c) THEN "running" ELSE Tone[c]

HasQuestion(c) == c \in Waiting /\ ~Answered(c)

(* What the thread shows.  Only the latest attempt grows: an answer takes    *)
(* the place of the notice that waited for it, then come the instructions    *)
(* with their acknowledgements, then the notice of a stop.                   *)
Grown(id) ==
  LET base == Script[id][LastAttempt(id)]
      told == IF id \in Children /\ Answered(id)
              THEN Front(base) \o <<[E("answer") EXCEPT !.text = work.answered[id]], E("say"), E("live")>>
              ELSE base
  IN told \o work.steer[id] \o (IF id \in work.stopped THEN <<E("stop")>> ELSE <<>>)

EntriesFor(id) ==
  IF Attempt(id) # LastAttempt(id) THEN Script[id][Attempt(id)] ELSE Grown(id)

(* A fault for the runs to find: a stop is forgotten. *)
Active_Stopped(id) ==
  /\ id \in ActiveRuns \/ (id \in Children /\ ChildTone(id) = "running")
  /\ Attempt(id) = LastAttempt(id)

Active(id) ==
  /\ id \in ActiveRuns \/ (id \in Children /\ ChildTone(id) = "running")
  /\ id \notin work.stopped
  /\ Attempt(id) = LastAttempt(id)

CanSteer(id) == mine /\ Active(id)

KidsIn(entries) == UNION {entries[n].runs : n \in 1 .. Len(entries)}

Delegated(r) == KidsIn(Script[r][LastAttempt(r)])

(* A fold is open when it was toggled, or never was and opens by default.    *)
Fold(key, fallback) == IF key \in folds THEN ~fallback ELSE fallback

Opens(e) == Cardinality(e.runs) = 1

-----------------------------------------------------------------------------
(* The markup.  Open is the run whose thread is read.                       *)

Open == nav.open
ListShown == nav.shown /\ nav.tab = "runs" /\ Open = None
ThreadShown == nav.shown /\ nav.tab = "runs" /\ Open # None

(* A search leaves the entries that match: in this model what was said or     *)
(* handed over.  Folds are keyed by the place among all the entries.          *)
Matches(e) == find.text = None \/ e.k \notin {"tools", "kids", "live"}
At(n) == EntriesFor(Open)[n]
ShownAt(k) == IF ThreadShown THEN {n \in 1 .. Len(EntriesFor(Open)) : At(n).k = k /\ Matches(At(n))} ELSE {}

Frame ==
  IF nav.shown THEN {<<"collapse">>} \cup {<<"tab", t>> : t \in Tabs} ELSE {<<"expand">>}

BackToRun == IF nav.shown /\ nav.ret # None /\ nav.tab # "runs" THEN {<<"backToRun">>} ELSE {}

ChildLinks(r) == {<<"openChild", c, r>> : c \in Delegated(r)}

ListedChildren == UNION {ChildLinks(r) : r \in {r \in Runs : Fold(<<"rl", r>>, FALSE)}}

RunList ==
  IF ListShown
  THEN {<<"open", r>> : r \in Runs}
         \cup {<<"fold", <<"rl", r>>>> : r \in {r \in Runs : Delegated(r) # {}}}
         \cup ListedChildren
  ELSE {}

ThreadNav == IF ThreadShown THEN {<<"back">>} ELSE {}

Attempts ==
  IF ThreadShown /\ LastAttempt(Open) > 1 THEN {<<"attempt", a>> : a \in 1 .. LastAttempt(Open)} ELSE {}

Toolbar == IF ThreadShown THEN {<<"toggleAll">>, <<"toggleFind">>} ELSE {}

FindField == IF ThreadShown /\ find.open THEN {<<"editFind">>, <<"clearFind">>} ELSE {}

EntryTools == {<<"fold", <<"tg", Open, n>>>> : n \in ShownAt("tools")}

KidsRow(n) ==
  {<<"fold", <<"tg", Open, n>>>>}
    \cup (IF Fold(<<"tg", Open, n>>, Opens(At(n))) THEN {<<"openChild", c, Open>> : c \in At(n).runs} ELSE {})

EntryKids == UNION {KidsRow(n) : n \in ShownAt("kids")}

EntryHandoff == {<<"open", At(n).to>> : n \in {n \in ShownAt("hand") : At(n).to # None}}

(* The one question the thread asks: its own, or the first of a child. *)
Question ==
  IF ThreadShown
  THEN IF Open \in Children /\ HasQuestion(Open) THEN {Open}
       ELSE {c \in KidsIn(EntriesFor(Open)) : HasQuestion(c)}
  ELSE {}

WaitingChild ==
  IF mine /\ Question # {}
  THEN {<<"answer", CHOOSE c \in Question : TRUE, o>> : o \in Options}
  ELSE {}

DetailLinks ==
  IF Fold(<<"det", Open>>, FALSE) THEN {<<"go", t>> : t \in {"pr", "files", "usage"} \cap Tabs} ELSE {}

Details == IF ThreadShown THEN {<<"fold", <<"det", Open>>>>} \cup DetailLinks ELSE {}

InstructForm == ThreadShown /\ CanSteer(Open)

InstructField ==
  IF InstructForm
  THEN {<<"type">>} \cup {<<"attach", f>> : f \in Files} \cup {<<"detach", f>> : f \in drafts[Open].files}
  ELSE {}

InstructSend ==
  IF InstructForm
  THEN {<<"dictate">>, <<"stop">>} \cup (IF drafts[Open].text # None THEN {<<"send">>} ELSE {})
  ELSE {}

FinishedRecord == IF ThreadShown /\ ~CanSteer(Open) THEN {<<"discuss">>} ELSE {}

UsageRows == IF nav.shown /\ nav.tab = "usage" THEN {<<"open", r>> : r \in Runs} ELSE {}

(* The blocks of the conversation, beside the pane: one for each run. *)
BlockHead == {<<"fold", <<"wb", r>>>> : r \in Runs}

Unfolded == {r \in Runs : Fold(<<"wb", r>>, FALSE)}

BlockTools == {<<"fold", <<"wbTools", r>>>> : r \in Unfolded}

BlockKids == UNION {ChildLinks(r) : r \in Unfolded}

BlockActions == UNION {{<<"open", r>>, <<"reply", r>>} : r \in Unfolded}

ReplyContext == (IF reply.to # None THEN {<<"cancelReply">>} ELSE {}) \cup {<<"say">>}

Offered ==
  UNION {Frame, BackToRun, RunList, ThreadNav, Attempts, Toolbar, FindField, EntryTools, EntryKids,
         EntryHandoff, WaitingChild, Details, InstructField, InstructSend, FinishedRecord, UsageRows,
         BlockHead, BlockTools, BlockKids, BlockActions, ReplyContext}

-----------------------------------------------------------------------------
NoFind == [open |-> FALSE, text |-> None]
NoDraft == [text |-> None, files |-> {}]

Init ==
  /\ mine \in BOOLEAN
  /\ nav = [shown |-> FALSE, tab |-> "issue", open |-> None, stack |-> <<>>, focus |-> None,
            ret |-> None, retStack |-> <<>>]
  /\ picked = [id \in Ids |-> 0]
  /\ folds = {}
  /\ find = NoFind
  /\ work = [answered |-> [c \in Children |-> None], steer |-> [id \in Ids |-> <<>>], stopped |-> {}]
  /\ drafts = [id \in Ids |-> NoDraft]
  /\ reply = [to |-> None, sent |-> {}]
  /\ left = [texts |-> MaxTexts, folds |-> MaxFolds]

-----------------------------------------------------------------------------
(* Navigation.                                                              *)

(* openInspector10(): a way back is kept only by rtGo16(). *)
Inspector(n, tab, keep, stack) ==
  [n EXCEPT !.shown = TRUE, !.tab = tab, !.ret = keep, !.retStack = IF keep = None THEN <<>> ELSE stack]

Declared(id) == IF id \in Children THEN <<Parent[id]>> ELSE <<>>

(* A fault for the runs to find: a child opened alone is left without a way  *)
(* back to its parent.                                                       *)
StackFor_Stranded(id, parent) ==
  IF parent # None
  THEN IF nav.stack # <<>> /\ Last(nav.stack) = parent THEN nav.stack ELSE Append(nav.stack, parent)
  ELSE <<>>

StackFor(id, parent) ==
  IF parent # None
  THEN IF nav.stack # <<>> /\ Last(nav.stack) = parent THEN nav.stack ELSE Append(nav.stack, parent)
  ELSE Declared(id)

RtOpen(id, parent) ==
  /\ nav' = Inspector([nav EXCEPT !.open = id, !.stack = StackFor(id, parent),
                                  !.focus = IF id \in Children THEN @ ELSE id],
                      "runs", None, <<>>)
  /\ find' = NoFind

Reading == UNCHANGED <<mine, picked, work, drafts, left>>

OpenRun(c) ==
  /\ c[1] = "open"
  /\ RtOpen(c[2], None)
  /\ Reading /\ UNCHANGED <<folds, reply>>

OpenChild(c) ==
  /\ c[1] = "openChild"
  /\ RtOpen(c[2], c[3])
  /\ Reading /\ UNCHANGED <<folds, reply>>

BackToRunGo(c) ==
  /\ c[1] = "backToRun"
  /\ RtOpen(nav.ret, None)
  /\ Reading /\ UNCHANGED <<folds, reply>>

AllRuns ==
  /\ nav' = [nav EXCEPT !.open = None, !.stack = <<>>, !.focus = None, !.ret = None, !.retStack = <<>>]
  /\ find' = NoFind

(* Where Back leads: the last of the stack, or the declared parent. *)
BackTarget ==
  IF nav.stack # <<>> THEN Last(nav.stack)
  ELSE IF Open \in Children THEN Parent[Open] ELSE None

Back(c) ==
  /\ c[1] = "back"
  /\ IF BackTarget = None THEN AllRuns
     ELSE /\ nav' = [nav EXCEPT !.open = BackTarget,
                                !.stack = IF @ = <<>> THEN @ ELSE Front(@),
                                !.focus = IF BackTarget \in Children THEN @ ELSE BackTarget,
                                !.ret = None, !.retStack = <<>>]
          /\ find' = NoFind
  /\ Reading /\ UNCHANGED <<folds, reply>>

(* rtGo16(): leave for another tab and keep a way back. *)
Go(c) ==
  /\ c[1] = "go"
  /\ nav' = Inspector(nav, c[2], Open, nav.stack)
  /\ Reading /\ UNCHANGED <<folds, find, reply>>

PickTab(c) ==
  /\ c[1] = "tab"
  /\ nav' = Inspector(nav, c[2], None, <<>>)
  /\ Reading /\ UNCHANGED <<folds, find, reply>>

ShowPane(c) ==
  /\ c[1] \in {"collapse", "expand"}
  /\ nav' = [nav EXCEPT !.shown = (c[1] = "expand")]
  /\ Reading /\ UNCHANGED <<folds, find, reply>>

DiscussInThread(c) ==
  /\ c[1] = "discuss"
  /\ nav' = [nav EXCEPT !.open = None, !.stack = <<>>]
  /\ Reading /\ UNCHANGED <<folds, find, reply>>

-----------------------------------------------------------------------------
(* Reading.                                                                 *)

Spend == left.folds > 0 /\ left' = [left EXCEPT !.folds = @ - 1]

Toggle(c) ==
  /\ c[1] = "fold"
  /\ Spend
  /\ folds' = IF c[2] \in folds THEN folds \ {c[2]} ELSE folds \cup {c[2]}
  /\ UNCHANGED <<mine, nav, picked, find, work, drafts, reply>>

FoldKeys ==
  {<<"det", Open>>} \cup
    {<<"tg", Open, n>> : n \in {n \in 1 .. Len(EntriesFor(Open)) : EntriesFor(Open)[n].k \in {"tools", "kids"}}}

Default(key) == key[1] = "tg" /\ EntriesFor(Open)[key[3]].k = "kids" /\ Opens(EntriesFor(Open)[key[3]])

(* rtToggleAll16() asks for each fold whether it is open as if it were        *)
(* closed by default, and writes them all.                                    *)
ToggleAll(c) ==
  /\ c[1] = "toggleAll"
  /\ Spend
  /\ LET written == {k \in FoldKeys : k \in folds}
         anyClosed == \E k \in FoldKeys : ~(k \in written /\ ~Default(k))
     IN folds' = (folds \ FoldKeys) \cup {k \in FoldKeys : anyClosed # Default(k)}
  /\ UNCHANGED <<mine, nav, picked, find, work, drafts, reply>>

PickAttempt(c) ==
  /\ c[1] = "attempt"
  /\ Spend
  /\ picked' = [picked EXCEPT ![Open] = c[2]]
  /\ UNCHANGED <<mine, nav, folds, find, work, drafts, reply>>

ToggleFind(c) ==
  /\ c[1] = "toggleFind"
  /\ find' = [open |-> ~find.open, text |-> IF find.open THEN None ELSE find.text]
  /\ Spend
  /\ UNCHANGED <<mine, nav, picked, folds, work, drafts, reply>>

EditFind(c) ==
  /\ c[1] \in {"editFind", "clearFind"}
  /\ find' = [find EXCEPT !.text = IF c[1] = "editFind" THEN Open ELSE None]
  /\ Reading /\ UNCHANGED <<nav, folds, reply>>

-----------------------------------------------------------------------------
(* What a member adds.  A text is the name of the run whose thread was open  *)
(* when it was typed.                                                        *)

(* A fault for the runs to find: one draft for all the runs. *)
DraftKeys_All == Ids

DraftKeys == {Open}

SetDraft ==
  drafts' = [id \in Ids |-> IF id \in DraftKeys THEN [drafts[id] EXCEPT !.text = Open] ELSE drafts[id]]

(* Typed, dictated or taken from the menu of the field. *)
Type(c) ==
  /\ c[1] \in {"type", "dictate"}
  /\ left.texts > 0 /\ left' = [left EXCEPT !.texts = @ - 1]
  /\ SetDraft
  /\ UNCHANGED <<mine, nav, picked, folds, find, work, reply>>

Attach(c) ==
  /\ \/ /\ c[1] = "attach" /\ Spend
        /\ drafts' = [drafts EXCEPT ![Open].files = @ \cup {c[2]}]
     \/ /\ c[1] = "detach" /\ UNCHANGED left
        /\ drafts' = [drafts EXCEPT ![Open].files = @ \ {c[2]}]
  /\ UNCHANGED <<mine, nav, picked, folds, find, work, reply>>

SendInstruction(c) ==
  /\ c[1] = "send"
  /\ CanSteer(Open)
  /\ work' = [work EXCEPT !.steer[Open] = @ \o <<[E("steer") EXCEPT !.text = drafts[Open].text], E("say")>>]
  /\ drafts' = [drafts EXCEPT ![Open] = NoDraft]
  /\ UNCHANGED <<mine, nav, picked, folds, find, reply, left>>

Stop(c) ==
  /\ c[1] = "stop"
  /\ CanSteer(Open)
  /\ work' = [work EXCEPT !.stopped = @ \cup {Open}]
  /\ UNCHANGED <<mine, nav, picked, folds, find, drafts, reply, left>>

AnswerStands(c, o) == mine /\ HasQuestion(c) /\ o \in Options /\ c \notin work.stopped

Answer(c) ==
  /\ c[1] = "answer"
  /\ AnswerStands(c[2], c[3])
  /\ work' = [work EXCEPT !.answered[c[2]] = c[3]]
  /\ UNCHANGED <<mine, nav, picked, folds, find, drafts, reply, left>>

(* Reply in a block sets the reply of the main composer, then opens the run. *)
Reply(c) ==
  /\ c[1] = "reply"
  /\ reply' = [reply EXCEPT !.to = c[2]]
  /\ RtOpen(c[2], None)
  /\ Reading /\ UNCHANGED folds

CancelReply(c) ==
  /\ c[1] = "cancelReply"
  /\ reply' = [reply EXCEPT !.to = None]
  /\ Reading /\ UNCHANGED <<nav, folds, find>>

(* sendComposer11() of the main composer: to the run it replies to, if any.  *)
Say(c) ==
  /\ c[1] = "say"
  /\ left.texts > 0 /\ left' = [left EXCEPT !.texts = @ - 1]
  /\ reply' = [to |-> None,
               sent |-> reply.sent \cup {IF reply.to = None THEN <<"conversation">> ELSE <<"run", reply.to>>}]
  /\ UNCHANGED <<mine, nav, picked, folds, find, work, drafts>>

(* A member uses a control. *)
Next ==
  \E c \in Offered :
    \/ OpenRun(c) \/ OpenChild(c) \/ BackToRunGo(c) \/ Back(c) \/ Go(c)
    \/ PickTab(c) \/ ShowPane(c) \/ DiscussInThread(c)
    \/ Toggle(c) \/ ToggleAll(c) \/ PickAttempt(c) \/ ToggleFind(c) \/ EditFind(c)
    \/ Type(c) \/ Attach(c) \/ SendInstruction(c) \/ Stop(c)
    \/ Answer(c) \/ Reply(c) \/ CancelReply(c) \/ Say(c)

Spec == Init /\ [][Next]_vars

-----------------------------------------------------------------------------
(* Each variable is what the code keeps in it; in particular a question is   *)
(* answered only when it was asked, and the latest attempt shown last.       *)
TypeOK ==
  /\ mine \in BOOLEAN
  /\ nav.shown \in BOOLEAN /\ nav.tab \in Tabs
  /\ {nav.open, nav.focus, nav.ret} \subseteq Ids \cup {None}
  /\ \A id \in Ids : picked[id] \in 0 .. LastAttempt(id)
  /\ \A c \in Children : Answered(c) => c \in Waiting /\ work.answered[c] \in Options
  /\ \A id \in Ids : drafts[id].text \in {None, id} /\ drafts[id].files \subseteq Files
  /\ work.stopped \subseteq ActiveRuns \cup {c \in Children : ChildTone(c) = "running"}

(* From the thread of a child Back always leads to the run that delegated    *)
(* it, however the child was reached; and the way back that a link to files  *)
(* or usage keeps leads to the run it was left from, its parent one above    *)
(* (the comments on rtOpen16() and rtGo16()).                                *)
BackClimbs ==
  /\ Open # None => nav.stack = Declared(Open)
  /\ nav.ret # None => nav.ret = Open /\ nav.retStack = Declared(nav.ret)

(* An instruction is in the record of the run in whose thread it was typed.  *)
InstructedWhereTyped ==
  \A id \in Ids : \A n \in 1 .. Len(work.steer[id]) :
    work.steer[id][n].k = "steer" => work.steer[id][n].text = id

(* The entries of a thread as they stay: without the closing notice.         *)
Lasting(s) == IF s # <<>> /\ Last(s).k \in {"live", "hand"} THEN Front(s) ELSE s

(* Reading, answering, instructing and stopping never rewrite what a thread   *)
(* recorded; an earlier attempt is closed, and nothing follows a stop.       *)
Grows(id) ==
  picked'[id] = picked[id] =>
    \/ EntriesFor(id)' = EntriesFor(id)
    \/ /\ Attempt(id) = LastAttempt(id) /\ id \notin work.stopped
       /\ IsPrefix(Lasting(EntriesFor(id)), EntriesFor(id)')

RecordOnlyGrows == [][\A id \in Ids : Grows(id)]_vars

(* "Replying to a stage belongs in that run's own thread": what a member     *)
(* sends as a reply to a run is in the thread of that run.  It is not: the    *)
(* main composer keeps the old reply context, and what it sends is stored     *)
(* with the run's summary, which a run with a transcript does not show.       *)
ReplyIsInTheThread == \A r \in Runs : <<"run", r>> \notin reply.sent
=============================================================================
