---------------------------- MODULE RoutineDesk ----------------------------
(***************************************************************************)
(* Routines in the web application: the schedule, the page of a routine,   *)
(* the record of one of its runs and the form that writes a routine        *)
(* (logic/base16.js and v19.js with live/use-live-workspace.ts, which sends *)
(* saving, pausing, running and deleting to the server).                   *)
(*                                                                         *)
(* Instructions are documents, kept by the browser; the prompt a run is    *)
(* given is one line of them.  Of a document two things are told apart:    *)
(* which it is and its first line that is neither a heading nor a fence.   *)
(* A prompt is shown as a document it is the first line of.                *)
(* The server keeps a prompt and whether it is enabled; it fires an        *)
(* enabled routine at any moment.  When it runs, what the trigger is and   *)
(* what a run did are left out.                                            *)
(***************************************************************************)
EXTENDS Integers, FiniteSets

CONSTANTS
  Routines,    \* ids the server can give
  Started,     \* routines that exist
  None,
  Templates,   \* prompts of the presets
  Documents,   \* what members write, here and elsewhere
  Lines,       \* the lines their documents begin with
  FirstLine,   \* [Texts -> Texts], "blank" where there is none
  Short,       \* texts of less than twelve characters
  Budgets      \* bounds, a behaviour picks one: places opened and texts edited,
               \* looks at a page and its records, requests sent, runs of a routine

Blank == "blank"
Texts == Templates \cup Documents \cup Lines \cup {Blank}
Brief == CHOOSE t \in Templates : TRUE
Outcomes == {"done", "failed"}

(* Fields of the form beside the name and the instructions, and those that   *)
(* saveAuto9() of the adapter sends.                                         *)
Sent == {"trigger", "connectors", "model"}
Fields == Sent \cup {"repo", "scope", "output", "funding", "limits"}

RoutineConstants ==
  /\ Started \subseteq Routines /\ Templates # {}
  /\ Blank \notin Templates \cup Documents \cup Lines /\ None \notin Routines \cup Texts
  /\ FirstLine \in [Texts -> Texts] /\ Blank \in Short
  /\ \A t \in Templates \cup Lines \cup {Blank} : FirstLine[t] = t
  /\ Budgets \subseteq [moves : Nat, looks : Nat, writes : Nat, runs : Nat]

VARIABLES
  place,    \* the view, the tab of the schedule, the tab of the page and the open routine
  pane,     \* the inspector: open or not, the routine and outcome of the recorded run, its tab
  dialog,   \* the dialog that is open
  form,     \* the form of a routine
  boxes,    \* the editors on the page: of the instructions, with its draft, and of the limits
  local,    \* what only this browser keeps: instructions, settings, archived routines
  promised, \* history: the instructions the page last said future runs use
  shown,    \* autopilots9: the routines as this browser last read them
  server,   \* the routines of the server
  calls,    \* requests on their way, or answered and not yet handled
  due,      \* "Run now" of a row runs in 40 milliseconds
  trail,    \* routines in the history of the browser
  left      \* bounds

vars == <<place, pane, dialog, form, boxes, local, promised, shown, server, calls, due, trail, left>>

-----------------------------------------------------------------------------
Nothing == [prompt |-> Blank, enabled |-> FALSE, here |-> FALSE, past |-> {}, fields |-> {}]
NoForm == [editing |-> None, for |-> None, step |-> "setup", page |-> "what",
           prompt |-> Blank, typed |-> None, titled |-> FALSE, enabled |-> TRUE, fields |-> {}]
NoRecord == [on |-> FALSE, of |-> None, outcome |-> "done", tab |-> "run", file |-> 1]
Closed == [editing |-> FALSE, draft |-> Blank, limits |-> FALSE]

Here == {r \in Routines : shown[r].here}
Listed == Here \ local.archived
Moving == left.moves > 0
Writing == left.writes > 0
OnPage == place.view = "auto" /\ place.active \in Here

Saved(id) == local.instr[id] \notin {None, Blank}

(* instr16() of the routine that is open: what is kept here, or its prompt.  *)
Page(r) == IF Saved(r) THEN local.instr[r] ELSE shown[r].prompt

(* The document of the form: what is typed or kept for its routine.  An edit *)
(* without either asks instr16(), which looks at the routine that is open.   *)
FormId == IF form.editing # None THEN form.editing ELSE "routine"
OpenId == IF place.active # None THEN place.active ELSE "routine"

Base ==
  IF form.editing # None /\ Saved(OpenId) THEN local.instr[OpenId] ELSE form.prompt

Instr ==
  IF form.typed # None THEN form.typed ELSE IF Saved(FormId) THEN local.instr[FormId] ELSE Base

RecordShown == place.view = "auto" /\ pane.on /\ pane.of # None

-----------------------------------------------------------------------------
(* The markup: the controls each section offers.                            *)
Head == {<<"new">>} \cup {<<"tab", t>> : t \in {"upcoming", "routines", "history"} \ {place.tab}}

RowMenu(r) ==
  {<<"history", r>>, <<"toggle", r>>, <<"delete", r>>} \cup (IF shown[r].enabled THEN {<<"runNow", r>>} ELSE {})

UpcomingRows ==
  IF place.tab = "upcoming"
  THEN UNION {{<<"open", r>>} \cup RowMenu(r) : r \in {r \in Listed : shown[r].enabled}}
  ELSE {}

RoutineRows ==
  IF place.tab = "routines"
  THEN UNION {{<<"toggle", r>>, <<"open", r>>, <<"edit", r>>} \cup RowMenu(r) : r \in Listed}
  ELSE {}

HistoryRows ==
  IF place.tab = "history" /\ place.active \in Here /\ "failed" \in shown[place.active].past THEN {<<"ask">>} ELSE {}

PageHead ==
  {<<"schedule">>, <<"toggle", place.active>>, <<"edit", place.active>>, <<"run">>, <<"work">>, <<"archive">>}

PageTabs == {<<"page", p>> : p \in {"overview", "runs"} \ {place.page}}

Overview == place.page = "overview"

Definitions ==
  IF ~Overview THEN {}
  ELSE {<<"edit", place.active>>, <<"repo">>}
         \cup (IF boxes.limits THEN {<<"limitCancel">>, <<"limitSave">>} ELSE {<<"limits">>})

Instructions ==
  IF ~Overview THEN {}
  ELSE IF boxes.editing THEN {<<"editCancel">>, <<"editSave">>} \cup {<<"write", t>> : t \in Documents \ {boxes.draft}}
       ELSE {<<"editStart">>}

RunRows == IF place.page = "runs" THEN {<<"record", o>> : o \in shown[place.active].past} ELSE {}

RecordTabs == {<<"recordTab", t>> : t \in {"run", "conversation", "files", "usage"} \ {pane.tab}} \cup {<<"collapse">>}
RecordOverview ==
  IF pane.tab # "run" THEN {} ELSE {<<"ask">>} \cup (IF pane.outcome = "failed" THEN {<<"run">>} ELSE {<<"work">>})
RecordThread == IF pane.tab = "conversation" THEN {<<"ask">>} ELSE {}
RecordFiles == IF pane.tab = "files" THEN {<<"file">>} ELSE {}

Record == IF RecordShown THEN RecordTabs \cup RecordOverview \cup RecordThread \cup RecordFiles ELSE {}

Several == pane.outcome = "done"   \* a failed run left its log only
FileSteps == (IF pane.file > 1 THEN {<<"fileStep", -1>>} ELSE {})
               \cup (IF Several /\ pane.file < 2 THEN {<<"fileStep", 1>>} ELSE {})
FileStrip == {<<"filePick", n>> : n \in (1 .. (IF Several THEN 2 ELSE 1)) \ {pane.file}}
FileViewer == FileSteps \cup FileStrip \cup {<<"close">>}

Shows(p) == IF form.step = "review" THEN p = "review" ELSE form.page = p
Steps == {<<"step", p>> : p \in {p \in {"what", "when"} : ~Shows(p)}}
Presets ==
  IF Shows("what") /\ form.editing = None THEN {<<"scratch">>} \cup {<<"preset", t>> : t \in Templates \ {form.prompt}} ELSE {}
FormName == IF Shows("what") THEN {<<"name">>} ELSE {}
FormDocument == IF Shows("what") THEN {<<"typed", t>> : t \in (Documents \cup {Blank}) \ {Instr}} ELSE {}
Edits(fs) == IF Shows("when") THEN {<<"field", f>> : f \in fs \ form.fields} ELSE {}
FormTrigger == Edits({"trigger"})
FormConnectors == Edits({"connectors"}) \cup (IF Shows("when") THEN {<<"plugins">>} ELSE {})
FormScope == Edits({"repo", "scope", "output"})
FormModel == Edits({"model", "funding"})
FormLimits == Edits({"limits"})
FormFoot == {<<"back">>, <<"next">>}
Form == Steps \cup Presets \cup FormName \cup FormDocument \cup FormTrigger \cup FormConnectors
          \cup FormScope \cup FormModel \cup FormLimits \cup FormFoot \cup {<<"close">>}

Offered ==
  IF dialog = "form" THEN Form
  ELSE IF dialog = "file" THEN FileViewer
  ELSE IF dialog # None THEN {<<"confirm">>, <<"close">>}
  ELSE IF place.view = "schedule" THEN Head \cup UpcomingRows \cup RoutineRows \cup HistoryRows
  ELSE IF OnPage THEN PageHead \cup PageTabs \cup Definitions \cup Instructions \cup RunRows \cup Record
  ELSE {<<"schedule">>}

-----------------------------------------------------------------------------
Init ==
  /\ place = [view |-> "schedule", tab |-> "upcoming", page |-> "overview", active |-> None]
  /\ pane = NoRecord
  /\ dialog = None /\ form = NoForm /\ boxes = Closed
  /\ local = [instr |-> [r \in Routines \cup {"routine"} |-> None], kept |-> [r \in Routines |-> {}], archived |-> {}]
  /\ promised = [r \in Routines |-> None]
  /\ \E p \in {Brief} \cup Documents :
       server = [r \in Routines |-> IF r \in Started THEN [prompt |-> p, enabled |-> TRUE, here |-> TRUE, past |-> Outcomes, fields |-> {}]
                                                     ELSE Nothing]
  /\ shown = server
  /\ calls = {} /\ due = FALSE /\ trail = {}
  /\ left \in Budgets

Moved == Moving /\ left' = [left EXCEPT !.moves = @ - 1]

(* A click that only changes what is on screen. *)
Screen(p, i, d) ==
  /\ place' = p /\ pane' = i /\ dialog' = d
  /\ form' = IF d = None THEN NoForm ELSE form
  /\ UNCHANGED <<boxes, local, promised, shown, server, calls, due>>

(* go() closes a dialog and the address follows; the adapter's openAuto9()   *)
(* sets nothing else.                                                       *)
OpenAuto(r) ==
  /\ Moved
  /\ Screen([place EXCEPT !.view = "auto", !.active = r], pane, None)
  /\ trail' = trail \cup {r}

(* nav10(): the inspector closes, its record stays. *)
Nav(v) ==
  /\ Screen([place EXCEPT !.view = v], [pane EXCEPT !.on = FALSE], None)
  /\ UNCHANGED <<trail, left>>

Show(p, i, d) ==
  /\ left.looks > 0 /\ left' = [left EXCEPT !.looks = @ - 1]
  /\ Screen(p, i, d) /\ UNCHANGED trail

(* Back and forward of the browser: popRoute(). *)
PopRoute ==
  /\ Moved
  /\ \/ \E r \in trail : Screen([place EXCEPT !.view = "auto", !.active = r], pane, dialog)
     \/ place.view = "auto" /\ Screen([place EXCEPT !.view = "schedule"], pane, dialog)
  /\ UNCHANGED trail

-----------------------------------------------------------------------------
(* Requests. *)
Send(c) ==
  /\ Writing
  /\ c \notin calls
  /\ calls' = calls \cup {c}
  /\ left' = [left EXCEPT !.writes = @ - 1]

Call(k, r) == [kind |-> k, id |-> r, on |-> FALSE, prompt |-> Blank, seen |-> Blank, for |-> r, fields |-> {}, at |-> "sent"]

Still == UNCHANGED <<place, pane, boxes, promised, shown, server, trail>>

Toggle(r) ==
  /\ Send([Call("enable", r) EXCEPT !.on = ~shown[r].enabled])
  /\ Still /\ UNCHANGED <<dialog, form, local, due>>

(* runAuto9() of the routine that is open then. *)
RunAuto(d) ==
  /\ IF place.active \in Here /\ shown[place.active].enabled
     THEN Send(Call("trigger", place.active)) ELSE UNCHANGED <<calls, left>>
  /\ due' = d
  /\ Still /\ UNCHANGED <<dialog, form, local>>

RunNow(r) ==
  /\ ~due /\ Moved
  /\ place' = [place EXCEPT !.view = "auto", !.active = r]
  /\ due' = TRUE /\ trail' = trail \cup {r}
  /\ UNCHANGED <<pane, dialog, form, boxes, local, promised, shown, server, calls>>

RunTimer == due /\ RunAuto(FALSE)

ConfirmDelete ==
  /\ Send(Call("delete", form.for))
  /\ Still /\ UNCHANGED <<dialog, form, local, due>>

-----------------------------------------------------------------------------
(* The form. *)
Changed(f) ==
  /\ form' = f
  /\ UNCHANGED <<place, pane, boxes, local, promised, shown, server, calls, due, trail, left>>

(* openAutoForm9(): a new routine starts from the brief, an edit from the row. *)
OpenForm(r) ==
  IF r = None THEN [NoForm EXCEPT !.prompt = Brief, !.titled = TRUE]
  ELSE [NoForm EXCEPT !.editing = r, !.for = r, !.titled = TRUE, !.prompt = shown[r].prompt, !.enabled = shown[r].enabled]

EditForm(r) ==
  /\ Moved /\ dialog' = "form" /\ form' = OpenForm(r)
  /\ UNCHANGED <<place, pane, boxes, local, promised, shown, server, calls, due, trail>>

AskDelete(r) ==
  /\ dialog' = "delete"
  /\ Changed([NoForm EXCEPT !.for = r])

FormStep(p) == dialog' = dialog /\ Changed([form EXCEPT !.step = "setup", !.page = p])

FormText(f) ==
  /\ Moved /\ form' = f
  /\ UNCHANGED <<place, pane, dialog, boxes, local, promised, shown, server, calls, due, trail>>

Back ==
  IF Shows("what")
  THEN dialog' = None /\ Changed(NoForm)
  ELSE dialog' = dialog /\ Changed([form EXCEPT !.page = IF Shows("when") THEN "what" ELSE "when", !.step = "setup"])

(* A fault for the runs to find: the document stays apart from the prompt.   *)
Committed_DocumentOnly == form

(* commitInstr(): the document is kept here and its first line becomes the   *)
(* prompt.  One of headings only leaves the prompt of before, if there is    *)
(* one.                                                                      *)
Line(doc, before) ==
  IF FirstLine[doc] # Blank THEN FirstLine[doc] ELSE IF before # Blank THEN before ELSE doc

Committed == [form EXCEPT !.prompt = Line(Instr, form.prompt)]
Kept == [local EXCEPT !.instr = [@ EXCEPT ![FormId] = Instr]]

(* saveAuto9() wants a name and a clear instruction. *)
Valid(f) == f.titled /\ f.prompt \notin Short

Saving(f) == [Call("save", f.editing) EXCEPT !.prompt = f.prompt, !.on = f.enabled, !.seen = Instr,
                                      !.for = form.for, !.fields = f.fields \cap Sent]

Next16 ==
  \/ /\ Shows("what") /\ form.titled /\ Instr # Blank
     /\ form' = [Committed EXCEPT !.page = "when"] /\ local' = Kept
     /\ Still /\ UNCHANGED <<dialog, calls, due, left>>
  \/ /\ Shows("when")
     /\ form' = IF Valid(Committed) THEN [Committed EXCEPT !.step = "review"] ELSE Committed
     /\ local' = Kept
     /\ Still /\ UNCHANGED <<dialog, calls, due, left>>
  \/ /\ Shows("review")
     /\ form' = Committed /\ local' = Kept
     /\ IF Valid(Committed) THEN Send(Saving(Committed)) ELSE UNCHANGED <<calls, left>>
     /\ Still /\ UNCHANGED <<dialog, due>>

-----------------------------------------------------------------------------
(* The editors on the page. *)
Boxed(b, l, q) ==
  /\ Moved
  /\ boxes' = b /\ local' = l /\ promised' = q
  /\ UNCHANGED <<place, pane, dialog, form, shown, server, calls, due, trail>>

EditStart == Boxed([boxes EXCEPT !.editing = TRUE, !.draft = Page(place.active)], local, promised)
EditSave ==
  Boxed([boxes EXCEPT !.editing = FALSE],
        [local EXCEPT !.instr = [@ EXCEPT ![place.active] = boxes.draft]],
        [promised EXCEPT ![place.active] = boxes.draft])
KeepSetting(k) == [local EXCEPT !.kept[place.active] = @ \cup {k}]
Archive == [local EXCEPT !.archived = @ \cup {place.active}]

ArchiveRoutine ==
  /\ Moved
  /\ local' = Archive
  /\ place' = [place EXCEPT !.view = "schedule"] /\ pane' = [pane EXCEPT !.on = FALSE]
  /\ UNCHANGED <<dialog, form, boxes, promised, shown, server, calls, due, trail>>

Closing == dialog' = None /\ Changed(NoForm)

Click(c) ==
  \/ c[1] = "new" /\ EditForm(None)
  \/ c[1] = "edit" /\ EditForm(c[2])
  \/ c[1] = "tab" /\ Screen([place EXCEPT !.tab = c[2]], pane, dialog) /\ UNCHANGED <<trail, left>>
  \/ c[1] \in {"open", "history"} /\ OpenAuto(c[2])
  \/ c[1] = "toggle" /\ Toggle(c[2])
  \/ c[1] = "delete" /\ AskDelete(c[2])
  \/ c[1] = "runNow" /\ RunNow(c[2])
  \/ c[1] = "confirm" /\ ConfirmDelete
  \/ c[1] = "schedule" /\ Nav("schedule")
  \/ c[1] \in {"work", "plugins"} /\ Nav("elsewhere")
  \/ c[1] = "ask" /\ Show(place, pane, dialog)
  \/ c[1] = "run" /\ RunAuto(due)
  \/ c[1] = "archive" /\ ArchiveRoutine
  \/ c[1] = "page" /\ Show([place EXCEPT !.page = c[2]], pane, dialog)
  \/ c[1] = "repo" /\ Boxed(boxes, KeepSetting("repo"), promised)
  \/ c[1] = "limits" /\ Boxed([boxes EXCEPT !.limits = TRUE], local, promised)
  \/ c[1] = "limitCancel" /\ Boxed([boxes EXCEPT !.limits = FALSE], local, promised)
  \/ c[1] = "limitSave" /\ Boxed([boxes EXCEPT !.limits = FALSE], KeepSetting("limits"), promised)
  \/ c[1] = "editStart" /\ EditStart
  \/ c[1] = "write" /\ Boxed([boxes EXCEPT !.draft = c[2]], local, promised)
  \/ c[1] = "editCancel" /\ Boxed([boxes EXCEPT !.editing = FALSE], local, promised)
  \/ c[1] = "editSave" /\ EditSave
  \/ c[1] = "record" /\ Show(place, [pane EXCEPT !.on = TRUE, !.of = place.active, !.outcome = c[2], !.tab = "run"], dialog)
  \/ c[1] = "recordTab" /\ Show(place, [pane EXCEPT !.tab = c[2]], dialog)
  \/ c[1] = "collapse" /\ Show(place, NoRecord, dialog)
  \/ c[1] = "file" /\ Show(place, [pane EXCEPT !.file = 1], "file")
  \/ c[1] = "fileStep" /\ Show(place, [pane EXCEPT !.file = @ + c[2]], dialog)
  \/ c[1] = "filePick" /\ Show(place, [pane EXCEPT !.file = c[2]], dialog)
  \/ c[1] = "close" /\ Closing
  \/ c[1] = "step" /\ FormStep(c[2])
  \/ c[1] = "preset" /\ FormText([form EXCEPT !.prompt = c[2], !.titled = TRUE])
  \/ c[1] = "scratch" /\ FormText([form EXCEPT !.prompt = Blank, !.titled = FALSE])
  \/ c[1] = "name" /\ FormText([form EXCEPT !.titled = ~@])
  \/ c[1] = "field" /\ FormText([form EXCEPT !.fields = @ \cup {c[2]}])
  \/ c[1] = "typed" /\ FormText([form EXCEPT !.typed = c[2]])
  \/ c[1] = "back" /\ Back
  \/ c[1] = "next" /\ Next16

-----------------------------------------------------------------------------
(* The server and the answers. *)
Created(c) == IF c.id # None THEN c.id ELSE CHOOSE r \in Routines : ~server[r].here

CanServe(c) == c.at = "sent" /\ (c.id # None \/ \E r \in Routines : ~server[r].here)

Stored(c) ==
  LET r == Created(c) IN
  CASE c.kind = "save" -> [server EXCEPT ![r].prompt = c.prompt, ![r].enabled = c.on, ![r].here = TRUE,
                                         ![r].fields = @ \cup c.fields]
    [] c.kind = "enable" -> [server EXCEPT ![r] = [@ EXCEPT !.enabled = c.on]]
    [] c.kind = "delete" -> [server EXCEPT ![r] = Nothing]
    [] OTHER -> server

Served ==
  \E c \in calls :
    /\ CanServe(c)
    /\ LET r == Created(c)  ok == c.id = None \/ server[c.id].here IN
       /\ server' = IF ok THEN Stored(c) ELSE server
       /\ calls' = (calls \ {c}) \cup {[c EXCEPT !.at = IF ok THEN "ok" ELSE "failed", !.id = r]}
       /\ promised' = IF ok /\ c.kind = "save" THEN [promised EXCEPT ![r] = None] ELSE promised
    /\ UNCHANGED <<place, pane, dialog, form, boxes, local, shown, due, trail, left>>

(* FireDue(): the schedule starts a run of an enabled routine, with the      *)
(* prompt the server has.                                                    *)
Fires(r) ==
  /\ server[r].here /\ server[r].enabled /\ left.runs > 0
  /\ left' = [left EXCEPT !.runs = @ - 1]
  /\ UNCHANGED <<place, pane, dialog, form, boxes, local, promised, shown, server, calls, due, trail>>

(* A fault for the runs to find: the answer leaves the form open. *)
Settled_KeepsDialog(c) == dialog

(* What the page does with an answer, before it reads everything again. *)
Settled(c) == IF c.kind \in {"save", "delete"} /\ c.at = "ok" THEN None ELSE dialog

Answer ==
  \E c \in calls :
    /\ c.at # "sent"
    /\ calls' = calls \ {c}
    /\ dialog' = Settled(c)
    /\ form' = IF Settled(c) = None THEN NoForm
               ELSE IF c.kind = "save" /\ c.at = "ok" THEN [form EXCEPT !.editing = None] ELSE form
    /\ place' = IF c.at # "ok" THEN place
                ELSE IF c.kind = "save" THEN [place EXCEPT !.active = c.id]
                ELSE IF c.kind = "delete" THEN [place EXCEPT !.active = None, !.view = "schedule", !.tab = "routines"]
                ELSE place
    /\ UNCHANGED <<pane, boxes, local, promised, shown, server, due, trail, left>>

(* hydrate(), after a write or on an event of the server. *)
Hydrated == shown # server /\ shown' = server
            /\ UNCHANGED <<place, pane, dialog, form, boxes, local, promised, server, calls, due, trail, left>>

Next ==
  \/ \E c \in Offered : Click(c)
  \/ \E r \in Routines : Fires(r)
  \/ PopRoute \/ RunTimer \/ Served \/ Answer \/ Hydrated

Spec == Init /\ [][Next]_vars

-----------------------------------------------------------------------------
(* However late the answer of an earlier save comes, a form saves to the     *)
(* routine it was opened for: an edit never makes a second routine           *)
(* (use-live-workspace.ts saveAuto9 clears the target when it is answered).  *)
FormKeepsItsRoutine == dialog = "form" => form.editing = form.for

(* "The short prompt is the first line of one" (v19.js): what is sent is the *)
(* first line of the document the form shows, whatever pages, presets, texts *)
(* and earlier documents came before, and it goes to the routine the form    *)
(* was opened for (afNext16, commitInstr, saveAuto9).                        *)
SavedAsShown ==
  \A c \in calls :
    c.kind = "save" /\ c.at = "sent" =>
      c.id = c.for /\ FirstLine[c.seen] \in {Blank, c.prompt}

(* Both: what a member sees and saves reaches the routine it is about.       *)
SavesGoWhereShown == FormKeepsItsRoutine /\ SavedAsShown

(* That what is sent always has a line in the document shown does not hold:  *)
(* a document of headings sends the prompt of before (commitInstr).          *)
NothingElseIsSent ==
  \A c \in calls : c.kind = "save" /\ c.at = "sent" => c.prompt \in {c.seen, FirstLine[c.seen]}

(* "The routine form always opens on its first page, with a fresh document"  *)
(* (v19.js openAutoForm9) does not hold: a new routine opens on what the last*)
(* one left, and an edit on the document of the routine that is open.        *)
OpensOnItsOwn ==
  [][\A r \in Routines \cup {None} :
       EditForm(r) => Instr' = IF r = None THEN Brief ELSE Page(r)]_vars

(* "Instructions saved. Future runs use this version." (v19.js               *)
(* rtEditSave16): a run started after the page said so is given a line of    *)
(* them.                                                                     *)
FutureRunsUseThisVersion ==
  [][\A r \in Routines :
       Fires(r) /\ promised[r] # None => server[r].prompt \in {promised[r], FirstLine[promised[r]]}]_vars
=============================================================================
