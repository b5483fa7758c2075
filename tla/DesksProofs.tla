------------------------------ MODULE DesksProofs ------------------------------
(***************************************************************************)
(* The desks of the web application: an issue beside its conversation      *)
(* (IssueDesk), the routines (RoutineDesk) and the threads of an issue's   *)
(* runs (RunThreads), for any members, files, recordings, routines, runs,  *)
(* transcripts, texts and bounds.  The theorems are about Spec, the        *)
(* behaviours that TLC explores; I!, R! and T! name the three modules.     *)
(***************************************************************************)
EXTENDS MCDesks, TLAPS

-------------------------------------------------------------------------------
(* The issue desk.                                                           *)

OfIssues(f) == f = [i \in I!AllIssues |-> f[i]]

\* A closed issue keeps no open review, the issues still to be made included.
ClosedIsSettled == \A i \in I!AllIssues : status[i] \in I!Closed => I!Decision(i) # "open"

\* The gate stores a snapshot only when the files are opened.
StoredIsSeen == snapshot # {} => Issue \in seen

IssueInv ==
  /\ OfIssues(status) /\ OfIssues(review)
  /\ ClosedIsSettled /\ StoredIsSeen
  /\ I!FileIsOfThisConversation /\ I!MergedWasOpened

-------------------------------------------------------------------------------
(* The routine desk.                                                         *)

IsForm(f) ==
  f = [editing |-> f.editing, for |-> f.for, step |-> f.step, page |-> f.page, prompt |-> f.prompt,
       typed |-> f.typed, titled |-> f.titled, enabled |-> f.enabled, fields |-> f.fields]

IsCall(c) ==
  c = [kind |-> c.kind, id |-> c.id, on |-> c.on, prompt |-> c.prompt, seen |-> c.seen,
       for |-> c.for, fields |-> c.fields, at |-> c.at]

RoutineInv ==
  /\ IsForm(form) /\ \A c \in calls : IsCall(c)
  /\ R!FormKeepsItsRoutine /\ R!SavedAsShown

IInv == IssueInv /\ RoutineInv
-------------------------------------------------------------------------------
(* The steps of the issue desk.                                              *)

\* A step that writes nothing to an issue, and leaves no file of another
\* conversation open.
LEMMA LookingKeepsIssueInv ==
  ASSUME IssueInv, UNCHANGED live, UNCHANGED <<status, review, snapshot, seen>>, I!FileIsOfThisConversation'
  PROVE  IssueInv'
BY DEF IssueInv, OfIssues, ClosedIsSettled, StoredIsSeen, I!MergedWasOpened, I!Decision

\* Going somewhere else closes the file; the list shows none.
LEMMA GoingKeepsIssueInv ==
  ASSUME IssueInv, UNCHANGED live,
         \/ \E i : I!OpenIssue(i) \/ I!Back(i)
         \/ I!OpenChat \/ I!AllConversations \/ \E m : I!SwitchMember(m)
  PROVE  IssueInv'
<1>1. UNCHANGED <<status, review, snapshot, seen>>
  BY DEF I!OpenIssue, I!Back, I!OpenChat, I!Going, I!AllConversations, I!SwitchMember, I!record
<1>2. live \/ file' = I!NoFile \/ at' = "none"
  BY DEF I!OpenIssue, I!Back, I!OpenChat, I!AllConversations, I!SwitchMember, I!Shown
<1>3. I!FileIsOfThisConversation'
  BY <1>2 DEF I!FileIsOfThisConversation, I!FileBelongs
<1> QED
  BY <1>1, <1>3, LookingKeepsIssueInv

\* The tabs, the sections, the dialogs and the player; a file that is opened
\* is one of the conversation on screen.
LEMMA InspectingKeepsIssueInv ==
  ASSUME IssueInv, UNCHANGED live,
         \/ \E n : I!Inspect(n) \/ I!SelectFile(n) \/ I!FileSection(n) \/ I!WorkflowNowAction(n)
         \/ I!PrOpenDetail \/ I!PrCloseDetail \/ I!PrCommit \/ I!CloseFile
         \/ \E n : I!OpenDialog(n)
         \/ I!CloseDialog \/ I!CompactContext
         \/ I!BpToggle \/ I!BpNext \/ I!BpReplay \/ I!BpExpand \/ I!BpTick
         \/ \E n : I!BpRunPick(n) \/ I!BpGo(n)
         \/ UNCHANGED issueVars
  PROVE  IssueInv'
<1>1. /\ UNCHANGED <<status, review, snapshot, seen, at>>
      /\ file' \in {file, I!NoFile} \/ \E n : file' = <<at, n>>
  <2>1. CASE \E n : I!Inspect(n) \/ I!SelectFile(n) \/ I!FileSection(n) \/ I!WorkflowNowAction(n)
    BY <2>1 DEF I!Inspect, I!SelectFile, I!FileSection, I!WorkflowNowAction, I!record
  <2>2. CASE I!PrOpenDetail \/ I!PrCloseDetail \/ I!PrCommit \/ I!CloseFile
    BY <2>2 DEF I!PrOpenDetail, I!PrCloseDetail, I!PrCommit, I!CloseFile, I!record
  <2>3. CASE (\E n : I!OpenDialog(n)) \/ I!CloseDialog \/ I!CompactContext
    BY <2>3 DEF I!OpenDialog, I!CloseDialog, I!CompactContext, I!desk, I!record
  <2>4. CASE I!BpToggle \/ I!BpNext \/ I!BpReplay \/ I!BpExpand \/ I!BpTick
    BY <2>4 DEF I!BpToggle, I!BpNext, I!BpReplay, I!BpExpand, I!BpTick, I!PlayerOnly, I!desk, I!record
  <2>5. CASE \E n : I!BpRunPick(n) \/ I!BpGo(n)
    BY <2>5 DEF I!BpRunPick, I!BpGo, I!PlayerOnly, I!desk, I!record
  <2>6. CASE UNCHANGED issueVars
    BY <2>6 DEF issueVars
  <2> QED
    BY <2>1, <2>2, <2>3, <2>4, <2>5, <2>6
<1>2. I!FileIsOfThisConversation'
  BY <1>1 DEF IssueInv, I!FileIsOfThisConversation, I!FileBelongs
<1> QED
  BY <1>1, <1>2, LookingKeepsIssueInv

\* Opening the files of a pull request is the one way to a stored snapshot.
LEMMA ViewingKeepsIssueInv ==
  ASSUME IssueInv, UNCHANGED live, I!OpenResult \/ \E s : I!PrSection(s)
  PROVE  IssueInv'
<1>1. CASE I!MarkViewed
  <2>1. UNCHANGED <<status, review, at, file>>
    BY <1>1 DEF I!MarkViewed, I!OpenResult, I!PrSection
  <2>2. seen \subseteq seen' /\ StoredIsSeen'
    BY <1>1 DEF I!MarkViewed, I!HasPR, IssueInv, StoredIsSeen
  <2> QED
    BY <2>1, <2>2 DEF IssueInv, OfIssues, ClosedIsSettled, I!Decision, I!FileIsOfThisConversation, I!FileBelongs,
                      I!MergedWasOpened
<1>2. CASE UNCHANGED <<status, review, snapshot, seen, at, file>>
  BY <1>2, LookingKeepsIssueInv DEF IssueInv, I!FileIsOfThisConversation, I!FileBelongs
<1> QED
  BY <1>1, <1>2 DEF I!OpenResult, I!PrSection, I!record

\* What a step that writes status and review has to keep.
LEMMA WritingKeepsIssueInv ==
  ASSUME IssueInv, UNCHANGED live, UNCHANGED <<snapshot, seen, at, file>>,
         OfIssues(status)', OfIssues(review)', ClosedIsSettled',
         status'[Issue] = "Merged dev" => Issue \in seen
  PROVE  IssueInv'
BY DEF IssueInv, StoredIsSeen, I!FileIsOfThisConversation, I!FileBelongs, I!MergedWasOpened

\* Closing an issue settles its review; any other status opens none.
LEMMA StatusKeepsIssueInv ==
  ASSUME IssueInv, UNCHANGED live, NEW s, I!ChangeStatus(s)
  PROVE  IssueInv'
<1> USE DEF IssueInv, OfIssues
<1>1. CASE s = "Merged dev"
  <2>1. UNCHANGED <<status, review, snapshot, seen, at, file>>
    BY <1>1 DEF I!ChangeStatus, I!record
  <2> QED
    BY <2>1, LookingKeepsIssueInv DEF I!FileIsOfThisConversation, I!FileBelongs
<1>2. CASE s # "Merged dev"
  <2>1. /\ status' = [status EXCEPT ![at] = s] /\ review' = I!Settled(at, s)
        /\ UNCHANGED <<snapshot, seen, at, file>>
    BY <1>2 DEF I!ChangeStatus
  <2>2. OfIssues(status)' /\ \A i \in I!AllIssues : status'[i] = IF i = at THEN s ELSE status[i]
    BY <2>1
  <2>3. OfIssues(review)' /\ \A i \in I!AllIssues : i # at => review'[i] = review[i]
    BY <2>1 DEF I!Settled, I!Resolved
  <2>4. ASSUME at \in I!AllIssues, s \in I!Closed PROVE review'[at] # "open"
    <3>1. s \in {"Done", "Canceled"}
      BY <1>2, <2>4 DEF I!Closed
    <3>2. CASE I!Decision(at) = "none"
      BY <2>1, <3>1, <3>2 DEF I!Settled, I!Decision
    <3>3. CASE I!Decision(at) # "none"
      BY <2>1, <3>1, <3>3, <2>4 DEF I!Settled, I!Resolved
    <3> QED
      BY <3>2, <3>3
  <2>5. ClosedIsSettled'
    BY <2>2, <2>3, <2>4 DEF ClosedIsSettled, I!Decision, I!Closed
  <2>6. status'[Issue] = "Merged dev" => Issue \in seen
    BY <1>2, <2>2 DEF I!AllIssues, I!MergedWasOpened
  <2> QED
    BY <2>1, <2>2, <2>3, <2>5, <2>6, WritingKeepsIssueInv
<1> QED
  BY <1>1, <1>2

\* An assignment stores the review that was implied, which a closed issue
\* has none of.
LEMMA AssigningKeepsIssueInv ==
  ASSUME IssueInv, UNCHANGED live, NEW m, I!ChangeAssignee(m)
  PROVE  IssueInv'
<1> USE DEF IssueInv, OfIssues
<1>1. /\ status' = [status EXCEPT ![at] = IF status[at] = "Running" THEN "Paused" ELSE status[at]]
      /\ review' = [review EXCEPT ![at] = I!Decision(at)]
      /\ UNCHANGED <<snapshot, seen, at, file>>
  BY DEF I!ChangeAssignee, I!desk
<1>2. /\ OfIssues(status)'
      /\ \A i \in I!AllIssues : status'[i] = status[i] \/ (status[i] = "Running" /\ status'[i] = "Paused")
  BY <1>1
<1>3. /\ OfIssues(review)'
      /\ \A i \in I!AllIssues : review'[i] = IF i = at THEN I!Decision(i) ELSE review[i]
  BY <1>1
<1>4. ClosedIsSettled'
  BY <1>2, <1>3 DEF ClosedIsSettled, I!Decision, I!Closed
<1>5. status'[Issue] = "Merged dev" => Issue \in seen
  BY <1>2 DEF I!AllIssues, I!MergedWasOpened
<1> QED
  BY <1>1, <1>2, <1>3, <1>4, <1>5, WritingKeepsIssueInv

\* The result of a run reopens nothing that is closed: it is ready then.
LEMMA RunEndKeepsIssueInv ==
  ASSUME IssueInv, UNCHANGED live, NEW i \in I!AllIssues, I!RunEnds(i)
  PROVE  IssueInv'
<1> USE DEF IssueInv, OfIssues
<1>1. status' = [status EXCEPT ![i] = "Ready for review"] /\ UNCHANGED <<review, snapshot, seen, at, file>>
  BY DEF I!RunEnds, I!desk
<1>2. OfIssues(status)' /\ \A k \in I!AllIssues : status'[k] = IF k = i THEN "Ready for review" ELSE status[k]
  BY <1>1
<1>3. ClosedIsSettled'
  BY <1>1, <1>2 DEF ClosedIsSettled, I!Decision, I!Closed
<1>4. status'[Issue] = "Merged dev" => Issue \in seen
  BY <1>2 DEF I!AllIssues, I!MergedWasOpened
<1> QED
  BY <1>1, <1>2, <1>3, <1>4, WritingKeepsIssueInv

\* A merge needs the snapshot that says the files were looked at.
LEMMA MergeKeepsIssueInv ==
  ASSUME IssueInv, UNCHANGED live, I!ConfirmMerge
  PROVE  IssueInv'
<1> USE DEF IssueInv, OfIssues
<1>1. UNCHANGED <<snapshot, seen, at, file>>
  BY DEF I!ConfirmMerge
<1>2. CASE UNCHANGED <<status, review>>
  BY <1>1, <1>2, LookingKeepsIssueInv DEF I!FileIsOfThisConversation, I!FileBelongs
<1>3. CASE I!Gate /\ status' = [status EXCEPT ![at] = "Merged dev"]
           /\ review' = IF review[at] = "none" THEN review ELSE I!Resolved(review, at)
  <2>1. at = Issue /\ Issue \in I!AllIssues
    BY <1>3 DEF I!Gate, I!HasPR, I!AllIssues
  <2>2. Issue \in seen
    <3>1. snapshot # {}
      BY <1>3 DEF I!Gate, I!Snapshot
    <3> QED
      BY <3>1 DEF StoredIsSeen
  <2>3. OfIssues(status)' /\ \A k \in I!AllIssues : status'[k] = IF k = at THEN "Merged dev" ELSE status[k]
    BY <1>3
  <2>4. /\ OfIssues(review)'
        /\ \A k \in I!AllIssues : k # at => review'[k] = review[k]
        /\ review'[at] # "open"
    BY <1>3, <2>1 DEF I!Resolved
  <2>5. ClosedIsSettled'
    BY <2>3, <2>4 DEF ClosedIsSettled, I!Decision
  <2> QED
    BY <1>1, <2>2, <2>3, <2>4, <2>5, WritingKeepsIssueInv
<1> QED
  BY <1>2, <1>3 DEF I!ConfirmMerge

\* Requested changes resolve the review of the dialog's issue and reopen the
\* issue on screen.
LEMMA ChangesKeepIssueInv ==
  ASSUME IssueInv, UNCHANGED live, I!ConfirmChanges
  PROVE  IssueInv'
<1> USE DEF IssueInv, OfIssues
<1>1. /\ review' = [review EXCEPT ![dialog.on] = "resolved"]
      /\ status' = [status EXCEPT ![at] = "Incoming"]
      /\ UNCHANGED <<snapshot, seen, at, file>>
  BY DEF I!ConfirmChanges, I!Resolved, I!desk
<1>2. OfIssues(status)' /\ \A k \in I!AllIssues : status'[k] = IF k = at THEN "Incoming" ELSE status[k]
  BY <1>1
<1>3. OfIssues(review)' /\ \A k \in I!AllIssues : review'[k] = review[k] \/ review'[k] = "resolved"
  BY <1>1
<1>4. ClosedIsSettled'
  BY <1>2, <1>3 DEF ClosedIsSettled, I!Decision, I!Closed
<1>5. status'[Issue] = "Merged dev" => Issue \in seen
  BY <1>2 DEF I!AllIssues, I!MergedWasOpened
<1> QED
  BY <1>1, <1>2, <1>3, <1>4, <1>5, WritingKeepsIssueInv

\* An issue made from another or from a chat; the second opens at once.
LEMMA MakingKeepsIssueInv ==
  ASSUME IssueInv, UNCHANGED live, I!ConfirmSubissue \/ I!ConfirmPromote
  PROVE  IssueInv'
<1>1. UNCHANGED <<status, review, snapshot, seen>>
  BY DEF I!ConfirmSubissue, I!ConfirmPromote
<1>2. UNCHANGED <<at, file>> \/ file' = I!NoFile
  BY DEF I!ConfirmSubissue, I!ConfirmPromote, I!desk
<1>3. I!FileIsOfThisConversation'
  BY <1>2 DEF IssueInv, I!FileIsOfThisConversation, I!FileBelongs
<1> QED
  BY <1>1, <1>3, LookingKeepsIssueInv

LEMMA IssueStep ==
  ASSUME IssueInv, I!Next \/ UNCHANGED issueVars
  PROVE  IssueInv'
<1>0. UNCHANGED live
  BY DEF I!Next, issueVars
<1>1. ASSUME NEW c, I!Click(c) PROVE IssueInv'
  <2>1. \/ I!AllConversations
        \/ \E n : I!Inspect(n) \/ I!SelectFile(n) \/ I!FileSection(n) \/ I!WorkflowNowAction(n)
        \/ I!PrOpenDetail \/ I!PrCloseDetail \/ I!PrCommit \/ I!CloseFile
        \/ \E n : I!OpenDialog(n)
        \/ I!CloseDialog \/ I!CompactContext
        \/ I!BpToggle \/ I!BpNext \/ I!BpReplay \/ I!BpExpand
        \/ \E n : I!BpRunPick(n) \/ I!BpGo(n)
        \/ I!OpenResult \/ \E s : I!PrSection(s)
        \/ \E s : I!ChangeStatus(s)
        \/ \E m : I!ChangeAssignee(m)
        \/ I!ConfirmMerge \/ I!ConfirmChanges \/ I!ConfirmSubissue \/ I!ConfirmPromote
    BY <1>1 DEF I!Click
  <2> QED
    BY <1>0, <2>1, GoingKeepsIssueInv, InspectingKeepsIssueInv, ViewingKeepsIssueInv, StatusKeepsIssueInv,
       AssigningKeepsIssueInv, MergeKeepsIssueInv, ChangesKeepIssueInv, MakingKeepsIssueInv
<1> QED
  BY <1>0, <1>1, GoingKeepsIssueInv, InspectingKeepsIssueInv, RunEndKeepsIssueInv DEF I!Next
-------------------------------------------------------------------------------
(* The steps of the routine desk.                                            *)

\* A request to save goes to the routine its form was opened for, with the
\* first line of the document the form showed, if that has one.
SaysWhatWasShown(c) ==
  c.kind = "save" /\ c.at = "sent" => c.id = c.for /\ FirstLine[c.seen] \in {R!Blank, c.prompt}

GoodCall(c) == IsCall(c) /\ SaysWhatWasShown(c)

GoodForm == IsForm(form) /\ R!FormKeepsItsRoutine

\* A form that was changed but not turned to another routine.
SameTarget(f) == IsForm(f) /\ f.editing = form.editing /\ f.for = form.for

LEMMA RoutineInvParts == RoutineInv <=> GoodForm /\ \A c \in calls : GoodCall(c)
BY DEF RoutineInv, GoodForm, GoodCall, SaysWhatWasShown, R!SavedAsShown

LEMMA FormFields ==
  ASSUME NEW f, SameTarget(f), NEW x
  PROVE  /\ SameTarget([f EXCEPT !.step = x]) /\ SameTarget([f EXCEPT !.page = x])
         /\ SameTarget([f EXCEPT !.prompt = x]) /\ [f EXCEPT !.prompt = x].prompt = x
         /\ SameTarget([f EXCEPT !.typed = x]) /\ SameTarget([f EXCEPT !.titled = x])
         /\ SameTarget([f EXCEPT !.fields = x])
BY DEF SameTarget, IsForm

\* Turning a form to its pages.
LEMMA TurnedForm ==
  ASSUME NEW f, SameTarget(f), NEW s, NEW p
  PROVE  SameTarget([f EXCEPT !.step = s, !.page = p]) /\ SameTarget([f EXCEPT !.page = p, !.step = s])
<1> DEFINE a == [f EXCEPT !.step = s]
           b == [f EXCEPT !.page = p]
<1>1. SameTarget(a) /\ SameTarget(b)
  BY FormFields
<1>2. /\ [f EXCEPT !.step = s, !.page = p] = [a EXCEPT !.page = p]
      /\ [f EXCEPT !.page = p, !.step = s] = [b EXCEPT !.step = s]
  OBVIOUS
<1> HIDE DEF a, b
<1>3. SameTarget([a EXCEPT !.page = p]) /\ SameTarget([b EXCEPT !.step = s])
  BY <1>1, FormFields
<1> QED
  BY <1>2, <1>3

\* A request by its parts, and with another part.
CallIs(c, k, i, o, p, s, t, f, a) ==
  c = [kind |-> k, id |-> i, on |-> o, prompt |-> p, seen |-> s, for |-> t, fields |-> f, at |-> a]

LEMMA CallFields ==
  ASSUME NEW c, NEW k, NEW i, NEW o, NEW p, NEW s, NEW t, NEW f, NEW a,
         CallIs(c, k, i, o, p, s, t, f, a), NEW x
  PROVE  /\ CallIs([c EXCEPT !.on = x], k, i, x, p, s, t, f, a)
         /\ CallIs([c EXCEPT !.prompt = x], k, i, o, x, s, t, f, a)
         /\ CallIs([c EXCEPT !.seen = x], k, i, o, p, x, t, f, a)
         /\ CallIs([c EXCEPT !.for = x], k, i, o, p, s, x, f, a)
         /\ CallIs([c EXCEPT !.fields = x], k, i, o, p, s, t, x, a)
BY DEF CallIs

LEMMA FreshForm == IsForm(R!NoForm) /\ R!NoForm.editing = R!NoForm.for
BY DEF R!NoForm, IsForm

\* Steps that send nothing and leave the form alone or close it.
LEMMA ScreenKeepsRoutineInv ==
  ASSUME RoutineInv, NEW d \in {box, None, "file"}, box' = d, UNCHANGED calls,
         form' = IF d = None THEN R!NoForm ELSE form
  PROVE  RoutineInv'
<1>1. \A c \in calls' : GoodCall(c)
  BY RoutineInvParts
<1>2. IsForm(form') /\ R!FormKeepsItsRoutine'
  BY RoutineInvParts, FreshForm DEF GoodForm, R!FormKeepsItsRoutine
<1> QED
  BY <1>1, <1>2 DEF RoutineInv, GoodCall, SaysWhatWasShown, R!SavedAsShown

\* Steps that leave the form to the routine it was opened for.
LEMMA FormKeepsRoutineInv ==
  ASSUME RoutineInv, UNCHANGED <<box, calls>>, SameTarget(form')
  PROVE  RoutineInv'
BY DEF RoutineInv, SameTarget, R!FormKeepsItsRoutine, R!SavedAsShown

\* Steps that send a request or settle one.
LEMMA CallsKeepRoutineInv ==
  ASSUME RoutineInv, UNCHANGED <<box, form>>, \A c \in calls' : GoodCall(c)
  PROVE  RoutineInv'
BY DEF RoutineInv, R!FormKeepsItsRoutine, R!SavedAsShown, GoodCall, SaysWhatWasShown

\* Looking around: places, records, editors, and back and forward.
LEMMA LookingKeepsRoutineInv ==
  ASSUME RoutineInv,
         \/ \E r : R!OpenAuto(r) \/ R!Nav(r) \/ R!RunNow(r) \/ R!Fires(r)
         \/ \E p, i : R!Show(p, i, box) \/ R!Show(p, i, "file")
         \/ \E p : R!Screen(p, record, box)
         \/ \E b, l, q : R!Boxed(b, l, q)
         \/ R!EditStart \/ R!EditSave \/ R!ArchiveRoutine \/ R!PopRoute \/ R!Hydrated
         \/ UNCHANGED routineVars
  PROVE  RoutineInv'
<1>1. ASSUME NEW p, NEW i, NEW d \in {box, None, "file"}, R!Screen(p, i, d)
      PROVE  RoutineInv'
  <2>1. box' = d /\ UNCHANGED calls /\ form' = IF d = None THEN R!NoForm ELSE form
    BY <1>1 DEF R!Screen
  <2> QED
    BY <2>1, ScreenKeepsRoutineInv
<1>2. CASE \E p, i : \E d \in {box, None, "file"} : R!Screen(p, i, d)
  BY <1>1, <1>2
<1>3. ASSUME UNCHANGED <<box, form, calls>>
      PROVE  RoutineInv'
  BY <1>3 DEF RoutineInv, R!FormKeepsItsRoutine, R!SavedAsShown
<1>4. CASE \E r : R!RunNow(r) \/ R!Fires(r)
  BY <1>3, <1>4 DEF R!RunNow, R!Fires
<1>5. CASE \/ \E b, l, q : R!Boxed(b, l, q)
           \/ R!EditStart \/ R!EditSave \/ R!ArchiveRoutine \/ R!Hydrated
           \/ UNCHANGED routineVars
  BY <1>3, <1>5 DEF R!Boxed, R!EditStart, R!EditSave, R!ArchiveRoutine, R!Hydrated, routineVars
<1>6. CASE (\E r : R!OpenAuto(r) \/ R!Nav(r)) \/ R!PopRoute
  BY <1>2, <1>6 DEF R!OpenAuto, R!Nav, R!PopRoute
<1>7. CASE \E p, i : R!Show(p, i, box) \/ R!Show(p, i, "file")
  BY <1>2, <1>7 DEF R!Show
<1>8. CASE \E p : R!Screen(p, record, box)
  BY <1>2, <1>8
<1> QED
  BY <1>4, <1>5, <1>6, <1>7, <1>8

\* Requests that do not save.
LEMMA AskingKeepsRoutineInv ==
  ASSUME RoutineInv,
         (\E r : R!Toggle(r)) \/ (\E d : R!RunAuto(d)) \/ R!RunTimer \/ R!ConfirmDelete
  PROVE  RoutineInv'
<1>1. ASSUME NEW k \in {"enable", "trigger", "delete"}, NEW r, NEW on
      PROVE  GoodCall(R!Call(k, r)) /\ GoodCall([R!Call(k, r) EXCEPT !.on = on])
  BY DEF R!Call, GoodCall, IsCall, SaysWhatWasShown
<1>2. UNCHANGED <<box, form>>
  BY DEF R!Toggle, R!RunAuto, R!RunTimer, R!ConfirmDelete, R!Still
<1>3. \A c \in calls' : GoodCall(c)
  <2>1. \A c \in calls : GoodCall(c)
    BY RoutineInvParts
  <2>2. CASE \E r : R!Toggle(r)
    <3>1. PICK r : calls' = calls \cup {[R!Call("enable", r) EXCEPT !.on = ~shown[r].enabled]}
      BY <2>2 DEF R!Toggle, R!Send
    <3> DEFINE on == ~shown[r].enabled
    <3> HIDE DEF on
    <3>2. GoodCall([R!Call("enable", r) EXCEPT !.on = on])
      BY <1>1
    <3> QED
      BY <3>1, <3>2, <2>1 DEF on
  <2>3. CASE (\E d : R!RunAuto(d)) \/ R!RunTimer
    <3>1. calls' = calls \/ calls' = calls \cup {R!Call("trigger", place.active)}
      BY <2>3 DEF R!RunTimer, R!RunAuto, R!Send
    <3>2. GoodCall(R!Call("trigger", place.active))
      BY <1>1
    <3> QED
      BY <3>1, <3>2, <2>1
  <2>4. CASE R!ConfirmDelete
    <3>1. calls' = calls \cup {R!Call("delete", form.for)}
      BY <2>4 DEF R!ConfirmDelete, R!Send
    <3> QED
      BY <3>1, <2>1, <1>1
  <2> QED
    BY <2>2, <2>3, <2>4
<1> QED
  BY <1>2, <1>3, CallsKeepRoutineInv

\* Opening, turning, filling and closing the form.
LEMMA FormingKeepsRoutineInv ==
  ASSUME RoutineInv,
         \/ \E r : R!EditForm(r) \/ R!AskDelete(r) \/ R!FormStep(r)
         \/ \E x : \/ R!FormText([form EXCEPT !.prompt = x, !.titled = TRUE])
                   \/ R!FormText([form EXCEPT !.prompt = x, !.titled = FALSE])
                   \/ R!FormText([form EXCEPT !.titled = x])
                   \/ R!FormText([form EXCEPT !.fields = x])
                   \/ R!FormText([form EXCEPT !.typed = x])
         \/ R!Back \/ R!Closing
  PROVE  RoutineInv'
<1>0. SameTarget(form)
  BY DEF RoutineInv, SameTarget
<1>1. ASSUME NEW r, R!EditForm(r) PROVE RoutineInv'
  <2>1. UNCHANGED calls /\ form' = R!OpenForm(r)
    BY <1>1 DEF R!EditForm
  <2>2. IsForm(form') /\ form'.editing = form'.for
    <3> DEFINE f(prompt, enabled) ==
          [editing |-> r, for |-> r, step |-> "setup", page |-> "what", prompt |-> prompt,
           typed |-> None, titled |-> TRUE, enabled |-> enabled, fields |-> {}]
    <3>1. CASE r = None
      <4>1. form' = f(R!Brief, TRUE)
        BY <2>1, <3>1 DEF R!OpenForm, R!NoForm
      <4> QED
        BY <4>1 DEF IsForm
    <3>2. CASE r # None
      <4>1. form' = f(shown[r].prompt, shown[r].enabled)
        BY <2>1, <3>2 DEF R!OpenForm, R!NoForm
      <4> QED
        BY <4>1 DEF IsForm
    <3> QED
      BY <3>1, <3>2
  <2> QED
    BY <2>1, <2>2 DEF RoutineInv, R!FormKeepsItsRoutine, R!SavedAsShown
<1>2. ASSUME NEW r, R!AskDelete(r) PROVE RoutineInv'
  <2>1. UNCHANGED calls /\ form' = [R!NoForm EXCEPT !.for = r] /\ box' = "delete"
    BY <1>2 DEF R!AskDelete, R!Changed
  <2>2. IsForm(form')
    BY <2>1 DEF R!NoForm, IsForm
  <2> QED
    BY <2>1, <2>2 DEF RoutineInv, R!FormKeepsItsRoutine, R!SavedAsShown
<1>3. ASSUME NEW p, R!FormStep(p) PROVE RoutineInv'
  BY <1>0, <1>3, TurnedForm, FormKeepsRoutineInv DEF R!FormStep, R!Changed
<1>4. ASSUME NEW f, SameTarget(f), R!FormText(f) PROVE RoutineInv'
  BY <1>4, FormKeepsRoutineInv DEF R!FormText
<1>5. \A x : /\ SameTarget([form EXCEPT !.titled = x]) /\ SameTarget([form EXCEPT !.fields = x])
             /\ SameTarget([form EXCEPT !.typed = x])
  BY <1>0, FormFields
<1>6. ASSUME NEW x, NEW t PROVE SameTarget([form EXCEPT !.prompt = x, !.titled = t])
  <2> DEFINE f == [form EXCEPT !.prompt = x]
  <2>1. SameTarget(f) /\ [form EXCEPT !.prompt = x, !.titled = t] = [f EXCEPT !.titled = t]
    BY <1>0, FormFields
  <2> HIDE DEF f
  <2> QED
    BY <2>1, FormFields
<1>7. CASE R!Back
  <2>1. \/ box' = None /\ R!Changed(R!NoForm)
        \/ \E p : box' = box /\ R!Changed([form EXCEPT !.page = p, !.step = "setup"])
    BY <1>7 DEF R!Back
  <2>2. CASE box' = None /\ R!Changed(R!NoForm)
    BY <2>2, ScreenKeepsRoutineInv DEF R!Changed
  <2>3. ASSUME NEW p, box' = box, R!Changed([form EXCEPT !.page = p, !.step = "setup"]) PROVE RoutineInv'
    BY <1>0, <2>3, TurnedForm, FormKeepsRoutineInv DEF R!Changed
  <2> QED
    BY <2>1, <2>2, <2>3
<1>8. CASE R!Closing
  BY <1>8, ScreenKeepsRoutineInv DEF R!Closing, R!Changed
<1> QED
  BY <1>1, <1>2, <1>3, <1>4, <1>5, <1>6, <1>7, <1>8

\* Only the form's own foot leads on.
LEMMA NextIsOfTheForm ==
  ASSUME NEW c \in R!Offered, c[1] = "next"
  PROVE  box = "form"
<1>1. c \notin R!FileViewer
  BY DEF R!FileViewer, R!FileSteps, R!FileStrip
<1>2. c \notin {<<"confirm">>, <<"close">>} /\ c # <<"schedule">>
  OBVIOUS
<1>3. c \notin R!Head \cup R!UpcomingRows \cup R!RoutineRows \cup R!HistoryRows
  BY DEF R!Head, R!UpcomingRows, R!RoutineRows, R!HistoryRows, R!RowMenu
<1>4. c \notin R!PageHead \cup R!PageTabs \cup R!Definitions \cup R!Instructions \cup R!RunRows
  BY DEF R!PageHead, R!PageTabs, R!Definitions, R!Instructions, R!RunRows
<1>5. c \notin R!Record
  BY DEF R!Record, R!RecordTabs, R!RecordOverview, R!RecordThread, R!RecordFiles
<1> QED
  BY <1>1, <1>2, <1>3, <1>4, <1>5 DEF R!Offered

\* The last page of the form sends what it shows.
LEMMA NextKeepsRoutineInv ==
  ASSUME RoutineInv, box = "form", R!Next16
  PROVE  RoutineInv'
<1> DEFINE prompt == R!Line(R!Instr, form.prompt)
<1>0. SameTarget(form) /\ form.editing = form.for
  BY DEF RoutineInv, SameTarget, R!FormKeepsItsRoutine
<1>1. SameTarget(R!Committed) /\ R!Committed.prompt = prompt
  <2>1. R!Committed = [form EXCEPT !.prompt = prompt]
    BY DEF R!Committed
  <2> HIDE DEF prompt
  <2> QED
    BY <1>0, <2>1, FormFields
<1>2. SameTarget(form') /\ UNCHANGED box
  <2>1. \/ form' = [R!Committed EXCEPT !.page = "when"]
        \/ form' = [R!Committed EXCEPT !.step = "review"]
        \/ form' = R!Committed
    BY DEF R!Next16
  <2>2. UNCHANGED box
    BY DEF R!Next16
  <2> DEFINE f == R!Committed
  <2> HIDE DEF f
  <2>3. SameTarget(f) /\ SameTarget([f EXCEPT !.page = "when"]) /\ SameTarget([f EXCEPT !.step = "review"])
    BY <1>1, FormFields DEF f
  <2> QED
    BY <2>1, <2>2, <2>3 DEF f
<1>3. calls' = calls \/ calls' = calls \cup {R!Saving(R!Committed)}
  BY DEF R!Next16, R!Send
<1>4. GoodCall(R!Saving(R!Committed))
  <2> DEFINE f == R!Committed
  <2>1. f.editing = form.editing /\ f.prompt = prompt
    BY <1>1 DEF SameTarget
  <2>2. R!Saving(f) =
          [kind |-> "save", id |-> f.editing, on |-> f.enabled, prompt |-> f.prompt, seen |-> R!Instr,
           for |-> form.for, fields |-> f.fields \cap R!Sent, at |-> "sent"]
    <3> DEFINE a == R!Call("save", f.editing)
               b == [a EXCEPT !.prompt = f.prompt]
               c == [b EXCEPT !.on = f.enabled]
               d == [c EXCEPT !.seen = R!Instr]
               e == [d EXCEPT !.for = form.for]
               x == f.fields \cap R!Sent
    <3>0. R!Saving(f) = [e EXCEPT !.fields = x]
      BY DEF R!Saving
    <3>1. CallIs(a, "save", f.editing, a.on, a.prompt, a.seen, a.for, a.fields, "sent")
      BY DEF R!Call, CallIs
    <3> HIDE DEF a
    <3>2. CallIs(b, "save", f.editing, a.on, f.prompt, a.seen, a.for, a.fields, "sent")
      BY <3>1, CallFields
    <3> HIDE DEF b
    <3>3. CallIs(c, "save", f.editing, f.enabled, f.prompt, a.seen, a.for, a.fields, "sent")
      BY <3>2, CallFields
    <3> HIDE DEF c
    <3>4. CallIs(d, "save", f.editing, f.enabled, f.prompt, R!Instr, a.for, a.fields, "sent")
      BY <3>3, CallFields
    <3> HIDE DEF d
    <3>5. CallIs(e, "save", f.editing, f.enabled, f.prompt, R!Instr, form.for, a.fields, "sent")
      BY <3>4, CallFields
    <3> HIDE DEF e
    <3> HIDE DEF x
    <3>6. CallIs([e EXCEPT !.fields = x], "save", f.editing, f.enabled, f.prompt, R!Instr, form.for, x, "sent")
      BY <3>5, CallFields
    <3> QED
      BY <3>0, <3>6 DEF CallIs, x
  <2> HIDE DEF f
  <2>3. IsCall(R!Saving(f))
    BY <2>2 DEF IsCall
  <2>4. SaysWhatWasShown(R!Saving(f))
    <3>1. FirstLine[R!Instr] \in {R!Blank, prompt}
      BY DEF R!Line
    <3> HIDE DEF prompt
    <3> QED
      BY <3>1, <2>1, <2>2, <1>0 DEF SaysWhatWasShown
  <2> QED
    BY <2>3, <2>4 DEF GoodCall, f
<1>5. \A c \in calls' : GoodCall(c)
  BY <1>3, <1>4, RoutineInvParts
<1> QED
  BY <1>0, <1>2, <1>5 DEF RoutineInv, SameTarget, R!FormKeepsItsRoutine, R!SavedAsShown, GoodCall, SaysWhatWasShown

\* The server handles a request: it is not one to be handled any more.
LEMMA ServedKeepsRoutineInv ==
  ASSUME RoutineInv, R!Served
  PROVE  RoutineInv'
<1>0. PICK c \in calls, a \in {"ok", "failed"} :
           \E r : /\ calls' = (calls \ {c}) \cup {[c EXCEPT !.at = a, !.id = r]}
                 /\ UNCHANGED <<box, form>>
  BY DEF R!Served
<1>1. PICK r : /\ calls' = (calls \ {c}) \cup {[c EXCEPT !.at = a, !.id = r]}
               /\ UNCHANGED <<box, form>>
  BY <1>0
<1>2. GoodCall(c)
  BY RoutineInvParts
<1> DEFINE k == [c EXCEPT !.at = a]
           d == [k EXCEPT !.id = r]
<1>3. IsCall(k) /\ k.at = a
  BY <1>2 DEF GoodCall, IsCall
<1> HIDE DEF k
<1>4. IsCall(d) /\ d.at = a
  BY <1>3 DEF IsCall
<1>5. GoodCall(d)
  BY <1>4 DEF GoodCall, SaysWhatWasShown
<1>6. [c EXCEPT !.at = a, !.id = r] = d
  BY DEF k
<1>7. \A x \in calls' : GoodCall(x)
  BY <1>1, <1>5, <1>6, RoutineInvParts
<1> QED
  BY <1>1, <1>7, CallsKeepRoutineInv

\* The page handles an answer: one of a save closes the form.
LEMMA AnswerKeepsRoutineInv ==
  ASSUME RoutineInv, R!Answer
  PROVE  RoutineInv'
<1>1. PICK c \in calls :
           /\ calls' = calls \ {c} /\ box' = R!Settled(c)
           /\ form' = IF R!Settled(c) = None THEN R!NoForm
                      ELSE IF c.kind = "save" /\ c.at = "ok" THEN [form EXCEPT !.editing = None] ELSE form
  BY DEF R!Answer
<1>2. form' = IF R!Settled(c) = None THEN R!NoForm ELSE form
  BY <1>1 DEF R!Settled
<1>3. R!Settled(c) \in {box, None}
  BY DEF R!Settled
<1>4. GoodForm'
  BY <1>1, <1>2, <1>3, RoutineInvParts, FreshForm DEF GoodForm, R!FormKeepsItsRoutine
<1>5. \A x \in calls' : GoodCall(x)
  BY <1>1, RoutineInvParts
<1> QED
  BY <1>4, <1>5 DEF RoutineInv, GoodForm, GoodCall, SaysWhatWasShown, R!SavedAsShown

LEMMA RoutineStep ==
  ASSUME RoutineInv, R!Next \/ UNCHANGED routineVars
  PROVE  RoutineInv'
<1>1. ASSUME NEW c \in R!Offered, R!Click(c) PROVE RoutineInv'
  <2>1. \/ \E r : R!OpenAuto(r) \/ R!Nav(r) \/ R!RunNow(r)
        \/ \E p, i : R!Show(p, i, box) \/ R!Show(p, i, "file")
        \/ \E p : R!Screen(p, record, box)
        \/ \E b, l, q : R!Boxed(b, l, q)
        \/ R!EditStart \/ R!EditSave \/ R!ArchiveRoutine
        \/ (\E r : R!Toggle(r)) \/ (\E d : R!RunAuto(d)) \/ R!ConfirmDelete
        \/ \E r : R!EditForm(r) \/ R!AskDelete(r) \/ R!FormStep(r)
        \/ \E x : \/ R!FormText([form EXCEPT !.prompt = x, !.titled = TRUE])
                  \/ R!FormText([form EXCEPT !.prompt = x, !.titled = FALSE])
                  \/ R!FormText([form EXCEPT !.titled = x])
                  \/ R!FormText([form EXCEPT !.fields = x])
                  \/ R!FormText([form EXCEPT !.typed = x])
        \/ R!Back \/ R!Closing
        \/ c[1] = "next" /\ R!Next16
    BY <1>1 DEF R!Click
  <2>2. c[1] = "next" /\ R!Next16 => RoutineInv'
    BY NextIsOfTheForm, NextKeepsRoutineInv
  <2> QED
    BY <2>1, <2>2, LookingKeepsRoutineInv, AskingKeepsRoutineInv, FormingKeepsRoutineInv
<1> QED
  BY <1>1, LookingKeepsRoutineInv, AskingKeepsRoutineInv, ServedKeepsRoutineInv, AnswerKeepsRoutineInv DEF R!Next
-------------------------------------------------------------------------------
LEMMA AlwaysIInv == Spec => []IInv
<1>1. Init => IInv
  <2> SUFFICES ASSUME Init PROVE IInv
    OBVIOUS
  <2>1. I!Init /\ R!Init
    BY DEF Init
  <2>2. IssueInv
    <3>1. /\ status = [i \in I!AllIssues |-> IF i = Issue THEN "Ready for review" ELSE "Incoming"]
          /\ review = [i \in I!AllIssues |-> "none"]
          /\ snapshot = {} /\ at = "none"
      BY <2>1 DEF I!Init
    <3>2. OfIssues(status) /\ OfIssues(review)
      BY <3>1 DEF OfIssues
    <3>3. ClosedIsSettled /\ I!MergedWasOpened
      BY <3>1 DEF ClosedIsSettled, I!Closed, I!MergedWasOpened, I!AllIssues
    <3> QED
      BY <3>1, <3>2, <3>3 DEF IssueInv, StoredIsSeen, I!FileIsOfThisConversation, I!FileBelongs
  <2>3. RoutineInv
    BY <2>1, FreshForm DEF R!Init, RoutineInv, R!FormKeepsItsRoutine, R!SavedAsShown
  <2> QED
    BY <2>2, <2>3 DEF IInv
<1>2. IInv /\ [Next]_vars => IInv'
  BY IssueStep, RoutineStep DEF IInv, Next, vars
<1> QED
  BY <1>1, <1>2, PTL DEF Spec

\* The issues that exist are the two this desk knows.
IssuesAreKnown == issues \subseteq I!AllIssues

LEMMA IssuesOnlyGrow ==
  ASSUME I!Next \/ UNCHANGED issueVars
  PROVE  issues' \in {issues, issues \cup {Made}}
<1>1. CASE \E i : I!OpenIssue(i) \/ I!Back(i) \/ I!RunEnds(i)
  BY <1>1 DEF I!OpenIssue, I!Back, I!Going, I!RunEnds, I!record
<1>2. CASE I!OpenChat \/ I!BpTick \/ \E m : I!SwitchMember(m)
  BY <1>2 DEF I!OpenChat, I!Going, I!BpTick, I!PlayerOnly, I!SwitchMember, I!record
<1>3. ASSUME NEW c, I!Click(c) PROVE issues' \in {issues, issues \cup {Made}}
  <2>1. \/ I!AllConversations
        \/ \E n : I!Inspect(n) \/ I!SelectFile(n) \/ I!FileSection(n) \/ I!WorkflowNowAction(n)
        \/ I!PrOpenDetail \/ I!PrCloseDetail \/ I!PrCommit \/ I!CloseFile
        \/ \E n : I!OpenDialog(n)
        \/ I!CloseDialog \/ I!CompactContext
        \/ I!BpToggle \/ I!BpNext \/ I!BpReplay \/ I!BpExpand
        \/ \E n : I!BpRunPick(n) \/ I!BpGo(n)
        \/ I!OpenResult \/ \E s : I!PrSection(s)
        \/ \E s : I!ChangeStatus(s)
        \/ \E m : I!ChangeAssignee(m)
        \/ I!ConfirmMerge \/ I!ConfirmChanges \/ I!ConfirmSubissue \/ I!ConfirmPromote
    BY <1>3 DEF I!Click
  <2>2. CASE I!AllConversations \/ \E n : I!Inspect(n) \/ I!SelectFile(n) \/ I!FileSection(n) \/ I!WorkflowNowAction(n)
    BY <2>2 DEF I!AllConversations, I!Inspect, I!SelectFile, I!FileSection, I!WorkflowNowAction, I!record
  <2>3. CASE I!PrOpenDetail \/ I!PrCloseDetail \/ I!PrCommit \/ I!CloseFile
    BY <2>3 DEF I!PrOpenDetail, I!PrCloseDetail, I!PrCommit, I!CloseFile, I!record
  <2>4. CASE (\E n : I!OpenDialog(n)) \/ I!CloseDialog \/ I!CompactContext
    BY <2>4 DEF I!OpenDialog, I!CloseDialog, I!CompactContext, I!record
  <2>5. CASE \/ I!BpToggle \/ I!BpNext \/ I!BpReplay \/ I!BpExpand
             \/ \E n : I!BpRunPick(n) \/ I!BpGo(n)
    BY <2>5 DEF I!BpToggle, I!BpNext, I!BpReplay, I!BpExpand, I!BpRunPick, I!BpGo, I!PlayerOnly, I!record
  <2>6. CASE I!OpenResult \/ \E s : I!PrSection(s)
    BY <2>6 DEF I!OpenResult, I!PrSection, I!MarkViewed, I!record
  <2>7. CASE (\E s : I!ChangeStatus(s)) \/ \E m : I!ChangeAssignee(m)
    BY <2>7 DEF I!ChangeStatus, I!ChangeAssignee, I!record
  <2>8. CASE I!ConfirmMerge \/ I!ConfirmChanges \/ I!ConfirmSubissue \/ I!ConfirmPromote
    BY <2>8 DEF I!ConfirmMerge, I!ConfirmChanges, I!ConfirmSubissue, I!ConfirmPromote
  <2> QED
    BY <2>1, <2>2, <2>3, <2>4, <2>5, <2>6, <2>7, <2>8
<1>4. CASE UNCHANGED issueVars
  BY <1>4 DEF issueVars
<1> QED
  BY <1>1, <1>2, <1>3, <1>4 DEF I!Next

LEMMA AlwaysKnown == Spec => []IssuesAreKnown
<1>1. Init => IssuesAreKnown
  BY DEF Init, I!Init, IssuesAreKnown, I!AllIssues
<1>2. IssuesAreKnown /\ [Next]_vars => IssuesAreKnown'
  BY IssuesOnlyGrow DEF Next, vars, IssuesAreKnown, I!AllIssues
<1> QED
  BY <1>1, <1>2, PTL DEF Spec

\* Closing an issue settles its review, in whatever order a review was
\* implied, stored, answered and reopened (changeStatus12, changeAssignee12
\* and the dialogs of the pull request).
THEOREM ClosingSettlesTheReview == Spec => []NoReviewLeftOpen
<1>1. IInv /\ IssuesAreKnown => NoReviewLeftOpen
  BY DEF IInv, IssueInv, ClosedIsSettled, IssuesAreKnown, NoReviewLeftOpen, I!NoReviewLeftOpen
<1> QED
  BY <1>1, AlwaysIInv, AlwaysKnown, PTL

\* No way the page without a server has from one conversation to another
\* takes a file along.  With a server the file stays (IssueFiles.cfg).
THEOREM FilesStayWithTheirConversation == Spec => []FileIsOfThisConversation
<1>1. IInv => FileIsOfThisConversation
  BY DEF IInv, IssueInv, FileIsOfThisConversation
<1> QED
  BY <1>1, AlwaysIInv, PTL

\* The gate opens only with a snapshot that was stored by opening the files
\* (markViewed9, mergeGate12).
THEOREM MergesWereLookedAt == Spec => []MergedWasOpened
<1>1. IInv => MergedWasOpened
  BY DEF IInv, IssueInv, MergedWasOpened
<1> QED
  BY <1>1, AlwaysIInv, PTL

\* However late the answers of earlier requests come, a form saves the first
\* line of the document it showed, if that has one, to the routine it was
\* opened for (afNext16, commitInstr, saveAuto9).
THEOREM FormsSaveWhatTheyShow == Spec => []SavesGoWhereShown
<1>1. IInv => SavesGoWhereShown
  BY DEF IInv, RoutineInv, SavesGoWhereShown, R!SavesGoWhereShown
<1> QED
  BY <1>1, AlwaysIInv, PTL

-----------------------------------------------------------------------------
(* The threads of runs.                                                      *)

IsNav(n) ==
  n = [shown |-> n.shown, tab |-> n.tab, open |-> n.open, stack |-> n.stack, focus |-> n.focus,
       ret |-> n.ret, retStack |-> n.retStack]

IsWork(w) == w = [answered |-> w.answered, steer |-> w.steer, stopped |-> w.stopped]

\* What an instruction adds to the record of a run.
Instruction(id) == {[T!E("steer") EXCEPT !.text = id], T!E("say")}

\* The pane remembers the way up from the run it shows, and a way back only
\* while another tab is shown.
WaysAreKept ==
  /\ IsNav(nav) /\ nav.open \in T!Ids \cup {None}
  /\ nav.stack = T!Declared(T!Open)
  /\ nav.ret # None => nav.ret = T!Open /\ nav.retStack = T!Declared(T!Open) /\ nav.tab # "runs"

\* A draft is what was typed for its run, and so are the instructions.
WorkIsInPlace ==
  /\ IsWork(work)
  /\ DOMAIN work.answered = Children
  /\ drafts = [id \in T!Ids |-> drafts[id]]
  /\ \A id \in T!Ids : drafts[id] = [text |-> drafts[id].text, files |-> drafts[id].files]
  /\ \A id \in T!Ids : drafts[id].text \in {None, id}
  /\ work.steer = [id \in T!Ids |-> work.steer[id]]
  /\ \A id \in T!Ids : work.steer[id] \in Seq(Instruction(id))

\* A child that waits was neither instructed nor stopped.
WaitingIsUntouched == \A c \in Children : T!HasQuestion(c) => work.steer[c] = <<>> /\ c \notin work.stopped

\* Only a child that waits was answered.
AnsweredWaited == \A c \in Children : T!Answered(c) => c \in T!Waiting

\* An attempt that was picked is one of the run.
PickedExists ==
  /\ picked = [id \in T!Ids |-> picked[id]]
  /\ \A id \in T!Ids : picked[id] \in 0 .. T!LastAttempt(id)

ThreadInv == WaysAreKept /\ WorkIsInPlace /\ WaitingIsUntouched /\ PickedExists /\ AnsweredWaited

-----------------------------------------------------------------------------
(* What the markup offers.                                                   *)

LEMMA ScriptIsTyped ==
  ASSUME NEW id \in T!Ids
  PROVE  /\ Script[id] \in Seq(Seq(T!Entries(id))) /\ Len(Script[id]) \in Nat \ {0}
         /\ Script[id][T!LastAttempt(id)] \in Seq(T!Entries(id))
<1>1. Script[id] \in Seq(Seq(T!Entries(id))) /\ Script[id] # <<>>
  BY ThreadConstants DEF ThreadConstants, T!RunThreadsConstants
<1>2. Len(Script[id]) \in Nat /\ Len(Script[id]) # 0
  BY <1>1
<1> QED BY <1>1, <1>2 DEF T!LastAttempt

LEMMA DelegatedIsChild ==
  ASSUME NEW r \in Runs, NEW c \in T!Delegated(r)
  PROVE  c \in Children /\ Parent[c] = r
<1>1. r \in T!Ids
  BY DEF T!Ids
<1>2. PICK n \in 1 .. Len(Script[r][T!LastAttempt(r)]) : c \in Script[r][T!LastAttempt(r)][n].runs
  BY DEF T!Delegated, T!KidsIn
<1>3. Script[r][T!LastAttempt(r)][n] \in T!Entries(r)
  BY <1>1, <1>2, ScriptIsTyped
<1> QED BY <1>2, <1>3 DEF T!Entries

\* What may stand in the thread of a run.
Rows(id) ==
  [k : T!Kinds, runs : SUBSET {c \in Children : Parent[c] = id}, to : T!Ids \cup {None},
   text : {None, id} \cup {work.answered[c] : c \in Children}]

LEMMA NoticesAreRows ==
  ASSUME NEW id, NEW k \in T!Kinds
  PROVE  /\ T!E(k) \in Rows(id)
         /\ [T!E("steer") EXCEPT !.text = id] \in Rows(id)
         /\ id \in Children => [T!E("answer") EXCEPT !.text = work.answered[id]] \in Rows(id)
<1>1. T!E(k) \in Rows(id)
  BY DEF T!E, Rows
<1>2. [T!E("steer") EXCEPT !.text = id] \in Rows(id)
  <2>1. [T!E("steer") EXCEPT !.text = id] = [k |-> "steer", runs |-> {}, to |-> None, text |-> id]
    BY DEF T!E
  <2> QED BY <2>1 DEF Rows, T!Kinds
<1>3. ASSUME id \in Children
      PROVE  [T!E("answer") EXCEPT !.text = work.answered[id]] \in Rows(id)
  <2> DEFINE given == work.answered[id]
  <2>0. given \in {work.answered[c] : c \in Children}
    BY <1>3
  <2> HIDE DEF given
  <2>1. [T!E("answer") EXCEPT !.text = given] = [k |-> "answer", runs |-> {}, to |-> None, text |-> given]
    BY DEF T!E
  <2>2. [T!E("answer") EXCEPT !.text = given] \in Rows(id)
    BY <2>0, <2>1 DEF Rows, T!Kinds
  <2> QED BY <2>2 DEF given
<1> QED BY <1>1, <1>2, <1>3

LEMMA ScriptIsRows ==
  ASSUME NEW id \in T!Ids, NEW a \in 1 .. T!LastAttempt(id)
  PROVE  Script[id][a] \in Seq(Rows(id))
<1>1. Script[id][a] \in Seq(T!Entries(id))
  BY ScriptIsTyped DEF T!LastAttempt
<1>2. T!Entries(id) \subseteq Rows(id)
  BY DEF T!Entries, Rows
<1> QED BY <1>1, <1>2

\* Without the first or the last of its entries a thread is one of the same kind.
LEMMA FrontIsThread ==
  ASSUME NEW S, NEW s \in Seq(S), s # <<>>
  PROVE  T!Front(s) \in Seq(S) /\ Len(T!Front(s)) = Len(s) - 1 /\ \A n \in 1 .. Len(s) - 1 : T!Front(s)[n] = s[n]
<1>1. Len(s) \in Nat /\ Len(s) # 0
  OBVIOUS
<1>2. T!Front(s) = [n \in 1 .. Len(s) - 1 |-> s[n]]
  BY <1>1 DEF T!Front
<1>3. \A n \in 1 .. Len(s) - 1 : s[n] \in S
  BY <1>1
<1>4. Len(s) - 1 \in Nat
  BY <1>1
<1>5. T!Front(s) \in [1 .. Len(s) - 1 -> S]
  BY <1>2, <1>3
<1>6. T!Front(s) \in Seq(S)
  BY <1>4, <1>5
<1>7. Len(T!Front(s)) = Len(s) - 1
  BY <1>1, <1>2, <1>6
<1> QED BY <1>2, <1>6, <1>7

\* What was told to a run is part of its latest attempt.
Told(id) ==
  LET base == Script[id][T!LastAttempt(id)]
  IN IF id \in Children /\ T!Answered(id)
     THEN T!Front(base) \o <<[T!E("answer") EXCEPT !.text = work.answered[id]], T!E("say"), T!E("live")>>
     ELSE base

LEMMA WaitingScript ==
  ASSUME NEW c \in T!Waiting
  PROVE  /\ Script[c][T!LastAttempt(c)] # <<>>
         /\ T!Last(Script[c][T!LastAttempt(c)]).k \in {"live", "hand"}
BY ThreadConstants DEF ThreadConstants, T!RunThreadsConstants, T!Last, T!LastAttempt

LEMMA ThreadIsRows ==
  ASSUME WorkIsInPlace, AnsweredWaited, PickedExists, NEW id \in T!Ids
  PROVE  /\ Told(id) \in Seq(Rows(id)) /\ work.steer[id] \in Seq(Rows(id))
         /\ T!Grown(id) \in Seq(Rows(id)) /\ T!EntriesFor(id) \in Seq(Rows(id))
<1> DEFINE base == Script[id][T!LastAttempt(id)]
<1>1. base \in Seq(Rows(id))
  BY ScriptIsRows, ScriptIsTyped DEF T!LastAttempt
<1>2. Told(id) \in Seq(Rows(id))
  <2>1. CASE id \in Children /\ T!Answered(id)
    <3>1. base # <<>>
      BY <2>1, WaitingScript DEF AnsweredWaited
    <3>2. T!Front(base) \in Seq(Rows(id))
      BY <1>1, <3>1, FrontIsThread
    <3> DEFINE a == [T!E("answer") EXCEPT !.text = work.answered[id]]
    <3>3. a \in Rows(id) /\ T!E("say") \in Rows(id) /\ T!E("live") \in Rows(id)
      BY <2>1, NoticesAreRows DEF T!Kinds
    <3>5. Told(id) = T!Front(base) \o <<a, T!E("say"), T!E("live")>>
      BY <2>1 DEF Told
    <3> HIDE DEF a, base
    <3>4. <<a, T!E("say"), T!E("live")>> \in Seq(Rows(id))
      BY <3>3
    <3> QED BY <3>2, <3>4, <3>5
  <2>2. CASE ~(id \in Children /\ T!Answered(id))
    BY <2>2, <1>1 DEF Told
  <2> QED BY <2>1, <2>2
<1>3. work.steer[id] \in Seq(Rows(id))
  <2>1. Instruction(id) \subseteq Rows(id)
    BY NoticesAreRows DEF Instruction, T!Kinds
  <2> QED BY <2>1 DEF WorkIsInPlace
<1>4. T!Grown(id) \in Seq(Rows(id))
  <2>1. T!Grown(id) = Told(id) \o work.steer[id] \o (IF id \in work.stopped THEN <<T!E("stop")>> ELSE <<>>)
    BY DEF T!Grown, Told
  <2>2. T!E("stop") \in Rows(id)
    BY NoticesAreRows DEF T!Kinds
  <2> QED BY <2>1, <2>2, <1>2, <1>3
<1>5. T!EntriesFor(id) \in Seq(Rows(id))
  <2>1. T!Attempt(id) \in 1 .. T!LastAttempt(id)
    BY ScriptIsTyped DEF T!Attempt, T!LastAttempt, PickedExists
  <2> QED BY <2>1, <1>4, ScriptIsRows DEF T!EntriesFor
<1> QED BY <1>2, <1>3, <1>4, <1>5

LEMMA EntriesNameChildren ==
  ASSUME WorkIsInPlace, AnsweredWaited, PickedExists,
         NEW id \in T!Ids, NEW n \in 1 .. Len(T!EntriesFor(id))
  PROVE  /\ T!EntriesFor(id)[n].runs \subseteq {c \in Children : Parent[c] = id}
         /\ T!EntriesFor(id)[n].to \in T!Ids \cup {None}
<1>1. T!EntriesFor(id)[n] \in Rows(id)
  BY ThreadIsRows
<1> QED BY <1>1 DEF Rows

\* The controls of each section, by name.
LEMMA SectionTags ==
  ASSUME NEW c
  PROVE  /\ c \in T!Frame => c[1] \in {"collapse", "tab", "expand"}
         /\ c \in T!BackToRun => c[1] = "backToRun" /\ nav.ret # None
         /\ c \in T!RunList => c[1] \in {"open", "fold", "openChild"}
         /\ c \in T!ThreadNav => c[1] = "back" /\ T!ThreadShown
         /\ c \in T!Attempts => c[1] = "attempt" /\ T!ThreadShown /\ c[2] \in 1 .. T!LastAttempt(T!Open)
         /\ c \in T!Toolbar => c[1] \in {"toggleAll", "toggleFind"}
         /\ c \in T!FindField => c[1] \in {"editFind", "clearFind"}
         /\ c \in T!EntryTools => c[1] = "fold"
         /\ c \in T!EntryKids => c[1] \in {"fold", "openChild"}
         /\ c \in T!EntryHandoff => c[1] = "open"
         /\ c \in T!WaitingChild => c[1] = "answer"
         /\ c \in T!Details => c[1] \in {"fold", "go"}
         /\ c \in T!InstructField => c[1] \in {"type", "attach", "detach"} /\ T!InstructForm
         /\ c \in T!InstructSend => c[1] \in {"dictate", "stop", "send"} /\ T!InstructForm
         /\ c \in T!FinishedRecord => c[1] = "discuss" /\ T!ThreadShown
         /\ c \in T!UsageRows => c[1] = "open"
         /\ c \in T!BlockHead => c[1] = "fold"
         /\ c \in T!BlockTools => c[1] = "fold"
         /\ c \in T!BlockKids => c[1] = "openChild"
         /\ c \in T!BlockActions => c[1] \in {"open", "reply"}
         /\ c \in T!ReplyContext => c[1] \in {"cancelReply", "say"}
<1>1. c \in T!Frame => c[1] \in {"collapse", "tab", "expand"}
  BY DEF T!Frame
<1>2. c \in T!BackToRun => c[1] = "backToRun" /\ nav.ret # None
  BY DEF T!BackToRun
<1>3. c \in T!RunList => c[1] \in {"open", "fold", "openChild"}
  <2>1. c \in T!ListedChildren => c[1] = "openChild"
    <3>1. c \in T!ListedChildren => \E r \in Runs : c \in T!ChildLinks(r)
      BY DEF T!ListedChildren, T!Fold
    <3> QED BY <3>1 DEF T!ChildLinks
  <2>2. c \in T!RunList => c[1] \in {"open", "fold"} \/ c \in T!ListedChildren
    BY DEF T!RunList
  <2> QED BY <2>1, <2>2
<1>4. c \in T!ThreadNav => c[1] = "back" /\ T!ThreadShown
  BY DEF T!ThreadNav
<1>5. c \in T!Attempts => c[1] = "attempt" /\ T!ThreadShown /\ c[2] \in 1 .. T!LastAttempt(T!Open)
  BY DEF T!Attempts
<1>6. c \in T!Toolbar => c[1] \in {"toggleAll", "toggleFind"}
  BY DEF T!Toolbar
<1>7. c \in T!FindField => c[1] \in {"editFind", "clearFind"}
  BY DEF T!FindField
<1>8. c \in T!EntryTools => c[1] = "fold"
  BY DEF T!EntryTools
<1>9. c \in T!EntryKids => c[1] \in {"fold", "openChild"}
  <2>1. ASSUME NEW n, c \in T!KidsRow(n)
        PROVE  c[1] \in {"fold", "openChild"}
    <3>1. c = <<"fold", <<"tg", T!Open, n>>>> \/ \E d \in T!At(n).runs : c = <<"openChild", d, T!Open>>
      BY <2>1 DEF T!KidsRow
    <3> QED BY <3>1
  <2> QED BY <2>1 DEF T!EntryKids
<1>10. c \in T!EntryHandoff => c[1] = "open"
  BY DEF T!EntryHandoff
<1>11. c \in T!WaitingChild => c[1] = "answer"
  BY DEF T!WaitingChild
<1>12. c \in T!Details => c[1] \in {"fold", "go"}
  <2>1. c \in T!DetailLinks => c[1] = "go"
    BY DEF T!DetailLinks, T!Fold
  <2> QED BY <2>1 DEF T!Details
<1>13. c \in T!InstructField => c[1] \in {"type", "attach", "detach"} /\ T!InstructForm
  BY DEF T!InstructField
<1>14. c \in T!InstructSend => c[1] \in {"dictate", "stop", "send"} /\ T!InstructForm
  BY DEF T!InstructSend
<1>15. c \in T!FinishedRecord => c[1] = "discuss" /\ T!ThreadShown
  BY DEF T!FinishedRecord
<1>16. c \in T!UsageRows => c[1] = "open"
  BY DEF T!UsageRows
<1>17. /\ c \in T!BlockHead => c[1] = "fold"
       /\ c \in T!BlockTools => c[1] = "fold"
  BY DEF T!BlockHead, T!BlockTools
<1>18. c \in T!BlockKids => c[1] = "openChild"
  BY DEF T!BlockKids, T!ChildLinks
<1>19. c \in T!BlockActions => c[1] \in {"open", "reply"}
  BY DEF T!BlockActions
<1>20. c \in T!ReplyContext => c[1] \in {"cancelReply", "say"}
  BY DEF T!ReplyContext
<1> QED
  BY <1>1, <1>2, <1>3, <1>4, <1>5, <1>6, <1>7, <1>8, <1>9, <1>10, <1>11, <1>12, <1>13, <1>14,
     <1>15, <1>16, <1>17, <1>18, <1>19, <1>20

Sections ==
  {T!Frame, T!BackToRun, T!RunList, T!ThreadNav, T!Attempts, T!Toolbar, T!FindField, T!EntryTools, T!EntryKids,
   T!EntryHandoff, T!WaitingChild, T!Details, T!InstructField, T!InstructSend, T!FinishedRecord, T!UsageRows,
   T!BlockHead, T!BlockTools, T!BlockKids, T!BlockActions, T!ReplyContext}

\* A child is opened from its parent, and a run is one of the issue.
LEMMA ChildrenAreOpenedFromTheirParent ==
  ASSUME ThreadInv, NEW c \in T!Offered, c[1] = "openChild"
  PROVE  c[2] \in Children /\ c[3] = Parent[c[2]]
<1>1. PICK s \in Sections : c \in s
  BY DEF T!Offered, Sections
<1>2. c \in T!RunList \/ c \in T!EntryKids \/ c \in T!BlockKids
  BY <1>1, SectionTags DEF Sections
<1>3. ASSUME NEW r \in Runs, c \in T!ChildLinks(r)
      PROVE  c[2] \in Children /\ c[3] = Parent[c[2]]
  BY <1>3, DelegatedIsChild DEF T!ChildLinks
<1>4. CASE c \in T!RunList
  <2>1. c \in T!ListedChildren
    BY <1>4 DEF T!RunList
  <2> QED BY <2>1, <1>3 DEF T!ListedChildren, T!Fold
<1>5. CASE c \in T!BlockKids
  <2>1. \E r \in Runs : c \in T!ChildLinks(r)
    BY <1>5 DEF T!BlockKids, T!Unfolded, T!Fold
  <2> QED BY <2>1, <1>3
<1>6. CASE c \in T!EntryKids
  <2>1. PICK n \in T!ShownAt("kids") : c \in T!KidsRow(n)
    BY <1>6 DEF T!EntryKids
  <2>2. PICK d \in T!At(n).runs : c = <<"openChild", d, T!Open>>
    BY <2>1 DEF T!KidsRow
  <2>3. T!Open \in T!Ids /\ n \in 1 .. Len(T!EntriesFor(T!Open))
    BY <2>1 DEF T!ShownAt, T!ThreadShown, ThreadInv, WaysAreKept, T!Open
  <2>4. d \in Children /\ Parent[d] = T!Open
    BY <2>2, <2>3, EntriesNameChildren DEF T!At, ThreadInv
  <2> QED BY <2>2, <2>4
<1> QED BY <1>2, <1>4, <1>5, <1>6

LEMMA RunsOfTheIssueAreOpened ==
  ASSUME ThreadInv, NEW c \in T!Offered, c[1] \in {"open", "reply"}
  PROVE  c[2] \in T!Ids
<1>1. PICK s \in Sections : c \in s
  BY DEF T!Offered, Sections
<1>2. c \in T!RunList \/ c \in T!EntryHandoff \/ c \in T!UsageRows \/ c \in T!BlockActions
  BY <1>1, SectionTags DEF Sections
<1>3. CASE c \in T!RunList
  <2>1. c \in T!ListedChildren => \E r \in Runs : c \in T!ChildLinks(r)
    BY DEF T!ListedChildren, T!Fold
  <2>2. c \notin T!ListedChildren
    BY <2>1 DEF T!ChildLinks
  <2> QED BY <1>3, <2>2 DEF T!RunList, T!Ids
<1>4. CASE c \in T!EntryHandoff
  <2>1. PICK n \in T!ShownAt("hand") : T!At(n).to # None /\ c = <<"open", T!At(n).to>>
    BY <1>4 DEF T!EntryHandoff
  <2>2. T!Open \in T!Ids /\ n \in 1 .. Len(T!EntriesFor(T!Open))
    BY <2>1 DEF T!ShownAt, T!ThreadShown, ThreadInv, WaysAreKept, T!Open
  <2> QED BY <2>1, <2>2, EntriesNameChildren DEF T!At, ThreadInv
<1>5. CASE c \in T!UsageRows
  BY <1>5 DEF T!UsageRows, T!Ids
<1>6. CASE c \in T!BlockActions
  <2>1. PICK r \in T!Unfolded : c \in {<<"open", r>>, <<"reply", r>>}
    BY <1>6 DEF T!BlockActions
  <2>2. r \in Runs
    BY DEF T!Unfolded, T!Fold
  <2> QED BY <2>1, <2>2 DEF T!Ids
<1> QED BY <1>2, <1>3, <1>4, <1>5, <1>6

\* What is offered in a thread only.
LEMMA OfferedInTheThread ==
  ASSUME NEW c \in T!Offered
  PROVE  /\ c[1] \in {"back", "discuss", "go", "attempt", "type", "dictate", "attach", "detach", "send", "stop"}
              => T!ThreadShown
         /\ c[1] = "go" => c[2] # "runs"
         /\ c[1] = "attempt" => c[2] \in 1 .. T!LastAttempt(T!Open)
         /\ c[1] = "backToRun" => nav.ret # None
<1>1. PICK s \in Sections : c \in s
  BY DEF T!Offered, Sections
<1>2. c \in T!Details => c[1] = "fold" \/ (c \in T!DetailLinks /\ T!ThreadShown)
  BY DEF T!Details
<1>3. c \in T!DetailLinks => c[2] # "runs"
  BY DEF T!DetailLinks, T!Fold
<1>4. c[1] = "go" => c \in T!Details
  BY <1>1, SectionTags DEF Sections
<1>5. c[1] \in {"back", "discuss", "attempt", "type", "dictate", "attach", "detach", "send", "stop"} => T!ThreadShown
  BY <1>1, SectionTags DEF Sections, T!InstructForm
<1>6. c[1] = "attempt" => c[2] \in 1 .. T!LastAttempt(T!Open)
  BY <1>1, SectionTags DEF Sections
<1>7. c[1] = "backToRun" => nav.ret # None
  BY <1>1, SectionTags DEF Sections
<1> QED BY <1>2, <1>3, <1>4, <1>5, <1>6, <1>7

\* A draft is sent only when something is typed.
LEMMA SomethingIsSent ==
  ASSUME NEW c \in T!Offered, c[1] = "send"
  PROVE  drafts[T!Open].text # None
<1>1. PICK s \in Sections : c \in s
  BY DEF T!Offered, Sections
<1>2. c \in T!InstructSend
  BY <1>1, SectionTags DEF Sections
<1> QED BY <1>2 DEF T!InstructSend

-----------------------------------------------------------------------------
(* The steps.                                                                *)

RtOpenFields(n, id, st) ==
  /\ IsNav(n) /\ n.open = id /\ n.stack = st /\ n.ret = None

LEMMA OpeningFillsThePane ==
  ASSUME IsNav(nav), NEW id, NEW parent, T!RtOpen(id, parent)
  PROVE  RtOpenFields(nav', id, T!StackFor(id, parent))
<1> DEFINE st == T!StackFor(id, parent)
<1>1. nav' = T!Inspector([nav EXCEPT !.open = id, !.stack = st, !.focus = IF id \in Children THEN @ ELSE id],
                       "runs", None, <<>>)
  BY DEF T!RtOpen
<1> HIDE DEF st
<1>2. RtOpenFields(nav', id, st)
  BY <1>1 DEF RtOpenFields, IsNav, T!Inspector
<1> QED BY <1>2 DEF st

\* Opening a run on its own, or a child from its parent.
LEMMA OpeningKeepsWays ==
  ASSUME ThreadInv, NEW id \in T!Ids, NEW parent,
         parent = None \/ (id \in Children /\ parent = Parent[id]),
         T!RtOpen(id, parent)
  PROVE  WaysAreKept'
<1>1. RtOpenFields(nav', id, T!StackFor(id, parent))
  BY OpeningFillsThePane DEF ThreadInv, WaysAreKept
<1>2. T!StackFor(id, parent) = T!Declared(id)
  <2>1. CASE parent = None
    BY <2>1 DEF T!StackFor
  <2>2. CASE parent # None /\ id \in Children /\ parent = Parent[id]
    <3>1. nav.stack = <<>> \/ (T!Open \in Children /\ nav.stack = <<Parent[T!Open]>>)
      BY DEF ThreadInv, WaysAreKept, T!Declared
    <3>2. CASE nav.stack = <<>>
      BY <2>2, <3>2 DEF T!StackFor, T!Declared
    <3>3. CASE T!Open \in Children /\ nav.stack = <<Parent[T!Open]>>
      <4>1. Parent[T!Open] = parent
        BY <2>2, <3>3, ThreadConstants DEF ThreadConstants, T!RunThreadsConstants
      <4>2. nav.stack # <<>> /\ T!Last(nav.stack) = parent
        BY <3>3, <4>1 DEF T!Last
      <4> QED BY <2>2, <3>3, <4>1, <4>2 DEF T!StackFor, T!Declared
    <3> QED BY <3>1, <3>2, <3>3
  <2> QED BY <2>1, <2>2
<1> QED BY <1>1, <1>2 DEF RtOpenFields, WaysAreKept, T!Open, T!Declared

LEMMA AllRunsKeepsWays ==
  ASSUME ThreadInv, T!AllRuns
  PROVE  WaysAreKept'
BY ThreadConstants DEF ThreadConstants, T!RunThreadsConstants, ThreadInv, WaysAreKept, T!AllRuns, IsNav, T!Open, T!Declared, T!Ids

LEMMA BackKeepsWays ==
  ASSUME ThreadInv, NEW c \in T!Offered, T!Back(c)
  PROVE  WaysAreKept'
<1>1. CASE T!BackTarget = None
  BY <1>1, AllRunsKeepsWays DEF T!Back
<1>2. CASE T!BackTarget # None
  <2>1. T!Open \in T!Ids
    BY OfferedInTheThread DEF T!Back, T!ThreadShown, ThreadInv, WaysAreKept, T!Open
  <2>2. T!Open \in Children
    BY <1>2 DEF T!BackTarget, ThreadInv, WaysAreKept, T!Declared
  <2>3. nav.stack = <<Parent[T!Open]>> /\ T!BackTarget = Parent[T!Open]
    BY <2>2 DEF ThreadInv, WaysAreKept, T!Declared, T!BackTarget, T!Last
  <2>4. T!BackTarget \in Runs /\ T!BackTarget \notin Children
    BY <2>2, <2>3, ThreadConstants DEF ThreadConstants, T!RunThreadsConstants
  <2>5. T!Front(nav.stack) = <<>>
    BY <2>3 DEF T!Front
  <2> DEFINE up == T!BackTarget
             st == IF nav.stack = <<>> THEN nav.stack ELSE T!Front(nav.stack)
             fo == IF up \in Children THEN nav.focus ELSE up
  <2>6. nav' = [nav EXCEPT !.open = up, !.stack = st, !.focus = fo, !.ret = None, !.retStack = <<>>]
    BY <1>2 DEF T!Back
  <2>7. st = <<>>
    BY <2>5
  <2>8. up \in T!Ids /\ up \notin Children
    BY <2>4 DEF T!Ids
  <2> HIDE DEF up, st, fo
  <2> QED BY <2>6, <2>7, <2>8 DEF ThreadInv, WaysAreKept, IsNav, T!Open, T!Declared
<1> QED BY <1>1, <1>2

\* Links, tabs and the pane itself.
LEMMA LeavingKeepsWays ==
  ASSUME ThreadInv, NEW c \in T!Offered, T!Go(c) \/ T!PickTab(c) \/ T!ShowPane(c) \/ T!DiscussInThread(c)
  PROVE  WaysAreKept'
<1>1. CASE T!Go(c)
  <2>1. T!ThreadShown /\ c[2] # "runs"
    BY <1>1, OfferedInTheThread DEF T!Go
  <2> DEFINE tab == c[2]
             o == nav.open
             s == nav.stack
  <2>2. nav' = T!Inspector(nav, tab, o, s) /\ tab # "runs" /\ o # None
    BY <1>1, <2>1 DEF T!Go, T!ThreadShown, T!Open
  <2> HIDE DEF tab, o, s
  <2>3. IsNav(nav') /\ nav'.open = nav.open /\ nav'.stack = nav.stack /\ nav'.ret = o
        /\ nav'.retStack = s /\ nav'.tab = tab
    BY <2>2 DEF T!Inspector, ThreadInv, WaysAreKept, IsNav
  <2> QED BY <2>2, <2>3 DEF ThreadInv, WaysAreKept, T!Open, o, s
<1>2. CASE T!PickTab(c)
  <2> DEFINE tab == c[2]
  <2>1. nav' = T!Inspector(nav, tab, None, <<>>)
    BY <1>2 DEF T!PickTab
  <2> HIDE DEF tab
  <2>2. IsNav(nav') /\ nav'.open = nav.open /\ nav'.stack = nav.stack /\ nav'.ret = None
    BY <2>1 DEF T!Inspector, ThreadInv, WaysAreKept, IsNav
  <2> QED BY <2>2 DEF ThreadInv, WaysAreKept, T!Open
<1>3. CASE T!ShowPane(c)
  <2> DEFINE sh == (c[1] = "expand")
  <2>1. nav' = [nav EXCEPT !.shown = sh]
    BY <1>3 DEF T!ShowPane
  <2> HIDE DEF sh
  <2>2. IsNav(nav') /\ nav'.open = nav.open /\ nav'.stack = nav.stack /\ nav'.ret = nav.ret
        /\ nav'.retStack = nav.retStack /\ nav'.tab = nav.tab
    BY <2>1 DEF ThreadInv, WaysAreKept, IsNav
  <2> QED BY <2>2 DEF ThreadInv, WaysAreKept, T!Open
<1>4. CASE T!DiscussInThread(c)
  <2>1. nav.tab = "runs"
    BY <1>4, OfferedInTheThread DEF T!DiscussInThread, T!ThreadShown
  <2>2. nav.ret = None
    BY <2>1 DEF ThreadInv, WaysAreKept
  <2>3. IsNav(nav') /\ nav'.open = None /\ nav'.stack = <<>> /\ nav'.ret = None
    BY <1>4, <2>2 DEF T!DiscussInThread, ThreadInv, WaysAreKept, IsNav
  <2>4. None \notin Children
    BY ThreadConstants DEF ThreadConstants, T!RunThreadsConstants, T!Ids
  <2> QED BY <2>3, <2>4 DEF WaysAreKept, T!Open, T!Declared
<1> QED BY <1>1, <1>2, <1>3, <1>4

\* Steps that leave the pane as it is, or the work.
LEMMA SamePane ==
  ASSUME ThreadInv, nav' = nav
  PROVE  WaysAreKept'
BY DEF ThreadInv, WaysAreKept, T!Open, T!Declared, IsNav

WorkInv == WorkIsInPlace /\ WaitingIsUntouched /\ AnsweredWaited /\ PickedExists

LEMMA SameWork ==
  ASSUME ThreadInv, UNCHANGED <<picked, work, drafts>>
  PROVE  WorkInv'
BY DEF WorkInv, ThreadInv, WorkIsInPlace, WaitingIsUntouched, AnsweredWaited, PickedExists, T!HasQuestion,
       T!Answered, IsWork

LEMMA PickingKeepsWork ==
  ASSUME ThreadInv, NEW c \in T!Offered, T!PickAttempt(c)
  PROVE  WorkInv'
<1>1. T!Open \in T!Ids /\ c[2] \in 1 .. T!LastAttempt(T!Open) /\ c[2] \in 0 .. T!LastAttempt(T!Open)
  BY OfferedInTheThread, ScriptIsTyped DEF T!PickAttempt, ThreadInv, WaysAreKept, T!ThreadShown, T!Open, T!LastAttempt
<1>2. PickedExists'
  BY <1>1 DEF T!PickAttempt, ThreadInv, PickedExists, T!LastAttempt
<1>3. UNCHANGED <<work, drafts>>
  BY DEF T!PickAttempt
<1> QED BY <1>2, <1>3 DEF WorkInv, ThreadInv, WorkIsInPlace, WaitingIsUntouched, AnsweredWaited, T!HasQuestion,
       T!Answered, IsWork

Drafts(d) ==
  /\ d = [id \in T!Ids |-> d[id]]
  /\ \A id \in T!Ids : d[id] = [text |-> d[id].text, files |-> d[id].files]
  /\ \A id \in T!Ids : d[id].text \in {None, id}

\* Steps that only write a draft.
LEMMA DraftingKeepsWork ==
  ASSUME ThreadInv, UNCHANGED <<picked, work>>, Drafts(drafts')
  PROVE  WorkInv'
BY DEF WorkInv, ThreadInv, WorkIsInPlace, WaitingIsUntouched, AnsweredWaited, PickedExists, T!HasQuestion,
       T!Answered, IsWork, Drafts

LEMMA TypingKeepsWork ==
  ASSUME ThreadInv, NEW c \in T!Offered, T!Type(c)
  PROVE  WorkInv'
<1>1. drafts' = [id \in T!Ids |-> IF id = T!Open THEN [drafts[id] EXCEPT !.text = T!Open] ELSE drafts[id]]
  BY DEF T!Type, T!SetDraft, T!DraftKeys
<1>2. Drafts(drafts)
  BY DEF ThreadInv, WorkIsInPlace, Drafts
<1>3. \A id \in T!Ids : drafts'[id] = IF id = T!Open THEN [text |-> id, files |-> drafts[id].files] ELSE drafts[id]
  BY <1>1, <1>2 DEF Drafts
<1>4. Drafts(drafts')
  BY <1>1, <1>2, <1>3 DEF Drafts
<1> QED BY <1>4, DraftingKeepsWork DEF T!Type

LEMMA AttachingKeepsWork ==
  ASSUME ThreadInv, NEW c \in T!Offered, T!Attach(c)
  PROVE  WorkInv'
<1>1. T!Open \in T!Ids
  BY OfferedInTheThread DEF T!Attach, ThreadInv, WaysAreKept, T!ThreadShown, T!Open
<1>2. PICK fs : drafts' = [drafts EXCEPT ![T!Open].files = fs]
  <2>1. drafts' = [drafts EXCEPT ![T!Open].files = @ \cup {c[2]}]
        \/ drafts' = [drafts EXCEPT ![T!Open].files = @ \ {c[2]}]
    BY DEF T!Attach
  <2> QED BY <2>1
<1>3. Drafts(drafts)
  BY DEF ThreadInv, WorkIsInPlace, Drafts
<1>4. \A id \in T!Ids : drafts'[id] = IF id = T!Open THEN [text |-> drafts[id].text, files |-> fs] ELSE drafts[id]
  BY <1>1, <1>2, <1>3 DEF Drafts
<1>5. Drafts(drafts')
  BY <1>1, <1>2, <1>3, <1>4 DEF Drafts
<1> QED BY <1>5, DraftingKeepsWork DEF T!Attach

\* A run that can be instructed does not wait for an answer.
LEMMA ActiveDoesNotWait ==
  ASSUME ThreadInv, NEW id \in Children, T!CanSteer(id)
  PROVE  ~T!HasQuestion(id) /\ id \notin work.stopped
<1>1. id \notin ActiveRuns
  BY ThreadConstants DEF ThreadConstants, T!RunThreadsConstants
<1> QED BY <1>1 DEF T!CanSteer, T!Active, T!ChildTone, T!HasQuestion, T!Waiting

LEMMA SendingKeepsWork ==
  ASSUME ThreadInv, NEW c \in T!Offered, T!SendInstruction(c)
  PROVE  WorkInv'
<1>1. T!Open \in T!Ids /\ drafts[T!Open].text = T!Open
  BY OfferedInTheThread, SomethingIsSent
     DEF T!SendInstruction, ThreadInv, WaysAreKept, WorkIsInPlace, T!ThreadShown, T!Open
<1> DEFINE told == work.steer[T!Open] \o <<[T!E("steer") EXCEPT !.text = T!Open], T!E("say")>>
<1>2. told \in Seq(Instruction(T!Open))
  <2>1. work.steer[T!Open] \in Seq(Instruction(T!Open))
    BY <1>1 DEF ThreadInv, WorkIsInPlace
  <2> DEFINE a == [T!E("steer") EXCEPT !.text = T!Open]
             b == T!E("say")
  <2>2. a \in Instruction(T!Open) /\ b \in Instruction(T!Open)
    BY DEF Instruction
  <2> HIDE DEF a, b
  <2>3. <<a, b>> \in Seq(Instruction(T!Open))
    BY <2>2
  <2>4. work.steer[T!Open] \o <<a, b>> \in Seq(Instruction(T!Open))
    BY <2>1, <2>3
  <2> QED BY <2>4 DEF a, b
<1>3. work' = [work EXCEPT !.steer[T!Open] = told]
  BY <1>1 DEF T!SendInstruction
<1> HIDE DEF told
<1>4. /\ work'.answered = work.answered /\ work'.stopped = work.stopped /\ IsWork(work')
      /\ work'.steer = [work.steer EXCEPT ![T!Open] = told]
  BY <1>3 DEF IsWork, ThreadInv, WorkIsInPlace
<1>5. work'.steer = [id \in T!Ids |-> IF id = T!Open THEN told ELSE work.steer[id]]
  BY <1>1, <1>4 DEF ThreadInv, WorkIsInPlace
<1>6. Drafts(drafts')
  <2>1. Drafts(drafts) /\ drafts' = [drafts EXCEPT ![T!Open] = T!NoDraft]
    BY DEF ThreadInv, WorkIsInPlace, Drafts, T!SendInstruction
  <2>2. drafts' = [id \in T!Ids |-> IF id = T!Open THEN T!NoDraft ELSE drafts[id]]
    BY <2>1 DEF Drafts
  <2>3. \A id \in T!Ids : drafts'[id] = IF id = T!Open THEN [text |-> None, files |-> {}] ELSE drafts[id]
    BY <2>2 DEF T!NoDraft
  <2> QED BY <2>1, <2>2, <2>3 DEF Drafts
<1>7. WorkIsInPlace'
  BY <1>2, <1>4, <1>5, <1>6 DEF ThreadInv, WorkIsInPlace, Drafts
<1>8. WaitingIsUntouched'
  <2>1. \A d \in Children : T!HasQuestion(d)' = T!HasQuestion(d)
    BY <1>4 DEF T!HasQuestion, T!Answered
  <2>2. \A d \in Children : T!HasQuestion(d) => d # T!Open
    BY ActiveDoesNotWait DEF T!SendInstruction
  <2> QED BY <1>4, <1>5, <2>1, <2>2 DEF ThreadInv, WaitingIsUntouched, T!Ids
<1>9. AnsweredWaited' /\ PickedExists'
  BY <1>4 DEF ThreadInv, AnsweredWaited, T!Answered, PickedExists, T!SendInstruction
<1> QED BY <1>7, <1>8, <1>9 DEF WorkInv

LEMMA StoppingKeepsWork ==
  ASSUME ThreadInv, NEW c \in T!Offered, T!Stop(c)
  PROVE  WorkInv'
<1> DEFINE st == work.stopped \cup {T!Open}
<1>1. work' = [work EXCEPT !.stopped = st]
  BY DEF T!Stop
<1> HIDE DEF st
<1>2. work'.answered = work.answered /\ work'.steer = work.steer /\ work'.stopped = st /\ IsWork(work')
  BY <1>1 DEF IsWork, ThreadInv, WorkIsInPlace
<1>3. WaitingIsUntouched'
  <2>1. \A d \in Children : T!HasQuestion(d)' = T!HasQuestion(d)
    BY <1>2 DEF T!HasQuestion, T!Answered
  <2>2. \A d \in Children : T!HasQuestion(d) => d # T!Open
    BY ActiveDoesNotWait DEF T!Stop
  <2> QED BY <1>2, <2>1, <2>2 DEF ThreadInv, WaitingIsUntouched, st
<1>4. WorkIsInPlace' /\ AnsweredWaited' /\ PickedExists'
  BY <1>2 DEF T!Stop, ThreadInv, WorkIsInPlace, AnsweredWaited, PickedExists, T!Answered
<1> QED BY <1>3, <1>4 DEF WorkInv

LEMMA AnsweringKeepsWork ==
  ASSUME ThreadInv, NEW c \in T!Offered, T!Answer(c)
  PROVE  WorkInv'
<1> DEFINE d == c[2]
           o == c[3]
<1>1. work' = [work EXCEPT !.answered[d] = o] /\ T!HasQuestion(d) /\ UNCHANGED <<picked, drafts>>
  BY DEF T!Answer, T!AnswerStands
<1> HIDE DEF d, o
<1>2. d \in T!Waiting /\ d \in Children
  BY <1>1 DEF T!HasQuestion, T!Waiting
<1>3. /\ work'.steer = work.steer /\ work'.stopped = work.stopped /\ IsWork(work')
      /\ work'.answered = [work.answered EXCEPT ![d] = o]
  BY <1>1 DEF IsWork, ThreadInv, WorkIsInPlace
<1>4. WaitingIsUntouched'
  <2>1. \A e \in Children : T!HasQuestion(e)' => T!HasQuestion(e)
    BY <1>1, <1>2, <1>3 DEF ThreadInv, WorkIsInPlace, T!HasQuestion, T!Answered
  <2> QED BY <1>3, <2>1 DEF ThreadInv, WaitingIsUntouched
<1>5. WorkIsInPlace' /\ AnsweredWaited' /\ PickedExists'
  BY <1>1, <1>2, <1>3 DEF ThreadInv, WorkIsInPlace, AnsweredWaited, PickedExists, T!Answered
<1> QED BY <1>4, <1>5 DEF WorkInv

-----------------------------------------------------------------------------
LEMMA InitThreads ==
  ASSUME T!Init
  PROVE  ThreadInv
<1>1. None \notin Children /\ \A id \in T!Ids : 0 \in 0 .. T!LastAttempt(id)
  BY ThreadConstants, ScriptIsTyped DEF ThreadConstants, T!RunThreadsConstants, T!Ids, T!LastAttempt
<1>2. WaysAreKept
  BY <1>1 DEF T!Init, WaysAreKept, IsNav, T!Open, T!Declared
<1>3. WorkIsInPlace
  <2>1. drafts = [id \in T!Ids |-> [text |-> None, files |-> {}]]
    BY DEF T!Init, T!NoDraft
  <2>2. IsWork(work) /\ DOMAIN work.answered = Children /\ work.steer = [id \in T!Ids |-> <<>>]
    BY DEF T!Init, IsWork
  <2>3. \A S : <<>> \in Seq(S)
    OBVIOUS
  <2> QED BY <2>1, <2>2, <2>3 DEF WorkIsInPlace
<1>4. WaitingIsUntouched /\ AnsweredWaited
  BY DEF T!Init, WaitingIsUntouched, AnsweredWaited, T!Answered, T!Ids
<1>5. PickedExists
  BY <1>1 DEF T!Init, PickedExists
<1> QED BY <1>2, <1>3, <1>4, <1>5 DEF ThreadInv

LEMMA ThreadsStep ==
  ASSUME ThreadInv, [T!Next]_(T!vars)
  PROVE  ThreadInv'
<1> SUFFICES WaysAreKept' /\ WorkInv'
  BY DEF ThreadInv, WorkInv
<1>1. CASE UNCHANGED T!vars
  BY <1>1, SamePane, SameWork DEF T!vars
<1>2. ASSUME NEW c \in T!Offered, T!OpenRun(c) \/ T!Reply(c)
      PROVE  WaysAreKept' /\ WorkInv'
  BY <1>2, RunsOfTheIssueAreOpened, OpeningKeepsWays, SameWork DEF T!OpenRun, T!Reply, T!Reading
<1>3. ASSUME NEW c \in T!Offered, T!OpenChild(c)
      PROVE  WaysAreKept' /\ WorkInv'
  BY <1>3, ChildrenAreOpenedFromTheirParent, OpeningKeepsWays, SameWork DEF T!OpenChild, T!Reading, T!Ids
<1>4. ASSUME NEW c \in T!Offered, T!BackToRunGo(c)
      PROVE  WaysAreKept' /\ WorkInv'
  <2>1. nav.ret \in T!Ids
    BY <1>4, OfferedInTheThread DEF T!BackToRunGo, ThreadInv, WaysAreKept, T!Open
  <2> QED BY <1>4, <2>1, OpeningKeepsWays, SameWork DEF T!BackToRunGo, T!Reading
<1>5. ASSUME NEW c \in T!Offered, T!Back(c)
      PROVE  WaysAreKept' /\ WorkInv'
  BY <1>5, BackKeepsWays, SameWork DEF T!Back, T!Reading
<1>6. ASSUME NEW c \in T!Offered, T!Go(c) \/ T!PickTab(c) \/ T!ShowPane(c) \/ T!DiscussInThread(c)
      PROVE  WaysAreKept' /\ WorkInv'
  BY <1>6, LeavingKeepsWays, SameWork DEF T!Go, T!PickTab, T!ShowPane, T!DiscussInThread, T!Reading
<1>7. ASSUME NEW c \in T!Offered, T!Toggle(c) \/ T!ToggleAll(c) \/ T!ToggleFind(c) \/ T!EditFind(c) \/ T!CancelReply(c) \/ T!Say(c)
      PROVE  WaysAreKept' /\ WorkInv'
  BY <1>7, SamePane, SameWork DEF T!Toggle, T!ToggleAll, T!ToggleFind, T!EditFind, T!CancelReply, T!Say, T!Reading
<1>8. ASSUME NEW c \in T!Offered, T!PickAttempt(c)
      PROVE  WaysAreKept' /\ WorkInv'
  BY <1>8, SamePane, PickingKeepsWork DEF T!PickAttempt
<1>9. ASSUME NEW c \in T!Offered, T!Type(c) \/ T!Attach(c)
      PROVE  WaysAreKept' /\ WorkInv'
  BY <1>9, SamePane, TypingKeepsWork, AttachingKeepsWork DEF T!Type, T!Attach
<1>10. ASSUME NEW c \in T!Offered, T!SendInstruction(c) \/ T!Stop(c) \/ T!Answer(c)
       PROVE  WaysAreKept' /\ WorkInv'
  BY <1>10, SamePane, SendingKeepsWork, StoppingKeepsWork, AnsweringKeepsWork DEF T!SendInstruction, T!Stop, T!Answer
<1> QED
  BY <1>1, <1>2, <1>3, <1>4, <1>5, <1>6, <1>7, <1>8, <1>9, <1>10 DEF T!Next

LEMMA AThreadStep ==
  ASSUME [Next]_vars
  PROVE  [T!Next]_(T!vars)
BY DEF Next, vars, threadVars, T!vars

LEMMA ThreadsAlways == Spec => []ThreadInv
<1>1. Init => ThreadInv
  BY InitThreads DEF Init
<1>2. ThreadInv /\ [Next]_vars => ThreadInv'
  BY AThreadStep, ThreadsStep
<1> QED BY <1>1, <1>2, PTL DEF Spec

\* Back climbs from a child to the run that delegated it, however the child was
\* reached, and a way back leads to where it was left (rtOpen16, rtGo16).
THEOREM BackAlwaysClimbs == Spec => []BackClimbs
<1>1. ThreadInv => BackClimbs
  BY DEF ThreadInv, WaysAreKept, BackClimbs, T!BackClimbs
<1> QED BY <1>1, ThreadsAlways, PTL

\* An instruction is recorded in the run whose thread it was typed in
\* (rtSendInstruction16).
THEOREM InstructionsStayInPlace == Spec => []InstructedWhereTyped
<1>1. ThreadInv => InstructedWhereTyped
  <2> SUFFICES ASSUME WorkIsInPlace, NEW id \in T!Ids, NEW n \in 1 .. Len(work.steer[id]),
                      work.steer[id][n].k = "steer"
               PROVE  work.steer[id][n].text = id
    BY DEF ThreadInv, InstructedWhereTyped, T!InstructedWhereTyped
  <2>1. work.steer[id][n] \in Instruction(id)
    BY DEF WorkIsInPlace
  <2> QED BY <2>1 DEF Instruction, T!E
<1> QED BY <1>1, ThreadsAlways, PTL

-----------------------------------------------------------------------------
(* The record of a thread.                                                   *)

LEMMA PrefixIsKept ==
  ASSUME NEW S, NEW s \in Seq(S), NEW t, t \in Seq(S)
  PROVE  T!IsPrefix(s, s \o t)
<1>1. Len(s) \in Nat /\ Len(t) \in Nat /\ Len(s \o t) = Len(s) + Len(t) /\ s \o t \in Seq(S)
  OBVIOUS
<1>2. \A n \in 1 .. Len(s) : (s \o t)[n] = s[n]
  BY <1>1
<1>3. SubSeq(s, 1, Len(s)) = [n \in 1 .. Len(s) |-> s[n]]
  BY <1>1
<1>4. SubSeq(s \o t, 1, Len(s)) = [n \in 1 .. Len(s) |-> (s \o t)[n]]
  BY <1>1
<1> QED BY <1>1, <1>2, <1>3, <1>4 DEF T!IsPrefix

LEMMA FrontThenLast ==
  ASSUME NEW S, NEW s \in Seq(S), s # <<>>
  PROVE  /\ T!Front(s) \in Seq(S) /\ <<T!Last(s)>> \in Seq(S)
         /\ s = T!Front(s) \o <<T!Last(s)>>
<1>1. T!Front(s) \in Seq(S) /\ Len(T!Front(s)) = Len(s) - 1 /\ \A n \in 1 .. Len(s) - 1 : T!Front(s)[n] = s[n]
  BY FrontIsThread
<1>2. Len(s) \in Nat \ {0} /\ T!Last(s) = s[Len(s)] /\ T!Last(s) \in S
  BY DEF T!Last
<1> DEFINE f == T!Front(s)
           l == T!Last(s)
<1> HIDE DEF f, l
<1>3. f \in Seq(S) /\ l \in S /\ Len(f) = Len(s) - 1 /\ s[Len(s)] = l /\ \A n \in 1 .. Len(s) - 1 : f[n] = s[n]
  BY <1>1, <1>2 DEF f, l
<1>4. Len(f \o <<l>>) = Len(s) /\ f \o <<l>> \in Seq(S)
  BY <1>2, <1>3
<1>5. \A n \in 1 .. Len(s) : (f \o <<l>>)[n] = s[n]
  BY <1>2, <1>3, <1>4
<1>6. s = f \o <<l>>
  BY <1>4, <1>5
<1> QED BY <1>1, <1>2, <1>6 DEF f, l

\* A thread that grows at its end, and one that does not change.
LEMMA LastingIsKept ==
  ASSUME NEW S, NEW s \in Seq(S), NEW t \in Seq(S)
  PROVE  T!IsPrefix(T!Lasting(s), s \o t)
<1>1. CASE T!Lasting(s) = s
  BY <1>1, PrefixIsKept
<1>2. CASE T!Lasting(s) # s
  <2>1. s # <<>> /\ T!Lasting(s) = T!Front(s)
    BY <1>2 DEF T!Lasting
  <2>2. T!Front(s) \in Seq(S) /\ <<T!Last(s)>> \in Seq(S) /\ s = T!Front(s) \o <<T!Last(s)>>
    BY <2>1, FrontThenLast
  <2> DEFINE f == T!Front(s)
             l == <<T!Last(s)>>
  <2> HIDE DEF f, l
  <2>3. f \in Seq(S) /\ l \in Seq(S) /\ s = f \o l /\ T!Lasting(s) = f
    BY <2>1, <2>2 DEF f, l
  <2>4. l \o t \in Seq(S) /\ s \o t = f \o (l \o t)
    BY <2>3
  <2>5. T!IsPrefix(f, f \o (l \o t))
    BY <2>3, <2>4, PrefixIsKept
  <2> QED BY <2>3, <2>4, <2>5
<1> QED BY <1>1, <1>2

LEMMA SameRecord ==
  ASSUME NEW id \in T!Ids, T!EntriesFor(id)' = T!EntriesFor(id)
  PROVE  T!Grows(id)
BY DEF T!Grows

LEMMA UntouchedRecord ==
  ASSUME ThreadInv, NEW id \in T!Ids, picked'[id] = picked[id],
         work' = work \/ T!Attempt(id) # T!LastAttempt(id)
  PROVE  T!EntriesFor(id)' = T!EntriesFor(id)
<1>1. T!Attempt(id)' = T!Attempt(id) /\ T!LastAttempt(id)' = T!LastAttempt(id)
  BY DEF T!Attempt, T!LastAttempt
<1> QED BY <1>1 DEF T!EntriesFor, T!Grown, T!Answered

Closing(id) == IF id \in work.stopped THEN <<T!E("stop")>> ELSE <<>>

LEMMA GrownParts ==
  ASSUME NEW id
  PROVE  T!Grown(id) = Told(id) \o work.steer[id] \o Closing(id)
BY DEF T!Grown, Told, Closing

\* What is added at the end of the latest attempt.
LEMMA AddedAtTheEnd ==
  ASSUME ThreadInv, NEW id \in T!Ids, NEW more, more \in Seq(Rows(id)),
         T!Attempt(id) = T!LastAttempt(id), picked'[id] = picked[id],
         id \notin work.stopped, T!Grown(id)' = T!Grown(id) \o more
  PROVE  T!Grows(id)
<1>1. T!Attempt(id)' = T!LastAttempt(id)'
  BY DEF T!Attempt, T!LastAttempt
<1>2. T!EntriesFor(id) = T!Grown(id) /\ T!EntriesFor(id)' = T!Grown(id)'
  BY <1>1 DEF T!EntriesFor
<1>3. T!Grown(id) \in Seq(Rows(id))
  BY ThreadIsRows DEF ThreadInv
<1>4. T!IsPrefix(T!Lasting(T!Grown(id)), T!Grown(id) \o more)
  BY <1>3, LastingIsKept
<1> QED BY <1>2, <1>4 DEF T!Grows

LEMMA SendingGrows ==
  ASSUME ThreadInv, NEW c \in T!Offered, T!SendInstruction(c), NEW id \in T!Ids, picked'[id] = picked[id]
  PROVE  T!Grows(id)
<1> DEFINE a == [T!E("steer") EXCEPT !.text = T!Open]
           more == <<a, T!E("say")>>
           told == work.steer[T!Open] \o more
<1>1. work' = [work EXCEPT !.steer[T!Open] = told] /\ T!CanSteer(T!Open) /\ drafts[T!Open].text = T!Open /\ T!Open \in T!Ids
  BY OfferedInTheThread, SomethingIsSent
     DEF T!SendInstruction, ThreadInv, WaysAreKept, WorkIsInPlace, T!ThreadShown, T!Open
<1>2. more \in Seq(Rows(T!Open))
  <2>1. a \in Rows(T!Open) /\ T!E("say") \in Rows(T!Open)
    BY NoticesAreRows DEF T!Kinds
  <2> HIDE DEF a
  <2> QED BY <2>1
<1> HIDE DEF told, more
<1>3. /\ work'.answered = work.answered /\ work'.stopped = work.stopped
      /\ work'.steer = [work.steer EXCEPT ![T!Open] = told]
  BY <1>1 DEF IsWork, ThreadInv, WorkIsInPlace
<1>4. \A i \in T!Ids : work'.steer[i] = IF i = T!Open THEN told ELSE work.steer[i]
  BY <1>1, <1>3 DEF ThreadInv, WorkIsInPlace
<1>5. Told(id)' = Told(id) /\ Closing(id)' = Closing(id)
  BY <1>3 DEF Told, Closing, T!Answered, T!LastAttempt
<1>6. T!Grown(id) = Told(id) \o work.steer[id] \o Closing(id)
  BY GrownParts
<1>7. T!Grown(id)' = Told(id)' \o work'.steer[id] \o Closing(id)'
  BY DEF T!Grown, Told, Closing
<1>8. CASE id # T!Open
  <2>1. T!Grown(id)' = T!Grown(id)
    BY <1>8, <1>4, <1>5, <1>6, <1>7
  <2>2. T!EntriesFor(id)' = T!EntriesFor(id)
    BY <2>1 DEF T!EntriesFor, T!Attempt, T!LastAttempt
  <2> QED BY <2>2, SameRecord
<1>9. CASE id = T!Open
  <2>1. id \notin work.stopped /\ T!Attempt(id) = T!LastAttempt(id)
    BY <1>1, <1>9 DEF T!CanSteer, T!Active
  <2>2. Told(id) \in Seq(Rows(id)) /\ work.steer[id] \in Seq(Rows(id))
    BY ThreadIsRows DEF ThreadInv
  <2>3. Closing(id) = <<>>
    BY <2>1 DEF Closing
  <2>4. T!Grown(id)' = Told(id) \o (work.steer[id] \o more) \o <<>>
    BY <1>4, <1>5, <1>7, <1>9, <2>3 DEF told
  <2>5. T!Grown(id) = Told(id) \o work.steer[id] \o <<>>
    BY <1>6, <2>3
  <2>6. T!Grown(id)' = T!Grown(id) \o more
    <3> DEFINE t == Told(id)
               st == work.steer[id]
    <3> HIDE DEF t, st
    <3>1. t \in Seq(Rows(id)) /\ st \in Seq(Rows(id)) /\ more \in Seq(Rows(id))
      BY <2>2, <1>2, <1>9 DEF t, st
    <3>2. t \o (st \o more) \o <<>> = (t \o st \o <<>>) \o more
      BY <3>1
    <3> QED BY <2>4, <2>5, <3>2 DEF t, st
  <2> QED BY <1>2, <1>9, <2>1, <2>6, AddedAtTheEnd
<1> QED BY <1>8, <1>9

LEMMA StoppingGrows ==
  ASSUME ThreadInv, NEW c \in T!Offered, T!Stop(c), NEW id \in T!Ids, picked'[id] = picked[id]
  PROVE  T!Grows(id)
<1> DEFINE st == work.stopped \cup {T!Open}
<1>1. work' = [work EXCEPT !.stopped = st] /\ T!CanSteer(T!Open)
  BY DEF T!Stop
<1> HIDE DEF st
<1>2. work'.answered = work.answered /\ work'.steer = work.steer /\ work'.stopped = st
  BY <1>1 DEF IsWork, ThreadInv, WorkIsInPlace
<1>3. Told(id)' = Told(id)
  BY <1>2 DEF Told, T!Answered, T!LastAttempt
<1>4. T!Grown(id) = Told(id) \o work.steer[id] \o Closing(id)
  BY GrownParts
<1>5. T!Grown(id)' = Told(id)' \o work'.steer[id] \o Closing(id)'
  BY DEF T!Grown, Told, Closing
<1>6. CASE id # T!Open
  <2>1. Closing(id)' = Closing(id)
    BY <1>2, <1>6 DEF Closing, st
  <2>2. T!Grown(id)' = T!Grown(id)
    BY <1>2, <1>3, <1>4, <1>5, <2>1
  <2>3. T!EntriesFor(id)' = T!EntriesFor(id)
    BY <2>2 DEF T!EntriesFor, T!Attempt, T!LastAttempt
  <2> QED BY <2>3, SameRecord
<1>7. CASE id = T!Open
  <2>1. id \notin work.stopped /\ T!Attempt(id) = T!LastAttempt(id)
    BY <1>1, <1>7 DEF T!CanSteer, T!Active
  <2>2. Closing(id) = <<>> /\ Closing(id)' = <<T!E("stop")>>
    BY <1>2, <1>7, <2>1 DEF Closing, st
  <2>3. Told(id) \in Seq(Rows(id)) /\ work.steer[id] \in Seq(Rows(id)) /\ T!E("stop") \in Rows(id)
    BY ThreadIsRows, NoticesAreRows DEF ThreadInv, T!Kinds
  <2>4. T!Grown(id)' = T!Grown(id) \o <<T!E("stop")>> /\ <<T!E("stop")>> \in Seq(Rows(id))
    <3> DEFINE t == Told(id)
               s == work.steer[id]
               e == T!E("stop")
    <3> HIDE DEF t, s, e
    <3>1. t \in Seq(Rows(id)) /\ s \in Seq(Rows(id)) /\ e \in Rows(id)
      BY <2>3 DEF t, s, e
    <3>2. t \o s \o <<e>> = (t \o s \o <<>>) \o <<e>> /\ <<e>> \in Seq(Rows(id))
      BY <3>1
    <3> QED BY <1>2, <1>3, <1>4, <1>5, <2>2, <3>2 DEF t, s, e
  <2> QED BY <2>1, <2>4, AddedAtTheEnd
<1> QED BY <1>6, <1>7

\* An answer takes the place of the notice that a child waits with.
LEMMA AnsweringGrows ==
  ASSUME ThreadInv, NEW c \in T!Offered, T!Answer(c), NEW id \in T!Ids, picked'[id] = picked[id]
  PROVE  T!Grows(id)
<1> DEFINE d == c[2]
           o == c[3]
<1>1. work' = [work EXCEPT !.answered[d] = o] /\ T!HasQuestion(d) /\ d \notin work.stopped
  BY DEF T!Answer, T!AnswerStands
<1> HIDE DEF d, o
<1>2. d \in T!Waiting /\ d \in Children /\ ~T!Answered(d) /\ work.steer[d] = <<>>
  BY <1>1 DEF T!HasQuestion, T!Waiting, ThreadInv, WaitingIsUntouched
<1>3. /\ work'.steer = work.steer /\ work'.stopped = work.stopped
      /\ work'.answered = [work.answered EXCEPT ![d] = o]
  BY <1>1 DEF IsWork, ThreadInv, WorkIsInPlace
<1>4. T!Grown(id) = Told(id) \o work.steer[id] \o Closing(id)
  BY GrownParts
<1>5. T!Grown(id)' = Told(id)' \o work'.steer[id] \o Closing(id)'
  BY DEF T!Grown, Told, Closing
<1>6. Closing(id)' = Closing(id)
  BY <1>3 DEF Closing
<1>7. CASE id # d \/ o = None
  <2>1. id \in Children => work'.answered[id] = work.answered[id]
    BY <1>2, <1>3, <1>7 DEF ThreadInv, WorkIsInPlace, T!Answered
  <2>2. Told(id)' = Told(id)
    BY <2>1 DEF Told, T!Answered, T!LastAttempt
  <2>3. T!Grown(id)' = T!Grown(id)
    BY <1>3, <1>4, <1>5, <1>6, <2>2
  <2>4. T!EntriesFor(id)' = T!EntriesFor(id)
    BY <2>3 DEF T!EntriesFor, T!Attempt, T!LastAttempt
  <2> QED BY <2>4, SameRecord
<1>8. CASE id = d /\ o # None /\ T!Attempt(id) # T!LastAttempt(id)
  BY <1>8, UntouchedRecord, SameRecord
<1>9. CASE id = d /\ o # None /\ T!Attempt(id) = T!LastAttempt(id)
  <2> DEFINE base == Script[id][T!LastAttempt(id)]
             a == [T!E("answer") EXCEPT !.text = work'.answered[id]]
             s == T!E("say")
             l == T!E("live")
  <2>1. base \in Seq(T!Entries(id)) /\ base # <<>> /\ T!Last(base).k \in {"live", "hand"}
    BY <1>2, <1>9, ScriptIsTyped, WaitingScript DEF T!LastAttempt
  <2>2. Told(id) = base /\ Closing(id) = <<>> /\ work.steer[id] = <<>>
    BY <1>1, <1>2, <1>9 DEF Told, Closing
  <2>3. T!Grown(id) = base
    <3> HIDE DEF base
    <3> QED BY <1>4, <2>1, <2>2
  <2>4. T!Answered(id)'
    BY <1>2, <1>3, <1>9 DEF T!Answered, ThreadInv, WorkIsInPlace
  <2>5. Told(id)' = T!Front(base) \o <<a, s, l>>
    BY <1>2, <1>9, <2>4 DEF Told, T!LastAttempt
  <2>6. T!Grown(id)' = T!Front(base) \o <<a, s, l>> \o <<>> \o <<>>
    BY <1>3, <1>5, <1>6, <2>2, <2>5
  <2>7. T!Attempt(id)' = T!LastAttempt(id)'
    BY <1>9 DEF T!Attempt, T!LastAttempt
  <2>8. T!EntriesFor(id) = base /\ T!EntriesFor(id)' = T!Front(base) \o <<a, s, l>> \o <<>> \o <<>>
    BY <1>9, <2>3, <2>6, <2>7 DEF T!EntriesFor
  <2>9. T!Front(base) \in Seq(T!Entries(id)) /\ T!Lasting(base) = T!Front(base)
    BY <2>1, FrontThenLast DEF T!Lasting
  <2> HIDE DEF base, a, s, l
  <2>10. T!IsPrefix(T!Front(base), T!Front(base) \o <<a, s, l>> \o <<>> \o <<>>)
    <3> DEFINE S == T!Entries(id) \cup {a, s, l}
               f == T!Front(base)
    <3> HIDE DEF f
    <3>1. f \in Seq(S) /\ <<a, s, l>> \in Seq(S)
      BY <2>9 DEF f
    <3> HIDE DEF S
    <3>2. f \o <<a, s, l>> \o <<>> \o <<>> = f \o <<a, s, l>>
      BY <3>1
    <3> QED BY <3>1, <3>2, PrefixIsKept DEF f
  <2> QED BY <1>1, <1>9, <2>8, <2>9, <2>10 DEF T!Grows
<1> QED BY <1>7, <1>8, <1>9

LEMMA RecordStep ==
  ASSUME ThreadInv, T!Next, NEW id \in T!Ids
  PROVE  T!Grows(id)
<1>1. CASE picked'[id] # picked[id]
  BY <1>1 DEF T!Grows
<1>2. CASE picked'[id] = picked[id]
  <2>1. PICK c \in T!Offered :
          \/ T!OpenRun(c) \/ T!OpenChild(c) \/ T!BackToRunGo(c) \/ T!Back(c) \/ T!Go(c)
          \/ T!PickTab(c) \/ T!ShowPane(c) \/ T!DiscussInThread(c)
          \/ T!Toggle(c) \/ T!ToggleAll(c) \/ T!PickAttempt(c) \/ T!ToggleFind(c) \/ T!EditFind(c)
          \/ T!Type(c) \/ T!Attach(c) \/ T!SendInstruction(c) \/ T!Stop(c)
          \/ T!Answer(c) \/ T!Reply(c) \/ T!CancelReply(c) \/ T!Say(c)
    BY DEF T!Next
  <2>2. CASE T!SendInstruction(c)
    BY <1>2, <2>2, SendingGrows
  <2>3. CASE T!Stop(c)
    BY <1>2, <2>3, StoppingGrows
  <2>4. CASE T!Answer(c)
    BY <1>2, <2>4, AnsweringGrows
  <2>5. CASE ~T!SendInstruction(c) /\ ~T!Stop(c) /\ ~T!Answer(c)
    <3>1. work' = work
      BY <2>1, <2>5 DEF T!OpenRun, T!OpenChild, T!BackToRunGo, T!Back, T!Go, T!PickTab, T!ShowPane, T!DiscussInThread, T!Toggle,
         T!ToggleAll, T!PickAttempt, T!ToggleFind, T!EditFind, T!Type, T!Attach, T!Reply, T!CancelReply, T!Say, T!Reading
    <3> QED BY <1>2, <3>1, UntouchedRecord, SameRecord
  <2> QED BY <2>2, <2>3, <2>4, <2>5
<1> QED BY <1>1, <1>2

\* Nothing a member does rewrites what a thread recorded, an earlier attempt is
\* closed, and nothing follows a stop (entriesFor16).
THEOREM RecordsAreNotRewritten == Spec => RecordOnlyGrows
<1>1. ThreadInv /\ [Next]_vars => [desk = "threads" => \A id \in T!Ids : T!Grows(id)]_(T!vars)
  BY AThreadStep, RecordStep
<1> QED BY <1>1, ThreadsAlways, PTL DEF Spec, RecordOnlyGrows
===============================================================================
