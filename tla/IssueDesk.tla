----------------------------- MODULE IssueDesk -----------------------------
(***************************************************************************)
(* An issue beside its conversation: the panes of the inspector (issue,    *)
(* workflow, pull request, files, usage, chat details), the dialogs they   *)
(* open, and the player of recorded browser steps.                         *)
(*                                                                         *)
(* The pull request's gate works from a snapshot of who may merge and what *)
(* was looked at.  The snapshot is recomputed while nothing is stored for  *)
(* the issue and frozen, whole, the first time its Files are opened.       *)
(* Dialogs keep the issue they were opened on; what they do when confirmed *)
(* partly goes to that issue and partly to the one on screen.              *)
(*                                                                         *)
(* With a server the adapter (live/use-live-workspace.ts) binds its own    *)
(* ways of opening a conversation and the browser's Back over those of the *)
(* page, and its own writes.  Of that page, "live", only going about and   *)
(* looking is here; everything else is the page without a server.          *)
(***************************************************************************)
EXTENDS Integers, Sequences, FiniteSets

CONSTANTS Members,      \* people signed in one after the other
          Nobody,       \* an issue's assignee may be left out
          Issue,        \* the issue with a pull request, there from the start
          Made,         \* an issue this desk creates (subissue or promotion)
          Chat,         \* a private conversation of every member
          Names,        \* names of the files a conversation carries
          Recordings,   \* recorded browser actions
          StepsOf,      \* [Recordings -> number of recorded steps]
          MaxChanges    \* bound: writes and player commands in a behaviour

DeskConstants ==
    /\ StepsOf \in [Recordings -> Nat \ {0}]
    /\ MaxChanges \in Nat
    /\ Nobody \notin Members

VARIABLES live,         \* the page has a server
          member,       \* who is signed in
          at,           \* the conversation on screen, or "none" (the list)
          pane,         \* the inspector's tab, or "peek" while it is folded
          prOpen,       \* the pull request is opened out of its list
          section,      \* section of the pull request pane
          preview,      \* the files pane shows the preview
          file,         \* file opened in the files pane: <<conversation, name>>
          dialog,       \* [kind, on]: the dialog and the issue it was opened on
          issues,       \* issues that exist
          status, owner,
          snapshot,     \* what the gate stored for the issue with a pull request
          review,       \* the stored decision of an issue
          seen,         \* issues whose result was opened (viewedResults9)
          madeFrom,     \* what Made came from: its parent, the chat, or "none"
          compacted,    \* conversations whose context was compacted
          player,       \* [run, step, playing, timer]
          changes       \* bound

desk   == <<member, at, pane, prOpen, section, preview, file>>
record == <<issues, status, owner, snapshot, review, seen, madeFrom, compacted>>
vars   == <<live, desk, dialog, record, player, changes>>

AllIssues == {Issue, Made}
Closed    == {"Done", "Canceled", "Merged dev"}
Statuses  == Closed \cup {"Incoming", "Running", "Paused", "Ready for review", "Blocked"}
Sections  == {"overview", "files", "checks", "commits", "commit", "reviews"}
NoFile    == <<"none", "none">>
NoDialog  == [kind |-> "none", on |-> "none"]

OnIssue   == at \in AllIssues
HasPR     == at = Issue

(***************************************************************************)
(* What the conversation waits for.  An issue ready for review has an open *)
(* review even when none is stored; its owner is the issue's owner, which  *)
(* an assignment writes to both.                                           *)
(***************************************************************************)
Decision(i) ==
    IF status[i] = "Ready for review" /\ review[i] # "open" THEN "open" ELSE review[i]

NeedsMember(i) ==
    Decision(i) = "open" /\ owner[i] = member /\ status[i] \notin Closed

\* The value a patch of the decision leaves stored.
Resolved(r, i) == [r EXCEPT ![i] = "resolved"]

(***************************************************************************)
(* The merge gate: only the permission and the look at the files vary; the *)
(* head, the checks and the approval never change after an issue is there. *)
(***************************************************************************)
Snapshot ==
    IF snapshot = {} THEN [canMerge |-> owner[Issue] = member, viewed |-> FALSE]
    ELSE CHOOSE s \in snapshot : TRUE

Gate_Blind == HasPR /\ status[Issue] # "Merged dev" /\ Snapshot.canMerge

Gate == HasPR /\ status[Issue] # "Merged dev" /\ Snapshot.canMerge /\ Snapshot.viewed

(***************************************************************************)
(* Where the run is.  The stages were recorded when the workspace opened   *)
(* and do not follow the status afterwards (captureRuns12); the issue with *)
(* a pull request was ready for review then, the other one did not exist.  *)
(***************************************************************************)
Order == <<"start", "plan", "implement", "review1", "review2", "gate", "approval", "finish">>

Stages(i) == i = Issue

StepState(i, n) ==
    LET finished == status[i] \in {"Merged dev", "Done"} IN
    CASE n = "review1" /\ Stages(i)   -> "needs"
      [] n = "gate"                   -> IF finished \/ status[i] = "Ready for review"
                                              \/ (Stages(i) /\ status[i] # "Running")
                                         THEN "done" ELSE "upcoming"
      [] n = "approval"               -> IF finished THEN "done"
                                         ELSE IF status[i] = "Ready for review" THEN "waiting"
                                         ELSE "upcoming"
      [] n = "finish"                 -> IF finished THEN "done" ELSE "upcoming"
      [] OTHER                        -> IF Stages(i) \/ finished THEN "done" ELSE "upcoming"

Pending(i) == {k \in 1..Len(Order) : StepState(i, Order[k]) \notin {"done", "needs"}}

\* The step the pane calls the current one, "none" when every step is done.
WorkflowNow(i) ==
    IF Pending(i) = {} THEN [step |-> "none", st |-> "none"]
    ELSE LET first == Order[CHOOSE k \in Pending(i) : \A j \in Pending(i) : k <= j]
             step  == IF first = "gate" /\ status[i] \in {"Running", "Paused", "Blocked"}
                      THEN "review2" ELSE first
             st    == IF step # first THEN "upcoming" ELSE StepState(i, first)
         IN  [step |-> step,
              st   |-> CASE status[i] = "Canceled"                   -> "canceled"
                         [] status[i] = "Blocked"                    -> "stuck"
                         [] status[i] = "Paused" /\ st # "waiting"   -> "paused"
                         [] status[i] = "Running" /\ st = "upcoming" -> "running"
                         [] OTHER                                    -> st]

WorkflowShown(i) == Stages(i) \/ status[i] \in {"Merged dev", "Done"}

-----------------------------------------------------------------------------
(***************************************************************************)
(* What every section of the screen offers: the handlers of its controls.  *)
(***************************************************************************)
ThreadHead ==
    IF ~OnIssue THEN {}
    ELSE {<<"allConversations9">>, <<"openTaskDetails9">>}
         \cup (IF WorkflowShown(at) THEN {<<"openWorkflowPane18">>} ELSE {})

\* The result card, where nothing is asked of the member.
ResultCard == IF HasPR /\ ~NeedsMember(at) THEN {<<"openThreadResult9">>} ELSE {}

ChatHead == IF at = Chat THEN {<<"allConversations9">>, <<"details10">>} ELSE {}

\* The folded inspector: a glance at the issue, the files and the recording.
ContextPeek ==
    IF pane # "peek" THEN {}
    ELSE {<<"filesTab12">>} \cup {<<"openFile", n>> : n \in Names}
         \cup (IF OnIssue THEN {<<"issueTab12">>} ELSE {})
         \cup (IF HasPR THEN {<<"prTab12">>} ELSE {})

LastStep == StepsOf[player.run] - 1

PlayerControls ==
    IF live THEN {} ELSE
    {<<"bpToggle15">>, <<"bpReplay15">>}
    \cup (IF player.step < StepsOf[player.run] - 1 THEN {<<"bpNext15">>} ELSE {})

PeekPlayer == IF pane = "peek" THEN PlayerControls \cup {<<"bpExpand15">>} ELSE {}

InspectorTabs ==
    IF pane = "peek" THEN {}
    ELSE {<<"collapsePane11">>, <<"filesTab12">>, <<"usageTab">>}
         \cup (IF OnIssue THEN {<<"issueTab12">>, <<"openWorkflowPane18">>, <<"allRuns12">>}
                          ELSE {<<"details10">>})
         \cup (IF HasPR THEN {<<"prTab12">>} ELSE {<<"outputTab">>})

IssueFields ==
    IF pane # "issue" THEN {}
    ELSE {<<"changeStatus12", s>> : s \in Statuses \ (IF status[at] = "Merged dev" THEN {} ELSE {"Merged dev"})}
         \cup {<<"changeAssignee12", m>> : m \in Members \cup {Nobody}}

\* Parent and subissues, which the list of conversations opens as well, and
\* the linked pull request.
IssueRelations ==
    IF pane # "issue" THEN {}
    ELSE {<<"addSubissue12">>} \cup (IF HasPR THEN {<<"prTab12">>} ELSE {})

PullRequestList == IF pane = "pr" /\ ~prOpen THEN {<<"prOpen">>} ELSE {}

PullRequestHead ==
    IF pane = "pr" /\ prOpen
    THEN {<<"prCloseDetail16">>} \cup {<<"prTab", s>> : s \in Sections \ {"commit"}} ELSE {}

PullRequestOverview ==
    IF pane = "pr" /\ prOpen /\ section = "overview" /\ Gate THEN {<<"prepareMerge12">>} ELSE {}

PullRequestCommits ==
    IF pane # "pr" \/ ~prOpen THEN {}
    ELSE IF section = "commits" THEN {<<"prCommit">>}
    ELSE IF section = "commit" THEN {<<"prTab", "commits">>} ELSE {}

PullRequestReviews ==
    IF pane = "pr" /\ prOpen /\ section = "reviews" THEN {<<"requestChanges9">>} ELSE {}

WorkflowPane ==
    IF pane # "workflow" THEN {}
    ELSE CASE WorkflowNow(at).st = "waiting"               -> {<<"wfNow", "pr">>}
           [] WorkflowNow(at).st = "paused"                -> {<<"changeStatus12", "Running">>}
           [] WorkflowNow(at).st = "running" /\ Stages(at) -> {<<"wfNow", "runs">>}
           [] WorkflowNow(at).st = "stuck" /\ Decision(at) # "open" -> {<<"wfNow", "issue">>}
           [] OTHER -> {}
         \cup (IF Stages(at) THEN {<<"wfNow", "runs">>} ELSE {})

FilesPane ==
    IF pane # "files" \/ preview THEN {}
    ELSE IF file # NoFile THEN {<<"closeFile13">>, <<"previewTab">>}
    ELSE {<<"openFile", n>> : n \in Names} \cup {<<"previewTab">>}
         \cup (IF OnIssue THEN {<<"issueTab12">>} ELSE {})

PreviewPane ==
    IF pane # "files" \/ ~preview THEN {}
    ELSE {<<"filesSection">>} \cup PlayerControls
         \cup (IF live THEN {} ELSE {<<"bpRunPick15", r>> : r \in Recordings}
                                      \cup {<<"bpGo15", k>> : k \in 0..LastStep})

UsagePane == IF pane = "usage" /\ OnIssue THEN {<<"allRuns12">>} ELSE {}

ConversationPane ==
    IF pane # "details" THEN {} ELSE {<<"promoteChat12">>, <<"compactContext12">>}

DialogControls == {<<"confirm">>, <<"closeDialog">>}

Looking ==
    ThreadHead \cup ChatHead \cup ContextPeek \cup PeekPlayer \cup InspectorTabs
         \cup FilesPane \cup PreviewPane

Writing ==
    ResultCard \cup IssueFields \cup IssueRelations \cup PullRequestList \cup PullRequestHead
         \cup PullRequestOverview \cup PullRequestCommits \cup PullRequestReviews
         \cup WorkflowPane \cup UsagePane \cup ConversationPane

Offered ==
    IF dialog # NoDialog THEN DialogControls
    ELSE IF at = "none" THEN {}
    ELSE Looking \cup (IF live THEN {} ELSE Writing)

-----------------------------------------------------------------------------
Init ==
    /\ live \in BOOLEAN
    /\ member \in Members
    /\ at = "none" /\ pane = "peek" /\ prOpen = FALSE /\ section = "overview"
    /\ preview = FALSE /\ file = NoFile /\ dialog = NoDialog
    /\ issues = {Issue}
    /\ status = [i \in AllIssues |-> IF i = Issue THEN "Ready for review" ELSE "Incoming"]
    /\ owner = [i \in AllIssues |-> CHOOSE m \in Members : TRUE]
    /\ snapshot = {} /\ review = [i \in AllIssues |-> "none"]
    /\ seen = {} /\ madeFrom = "none" /\ compacted = {}
    /\ player = [run |-> CHOOSE r \in Recordings : TRUE, step |-> 0, playing |-> FALSE, timer |-> FALSE]
    /\ changes = 0

Change == changes < MaxChanges /\ changes' = changes + 1

Shown_KeepsFile(c) == at' = c /\ pane' = "peek" /\ file' = file

(***************************************************************************)
(* Going from one conversation to another folds the inspector and closes   *)
(* the file; the pull request pane keeps its level and section.            *)
(***************************************************************************)
Shown(c) == at' = c /\ pane' = "peek" /\ file' = NoFile

(* The adapter's: beside an issue the issue pane opens where there is room,  *)
(* and a file that is open stays open.                                       *)
ShownLive(c) ==
    /\ at' = c /\ file' = file
    /\ pane' \in {"peek"} \cup (IF c = Chat THEN {} ELSE {"issue"})

Going == UNCHANGED <<member, prOpen, section, preview, dialog, record, player, changes>>

OpenIssue(i) ==
    /\ i \in issues /\ dialog = NoDialog
    /\ IF live THEN ShownLive(i) ELSE Shown(i)
    /\ Going

\* A chat that became an issue opens as that issue.
OpenChat ==
    /\ dialog = NoDialog
    /\ IF live THEN ShownLive(Chat) ELSE Shown(IF madeFrom = Chat THEN Made ELSE Chat)
    /\ Going

\* popRoute: the browser's Back and Forward.  The history is not kept: they
\* lead to any place, and to a conversation with the inspector as it is.
Back(c) ==
    /\ live /\ c \in issues \cup {Chat, "none"}
    /\ IF c \in issues THEN ShownLive(c) ELSE at' = c /\ UNCHANGED <<pane, file>>
    /\ Going

AllConversations ==
    /\ at' = "none"
    /\ UNCHANGED <<member, pane, prOpen, section, preview, file, dialog, record, player, changes>>

SwitchMember(m) ==
    /\ ~live /\ m # member /\ dialog = NoDialog /\ Change
    /\ member' = m /\ Shown("none")
    /\ UNCHANGED <<prOpen, section, preview, dialog, record, player>>

(***************************************************************************)
(* The inspector.  Asking for the pull request of an issue without files   *)
(* shows its output.                                                       *)
(***************************************************************************)
Tab(name) == IF name = "pr" /\ ~HasPR THEN "output" ELSE name

TabOf == [issueTab12 |-> "issue", openTaskDetails9 |-> "issue", openWorkflowPane18 |-> "workflow",
          prTab12 |-> "pr", filesTab12 |-> "files", usageTab |-> "usage", allRuns12 |-> "runs",
          outputTab |-> "output", details10 |-> "details", collapsePane11 |-> "peek"]

Inspect(name) ==
    /\ pane' = Tab(TabOf[name])
    /\ UNCHANGED <<member, at, prOpen, section, preview, file, dialog, record, player, changes>>

\* What opening the files of the pull request or the result leaves stored:
\* the whole snapshot of that moment, the permission to merge included.
MarkViewed ==
    /\ seen' = seen \cup {at}
    /\ snapshot' = IF HasPR THEN {[Snapshot EXCEPT !.viewed = TRUE]} ELSE snapshot
    /\ UNCHANGED <<issues, status, owner, review, madeFrom, compacted>>

OpenResult ==
    /\ pane' = (IF HasPR THEN "pr" ELSE "output") /\ section' = "files"
    /\ MarkViewed
    /\ UNCHANGED <<member, at, prOpen, preview, file, dialog, player, changes>>

PrOpenDetail ==
    /\ prOpen' = TRUE
    /\ UNCHANGED <<member, at, pane, section, preview, file, dialog, record, player, changes>>

PrCloseDetail ==
    /\ prOpen' = FALSE /\ section' = "overview"
    /\ UNCHANGED <<member, at, pane, preview, file, dialog, record, player, changes>>

PrSection(s) ==
    /\ section' = s
    /\ IF s = "files" THEN MarkViewed ELSE UNCHANGED record
    /\ UNCHANGED <<member, at, pane, prOpen, preview, file, dialog, player, changes>>

PrCommit ==
    /\ section' = "commit"
    /\ UNCHANGED <<member, at, pane, prOpen, preview, file, dialog, record, player, changes>>

SelectFile(n) ==
    /\ file' = <<at, n>> /\ pane' = "files"
    /\ UNCHANGED <<member, at, prOpen, section, preview, dialog, record, player, changes>>

CloseFile ==
    /\ file' = NoFile
    /\ UNCHANGED <<member, at, pane, prOpen, section, preview, dialog, record, player, changes>>

FileSection(shown) ==
    /\ preview' = shown
    /\ UNCHANGED <<member, at, pane, prOpen, section, file, dialog, record, player, changes>>

\* The one action of the workflow pane that is not a status change.
WorkflowNowAction(name) ==
    /\ pane' = name
    /\ UNCHANGED <<member, at, prOpen, section, preview, file, dialog, record, player, changes>>

Settled_Open(i, s) == review

-----------------------------------------------------------------------------
(***************************************************************************)
(* Writing to the issue on screen.                                         *)
(***************************************************************************)
\* Closing an issue resolves its decision.
Settled(i, s) ==
    IF s \in {"Done", "Canceled"} /\ Decision(i) # "none" THEN Resolved(review, i) ELSE review

ChangeStatus(s) ==
    /\ IF s = "Merged dev"
       THEN pane' = Tab("pr") /\ UNCHANGED <<record, changes>>
       ELSE /\ Change
            /\ status' = [status EXCEPT ![at] = s]
            /\ review' = Settled(at, s)
            /\ UNCHANGED <<pane, issues, owner, snapshot, seen, madeFrom, compacted>>
    /\ UNCHANGED <<member, at, prOpen, section, preview, file, dialog, player>>

\* A new owner stops a running issue and takes over an open decision, which
\* stores the review that was only implied until then.
ChangeAssignee(m) ==
    /\ m # owner[at] /\ Change
    /\ owner' = [owner EXCEPT ![at] = m]
    /\ status' = [status EXCEPT ![at] = IF @ = "Running" THEN "Paused" ELSE @]
    /\ review' = [review EXCEPT ![at] = Decision(at)]
    /\ UNCHANGED <<desk, dialog, issues, snapshot, seen, madeFrom, compacted, player>>

\* A running issue's result arrives whatever is on screen.
RunEnds(i) ==
    /\ ~live /\ i \in issues /\ status[i] = "Running" /\ Change
    /\ status' = [status EXCEPT ![i] = "Ready for review"]
    /\ UNCHANGED <<desk, dialog, issues, owner, snapshot, review, seen, madeFrom, compacted, player>>

DialogOf == [prepareMerge12 |-> "merge", requestChanges9 |-> "changes",
             addSubissue12 |-> "subissue", promoteChat12 |-> "promote"]

OpenDialog(name) ==
    /\ dialog' = [kind |-> DialogOf[name], on |-> at]
    /\ UNCHANGED <<desk, record, player, changes>>

CloseDialog ==
    /\ dialog' = NoDialog
    /\ UNCHANGED <<desk, record, player, changes>>

\* Confirming looks at the gate again: the run may have moved the issue on.
ConfirmMerge ==
    /\ dialog.kind = "merge" /\ Change
    /\ dialog' = NoDialog
    /\ IF at # dialog.on \/ ~Gate THEN UNCHANGED <<section, status, review>>
       ELSE /\ status' = [status EXCEPT ![at] = "Merged dev"]
            /\ review' = IF review[at] = "none" THEN review ELSE Resolved(review, at)
            /\ section' = "overview"
    /\ UNCHANGED <<member, at, pane, prOpen, preview, file, issues, owner, snapshot, seen,
                   madeFrom, compacted, player>>

\* The decision goes to the issue of the dialog, the status to the one shown.
ConfirmChanges ==
    /\ dialog.kind = "changes" /\ Change
    /\ dialog' = NoDialog
    /\ review' = Resolved(review, dialog.on)
    /\ status' = [status EXCEPT ![at] = "Incoming"]
    /\ UNCHANGED <<desk, issues, owner, snapshot, seen, madeFrom, compacted, player>>

ConfirmSubissue ==
    /\ dialog.kind = "subissue" /\ Change /\ Made \notin issues
    /\ dialog' = NoDialog
    /\ issues' = issues \cup {Made} /\ madeFrom' = dialog.on
    /\ owner' = [owner EXCEPT ![Made] = owner[dialog.on]]
    /\ UNCHANGED <<desk, status, snapshot, review, seen, compacted, player>>

ConfirmPromote ==
    /\ dialog.kind = "promote" /\ Change /\ Made \notin issues
    /\ dialog' = NoDialog
    /\ issues' = issues \cup {Made} /\ madeFrom' = Chat
    /\ owner' = [owner EXCEPT ![Made] = member]
    /\ at' = Made /\ pane' = "issue" /\ file' = NoFile
    /\ UNCHANGED <<member, prOpen, section, preview, status, snapshot, review, seen, compacted, player>>

CompactContext ==
    /\ Change
    /\ compacted' = compacted \cup {at}
    /\ UNCHANGED <<desk, dialog, issues, status, owner, snapshot, review, seen, madeFrom, player>>

-----------------------------------------------------------------------------
(***************************************************************************)
(* The player.  Playing is a chain of single timers; choosing a recording  *)
(* or a step stops it and leaves the timer to find nothing playing.        *)
(***************************************************************************)
PlayerOnly == UNCHANGED <<desk, dialog, record>>

BpToggle ==
    /\ Change
    /\ player' = [player EXCEPT !.playing = ~@, !.timer = ~player.playing]
    /\ PlayerOnly

BpNext ==
    /\ Change
    /\ player' = [player EXCEPT !.step = IF @ < LastStep THEN @ + 1 ELSE LastStep,
                                !.playing = FALSE, !.timer = FALSE]
    /\ PlayerOnly

BpReplay ==
    /\ Change
    /\ player' = [player EXCEPT !.step = 0, !.playing = TRUE, !.timer = TRUE]
    /\ PlayerOnly

BpRunPick(r) ==
    /\ Change
    /\ player' = [player EXCEPT !.run = r, !.step = 0, !.playing = FALSE]
    /\ PlayerOnly

BpGo(k) ==
    /\ Change
    /\ player' = [player EXCEPT !.step = k, !.playing = FALSE]
    /\ PlayerOnly

BpExpand ==
    /\ pane' = "files" /\ preview' = TRUE
    /\ UNCHANGED <<member, at, prOpen, section, file, dialog, record, player, changes>>

BpTick ==
    /\ player.timer
    /\ player' = IF ~player.playing THEN [player EXCEPT !.timer = FALSE]
                 ELSE IF player.step >= LastStep
                 THEN [player EXCEPT !.playing = FALSE, !.timer = FALSE]
                 ELSE [player EXCEPT !.step = @ + 1]
    /\ PlayerOnly /\ UNCHANGED changes

-----------------------------------------------------------------------------
Click(c) ==
    \/ c[1] = "allConversations9" /\ AllConversations
    \/ c[1] \in DOMAIN TabOf /\ Inspect(c[1])
    \/ c[1] = "openThreadResult9" /\ OpenResult
    \/ c[1] = "prOpen" /\ PrOpenDetail
    \/ c[1] = "prCloseDetail16" /\ PrCloseDetail
    \/ c[1] = "prTab" /\ PrSection(c[2])
    \/ c[1] = "prCommit" /\ PrCommit
    \/ c[1] = "openFile" /\ SelectFile(c[2])
    \/ c[1] = "closeFile13" /\ CloseFile
    \/ c[1] = "previewTab" /\ FileSection(TRUE)
    \/ c[1] = "filesSection" /\ FileSection(FALSE)
    \/ c[1] = "wfNow" /\ WorkflowNowAction(c[2])
    \/ c[1] = "changeStatus12" /\ ChangeStatus(c[2])
    \/ c[1] = "changeAssignee12" /\ ChangeAssignee(c[2])
    \/ c[1] \in DOMAIN DialogOf /\ OpenDialog(c[1])
    \/ c[1] = "closeDialog" /\ CloseDialog
    \/ c[1] = "confirm" /\ (ConfirmMerge \/ ConfirmChanges \/ ConfirmSubissue \/ ConfirmPromote)
    \/ c[1] = "compactContext12" /\ CompactContext
    \/ c[1] = "bpToggle15" /\ BpToggle
    \/ c[1] = "bpNext15" /\ BpNext
    \/ c[1] = "bpReplay15" /\ BpReplay
    \/ c[1] = "bpExpand15" /\ BpExpand
    \/ c[1] = "bpRunPick15" /\ BpRunPick(c[2])
    \/ c[1] = "bpGo15" /\ BpGo(c[2])

Next ==
    /\ UNCHANGED live
    /\ \/ \E c \in Offered : Click(c)
       \/ \E i \in AllIssues : OpenIssue(i) \/ RunEnds(i)
       \/ OpenChat
       \/ \E c \in AllIssues \cup {Chat, "none"} : Back(c)
       \/ \E m \in Members : SwitchMember(m)
       \/ BpTick

Spec == Init /\ [][Next]_vars

-----------------------------------------------------------------------------
(***************************************************************************)
(* Types, and: the player's step is one of the recording's, and it has a   *)
(* timer whenever it plays.                                                *)
(***************************************************************************)
TypeOK ==
    /\ member \in Members /\ at \in AllIssues \cup {Chat, "none"}
    /\ section \in Sections /\ dialog.on \in {"none", Chat} \cup issues
    /\ ~live /\ at # "none" /\ pane \in {"issue", "workflow", "runs"} => OnIssue
    /\ ~live /\ at # "none" /\ pane = "pr" => HasPR
    /\ status \in [AllIssues -> Statuses] /\ owner \in [AllIssues -> Members \cup {Nobody}]
    /\ review \in [AllIssues -> {"none", "open", "resolved"}]
    /\ Cardinality(snapshot) <= 1
    /\ player.step \in 0..LastStep /\ (player.playing => player.timer)

(***************************************************************************)
(* An issue that is done, canceled or merged keeps no open review behind:  *)
(* whatever order a review was implied, stored by an assignment, answered  *)
(* and reopened in, closing the issue settles it.                          *)
(***************************************************************************)
NoReviewLeftOpen == \A i \in issues : status[i] \in Closed => Decision(i) # "open"

(***************************************************************************)
(* The file shown beside a conversation is a file of that conversation,    *)
(* after every way the page without a server has of going from one         *)
(* conversation to another (loadChat, openIssue, switchMember, promote).   *)
(***************************************************************************)
FileBelongs == (at # "none" /\ file # NoFile) => file[1] = at

FileIsOfThisConversation == ~live => FileBelongs

(***************************************************************************)
(* It does not hold with a server: the adapter's openIssue, openChat, rows *)
(* and popRoute leave the file of the conversation before.                 *)
(***************************************************************************)
FileIsOfThisLiveConversation == live /\ pane = "files" /\ ~preview => FileBelongs

(***************************************************************************)
(* Nobody merges a pull request whose files were never opened by anyone.   *)
(***************************************************************************)
MergedWasOpened == status[Issue] = "Merged dev" => Issue \in seen

(***************************************************************************)
(* The member who merges a pull request owns the issue at that moment.     *)
(* mergeGate12 says that only a member with merge permission can merge,    *)
(* and permission is being the owner.                                      *)
(***************************************************************************)
MergedByItsOwner ==
    [][ (status[Issue] # "Merged dev" /\ status'[Issue] = "Merged dev")
          => member = owner[Issue] ]_vars

=============================================================================
