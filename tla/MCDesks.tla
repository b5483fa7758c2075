------------------------------ MODULE MCDesks ------------------------------
(***************************************************************************)
(* The issue desk, the routine desk and the threads of an issue's runs.    *)
(* They share no state: a behaviour is one of them, and the others stay at *)
(* their first state.  Desks says which of them a run looks at.            *)
(***************************************************************************)
EXTENDS Integers, Sequences, FiniteSets

CONSTANTS Desks,
          Members, Nobody, Issue, Made, Chat, Names, voice, receipt, MaxChanges,
          None, Routines, Started, Templates, Lines, headings, page, Short,
          Runs, Children, Parent, Script, ActiveRuns, Tone, Options, Files, Tabs, MaxTexts, MaxFolds,
          r1, r7, c2, c3

VARIABLES desk,
          live, member, at, pane, prOpen, section, preview, file, dialog, issues, status, owner,
          snapshot, review, seen, madeFrom, compacted, player, changes,
          place, record, box, form, boxes, local, promised, shown, server, calls, due, trail, left,
          mine, nav, picked, folds, find, work, drafts, reply, bounds

\* Recordings of two steps and of one.
Recordings == {voice, receipt}
StepsOf == [r \in Recordings |-> IF r = voice THEN 2 ELSE 1]

\* A document of headings only, and one that begins with a line of Lines.
Documents == {headings, page}
FirstLine ==
  [t \in Templates \cup Documents \cup Lines \cup {"blank"} |->
     CASE t = headings -> "blank"
       [] t = page -> CHOOSE l \in Lines : TRUE
       [] OTHER -> t]

\* Many places and texts, or the record of a run looked at in full, or the
\* instructions edited on the page.
Budgets == {[moves |-> 3, looks |-> 0, writes |-> 1, runs |-> 0],
            [moves |-> 1, looks |-> 6, writes |-> 1, runs |-> 0],
            [moves |-> 4, looks |-> 0, writes |-> 0, runs |-> 1]}

\* An issue with a finished run and one that is active in its second attempt,
\* with two delegated checks, one running and one that waits.
Entry(k, runs, to) == [k |-> k, runs |-> runs, to |-> to, text |-> None]

Said(k) == Entry(k, {}, None)

HandedTo(r) == Entry("hand", {}, r)

TwoChecks == [c \in {c2, c3} |-> r7]

OneWaits == [c \in {c2, c3} |-> IF c = c2 THEN "running" ELSE "needs"]

Transcripts ==
  [id \in {r1, r7, c2, c3} |->
     IF id = r7
     THEN << <<Said("say"), Said("hand")>>,
             <<Said("say"), Said("tools"), Entry("kids", {c2}, None), Entry("kids", {c3}, None), Said("live")>> >>
     ELSE << <<Said("say"), HandedTo(r7)>> >>]

I == INSTANCE IssueDesk
R == INSTANCE RoutineDesk WITH pane <- record, dialog <- box
T == INSTANCE RunThreads WITH left <- bounds

ASSUME I!DeskConstants /\ R!RoutineConstants
ASSUME ThreadConstants == T!RunThreadsConstants

issueVars == <<live, member, at, pane, prOpen, section, preview, file, dialog, issues, status, owner,
               snapshot, review, seen, madeFrom, compacted, player, changes>>
routineVars == <<place, record, box, form, boxes, local, promised, shown, server, calls, due, trail, left>>
threadVars == <<mine, nav, picked, folds, find, work, drafts, reply, bounds>>
vars == <<desk, issueVars, routineVars, threadVars>>

Init ==
  /\ desk \in Desks
  /\ I!Init /\ R!Init /\ T!Init
  /\ desk # "issue" => ~live
  /\ desk # "issue" \/ live => member = CHOOSE m \in Members : TRUE
  /\ desk # "routine" => left = CHOOSE b \in Budgets : TRUE
  /\ desk # "routine" => \A r \in Started : server[r].prompt = R!Brief
  /\ desk # "threads" => mine

Next ==
  /\ UNCHANGED desk
  /\ \/ desk = "issue" /\ I!Next /\ UNCHANGED <<routineVars, threadVars>>
     \/ desk = "routine" /\ R!Next /\ UNCHANGED <<issueVars, threadVars>>
     \/ desk = "threads" /\ T!Next /\ UNCHANGED <<issueVars, routineVars>>

Spec == Init /\ [][Next]_vars

-----------------------------------------------------------------------------
\* An issue that is closed keeps no open review behind (changeStatus12).
NoReviewLeftOpen == I!NoReviewLeftOpen

\* The file shown beside a conversation is one of that conversation.
FileIsOfThisConversation == I!FileIsOfThisConversation

\* With a server a file stays open beside the next conversation (openChat,
\* openIssue, popRoute of the adapter).
FileIsOfThisLiveConversation == I!FileIsOfThisLiveConversation

\* Nobody merges a pull request whose files were never opened (mergeGate12).
MergedWasOpened == I!MergedWasOpened

\* Whoever merges owns the issue then: "Only a member with merge permission
\* can merge." (mergeGate12).
MergedByItsOwner == I!MergedByItsOwner

\* A form saves what it showed last to the routine it was opened for, however
\* late an earlier answer comes (saveAuto9, afNext16, commitInstr).
SavesGoWhereShown == R!SavesGoWhereShown

\* A document of headings sends the prompt of before (commitInstr).
NothingElseIsSent == R!NothingElseIsSent

\* "The routine form always opens on its first page, with a fresh document"
\* (openAutoForm9).
OpensOnItsOwn == R!OpensOnItsOwn

\* A run started after "Future runs use this version." is given the saved
\* instructions (rtEditSave16).
FutureRunsUseThisVersion == R!FutureRunsUseThisVersion

\* From the thread of a child Back leads to the run that delegated it, and a way
\* back that is kept to the run it was left from (rtOpen16, rtGo16).
BackClimbs == T!BackClimbs

\* An instruction is in the record of the run in whose thread it was typed
\* (rtSendInstruction16).
InstructedWhereTyped == T!InstructedWhereTyped

\* Nothing a member does rewrites what a thread recorded, an earlier attempt is
\* closed, and nothing follows a stop (entriesFor16).
RecordOnlyGrows == [][desk = "threads" => \A id \in T!Ids : T!Grows(id)]_(T!vars)

\* "Replying to a stage belongs in that run's own thread" (blockVals16).
ReplyIsInTheThread == T!ReplyIsInTheThread
=============================================================================
