----------------------------- MODULE MCWriting -----------------------------
(***************************************************************************)
(* The three places where a member writes in one run: the composer that    *)
(* sends to the server, the thread with its queue, and the dock.  They     *)
(* share no state: a behaviour is one of any, and the others stay at their *)
(* first state.                                                            *)
(***************************************************************************)
EXTENDS Composer

CONSTANTS Members, Convs, None, MaxTexts, MaxMarks,
          Threads, Questions, Short, MaxThreadTexts, MaxSteps

VARIABLES part,
          member, conv, open, slot, timer, popped, marks, where, goal, picker, files, sent, taken, left,
          thread, due, stopped, given, back, soon, missed, rest

D == INSTANCE Dock
Q == INSTANCE ThreadQueue WITH Chats <- Threads, MaxTexts <- MaxThreadTexts,
       page <- thread, timer <- due, sent <- given, taken <- back, left <- rest

ASSUME WritingConstants == ComposerConstants /\ D!DockConstants /\ Q!ThreadQueueConstants

dockVars == <<member, conv, open, slot, timer, popped, marks, where, goal, picker, files, sent, taken, left>>
threadVars == <<thread, due, stopped, given, back, soon, missed, rest>>

WritingInit ==
  /\ part \in {"composer", "dock", "thread"}
  /\ Init /\ D!Init /\ Q!Init
  /\ part # "dock" => member = (CHOOSE m \in Members : TRUE) /\ conv = (CHOOSE c \in Convs : TRUE)
  /\ part # "thread" => thread.status = "asks"
  /\ part # "composer" => page.active = New /\ page.thread = New

WritingNext ==
  /\ UNCHANGED part
  /\ \/ part = "composer" /\ Next /\ UNCHANGED <<dockVars, threadVars>>
     \/ part = "dock" /\ D!Next /\ UNCHANGED <<vars, threadVars>>
     \/ part = "thread" /\ Q!Next /\ UNCHANGED <<vars, dockVars>>

\* Timers of the dock fire, and every request is answered or fails.
WritingSpec ==
  /\ WritingInit /\ [][WritingNext]_<<part, vars, dockVars, threadVars>>
  /\ Fairness
  /\ WF_dockVars(D!TimerFires)
  /\ WF_dockVars(D!PoppedIsSent)

\* The same with the timers of the thread, for what it promises of its queue.
ThreadsSpec == WritingSpec /\ WF_threadVars(Q!TimerFires) /\ WF_threadVars(Q!SoonRuns)

-----------------------------------------------------------------------------
\* A question that was sent stays in a log or a queue of the dock unless the
\* member removed it or pressed Stop (dockQueueRemove15, dockStop15).
QuestionsAreKept == D!QuestionsAreKept

\* A question of the dock is answered or stopped although members come and
\* go, and one that waits gets its turn while its member stays (dockSendText15).
EveryQuestionEnds == D!EveryQuestionEnds

\* A question that waits gets its turn also when its member was away when the
\* answer before it came.  It does not (dockSendText15).
WaitingQuestionEnds == D!WaitingQuestionEnds

\* A text given to a thread stays somewhere until the member takes it back,
\* unless it was steered from the queue while a new chat opened (steer18,
\* queueRows18, editSend18).
SentTextsAreKept == Q!SentTextsAreKept

\* A row that is steered lands in a conversation.  It need not: its timer may
\* find none (steer18, queueRows18).
SteeredTextsLand == Q!SteeredTextsLand

\* After Stop a chat is not answered until it is resumed or written to
\* (stopRun12, finishChat).
StoppedStaysStopped == Q!StoppedStaysStopped

\* "Queued. It goes out when the current turn finishes." (editQueue18)
QueuedGoesOut == Q!QueuedGoesOut
=============================================================================
