---------------------------- MODULE WritingProofs ----------------------------
(***************************************************************************)
(* What a member writes arrives where it was written and is not lost: the  *)
(* composer, the dock and the thread of MCWriting, proved for any members, *)
(* conversations, files, texts and numbers of them, from the assumption on *)
(* the constants that TLC evaluates.  The three share no state, so each    *)
(* has an invariant of its own that the steps of the others leave alone.   *)
(***************************************************************************)
EXTENDS MCWriting, TLAPS

\* The records, with the fields they have.
IsPage(p) ==
  p = [active |-> p.active, draft |-> p.draft, thread |-> p.thread, note |-> p.note,
       files |-> p.files, error |-> p.error]

IsJob(j) == j = [from |-> j.from, to |-> j.to, text |-> j.text, files |-> j.files, at |-> j.at]

IsServer(s) == s = [convs |-> s.convs, log |-> s.log]

\* A send that waits for its conversation was written on the new-chat screen;
\* one that waits for its message knows the place it is for; one that waits for
\* the refresh gives nothing any more.
Addressed(j) ==
  \/ j.at = "create" /\ j.from = New
  \/ j.at = "refresh"
  \/ j.at = "message" /\ j.to \in Places /\ (j.from = j.to \/ (j.from = New /\ j.to \in NewChats))

JobsAreAddressed == \A j \in jobs : IsJob(j) /\ Addressed(j)

PageIsSomewhere ==
  IsPage(page) /\ page.active \in Ids \cup {New} /\ page.thread \in Issues \cup {New}

LogsAreSequences ==
  /\ IsServer(server)
  /\ DOMAIN server.log = Places
  /\ server.log = [c \in Places |-> server.log[c]]
  /\ \A c \in Places : \E S : server.log[c] \in Seq(S)

IInv == PageIsSomewhere /\ JobsAreAddressed /\ LogsAreSequences /\ SentWhereWritten
-------------------------------------------------------------------------------
\* Appending a message to a log adds that message and loses none.
LEMMA AppendedMessages ==
  ASSUME NEW S, NEW s \in Seq(S), NEW m
  PROVE  /\ Append(s, m) \in Seq(S \cup {m})
         /\ \A i \in 1 .. Len(Append(s, m)) :
              Append(s, m)[i] = m \/ \E k \in 1 .. Len(s) : Append(s, m)[i] = s[k]
<1>1. s \in Seq(S \cup {m}) /\ m \in S \cup {m}
  OBVIOUS
<1>2. Append(s, m) \in Seq(S \cup {m}) /\ Len(Append(s, m)) = Len(s) + 1
  BY <1>1
<1>3. ASSUME NEW i \in 1 .. Len(Append(s, m))
      PROVE  Append(s, m)[i] = m \/ \E k \in 1 .. Len(s) : Append(s, m)[i] = s[k]
  <2>1. CASE i = Len(s) + 1
    BY <2>1, <1>1
  <2>2. CASE i # Len(s) + 1
    <3>1. i \in 1 .. Len(s) /\ Append(s, m)[i] = s[i]
      BY <2>2, <1>1, <1>2
    <3> QED
      BY <3>1
  <2> QED
    BY <2>1, <2>2
<1> QED
  BY <1>2, <1>3

\* A delivered message is added to the log of the conversation the send knows.
LEMMA DeliveryIsRight ==
  ASSUME LogsAreSequences, SentWhereWritten, NEW j \in jobs, IsJob(j), Addressed(j),
         j.at = "message", server' = Delivered(j)
  PROVE  LogsAreSequences' /\ SentWhereWritten'
<1>1. j.to \in Places
  BY DEF Addressed
<1>2. /\ server' = [convs |-> server.convs,
                    log |-> [server.log EXCEPT ![j.to] = Append(server.log[j.to], Message(j))]]
  BY DEF Delivered, LogsAreSequences, IsServer
<1>3. /\ IsServer(server')
      /\ server'.log = [server.log EXCEPT ![j.to] = Append(server.log[j.to], Message(j))]
  BY <1>2 DEF IsServer
<1>4. /\ DOMAIN server'.log = Places
      /\ server'.log = [c \in Places |-> server'.log[c]]
      /\ server'.log[j.to] = Append(server.log[j.to], Message(j))
      /\ \A c \in Places : c # j.to => server'.log[c] = server.log[c]
  BY <1>1, <1>3 DEF LogsAreSequences
<1>5. PICK S : server.log[j.to] \in Seq(S)
  BY <1>1 DEF LogsAreSequences
<1>6. \A c \in Places : \E T : server'.log[c] \in Seq(T)
  <2> SUFFICES ASSUME NEW c \in Places PROVE \E T : server'.log[c] \in Seq(T)
    OBVIOUS
  <2>1. CASE c = j.to
    <3>1. server'.log[c] \in Seq(S \cup {Message(j)})
      BY <2>1, <1>4, <1>5, AppendedMessages
    <3> QED
      BY <3>1
  <2>2. CASE c # j.to
    BY <2>2, <1>4 DEF LogsAreSequences
  <2> QED
    BY <2>1, <2>2
<1>7. ASSUME NEW c \in Places, NEW m \in Messages(c)'
      PROVE  m.from = c \/ (m.from = New /\ c \in NewChats)
  <2>1. CASE c # j.to
    <3>1. m \in Messages(c)
      BY <2>1, <1>4 DEF Messages
    <3> QED
      BY <3>1 DEF SentWhereWritten
  <2>2. CASE c = j.to
    <3>1. m = Message(j) \/ m \in Messages(c)
      BY <2>2, <1>4, <1>5, AppendedMessages DEF Messages
    <3>2. Message(j).from = j.from
      BY DEF Message
    <3> QED
      BY <3>1, <3>2, <2>2 DEF SentWhereWritten, Addressed
  <2> QED
    BY <2>1, <2>2
<1> QED
  BY <1>3, <1>4, <1>6, <1>7 DEF LogsAreSequences, SentWhereWritten

\* A conversation that is created has no messages yet and disturbs no other.
LEMMA CreationIsRight ==
  ASSUME LogsAreSequences, SentWhereWritten, NEW c,
         server' = [server EXCEPT !.convs = server.convs \cup {c}]
  PROVE  LogsAreSequences' /\ SentWhereWritten'
<1>1. IsServer(server') /\ server'.log = server.log
  BY DEF LogsAreSequences, IsServer
<1>2. \A d : Messages(d)' = Messages(d)
  BY <1>1 DEF Messages
<1> QED
  BY <1>1, <1>2 DEF LogsAreSequences, SentWhereWritten
-------------------------------------------------------------------------------
LEMMA InitIInv == ComposerConstants /\ Init => IInv
<1> SUFFICES ASSUME ComposerConstants, Init PROVE IInv
  OBVIOUS
<1>1. PageIsSomewhere
  BY DEF Init, PageIsSomewhere, IsPage, Ids
<1>2. JobsAreAddressed
  BY DEF Init, JobsAreAddressed
<1>3. server = [convs |-> Chats, log |-> [c \in Places |-> <<>>]]
  BY DEF Init
<1>4. LogsAreSequences
  <2>1. IsServer(server) /\ server.log = [c \in Places |-> <<>>]
    BY <1>3 DEF IsServer
  <2>2. \A c \in Places : server.log[c] \in Seq({})
    BY <2>1
  <2> QED
    BY <2>1, <2>2 DEF LogsAreSequences
<1>5. SentWhereWritten
  BY <1>3 DEF SentWhereWritten, Messages
<1> QED
  BY <1>1, <1>2, <1>4, <1>5 DEF IInv

\* What opening a place and writing make of a page.
LEMMA OpenedPages ==
  ASSUME NEW c, IsPage(page)
  PROVE  /\ IsPage(Opened(c)) /\ IsPage(Clicked(c))
         /\ Opened(c).active = IF c \in Issues THEN page.active ELSE c
         /\ Opened(c).thread = IF c \in Issues THEN c ELSE New
         /\ Clicked(c).active = Opened(c).active /\ Clicked(c).thread = Opened(c).thread
<1> DEFINE d == Draft(c)
<1>1. CASE c \in Issues
  <2>1. Opened(c) = [active |-> page.active, draft |-> page.draft, thread |-> c, note |-> d,
                     files |-> page.files, error |-> page.error]
    BY <1>1 DEF Opened, IsPage
  <2> HIDE DEF d
  <2> QED
    BY <1>1, <2>1 DEF IsPage, Clicked
<1>2. CASE c \notin Issues
  <2>1. Opened(c) = [active |-> c, draft |-> d, thread |-> New, note |-> page.note,
                     files |-> page.files, error |-> page.error]
    BY <1>2 DEF Opened, IsPage
  <2> HIDE DEF d
  <2> QED
    BY <1>2, <2>1 DEF IsPage, Clicked
<1> QED
  BY <1>1, <1>2

LEMMA WrittenPages ==
  ASSUME NEW t, IsPage(page)
  PROVE  /\ IsPage(Written(t))
         /\ Written(t).active = page.active /\ Written(t).thread = page.thread
         /\ OnScreen(Written(t)) = t
BY DEF Written, OnScreen, IsPage

\* Writing and moving touch no message and no send; they leave the page
\* somewhere.
LEMMA MemberKeepsIInv ==
  ASSUME ComposerConstants, IInv,
         \/ Quiet \/ Type \/ Erase \/ \E f \in Attachments : Attach(f)
         \/ \E c \in Chats \cup Issues \cup {New} : Open(c) \/ History(c)
         \/ Reload
         \/ UNCHANGED vars
  PROVE  IInv'
<1> USE DEF IInv
<1>1. UNCHANGED server /\ jobs' \in {jobs, {}}
  BY DEF Quiet, Type, Erase, Attach, Open, History, Reload, vars
<1>2. PageIsSomewhere'
  <2>1. \A f \in Attachments : Attach(f) => page' = [page EXCEPT !.files = @ \cup {f}]
    BY DEF Attach, PublishAfterBlur
  <2>2. ASSUME NEW c \in Chats \cup Issues \cup {New}, Open(c) \/ History(c) PROVE PageIsSomewhere'
    <3>1. page' \in {Opened(c), Clicked(c)}
      BY <2>2 DEF Open, History, PublishAfterBlur, Publish
    <3>2. IsPage(Opened(c)) /\ IsPage(Clicked(c))
      BY OpenedPages DEF PageIsSomewhere
    <3>3. /\ Opened(c).active \in Ids \cup {New} /\ Opened(c).thread \in Issues \cup {New}
          /\ Clicked(c).active = Opened(c).active /\ Clicked(c).thread = Opened(c).thread
      BY OpenedPages DEF PageIsSomewhere, Ids
    <3> QED
      BY <3>1, <3>2, <3>3 DEF PageIsSomewhere
  <2>3. ASSUME Type \/ Erase PROVE PageIsSomewhere'
    <3>1. \E t : page' = Written(t)
      BY <2>3 DEF Type, Erase, Edit
    <3> QED
      BY <3>1, WrittenPages DEF PageIsSomewhere
  <2>4. Quiet \/ UNCHANGED vars => page' = page
    BY DEF Quiet, Publish, vars
  <2>5. ASSUME Reload PROVE PageIsSomewhere'
    <3>1. \E a \in {page.active, New} : \E d, n :
            page' = [active |-> a, draft |-> d, thread |-> page.thread, note |-> n,
                     files |-> {}, error |-> FALSE]
      BY <2>5 DEF Reload
    <3> QED
      BY <3>1 DEF PageIsSomewhere, IsPage
  <2> QED
    BY <2>1, <2>2, <2>3, <2>4, <2>5 DEF PageIsSomewhere, IsPage
<1>3. \A c : Messages(c)' = Messages(c)
  BY <1>1 DEF Messages
<1> QED
  BY <1>1, <1>2, <1>3 DEF JobsAreAddressed, LogsAreSequences, SentWhereWritten

\* Removing a file from a send does not change where it goes.
LEMMA DetachKeepsIInv ==
  ASSUME IInv, NEW f \in Attachments, Detach(f)
  PROVE  IInv'
<1> USE DEF IInv
<1>1. /\ page' = [page EXCEPT !.files = @ \ {f}]
      /\ jobs' = jobs \/ jobs' = {[j EXCEPT !.files = @ \ {f}] : j \in jobs}
      /\ UNCHANGED server
  BY DEF Detach, PublishAfterBlur
<1>2. PageIsSomewhere'
  BY <1>1 DEF PageIsSomewhere, IsPage
<1>3. ASSUME NEW j \in jobs
      PROVE  LET k == [j EXCEPT !.files = @ \ {f}] IN IsJob(k) /\ Addressed(k)
  <2> DEFINE k == [j EXCEPT !.files = @ \ {f}]
  <2>1. IsJob(j) /\ Addressed(j)
    BY DEF JobsAreAddressed
  <2>2. IsJob(k) /\ k.from = j.from /\ k.to = j.to /\ k.at = j.at
    BY <2>1 DEF IsJob
  <2> HIDE DEF k
  <2>3. Addressed(k)
    BY <2>1, <2>2 DEF Addressed
  <2> QED
    BY <2>2, <2>3 DEF k
<1>4. JobsAreAddressed'
  BY <1>1, <1>3 DEF JobsAreAddressed
<1>5. \A c : Messages(c)' = Messages(c)
  BY <1>1 DEF Messages
<1> QED
  BY <1>1, <1>2, <1>4, <1>5 DEF LogsAreSequences, SentWhereWritten

\* A send is addressed to the chat or issue that is on the screen when it starts.
LEMMA SendKeepsIInv ==
  ASSUME ComposerConstants, IInv, Send
  PROVE  IInv'
<1> USE DEF IInv
<1> DEFINE text == IF OnScreen(page) = 0 THEN Default ELSE OnScreen(page)
<1>1. /\ jobs' = jobs \cup {Job(text)}
      /\ UNCHANGED <<page, server>>
  BY DEF Send, Starts, PublishAfterBlur
<1>2. PageIsSomewhere'
  BY <1>1 DEF PageIsSomewhere, IsPage
<1>3. IsJob(Job(text)) /\ Addressed(Job(text))
  <2>1. Place \in Places \cup {New}
    BY DEF Place, PageIsSomewhere, Places
  <2>2. IsJob(Job(text)) /\ Job(text).from = Place /\ Job(text).to = Place
    BY DEF Job, IsJob
  <2>3. Job(text).at = IF Place = New THEN "create" ELSE "message"
    BY DEF Job
  <2> QED
    BY <2>1, <2>2, <2>3 DEF Addressed
<1> HIDE DEF text
<1>4. JobsAreAddressed'
  BY <1>1, <1>3 DEF JobsAreAddressed
<1>5. \A c : Messages(c)' = Messages(c)
  BY <1>1 DEF Messages
<1> QED
  BY <1>1, <1>2, <1>4, <1>5 DEF LogsAreSequences, SentWhereWritten

\* The conversation of a send written on the new-chat screen is a new one.
LEMMA CreatedKeepsIInv ==
  ASSUME ComposerConstants, IInv, NEW j \in jobs, NEW c \in NewChats, Created(j, c)
  PROVE  IInv'
<1> USE DEF IInv
<1> DEFINE k == [j EXCEPT !.to = c, !.at = "message"]
<1>1. /\ j.at = "create"
      /\ server' = [server EXCEPT !.convs = server.convs \cup {c}]
      /\ jobs' = (jobs \ {j}) \cup {k}
      /\ page' = [page EXCEPT !.active = c, !.thread = New]
  BY DEF Created, Publish
<1>2. PageIsSomewhere'
  <2>1. page' = [active |-> c, draft |-> page.draft, thread |-> New, note |-> page.note,
                 files |-> page.files, error |-> page.error]
    BY <1>1 DEF PageIsSomewhere, IsPage
  <2> QED
    BY <2>1 DEF PageIsSomewhere, IsPage, Ids
<1>3. IsJob(j) /\ j.from = New
  BY <1>1 DEF JobsAreAddressed, Addressed
<1>4. IsJob(k) /\ Addressed(k)
  <2> DEFINE i == [j EXCEPT !.to = c]
  <2>1. k = [i EXCEPT !.at = "message"]
    OBVIOUS
  <2>2. IsJob(i) /\ i.to = c /\ i.from = New
    BY <1>3 DEF IsJob
  <2> HIDE DEF i, k
  <2>3. IsJob(k) /\ k.to = c /\ k.from = New /\ k.at = "message"
    BY <2>1, <2>2 DEF IsJob
  <2> QED
    BY <2>3 DEF Addressed, Places, Ids
<1> HIDE DEF k
<1>5. JobsAreAddressed'
  BY <1>1, <1>4 DEF JobsAreAddressed
<1> QED
  BY <1>1, <1>2, <1>5, CreationIsRight

LEMMA EmptiedPages ==
  ASSUME NEW j, IsPage(page)
  PROVE  /\ IsPage(Emptied(j))
         /\ Emptied(j).active = page.active /\ Emptied(j).thread = page.thread
<1>1. \E d, n : Emptied(j) = [active |-> page.active, draft |-> d, thread |-> page.thread, note |-> n,
                              files |-> {}, error |-> page.error]
  <2>1. CASE j.to \in Issues
    <3>1. Emptied(j) = [active |-> page.active, draft |-> page.draft, thread |-> page.thread, note |-> 0,
                        files |-> {}, error |-> page.error]
      BY <2>1 DEF Emptied, IsPage
    <3> QED
      BY <3>1
  <2>2. CASE j.to \notin Issues
    <3>1. Emptied(j) = [active |-> page.active, draft |-> 0, thread |-> page.thread, note |-> page.note,
                        files |-> {}, error |-> page.error]
      BY <2>2 DEF Emptied, IsPage
    <3> QED
      BY <3>1
  <2> QED
    BY <2>1, <2>2
<1> QED
  BY <1>1 DEF IsPage

LEMMA AnsweredKeepsIInv ==
  ASSUME IInv, NEW j \in jobs, MessageAnswered(j)
  PROVE  IInv'
<1> USE DEF IInv
<1> DEFINE k == [j EXCEPT !.at = "refresh"]
<1>1. /\ j.at = "message" /\ server' = Delivered(j) /\ jobs' = (jobs \ {j}) \cup {k}
      /\ page' = Emptied(j)
  BY DEF MessageAnswered, Publish
<1>2. PageIsSomewhere'
  BY <1>1, EmptiedPages DEF PageIsSomewhere
<1>3. IsJob(j) /\ Addressed(j)
  BY DEF JobsAreAddressed
<1>4. IsJob(k) /\ Addressed(k)
  BY <1>3 DEF IsJob, Addressed
<1> HIDE DEF k
<1>5. JobsAreAddressed'
  BY <1>1, <1>4 DEF JobsAreAddressed
<1> QED
  BY <1>1, <1>2, <1>3, <1>5, DeliveryIsRight

LEMMA RefreshKeepsIInv ==
  ASSUME IInv, NEW j \in jobs, Refreshed(j)
  PROVE  IInv'
<1>1. jobs' = jobs \ {j} /\ UNCHANGED <<page, server>>
  BY DEF Refreshed, Settled
<1>2. \A c : Messages(c)' = Messages(c)
  BY <1>1 DEF Messages
<1> QED
  BY <1>1, <1>2 DEF IInv, PageIsSomewhere, JobsAreAddressed, LogsAreSequences, SentWhereWritten

\* A request that fails may have been done all the same.
LEMMA FailureKeepsIInv ==
  ASSUME IInv, NEW j \in jobs, SendFails(j)
  PROVE  IInv'
<1> USE DEF IInv
<1>1. jobs' = jobs \ {j} /\ page' = [page EXCEPT !.error = TRUE]
  BY DEF SendFails, Publish, Settled
<1>2. \/ UNCHANGED server
      \/ j.at = "message" /\ server' = Delivered(j)
      \/ \E c \in NewChats : server' = [server EXCEPT !.convs = server.convs \cup {c}]
  BY DEF SendFails
<1>3. PageIsSomewhere'
  BY <1>1 DEF PageIsSomewhere, IsPage
<1>4. JobsAreAddressed' /\ IsJob(j) /\ Addressed(j)
  BY <1>1 DEF JobsAreAddressed
<1>5. LogsAreSequences' /\ SentWhereWritten'
  <2>1. CASE UNCHANGED server
    <3>1. \A c : Messages(c)' = Messages(c)
      BY <2>1 DEF Messages
    <3> QED
      BY <2>1, <3>1 DEF LogsAreSequences, SentWhereWritten
  <2> QED
    BY <1>2, <1>4, <2>1, DeliveryIsRight, CreationIsRight
<1> QED
  BY <1>3, <1>4, <1>5

LEMMA NextIInv == ComposerConstants /\ IInv /\ [Next]_vars => IInv'
<1> SUFFICES ASSUME ComposerConstants, IInv, [Next]_vars PROVE IInv'
  OBVIOUS
<1> QED
  BY MemberKeepsIInv, DetachKeepsIInv, SendKeepsIInv, CreatedKeepsIInv, AnsweredKeepsIInv,
     RefreshKeepsIInv, FailureKeepsIInv, Zenon DEF Next, Answers

\* A step of the whole is a step of each of the three, or leaves it alone.
LEMMA PartsStepAlone ==
  ASSUME [WritingNext]_<<part, vars, dockVars, threadVars>>
  PROVE  [Next]_vars /\ [D!Next]_(D!vars) /\ [Q!Next]_(Q!vars)
<1>1. UNCHANGED dockVars => UNCHANGED D!vars
  BY DEF dockVars, D!vars
<1>2. UNCHANGED threadVars => UNCHANGED Q!vars
  BY DEF threadVars, Q!vars
<1> QED
  BY <1>1, <1>2 DEF WritingNext

\* The messages of every conversation were written in it, or on the new-chat
\* screen that it was made for, wherever the member went while they were sent.
THEOREM MessagesGoWhereWritten == WritingSpec => []SentWhereWritten
<1>1. WritingInit => IInv
  BY WritingConstants, InitIInv DEF WritingInit
<1>2. IInv /\ [WritingNext]_<<part, vars, dockVars, threadVars>> => IInv'
  BY WritingConstants, PartsStepAlone, NextIInv
<1>3. IInv => SentWhereWritten
  BY DEF IInv
<1> QED
  BY <1>1, <1>2, <1>3, PTL DEF WritingSpec
-------------------------------------------------------------------------------
(* The send button.  The field is empty in what it was rendered with exactly *)
(* when its own text is empty; this is what keeps the button right, and it   *)
(* is why the first character and the last deletion are rendered at once.    *)

Tracked(f) ==
  /\ f = [text |-> f.text, bound |-> f.bound]
  /\ (f.bound = 0) <=> (f.text = 0)

ButtonInv == IsPage(page) /\ Tracked(field) /\ SendButtonIsRight

\* Rendering a field keeps it tracked and binds it to the draft.
LEMMA RenderedIsTracked ==
  ASSUME NEW f, Tracked(f), NEW d
  PROVE  Tracked(Rendered(f, d)) /\ Rendered(f, d).bound = d
<1>1. CASE d # f.bound
  <2>1. Rendered(f, d) = [text |-> d, bound |-> d]
    BY <1>1 DEF Rendered
  <2> QED
    BY <2>1 DEF Tracked
<1>2. CASE d = f.bound
  <2>1. Rendered(f, d) = [text |-> f.text, bound |-> d]
    BY <1>2 DEF Rendered
  <2> QED
    BY <2>1, <1>2 DEF Tracked
<1> QED
  BY <1>1, <1>2

LEMMA DrawnIsTracked ==
  ASSUME NEW f, Tracked(f), NEW p
  PROVE  Tracked(Drawn(f, p)) /\ Drawn(f, p).bound = OnScreen(p)
<1> DEFINE d == OnScreen(p)
<1>1. CASE (p.thread = New) = (page.thread = New)
  <2>1. Drawn(f, p) = Rendered(f, d)
    BY <1>1 DEF Drawn
  <2> HIDE DEF d
  <2>2. Tracked(Rendered(f, d)) /\ Rendered(f, d).bound = d
    BY RenderedIsTracked
  <2> QED
    BY <2>1, <2>2 DEF d
<1>2. CASE ~((p.thread = New) = (page.thread = New))
  <2>1. Drawn(f, p) = [text |-> d, bound |-> d]
    BY <1>2 DEF Drawn
  <2> HIDE DEF d
  <2>2. Tracked(Drawn(f, p)) /\ Drawn(f, p).bound = d
    BY <2>1 DEF Tracked
  <2> QED
    BY <2>2 DEF d
<1> QED
  BY <1>1, <1>2

\* Whatever page is rendered, with a blur before it or not, the button agrees
\* with its draft.
LEMMA PublishingIsRight ==
  ASSUME ButtonInv, NEW p, IsPage(p), Publish(p) \/ PublishAfterBlur(p)
  PROVE  ButtonInv'
<1> USE DEF ButtonInv
<1>1. CASE Publish(p)
  <2>1. page' = p /\ field' = Drawn(field, p)
    BY <1>1 DEF Publish
  <2>2. Tracked(field') /\ field'.bound = OnScreen(p)
    BY <2>1, DrawnIsTracked
  <2> QED
    BY <2>1, <2>2 DEF SendButtonIsRight
<1>2. CASE PublishAfterBlur(p)
  <2> DEFINE d == OnScreen(page)
             f == Rendered(field, d)
  <2>1. page' = p /\ field' = Drawn(f, p)
    BY <1>2 DEF PublishAfterBlur
  <2> HIDE DEF d
  <2>2. Tracked(f)
    BY RenderedIsTracked
  <2> HIDE DEF f
  <2>3. Tracked(field') /\ field'.bound = OnScreen(p)
    BY <2>1, <2>2, DrawnIsTracked
  <2> QED
    BY <2>1, <2>3 DEF SendButtonIsRight
<1> QED
  BY <1>1, <1>2

\* A change of the text is rendered at once when the field becomes empty or
\* ceases to be; any other leaves both the draft and what was rendered with
\* a text, or both without.
LEMMA EditingIsRight ==
  ASSUME ButtonInv, NEW t, Edit(t)
  PROVE  ButtonInv'
<1> USE DEF ButtonInv
<1>1. IsPage(page') /\ OnScreen(page') = t
  BY WrittenPages DEF Edit
<1>2. CASE (field.text = 0) # (t = 0)
  <2>1. field' = [text |-> t, bound |-> t]
    BY <1>2 DEF Edit
  <2> QED
    BY <1>1, <2>1 DEF Tracked, SendButtonIsRight
<1>3. CASE ~((field.text = 0) # (t = 0))
  <2>1. field' = [field EXCEPT !.text = t]
    BY <1>3 DEF Edit
  <2>2. field' = [text |-> t, bound |-> field.bound]
    BY <2>1 DEF Tracked
  <2>3. (field.text = 0) <=> (t = 0)
    BY <1>3
  <2> QED
    BY <1>1, <2>2, <2>3 DEF Tracked, SendButtonIsRight
<1> QED
  BY <1>2, <1>3

\* The page that each step publishes is a page.
LEMMA ButtonStep ==
  ASSUME ButtonInv, [Next]_vars
  PROVE  ButtonInv'
<1> USE DEF ButtonInv
<1>1. ASSUME Quiet PROVE ButtonInv'
  BY <1>1, PublishingIsRight DEF Quiet
<1>2. ASSUME Type \/ Erase PROVE ButtonInv'
  BY <1>2, EditingIsRight DEF Type, Erase
<1>3. ASSUME NEW f \in Attachments, Attach(f) \/ Detach(f) PROVE ButtonInv'
  <2>1. \A S : IsPage([page EXCEPT !.files = S])
    BY DEF IsPage
  <2>2. \E S : PublishAfterBlur([page EXCEPT !.files = S])
    BY <1>3 DEF Attach, Detach
  <2> QED
    BY <2>1, <2>2, PublishingIsRight
<1>4. ASSUME NEW c \in Chats \cup Issues \cup {New}, Open(c) \/ History(c) PROVE ButtonInv'
  <2>1. IsPage(Opened(c)) /\ IsPage(Clicked(c))
    BY OpenedPages
  <2>2. Publish(Opened(c)) \/ PublishAfterBlur(Clicked(c))
    BY <1>4 DEF Open, History
  <2> QED
    BY <2>1, <2>2, PublishingIsRight
<1>5. ASSUME Reload PROVE ButtonInv'
  <2> DEFINE chat == IF page.thread = New THEN page.active ELSE New
             note == IF page.thread = New THEN 0 ELSE Draft(page.thread)
             kept == Draft(chat)
             text == Draft(Place)
  <2>1. /\ page' = [active |-> chat, draft |-> kept, thread |-> page.thread, note |-> note,
                    files |-> {}, error |-> FALSE]
        /\ field' = [text |-> text, bound |-> text]
    BY <1>5 DEF Reload
  <2>2. text = IF page.thread = New THEN kept ELSE note
    BY DEF Place
  <2> HIDE DEF chat, note, kept, text
  <2>3. IsPage(page') /\ OnScreen(page') = text
    BY <2>1, <2>2 DEF IsPage, OnScreen
  <2>4. Tracked(field') /\ field'.bound = text
    BY <2>1 DEF Tracked
  <2> QED
    BY <2>3, <2>4 DEF SendButtonIsRight
<1>6. ASSUME Send PROVE ButtonInv'
  BY <1>6, PublishingIsRight DEF Send, Starts
<1>7. ASSUME NEW j \in jobs, NEW c \in NewChats, Created(j, c) PROVE ButtonInv'
  <2> DEFINE p == [page EXCEPT !.active = c]
  <2>1. IsPage(p)
    BY DEF IsPage
  <2>2. [page EXCEPT !.active = c, !.thread = New] = [p EXCEPT !.thread = New]
    OBVIOUS
  <2> HIDE DEF p
  <2>3. IsPage([p EXCEPT !.thread = New])
    BY <2>1 DEF IsPage
  <2> QED
    BY <1>7, <2>2, <2>3, PublishingIsRight DEF Created
<1>8. ASSUME NEW j \in jobs, MessageAnswered(j) \/ Refreshed(j) PROVE ButtonInv'
  <2>1. CASE MessageAnswered(j)
    <3>1. IsPage(Emptied(j))
      BY EmptiedPages
    <3> QED
      BY <2>1, <3>1, PublishingIsRight DEF MessageAnswered
  <2>2. CASE Refreshed(j)
    BY <2>2 DEF Refreshed, SendButtonIsRight
  <2> QED
    BY <1>8, <2>1, <2>2
<1>9. ASSUME NEW j \in jobs, SendFails(j) PROVE ButtonInv'
  <2>0. \A e : IsPage([page EXCEPT !.error = e])
    BY DEF IsPage
  <2>1. IsPage([page EXCEPT !.error = TRUE])
    BY <2>0
  <2> QED
    BY <1>9, <2>1, PublishingIsRight DEF SendFails
<1>10. ASSUME UNCHANGED vars PROVE ButtonInv'
  BY <1>10 DEF vars, SendButtonIsRight
<1> QED
  BY <1>1, <1>2, <1>3, <1>4, <1>5, <1>6, <1>7, <1>8, <1>9, <1>10 DEF Next, Answers

\* The send button never lies: however the member types, erases, attaches,
\* moves, reloads and sends, and whatever of it is rendered late, the page
\* was drawn with a text exactly when there is one (composer-textarea.tsx,
\* deferRender of lib/dc/logic.ts).
THEOREM SendButtonNeverLies == WritingSpec => []SendButtonIsRight
<1>1. WritingInit => ButtonInv
  BY DEF WritingInit, Init, ButtonInv, IsPage, Tracked, SendButtonIsRight, OnScreen
<1>2. ButtonInv /\ [WritingNext]_<<part, vars, dockVars, threadVars>> => ButtonInv'
  BY PartsStepAlone, ButtonStep
<1>3. ButtonInv => SendButtonIsRight
  BY DEF ButtonInv
<1> QED
  BY <1>1, <1>2, <1>3, PTL DEF WritingSpec
-------------------------------------------------------------------------------
(* Sequences: what they hold.                                                *)

LEMMA Appended ==
  ASSUME NEW S, NEW s \in Seq(S), NEW e \in S
  PROVE  /\ Append(s, e) \in Seq(S)
         /\ D!ToSet(Append(s, e)) = D!ToSet(s) \cup {e}
<1>1. /\ Append(s, e) \in Seq(S)
      /\ DOMAIN Append(s, e) = DOMAIN s \cup {Len(s) + 1}
      /\ Append(s, e)[Len(s) + 1] = e
      /\ \A i \in DOMAIN s : Append(s, e)[i] = s[i]
  OBVIOUS
<1> QED
  BY <1>1 DEF D!ToSet

\* Taking the entry at one place out of a sequence closes the gap.
LEMMA ClosedGap ==
  ASSUME NEW S, NEW s \in Seq(S), NEW k \in 1 .. Len(s)
  PROVE  LET q == SubSeq(s, 1, k - 1) \o SubSeq(s, k + 1, Len(s))
         IN  q \in Seq(S) /\ \A i \in 1 .. Len(s) : i # k => \E j \in 1 .. Len(q) : q[j] = s[i]
<1> DEFINE a == SubSeq(s, 1, k - 1)
           b == SubSeq(s, k + 1, Len(s))
<1>1. k \in 1 .. Len(s) /\ Len(s) \in Nat
  OBVIOUS
<1>2. a \in Seq(S) /\ Len(a) = k - 1 /\ \A i \in 1 .. (k - 1) : a[i] = s[i]
  BY <1>1
<1>3. b \in Seq(S) /\ Len(b) = Len(s) - k /\ \A i \in 1 .. (Len(s) - k) : b[i] = s[k + i]
  BY <1>1
<1> HIDE DEF a, b
<1>4. /\ a \o b \in Seq(S) /\ Len(a \o b) = Len(s) - 1
      /\ \A i \in 1 .. (Len(s) - 1) : (a \o b)[i] = IF i <= k - 1 THEN a[i] ELSE b[i - (k - 1)]
  <2>0. a \in Seq(S) /\ b \in Seq(S)
    BY <1>2, <1>3
  <2>1. a \o b \in Seq(S) /\ Len(a \o b) = Len(a) + Len(b)
    BY <2>0
  <2>3. Len(a) + Len(b) = Len(s) - 1
    BY <1>1, <1>2, <1>3
  <2>2. \A i \in 1 .. (Len(a) + Len(b)) : (a \o b)[i] = IF i <= Len(a) THEN a[i] ELSE b[i - Len(a)]
    BY <1>2, <1>3
  <2> QED
    BY <1>2, <2>1, <2>2, <2>3
<1>5. ASSUME NEW i \in 1 .. Len(s), i # k PROVE \E j \in 1 .. Len(a \o b) : (a \o b)[j] = s[i]
  <2>1. CASE i < k
    BY <1>1, <1>2, <1>4, <2>1
  <2>2. CASE i > k
    <3>1. i - k \in 1 .. (Len(s) - k) /\ i - 1 \in 1 .. (Len(s) - 1) /\ ~(i - 1 <= k - 1)
          /\ (i - 1) - (k - 1) = i - k /\ k + (i - k) = i
      BY <1>1, <2>2
    <3>2. (a \o b)[i - 1] = b[i - k] /\ b[i - k] = s[i]
      BY <1>3, <1>4, <3>1
    <3> QED
      BY <1>4, <3>1, <3>2
  <2> QED
    BY <1>5, <2>1, <2>2
<1> QED
  BY <1>4, <1>5 DEF a, b


LEMMA Beheaded ==
  ASSUME NEW S, NEW s \in Seq(S), s # <<>>
  PROVE  /\ Tail(s) \in Seq(S) /\ Head(s) \in S
         /\ \A e \in D!ToSet(s) : e = Head(s) \/ e \in D!ToSet(Tail(s))
<1>1. /\ Tail(s) \in Seq(S) /\ Head(s) \in S /\ Len(s) \in Nat /\ Len(s) # 0
      /\ DOMAIN s = 1 .. Len(s) /\ DOMAIN Tail(s) = 1 .. (Len(s) - 1) /\ Head(s) = s[1]
      /\ \A i \in 1 .. (Len(s) - 1) : Tail(s)[i] = s[i + 1]
  OBVIOUS
<1>2. ASSUME NEW i \in DOMAIN s, i # 1 PROVE \E j \in DOMAIN Tail(s) : Tail(s)[j] = s[i]
  <2>1. i - 1 \in 1 .. (Len(s) - 1) /\ (i - 1) + 1 = i
    BY <1>1, <1>2
  <2> QED
    BY <1>1, <2>1
<1> QED
  BY <1>1, <1>2 DEF D!ToSet

-------------------------------------------------------------------------------
(* The dock.  A question is in the slot of a member, in the queue or as asked *)
(* in the log, or between the two.                                           *)

SlotFields == {"log", "draft", "context", "attach", "running", "queue"}

Entries == [mine : BOOLEAN, text : Int]

IsSlot(s) ==
  /\ DOMAIN s = SlotFields /\ s = [f \in SlotFields |-> s[f]]
  /\ s.log \in Seq(Entries) /\ s.queue \in Seq(Int) /\ s.draft \in Int

Holds(s, t) == t \in D!ToSet(s.queue) \/ D!Asked(t) \in D!ToSet(s.log)

DockTypes ==
  /\ member \in Members /\ timer \subseteq Members
  /\ left \in [texts : Int, marks : Int]
  /\ picker # None => picker.who \in Members
  /\ DOMAIN slot = Members /\ slot = [m \in Members |-> slot[m]] /\ \A m \in Members : IsSlot(slot[m])
  /\ popped \in Seq(Int)

DockInv == DockTypes /\ D!QuestionsAreKept

\* What happens to one slot: its own questions, but for those given up, stay in
\* it or are on their way, and a question that is sent now is there.
LEMMA OneSlotKeepsQuestions ==
  ASSUME DockInv, DockTypes', NEW m \in Members, NEW s, slot' = [slot EXCEPT ![m] = s], taken \subseteq taken',
         \A t : Holds(slot[m], t) => Holds(s, t) \/ t \in taken' \/ t \in D!ToSet(popped'),
         \A t \in D!ToSet(popped) : t \in D!ToSet(popped') \/ Holds(s, t),
         \A t \in sent' : t \in sent \/ Holds(s, t)
  PROVE  DockInv'
<1>1. slot'[m] = s /\ \A n \in Members : n # m => slot'[n] = slot[n]
  BY DEF DockInv, DockTypes
<1> SUFFICES ASSUME NEW t \in sent', t \notin taken'
             PROVE  t \in D!ToSet(popped') \/ \E n \in Members : Holds(slot'[n], t)
  BY DEF DockInv, D!QuestionsAreKept, Holds, D!Asked
<1>2. CASE Holds(s, t)
  BY <1>1, <1>2
<1>3. CASE ~Holds(s, t)
  <2>1. t \in sent \ taken
    BY <1>3
  <2>2. t \in D!ToSet(popped) \/ \E n \in Members : Holds(slot[n], t)
    BY <2>1 DEF DockInv, D!QuestionsAreKept, Holds
  <2> QED
    BY <1>1, <1>3, <2>2
<1> QED
  BY <1>2, <1>3

\* The same of a slot whose log and queue stay.
LEMMA QuietSlot ==
  ASSUME DockInv, NEW m \in Members, NEW s, IsSlot(s), s.log = slot[m].log, s.queue = slot[m].queue,
         slot' = [slot EXCEPT ![m] = s], UNCHANGED <<member, timer, popped, sent, taken>>,
         left' \in [texts : Int, marks : Int], picker' # None => picker'.who \in Members
  PROVE  DockInv'
<1>1. DockTypes'
  BY DEF DockInv, DockTypes
<1> QED
  BY <1>1, OneSlotKeepsQuestions DEF Holds

\* The numbers of texts left are numbers.
LEMMA Spending ==
  ASSUME DockTypes
  PROVE  /\ D!NewText \in Int
         /\ D!Spend \/ D!SpendText \/ UNCHANGED left => left' \in [texts : Int, marks : Int]
<1>1. MaxTexts \in Int
  BY WritingConstants DEF D!DockConstants
<1> QED
  BY <1>1 DEF DockTypes, D!NewText, D!Spend, D!SpendText

LEMMA Asking ==
  ASSUME NEW s, IsSlot(s), NEW t \in Int
  PROVE  LET a == D!AskedOf(s, t)
         IN  IsSlot(a) /\ Holds(a, t) /\ \A u : Holds(s, u) => Holds(a, u)
<1>1. D!Asked(t) \in Entries
  BY DEF D!Asked, Entries
<1>2. CASE s.running
  <2> DEFINE q == Append(s.queue, t)
             a == [s EXCEPT !.queue = q, !.draft = 0]
  <2>1. D!AskedOf(s, t) = a
    BY <1>2 DEF D!AskedOf, D!Blank
  <2>2. DOMAIN a = SlotFields /\ a = [f \in SlotFields |-> a[f]] /\ a.log = s.log /\ a.draft = 0
        /\ a.queue = q
    BY DEF IsSlot, SlotFields
  <2> HIDE DEF a
  <2>3. q \in Seq(Int) /\ D!ToSet(q) = D!ToSet(s.queue) \cup {t}
    BY Appended DEF IsSlot
  <2> HIDE DEF q
  <2>4. IsSlot(a)
    <3>1. s.log \in Seq(Entries) /\ s.queue \in Seq(Int)
      BY DEF IsSlot
    <3>2. a.log \in Seq(Entries)
      BY <3>1, <2>2, <2>3
    <3>3. a.queue \in Seq(Int) /\ a.draft \in Int
      BY <3>1, <2>2, <2>3
    <3> QED
      BY <2>2, <3>2, <3>3 DEF IsSlot
  <2>5. Holds(a, t) /\ \A u : Holds(s, u) => Holds(a, u)
    BY <2>2, <2>3 DEF Holds
  <2> QED
    BY <2>1, <2>4, <2>5
<1>3. CASE ~s.running
  <2> DEFINE a == [s EXCEPT !.log = Append(s.log, D!Asked(t)), !.draft = 0, !.attach = FALSE, !.running = TRUE]
  <2>1. D!AskedOf(s, t) = a
    BY <1>3 DEF D!AskedOf, D!Blank
  <2>2. DOMAIN a = SlotFields /\ a = [f \in SlotFields |-> a[f]] /\ a.queue = s.queue /\ a.draft = 0
        /\ a.log = Append(s.log, D!Asked(t))
    BY DEF IsSlot, SlotFields
  <2> HIDE DEF a
  <2>3. /\ Append(s.log, D!Asked(t)) \in Seq(Entries)
        /\ D!ToSet(Append(s.log, D!Asked(t))) = D!ToSet(s.log) \cup {D!Asked(t)}
    BY <1>1, Appended DEF IsSlot
  <2>4. IsSlot(a)
    <3>1. s.log \in Seq(Entries) /\ s.queue \in Seq(Int)
      BY DEF IsSlot
    <3>2. a.log \in Seq(Entries)
      BY <3>1, <2>2, <2>3
    <3>3. a.queue \in Seq(Int) /\ a.draft \in Int
      BY <3>1, <2>2, <2>3
    <3> QED
      BY <2>2, <3>2, <3>3 DEF IsSlot
  <2>5. Holds(a, t) /\ \A u : Holds(s, u) => Holds(a, u)
    BY <2>2, <2>3 DEF Holds
  <2> QED
    BY <2>1, <2>4, <2>5
<1> QED
  BY <1>2, <1>3

\* A question is sent: typed, suggested, or popped from a queue.
LEMMA SendingKeepsQuestions ==
  ASSUME DockInv, NEW t \in Int, D!SendText(t), UNCHANGED <<member, taken, picker>>,
         left' \in [texts : Int, marks : Int], popped' \in Seq(Int),
         D!ToSet(popped) \subseteq D!ToSet(popped') \cup {t}
  PROVE  DockInv'
<1> DEFINE s == D!AskedOf(slot[member], t)
<1>1. member \in Members /\ IsSlot(slot[member])
  BY DEF DockInv, DockTypes
<1>2. IsSlot(s) /\ Holds(s, t) /\ \A u : Holds(slot[member], u) => Holds(s, u)
  BY <1>1, Asking
<1>3. slot' = [slot EXCEPT ![member] = s] /\ timer' = timer \cup {member} /\ sent' = sent \cup {t}
  BY DEF D!SendText
<1> HIDE DEF s
<1>4. DockTypes'
  BY <1>1, <1>2, <1>3 DEF DockInv, DockTypes
<1> QED
  BY <1>1, <1>2, <1>3, <1>4, OneSlotKeepsQuestions

\* Typing and quoting, files and context: the draft and the marks of a slot.
LEMMA WritingKeepsQuestions ==
  ASSUME DockInv, NEW c, D!Type(c) \/ D!Quote(c) \/ D!Detach(c)
  PROVE  DockInv'
<1>1. member \in Members /\ IsSlot(slot[member]) /\ DockTypes /\ UNCHANGED <<member, timer, popped, sent, taken, picker>>
  BY DEF DockInv, DockTypes, D!Type, D!Quote, D!Detach, D!Staying, D!Asking, D!Marking
<1>2. left' \in [texts : Int, marks : Int] /\ D!NewText \in Int
  BY <1>1, Spending DEF D!Type, D!Quote, D!Detach
<1>3. ASSUME NEW x \in Int, slot' = [slot EXCEPT ![member].draft = x] PROVE DockInv'
  <2> DEFINE s == [slot[member] EXCEPT !.draft = x]
  <2>1. IsSlot(s) /\ s.log = slot[member].log /\ s.queue = slot[member].queue
    BY <1>1 DEF IsSlot, SlotFields
  <2>2. slot' = [slot EXCEPT ![member] = s]
    BY <1>3
  <2> HIDE DEF s
  <2> QED
    BY <1>1, <1>2, <2>1, <2>2, QuietSlot DEF DockTypes
<1>4. ASSUME D!Detach(c) PROVE DockInv'
  <2> DEFINE x == IF c[1] = "detach" THEN FALSE ELSE slot[member].attach
             y == IF c[1] = "context" THEN TRUE ELSE slot[member].context
             s == [slot[member] EXCEPT !.attach = x, !.context = y]
  <2>1. slot' = [slot EXCEPT ![member].attach = x, ![member].context = y]
    BY <1>4 DEF D!Detach
  <2> HIDE DEF x, y
  <2>2. IsSlot(s) /\ s.log = slot[member].log /\ s.queue = slot[member].queue
    BY <1>1 DEF IsSlot, SlotFields
  <2>3. slot' = [slot EXCEPT ![member] = s]
    BY <1>1, <2>1 DEF DockTypes
  <2> HIDE DEF s
  <2> QED
    BY <1>1, <1>2, <2>2, <2>3, QuietSlot DEF DockTypes
<1> QED
  BY <1>2, <1>3, <1>4 DEF D!Type, D!Quote, D!Blank


\* What the markup offers: a row of the queue that is there, another member.
LEMMA OfferedByTheDock ==
  ASSUME NEW c \in D!Offered
  PROVE  /\ c[1] = "unqueue" => \E n \in 1 .. Len(slot[member].queue) : c = <<"unqueue", n>>
         /\ c[1] = "member" => c[2] \in Members
<1>1. \A x \in D!GoalChip \cup D!PlanChip : x[1] \notin {"unqueue", "member"}
  BY DEF D!GoalChip, D!PlanChip
<1>2. \A x \in D!ToolBar \cup D!GoalBar \cup D!DockRows \cup D!DockSuggestions \cup D!DockContext \cup D!DockTools :
        x[1] \notin {"unqueue", "member"}
  BY DEF D!ToolBar, D!GoalBar, D!DockRows, D!DockSuggestions, D!DockContext, D!DockTools
<1>3. \A x \in D!DockForm \cup D!DockMenu \cup D!DockStop \cup D!DockHead \cup D!PlusMenu :
        x[1] \notin {"unqueue", "member"}
  BY DEF D!DockForm, D!DockMenu, D!DockStop, D!DockHead, D!PlusMenu
<1>4. \A x \in D!Page : x[1] # "unqueue" /\ (x[1] = "member" => x[2] \in Members)
  BY DEF D!Page
<1>5. \A x \in D!DockQueue : x[1] # "member" /\ \E n \in 1 .. Len(slot[member].queue) : x = <<"unqueue", n>>
  BY DEF D!DockQueue, D!Slot
<1>6. \/ c \in D!GoalChip \cup D!PlanChip
      \/ c \in D!ToolBar \cup D!GoalBar \cup D!DockRows \cup D!DockSuggestions \cup D!DockContext \cup D!DockTools
      \/ c \in D!DockForm \cup D!DockMenu \cup D!DockStop \cup D!DockHead \cup D!PlusMenu
      \/ c \in D!Page \/ c \in D!DockQueue
  BY DEF D!Offered, D!BlockChips, D!PreviewChips, D!ThreadChips, D!ThreadFootChips, D!ChatPreviewChips,
         D!ChatChips, D!ChatFootChips, D!RunChips, D!ReviewChips, D!FileChips, D!SettingsChips, D!DockChips,
         D!ChatToolBar, D!ChatGoalBar
<1> QED
  BY <1>1, <1>2, <1>3, <1>4, <1>5, <1>6

\* The member removes a question from the queue.
LEMMA RemovingKeepsQuestions ==
  ASSUME DockInv, NEW c \in D!Offered, D!Unqueue(c)
  PROVE  DockInv'
<1>1. PICK n \in 1 .. Len(slot[member].queue) : c = <<"unqueue", n>>
  BY OfferedByTheDock DEF D!Unqueue
<1> DEFINE s == slot[member]
           q == D!RemoveAt(s.queue, n)
           r == [s EXCEPT !.queue = q]
<1>2. member \in Members /\ IsSlot(s) /\ DockTypes
  BY DEF DockInv, DockTypes
<1>3. c[2] = n /\ c[1] = "unqueue"
  BY <1>1
<1>4. slot' = [slot EXCEPT ![member] = r] /\ taken' = taken \cup {s.queue[n]}
  BY <1>3 DEF D!Unqueue, D!Slot
<1>5. UNCHANGED <<member, timer, popped, sent, left, picker>>
  BY DEF D!Unqueue, D!Staying, D!Marking
<1>6. q \in Seq(Int) /\ \A t \in D!ToSet(s.queue) : t = s.queue[n] \/ t \in D!ToSet(q)
  <2>1. s.queue \in Seq(Int) /\ n \in 1 .. Len(s.queue)
    BY <1>2 DEF IsSlot
  <2> HIDE DEF s
  <2>2. q \in Seq(Int) /\ \A i \in 1 .. Len(s.queue) : i # n => \E j \in 1 .. Len(q) : q[j] = s.queue[i]
    BY <2>1, ClosedGap DEF D!RemoveAt
  <2> HIDE DEF q
  <2>3. DOMAIN s.queue = 1 .. Len(s.queue) /\ DOMAIN q = 1 .. Len(q)
    BY <2>1, <2>2
  <2> QED
    BY <2>2, <2>3 DEF D!ToSet
<1> HIDE DEF q
<1>7. IsSlot(r) /\ r.log = s.log /\ r.queue = q
  BY <1>2, <1>6 DEF IsSlot, SlotFields
<1> HIDE DEF r, s
<1>8. DockTypes'
  BY <1>2, <1>4, <1>5, <1>7 DEF DockTypes
<1>9. \A t : Holds(s, t) => Holds(r, t) \/ t \in taken'
  BY <1>4, <1>6, <1>7 DEF Holds
<1> QED
  BY <1>2, <1>4, <1>5, <1>8, <1>9, OneSlotKeepsQuestions DEF s

\* An answer at the end of the log.
LEMMA Replying ==
  ASSUME NEW s, IsSlot(s)
  PROVE  /\ Append(s.log, D!Reply) \in Seq(Entries)
         /\ D!ToSet(s.log) \subseteq D!ToSet(Append(s.log, D!Reply))
<1>1. D!Reply \in Entries
  BY DEF D!Reply, Entries, D!Blank
<1> QED
  BY <1>1, Appended DEF IsSlot

\* Stop gives up what is in the queue.
LEMMA StoppingKeepsQuestions ==
  ASSUME DockInv, NEW c, D!Stop(c)
  PROVE  DockInv'
<1> DEFINE s == slot[member]
           l == Append(s.log, D!Reply)
           e == <<>>
           r == [s EXCEPT !.running = FALSE, !.queue = e, !.log = l]
<1>0. e \in Seq(Int)
  OBVIOUS
<1>1. member \in Members /\ IsSlot(s) /\ DockTypes
  BY DEF DockInv, DockTypes
<1>2. slot' = [slot EXCEPT ![member].running = FALSE, ![member].queue = e, ![member].log = l]
      /\ taken' = taken \cup D!ToSet(s.queue)
  BY DEF D!Stop, D!Slot
<1>3. timer' \subseteq timer /\ UNCHANGED <<member, popped, sent, left, picker>>
  BY DEF D!Stop, D!TimerAfterStop, D!Staying, D!Marking
<1>4. l \in Seq(Entries) /\ D!ToSet(s.log) \subseteq D!ToSet(l)
  BY <1>1, Replying
<1> HIDE DEF l, e
<1>5. IsSlot(r) /\ r.log = l
  <2>1. DOMAIN r = SlotFields /\ r = [f \in SlotFields |-> r[f]] /\ r.log = l /\ r.queue = e /\ r.draft = s.draft
    BY <1>1 DEF IsSlot, SlotFields
  <2> HIDE DEF r
  <2>2. r.queue \in Seq(Int)
    BY <1>0, <2>1
  <2>3. r.log \in Seq(Entries) /\ r.draft \in Int
    BY <1>1, <1>4, <2>1 DEF IsSlot
  <2> QED
    BY <2>1, <2>2, <2>3 DEF IsSlot
<1>6. slot' = [slot EXCEPT ![member] = r]
  BY <1>1, <1>2 DEF DockTypes
<1> HIDE DEF r, s
<1>7. DockTypes'
  BY <1>1, <1>3, <1>5, <1>6 DEF DockTypes
<1>8. \A t : Holds(s, t) => Holds(r, t) \/ t \in taken'
  BY <1>2, <1>4, <1>5 DEF Holds
<1> QED
  BY <1>1, <1>2, <1>3, <1>6, <1>7, <1>8, OneSlotKeepsQuestions DEF s

\* The answer comes; the head of the queue is on its way if its member is there.
LEMMA AnsweringKeepsQuestions ==
  ASSUME DockInv, D!TimerFires
  PROVE  DockInv'
<1>1. PICK m \in timer :
        /\ timer' = timer \ {m}
        /\ IF slot[m].queue # <<>> /\ m = member
           THEN /\ popped' = Append(popped, Head(slot[m].queue))
                /\ slot' = [slot EXCEPT ![m] = [D!Answered(@) EXCEPT !.queue = D!Drained(slot[m].queue)]]
           ELSE /\ slot' = [slot EXCEPT ![m] = D!Answered(@)]
                /\ UNCHANGED popped
        /\ UNCHANGED <<member, picker, sent, taken, left>>
  BY DEF D!TimerFires, D!Staying, D!Marking
<1> DEFINE s == slot[m]
           l == Append(s.log, D!Reply)
           r == [s EXCEPT !.log = l, !.running = FALSE]
<1>2. m \in Members /\ IsSlot(s) /\ DockTypes
  BY DEF DockInv, DockTypes
<1>3. l \in Seq(Entries) /\ D!ToSet(s.log) \subseteq D!ToSet(l)
  BY <1>2, Replying
<1>4. D!Answered(s) = r
  BY DEF D!Answered
<1> HIDE DEF l
<1>5. IsSlot(r) /\ r.log = l /\ r.queue = s.queue
  <2>1. /\ DOMAIN r = SlotFields /\ r = [f \in SlotFields |-> r[f]]
        /\ r.log = l /\ r.queue = s.queue /\ r.draft = s.draft
    BY <1>2 DEF IsSlot, SlotFields
  <2> HIDE DEF r
  <2> QED
    BY <1>2, <1>3, <2>1 DEF IsSlot
<1>6. CASE slot[m].queue # <<>> /\ m = member
  <2> DEFINE q == Tail(s.queue)
             h == Head(s.queue)
             u == [r EXCEPT !.queue = q]
  <2>1. popped' = Append(popped, h) /\ slot' = [slot EXCEPT ![m] = u]
    BY <1>1, <1>4, <1>6 DEF D!Drained
  <2>2. q \in Seq(Int) /\ h \in Int /\ \A t \in D!ToSet(s.queue) : t = h \/ t \in D!ToSet(q)
    <3>1. s.queue \in Seq(Int) /\ s.queue # <<>>
      BY <1>2, <1>6 DEF IsSlot
    <3> HIDE DEF s
    <3> QED
      BY <3>1, Beheaded
  <2> HIDE DEF q, h
  <2>3. IsSlot(u) /\ u.log = l /\ u.queue = q
    <3> HIDE DEF r
    <3>1. /\ DOMAIN u = SlotFields /\ u = [f \in SlotFields |-> u[f]]
          /\ u.log = l /\ u.queue = q /\ u.draft = r.draft
      BY <1>5 DEF IsSlot, SlotFields
    <3> HIDE DEF u
    <3> QED
      BY <1>3, <1>5, <2>2, <3>1 DEF IsSlot
  <2>4. popped' \in Seq(Int) /\ D!ToSet(popped') = D!ToSet(popped) \cup {h}
    BY <1>2, <2>1, <2>2, Appended DEF DockTypes
  <2> HIDE DEF u, r, s
  <2>5. DockTypes'
    BY <1>1, <1>2, <2>1, <2>3, <2>4 DEF DockTypes
  <2>6. \A t : Holds(s, t) => Holds(u, t) \/ t \in D!ToSet(popped')
    BY <1>3, <2>2, <2>3, <2>4 DEF Holds
  <2> QED
    BY <1>1, <1>2, <2>1, <2>4, <2>5, <2>6, OneSlotKeepsQuestions DEF s
<1>7. CASE ~(slot[m].queue # <<>> /\ m = member)
  <2>1. slot' = [slot EXCEPT ![m] = r] /\ UNCHANGED popped
    BY <1>1, <1>4, <1>7
  <2> HIDE DEF r, s
  <2>2. DockTypes'
    BY <1>1, <1>2, <1>5, <2>1 DEF DockTypes
  <2>3. \A t : Holds(s, t) => Holds(r, t)
    BY <1>3, <1>5 DEF Holds
  <2> QED
    BY <1>1, <1>2, <2>1, <2>2, <2>3, OneSlotKeepsQuestions DEF s
<1> QED
  BY <1>6, <1>7

\* A popped question is sent to whoever is signed in.
LEMMA PoppingKeepsQuestions ==
  ASSUME DockInv, D!PoppedIsSent
  PROVE  DockInv'
<1>1. /\ popped # <<>> /\ popped' = Tail(popped) /\ D!SendText(Head(popped))
      /\ UNCHANGED <<member, taken, picker, left>>
  BY DEF D!PoppedIsSent, D!Marking
<1>2. popped \in Seq(Int) /\ left' \in [texts : Int, marks : Int]
  BY <1>1 DEF DockInv, DockTypes
<1>3. popped' \in Seq(Int) /\ Head(popped) \in Int
      /\ D!ToSet(popped) \subseteq D!ToSet(popped') \cup {Head(popped)}
  BY <1>1, <1>2, Beheaded
<1> DEFINE t == Head(popped)
<1>4. t \in Int /\ D!SendText(t) /\ D!ToSet(popped) \subseteq D!ToSet(popped') \cup {t}
  BY <1>1, <1>3
<1> HIDE DEF t
<1> QED
  BY <1>1, <1>2, <1>3, <1>4, SendingKeepsQuestions

\* Typing a question and sending it, or taking one that is suggested.
LEMMA AskingKeepsQuestions ==
  ASSUME DockInv, NEW c, D!Send(c) \/ D!Ask(c)
  PROVE  DockInv'
<1>1. \E t \in Int : D!SendText(t)
  <2>1. slot[member].draft \in Int /\ D!NewText \in Int
    BY Spending DEF DockInv, DockTypes, IsSlot
  <2> QED
    BY <2>1 DEF D!Send, D!Ask, D!Slot
<1>2. UNCHANGED <<member, taken, picker, popped>> /\ left' \in [texts : Int, marks : Int] /\ popped \in Seq(Int)
  BY Spending DEF D!Send, D!Ask, D!Staying, D!Marking, DockInv, DockTypes
<1> QED
  BY <1>1, <1>2, SendingKeepsQuestions

\* Files arrive in the slot of the member who asked for them.
LEMMA FilesKeepQuestions ==
  ASSUME DockInv, D!FilesChosen
  PROVE  DockInv'
<1>1. /\ picker # None /\ picker' = None
      /\ UNCHANGED <<member, timer, popped, sent, taken, left>>
      /\ slot' = [slot EXCEPT ![picker.who].attach = TRUE] \/ UNCHANGED slot
  BY DEF D!FilesChosen, D!Staying, D!Asking
<1> DEFINE m == picker.who
           s == [slot[m] EXCEPT !.attach = TRUE]
<1>2. m \in Members /\ DockTypes
  BY <1>1 DEF DockInv, DockTypes
<1>3. CASE slot' = [slot EXCEPT ![picker.who].attach = TRUE]
  <2>1. IsSlot(s) /\ s.log = slot[m].log /\ s.queue = slot[m].queue
    BY <1>2 DEF DockTypes, IsSlot, SlotFields
  <2>2. slot' = [slot EXCEPT ![m] = s]
    BY <1>3
  <2> HIDE DEF s, m
  <2> QED
    BY <1>1, <1>2, <2>1, <2>2, QuietSlot DEF DockTypes
<1>4. CASE UNCHANGED slot
  BY <1>1, <1>2, <1>4 DEF DockInv, DockTypes, D!QuestionsAreKept
<1> QED
  BY <1>1, <1>3, <1>4

\* Marks and pages: nothing happens to the slots.
LEMMA MarkingKeepsQuestions ==
  ASSUME DockInv, NEW c \in D!Offered,
         \/ D!Plus(c) \/ D!PickFiles(c) \/ D!Plan(c) \/ D!Tool(c) \/ D!StartGoal(c) \/ D!GoalDialog(c)
         \/ D!CommitGoal(c) \/ D!ClearGoal(c) \/ D!OpenDock(c) \/ D!Go(c) \/ D!SwitchMember(c)
  PROVE  DockInv'
<1>1. UNCHANGED <<slot, timer, popped, sent, taken>>
  BY DEF D!Plus, D!PickFiles, D!Plan, D!Tool, D!StartGoal, D!GoalDialog, D!CommitGoal, D!ClearGoal, D!OpenDock,
         D!Go, D!SwitchMember, D!Asking
<1>2. left' \in [texts : Int, marks : Int]
  BY Spending DEF D!Plus, D!PickFiles, D!Plan, D!Tool, D!StartGoal, D!GoalDialog, D!CommitGoal, D!ClearGoal,
         D!OpenDock, D!Go, D!SwitchMember, DockInv
<1>3. member' = member \/ member' \in Members
  BY OfferedByTheDock DEF D!Plus, D!PickFiles, D!Plan, D!Tool, D!StartGoal, D!GoalDialog, D!CommitGoal, D!ClearGoal,
         D!OpenDock, D!Go, D!SwitchMember, D!Staying
<1>4. picker' = picker \/ picker'.who = member
  BY DEF D!Plus, D!PickFiles, D!Plan, D!Tool, D!StartGoal, D!GoalDialog, D!CommitGoal, D!ClearGoal, D!OpenDock,
         D!Go, D!SwitchMember, D!Marking
<1>5. DockTypes'
  BY <1>1, <1>2, <1>3, <1>4 DEF DockInv, DockTypes
<1> QED
  BY <1>1, <1>5 DEF DockInv, D!QuestionsAreKept

LEMMA DockStep == DockInv /\ [D!Next]_(D!vars) => DockInv'
<1> SUFFICES ASSUME DockInv, [D!Next]_(D!vars) PROVE DockInv'
  OBVIOUS
<1>1. ASSUME UNCHANGED D!vars PROVE DockInv'
  BY <1>1 DEF D!vars, DockInv, DockTypes, D!QuestionsAreKept
<1>2. ASSUME NEW c \in D!Offered, D!Act(c) PROVE DockInv'
  BY <1>2, WritingKeepsQuestions, AskingKeepsQuestions, RemovingKeepsQuestions, StoppingKeepsQuestions,
     MarkingKeepsQuestions, Zenon DEF D!Act
<1> QED
  BY <1>1, <1>2, AnsweringKeepsQuestions, PoppingKeepsQuestions, FilesKeepQuestions DEF D!Next

LEMMA DockInit == D!Init => DockInv
<1> SUFFICES ASSUME D!Init PROVE DockInv
  OBVIOUS
<1>1. IsSlot(D!EmptySlot)
  BY DEF IsSlot, SlotFields, D!EmptySlot, Entries, D!Blank
<1>2. slot = [m \in Members |-> D!EmptySlot] /\ sent = {} /\ popped = <<>> /\ timer = {} /\ member \in Members
      /\ picker = None
  BY DEF D!Init
<1>3. left \in [texts : Int, marks : Int]
  BY WritingConstants DEF D!Init, D!DockConstants
<1> QED
  BY <1>1, <1>2, <1>3 DEF DockInv, DockTypes, D!QuestionsAreKept

\* A question that a member asked in the dock stays in a queue or a log until
\* its member removes it or presses Stop, whoever is signed in when the answers
\* come and the queues drain (dockSendText15, dockQueueRemove15, dockStop15).
THEOREM QuestionsAreNotLost == WritingSpec => []QuestionsAreKept
<1>1. WritingInit => DockInv
  BY DockInit DEF WritingInit
<1>2. DockInv /\ [WritingNext]_<<part, vars, dockVars, threadVars>> => DockInv'
  BY PartsStepAlone, DockStep
<1>3. DockInv => QuestionsAreKept
  BY DEF DockInv, QuestionsAreKept
<1> QED
  BY <1>1, <1>2, <1>3, PTL DEF WritingSpec
-------------------------------------------------------------------------------
(* The thread.  A text that was given stays in the messages of a place, in a *)
(* queue, in the answers or in the replies; a chat that is absent has no     *)
(* messages that a fork could overwrite, and an edit cuts where a message is.*)

ThreadFields ==
  {"open", "status", "resolved", "answers", "chat", "phase", "msgs", "field", "queue", "at", "edit", "reply",
   "replies", "plan", "dialog"}

HasFields(p) == DOMAIN p = ThreadFields /\ p = [f \in ThreadFields |-> p[f]]

Notes == [who : {"member", "operator"}, text : Int]
Rows == [text : Int, files : BOOLEAN]

Placed(f, S) ==
  DOMAIN f = Q!Places /\ f = [c \in Q!Places |-> f[c]] /\ \A c \in Q!Places : f[c] \in Seq(S)

\* What the field and the edit form show.
Shown(p) ==
  /\ p.open \in Q!Places \cup {"new"}
  /\ p.field \in Rows /\ p.edit \in Int
  /\ p.at \in 0 .. Len(p.msgs["issue"])

\* The chat that is open exists, and one that does not has no messages.
ChatsAreThere(p) ==
  /\ DOMAIN p.chat = Threads /\ p.chat = [c \in Threads |-> p.chat[c]]
  /\ \A c \in Threads : p.chat[c] = "absent" => p.open # c /\ p.msgs[c] = <<>>

IsThread(p) ==
  /\ HasFields(p) /\ Shown(p) /\ ChatsAreThere(p)
  /\ Placed(p.msgs, Notes) /\ Placed(p.queue, Rows) /\ p.answers \in Seq(Int)

Keeps(p, t) ==
  \/ \E c \in Q!Places : t \in Q!Held(p.msgs[c]) \/ t \in Q!Held(p.queue[c])
  \/ t \in Q!ToSet(p.answers) \/ t \in p.replies

\* Page q comes after page p: it keeps every text but those of T, and it has not
\* answered a chat that was paused.
Follows(p, q, T) ==
  /\ IsThread(q)
  /\ \A t : Keeps(p, t) => Keeps(q, t) \/ t \in T
  /\ \A c \in Threads : q.chat[c] = "done" => p.chat[c] # "paused"

Callbacks == [what : {"steer", "fill", "send"}, text : Int]

ThreadTypes ==
  /\ IsThread(thread)
  /\ due \in Threads \cup {None} /\ stopped \subseteq Threads /\ due \notin stopped
  /\ rest \in [texts : Int, steps : Int] /\ soon \in Seq(Callbacks)

ThreadInv == ThreadTypes /\ given \subseteq Q!Texts /\ Q!SentTextsAreKept

\* The texts that no page need keep: taken back, on their way to be steered, or
\* steered where no conversation was open.
Away == back \cup Q!Underway \cup missed

LEMMA AcceptedIsKept == \A p, t : t \in Q!Accepted(p) <=> t \in Q!Texts /\ Keeps(p, t)
<1> SUFFICES ASSUME NEW p, NEW t PROVE t \in Q!Accepted(p) <=> t \in Q!Texts /\ Keeps(p, t)
  OBVIOUS
<1>1. \A f : t \in Q!HeldIn(f) <=> \E c \in Q!Places : t \in Q!Held(f[c])
  BY DEF Q!HeldIn
<1>2. t \in Q!Accepted(p) <=>
        /\ t \in Q!Texts
        /\ t \in Q!HeldIn(p.msgs) \/ t \in Q!HeldIn(p.queue) \/ t \in Q!ToSet(p.answers) \/ t \in p.replies
  BY DEF Q!Accepted
<1> QED
  BY <1>1, <1>2 DEF Keeps

\* Queues and messages as sequences: what they hold after each change of them.
LEMMA HeldAppended ==
  ASSUME NEW S, NEW s \in Seq(S), NEW e \in S
  PROVE  Append(s, e) \in Seq(S) /\ Q!Held(s) \cup {e.text} \subseteq Q!Held(Append(s, e))
<1>1. /\ Append(s, e) \in Seq(S) /\ Len(s) \in Nat
      /\ Len(Append(s, e)) = Len(s) + 1
      /\ Append(s, e)[Len(s) + 1] = e
      /\ \A i \in 1 .. Len(s) : Append(s, e)[i] = s[i]
  OBVIOUS
<1> QED
  BY <1>1 DEF Q!Held

LEMMA HeldJoined ==
  ASSUME NEW S, NEW s \in Seq(S), NEW u \in Seq(S)
  PROVE  s \o u \in Seq(S) /\ Len(s \o u) = Len(s) + Len(u) /\ Q!Held(s) \cup Q!Held(u) \subseteq Q!Held(s \o u)
<1>1. /\ s \o u \in Seq(S) /\ Len(s) \in Nat /\ Len(u) \in Nat
      /\ Len(s \o u) = Len(s) + Len(u)
      /\ \A i \in 1 .. Len(s) : (s \o u)[i] = s[i]
  OBVIOUS
<1>2. ASSUME NEW i \in 1 .. Len(u)
      PROVE  \E j \in 1 .. Len(s \o u) : (s \o u)[j] = u[i]
  <2>1. (s \o u)[Len(s) + i] = u[i] /\ Len(s) + i \in 1 .. Len(s \o u)
    BY <1>1
  <2> QED
    BY <2>1
<1>3. \A i \in 1 .. Len(s) : i \in 1 .. Len(s \o u)
  BY <1>1
<1> QED
  BY <1>1, <1>2, <1>3 DEF Q!Held

LEMMA HeldWithout ==
  ASSUME NEW S, NEW s \in Seq(S), NEW k \in 1 .. Len(s)
  PROVE  Q!Without(s, k) \in Seq(S) /\ Q!Held(s) \subseteq Q!Held(Q!Without(s, k)) \cup {s[k].text}
<1> DEFINE q == Q!Without(s, k)
<1>1. q \in Seq(S) /\ \A i \in 1 .. Len(s) : i # k => \E j \in 1 .. Len(q) : q[j] = s[i]
  BY ClosedGap DEF Q!Without, Q!RemoveAt
<1> HIDE DEF q
<1> QED
  BY <1>1 DEF Q!Held, q

LEMMA HeldSwapped ==
  ASSUME NEW S, NEW s \in Seq(S), NEW i \in 1 .. Len(s), NEW j \in 1 .. Len(s)
  PROVE  Q!Swapped(s, i, j) \in Seq(S) /\ Q!Held(s) \subseteq Q!Held(Q!Swapped(s, i, j))
<1> DEFINE q == Q!Swapped(s, i, j)
<1>1. q = [[s EXCEPT ![i] = s[j]] EXCEPT ![j] = s[i]]
  BY DEF Q!Swapped
<1>2. Len(s) \in Nat /\ DOMAIN s = 1 .. Len(s) /\ \A k \in 1 .. Len(s) : s[k] \in S
  OBVIOUS
<1>3. /\ q = [k \in 1 .. Len(s) |-> IF k = j THEN s[i] ELSE IF k = i THEN s[j] ELSE s[k]]
  BY <1>1, <1>2
<1>4. q \in Seq(S) /\ Len(q) = Len(s)
  BY <1>2, <1>3
<1>5. q[j] = s[i] /\ (q[i] = s[j] \/ i = j) /\ \A k \in 1 .. Len(s) : k # i /\ k # j => q[k] = s[k]
  BY <1>3
<1> HIDE DEF q
<1> QED
  BY <1>4, <1>5 DEF Q!Held, q

LEMMA HeldCut ==
  ASSUME NEW S, NEW s \in Seq(S), NEW k \in 1 .. Len(s)
  PROVE  /\ SubSeq(s, 1, k - 1) \in Seq(S) /\ Len(SubSeq(s, 1, k - 1)) = k - 1
         /\ Q!Held(s) \subseteq Q!Held(SubSeq(s, 1, k - 1)) \cup Q!Held(SubSeq(s, k, Len(s)))
<1> DEFINE a == SubSeq(s, 1, k - 1)
           b == SubSeq(s, k, Len(s))
<1>1. k \in 1 .. Len(s) /\ Len(s) \in Nat
  OBVIOUS
<1>2. a \in Seq(S) /\ Len(a) = k - 1 /\ \A i \in 1 .. (k - 1) : a[i] = s[i]
  BY <1>1
<1>3. b \in Seq(S) /\ Len(b) = Len(s) - k + 1 /\ \A i \in 1 .. (Len(s) - k + 1) : b[i] = s[k + i - 1]
  BY <1>1
<1> HIDE DEF a, b
<1>4. ASSUME NEW i \in 1 .. Len(s)
      PROVE  (\E j \in 1 .. Len(a) : a[j] = s[i]) \/ (\E j \in 1 .. Len(b) : b[j] = s[i])
  <2>1. CASE i < k
    BY <1>1, <1>2, <2>1
  <2>2. CASE i >= k
    <3>1. i - k + 1 \in 1 .. Len(b) /\ k + (i - k + 1) - 1 = i
      BY <1>1, <1>3, <2>2
    <3> QED
      BY <1>3, <3>1
  <2> QED
    BY <1>1, <2>1, <2>2
<1>5. Q!Held(s) \subseteq Q!Held(a) \cup Q!Held(b)
  BY <1>4 DEF Q!Held
<1> QED
  BY <1>2, <1>5 DEF a, b
\* From one page to the next.
LEMMA PageStep ==
  ASSUME ThreadInv, ThreadTypes', Q!Goes(thread') \/ UNCHANGED <<thread, given>>,
         \A t : Keeps(thread, t) \/ t \in Away => Keeps(thread', t) \/ t \in Away'
  PROVE  ThreadInv'
<1>1. given' \subseteq given \cup Q!Accepted(thread')
  BY DEF Q!Goes
<1>2. ASSUME NEW t \in given PROVE t \in Q!Accepted(thread') \/ t \in Away'
  <2>1. t \in Q!Texts /\ (t \in Q!Accepted(thread) \/ t \in Away)
    BY <1>2 DEF ThreadInv, Q!SentTextsAreKept, Away
  <2>2. Keeps(thread', t) \/ t \in Away'
    BY <2>1, AcceptedIsKept
  <2> QED
    BY <2>1, <2>2, AcceptedIsKept
<1>3. given' \subseteq Q!Accepted(thread') \cup Away' /\ Q!Accepted(thread') \subseteq Q!Texts
  BY <1>1, <1>2, AcceptedIsKept
<1>4. given' \subseteq Q!Texts' /\ Q!Texts' = Q!Texts
  BY <1>1, <1>3 DEF ThreadInv, Q!Texts
<1> QED
  BY <1>3, <1>4 DEF ThreadInv, Q!SentTextsAreKept, Away

\* What is underway: when the callbacks stay, when one is set, when the first runs.
LEMMA UnderwaySet ==
  ASSUME soon \in Seq(Callbacks), NEW e \in Callbacks, soon' = Append(soon, e)
  PROVE  /\ soon' \in Seq(Callbacks) /\ Q!Underway \subseteq Q!Underway'
         /\ e.what = "steer" => e.text \in Q!Underway'
<1>1. /\ soon' \in Seq(Callbacks) /\ Len(soon) \in Nat /\ Len(soon') = Len(soon) + 1
      /\ soon'[Len(soon) + 1] = e /\ \A i \in 1 .. Len(soon) : soon'[i] = soon[i]
  OBVIOUS
<1>2. Len(soon) + 1 \in 1 .. Len(soon') /\ \A i \in 1 .. Len(soon) : i \in 1 .. Len(soon')
  BY <1>1
<1> QED
  BY <1>1, <1>2 DEF Q!Underway

LEMMA UnderwayRun ==
  ASSUME soon \in Seq(Callbacks), soon # <<>>
  PROVE  /\ Head(soon) \in Callbacks /\ Tail(soon) \in Seq(Callbacks)
         /\ \A t \in Q!Underway : \/ Head(soon).what = "steer" /\ Head(soon).text = t
                                 \/ \E i \in 1 .. Len(Tail(soon)) : Tail(soon)[i].what = "steer" /\ Tail(soon)[i].text = t
<1>1. /\ Tail(soon) \in Seq(Callbacks) /\ Head(soon) \in Callbacks /\ Len(soon) \in Nat /\ Len(soon) # 0
      /\ Len(Tail(soon)) = Len(soon) - 1 /\ Head(soon) = soon[1]
      /\ \A i \in 1 .. (Len(soon) - 1) : Tail(soon)[i] = soon[i + 1]
  OBVIOUS
<1>2. ASSUME NEW i \in 1 .. Len(soon), i # 1 PROVE \E j \in 1 .. Len(Tail(soon)) : Tail(soon)[j] = soon[i]
  <2>1. i - 1 \in 1 .. (Len(soon) - 1) /\ (i - 1) + 1 = i
    BY <1>1, <1>2
  <2> QED
    BY <1>1, <2>1
<1> QED
  BY <1>1, <1>2 DEF Q!Underway

\* Nothing that a page keeps is touched.
LEMMA QuietPage ==
  ASSUME NEW p, IsThread(p), NEW q, HasFields(q), Shown(q), NEW T,
         q.open \in Threads => p.chat[q.open] # "absent",
         q.chat = p.chat, q.msgs = p.msgs, q.queue = p.queue, q.answers = p.answers, p.replies \subseteq q.replies
  PROVE  Follows(p, q, T)
<1>1. ChatsAreThere(q)
  BY DEF IsThread, ChatsAreThere
<1>2. \A t : Keeps(p, t) => Keeps(q, t)
  BY DEF Keeps
<1>3. IsThread(q)
  BY <1>1 DEF IsThread
<1> QED
  BY <1>2, <1>3 DEF Follows

\* One queue changes.
LEMMA QueueChanged ==
  ASSUME NEW p, IsThread(p), NEW q, HasFields(q), Shown(q), NEW T,
         q.open = p.open, q.chat = p.chat, q.msgs = p.msgs, q.answers = p.answers, q.replies = p.replies,
         NEW c \in Q!Places, NEW s \in Seq(Rows), q.queue = [p.queue EXCEPT ![c] = s],
         Q!Held(p.queue[c]) \subseteq Q!Held(s) \cup T
  PROVE  Follows(p, q, T)
<1>1. ChatsAreThere(q)
  BY DEF IsThread, ChatsAreThere
<1>2. Placed(q.queue, Rows) /\ q.queue[c] = s /\ \A d \in Q!Places : d # c => q.queue[d] = p.queue[d]
  BY DEF IsThread, Placed
<1>3. \A t : Keeps(p, t) => Keeps(q, t) \/ t \in T
  BY <1>2 DEF Keeps
<1>4. IsThread(q)
  BY <1>1, <1>2 DEF IsThread
<1> QED
  BY <1>3, <1>4 DEF Follows

\* The messages of one place change, and perhaps the state of a chat.
LEMMA MessagesChanged ==
  ASSUME NEW p, IsThread(p), NEW q, HasFields(q), Shown(q), ChatsAreThere(q), NEW T,
         \A x \in Threads : q.chat[x] = "done" => p.chat[x] # "paused",
         q.queue = p.queue, q.answers = p.answers, q.replies = p.replies,
         NEW c \in Q!Places, NEW s \in Seq(Notes), q.msgs = [p.msgs EXCEPT ![c] = s],
         Q!Held(p.msgs[c]) \subseteq Q!Held(s) \cup T
  PROVE  Follows(p, q, T)
<1>1. Placed(q.msgs, Notes) /\ q.msgs[c] = s /\ \A d \in Q!Places : d # c => q.msgs[d] = p.msgs[d]
  BY DEF IsThread, Placed
<1>2. \A t : Keeps(p, t) => Keeps(q, t) \/ t \in T
  BY <1>1 DEF Keeps
<1>3. IsThread(q)
  BY <1>1 DEF IsThread
<1> QED
  BY <1>2, <1>3 DEF Follows

\* The answers change.
LEMMA AnswersChanged ==
  ASSUME NEW p, IsThread(p), NEW q, HasFields(q), Shown(q), NEW T,
         q.open = p.open, q.chat = p.chat, q.msgs = p.msgs, q.queue = p.queue, q.replies = p.replies,
         q.answers \in Seq(Int), Q!ToSet(p.answers) \subseteq Q!ToSet(q.answers) \cup T
  PROVE  Follows(p, q, T)
<1>1. ChatsAreThere(q)
  BY DEF IsThread, ChatsAreThere
<1>2. \A t : Keeps(p, t) => Keeps(q, t) \/ t \in T
  BY DEF Keeps
<1>3. IsThread(q)
  BY <1>1 DEF IsThread
<1> QED
  BY <1>2, <1>3 DEF Follows

\* Two changes in one step, the first of which moves texts that the second keeps.
LEMMA TwoChanges ==
  ASSUME NEW p, NEW q, NEW r, NEW T, NEW U, Follows(p, q, T), q.chat = p.chat, Follows(q, r, U),
         \A t \in T : Keeps(r, t) \/ t \in U
  PROVE  Follows(p, r, U)
  BY DEF Follows

\* Messages are added at the end, in a place that shows them.
LEMMA Adding ==
  ASSUME NEW p, IsThread(p), NEW c \in Q!Places, NEW u \in Seq(Notes)
  PROVE  /\ p.msgs[c] \o u \in Seq(Notes) /\ Q!Held(p.msgs[c]) \cup Q!Held(u) \subseteq Q!Held(p.msgs[c] \o u)
         /\ \A q : q.msgs = [p.msgs EXCEPT ![c] = p.msgs[c] \o u] /\ q.open \in Q!Places \cup {"new"} /\ q.field \in Rows
                     /\ q.edit \in Int /\ q.at \in {0, p.at} => Shown(q)
<1>1. p.msgs[c] \in Seq(Notes) /\ p.msgs["issue"] \in Seq(Notes) /\ "issue" \in Q!Places /\ DOMAIN p.msgs = Q!Places
  BY DEF IsThread, Placed, Q!Places
<1>2. Len(p.msgs[c]) \in Nat /\ Len(u) \in Nat /\ Len(p.msgs["issue"]) \in Nat
  BY <1>1
<1>3. /\ p.msgs[c] \o u \in Seq(Notes) /\ Q!Held(p.msgs[c]) \cup Q!Held(u) \subseteq Q!Held(p.msgs[c] \o u)
      /\ Len(p.msgs[c] \o u) = Len(p.msgs[c]) + Len(u)
  BY <1>1, HeldJoined
<1> DEFINE s == p.msgs[c] \o u
<1>4. \A q : q.msgs = [p.msgs EXCEPT ![c] = s] => Len(q.msgs["issue"]) \in Nat /\ Len(q.msgs["issue"]) >= Len(p.msgs["issue"])
  <2> HIDE DEF s
  <2> SUFFICES ASSUME NEW q, q.msgs = [p.msgs EXCEPT ![c] = s]
               PROVE  Len(q.msgs["issue"]) \in Nat /\ Len(q.msgs["issue"]) >= Len(p.msgs["issue"])
    OBVIOUS
  <2>1. q.msgs["issue"] = IF c = "issue" THEN s ELSE p.msgs["issue"]
    BY <1>1
  <2>2. Len(s) \in Nat /\ Len(s) >= Len(p.msgs[c])
    BY <1>2, <1>3 DEF s
  <2> QED
    BY <1>2, <2>1, <2>2
<1>5. p.at \in 0 .. Len(p.msgs["issue"])
  BY DEF IsThread, Shown
<1>6. \A q : q.msgs = [p.msgs EXCEPT ![c] = s] /\ q.at \in {0, p.at} => q.at \in 0 .. Len(q.msgs["issue"])
  BY <1>2, <1>4, <1>5
<1> QED
  BY <1>3, <1>6 DEF Shown

\* What is written where.
LEMMA Placing ==
  /\ \A c \in Threads : c \in Q!Places /\ c # "issue" /\ c # "new"
  /\ "issue" \in Q!Places /\ None \notin Threads
  /\ \A c : c \in Q!Places => c = "issue" \/ c \in Threads
  BY WritingConstants DEF Q!Places, Q!ThreadQueueConstants

LEMMA Writing ==
  /\ Q!Empty \in Rows /\ Q!Canned \in Int /\ Q!Plan \in Int /\ Q!Blank \in Int
  /\ <<Q!Operator>> \in Seq(Notes)
  /\ \A t \in Int : <<Q!Mine(t)>> \in Seq(Notes) /\ t \in Q!Held(<<Q!Mine(t)>>)
  /\ \A t \in Int : <<Q!Mine(t), Q!Operator>> \in Seq(Notes) /\ t \in Q!Held(<<Q!Mine(t), Q!Operator>>)
<1>1. MaxThreadTexts \in Int
  BY WritingConstants DEF Q!ThreadQueueConstants
<1>2. Q!Operator \in Notes /\ \A t \in Int : Q!Mine(t) \in Notes /\ Q!Mine(t).text = t
  BY DEF Q!Operator, Q!Mine, Notes, Q!Blank
<1>3. ASSUME NEW t \in Int
      PROVE  /\ <<Q!Mine(t)>> \in Seq(Notes) /\ t \in Q!Held(<<Q!Mine(t)>>)
             /\ <<Q!Mine(t), Q!Operator>> \in Seq(Notes) /\ t \in Q!Held(<<Q!Mine(t), Q!Operator>>)
  <2> DEFINE m == Q!Mine(t)
  <2>1. m \in Notes /\ m.text = t
    BY <1>2
  <2> HIDE DEF m
  <2>2. <<m>> \in Seq(Notes) /\ Len(<<m>>) = 1 /\ <<m>>[1] = m
    BY <2>1
  <2>3. <<m, Q!Operator>> \in Seq(Notes) /\ Len(<<m, Q!Operator>>) = 2 /\ <<m, Q!Operator>>[1] = m
    BY <1>2, <2>1
  <2>4. t \in Q!Held(<<m>>) /\ t \in Q!Held(<<m, Q!Operator>>)
    BY <2>1, <2>2, <2>3 DEF Q!Held
  <2> QED
    BY <2>2, <2>3, <2>4 DEF m
<1>4. Q!Empty \in Rows /\ Q!Blank \in Int
  BY DEF Q!Empty, Q!Blank, Rows
<1>5. Q!Canned \in Int /\ Q!Plan \in Int
  BY <1>1 DEF Q!Canned, Q!Plan
<1>6. <<Q!Operator>> \in Seq(Notes)
  BY <1>2
<1> QED
  BY <1>3, <1>4, <1>5, <1>6

\* Messages are added in one place and every text stays.
LEMMA Posting ==
  ASSUME NEW p, IsThread(p), NEW c \in Q!Places, NEW u \in Seq(Notes), NEW q, HasFields(q), NEW T,
         q.msgs = [p.msgs EXCEPT ![c] = p.msgs[c] \o u],
         q.open \in Q!Places \cup {"new"}, q.field \in Rows, q.edit \in Int, q.at \in {0, p.at},
         ChatsAreThere(q), \A x \in Threads : q.chat[x] = "done" => p.chat[x] # "paused",
         q.queue = p.queue, q.answers = p.answers, q.replies = p.replies
  PROVE  Follows(p, q, T) /\ \A t \in Q!Held(u) : Keeps(q, t)
<1> DEFINE s == p.msgs[c] \o u
<1>1. s \in Seq(Notes) /\ Q!Held(p.msgs[c]) \cup Q!Held(u) \subseteq Q!Held(s) /\ Shown(q)
  BY Adding
<1>2. q.msgs = [p.msgs EXCEPT ![c] = s] /\ DOMAIN p.msgs = Q!Places
  BY DEF IsThread, Placed
<1> HIDE DEF s
<1>3. Follows(p, q, T)
  BY <1>1, <1>2, MessagesChanged
<1>4. q.msgs[c] = s
  BY <1>2
<1> QED
  BY <1>1, <1>3, <1>4 DEF Keeps

\* The same where the conversation is open, and no chat changes.
LEMMA PostingHere ==
  ASSUME NEW p, IsThread(p), NEW c \in Q!Places, c \in {"issue", p.open}, NEW u \in Seq(Notes), NEW q, HasFields(q),
         NEW T,
         q.msgs = [p.msgs EXCEPT ![c] = p.msgs[c] \o u], q.open = p.open, q.chat = p.chat,
         q.field \in Rows, q.edit \in Int, q.at \in {0, p.at},
         q.queue = p.queue, q.answers = p.answers, q.replies = p.replies
  PROVE  Follows(p, q, T) /\ \A t \in Q!Held(u) : Keeps(q, t)
<1> DEFINE s == p.msgs[c] \o u
<1>1. q.msgs = [p.msgs EXCEPT ![c] = s] /\ ChatsAreThere(p) /\ q.open \in Q!Places \cup {"new"}
      /\ DOMAIN p.msgs = Q!Places
  BY DEF IsThread, Shown, Placed
<1> HIDE DEF s
<1>2. \A x \in Threads : p.chat[x] = "absent" => x # c /\ q.msgs[x] = p.msgs[x]
  BY <1>1, Placing DEF ChatsAreThere
<1>3. ChatsAreThere(q)
  BY <1>1, <1>2 DEF ChatsAreThere
<1> QED
  BY <1>1, <1>3, Posting

\* What Send does, by the paths it takes.  On the issue the text is an answer, or a
\* message that the Operator answers.
LEMMA OnThreadFollows ==
  ASSUME NEW p, IsThread(p), NEW t \in Int, NEW q \in Q!OnThread(p, t)
  PROVE  Follows(p, q, {})
<1>1. p.answers \in Seq(Int) /\ Shown(p) /\ HasFields(p) /\ Q!Empty \in Rows
  BY Writing DEF IsThread
<1> DEFINE e == Q!Empty
<1>2. CASE Q!Asking(p)
  <2> DEFINE a == IF t \in Short THEN p.answers ELSE Append(p.answers, t)
  <2>1. q = [p EXCEPT !.answers = a, !.field = e]
    BY <1>2 DEF Q!OnThread
  <2>2. a \in Seq(Int) /\ Q!ToSet(p.answers) \subseteq Q!ToSet(a)
    BY <1>1, Appended DEF Q!ToSet, D!ToSet
  <2> HIDE DEF a, e
  <2>3. /\ HasFields(q) /\ q.answers = a /\ q.field = e /\ q.open = p.open /\ q.chat = p.chat /\ q.msgs = p.msgs
        /\ q.queue = p.queue /\ q.replies = p.replies /\ q.at = p.at /\ q.edit = p.edit
    BY <1>1, <2>1 DEF HasFields, ThreadFields
  <2>4. Shown(q)
    BY <1>1, <2>3 DEF Shown, e
  <2> QED
    BY <2>2, <2>3, <2>4, AnswersChanged
<1>3. CASE ~Q!Asking(p)
  <2> DEFINE u == <<Q!Mine(t), Q!Operator>>
  <2>1. q = [[p EXCEPT !.msgs["issue"] = p.msgs["issue"] \o u] EXCEPT !.field = e]
    BY <1>3 DEF Q!OnThread, Q!Said
  <2>2. u \in Seq(Notes)
    BY Writing
  <2> HIDE DEF u, e
  <2>3. /\ HasFields(q) /\ q.msgs = [p.msgs EXCEPT !["issue"] = p.msgs["issue"] \o u] /\ q.field = e
        /\ q.open = p.open /\ q.chat = p.chat /\ q.queue = p.queue /\ q.answers = p.answers
        /\ q.replies = p.replies /\ q.at = p.at /\ q.edit = p.edit
    BY <1>1, <2>1 DEF HasFields, ThreadFields
  <2>4. q.field \in Rows /\ q.edit \in Int
    BY <1>1, <2>3 DEF Shown, e
  <2> QED
    BY <2>2, <2>3, <2>4, PostingHere, Placing
<1> QED
  BY <1>2, <1>3

\* In a chat it is kept, or it is added to the chat, which may be a new one.
LEMMA OnPrivateFollows ==
  ASSUME NEW p, IsThread(p), p.open # "issue", NEW t \in Int, NEW q \in Q!OnPrivate(p, t)
  PROVE  Follows(p, q, {})
<1>1. Shown(p) /\ HasFields(p) /\ ChatsAreThere(p) /\ Q!Empty \in Rows /\ DOMAIN p.msgs = Q!Places
  BY Writing DEF IsThread, Placed
<1> DEFINE k == [text |-> t, files |-> FALSE]
           e == Q!Empty
           u == <<Q!Mine(t)>>
           into == Q!Into(p)
<1>2. k \in Rows /\ u \in Seq(Notes)
  BY Writing DEF Rows
<1>3. \/ q = [p EXCEPT !.field = k]
      \/ \E c \in into, s \in {"working", "credits"} :
           q = [[p EXCEPT !.msgs[c] = p.msgs[c] \o u] EXCEPT !.open = c, !.chat[c] = s, !.phase = s, !.field = e]
  <2>1. Q!OnPrivate(p, t) = IF p.phase = "working" THEN {[p EXCEPT !.field = k]}
                            ELSE {[p EXCEPT !.field = k]} \cup {Q!Posted(p, t, c, s) : c \in into, s \in {"working", "credits"}}
    BY DEF Q!OnPrivate, Q!Into
  <2>2. q = [p EXCEPT !.field = k] \/ \E c \in into, s \in {"working", "credits"} : q = Q!Posted(p, t, c, s)
    <3> HIDE DEF k, into
    <3> QED
      BY <2>1
  <2> QED
    BY <2>2 DEF Q!Posted, Q!Said
<1>4. CASE q = [p EXCEPT !.field = k]
  <2>1. /\ HasFields(q) /\ q.field = k /\ q.open = p.open /\ q.chat = p.chat /\ q.msgs = p.msgs
        /\ q.queue = p.queue /\ q.answers = p.answers /\ q.replies = p.replies /\ q.at = p.at /\ q.edit = p.edit
    BY <1>1, <1>4 DEF HasFields, ThreadFields
  <2>2. Shown(q)
    BY <1>1, <1>2, <2>1 DEF Shown
  <2>3. q.open \in Threads => p.chat[q.open] # "absent"
    BY <1>1, <2>1 DEF ChatsAreThere
  <2> QED
    BY <2>1, <2>2, <2>3, QuietPage
<1>5. ASSUME NEW c, c \in Threads, NEW s, s \in {"working", "credits"},
             q = [[p EXCEPT !.msgs[c] = p.msgs[c] \o u] EXCEPT !.open = c, !.chat[c] = s, !.phase = s, !.field = e]
      PROVE  Follows(p, q, {})
  <2>1. /\ HasFields(q) /\ q.msgs = [p.msgs EXCEPT ![c] = p.msgs[c] \o u] /\ q.open = c
        /\ q.chat = [p.chat EXCEPT ![c] = s] /\ q.field = e /\ q.queue = p.queue /\ q.answers = p.answers
        /\ q.replies = p.replies /\ q.at = p.at /\ q.edit = p.edit
    BY <1>1, <1>5 DEF HasFields, ThreadFields
  <2>2. c \in Q!Places
    BY <1>5, Placing
  <2>3. /\ q.chat[c] = s /\ \A x \in Threads : x # c => q.chat[x] = p.chat[x]
        /\ DOMAIN q.chat = Threads /\ q.chat = [x \in Threads |-> q.chat[x]]
    BY <1>1, <1>5, <2>1 DEF ChatsAreThere
  <2>4. \A x \in Threads : x # c => q.msgs[x] = p.msgs[x]
    BY <1>1, <2>1, Placing
  <2>5. ChatsAreThere(q)
    BY <1>1, <1>5, <2>1, <2>3, <2>4 DEF ChatsAreThere
  <2>6. q.field \in Rows /\ q.edit \in Int
    BY <1>1, <2>1 DEF Shown, e
  <2>7. \A x \in Threads : q.chat[x] = "done" => p.chat[x] # "paused"
    BY <1>5, <2>3
  <2> QED
    BY <1>2, <2>1, <2>2, <2>5, <2>6, <2>7, Posting
<1>6. \A c \in into : c \in Threads
  BY <1>1, Placing DEF Shown, Q!Into
<1> QED
  BY <1>3, <1>4, <1>5, <1>6

LEMMA Standing == ASSUME NEW p, IsThread(p) PROVE Follows(p, p, {})
<1>1. Shown(p) /\ HasFields(p) /\ (p.open \in Threads => p.chat[p.open] # "absent")
  BY DEF IsThread, ChatsAreThere
<1> QED
  BY <1>1, QuietPage

LEMMA PlainFollows ==
  ASSUME NEW p, IsThread(p), NEW q \in Q!Plain(p)
  PROVE  Follows(p, q, {})
<1>1. p.field \in Rows
  BY DEF IsThread, Shown
<1>2. Q!Text(p) \in Int /\ Q!Canned \in Int
  BY <1>1, Writing DEF Q!Text, Rows
<1>3. q = p \/ \E t \in Int : q \in Q!OnThread(p, t) \/ (p.open # "issue" /\ q \in Q!OnPrivate(p, t))
  BY <1>2 DEF Q!Plain, Q!OnIssue
<1> QED
  BY <1>3, Standing, OnThreadFollows, OnPrivateFollows

\* The page after a step of the field only.
LEMMA FieldChanged ==
  ASSUME NEW p, IsThread(p), NEW x \in Rows, NEW q, q = [p EXCEPT !.field = x], NEW T
  PROVE  Follows(p, q, T) /\ q.chat = p.chat
<1>1. HasFields(p) /\ Shown(p) /\ (p.open \in Threads => p.chat[p.open] # "absent")
  BY DEF IsThread, ChatsAreThere
<1>2. /\ HasFields(q) /\ q.field = x /\ q.open = p.open /\ q.chat = p.chat /\ q.msgs = p.msgs
      /\ q.queue = p.queue /\ q.answers = p.answers /\ q.replies = p.replies /\ q.at = p.at /\ q.edit = p.edit
  BY <1>1 DEF HasFields, ThreadFields
<1>3. Shown(q)
  BY <1>1, <1>2 DEF Shown
<1> QED
  BY <1>1, <1>2, <1>3, QuietPage

LEMMA Blanked == ASSUME NEW x \in Rows, NEW t \in Int PROVE [x EXCEPT !.text = t] \in Rows
  BY DEF Rows

LEMMA PlannedFollows ==
  ASSUME NEW p, IsThread(p), NEW q \in Q!Planned(p)
  PROVE  Follows(p, q, {})
<1>0. HasFields(p) /\ Shown(p) /\ ChatsAreThere(p)
  BY DEF IsThread
<1>1. CASE p.open # "new"
  <2> DEFINE t == Q!Text(p)
             c == p.open
             u == <<Q!Mine(t), Q!Operator>>
             x == [p.field EXCEPT !.text = Q!Blank]
  <2>1. q = [[p EXCEPT !.msgs[c] = p.msgs[c] \o u] EXCEPT !.field = x]
    <3>1. q = [Q!Said(p, c, u) EXCEPT !.field.text = Q!Blank]
      BY <1>1 DEF Q!Planned
    <3>2. Q!Said(p, c, u).field = p.field
      BY <1>0 DEF Q!Said, HasFields, ThreadFields
    <3>3. [Q!Said(p, c, u) EXCEPT !.field.text = Q!Blank] = [Q!Said(p, c, u) EXCEPT !.field = x]
      BY <3>2
    <3> QED
      BY <3>1, <3>3 DEF Q!Said
  <2>2. t \in Int /\ x \in Rows /\ c \in Q!Places
    BY <1>0, <1>1, Writing, Blanked DEF Shown, Q!Text, Rows
  <2>3. u \in Seq(Notes)
    BY <2>2, Writing
  <2> HIDE DEF t, u, x
  <2>4. /\ HasFields(q) /\ q.msgs = [p.msgs EXCEPT ![c] = p.msgs[c] \o u] /\ q.field = x
        /\ q.open = p.open /\ q.chat = p.chat /\ q.queue = p.queue /\ q.answers = p.answers
        /\ q.replies = p.replies /\ q.at = p.at /\ q.edit = p.edit
    BY <1>0, <2>1 DEF HasFields, ThreadFields
  <2> QED
    BY <1>0, <2>2, <2>3, <2>4, PostingHere DEF Shown
<1>2. CASE p.open = "new"
  <2>1. PICK r \in Q!Plain(p) : q = IF r.open = "new" THEN [r EXCEPT !.field.text = Q!Blank]
                                    ELSE [r EXCEPT !.chat[r.open] = "paused", !.field.text = Q!Blank]
    BY <1>2 DEF Q!Planned
  <2>2. IsThread(r) /\ Follows(p, r, {})
    BY PlainFollows DEF Follows
  <2> DEFINE x == [r.field EXCEPT !.text = Q!Blank]
             d == [r.chat EXCEPT ![r.open] = "paused"]
  <2>3. x \in Rows /\ HasFields(r) /\ Shown(r) /\ ChatsAreThere(r)
    BY <2>2, Writing, Blanked DEF IsThread, Shown
  <2>4. CASE r.open = "new"
    <3>1. q = [r EXCEPT !.field = x]
      BY <2>1, <2>4
    <3> HIDE DEF x
    <3>2. Follows(r, q, {}) /\ q.chat = r.chat
      BY <2>2, <2>3, <3>1, FieldChanged
    <3> QED
      BY <2>2, <3>2 DEF Follows
  <2>5. CASE r.open # "new"
    <3>1. q = [r EXCEPT !.chat = d, !.field = x]
      BY <2>1, <2>5
    <3>2. DOMAIN d = Threads /\ d = [c \in Threads |-> d[c]]
          /\ \A c \in Threads : d[c] = r.chat[c] \/ (c = r.open /\ d[c] = "paused")
      BY <2>3 DEF ChatsAreThere
    <3> HIDE DEF x, d
    <3>3. /\ HasFields(q) /\ q.field = x /\ q.open = r.open /\ q.chat = d /\ q.msgs = r.msgs
          /\ q.queue = r.queue /\ q.answers = r.answers /\ q.replies = r.replies /\ q.at = r.at /\ q.edit = r.edit
      BY <2>3, <3>1 DEF HasFields, ThreadFields
    <3>4. Shown(q)
      BY <2>3, <3>3 DEF Shown
    <3>5. ChatsAreThere(q)
      BY <2>3, <3>2, <3>3 DEF ChatsAreThere
    <3>6. IsThread(q) /\ \A t : Keeps(r, t) => Keeps(q, t)
      BY <2>2, <3>3, <3>4, <3>5 DEF IsThread, Keeps
    <3>7. \A c \in Threads : q.chat[c] = "done" => r.chat[c] = "done"
      BY <3>2, <3>3
    <3> QED
      BY <2>2, <3>6, <3>7 DEF Follows
  <2> QED
    BY <2>4, <2>5
<1> QED
  BY <1>1, <1>2

\* Every page that Send may lead to keeps every text of the page before it.
LEMMA SentFollows ==
  ASSUME NEW p, IsThread(p), NEW q \in Q!Sent(p)
  PROVE  Follows(p, q, {})
<1>0. HasFields(p) /\ Shown(p) /\ ChatsAreThere(p) /\ (p.open \in Threads => p.chat[p.open] # "absent")
  BY DEF IsThread, ChatsAreThere
<1> DEFINE x == [p.field EXCEPT !.text = Q!Blank]
<1>1. x \in Rows /\ p.field \in Rows /\ Q!Empty \in Rows
  BY <1>0, Writing, Blanked DEF Shown
<1>2. CASE q \in Q!ReplySent(p)
  <2> DEFINE y == p.replies \cup {Q!Text(p)}
  <2>1. q = [p EXCEPT !.replies = y, !.reply = FALSE, !.field = x]
    BY <1>2 DEF Q!ReplySent
  <2>2. p.replies \subseteq y
    OBVIOUS
  <2> HIDE DEF x, y
  <2>3. /\ HasFields(q) /\ q.field = x /\ q.open = p.open /\ q.chat = p.chat /\ q.msgs = p.msgs
        /\ q.queue = p.queue /\ q.answers = p.answers /\ q.replies = y /\ q.at = p.at /\ q.edit = p.edit
    BY <1>0, <2>1 DEF HasFields, ThreadFields
  <2>4. Shown(q)
    BY <1>0, <1>1, <2>3 DEF Shown
  <2> QED
    BY <1>0, <2>2, <2>3, <2>4, QuietPage
<1>3. CASE q \in Q!Command(p)
  <2> DEFINE y == p.plan \cup {p.open}
  <2>1. q = [p EXCEPT !.plan = y, !.field = x]
    BY <1>3 DEF Q!Command
  <2> HIDE DEF x, y
  <2>3. /\ HasFields(q) /\ q.field = x /\ q.open = p.open /\ q.chat = p.chat /\ q.msgs = p.msgs
        /\ q.queue = p.queue /\ q.answers = p.answers /\ q.replies = p.replies /\ q.at = p.at /\ q.edit = p.edit
    BY <1>0, <2>1 DEF HasFields, ThreadFields
  <2>4. Shown(q)
    BY <1>0, <1>1, <2>3 DEF Shown
  <2> QED
    BY <1>0, <2>3, <2>4, QuietPage
<1>4. CASE Q!Running(p) /\ q \in Q!Queued(p)
  <2> DEFINE c == p.open
             s == Append(p.queue[c], p.field)
             e == Q!Empty
  <2>1. q = [[p EXCEPT !.queue = [p.queue EXCEPT ![c] = s]] EXCEPT !.field = e]
    BY <1>4 DEF Q!Queued
  <2>2. c \in Q!Places
    BY <1>4, Placing DEF Q!Running, Q!OnIssue
  <2>3. p.queue[c] \in Seq(Rows)
    BY <2>2 DEF IsThread, Placed
  <2>4. s \in Seq(Rows) /\ Q!Held(p.queue[c]) \subseteq Q!Held(s)
    BY <1>1, <2>3, HeldAppended
  <2>5. e \in Rows
    BY <1>1
  <2> HIDE DEF s, e
  <2>6. /\ HasFields(q) /\ q.field = e /\ q.open = p.open /\ q.chat = p.chat /\ q.msgs = p.msgs
        /\ q.queue = [p.queue EXCEPT ![c] = s] /\ q.answers = p.answers /\ q.replies = p.replies
        /\ q.at = p.at /\ q.edit = p.edit
    BY <1>0, <2>1 DEF HasFields, ThreadFields
  <2>7. Shown(q)
    BY <1>0, <2>5, <2>6 DEF Shown
  <2> QED
    BY <2>2, <2>4, <2>6, <2>7, QueueChanged
<1> QED
  BY <1>2, <1>3, <1>4, PlannedFollows, PlainFollows DEF Q!Sent
-------------------------------------------------------------------------------
\* What the markup of the thread offers: a row of the queue, a message or a chat
\* that is there; to stop, to steer and to resume in a conversation; an edit form
\* over a message of the issue.
LEMMA QueueControlled ==
  ASSUME NEW s, NEW c \in Q!QueueControls(s)
  PROVE  /\ c[1] \in {"move", "pullBack", "steerRow", "remove", "clearQueue"}
         /\ c[1] # "clearQueue" => c[2] \in 1 .. Len(s)
         /\ c[1] = "move" => c[3] \in 1 .. Len(s)
<1>1. CASE c = <<"clearQueue">>
  BY <1>1
<1>2. CASE c # <<"clearQueue">>
  <2>1. PICK i \in 1 .. Len(s) :
          \/ i > 1 /\ c = <<"move", i, i - 1>>
          \/ i < Len(s) /\ c = <<"move", i, i + 1>>
          \/ c \in {<<"pullBack", i>>, <<"steerRow", i>>, <<"remove", i>>}
    <3>0. c \in Q!AllRows(s)
      BY <1>2 DEF Q!QueueControls
    <3>1. PICK i \in 1 .. Len(s) : c \in Q!RowControls(s, i)
      BY <3>0 DEF Q!AllRows
    <3> QED
      BY <3>1 DEF Q!RowControls
  <2> QED
    BY <2>1
<1> QED
  BY <1>1, <1>2

LEMMA OfferedByTheThread ==
  ASSUME IsThread(thread), NEW c \in Q!Offered
  PROVE  /\ c[1] \in {"move", "pullBack", "steerRow", "remove", "clearQueue"} =>
              /\ thread.open \in Q!Places
              /\ c[1] # "clearQueue" => c[2] \in 1 .. Len(thread.queue[thread.open])
              /\ c[1] = "move" => c[3] \in 1 .. Len(thread.queue[thread.open])
         /\ c[1] \in {"steer", "stop"} => thread.open \in Q!Places
         /\ c[1] = "resume" => thread.open \in Threads
         /\ c[1] = "editMessage" => thread.open = "issue" /\ c[2] \in 1 .. Len(thread.msgs["issue"])
         /\ c[1] = "editPrompt" => thread.open \in Threads /\ c[2] \in 1 .. Len(thread.msgs[thread.open])
         /\ c[1] = "fork" => thread.open \in Q!Places /\ c[2] \in 1 .. Len(thread.msgs[thread.open])
         /\ c[1] = "openChat" => c[2] \in Threads /\ thread.chat[c[2]] # "absent"
         /\ c[1] \in {"editQueue", "editSteer", "editSend"} => thread.open = "issue" /\ thread.at # 0
<1> DEFINE G(x) ==
         /\ x[1] \in {"move", "pullBack", "steerRow", "remove", "clearQueue"} =>
              /\ thread.open \in Q!Places
              /\ x[1] # "clearQueue" => x[2] \in 1 .. Len(thread.queue[thread.open])
              /\ x[1] = "move" => x[3] \in 1 .. Len(thread.queue[thread.open])
         /\ x[1] \in {"steer", "stop"} => thread.open \in Q!Places
         /\ x[1] = "resume" => thread.open \in Threads
         /\ x[1] = "editMessage" => thread.open = "issue" /\ x[2] \in 1 .. Len(thread.msgs["issue"])
         /\ x[1] = "editPrompt" => thread.open \in Threads /\ x[2] \in 1 .. Len(thread.msgs[thread.open])
         /\ x[1] = "fork" => thread.open \in Q!Places /\ x[2] \in 1 .. Len(thread.msgs[thread.open])
         /\ x[1] = "openChat" => x[2] \in Threads /\ thread.chat[x[2]] # "absent"
         /\ x[1] \in {"editQueue", "editSteer", "editSend"} => thread.open = "issue" /\ thread.at # 0
<1>1. Shown(thread) /\ (Q!OnIssue(thread) <=> thread.open = "issue")
  BY DEF IsThread, Q!OnIssue
<1>2. Q!Running(thread) => thread.open \in Q!Places
  BY Placing DEF Q!Running, Q!OnIssue
<1>3. \A x \in Q!OwnMessages : thread.open \in Q!Places /\ x \in 1 .. Len(thread.msgs[thread.open])
  BY <1>1 DEF Q!OwnMessages, Q!Msgs, Shown
<1>4. ASSUME NEW x \in Q!QueueControls(Q!Queue) PROVE G(x)
  <2>1. CASE thread.open = "new"
    <3>1. Q!Queue = <<>> /\ Len(<<>>) = 0
      BY <2>1 DEF Q!Queue
    <3> QED
      BY <3>1 DEF Q!QueueControls, Q!AllRows
  <2>2. CASE thread.open # "new"
    <3>1. Q!Queue = thread.queue[thread.open] /\ thread.open \in Q!Places
      BY <1>1, <2>2 DEF Q!Queue, Shown
    <3> QED
      BY <3>1, QueueControlled
  <2> QED
    BY <2>1, <2>2
<1>5. \A x \in Q!ThreadQueueRows \cup Q!ChatQueueRows : G(x)
  BY <1>4 DEF Q!ThreadQueueRows, Q!ChatQueueRows
<1>6. \A x \in Q!MessageActions : G(x)
  BY <1>1, <1>3 DEF Q!MessageActions
<1>7. \A x \in Q!EditForm : G(x)
  BY <1>1 DEF Q!EditForm
<1>8. \A x \in Q!ChatMessages : G(x)
  BY <1>1, <1>3 DEF Q!ChatMessages
<1>9. \A x \in Q!ThreadStop \cup Q!ChatStop : G(x)
  BY <1>2 DEF Q!ThreadStop, Q!ChatStop
<1>10. \A x \in Q!ChatPaused : G(x)
  BY Placing DEF Q!ChatPaused
<1>11. \A x \in Q!Conversations : G(x)
  BY DEF Q!Conversations, Q!Exists
<1>12. \A x \in Q!ForkDialog \cup Q!ScenarioActions \cup Q!Decision \cup Q!StageRows \cup Q!ThreadReply : G(x)
  BY DEF Q!ForkDialog, Q!ScenarioActions, Q!Decision, Q!StageRows, Q!ThreadReply
<1>13. \A x \in Q!ThreadForm \cup Q!ChatForm \cup Q!PlanBar \cup Q!ChatPlanBar : G(x)
  BY DEF Q!ThreadForm, Q!ChatForm, Q!FieldControls, Q!PlanBar, Q!ChatPlanBar
<1>14. \A x \in Q!ThreadSend \cup Q!ChatSend \cup Q!StatusMenu \cup Q!Welcome : G(x)
  BY DEF Q!ThreadSend, Q!ChatSend, Q!StatusMenu, Q!Welcome
<1> HIDE DEF G
<1>15. G(c)
  BY <1>5, <1>6, <1>7, <1>8, <1>9, <1>10, <1>11, <1>12, <1>13, <1>14 DEF Q!Offered
<1> QED
  BY <1>15 DEF G

\* A step of the thread: the next page follows, the timer is not that of a chat
\* that was stopped, and what is away stays away or is kept again.
Walks(T) ==
  /\ Q!Goes(thread') \/ UNCHANGED <<thread, given>>
  /\ Follows(thread, thread', T)
  /\ due' \in Threads \cup {None} /\ stopped' \subseteq Threads /\ due' \notin stopped'
  /\ rest' \in [texts : Int, steps : Int]

ThreadStep ==
  /\ Walks(Away') /\ soon' \in Seq(Callbacks)
  /\ \A t \in Away : Keeps(thread', t) \/ t \in Away'

\* Most steps set no callback.
LEMMA StepAtOnce ==
  ASSUME ThreadInv, Walks(back'), back \subseteq back', Q!AtOnce
  PROVE  ThreadStep
<1>1. UNCHANGED <<soon, missed>> /\ Q!Underway' = Q!Underway /\ back' \subseteq Away'
  BY DEF Q!AtOnce, Q!Underway, Away
<1>2. Away \subseteq Away' /\ soon' \in Seq(Callbacks)
  BY <1>1 DEF Away, ThreadInv, ThreadTypes
<1>3. Follows(thread, thread', Away')
  BY <1>1 DEF Walks, Follows
<1> QED
  BY <1>2, <1>3 DEF Walks, ThreadStep

LEMMA Paying ==
  ASSUME ThreadInv
  PROVE  /\ Q!Bounded \/ Q!Spend \/ rest' = [rest EXCEPT !.texts = @ - 1] => rest' \in [texts : Int, steps : Int]
         /\ MaxThreadTexts + 1 - rest.texts \in Int
  BY WritingConstants DEF ThreadInv, ThreadTypes, Q!Bounded, Q!Spend, Q!ThreadQueueConstants

LEMMA QuietTimer ==
  ASSUME ThreadInv, UNCHANGED <<due, stopped>>
  PROVE  due' \in Threads \cup {None} /\ stopped' \subseteq Threads /\ due' \notin stopped'
  BY DEF ThreadInv, ThreadTypes

\* Typing, dictating, files, a quotation, a suggestion.
LEMMA FieldKeepsTexts ==
  ASSUME ThreadInv, NEW c, Q!Type(c) \/ Q!Files(c) \/ Q!Dictate(c) \/ Q!Fill(c)
  PROVE  ThreadStep
<1>1. IsThread(thread) /\ thread.field \in Rows
  BY DEF ThreadInv, ThreadTypes, IsThread, Shown
<1>2. UNCHANGED <<due, stopped, back>> /\ Q!AtOnce /\ rest' \in [texts : Int, steps : Int]
  BY Paying DEF Q!Type, Q!Files, Q!Dictate, Q!Fill, Q!Quietly
<1>3. /\ Q!Goes(thread')
      /\ \/ \E t \in Int : thread' = [thread EXCEPT !.field.text = t]
         \/ \E b \in BOOLEAN : thread' = [thread EXCEPT !.field.files = b]
  <2>1. Q!Blank \in Int /\ Q!Canned \in Int /\ Q!Plan \in Int /\ MaxThreadTexts + 1 - rest.texts \in Int
    BY Writing, Paying
  <2>2. ASSUME Q!Type(c) PROVE Q!Goes(thread') /\ \E t \in Int : thread' = [thread EXCEPT !.field.text = t]
    BY <2>1, <2>2 DEF Q!Type, Q!Goes
  <2>3. ASSUME Q!Files(c) PROVE Q!Goes(thread') /\ \E b \in BOOLEAN : thread' = [thread EXCEPT !.field.files = b]
    <3>1. Q!Goes([thread EXCEPT !.field.files = (c[1] = "attach")])
      BY <2>3 DEF Q!Files
    <3>2. (c[1] = "attach") \in BOOLEAN
      OBVIOUS
    <3> QED
      BY <3>1, <3>2 DEF Q!Goes
  <2>4. ASSUME Q!Dictate(c) \/ Q!Fill(c) PROVE Q!Goes(thread') /\ \E t \in Int : thread' = [thread EXCEPT !.field.text = t]
    BY <2>1, <2>4 DEF Q!Dictate, Q!Fill, Q!Goes
  <2> QED
    BY <2>2, <2>3, <2>4
<1>4. \E x \in Rows : thread' = [thread EXCEPT !.field = x]
  <2>1. ASSUME NEW t \in Int, thread' = [thread EXCEPT !.field.text = t]
        PROVE  \E x \in Rows : thread' = [thread EXCEPT !.field = x]
    <3>1. [thread.field EXCEPT !.text = t] \in Rows /\ thread' = [thread EXCEPT !.field = [thread.field EXCEPT !.text = t]]
      BY <1>1, <2>1, Blanked
    <3> QED
      BY <3>1
  <2>2. ASSUME NEW b \in BOOLEAN, thread' = [thread EXCEPT !.field.files = b]
        PROVE  \E x \in Rows : thread' = [thread EXCEPT !.field = x]
    <3>1. [thread.field EXCEPT !.files = b] \in Rows
      BY <1>1 DEF Rows
    <3>2. thread' = [thread EXCEPT !.field = [thread.field EXCEPT !.files = b]]
      BY <2>2
    <3> QED
      BY <3>1, <3>2
  <2> QED
    BY <1>3, <2>1, <2>2
<1>5. Follows(thread, thread', back')
  BY <1>1, <1>4, FieldChanged
<1> QED
  BY <1>2, <1>3, <1>5, QuietTimer, StepAtOnce DEF Walks

\* Marks, moves, the edit form, the status and the pages: nothing kept is touched.
LEMMA MovingKeepsTexts ==
  ASSUME ThreadInv, NEW c \in Q!Offered,
         \/ Q!Reply(c) \/ Q!Build(c) \/ Q!EditMessage(c) \/ Q!EditText(c) \/ Q!EditCancel(c) \/ Q!ChangeStatus(c)
         \/ Q!OpenIssue(c) \/ Q!OpenChat(c) \/ Q!NewChat(c) \/ Q!OpenFork(c) \/ Q!CancelFork(c) \/ Q!Resume(c)
  PROVE  ThreadStep
<1> DEFINE p == thread
           q == thread'
<1>1. IsThread(p) /\ HasFields(p) /\ Shown(p) /\ ChatsAreThere(p) /\ Q!Empty \in Rows /\ Q!Blank \in Int
      /\ Len(p.msgs["issue"]) \in Nat
  <2>1. p.msgs["issue"] \in Seq(Notes)
    BY Placing DEF ThreadInv, ThreadTypes, IsThread, Placed
  <2> QED
    BY <2>1, Writing DEF ThreadInv, ThreadTypes, IsThread
<1>2. rest' \in [texts : Int, steps : Int]
  BY Paying DEF Q!Reply, Q!Build, Q!EditMessage, Q!EditText, Q!EditCancel, Q!ChangeStatus, Q!OpenIssue, Q!OpenChat,
     Q!NewChat, Q!OpenFork, Q!CancelFork, Q!Resume
<1>3. due' \in Threads \cup {None} /\ stopped' \subseteq Threads /\ due' \notin stopped' /\ UNCHANGED back /\ Q!AtOnce
  <2>1. ASSUME Q!Resume(c)
        PROVE  due' \in Threads /\ stopped' \subseteq Threads /\ due' \notin stopped' /\ UNCHANGED back /\ Q!AtOnce
    <3>1. thread.open \in Threads
      BY <1>1, <2>1, OfferedByTheThread DEF Q!Resume
    <3> QED
      BY <2>1, <3>1 DEF Q!Resume, ThreadInv, ThreadTypes
  <2>2. ASSUME ~Q!Resume(c) PROVE Q!Quietly
    BY <2>2 DEF Q!Reply, Q!Build, Q!EditMessage, Q!EditText, Q!EditCancel, Q!ChangeStatus, Q!OpenIssue, Q!OpenChat,
       Q!NewChat, Q!OpenFork, Q!CancelFork
  <2> QED
    BY <2>1, <2>2, QuietTimer DEF Q!Quietly
<1>4. Q!Goes(q)
  BY DEF Q!Goes, Q!Reply, Q!Build, Q!EditMessage, Q!EditText, Q!EditCancel, Q!ChangeStatus, Q!OpenIssue, Q!OpenChat,
     Q!NewChat, Q!OpenFork, Q!CancelFork, Q!Resume
<1> DEFINE Same == /\ HasFields(q) /\ q.chat = p.chat /\ q.msgs = p.msgs /\ q.queue = p.queue
                   /\ q.answers = p.answers /\ q.replies = p.replies
<1>5. ASSUME Q!Reply(c) \/ Q!Build(c) \/ Q!ChangeStatus(c) \/ Q!OpenFork(c) \/ Q!CancelFork(c) \/ Q!Resume(c)
      PROVE  Same /\ q.open = p.open /\ q.field = p.field /\ q.at = p.at /\ q.edit = p.edit
  <2>1. \/ \E x : q = [p EXCEPT !.reply = x]
        \/ \E x : q = [p EXCEPT !.plan = x]
        \/ \E x, y : q = [p EXCEPT !.status = x, !.resolved = y]
        \/ \E x : q = [p EXCEPT !.dialog = x]
        \/ \E x : q = [p EXCEPT !.phase = x]
    BY <1>5, Zenon DEF Q!Goes, Q!Reply, Q!Build, Q!ChangeStatus, Q!OpenFork, Q!CancelFork, Q!Resume
  <2> QED
    BY <1>1, <2>1 DEF HasFields, ThreadFields
<1>6. ASSUME Q!EditMessage(c)
      PROVE  Same /\ q.open = p.open /\ q.field = p.field /\ q.at \in 0 .. Len(p.msgs["issue"]) /\ q.edit \in Int
  <2>1. p.open = "issue" /\ c[2] \in 1 .. Len(p.msgs["issue"])
    BY <1>1, <1>6, OfferedByTheThread DEF Q!EditMessage
  <2>2. Q!Msgs = p.msgs["issue"] /\ p.msgs["issue"] \in Seq(Notes)
    BY <1>1, <2>1, Placing DEF Q!Msgs, IsThread, Placed
  <2> DEFINE x == c[2]
             y == Q!Msgs[c[2]].text
  <2>3. q = [p EXCEPT !.at = x, !.edit = y]
    BY <1>6 DEF Q!EditMessage, Q!Goes
  <2>4. y \in Int
    <3>1. p.msgs["issue"][x] \in Notes
      BY <2>1, <2>2
    <3>2. y = p.msgs["issue"][x].text
      BY <2>2
    <3> QED
      BY <3>1, <3>2 DEF Notes
  <2>5. x \in 0 .. Len(p.msgs["issue"])
    BY <1>1, <2>1
  <2> HIDE DEF x, y
  <2> QED
    BY <1>1, <2>3, <2>4, <2>5 DEF HasFields, ThreadFields
<1>7. ASSUME Q!EditText(c)
      PROVE  Same /\ q.open = p.open /\ q.field = p.field /\ q.at = p.at /\ q.edit \in Int
  <2> DEFINE y == MaxThreadTexts + 1 - rest.texts
  <2>1. q = [p EXCEPT !.edit = y] /\ y \in Int
    BY <1>7, Paying DEF Q!EditText, Q!Goes
  <2> HIDE DEF y
  <2> QED
    BY <1>1, <2>1 DEF HasFields, ThreadFields
<1>8. ASSUME Q!EditCancel(c)
      PROVE  Same /\ q.open = p.open /\ q.field = p.field /\ q.at = 0 /\ q.edit = Q!Blank
  BY <1>1, <1>8 DEF Q!EditCancel, Q!Goes, Q!NoEdit, HasFields, ThreadFields
<1>9. ASSUME Q!OpenIssue(c) \/ Q!OpenChat(c) \/ Q!NewChat(c)
      PROVE  /\ Same /\ q.field = Q!Empty /\ q.at = 0 /\ q.edit = Q!Blank
             /\ q.open \in Q!Places \cup {"new"} /\ (q.open \in Threads => p.chat[q.open] # "absent")
  <2> DEFINE e == Q!Empty
             f == [[p EXCEPT !.at = 0, !.edit = Q!Blank] EXCEPT !.field = e, !.reply = FALSE]
  <2>1. Q!Fresh(p) = f
    BY DEF Q!Fresh, Q!NoEdit
  <2>2. \E o, x : q = [f EXCEPT !.open = o, !.phase = x] /\ o \in Q!Places \cup {"new"}
                   /\ (o \in Threads => p.chat[o] # "absent")
    <3>1. ASSUME Q!OpenIssue(c) PROVE q = [f EXCEPT !.open = "issue", !.phase = f.phase]
      <4>1. q = [f EXCEPT !.open = "issue"]
        BY <2>1, <3>1 DEF Q!OpenIssue, Q!Goes
      <4> HIDE DEF e
      <4>2. HasFields(f)
        BY <1>1 DEF HasFields, ThreadFields
      <4> HIDE DEF f
      <4> QED
        BY <4>1, <4>2 DEF HasFields, ThreadFields
    <3>2. ASSUME Q!OpenChat(c) PROVE q = [f EXCEPT !.open = c[2], !.phase = p.chat[c[2]]]
      BY <2>1, <3>2 DEF Q!OpenChat, Q!Loaded, Q!Goes
    <3>3. ASSUME Q!OpenChat(c) PROVE c[2] \in Threads /\ p.chat[c[2]] # "absent"
      BY <1>1, <3>3, OfferedByTheThread DEF Q!OpenChat
    <3>4. ASSUME Q!NewChat(c) PROVE q = [f EXCEPT !.open = "new", !.phase = "empty"]
      BY <2>1, <3>4 DEF Q!NewChat, Q!Goes
    <3> HIDE DEF f
    <3> QED
      BY <1>9, <3>1, <3>2, <3>3, <3>4, Placing
  <2> HIDE DEF e
  <2> QED
    BY <1>1, <2>2 DEF HasFields, ThreadFields, e
<1>10. Shown(p) /\ (p.open \in Threads => p.chat[p.open] # "absent") /\ 0 \in 0 .. Len(p.msgs["issue"])
  BY <1>1 DEF ChatsAreThere
<1> HIDE DEF Same
<1>11. Same /\ Shown(q) /\ (q.open \in Threads => p.chat[q.open] # "absent")
  <2>1. ASSUME Q!Reply(c) \/ Q!Build(c) \/ Q!ChangeStatus(c) \/ Q!OpenFork(c) \/ Q!CancelFork(c) \/ Q!Resume(c)
               \/ Q!EditMessage(c) \/ Q!EditText(c) \/ Q!EditCancel(c)
        PROVE  Same /\ Shown(q) /\ (q.open \in Threads => p.chat[q.open] # "absent")
    BY <1>1, <1>5, <1>6, <1>7, <1>8, <1>10, <2>1 DEF Shown, Same
  <2>2. ASSUME Q!OpenIssue(c) \/ Q!OpenChat(c) \/ Q!NewChat(c)
        PROVE  Same /\ Shown(q) /\ (q.open \in Threads => p.chat[q.open] # "absent")
    BY <1>1, <1>9, <1>10, <2>2 DEF Shown, Same
  <2> QED
    BY <2>1, <2>2
<1>12. Follows(p, q, back')
  BY <1>1, <1>11, QuietPage DEF Same
<1> QED
  BY <1>2, <1>3, <1>4, <1>12, StepAtOnce DEF Walks

\* The queue: moved in it, taken out of it, or put in it by the edit form.
LEMMA QueueKeepsTexts ==
  ASSUME ThreadInv, NEW c \in Q!Offered,
         Q!Move(c) \/ Q!Unqueue(c) \/ Q!PullBack(c) \/ Q!EditQueue(c)
  PROVE  ThreadStep
<1> DEFINE p == thread
           q == thread'
           o == p.open
<1>1. IsThread(p) /\ HasFields(p) /\ Shown(p) /\ Placed(p.queue, Rows)
  BY DEF ThreadInv, ThreadTypes, IsThread
<1>2. rest' \in [texts : Int, steps : Int] /\ UNCHANGED <<due, stopped>> /\ back \subseteq back' /\ Q!AtOnce
  BY Paying DEF Q!Move, Q!Unqueue, Q!PullBack, Q!EditQueue, Q!Quietly, Q!Takes
<1>3. Q!Goes(q) /\ o \in Q!Places
  BY <1>1, Placing, OfferedByTheThread DEF Q!Goes, Q!Move, Q!Unqueue, Q!PullBack, Q!EditQueue
<1>4. p.queue[o] \in Seq(Rows) /\ Q!Queue = p.queue[o]
  BY <1>1, <1>3, Placing DEF Placed, Q!Queue
<1>5. \E s \in Seq(Rows) : /\ Q!Held(p.queue[o]) \subseteq Q!Held(s) \cup back'
                           /\ \/ q = [p EXCEPT !.queue = [p.queue EXCEPT ![o] = s]]
                              \/ \E x \in Rows : q = [p EXCEPT !.queue = [p.queue EXCEPT ![o] = s], !.field = x]
                              \/ q = [p EXCEPT !.queue = [p.queue EXCEPT ![o] = s], !.at = 0, !.edit = Q!Blank]
  <2>1. CASE Q!Move(c)
    <3> DEFINE s == Q!Swapped(p.queue[o], c[2], c[3])
    <3>1. s \in Seq(Rows) /\ Q!Held(p.queue[o]) \subseteq Q!Held(s)
      BY <1>1, <1>4, <2>1, OfferedByTheThread, HeldSwapped DEF Q!Move
    <3>2. q = [p EXCEPT !.queue = [p.queue EXCEPT ![o] = s]]
      BY <2>1 DEF Q!Move, Q!Goes
    <3> HIDE DEF s
    <3> QED
      BY <3>1, <3>2
  <2>2. CASE Q!Unqueue(c)
    <3> DEFINE s == IF c[1] = "remove" THEN Q!Without(p.queue[o], c[2]) ELSE <<>>
    <3>1. q = [p EXCEPT !.queue = [p.queue EXCEPT ![o] = s]]
      BY <2>2 DEF Q!Unqueue, Q!Goes
    <3>2. s \in Seq(Rows) /\ Q!Held(p.queue[o]) \subseteq Q!Held(s) \cup back'
      <4>1. CASE c[1] = "remove"
        <5>1. c[2] \in 1 .. Len(p.queue[o])
          BY <1>1, <4>1, OfferedByTheThread
        <5>2. s = Q!Without(p.queue[o], c[2]) /\ p.queue[o][c[2]].text \in back'
          BY <1>4, <2>2, <4>1 DEF Q!Unqueue, Q!Takes
        <5> HIDE DEF s
        <5> QED
          BY <1>4, <5>1, <5>2, HeldWithout
      <4>2. CASE c[1] # "remove"
        BY <1>4, <2>2, <4>2 DEF Q!Unqueue, Q!Takes
      <4> QED
        BY <4>1, <4>2
    <3> HIDE DEF s
    <3> QED
      BY <3>1, <3>2
  <2>3. CASE Q!PullBack(c)
    <3> DEFINE s == Q!Without(p.queue[o], c[2])
               x == p.queue[o][c[2]]
    <3>1. q = [p EXCEPT !.queue = [p.queue EXCEPT ![o] = s], !.field = x]
      BY <1>4, <2>3 DEF Q!PullBack, Q!Goes
    <3>2. c[2] \in 1 .. Len(p.queue[o])
      BY <1>1, <2>3, OfferedByTheThread DEF Q!PullBack
    <3>3. x \in Rows /\ x.text \in back'
      BY <1>4, <2>3, <3>2 DEF Q!PullBack, Q!Takes
    <3>4. s \in Seq(Rows) /\ Q!Held(p.queue[o]) \subseteq Q!Held(s) \cup {x.text}
      BY <1>4, <3>2, HeldWithout
    <3> HIDE DEF s, x
    <3> QED
      BY <3>1, <3>3, <3>4
  <2>4. CASE Q!EditQueue(c)
    <3> DEFINE r == [text |-> p.edit, files |-> FALSE]
               s == Append(p.queue[o], r)
    <3>1. o = "issue"
      BY <1>1, <2>4, OfferedByTheThread DEF Q!EditQueue
    <3>2. q = [[p EXCEPT !.queue = [p.queue EXCEPT ![o] = s]] EXCEPT !.at = 0, !.edit = Q!Blank]
      BY <2>4, <3>1 DEF Q!EditQueue, Q!NoEdit, Q!Goes
    <3>3. r \in Rows
      BY <1>1 DEF Shown, Rows
    <3>4. s \in Seq(Rows) /\ Q!Held(p.queue[o]) \subseteq Q!Held(s)
      <4> HIDE DEF r
      <4> QED
        BY <1>4, <3>3, HeldAppended
    <3> HIDE DEF r, s
    <3> QED
      BY <3>2, <3>4
  <2> QED
    BY <2>1, <2>2, <2>3, <2>4
<1>6. PICK s \in Seq(Rows) : /\ Q!Held(p.queue[o]) \subseteq Q!Held(s) \cup back'
                             /\ \/ q = [p EXCEPT !.queue = [p.queue EXCEPT ![o] = s]]
                                \/ \E x \in Rows : q = [p EXCEPT !.queue = [p.queue EXCEPT ![o] = s], !.field = x]
                                \/ q = [p EXCEPT !.queue = [p.queue EXCEPT ![o] = s], !.at = 0, !.edit = Q!Blank]
  BY <1>5
<1>7. Q!Blank \in Int /\ 0 \in 0 .. Len(p.msgs["issue"])
  BY <1>1, Writing DEF Shown
<1>8. /\ HasFields(q) /\ q.queue = [p.queue EXCEPT ![o] = s] /\ q.open = o /\ q.chat = p.chat /\ q.msgs = p.msgs
      /\ q.answers = p.answers /\ q.replies = p.replies
      /\ q.field = p.field \/ q.field \in Rows
      /\ q.at \in {0, p.at} /\ q.edit \in {Q!Blank, p.edit}
  BY <1>1, <1>6 DEF HasFields, ThreadFields
<1>9. Shown(q)
  BY <1>1, <1>7, <1>8 DEF Shown
<1>10. Follows(p, q, back')
  BY <1>1, <1>3, <1>6, <1>8, <1>9, QueueChanged
<1> QED
  BY <1>2, <1>3, <1>10, QuietTimer, StepAtOnce DEF Walks

\* A note in the thread, which empties the field.
LEMMA SteeredFollows ==
  ASSUME NEW p, IsThread(p), p.open \in Q!Places, NEW t \in Int, NEW T
  PROVE  LET q == Q!Steered(p, t)
         IN  Follows(p, q, T) /\ Keeps(q, t) /\ q.chat = p.chat
<1> DEFINE q == Q!Steered(p, t)
           c == p.open
           u == <<Q!Mine(t)>>
           x == [p.field EXCEPT !.text = Q!Blank]
<1>0. HasFields(p) /\ Shown(p)
  BY DEF IsThread
<1>1. q = [[p EXCEPT !.msgs[c] = p.msgs[c] \o u] EXCEPT !.field = x]
  <2>1. q = [Q!Said(p, c, u) EXCEPT !.field.text = Q!Blank]
    BY DEF Q!Steered
  <2>2. Q!Said(p, c, u).field = p.field
    BY <1>0 DEF Q!Said, HasFields, ThreadFields
  <2>3. [Q!Said(p, c, u) EXCEPT !.field.text = Q!Blank] = [Q!Said(p, c, u) EXCEPT !.field = x]
    BY <2>2
  <2> QED
    BY <2>1, <2>3 DEF Q!Said
<1>2. x \in Rows /\ u \in Seq(Notes) /\ t \in Q!Held(u) /\ p.edit \in Int
  BY <1>0, Writing, Blanked DEF Shown
<1> HIDE DEF u, x, q
<1>3. /\ HasFields(q) /\ q.msgs = [p.msgs EXCEPT ![c] = p.msgs[c] \o u] /\ q.field = x
      /\ q.open = p.open /\ q.chat = p.chat /\ q.queue = p.queue /\ q.answers = p.answers
      /\ q.replies = p.replies /\ q.at = p.at /\ q.edit = p.edit
  BY <1>0, <1>1 DEF HasFields, ThreadFields
<1>4. Follows(p, q, T) /\ Keeps(q, t)
  BY <1>2, <1>3, PostingHere
<1> QED
  BY <1>3, <1>4 DEF q

\* The page without the edit form.
LEMMA NoEditFollows ==
  ASSUME NEW p, IsThread(p), NEW T
  PROVE  LET q == Q!NoEdit(p)
         IN  /\ Follows(p, q, T) /\ q.chat = p.chat
             /\ q.open = p.open /\ q.msgs = p.msgs /\ q.queue = p.queue /\ q.answers = p.answers
             /\ q.replies = p.replies /\ q.field = p.field /\ q.at = 0 /\ q.edit = Q!Blank /\ HasFields(q)
<1> DEFINE q == Q!NoEdit(p)
<1>1. HasFields(p) /\ Shown(p) /\ (p.open \in Threads => p.chat[p.open] # "absent") /\ Q!Blank \in Int
  BY Writing DEF IsThread, ChatsAreThere
<1>2. /\ HasFields(q) /\ q.at = 0 /\ q.edit = Q!Blank /\ q.field = p.field /\ q.open = p.open /\ q.chat = p.chat
      /\ q.msgs = p.msgs /\ q.queue = p.queue /\ q.answers = p.answers /\ q.replies = p.replies
  BY <1>1 DEF Q!NoEdit, HasFields, ThreadFields
<1> HIDE DEF q
<1>3. Shown(q)
  BY <1>1, <1>2 DEF Shown
<1> QED
  BY <1>1, <1>2, <1>3, QuietPage DEF q

\* A row leaves the queue and its text is on its way.
LEMMA RowGoesAway ==
  ASSUME ThreadInv, NEW c \in Q!Offered, Q!SteerRow(c)
  PROVE  ThreadStep
<1> DEFINE p == thread
           q == thread'
           o == p.open
<1>1. IsThread(p) /\ HasFields(p) /\ Shown(p) /\ Placed(p.queue, Rows)
  BY DEF ThreadInv, ThreadTypes, IsThread
<1>2. rest' \in [texts : Int, steps : Int] /\ UNCHANGED <<due, stopped, back, missed>> /\ Q!Goes(q)
  BY Paying DEF Q!SteerRow, Q!Goes
<1>3. o \in Q!Places
  BY <1>1, Placing, OfferedByTheThread DEF Q!SteerRow
<1> DEFINE t == p.queue[o][c[2]].text
           s == Q!Without(p.queue[o], c[2])
           e == [what |-> "steer", text |-> t]
<1>4. p.queue[o] \in Seq(Rows) /\ Q!Queue = p.queue[o] /\ c[2] \in 1 .. Len(p.queue[o])
  BY <1>1, <1>3, Placing, OfferedByTheThread DEF Placed, Q!Queue, Q!SteerRow
<1>5. q = [p EXCEPT !.queue = [p.queue EXCEPT ![o] = s]] /\ soon' = Append(soon, e)
  BY <1>4 DEF Q!SteerRow, Q!Goes, Q!Later
<1>6. s \in Seq(Rows) /\ Q!Held(p.queue[o]) \subseteq Q!Held(s) \cup {t} /\ t \in Int
  <2>1. p.queue[o][c[2]] \in Rows
    BY <1>4
  <2>2. t \in Int
    BY <2>1 DEF Rows
  <2> QED
    BY <1>4, <2>2, HeldWithout
<1>7. e \in Callbacks /\ e.what = "steer" /\ e.text = t
  BY <1>6 DEF Callbacks
<1> HIDE DEF s, t, e
<1>8. soon' \in Seq(Callbacks) /\ Q!Underway \subseteq Q!Underway' /\ t \in Q!Underway'
  BY <1>5, <1>7, UnderwaySet DEF ThreadInv, ThreadTypes
<1>9. /\ HasFields(q) /\ q.queue = [p.queue EXCEPT ![o] = s] /\ q.open = o /\ q.chat = p.chat /\ q.msgs = p.msgs
      /\ q.answers = p.answers /\ q.replies = p.replies /\ q.field = p.field /\ q.at = p.at /\ q.edit = p.edit
  BY <1>1, <1>5 DEF HasFields, ThreadFields
<1>10. Shown(q)
  BY <1>1, <1>9 DEF Shown
<1>11. Away \subseteq Away' /\ t \in Away'
  BY <1>2, <1>8 DEF Away
<1>12. Follows(p, q, Away')
  BY <1>1, <1>3, <1>6, <1>9, <1>10, <1>11, QueueChanged
<1> QED
  BY <1>2, <1>8, <1>11, <1>12, QuietTimer DEF ThreadStep, Walks

\* Steering from the field and from the edit form.
LEMMA SteeringKeepsTexts ==
  ASSUME ThreadInv, NEW c \in Q!Offered, Q!Steer(c) \/ Q!EditSteer(c)
  PROVE  ThreadStep
<1> DEFINE p == thread
           q == thread'
           o == p.open
<1>1. IsThread(p) /\ HasFields(p) /\ Shown(p) /\ Placed(p.queue, Rows)
  BY DEF ThreadInv, ThreadTypes, IsThread
<1>2. rest' \in [texts : Int, steps : Int] /\ UNCHANGED <<due, stopped, back>> /\ Q!AtOnce /\ Q!Goes(q)
  BY Paying DEF Q!Steer, Q!EditSteer, Q!Quietly, Q!Goes
<1>3. o \in Q!Places
  BY <1>1, Placing, OfferedByTheThread DEF Q!Steer, Q!EditSteer
<1>4. CASE Q!Steer(c)
  <2>1. q = Q!Steered(p, p.field.text) /\ p.field.text \in Int
    BY <1>1, <1>4 DEF Q!Steer, Q!Goes, Shown, Rows
  <2>2. Follows(p, q, back')
    BY <1>1, <1>3, <2>1, SteeredFollows
  <2> QED
    BY <1>2, <2>2, QuietTimer, StepAtOnce DEF Walks
<1>5. CASE Q!EditSteer(c)
  <2> DEFINE r == IF p.edit = Q!Blank THEN p ELSE Q!Steered(p, p.edit)
  <2>1. q = Q!NoEdit(r) /\ p.edit \in Int
    BY <1>1, <1>5 DEF Q!EditSteer, Q!Goes, Shown
  <2>2. Follows(p, r, {}) /\ r.chat = p.chat
    BY <1>1, <1>3, <2>1, SteeredFollows, Standing
  <2> HIDE DEF r
  <2>3. Follows(r, q, back')
    <3>1. IsThread(r)
      BY <2>2 DEF Follows
    <3> QED
      BY <2>1, <3>1, NoEditFollows
  <2>4. Follows(p, q, back')
    BY <2>2, <2>3, TwoChanges
  <2> QED
    BY <1>2, <2>4, QuietTimer, StepAtOnce DEF Walks
<1> QED
  BY <1>4, <1>5

\* The answers of the decision, and the message that tells them.
LEMMA AnswersKeepTexts ==
  ASSUME ThreadInv, NEW c, Q!PickOption(c) \/ Q!EditAnswers(c) \/ Q!ContinueDecision(c)
  PROVE  ThreadStep
<1> DEFINE p == thread
           q == thread'
<1>1. IsThread(p) /\ HasFields(p) /\ Shown(p) /\ p.answers \in Seq(Int) /\ Q!Canned \in Int
  BY Writing DEF ThreadInv, ThreadTypes, IsThread
<1>2. rest' \in [texts : Int, steps : Int] /\ UNCHANGED <<due, stopped>> /\ back \subseteq back' /\ Q!AtOnce /\ Q!Goes(q)
  BY Paying DEF Q!PickOption, Q!EditAnswers, Q!ContinueDecision, Q!Quietly, Q!Goes, Q!Takes
<1>3. CASE Q!PickOption(c) \/ Q!EditAnswers(c)
  <2> DEFINE a == IF Q!PickOption(c) THEN Append(p.answers, Q!Canned) ELSE <<>>
  <2>1. q = [p EXCEPT !.answers = a]
    BY <1>3 DEF Q!PickOption, Q!EditAnswers, Q!Goes
  <2>2. a \in Seq(Int) /\ Q!ToSet(p.answers) \subseteq Q!ToSet(a) \cup back'
    <3>1. CASE Q!PickOption(c)
      BY <1>1, <3>1, Appended DEF Q!ToSet, D!ToSet
    <3>2. CASE ~Q!PickOption(c)
      BY <1>3, <3>2 DEF Q!EditAnswers, Q!Takes
    <3> QED
      BY <3>1, <3>2
  <2> HIDE DEF a
  <2>3. /\ HasFields(q) /\ q.answers = a /\ q.field = p.field /\ q.open = p.open /\ q.chat = p.chat
        /\ q.msgs = p.msgs /\ q.queue = p.queue /\ q.replies = p.replies /\ q.at = p.at /\ q.edit = p.edit
    BY <1>1, <2>1 DEF HasFields, ThreadFields
  <2>4. Shown(q)
    BY <1>1, <2>3 DEF Shown
  <2>5. Follows(p, q, back')
    BY <1>1, <2>2, <2>3, <2>4, AnswersChanged
  <2> QED
    BY <1>2, <2>5, QuietTimer, StepAtOnce DEF Walks
<1>4. CASE Q!ContinueDecision(c)
  <2> DEFINE u == <<Q!Mine(Q!Blank), Q!Operator>>
  <2>1. u \in Seq(Notes) /\ p.field \in Rows /\ p.edit \in Int
    BY <1>1, Writing DEF Shown
  <2>2. \E s : q = [[p EXCEPT !.msgs["issue"] = p.msgs["issue"] \o u] EXCEPT !.resolved = TRUE, !.status = s]
    BY <1>4 DEF Q!ContinueDecision, Q!Goes, Q!Said
  <2> HIDE DEF u
  <2>3. /\ HasFields(q) /\ q.msgs = [p.msgs EXCEPT !["issue"] = p.msgs["issue"] \o u]
        /\ q.answers = p.answers /\ q.field = p.field /\ q.open = p.open /\ q.chat = p.chat
        /\ q.queue = p.queue /\ q.replies = p.replies /\ q.at = p.at /\ q.edit = p.edit
    BY <1>1, <2>2 DEF HasFields, ThreadFields
  <2>4. Follows(p, q, back')
    BY <1>1, <2>1, <2>3, Placing, PostingHere
  <2> QED
    BY <1>2, <2>4, QuietTimer, StepAtOnce DEF Walks
<1> QED
  BY <1>3, <1>4

\* An edit cuts the thread before a message; what followed it is taken back.
\* The new text of a message of an issue comes from a callback.
LEMMA EditCutsTheThread ==
  ASSUME ThreadInv, NEW c \in Q!Offered, Q!EditSend(c)
  PROVE  ThreadStep
<1> DEFINE p == thread
           q == thread'
           o == p.open
           k == p.at
           s == SubSeq(p.msgs[o], 1, k - 1)
           g == Q!Held(SubSeq(p.msgs[o], k, Len(p.msgs[o])))
           e == [what |-> "fill", text |-> p.edit]
<1>1. IsThread(p) /\ HasFields(p) /\ Shown(p) /\ ChatsAreThere(p) /\ Placed(p.msgs, Notes) /\ Q!Blank \in Int
  BY Writing DEF ThreadInv, ThreadTypes, IsThread
<1>2. rest' \in [texts : Int, steps : Int] /\ UNCHANGED <<due, stopped, missed>> /\ Q!Goes(q)
  BY Paying DEF Q!EditSend, Q!Goes
<1>3. o = "issue" /\ k # 0
  BY <1>1, OfferedByTheThread DEF Q!EditSend
<1>4. o \in Q!Places /\ p.msgs[o] \in Seq(Notes) /\ Q!Msgs = p.msgs[o] /\ Len(p.msgs[o]) \in Nat
  <2>1. o \in Q!Places /\ o # "new"
    BY <1>3, Placing
  <2>2. p.msgs[o] \in Seq(Notes)
    BY <1>1, <2>1 DEF Placed
  <2> QED
    BY <2>1, <2>2 DEF Q!Msgs
<1>5. k \in 1 .. Len(p.msgs[o])
  BY <1>1, <1>3, <1>4 DEF Shown
<1>6. s \in Seq(Notes) /\ Q!Held(p.msgs[o]) \subseteq Q!Held(s) \cup g
  BY <1>4, <1>5, HeldCut
<1>7. back' = back \cup g /\ soon' = Append(soon, e)
  BY <1>4 DEF Q!EditSend, Q!Takes, Q!Later
<1>8. q = [p EXCEPT !.msgs = [p.msgs EXCEPT ![o] = s], !.at = 0, !.edit = Q!Blank]
  <2>1. q = Q!NoEdit([p EXCEPT !.msgs["issue"] = s])
    BY <1>3, <1>4 DEF Q!EditSend, Q!Goes, Q!Kept
  <2> HIDE DEF s
  <2> QED
    BY <1>3, <2>1 DEF Q!NoEdit
<1>9. e \in Callbacks /\ e.what # "steer"
  BY <1>1 DEF Callbacks, Shown
<1> HIDE DEF s, g, e
<1>10. soon' \in Seq(Callbacks) /\ Away \subseteq Away' /\ g \subseteq Away'
  <2>1. soon' \in Seq(Callbacks) /\ Q!Underway \subseteq Q!Underway'
    BY <1>7, <1>9, UnderwaySet DEF ThreadInv, ThreadTypes
  <2> QED
    BY <1>2, <1>7, <2>1 DEF Away
<1>11. /\ HasFields(q) /\ q.msgs = [p.msgs EXCEPT ![o] = s] /\ q.field = p.field /\ q.at = 0 /\ q.edit = Q!Blank
       /\ q.open = o /\ q.chat = p.chat /\ q.queue = p.queue /\ q.answers = p.answers /\ q.replies = p.replies
  BY <1>1, <1>8 DEF HasFields, ThreadFields
<1>12. q.msgs[o] = s /\ \A d \in Threads : q.msgs[d] = p.msgs[d]
  BY <1>1, <1>3, <1>11, Placing DEF Placed
<1>13. Shown(q) /\ ChatsAreThere(q)
  <2>1. Len(s) \in Nat
    BY <1>6
  <2> QED
    BY <1>1, <1>3, <1>11, <1>12, <2>1 DEF Shown, ChatsAreThere
<1>14. Q!Held(p.msgs[o]) \subseteq Q!Held(s) \cup Away'
  BY <1>6, <1>10
<1>15. Follows(p, q, Away')
  <2>1. \A d \in Threads : q.chat[d] = "done" => p.chat[d] # "paused"
    BY <1>11
  <2> QED
    BY <1>1, <1>4, <1>6, <1>11, <1>13, <1>14, <2>1, MessagesChanged
<1> QED
  BY <1>2, <1>10, <1>15, QuietTimer DEF ThreadStep, Walks

\* In a chat the edited text takes the message's place at once.
LEMMA EditCutsTheChat ==
  ASSUME ThreadInv, NEW c \in Q!Offered, Q!EditPrompt(c)
  PROVE  ThreadStep
<1> DEFINE p == thread
           q == thread'
           o == p.open
           k == c[2]
           s == SubSeq(p.msgs[o], 1, k - 1)
           g == Q!Held(SubSeq(p.msgs[o], k, Len(p.msgs[o])))
<1>1. IsThread(p) /\ HasFields(p) /\ Shown(p) /\ ChatsAreThere(p) /\ Placed(p.msgs, Notes)
  BY DEF ThreadInv, ThreadTypes, IsThread
<1>2. /\ rest' \in [texts : Int, steps : Int] /\ UNCHANGED <<due, stopped>> /\ Q!AtOnce /\ Q!Goes(q)
      /\ MaxThreadTexts + 1 - rest.texts \in Int
  BY Paying DEF Q!EditPrompt, Q!Goes
<1>4. o \in Threads /\ c[2] \in 1 .. Len(p.msgs[o])
  BY <1>1, OfferedByTheThread DEF Q!EditPrompt
<1>5. o \in Q!Places /\ p.msgs[o] \in Seq(Notes) /\ Q!Msgs = p.msgs[o] /\ Len(p.msgs[o]) \in Nat
  <2>1. o \in Q!Places /\ o # "new"
    BY <1>4, Placing
  <2>2. p.msgs[o] \in Seq(Notes)
    BY <1>1, <2>1 DEF Placed
  <2> QED
    BY <2>1, <2>2 DEF Q!Msgs
<1>7. s \in Seq(Notes) /\ Q!Held(p.msgs[o]) \subseteq Q!Held(s) \cup g
  BY <1>4, <1>5, HeldCut
<1>8. back' = back \cup g
  BY <1>5 DEF Q!EditPrompt, Q!Takes
<1> DEFINE t == MaxThreadTexts + 1 - rest.texts
           u == <<Q!Mine(t), Q!Operator>>
           m == s \o u
           d == [p.chat EXCEPT ![o] = "paused"]
<1>11. q = [[p EXCEPT !.msgs = [p.msgs EXCEPT ![o] = m]] EXCEPT !.chat = d]
  <2>1. q = [p EXCEPT !.msgs[o] = m, !.chat[o] = "paused"]
    BY <1>5 DEF Q!EditPrompt, Q!Goes, Q!Kept
  <2>2. [p EXCEPT !.msgs = [p.msgs EXCEPT ![o] = m]].chat = p.chat
    BY <1>1 DEF HasFields, ThreadFields
  <2>3. q = [[p EXCEPT !.msgs = [p.msgs EXCEPT ![o] = m]] EXCEPT !.chat[o] = "paused"]
    BY <2>1
  <2> HIDE DEF m
  <2> QED
    BY <2>2, <2>3
<1>12. u \in Seq(Notes) /\ o \in Threads
  BY <1>2, <1>4, Writing
<1>13. m \in Seq(Notes) /\ Q!Held(s) \subseteq Q!Held(m)
  <2> HIDE DEF s, u
  <2> QED
    BY <1>7, <1>12, HeldJoined
<1>14. /\ DOMAIN d = Threads /\ d = [x \in Threads |-> d[x]] /\ d[o] = "paused"
      /\ \A x \in Threads : x # o => d[x] = p.chat[x]
  BY <1>1, <1>12 DEF ChatsAreThere
<1> HIDE DEF m, d, g
<1>15. /\ HasFields(q) /\ q.msgs = [p.msgs EXCEPT ![o] = m] /\ q.chat = d /\ q.field = p.field /\ q.at = p.at
      /\ q.edit = p.edit /\ q.open = o /\ q.queue = p.queue /\ q.answers = p.answers /\ q.replies = p.replies
  BY <1>1, <1>11 DEF HasFields, ThreadFields
<1>16. q.msgs["issue"] = p.msgs["issue"] /\ \A x \in Threads : x # o => q.msgs[x] = p.msgs[x]
  BY <1>1, <1>12, <1>15, Placing DEF Placed
<1>17. Shown(q) /\ ChatsAreThere(q) /\ \A x \in Threads : q.chat[x] = "done" => p.chat[x] # "paused"
  BY <1>1, <1>12, <1>14, <1>15, <1>16 DEF Shown, ChatsAreThere
<1>18. Q!Held(p.msgs[o]) \subseteq Q!Held(m) \cup back'
  BY <1>7, <1>8, <1>13
<1>19. Follows(p, q, back')
  BY <1>1, <1>5, <1>13, <1>15, <1>17, <1>18, MessagesChanged
<1> QED
  BY <1>2, <1>8, <1>19, QuietTimer, StepAtOnce DEF Walks

\* A fork is a chat that was absent: there is nothing that its messages replace.
LEMMA ForkingKeepsTexts ==
  ASSUME ThreadInv, NEW c \in Q!Offered, Q!Fork(c) \/ Q!ConfirmFork(c)
  PROVE  ThreadStep
<1> DEFINE p == thread
           q == thread'
           e == Q!Empty
<1>1. IsThread(p) /\ HasFields(p) /\ Shown(p) /\ ChatsAreThere(p) /\ Placed(p.msgs, Notes) /\ e \in Rows /\ Q!Blank \in Int
  BY Writing DEF ThreadInv, ThreadTypes, IsThread
<1>2. rest' \in [texts : Int, steps : Int] /\ UNCHANGED <<due, stopped, back>> /\ Q!AtOnce /\ Q!Goes(q)
  BY Paying DEF Q!Fork, Q!ConfirmFork, Q!Quietly, Q!Goes
<1>3. PICK d \in Threads, s \in Seq(Notes), a \in {"paused", "done"}, b \in {p.dialog, FALSE} :
        /\ p.chat[d] = "absent"
        /\ q = Q!Loaded([[p EXCEPT !.chat[d] = a, !.msgs[d] = s] EXCEPT !.dialog = b], d)
  <2>1. CASE Q!Fork(c)
    <3>1. p.open \in Q!Places /\ c[2] \in 1 .. Len(p.msgs[p.open])
      BY <1>1, <2>1, OfferedByTheThread DEF Q!Fork
    <3>2. p.msgs[p.open] \in Seq(Notes) /\ Q!Msgs = p.msgs[p.open]
      BY <1>1, <3>1, Placing DEF Placed, Q!Msgs
    <3> DEFINE s == SubSeq(Q!Msgs, 1, c[2])
    <3>3. s \in Seq(Notes)
      BY <3>1, <3>2
    <3>4. PICK d \in Threads : /\ p.chat[d] = "absent"
                               /\ q = Q!Loaded([p EXCEPT !.chat[d] = "paused", !.msgs[d] = s], d)
      BY <2>1 DEF Q!Fork, Q!Goes, Q!Exists
    <3> HIDE DEF s
    <3>5. [p EXCEPT !.chat[d] = "paused", !.msgs[d] = s] = [[p EXCEPT !.chat[d] = "paused", !.msgs[d] = s] EXCEPT !.dialog = p.dialog]
      <4> DEFINE f == [p EXCEPT !.chat[d] = "paused", !.msgs[d] = s]
      <4>1. HasFields(f) /\ f.dialog = p.dialog
        BY <1>1 DEF HasFields, ThreadFields
      <4> HIDE DEF f
      <4>2. f = [f EXCEPT !.dialog = p.dialog]
        BY <4>1 DEF HasFields, ThreadFields
      <4> QED
        BY <4>2 DEF f
    <3> QED
      BY <3>3, <3>4, <3>5
  <2>2. CASE Q!ConfirmFork(c)
    <3>1. PICK d \in Threads :
            /\ p.chat[d] = "absent"
            /\ q = Q!Loaded([p EXCEPT !.chat[d] = "done", !.msgs[d] = <<Q!Operator>>, !.dialog = FALSE], d)
      BY <2>2 DEF Q!ConfirmFork, Q!Goes, Q!Exists
    <3> DEFINE s == <<Q!Operator>>
    <3>2. s \in Seq(Notes)
      BY Writing
    <3> HIDE DEF s
    <3>3. q = Q!Loaded([[p EXCEPT !.chat[d] = "done", !.msgs[d] = s] EXCEPT !.dialog = FALSE], d)
      BY <3>1 DEF s
    <3> QED
      BY <3>1, <3>2, <3>3
  <2> QED
    BY <2>1, <2>2
<1> DEFINE f == [p.chat EXCEPT ![d] = a]
           m == [p.msgs EXCEPT ![d] = s]
<1>4. q = [[p EXCEPT !.chat = f, !.msgs = m, !.dialog = b] EXCEPT
             !.at = 0, !.edit = Q!Blank, !.field = e, !.reply = FALSE, !.open = d, !.phase = f[d]]
  <2> DEFINE r == [p EXCEPT !.chat = f, !.msgs = m, !.dialog = b]
  <2>1. r = [[p EXCEPT !.chat[d] = a, !.msgs[d] = s] EXCEPT !.dialog = b]
    OBVIOUS
  <2>2. r.chat = f
    <3> HIDE DEF f, m
    <3> QED
      BY <1>1 DEF HasFields, ThreadFields
  <2> HIDE DEF r
  <2> QED
    BY <1>3, <2>1, <2>2 DEF Q!Loaded, Q!Fresh, Q!NoEdit, r
<1>5. /\ f[d] = a /\ (\A x \in Threads : x # d => f[x] = p.chat[x]) /\ DOMAIN f = Threads
      /\ f = [x \in Threads |-> f[x]]
  BY <1>1 DEF ChatsAreThere
<1>6. d \in Q!Places /\ m["issue"] = p.msgs["issue"] /\ \A x \in Threads : x # d => m[x] = p.msgs[x]
  BY <1>1, Placing DEF Placed
<1> HIDE DEF e, f
<1>7. /\ HasFields(q) /\ q.msgs = m /\ q.chat = f /\ q.field = e /\ q.at = 0
      /\ q.edit = Q!Blank /\ q.open = d /\ q.queue = p.queue /\ q.answers = p.answers /\ q.replies = p.replies
  <2> HIDE DEF m
  <2> QED
    BY <1>1, <1>4 DEF HasFields, ThreadFields
<1>8. Shown(q)
  <2>1. 0 \in 0 .. Len(q.msgs["issue"])
    BY <1>1, <1>6, <1>7 DEF Shown
  <2> QED
    BY <1>1, <1>6, <1>7, <2>1 DEF Shown
<1>9. ChatsAreThere(q) /\ \A x \in Threads : q.chat[x] = "done" => p.chat[x] # "paused"
  <2>1. a # "absent" /\ q.chat[d] = a
    BY <1>3, <1>5, <1>7
  <2>2. \A x \in Threads : x # d => q.chat[x] = p.chat[x] /\ q.msgs[x] = p.msgs[x]
    BY <1>5, <1>6, <1>7
  <2>3. \A x \in Threads : q.chat[x] = "absent" => q.open # x /\ q.msgs[x] = <<>>
    BY <1>1, <1>7, <2>1, <2>2 DEF ChatsAreThere
  <2>4. \A x \in Threads : q.chat[x] = "done" => p.chat[x] # "paused"
    <3>1. p.chat[d] # "paused"
      BY <1>3
    <3> QED
      BY <2>2, <3>1
  <2>5. DOMAIN q.chat = Threads /\ q.chat = [x \in Threads |-> q.chat[x]]
    BY <1>5, <1>7
  <2> QED
    BY <2>3, <2>4, <2>5 DEF ChatsAreThere
<1>10. Q!Held(p.msgs[d]) = {}
  <2>1. p.msgs[d] = <<>> /\ Len(<<>>) = 0
    BY <1>1, <1>3 DEF ChatsAreThere
  <2> QED
    BY <2>1 DEF Q!Held
<1>11. q.msgs = [p.msgs EXCEPT ![d] = s] /\ Q!Held(p.msgs[d]) \subseteq Q!Held(s) \cup back'
  BY <1>7, <1>10
<1> HIDE DEF m
<1>12. Follows(p, q, back')
  BY <1>1, <1>6, <1>7, <1>8, <1>9, <1>11, MessagesChanged
<1> QED
  BY <1>2, <1>12, QuietTimer, StepAtOnce DEF Walks

\* Stop pauses the issue or the chat, and a stopped chat has no timer.
LEMMA StoppingKeepsTexts ==
  ASSUME ThreadInv, NEW c \in Q!Offered, Q!Stop(c)
  PROVE  ThreadStep
<1> DEFINE p == thread
           q == thread'
           f == IF p.open = "issue" THEN p.chat ELSE [p.chat EXCEPT ![p.open] = "paused"]
<1>1. IsThread(p) /\ HasFields(p) /\ Shown(p) /\ ChatsAreThere(p) /\ p.open \in Q!Places
  BY OfferedByTheThread DEF ThreadInv, ThreadTypes, IsThread, Q!Stop
<1>2. rest' \in [texts : Int, steps : Int] /\ UNCHANGED back /\ Q!AtOnce /\ Q!Goes(q)
  BY Paying DEF Q!Stop, Q!Goes
<1>3. due' \in Threads \cup {None} /\ stopped' \subseteq Threads /\ due' \notin stopped'
  BY Placing DEF ThreadInv, ThreadTypes, Q!Stop, Q!TimerAfterStop
<1>4. (q = [p EXCEPT !.status = "paused"] /\ f = p.chat) \/ q = [p EXCEPT !.chat = f]
  BY <1>2 DEF Q!Stop, Q!OnIssue, Q!Goes
<1>5. /\ \A x \in Threads : f[x] = p.chat[x] \/ (f[x] = "paused" /\ x = p.open)
      /\ DOMAIN f = Threads /\ f = [x \in Threads |-> f[x]]
  BY <1>1 DEF ChatsAreThere
<1> HIDE DEF f
<1>6. /\ HasFields(q) /\ q.msgs = p.msgs /\ q.chat = f /\ q.field = p.field /\ q.at = p.at
      /\ q.edit = p.edit /\ q.open = p.open /\ q.queue = p.queue /\ q.answers = p.answers /\ q.replies = p.replies
  BY <1>1, <1>4 DEF HasFields, ThreadFields
<1>7. Shown(q) /\ ChatsAreThere(q) /\ (\A t : Keeps(p, t) => Keeps(q, t))
      /\ \A x \in Threads : q.chat[x] = "done" => p.chat[x] # "paused"
  BY <1>1, <1>5, <1>6 DEF Shown, ChatsAreThere, Keeps
<1>8. IsThread(q)
  BY <1>1, <1>6, <1>7 DEF IsThread
<1>9. Follows(p, q, back')
  BY <1>7, <1>8 DEF Follows
<1> QED
  BY <1>2, <1>3, <1>9, StepAtOnce DEF Walks

\* Send, by whichever path it takes.
LEMMA SubmitWalks ==
  ASSUME ThreadInv, Q!Submit, rest' \in [texts : Int, steps : Int], NEW T
  PROVE  Walks(T)
<1>1. PICK p \in Q!Sent(thread) :
        /\ Q!Goes(p) /\ due' = Q!TimerAfter(p)
        /\ stopped' = IF p.open \in Threads /\ p.chat[p.open] = "working" THEN stopped \ {p.open} ELSE stopped
  BY DEF Q!Submit
<1>2. thread' = p /\ Q!Goes(thread')
  BY <1>1 DEF Q!Goes
<1>3. Follows(thread, thread', T)
  BY <1>1, <1>2, SentFollows DEF Follows, ThreadInv, ThreadTypes
<1>4. due' \in Threads \cup {None} /\ stopped' \subseteq Threads /\ due' \notin stopped'
  BY <1>1, Placing DEF Q!TimerAfter, ThreadInv, ThreadTypes
<1> QED
  BY <1>2, <1>3, <1>4 DEF Walks

LEMMA SendKeepsTexts ==
  ASSUME ThreadInv, NEW c, Q!Send(c)
  PROVE  ThreadStep
<1>1. rest' \in [texts : Int, steps : Int] /\ UNCHANGED back /\ Q!AtOnce /\ Q!Submit
  BY Paying DEF Q!Send
<1> QED
  BY <1>1, SubmitWalks, StepAtOnce

LEMMA ActKeepsTexts ==
  ASSUME ThreadInv, NEW c \in Q!Offered, Q!Act(c)
  PROVE  ThreadStep
<1>1. CASE Q!Send(c) \/ Q!Type(c) \/ Q!Files(c) \/ Q!Dictate(c) \/ Q!Fill(c)
  BY <1>1, SendKeepsTexts, FieldKeepsTexts
<1>2. CASE \/ Q!Reply(c) \/ Q!Build(c) \/ Q!EditMessage(c) \/ Q!EditText(c) \/ Q!EditCancel(c) \/ Q!ChangeStatus(c)
           \/ Q!OpenIssue(c) \/ Q!OpenChat(c) \/ Q!NewChat(c) \/ Q!OpenFork(c) \/ Q!CancelFork(c) \/ Q!Resume(c)
  BY <1>2, MovingKeepsTexts
<1>3. CASE Q!Move(c) \/ Q!Unqueue(c) \/ Q!PullBack(c) \/ Q!EditQueue(c)
  BY <1>3, QueueKeepsTexts
<1>4. CASE Q!SteerRow(c) \/ Q!Steer(c) \/ Q!EditSteer(c)
  BY <1>4, RowGoesAway, SteeringKeepsTexts
<1>5. CASE Q!EditSend(c) \/ Q!EditPrompt(c)
  BY <1>5, EditCutsTheThread, EditCutsTheChat
<1>6. CASE Q!PickOption(c) \/ Q!EditAnswers(c) \/ Q!ContinueDecision(c)
  BY <1>6, AnswersKeepTexts
<1>7. CASE Q!Fork(c) \/ Q!ConfirmFork(c)
  BY <1>7, ForkingKeepsTexts
<1>8. CASE Q!Stop(c)
  BY <1>8, StoppingKeepsTexts
<1> QED
  BY <1>1, <1>2, <1>3, <1>4, <1>5, <1>6, <1>7, <1>8, Zenon DEF Q!Act

\* The answer to a chat is a message at the end of it.
LEMMA AnswerKeepsTexts ==
  ASSUME ThreadInv, Q!TimerFires
  PROVE  /\ ThreadInv'
         /\ \A x \in stopped : thread.chat[x] = "paused" => thread'.chat[x] # "done"
<1> DEFINE p == thread
           q == thread'
<1>1. /\ IsThread(p) /\ HasFields(p) /\ Shown(p) /\ ChatsAreThere(p) /\ (p.open \in Threads => p.chat[p.open] # "absent")
      /\ due \in Threads /\ due \notin stopped /\ stopped \subseteq Threads
  BY DEF ThreadInv, ThreadTypes, IsThread, ChatsAreThere, Q!TimerFires
<1>2. due' = None /\ UNCHANGED <<stopped, back, rest, soon, missed>> /\ Away' = Away
  BY DEF Q!TimerFires, Q!AtOnce, Away, Q!Underway
<1>3. CASE UNCHANGED <<thread, given>>
  <2>1. ThreadTypes'
    BY <1>1, <1>2, <1>3, Placing DEF ThreadInv, ThreadTypes
  <2> QED
    BY <1>1, <1>2, <1>3, <2>1, PageStep DEF ThreadInv, ThreadTypes
<1>4. ASSUME p.open = due, q = [Q!Said(p, due, <<Q!Operator>>) EXCEPT !.chat[due] = "done", !.phase = "done"], Q!Goes(q)
      PROVE  /\ ThreadInv' /\ \A x \in stopped : p.chat[x] = "paused" => q.chat[x] # "done"
  <2> DEFINE u == <<Q!Operator>>
             m == [p.msgs EXCEPT ![due] = p.msgs[due] \o u]
             f == [p.chat EXCEPT ![due] = "done"]
             r == [p EXCEPT !.msgs = m]
  <2>1. q = [r EXCEPT !.chat[due] = "done", !.phase = "done"]
    BY <1>4 DEF Q!Said
  <2>2. u \in Seq(Notes) /\ due \in Q!Places
    BY <1>1, Writing, Placing
  <2>3. /\ DOMAIN f = Threads /\ f = [x \in Threads |-> f[x]] /\ f[due] = "done"
        /\ \A x \in Threads : x # due => f[x] = p.chat[x]
    BY <1>1 DEF ChatsAreThere
  <2> HIDE DEF m, u
  <2>4. /\ HasFields(r) /\ r.msgs = m /\ r.chat = p.chat /\ r.field = p.field /\ r.at = p.at
        /\ r.edit = p.edit /\ r.open = p.open /\ r.queue = p.queue /\ r.answers = p.answers /\ r.replies = p.replies
    BY <1>1 DEF HasFields, ThreadFields
  <2> HIDE DEF r
  <2>5. Follows(p, r, {})
    BY <1>1, <1>4, <2>2, <2>4, PostingHere DEF Shown, m
  <2>6. q = [r EXCEPT !.chat = f, !.phase = "done"]
    BY <2>1, <2>4
  <2> HIDE DEF f
  <2>7. /\ HasFields(q) /\ q.msgs = r.msgs /\ q.chat = f /\ q.field = r.field /\ q.at = r.at
        /\ q.edit = r.edit /\ q.open = r.open /\ q.queue = r.queue /\ q.answers = r.answers /\ q.replies = r.replies
    BY <2>4, <2>6 DEF HasFields, ThreadFields
  <2>8. Shown(q) /\ ChatsAreThere(q) /\ \A t : Keeps(r, t) => Keeps(q, t)
    BY <2>3, <2>4, <2>5, <2>7 DEF Follows, IsThread, Shown, ChatsAreThere, Keeps
  <2>9. IsThread(q) /\ \A t : Keeps(p, t) => Keeps(q, t)
    BY <2>5, <2>7, <2>8 DEF IsThread, Follows
  <2>10. ThreadTypes'
    BY <1>1, <1>2, <2>9, Placing DEF ThreadInv, ThreadTypes
  <2>11. \A x \in stopped : p.chat[x] = "paused" => q.chat[x] # "done"
    BY <1>1, <2>3, <2>7
  <2> QED
    BY <1>2, <1>4, <2>9, <2>10, <2>11, PageStep
<1>5. ASSUME q = [p EXCEPT !.phase = "paused"], Q!Goes(q)
      PROVE  /\ ThreadInv' /\ \A x \in stopped : p.chat[x] = "paused" => q.chat[x] # "done"
  <2>1. /\ HasFields(q) /\ q.msgs = p.msgs /\ q.chat = p.chat /\ q.field = p.field /\ q.at = p.at
        /\ q.edit = p.edit /\ q.open = p.open /\ q.queue = p.queue /\ q.answers = p.answers /\ q.replies = p.replies
    BY <1>1, <1>5 DEF HasFields, ThreadFields
  <2>2. Shown(q)
    BY <1>1, <2>1 DEF Shown
  <2>3. Follows(p, q, {})
    BY <1>1, <2>1, <2>2, QuietPage
  <2>4. ThreadTypes' /\ \A t : Keeps(p, t) => Keeps(q, t)
    BY <1>1, <1>2, <2>3, Placing DEF ThreadInv, ThreadTypes, Follows
  <2> QED
    BY <1>2, <1>5, <2>1, <2>4, PageStep
<1>6. \/ UNCHANGED <<thread, given>>
      \/ /\ p.open = due /\ Q!Goes(q)
         /\ \/ q = [Q!Said(p, due, <<Q!Operator>>) EXCEPT !.chat[due] = "done", !.phase = "done"]
            \/ q = [p EXCEPT !.phase = "paused"]
  BY DEF Q!TimerFires, Q!Goes
<1> QED
  BY <1>3, <1>4, <1>5, <1>6

\* A callback runs: the text is steered, or missed, or put in the field, or what
\* the field holds is sent.
LEMMA CallbackKeepsTexts ==
  ASSUME ThreadInv, Q!SoonRuns
  PROVE  ThreadStep
<1> DEFINE n == Head(soon)
           p == thread
           q == thread'
<1>1. /\ soon # <<>> /\ UNCHANGED <<back, rest>>
      /\ \/ n.what = "steer" /\ Q!SteersLate(n.text) /\ soon' = Tail(soon)
         \/ /\ n.what = "fill"
            /\ Q!Goes([thread EXCEPT !.field.text = n.text])
            /\ soon' = Append(Tail(soon), [what |-> "send", text |-> n.text])
            /\ UNCHANGED <<due, stopped, missed>>
         \/ n.what = "send" /\ Q!Submit /\ soon' = Tail(soon) /\ UNCHANGED missed
  BY DEF Q!SoonRuns
<1>2. /\ n \in Callbacks /\ Tail(soon) \in Seq(Callbacks) /\ rest' \in [texts : Int, steps : Int]
      /\ IsThread(p) /\ p.field \in Rows /\ Shown(p)
  BY <1>1, UnderwayRun DEF ThreadInv, ThreadTypes, IsThread, Shown
<1>3. n.text \in Int
  BY <1>2 DEF Callbacks
<1>4. \A t \in Q!Underway :
        \/ n.what = "steer" /\ n.text = t
        \/ \E i \in 1 .. Len(Tail(soon)) : Tail(soon)[i].what = "steer" /\ Tail(soon)[i].text = t
  BY <1>1, UnderwayRun DEF ThreadInv, ThreadTypes
<1> HIDE DEF n
<1>5. CASE n.what = "steer" /\ Q!SteersLate(n.text) /\ soon' = Tail(soon)
  <2>1. \A t \in Q!Underway : t = n.text \/ t \in Q!Underway'
    BY <1>4, <1>5 DEF Q!Underway
  <2>2. CASE p.open = "new"
    <3>1. missed' = missed \cup {n.text} /\ UNCHANGED <<thread, given, due, stopped>>
      BY <1>5, <2>2 DEF Q!SteersLate
    <3>2. \A t \in Away : t \in Away'
      BY <1>1, <2>1, <3>1 DEF Away
    <3>3. Follows(p, q, Away')
      BY <1>2, <3>1, Standing DEF Follows
    <3> QED
      BY <1>2, <1>5, <3>1, <3>2, <3>3, QuietTimer DEF ThreadStep, Walks
  <2>3. CASE p.open # "new"
    <3>1. Q!Goes(Q!Steered(p, n.text)) /\ UNCHANGED <<missed, due, stopped>>
      BY <1>5, <2>3 DEF Q!SteersLate
    <3>2. q = Q!Steered(p, n.text) /\ Q!Goes(q) /\ p.open \in Q!Places
      BY <1>2, <2>3, <3>1 DEF Q!Goes, Shown
    <3>3. Follows(p, q, Away') /\ Keeps(q, n.text)
      BY <1>2, <1>3, <3>2, SteeredFollows
    <3>4. \A t \in Away : Keeps(q, t) \/ t \in Away'
      BY <1>1, <2>1, <3>1, <3>3 DEF Away
    <3> QED
      BY <1>2, <1>5, <3>1, <3>2, <3>3, <3>4, QuietTimer DEF ThreadStep, Walks
  <2> QED
    BY <2>2, <2>3
<1>6. CASE /\ n.what = "fill"
           /\ Q!Goes([thread EXCEPT !.field.text = n.text])
           /\ soon' = Append(Tail(soon), [what |-> "send", text |-> n.text])
           /\ UNCHANGED <<due, stopped, missed>>
  <2> DEFINE x == [p.field EXCEPT !.text = n.text]
             e == [what |-> "send", text |-> n.text]
  <2>1. x \in Rows /\ e \in Callbacks /\ q = [p EXCEPT !.field = x] /\ Q!Goes(q)
    BY <1>2, <1>3, <1>6, Blanked DEF Callbacks, Q!Goes
  <2>2. soon' = Append(Tail(soon), e)
    BY <1>6
  <2> HIDE DEF x, e
  <2>3. Follows(p, q, Away')
    BY <1>2, <2>1, FieldChanged
  <2>4. /\ soon' \in Seq(Callbacks)
        /\ \A i \in 1 .. Len(Tail(soon)) : i \in 1 .. Len(soon') /\ soon'[i] = Tail(soon)[i]
    <3> DEFINE u == Tail(soon)
    <3>1. u \in Seq(Callbacks) /\ soon' = Append(u, e)
      BY <1>2, <2>2
    <3> HIDE DEF u
    <3>2. /\ soon' \in Seq(Callbacks) /\ Len(u) \in Nat /\ Len(soon') = Len(u) + 1
          /\ \A i \in 1 .. Len(u) : soon'[i] = u[i]
      BY <2>1, <3>1
    <3> QED
      BY <3>2 DEF u
  <2>5. Q!Underway \subseteq Q!Underway'
    BY <1>4, <1>6, <2>4 DEF Q!Underway
  <2>6. Away \subseteq Away'
    BY <1>1, <1>6, <2>5 DEF Away
  <2> QED
    BY <1>2, <1>6, <2>1, <2>3, <2>4, <2>6, QuietTimer DEF ThreadStep, Walks
<1>7. CASE n.what = "send" /\ Q!Submit /\ soon' = Tail(soon) /\ UNCHANGED missed
  <2>1. Q!Underway \subseteq Q!Underway'
    BY <1>4, <1>7 DEF Q!Underway
  <2>2. Walks(Away')
    BY <1>2, <1>7, SubmitWalks
  <2>3. Away \subseteq Away'
    BY <1>1, <1>7, <2>1 DEF Away
  <2> QED
    BY <1>2, <1>7, <2>2, <2>3 DEF ThreadStep
<1> QED
  BY <1>1, <1>5, <1>6, <1>7

\* The invariant, and what becomes of a chat that was stopped.
LEMMA ThreadNextStep ==
  ASSUME ThreadInv, [Q!Next]_(Q!vars)
  PROVE  /\ ThreadInv'
         /\ \A x \in stopped : thread.chat[x] = "paused" => thread'.chat[x] # "done"
<1>1. CASE UNCHANGED Q!vars
  <2>1. UNCHANGED <<thread, due, stopped, given, back, soon, missed, rest>>
    BY <1>1 DEF Q!vars
  <2>2. ThreadTypes' /\ Away' = Away
    BY <2>1 DEF ThreadInv, ThreadTypes, Away, Q!Underway
  <2>3. ThreadInv'
    BY <2>1, <2>2, PageStep
  <2> QED
    BY <2>1, <2>3
<1>2. ASSUME ThreadStep
      PROVE  ThreadInv' /\ \A x \in stopped : thread.chat[x] = "paused" => thread'.chat[x] # "done"
  <2>1. Walks(Away')
    BY <1>2 DEF ThreadStep
  <2>2. ThreadTypes'
    BY <1>2, <2>1 DEF ThreadStep, Walks, ThreadTypes, Follows
  <2>3. ThreadInv'
    BY <1>2, <2>1, <2>2, PageStep DEF ThreadStep, Walks, Follows
  <2>4. stopped \subseteq Threads
    BY DEF ThreadInv, ThreadTypes
  <2> QED
    BY <2>1, <2>3, <2>4 DEF Walks, Follows
<1>3. ASSUME NEW c \in Q!Offered, Q!Act(c) PROVE ThreadStep
  BY <1>3, ActKeepsTexts
<1> QED
  BY <1>1, <1>2, <1>3, AnswerKeepsTexts, CallbackKeepsTexts DEF Q!Next

LEMMA ThreadStart == Q!Init => ThreadInv
<1> SUFFICES ASSUME Q!Init PROVE ThreadInv
  OBVIOUS
<1> DEFINE e == Q!Empty
           m == [c \in Q!Places |-> <<>>]
           f == [c \in Threads |-> "absent"]
           a == <<>>
<1>1. \E s, b : thread = [open |-> "issue", status |-> s, resolved |-> b, answers |-> a,
               chat |-> f, phase |-> "empty", msgs |-> m, field |-> e, queue |-> m,
               at |-> 0, edit |-> Q!Blank, reply |-> FALSE, replies |-> {}, plan |-> {}, dialog |-> FALSE]
  BY DEF Q!Init
<1>2. due = None /\ stopped = {} /\ given = {} /\ soon = <<>> /\ rest = [texts |-> MaxThreadTexts, steps |-> MaxSteps]
  BY DEF Q!Init
<1>3. Placed(m, Notes) /\ Placed(m, Rows) /\ a \in Seq(Int) /\ e \in Rows /\ Q!Blank \in Int
      /\ m["issue"] = <<>> /\ Len(<<>>) = 0 /\ (\A c \in Threads : m[c] = <<>>)
      /\ DOMAIN f = Threads /\ f = [c \in Threads |-> f[c]]
  BY Writing, Placing DEF Placed
<1> HIDE DEF e, m, f, a
<1>4. /\ HasFields(thread) /\ thread.open = "issue" /\ thread.answers = a /\ thread.chat = f /\ thread.msgs = m
      /\ thread.field = e /\ thread.queue = m /\ thread.at = 0 /\ thread.edit = Q!Blank
  <2>1. PICK s, b : thread = [open |-> "issue", status |-> s, resolved |-> b, answers |-> a,
               chat |-> f, phase |-> "empty", msgs |-> m, field |-> e, queue |-> m,
               at |-> 0, edit |-> Q!Blank, reply |-> FALSE, replies |-> {}, plan |-> {}, dialog |-> FALSE]
    BY <1>1
  <2>2. DOMAIN thread = ThreadFields
    BY <2>1 DEF ThreadFields
  <2>3. thread = [x \in ThreadFields |-> thread[x]]
    BY <2>1, <2>2
  <2>4. /\ thread.open = "issue" /\ thread.answers = a /\ thread.chat = f /\ thread.msgs = m
        /\ thread.field = e /\ thread.queue = m /\ thread.at = 0 /\ thread.edit = Q!Blank
    BY <2>1
  <2> QED
    BY <2>2, <2>3, <2>4 DEF HasFields
<1>5. IsThread(thread)
  <2>1. ChatsAreThere(thread)
    BY <1>3, <1>4, Placing DEF ChatsAreThere
  <2>2. Shown(thread)
    BY <1>3, <1>4, Placing DEF Shown
  <2> QED
    BY <1>3, <1>4, <2>1, <2>2 DEF IsThread
<1>6. rest \in [texts : Int, steps : Int]
  BY <1>2, WritingConstants DEF Q!ThreadQueueConstants
<1> QED
  BY <1>2, <1>5, <1>6, Placing DEF ThreadInv, ThreadTypes, Q!SentTextsAreKept

\* A text given to a thread is in its messages, in a queue, in the answers or in
\* the replies until the member takes it back, whichever of the page's controls
\* are used, in whatever order, and whatever is done before the callbacks run;
\* but for a row whose timer steers it while a new chat is open (steer18,
\* queueRows18, editSend18, editPrompt12).
THEOREM TextsAreNotLost == WritingSpec => []SentTextsAreKept
<1>1. WritingInit => ThreadInv
  BY ThreadStart DEF WritingInit
<1>2. ThreadInv /\ [WritingNext]_<<part, vars, dockVars, threadVars>> => ThreadInv'
  BY PartsStepAlone, ThreadNextStep
<1>3. ThreadInv => SentTextsAreKept
  BY DEF ThreadInv, SentTextsAreKept
<1> QED
  BY <1>1, <1>2, <1>3, PTL DEF WritingSpec

\* After Stop a chat is not answered until it is resumed or written to: the
\* timer is never that of a chat that was stopped, although the page keeps the
\* phase that would let it answer (stopRun12, finishChat).
THEOREM StopIsFinal == WritingSpec => StoppedStaysStopped
<1>1. WritingInit => ThreadInv
  BY ThreadStart DEF WritingInit
<1>2. ThreadInv /\ [WritingNext]_<<part, vars, dockVars, threadVars>> => ThreadInv'
  BY PartsStepAlone, ThreadNextStep
<1>3. ThreadInv /\ [WritingNext]_<<part, vars, dockVars, threadVars>> =>
        [\A c \in stopped : thread.chat[c] = "paused" /\ thread'.chat[c] = "done" => c \notin stopped']_(Q!vars)
  BY PartsStepAlone, ThreadNextStep
<1> QED
  BY <1>1, <1>2, <1>3, PTL DEF WritingSpec, StoppedStaysStopped, Q!StoppedStaysStopped
===============================================================================
