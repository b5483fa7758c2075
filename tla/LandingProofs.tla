---------------------------- MODULE LandingProofs ----------------------------
(***************************************************************************)
(* The public page: nobody reaches a step behind the sign-in without       *)
(* having proved an address, and no stored choice is lost by a reload,     *)
(* proved for any addresses, demos, choices and number of edits, failures  *)
(* and reloads.                                                            *)
(*                                                                         *)
(* Both need what a request in flight is about: while one is, the address  *)
(* can not be edited, so a late answer is about the address on the form.   *)
(***************************************************************************)
EXTENDS Landing, TLAPS

\* The records, with the fields they have.
IsPage(p) ==
  p = [screen |-> p.screen, goals |-> p.goals, connected |-> p.connected, models |-> p.models,
       autos |-> p.autos, theme |-> p.theme, api |-> p.api, dialog |-> p.dialog, for |-> p.for,
       returnTo |-> p.returnTo, demo |-> p.demo]

IsForm(f) == f = [email |-> f.email, code |-> f.code, codeSent |-> f.codeSent, busy |-> f.busy]

IsServer(s) == s = [mailed |-> s.mailed, proved |-> s.proved]

\* A request for a code is about the address the form shows.
RequestIsForThisAddress ==
  form.busy # None /\ form.busy.kind = "start" => form.busy.email = form.email

SignInInv ==
  /\ IsForm(form) /\ IsServer(server)
  /\ RequestIsForThisAddress /\ CodeIsForThisAddress

\* A page on the same screen, at the same address.
SamePlace(p) == IsPage(p) /\ p.screen = page.screen /\ p.demo = page.demo

\* The address asks for a step of the onboarding outright.
DemoOfSteps(p) == p.demo # None /\ p.demo.screen \in Onboarding

IInv == IsPage(page) /\ SignInInv /\ OnboardingAfterSignIn /\ ChoicesSurviveReload
-------------------------------------------------------------------------------
(* The markup: where a control is offered.                                   *)

\* The controls that lead on from a step are on the steps only.
Onwards == {"toConnect", "backGoals", "toModels", "backConnect", "toAutos", "backModels", "finish"}

LEMMA StepsAreOnSteps ==
  ASSUME Onwards \cap Offered # {}
  PROVE  page.screen \in Onboarding
<1>1. PICK c \in Onwards : c \in Offered
  OBVIOUS
<1>2. c \notin Dialogs
  BY DEF Onwards, Dialogs, ConnectDialog, AccountDialog, PlansAndReceipt, MetersDialog, AppsDialog
<1>3. c \notin Sections
  BY DEF Onwards, Sections, Header, Hero, Platforms, Pricing, Foot
<1>4. c \notin SignInScreen
  BY DEF Onwards, SignInScreen, EmailSignIn
<1>5. c \notin Shell
  <2>1. c \notin ShellNavigation \cup ShellThreads \cup ShellTopbar \cup ShellApproval
    BY DEF Onwards, ShellNavigation, ShellThreads, ShellTopbar, ShellApproval
  <2>2. c \notin ShellCall \cup ShellComposer \cup ShellChat
    BY DEF Onwards, ShellCall, ShellComposer, ShellChat
  <2>3. c \notin ShellWork \cup ShellPlugins \cup ShellSchedule
    BY DEF Onwards, ShellWork, ShellPlugins, ShellSchedule
  <2> QED
    BY <2>1, <2>2, <2>3 DEF Shell
<1>6. c \in Steps
  BY <1>1, <1>2, <1>3, <1>4, <1>5 DEF Offered
<1>7. page.screen \in {"goals", "connect", "models", "autos"}
  BY <1>6 DEF Steps, GoalsScreen, ConnectScreen, ModelsScreen, AutosScreen
<1> QED
  BY <1>7 DEF Onboarding, Screens

\* The address is editable only while no request is in flight.
LEMMA AddressIsEditedAtRest ==
  ASSUME "editEmail" \in Offered
  PROVE  form.busy = None
<1> DEFINE c == "editEmail"
<1>1. c \notin Dialogs
  BY DEF Dialogs, ConnectDialog, AccountDialog, PlansAndReceipt, MetersDialog, AppsDialog
<1>2. c \notin Sections
  BY DEF Sections, Header, Hero, Platforms, Pricing, Foot
<1>3. c \notin Steps
  BY DEF Steps, GoalsScreen, ConnectScreen, ModelsScreen, AutosScreen
<1>4. c \notin Shell
  <2>1. c \notin ShellNavigation \cup ShellThreads \cup ShellTopbar \cup ShellApproval
    BY DEF ShellNavigation, ShellThreads, ShellTopbar, ShellApproval
  <2>2. c \notin ShellCall \cup ShellComposer \cup ShellChat
    BY DEF ShellCall, ShellComposer, ShellChat
  <2>3. c \notin ShellWork \cup ShellPlugins \cup ShellSchedule
    BY DEF ShellWork, ShellPlugins, ShellSchedule
  <2> QED
    BY <2>1, <2>2, <2>3 DEF Shell
<1>5. c \in SignInScreen
  BY <1>1, <1>2, <1>3, <1>4 DEF Offered
<1> QED
  BY <1>5 DEF SignInScreen, EmailSignIn
-------------------------------------------------------------------------------
(* The page and what is stored of it.                                        *)

\* What persist() writes is what the page shows.
LEMMA PersistedIsShown ==
  ASSUME NEW p, IsPage(p), Persist(p)
  PROVE  page' = p /\ IsPage(page)' /\ ChoicesSurviveReload'
<1>1. /\ page' = p
      /\ stored'.screen = p.screen /\ stored'.theme = p.theme
      /\ stored'.goals = p.goals /\ stored'.connected = p.connected
      /\ stored'.models = p.models /\ stored'.autos = p.autos
  BY DEF Persist
<1> QED
  BY <1>1 DEF ChoicesSurviveReload

\* A page with another field is a page at the same address.
LEMMA PageFields ==
  ASSUME NEW p, IsPage(p), NEW x
  PROVE  /\ IsPage([p EXCEPT !.screen = x])
         /\ [p EXCEPT !.screen = x].screen = x /\ [p EXCEPT !.screen = x].demo = p.demo
BY DEF IsPage

LEMMA SamePlaceFields ==
  ASSUME NEW p, SamePlace(p), NEW x
  PROVE  /\ SamePlace([p EXCEPT !.goals = x])
         /\ SamePlace([p EXCEPT !.connected = x])
         /\ SamePlace([p EXCEPT !.models = x])
         /\ SamePlace([p EXCEPT !.autos = x])
         /\ SamePlace([p EXCEPT !.theme = x])
         /\ SamePlace([p EXCEPT !.api = x])
         /\ SamePlace([p EXCEPT !.dialog = x])
         /\ SamePlace([p EXCEPT !.for = x])
BY DEF SamePlace, IsPage

\* A dialog that is opened or closed hides the page and changes nothing else.
LEMMA DialogPage ==
  ASSUME IsPage(page), ChoicesSurviveReload, NEW d, NEW f,
         Patch([page EXCEPT !.dialog = d, !.for = f]), UNCHANGED hasApi
  PROVE  IsPage(page)' /\ ChoicesSurviveReload' /\ page'.screen = page.screen /\ page'.demo = page.demo
<1> DEFINE p == [page EXCEPT !.dialog = d]
<1>1. /\ IsPage(p)
      /\ p.screen = page.screen /\ p.demo = page.demo /\ p.returnTo = page.returnTo
      /\ p.goals = page.goals /\ p.connected = page.connected /\ p.models = page.models
      /\ p.autos = page.autos /\ p.theme = page.theme
  BY DEF IsPage
<1>2. page' = [p EXCEPT !.for = f] /\ UNCHANGED stored
  BY DEF Patch
<1> HIDE DEF p
<1>3. /\ IsPage(page)'
      /\ page'.screen = p.screen /\ page'.demo = p.demo /\ page'.returnTo = p.returnTo
      /\ page'.goals = p.goals /\ page'.connected = p.connected /\ page'.models = p.models
      /\ page'.autos = p.autos /\ page'.theme = p.theme
  BY <1>1, <1>2 DEF IsPage
<1> QED
  BY <1>1, <1>2, <1>3 DEF ChoicesSurviveReload

\* What is stored comes back when the page is mounted; with an API the page
\* is back before the steps, unless its address asks for one.
LEMMA MountedPage ==
  ASSUME IsPage(page), ChoicesSurviveReload, Mount, UNCHANGED hasApi
  PROVE  /\ IsPage(page)' /\ ChoicesSurviveReload'
         /\ hasApi => page'.screen \notin Onboarding \/ DemoOfSteps(page')
<1> DEFINE ret == page.returnTo
           demo == page.demo
           screen == MountedScreen(stored, ret, demo)
           theme == IF demo = None THEN stored.theme ELSE demo.theme
<1>1. /\ page' = [screen |-> screen, goals |-> stored.goals, connected |-> stored.connected,
                  models |-> stored.models, autos |-> stored.autos, theme |-> theme, api |-> FALSE,
                  dialog |-> None, for |-> None, returnTo |-> ret, demo |-> demo]
      /\ UNCHANGED stored
  BY DEF Mount, Mounted
<1>2. demo = None => theme = stored.theme
  OBVIOUS
<1>3. demo = None /\ ~hasApi /\ ~ret => screen = stored.screen
  BY DEF MountedScreen
<1>4. hasApi => screen \in {"signin", "landing"} \/ (demo # None /\ screen = demo.screen)
  BY DEF MountedScreen
<1> HIDE DEF screen, theme, ret, demo
<1>5. /\ page'.screen = screen /\ page'.theme = theme /\ page'.returnTo = ret /\ page'.demo = demo
      /\ page'.goals = stored.goals /\ page'.connected = stored.connected
      /\ page'.models = stored.models /\ page'.autos = stored.autos
  BY <1>1
<1>6. IsPage(page)'
  BY <1>1 DEF IsPage
<1>7. ChoicesSurviveReload'
  BY <1>1, <1>2, <1>3, <1>5 DEF ChoicesSurviveReload
<1> QED
  BY <1>4, <1>5, <1>6, <1>7 DEF Onboarding, DemoOfSteps
-------------------------------------------------------------------------------
(* The steps, one lemma for each kind.                                       *)

\* A step that touches neither the page nor the form.
LEMMA DemoStep ==
  ASSUME IInv, UNCHANGED <<hasApi, page, form, server, stored>>
  PROVE  IInv'
BY DEF IInv, SignInInv, RequestIsForThisAddress, CodeIsForThisAddress, OnboardingAfterSignIn,
       ChoicesSurviveReload

\* Moving on from a step needs a step to move on from.
LEMMA GoStep ==
  ASSUME IInv, NEW control, NEW screen, Go(control, screen),
         screen \in {"signin", "landing"} \/ control \in Onwards
  PROVE  IInv'
<1> USE DEF IInv
<1> DEFINE p == [page EXCEPT !.screen = screen]
<1>1. IsPage(p) /\ p.screen = screen /\ p.demo = page.demo
  BY PageFields
<1>2. Persist(p) /\ UNCHANGED <<hasApi, form, server>>
  BY DEF Go
<1>3. IsPage(page)' /\ ChoicesSurviveReload' /\ page'.screen = screen /\ page'.demo = page.demo
  BY <1>1, <1>2, PersistedIsShown
<1>4. OnboardingAfterSignIn'
  <2>1. CASE screen \in {"signin", "landing"}
    BY <2>1, <1>3 DEF OnboardingAfterSignIn, Onboarding
  <2>2. CASE control \in Onwards
    <3>1. page.screen \in Onboarding
      BY <2>2, StepsAreOnSteps DEF Go
    <3> QED
      BY <3>1, <1>2, <1>3 DEF OnboardingAfterSignIn
  <2> QED
    BY <2>1, <2>2
<1> QED
  BY <1>2, <1>3, <1>4 DEF SignInInv, RequestIsForThisAddress, CodeIsForThisAddress

LEMMA NavigateStep ==
  ASSUME IInv, Navigate
  PROVE  IInv'
<1>1. \/ Go("startFree", "signin") \/ Go("back", "landing")
      \/ \E c \in Onwards : \E s : Go(c, s)
  BY DEF Navigate, Onwards
<1> QED
  BY <1>1, GoStep

\* A choice is stored as it is made, and does not move the page.
LEMMA ChoiceStep ==
  ASSUME IInv, NEW p, SamePlace(p), Persist(p),
         UNCHANGED <<hasApi, form, server>>
  PROVE  IInv'
<1> USE DEF IInv
<1>1. page' = p /\ IsPage(page)' /\ ChoicesSurviveReload'
  BY PersistedIsShown DEF SamePlace
<1>2. OnboardingAfterSignIn'
  BY <1>1 DEF OnboardingAfterSignIn, SamePlace
<1> QED
  BY <1>1, <1>2 DEF SignInInv, RequestIsForThisAddress, CodeIsForThisAddress

LEMMA ToggleStep ==
  ASSUME IInv, Toggle
  PROVE  IInv'
<1>1. UNCHANGED <<hasApi, form, server>>
  BY DEF Toggle
<1>2. \E p : SamePlace(p) /\ Persist(p)
  <2>1. \/ \E S : Persist([page EXCEPT !.goals = S])
        \/ \E S : Persist([page EXCEPT !.models = S])
        \/ \E S : Persist([page EXCEPT !.autos = S])
        \/ \E t : Persist([page EXCEPT !.theme = t])
        \/ \E t : Persist([page EXCEPT !.api = t])
    BY DEF Toggle, ToggleChoice
  <2>2. SamePlace(page)
    BY DEF IInv, SamePlace
  <2> QED
    BY <2>1, <2>2, SamePlaceFields
<1> QED
  BY <1>1, <1>2, ChoiceStep

LEMMA FinishDialogStep ==
  ASSUME IInv, FinishConnect \/ FinishAccount
  PROVE  IInv'
<1>1. UNCHANGED <<hasApi, form, server>>
  BY DEF FinishConnect, FinishAccount
<1>2. \E p : SamePlace(p) /\ Persist(p)
  <2>1. \/ \E S : Persist([page EXCEPT !.connected = S, !.dialog = None, !.for = None])
        \/ \E S : Persist([page EXCEPT !.models = S, !.dialog = None, !.for = None])
    BY DEF FinishConnect, FinishAccount
  <2>2. ASSUME NEW q, SamePlace(q)
        PROVE  SamePlace([q EXCEPT !.dialog = None, !.for = None])
    <3> DEFINE d == [q EXCEPT !.dialog = None]
    <3>1. SamePlace(d)
      BY <2>2, SamePlaceFields
    <3> HIDE DEF d
    <3>2. SamePlace([d EXCEPT !.for = None])
      BY <3>1, SamePlaceFields
    <3>3. [q EXCEPT !.dialog = None, !.for = None] = [d EXCEPT !.for = None]
      BY DEF d
    <3> QED
      BY <3>2, <3>3
  <2>3. \A S : SamePlace([page EXCEPT !.connected = S]) /\ SamePlace([page EXCEPT !.models = S])
    <3>1. SamePlace(page)
      BY DEF IInv, SamePlace
    <3> QED
      BY <3>1, SamePlaceFields
  <2>4. CASE \E S : Persist([page EXCEPT !.connected = S, !.dialog = None, !.for = None])
    <3>1. PICK S : Persist([page EXCEPT !.connected = S, !.dialog = None, !.for = None])
      BY <2>4
    <3> DEFINE q == [page EXCEPT !.connected = S]
    <3>2. SamePlace(q)
      BY <2>3
    <3>3. [page EXCEPT !.connected = S, !.dialog = None, !.for = None] = [q EXCEPT !.dialog = None, !.for = None]
      OBVIOUS
    <3> HIDE DEF q
    <3> QED
      BY <3>1, <3>2, <3>3, <2>2
  <2>5. CASE \E S : Persist([page EXCEPT !.models = S, !.dialog = None, !.for = None])
    <3>1. PICK S : Persist([page EXCEPT !.models = S, !.dialog = None, !.for = None])
      BY <2>5
    <3> DEFINE q == [page EXCEPT !.models = S]
    <3>2. SamePlace(q)
      BY <2>3
    <3>3. [page EXCEPT !.models = S, !.dialog = None, !.for = None] = [q EXCEPT !.dialog = None, !.for = None]
      OBVIOUS
    <3> HIDE DEF q
    <3> QED
      BY <3>1, <3>2, <3>3, <2>2
  <2> QED
    BY <2>1, <2>4, <2>5
<1> QED
  BY <1>1, <1>2, ChoiceStep

\* Opening and closing a dialog.
LEMMA DialogStep ==
  ASSUME IInv, OpenDialog \/ CloseDialog
  PROVE  IInv'
<1> USE DEF IInv
<1>1. /\ \E d, f : Patch([page EXCEPT !.dialog = d, !.for = f])
      /\ UNCHANGED <<hasApi, form, server>>
  BY DEF OpenDialog, CloseDialog, Open
<1>2. IsPage(page)' /\ ChoicesSurviveReload' /\ page'.screen = page.screen /\ page'.demo = page.demo
  BY <1>1, DialogPage
<1> QED
  BY <1>1, <1>2 DEF SignInInv, RequestIsForThisAddress, CodeIsForThisAddress, OnboardingAfterSignIn

\* A reload, and a return from the workspace.
LEMMA MountStep ==
  ASSUME IInv, Mount, UNCHANGED <<hasApi, server>>
  PROVE  IInv'
<1> USE DEF IInv
<1>1. IsPage(page)' /\ ChoicesSurviveReload' /\ OnboardingAfterSignIn'
  BY MountedPage DEF OnboardingAfterSignIn, DemoOfSteps
<1>2. form' = [email |-> Bad, code |-> Blank, codeSent |-> FALSE, busy |-> None]
  BY DEF Mount, EmptyForm
<1>3. IsForm(form') /\ ~form'.codeSent /\ form'.busy = None
  BY <1>2 DEF IsForm
<1> QED
  BY <1>1, <1>3 DEF SignInInv, RequestIsForThisAddress, CodeIsForThisAddress
-------------------------------------------------------------------------------
(* Signing in.                                                               *)

\* Whoever is signed in sees a page, and the steps only after a proof or
\* without an API.
LEMMA SignedInPage ==
  ASSUME IInv, SignedIn(page), UNCHANGED hasApi
  PROVE  IsPage(page)' /\ ChoicesSurviveReload'
<1> USE DEF IInv
<1>1. CASE hasApi /\ page.returnTo
  BY <1>1 DEF SignedIn, Patch, ChoicesSurviveReload
<1>2. CASE ~(hasApi /\ page.returnTo)
  <2> DEFINE p == [page EXCEPT !.screen = "goals"]
             q == [p EXCEPT !.dialog = None]
             r == [q EXCEPT !.for = None]
  <2>1. Persist(r)
    BY <1>2 DEF SignedIn
  <2>2. IsPage(p)
    BY PageFields
  <2> HIDE DEF p
  <2>3. IsPage(q)
    BY <2>2 DEF IsPage
  <2> HIDE DEF q
  <2>4. IsPage(r)
    BY <2>3 DEF IsPage
  <2> QED
    BY <2>1, <2>4, PersistedIsShown
<1> QED
  BY <1>1, <1>2

\* A step of the form leaves the page where it is, and a proof given stays.
LEMMA FormStep ==
  ASSUME IInv, SignInInv', UNCHANGED <<hasApi, page, stored>>,
         server.proved => server'.proved
  PROVE  IInv'
BY DEF IInv, OnboardingAfterSignIn, ChoicesSurviveReload

\* Another address needs another code.
LEMMA EditEmailStep ==
  ASSUME IInv, NEW e, EditEmail(e)
  PROVE  IInv'
<1> USE DEF IInv, SignInInv
<1>1. form.busy = None
  BY AddressIsEditedAtRest DEF EditEmail
<1>2. form' = [email |-> e, code |-> Blank, codeSent |-> FALSE, busy |-> form.busy]
  <2>1. form' = [form EXCEPT !.email = e, !.codeSent = FALSE, !.code = Blank]
    BY DEF EditEmail, Readdressed
  <2>2. form = [email |-> form.email, code |-> form.code, codeSent |-> form.codeSent, busy |-> form.busy]
    BY DEF IsForm
  <2> QED
    BY <2>1, <2>2
<1>3. IsForm(form') /\ ~form'.codeSent /\ form'.busy = None
  BY <1>1, <1>2 DEF IsForm
<1>4. SignInInv'
  BY <1>3 DEF RequestIsForThisAddress, CodeIsForThisAddress, EditEmail
<1> QED
  BY <1>4, FormStep DEF EditEmail

LEMMA EditCodeStep ==
  ASSUME IInv, NEW c, EditCode(c)
  PROVE  IInv'
<1> USE DEF IInv, SignInInv
<1>1. form' = [form EXCEPT !.code = c] /\ UNCHANGED server
  BY DEF EditCode
<1>2. /\ IsForm(form') /\ form'.email = form.email
      /\ form'.codeSent = form.codeSent /\ form'.busy = form.busy
  BY <1>1 DEF IsForm
<1>3. SignInInv'
  BY <1>1, <1>2 DEF RequestIsForThisAddress, CodeIsForThisAddress
<1> QED
  BY <1>1, <1>3, FormStep DEF EditCode

\* A request is about the address that the form shows when it is sent.
LEMMA SubmitStep ==
  ASSUME IInv, EmailSubmit
  PROVE  IInv'
<1> USE DEF IInv, SignInInv
<1>1. CASE hasApi
  <2>1. form' = [form EXCEPT !.busy = Request] /\ UNCHANGED <<hasApi, page, stored, server>>
    BY <1>1 DEF EmailSubmit
  <2>2. /\ IsForm(form') /\ form'.email = form.email
        /\ form'.codeSent = form.codeSent /\ form'.busy = Request
    BY <2>1 DEF IsForm
  <2>3. Request.email = form.email
    BY DEF Request
  <2>4. SignInInv'
    BY <2>1, <2>2, <2>3 DEF RequestIsForThisAddress, CodeIsForThisAddress
  <2> QED
    BY <2>1, <2>4, FormStep
<1>2. CASE ~hasApi
  <2>1. SignedIn(page) /\ UNCHANGED <<hasApi, form, server>>
    BY <1>2 DEF EmailSubmit
  <2> QED
    BY <2>1, <1>2, SignedInPage DEF OnboardingAfterSignIn, RequestIsForThisAddress, CodeIsForThisAddress
<1> QED
  BY <1>1, <1>2

\* What a request that ends leaves of the form.
LEMMA RestingForm ==
  ASSUME IInv, form' = [form EXCEPT !.busy = None]
  PROVE  IsForm(form') /\ form'.email = form.email /\ form'.codeSent = form.codeSent
         /\ form'.busy = None
BY DEF IInv, SignInInv, IsForm

\* The server mails a code, or takes one.
LEMMA ServerFields ==
  ASSUME IInv, NEW x
  PROVE  /\ IsServer([server EXCEPT !.mailed = x])
         /\ [server EXCEPT !.mailed = x].mailed = x
         /\ [server EXCEPT !.mailed = x].proved = server.proved
         /\ IsServer([server EXCEPT !.proved = x])
         /\ [server EXCEPT !.proved = x].mailed = server.mailed
         /\ [server EXCEPT !.proved = x].proved = x
BY DEF IInv, SignInInv, IsServer

\* The answer of the first request: the address it mailed is on the form.
LEMMA StartAnsweredStep ==
  ASSUME IInv, StartAnswered
  PROVE  IInv'
<1> USE DEF IInv, SignInInv
<1>1. form.busy.email = form.email
  BY DEF StartAnswered, RequestIsForThisAddress
<1> DEFINE mailed == server.mailed \cup {form.busy.email}
<1>2. server' = [server EXCEPT !.mailed = mailed]
  BY DEF StartAnswered
<1>3. IsServer(server') /\ server'.mailed = mailed /\ server'.proved = server.proved
  BY <1>2, ServerFields
<1>4. form' = [email |-> form.email, code |-> form.code, codeSent |-> TRUE, busy |-> None]
  <2>1. form' = [form EXCEPT !.codeSent = TRUE, !.busy = None]
    BY DEF StartAnswered
  <2>2. form = [email |-> form.email, code |-> form.code, codeSent |-> form.codeSent, busy |-> form.busy]
    BY DEF IsForm
  <2> QED
    BY <2>1, <2>2
<1>5. IsForm(form') /\ form'.email = form.email /\ form'.busy = None
  BY <1>4 DEF IsForm
<1>6. SignInInv'
  BY <1>1, <1>3, <1>5 DEF RequestIsForThisAddress, CodeIsForThisAddress
<1> QED
  BY <1>3, <1>6, FormStep DEF StartAnswered

\* The answer of the second: a code of the address proves it.
LEMMA VerifyAnsweredStep ==
  ASSUME IInv, VerifyAnswered
  PROVE  IInv'
<1> USE DEF IInv, SignInInv
<1>1. IsForm(form') /\ form'.email = form.email /\ form'.codeSent = form.codeSent /\ form'.busy = None
  BY RestingForm DEF VerifyAnswered
<1>2. CASE form.busy.code = form.busy.email
  <2>1. server' = [server EXCEPT !.proved = TRUE] /\ SignedIn(page) /\ UNCHANGED hasApi
    BY <1>2 DEF VerifyAnswered
  <2>2. IsServer(server') /\ server'.mailed = server.mailed /\ server'.proved
    BY <2>1, ServerFields
  <2>3. IsPage(page)' /\ ChoicesSurviveReload'
    BY <2>1, SignedInPage
  <2> QED
    BY <1>1, <2>2, <2>3 DEF RequestIsForThisAddress, CodeIsForThisAddress, OnboardingAfterSignIn
<1>3. CASE form.busy.code # form.busy.email
  <2>1. UNCHANGED <<hasApi, page, stored, server>>
    BY <1>3 DEF VerifyAnswered
  <2>2. SignInInv'
    BY <1>1, <2>1 DEF RequestIsForThisAddress, CodeIsForThisAddress
  <2> QED
    BY <2>1, <2>2, FormStep
<1> QED
  BY <1>2, <1>3

\* A request that fails may have been served.
LEMMA SignInFailsStep ==
  ASSUME IInv, SignInFails
  PROVE  IInv'
<1> USE DEF IInv, SignInInv
<1>1. IsForm(form') /\ form'.email = form.email /\ form'.codeSent = form.codeSent /\ form'.busy = None
  BY RestingForm DEF SignInFails
<1>2. /\ IsServer(server')
      /\ server.mailed \subseteq server'.mailed
      /\ server.proved => server'.proved
  <2>1. \/ UNCHANGED server
        \/ server' = [server EXCEPT !.mailed = server.mailed \cup {form.busy.email}]
        \/ server' = [server EXCEPT !.proved = TRUE]
    BY DEF SignInFails
  <2> DEFINE mailed == server.mailed \cup {form.busy.email}
  <2>2. CASE UNCHANGED server
    BY <2>2
  <2>3. CASE server' = [server EXCEPT !.mailed = mailed]
    <3>1. IsServer(server') /\ server'.mailed = mailed /\ server'.proved = server.proved
      BY <2>3, ServerFields
    <3> QED
      BY <3>1
  <2>4. CASE server' = [server EXCEPT !.proved = TRUE]
    <3>1. IsServer(server') /\ server'.mailed = server.mailed /\ server'.proved
      BY <2>4, ServerFields
    <3> QED
      BY <3>1
  <2> QED
    BY <2>1, <2>2, <2>3, <2>4
<1>3. SignInInv'
  BY <1>1, <1>2 DEF RequestIsForThisAddress, CodeIsForThisAddress
<1> QED
  BY <1>2, <1>3, FormStep DEF SignInFails

LEMMA ProviderStep ==
  ASSUME IInv, ProviderSignIn
  PROVE  IInv'
<1>1. ~hasApi /\ SignedIn(page) /\ UNCHANGED <<hasApi, form, server>>
  BY DEF ProviderSignIn
<1>2. IsPage(page)' /\ ChoicesSurviveReload'
  BY <1>1, SignedInPage
<1> QED
  BY <1>1, <1>2 DEF IInv, SignInInv, OnboardingAfterSignIn, RequestIsForThisAddress, CodeIsForThisAddress

\* The last step: with an API the page is left and mounted anew.
LEMMA FinishStep ==
  ASSUME IInv, Finish
  PROVE  IInv'
<1>1. CASE hasApi
  BY <1>1, MountStep DEF Finish
<1>2. CASE ~hasApi
  <2>1. Persist([page EXCEPT !.screen = "app"]) /\ UNCHANGED <<hasApi, form, server>>
    BY <1>2 DEF Finish
  <2>2. IsPage([page EXCEPT !.screen = "app"])
    BY PageFields DEF IInv
  <2>3. IsPage(page)' /\ ChoicesSurviveReload'
    BY <2>1, <2>2, PersistedIsShown
  <2> QED
    BY <1>2, <2>1, <2>3
       DEF IInv, SignInInv, OnboardingAfterSignIn, RequestIsForThisAddress, CodeIsForThisAddress
<1> QED
  BY <1>1, <1>2
-------------------------------------------------------------------------------
LEMMA InitIInv == Init => IInv
<1> SUFFICES ASSUME Init PROVE IInv
  OBVIOUS
<1> DEFINE screen(ret, demo) == MountedScreen(FirstVisit, ret, demo)
           theme(demo) == IF demo = None THEN "light" ELSE demo.theme
<1>0. \A ret, demo : /\ demo = None => theme(demo) = "light" /\ (~ret => screen(ret, demo) = "landing")
                     /\ screen(ret, demo) \in {"signin", "landing"} \/ (demo # None /\ screen(ret, demo) = demo.screen)
  BY DEF MountedScreen, FirstVisit
<1>1. PICK ret \in BOOLEAN : \E demo \in Demos \cup {None} :
        page = [screen |-> screen(ret, demo), goals |-> Goals, connected |-> {}, models |-> {},
                autos |-> Autos, theme |-> theme(demo), api |-> FALSE, dialog |-> None, for |-> None,
                returnTo |-> ret, demo |-> demo]
  BY DEF Init, Mounted, FirstVisit
<1>5. PICK demo \in Demos \cup {None} :
        page = [screen |-> screen(ret, demo), goals |-> Goals, connected |-> {}, models |-> {},
                autos |-> Autos, theme |-> theme(demo), api |-> FALSE, dialog |-> None, for |-> None,
                returnTo |-> ret, demo |-> demo]
  BY <1>1
<1> HIDE DEF screen, theme
<1>6. /\ page.screen = screen(ret, demo) /\ page.theme = theme(demo)
      /\ page.returnTo = ret /\ page.demo = demo
      /\ page.goals = Goals /\ page.connected = {} /\ page.models = {} /\ page.autos = Autos
  BY <1>5
<1>7. IsPage(page)
  BY <1>5 DEF IsPage
<1>8. OnboardingAfterSignIn
  BY <1>0, <1>6 DEF OnboardingAfterSignIn, Onboarding
<1>9. ChoicesSurviveReload
  BY <1>0, <1>6 DEF ChoicesSurviveReload, Init, FirstVisit
<1>2. form = [email |-> Bad, code |-> Blank, codeSent |-> FALSE, busy |-> None]
  BY DEF Init, EmptyForm
<1>3. IsForm(form) /\ ~form.codeSent /\ form.busy = None
  BY <1>2 DEF IsForm
<1>4. IsServer(server)
  BY DEF Init, IsServer
<1> QED
  BY <1>3, <1>4, <1>7, <1>8, <1>9 DEF IInv, SignInInv, RequestIsForThisAddress, CodeIsForThisAddress

LEMMA NextIInv ==
  ASSUME IInv, [Next]_vars
  PROVE  IInv'
<1>1. CASE Navigate \/ Toggle \/ FinishConnect \/ FinishAccount \/ OpenDialog \/ CloseDialog
  BY <1>1, NavigateStep, ToggleStep, FinishDialogStep, DialogStep
<1>2. CASE \E e \in Emails \cup {Bad} : EditEmail(e)
  BY <1>2, EditEmailStep
<1>3. CASE \E c \in Emails \cup {Wrong} : EditCode(c)
  BY <1>3, EditCodeStep
<1>4. CASE EmailSubmit \/ StartAnswered \/ VerifyAnswered
  BY <1>4, SubmitStep, StartAnsweredStep, VerifyAnsweredStep
<1>5. CASE SignInFails \/ ProviderSignIn \/ Finish
  BY <1>5, SignInFailsStep, ProviderStep, FinishStep
<1>6. CASE HeroStep \/ HeroTypes \/ Replay
  BY <1>6, DemoStep DEF HeroStep, HeroTypes, Replay
<1>7. CASE FirstStep \/ Send \/ Approve \/ CallEnd \/ \E v : View(v)
  BY <1>7, DemoStep DEF FirstStep, Send, Approve, CallEnd, View
<1>8. CASE Reload
  BY <1>8, MountStep DEF Reload
<1>9. CASE UNCHANGED vars
  BY <1>9, DemoStep DEF vars
<1> QED
  BY <1>1, <1>2, <1>3, <1>4, <1>5, <1>6, <1>7, <1>8, <1>9 DEF Next

LEMMA AlwaysIInv == Spec => []IInv
<1>1. Init => IInv
  BY InitIInv
<1>2. IInv /\ [Next]_vars => IInv'
  BY NextIInv
<1> QED
  BY <1>1, <1>2, PTL DEF Spec

\* From the address to the first screen behind it nothing is skipped: no late
\* or lost answer, edit, reload or way back shows the field for the code of an
\* address that was mailed none, or a step to who proved no address, unless
\* the address of the page is that of a ?demo of the step (use-landing.ts,
\* email-sign-in.tsx).
THEOREM NobodySkipsTheSignIn == Spec => []SignInIsEarned
<1>1. IInv => SignInIsEarned
  BY DEF IInv, SignInInv, SignInIsEarned
<1> QED
  BY <1>1, AlwaysIInv, PTL

\* Whatever goals, sources, accounts and autopilots are chosen, a reload brings
\* them back, and without a ?demo the theme and without an API the screen
\* (persist() and the mount of use-landing.ts).  The API fallback is not among
\* them (LandingSwitch.cfg).
THEOREM NoChoiceIsLost == Spec => []ChoicesSurviveReload
<1>1. IInv => ChoicesSurviveReload
  BY DEF IInv
<1> QED
  BY <1>1, AlwaysIInv, PTL
===============================================================================
