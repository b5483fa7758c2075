------------------------------- MODULE Landing -------------------------------
(***************************************************************************)
(* The public page: features/landing/use-landing.ts with its markup,       *)
(* landing-view.tsx, email-sign-in.tsx and thread-shell.tsx.               *)
(*                                                                         *)
(* A section of the markup is an operator: the set of controls it offers   *)
(* in a state, each named after the handler it is bound to.  A visitor can *)
(* only do what a section on the page offers.  Timers are variables that   *)
(* hold what will run when they fire.                                      *)
(***************************************************************************)
EXTENDS Integers, Sequences, FiniteSets

CONSTANTS
  Emails,     \* well-formed addresses the visitor may type
  Bad,        \* a text that is not an address
  Blank, Wrong, \* no code; a code nobody mailed
  Goals, Sources, Models, Autos,  \* what the visitor may choose
  DemoScreens, \* the screens ?demo addresses ask for with &screen
  None,
  MaxChoices, \* bound on choices, replays, reloads, moves in the first-run workspace
  MaxEdits    \* bound on texts typed and requests that fail

ASSUME LandingConstants ==
  /\ Emails \cap {Bad, Blank, Wrong} = {}
  /\ "claude" \in Models
  /\ {MaxChoices, MaxEdits} \subseteq Nat
  /\ None \notin [screen : DemoScreens, idx : Nat, intro : Nat, theme : {"light", "dark"}]

VARIABLES
  hasApi,  \* the page was built with the address of an API
  page,    \* LandingState without the animations
  form,    \* the sign-in form: address, code, what is in flight
  server,  \* addresses a code was mailed to; whether the visitor proved one
  stored,  \* localStorage: what persist() wrote, FirstVisit when it never did
  hero,    \* the demo of the first screen and its two timers
  first,   \* the first-run workspace: introduction, live run and their timer
  left     \* bounds

vars == <<hasApi, page, form, server, stored, hero, first, left>>

Screens == {"landing", "signin", "goals", "connect", "models", "autos", "app"}
Onboarding == Screens \ {"landing", "signin"}

(* The frames of the demo, SEQ, and the introduction, INTRO. *)
Frames == <<"start", "ev", "ap", "op", "planR", "planD", "implR", "route", "implD", "revR",
         "revD", "verR", "verD", "result", "type", "sent", "merged">>
At(n) == (CHOOSE i \in 1 .. Len(Frames) : Frames[i] = n) - 1
Last == Len(Frames)
Intro == 6

(* An address with ?demo freezes the page at a frame of a screen: here the   *)
(* first one or the one that waits for an approval, before or after the      *)
(* introduction.                                                             *)
Demos ==
  [screen : DemoScreens, idx : {0, At("result")}, intro : {0, Intro}, theme : {"light", "dark"}]

-----------------------------------------------------------------------------
(* What the markup shows of a demo at frame idx; "typed" is the answer the   *)
(* demo's visitor is typing, "pressed" whether this page's visitor approved. *)

Sent(idx) == idx >= At("sent")
Merged(idx, pressed) == pressed \/ idx >= At("merged")

NeedsYou(idx, pressed) == idx >= At("result") /\ ~Merged(idx, pressed) /\ ~Sent(idx)

-----------------------------------------------------------------------------
(* The markup.                                                              *)

Header == IF page.screen = "landing" THEN {"openApps", "startFree"} ELSE {}

Hero == IF page.screen = "landing" THEN {"startFree", "openMac", "replay"} ELSE {}

Platforms == IF page.screen = "landing" THEN {"openMac", "openApps", "openWin", "openIos", "openAndroid"} ELSE {}

Pricing == IF page.screen = "landing" THEN {"startFree", "openMeters"} ELSE {}

Foot == IF page.screen = "landing" THEN {"startFree", "openMac", "openApps", "toggleTheme"} ELSE {}

(* The address can not be edited while a request is in flight, the code can. *)
EmailSignIn ==
  (IF form.busy = None THEN {"editEmail", "emailSignIn"} ELSE {})
    \cup (IF form.codeSent THEN {"editCode"} ELSE {})

SignInScreen ==
  IF page.screen = "signin" THEN {"back", "googleSignIn", "githubSignIn"} \cup EmailSignIn ELSE {}

GoalsScreen == IF page.screen = "goals" THEN {"back", "toConnect", "goal"} ELSE {}

ConnectScreen == IF page.screen = "connect" THEN {"back", "toModels", "connect", "backGoals"} ELSE {}

ModelsScreen == IF page.screen = "models" THEN {"back", "toAutos", "account", "model", "toggleApi", "backConnect"} ELSE {}

AutosScreen == IF page.screen = "autos" THEN {"back", "auto", "finish", "backModels"} ELSE {}

AppScreen == page.screen = "app"

ConnectDialog == IF page.dialog = "connect" THEN {"closeDialog", "finishConnect"} ELSE {}

AccountDialog == IF page.dialog = "account" THEN {"provider", "closeDialog", "finishAccount"} ELSE {}

PlansAndReceipt == IF page.dialog \in {"plans", "receipt"} THEN {"closeDialog"} ELSE {}

MetersDialog == IF page.dialog = "meters" THEN {"closeDialog"} ELSE {}

AppsDialog ==
  IF page.dialog = "apps"
  THEN {"closeDialog", "openMac", "openWin", "openIos", "openAndroid", "fakeDownload"}
  ELSE {}

(* The miniature workspace, here on the application's screen. *)
ShellNavigation == IF AppScreen THEN {"chat", "work", "schedule", "plugins"} ELSE {}

ShellThreads == IF AppScreen THEN {"thread", "getApps", "openPlans"} ELSE {}

ShellTopbar == IF AppScreen THEN {"toggleTheme"} ELSE {}

Conversing == AppScreen /\ first.view \in {"thread", "chat", "intro"}

ShellComposer == IF Conversing /\ ~first.said THEN {"send"} ELSE {}

ShellChat == IF AppScreen /\ first.view = "chat" THEN {"work", "thread", "plugins"} ELSE {}

ShellWork == IF AppScreen /\ first.view = "work" THEN {"thread"} ELSE {}

ShellPlugins == IF AppScreen /\ first.view = "plugins" THEN {"thread"} ELSE {}

ShellSchedule == IF AppScreen /\ first.view = "schedule" THEN {"thread"} ELSE {}

Live == IF first.live > 0 THEN first.live ELSE 0

ShellApproval ==
  IF AppScreen /\ first.view = "thread"
  THEN {"openReceipt", "getApps"} \cup (IF NeedsYou(Live, first.merged) THEN {"approve"} ELSE {})
  ELSE {}

ShellCall == IF AppScreen /\ first.view = "intro" /\ ~first.callEnded THEN {"callEnd"} ELSE {}

Shell ==
  ShellNavigation \cup ShellThreads \cup ShellTopbar \cup ShellApproval \cup ShellCall
    \cup ShellComposer \cup ShellChat \cup ShellWork \cup ShellPlugins \cup ShellSchedule

Sections == Header \cup Hero \cup Platforms \cup Pricing \cup Foot
Steps == GoalsScreen \cup ConnectScreen \cup ModelsScreen \cup AutosScreen
Dialogs == ConnectDialog \cup AccountDialog \cup PlansAndReceipt \cup MetersDialog \cup AppsDialog

(* A dialog's shade covers the rest of the page. *)
Offered == IF page.dialog # None THEN Dialogs ELSE Sections \cup SignInScreen \cup Steps \cup Shell

-----------------------------------------------------------------------------
(* The page is mounted: what was stored comes back, its screen only without  *)
(* an API.  An address with ?demo then has the last word on the screen and   *)
(* the theme, and nothing moves on it; one with ?returnTo opens the sign-in. *)

FirstVisit ==
  [screen |-> "landing", goals |-> Goals, connected |-> {}, models |-> {}, autos |-> Autos,
   theme |-> "light"]

MountedScreen(s, ret, demo) ==
  CASE demo # None -> demo.screen
    [] demo = None /\ ret -> "signin"
    [] demo = None /\ ~ret /\ hasApi -> "landing"
    [] OTHER -> s.screen

Mounted(s, ret, demo) ==
  [screen |-> MountedScreen(s, ret, demo), goals |-> s.goals, connected |-> s.connected,
   models |-> s.models, autos |-> s.autos, theme |-> IF demo = None THEN s.theme ELSE demo.theme,
   api |-> FALSE, dialog |-> None, for |-> None, returnTo |-> ret, demo |-> demo]

NoFirst == [view |-> "thread", live |-> -1, intro |-> 0, merged |-> FALSE, callEnded |-> FALSE,
            said |-> FALSE, next |-> None]

Frozen(demo) ==
  [NoFirst EXCEPT !.view = IF demo.intro > 0 THEN "intro" ELSE "thread",
                  !.live = IF demo.screen = "app" THEN demo.idx ELSE -1,
                  !.intro = demo.intro]

Resumed(s) == ~hasApi /\ s.screen = "app"

Frame(i) == [kind |-> "live", at |-> i]
Row(i) == [kind |-> "intro", at |-> i]

(* startLive(): the run's first frame now, the next ones by timer; what was  *)
(* written before is gone.                                                   *)
StartLive(f) == [f EXCEPT !.live = 1, !.merged = FALSE, !.said = FALSE, !.next = Frame(2)]

StartIntro ==
  [view |-> "intro", live |-> -1, intro |-> 0, merged |-> FALSE, callEnded |-> FALSE,
   said |-> FALSE, next |-> Row(1)]

FirstAt(s, demo) ==
  CASE demo # None -> Frozen(demo)
    [] demo = None /\ Resumed(s) -> StartLive(NoFirst)
    [] OTHER -> NoFirst

HeroAt(i) == [idx |-> i, typed |-> IF i > At("type") THEN "all" ELSE "none"]

DemoAt(demo) ==
  IF demo = None THEN [show |-> HeroAt(0), step |-> 1, typing |-> None]
  ELSE [show |-> HeroAt(demo.idx), step |-> None, typing |-> None]

EmptyForm == [email |-> Bad, code |-> Blank, codeSent |-> FALSE, busy |-> None]

Init ==
  /\ hasApi \in BOOLEAN
  /\ stored = FirstVisit
  /\ \E ret \in BOOLEAN : \E demo \in Demos \cup {None} :
        /\ page = Mounted(FirstVisit, ret, demo)
        /\ hero = DemoAt(demo)
        /\ first = FirstAt(FirstVisit, demo)
  /\ form = EmptyForm
  /\ server = [mailed |-> {}, proved |-> FALSE]
  /\ left = [choices |-> MaxChoices, edits |-> MaxEdits]

(* Everything in memory goes, what was stored comes back. *)
Mount ==
  /\ page' = Mounted(stored, page.returnTo, page.demo)
  /\ form' = EmptyForm
  /\ hero' = DemoAt(page.demo)
  /\ first' = FirstAt(stored, page.demo)
  /\ UNCHANGED stored

Reload ==
  /\ left.choices > 0
  /\ left' = [left EXCEPT !.choices = @ - 1]
  /\ Mount
  /\ UNCHANGED <<hasApi, server>>

-----------------------------------------------------------------------------
(* persist() stores the screen and five of the choices, patch() nothing.    *)

Persist(p) ==
  /\ page' = p
  /\ stored' = [screen |-> p.screen, goals |-> p.goals, connected |-> p.connected,
                models |-> p.models, autos |-> p.autos, theme |-> p.theme]

Patch(p) == page' = p /\ UNCHANGED stored

Choose == left.choices > 0 /\ left' = [left EXCEPT !.choices = @ - 1]

Go(control, screen) ==
  /\ control \in Offered
  /\ Persist([page EXCEPT !.screen = screen])
  /\ UNCHANGED <<hasApi, form, server, hero, first, left>>

Navigate ==
  \/ Go("startFree", "signin")
  \/ Go("back", "landing")
  \/ Go("toConnect", "connect") \/ Go("backGoals", "goals")
  \/ Go("toModels", "models") \/ Go("backConnect", "connect")
  \/ Go("toAutos", "autos") \/ Go("backModels", "models")

(* signedIn(): with an API and a destination the browser leaves the page.    *)
SignedIn(p) ==
  IF hasApi /\ p.returnTo
  THEN Patch(p)
  ELSE Persist([p EXCEPT !.screen = "goals", !.dialog = None, !.for = None])

Toggled(set, x) == IF x \in set THEN set \ {x} ELSE set \cup {x}

(* A fault for the runs to find: a choice is kept in memory only. *)
ToggleChoice_Patches(p) == Patch(p)

ToggleChoice(p) == Persist(p)

Toggle ==
  /\ Choose
  /\ \/ "goal" \in Offered /\ \E g \in Goals : ToggleChoice([page EXCEPT !.goals = Toggled(@, g)])
     \/ "model" \in Offered /\ ToggleChoice([page EXCEPT !.models = Toggled(@, "nounc")])
     \/ "auto" \in Offered /\ \E a \in Autos : ToggleChoice([page EXCEPT !.autos = Toggled(@, a)])
     \/ "toggleTheme" \in Offered
        /\ Persist([page EXCEPT !.theme = IF @ = "dark" THEN "light" ELSE "dark"])
     \/ "toggleApi" \in Offered /\ Persist([page EXCEPT !.api = ~@])
  /\ UNCHANGED <<hasApi, form, server, hero, first>>

Open(control, dialog, for) ==
  /\ control \in Offered
  /\ Patch([page EXCEPT !.dialog = dialog, !.for = for])
  /\ UNCHANGED <<hasApi, form, server, hero, first, left>>

OpenDialog ==
  \/ \E s \in Sources \ page.connected : Open("connect", "connect", s)
  \/ \E m \in Models \ page.models : Open("account", "account", m)
  \/ \E c \in {"openApps", "openMac", "openWin", "openIos", "openAndroid", "getApps"} : Open(c, "apps", None)
  \/ Open("openMeters", "meters", None)
  \/ Open("openReceipt", "receipt", None)
  \/ Open("openPlans", "plans", None)

(* The close button, the shade, Escape, the fake download. *)
CloseDialog ==
  /\ Offered \cap {"closeDialog", "fakeDownload"} # {}
  /\ Patch([page EXCEPT !.dialog = None, !.for = None])
  /\ UNCHANGED <<hasApi, form, server, hero, first, left>>

FinishConnect ==
  /\ "finishConnect" \in Offered /\ Choose
  /\ Persist([page EXCEPT !.connected = @ \cup {page.for}, !.dialog = None, !.for = None])
  /\ UNCHANGED <<hasApi, form, server, hero, first>>

(* The dialog adds the account it was opened for, or the provider picked.    *)
FinishAccount ==
  /\ Choose
  /\ \/ "finishAccount" \in Offered
        /\ Persist([page EXCEPT !.models = @ \cup {page.for}, !.dialog = None, !.for = None])
     \/ "provider" \in Offered
        /\ \E m \in Models : Persist([page EXCEPT !.models = @ \cup {m}, !.dialog = None, !.for = None])
  /\ UNCHANGED <<hasApi, form, server, hero, first>>

-----------------------------------------------------------------------------
(* Signing in.                                                              *)

Edit == left.edits > 0 /\ left' = [left EXCEPT !.edits = @ - 1]

(* A fault for the runs to find: the form keeps its code for a new address. *)
Readdressed_KeepsCode(e) == [form EXCEPT !.email = e]

Readdressed(e) == [form EXCEPT !.email = e, !.codeSent = FALSE, !.code = Blank]

EditEmail(e) ==
  /\ "editEmail" \in Offered /\ Edit
  /\ e # form.email
  /\ form' = Readdressed(e)
  /\ UNCHANGED <<hasApi, page, server, stored, hero, first>>

(* The visitor copies a code from a mail, or mistypes it. *)
EditCode(c) ==
  /\ "editCode" \in Offered /\ Edit
  /\ c \in server.mailed \cup {Wrong}
  /\ form' = [form EXCEPT !.code = c]
  /\ UNCHANGED <<hasApi, page, server, stored, hero, first>>

Request == [kind |-> IF form.codeSent THEN "verify" ELSE "start", email |-> form.email, code |-> form.code]

EmailSubmit ==
  /\ "emailSignIn" \in Offered
  /\ form.email # Bad /\ form.busy = None
  /\ form.codeSent => form.code # Blank
  /\ IF hasApi
     THEN form' = [form EXCEPT !.busy = Request] /\ UNCHANGED <<page, stored>>
     ELSE SignedIn(page) /\ UNCHANGED form
  /\ UNCHANGED <<hasApi, server, hero, first, left>>

(* A fault for the runs to find: both answers sign the visitor in. *)
StartAnswered_SignsIn ==
  /\ form.busy # None /\ form.busy.kind = "start"
  /\ server' = [server EXCEPT !.mailed = @ \cup {form.busy.email}]
  /\ form' = [form EXCEPT !.codeSent = TRUE, !.busy = None]
  /\ SignedIn(page)
  /\ UNCHANGED <<hasApi, hero, first, left>>

StartAnswered ==
  /\ form.busy # None /\ form.busy.kind = "start"
  /\ server' = [server EXCEPT !.mailed = @ \cup {form.busy.email}]
  /\ form' = [form EXCEPT !.codeSent = TRUE, !.busy = None]
  /\ UNCHANGED <<hasApi, page, stored, hero, first, left>>

VerifyAnswered ==
  /\ form.busy # None /\ form.busy.kind = "verify"
  /\ form' = [form EXCEPT !.busy = None]
  /\ IF form.busy.code = form.busy.email
     THEN server' = [server EXCEPT !.proved = TRUE] /\ SignedIn(page)
     ELSE UNCHANGED <<server, page, stored>>
  /\ UNCHANGED <<hasApi, hero, first, left>>

(* The request does not reach the server, or its answer is lost. *)
SignInFails ==
  /\ form.busy # None /\ Edit
  /\ form' = [form EXCEPT !.busy = None]
  /\ \/ UNCHANGED server
     \/ form.busy.kind = "start" /\ server' = [server EXCEPT !.mailed = @ \cup {form.busy.email}]
     \/ form.busy.kind = "verify" /\ form.busy.code = form.busy.email
        /\ server' = [server EXCEPT !.proved = TRUE]
  /\ UNCHANGED <<hasApi, page, stored, hero, first>>

(* Google and GitHub: the browser leaves the page, unless there is no API.   *)
ProviderSignIn ==
  /\ Offered \cap {"googleSignIn", "githubSignIn"} # {}
  /\ ~hasApi
  /\ SignedIn(page)
  /\ UNCHANGED <<hasApi, form, server, hero, first, left>>

(* finish(): with an API the browser goes to /w, and the page is mounted     *)
(* anew when the visitor comes back.                                         *)
Finish ==
  /\ "finish" \in Offered
  /\ IF hasApi
     THEN Mount
     ELSE /\ Persist([page EXCEPT !.screen = "app"])
          /\ first' = StartIntro
          /\ UNCHANGED <<form, hero>>
  /\ UNCHANGED <<hasApi, server, left>>

-----------------------------------------------------------------------------
(* The demo of the first screen: run(i).                                    *)

Ran(i) ==
  IF page.screen # "landing" THEN [hero EXCEPT !.step = 0, !.typing = None]
  ELSE LET j == IF i >= Last THEN 0 ELSE i
       IN  [show |-> HeroAt(j),
            step |-> IF Frames[j + 1] = "type" THEN None ELSE j + 1,
            typing |-> IF Frames[j + 1] = "type" THEN j ELSE None]

HeroStep ==
  /\ hero.step # None
  /\ hero' = Ran(hero.step)
  /\ UNCHANGED <<hasApi, page, form, server, stored, first, left>>

(* The interval types a character; after the last one the next frame is set. *)
HeroTypes ==
  /\ hero.typing # None
  /\ \/ hero' = [hero EXCEPT !.show.typed = "part"] /\ hero.show.typed = "none"
     \/ hero' = [hero EXCEPT !.show.typed = "all"] /\ hero.show.typed = "part"
     \/ hero' = [hero EXCEPT !.typing = None, !.step = hero.typing + 1] /\ hero.show.typed = "all"
  /\ UNCHANGED <<hasApi, page, form, server, stored, first, left>>

Replay ==
  /\ "replay" \in Offered /\ Choose
  /\ hero' = Ran(0)
  /\ UNCHANGED <<hasApi, page, form, server, stored, first>>

-----------------------------------------------------------------------------
(* The first-run workspace.                                                 *)

(* A fault for the runs to find: the introduction stops at its last row. *)
IntroStep_Stops(f) ==
  [f EXCEPT !.intro = f.next.at, !.next = IF f.next.at >= Intro THEN None ELSE Row(f.next.at + 1)]

IntroStep(f) ==
  IF f.next.at > Intro THEN StartLive([f EXCEPT !.view = "thread"])
  ELSE [f EXCEPT !.intro = f.next.at, !.next = Row(f.next.at + 1)]

(* The live run stops where the demo's visitor would type an answer. *)
LiveStep(f) ==
  IF Frames[f.next.at + 1] = "type" THEN [f EXCEPT !.next = None]
  ELSE [f EXCEPT !.live = f.next.at, !.next = Frame(f.next.at + 1)]

FirstStep ==
  /\ first.next # None
  /\ first' = IF first.next.kind = "intro" THEN IntroStep(first) ELSE LiveStep(first)
  /\ UNCHANGED <<hasApi, page, form, server, stored, hero, left>>

View(v) ==
  /\ v \in Offered /\ first.view # v /\ Choose
  /\ first' = [first EXCEPT !.view = v]
  /\ UNCHANGED <<hasApi, page, form, server, stored, hero>>

Send ==
  /\ "send" \in Offered /\ Choose
  /\ first' = [first EXCEPT !.said = TRUE]
  /\ UNCHANGED <<hasApi, page, form, server, stored, hero>>

Approve ==
  /\ "approve" \in Offered
  /\ first' = [first EXCEPT !.merged = TRUE]
  /\ UNCHANGED <<hasApi, page, form, server, stored, hero, left>>

CallEnd ==
  /\ "callEnd" \in Offered /\ Choose
  /\ first' = [first EXCEPT !.callEnded = TRUE]
  /\ UNCHANGED <<hasApi, page, form, server, stored, hero>>

Next ==
  \/ Navigate \/ Toggle \/ OpenDialog \/ CloseDialog \/ FinishConnect \/ FinishAccount
  \/ \E e \in Emails \cup {Bad} : EditEmail(e)
  \/ \E c \in Emails \cup {Wrong} : EditCode(c)
  \/ EmailSubmit \/ StartAnswered \/ VerifyAnswered \/ SignInFails \/ ProviderSignIn \/ Finish
  \/ HeroStep \/ HeroTypes \/ Replay
  \/ FirstStep \/ Send \/ Approve \/ CallEnd
  \/ \E v \in {"thread", "chat", "work", "schedule", "plugins"} : View(v)
  \/ Reload

(* Timers fire. *)
Fairness == WF_vars(HeroStep) /\ WF_vars(HeroTypes) /\ WF_vars(FirstStep)

Spec == Init /\ [][Next]_vars /\ Fairness

-----------------------------------------------------------------------------
(* The form asks for a code only when one was mailed to the address it       *)
(* shows, whatever was edited while requests were in flight.                 *)
CodeIsForThisAddress == form.codeSent => form.email \in server.mailed

(* With an API the steps after the sign-in are reached only by who proved an *)
(* address: no reload, no way back and no late answer opens them.  The one   *)
(* way around it is an address whose ?demo asks for such a step outright.    *)
OnboardingAfterSignIn ==
  hasApi /\ page.screen \in Onboarding =>
    server.proved \/ (page.demo # None /\ page.demo.screen \in Onboarding)

(* Both: from the address to the first screen behind it nothing is skipped.  *)
SignInIsEarned == CodeIsForThisAddress /\ OnboardingAfterSignIn

(* What a reload would bring back of the goals, sources, accounts and        *)
(* autopilots is what the page shows: each was stored as it was chosen.  So  *)
(* it is of the theme and, without an API, of the screen, unless the address *)
(* has a say in them.                                                        *)
ChoicesSurviveReload ==
  /\ stored.goals = page.goals /\ stored.connected = page.connected
  /\ stored.models = page.models /\ stored.autos = page.autos
  /\ page.demo = None => stored.theme = page.theme
  /\ page.demo = None /\ ~hasApi /\ ~page.returnTo => stored.screen = page.screen

(* That a reload brings back every switch of the steps does not hold: the    *)
(* API fallback is handed to persist(), which does not store it.             *)
EverySwitchSurvivesReload == page.api = Mounted(stored, page.returnTo, page.demo).api

(* Once the introduction runs, the first pull request comes to wait for its  *)
(* approval, unless the page is mounted anew on the way.                     *)
FirstFixArrives ==
  (first.next # None) ~>
    (first.live >= At("result") \/ first = FirstAt(FirstVisit, page.demo))
=============================================================================
