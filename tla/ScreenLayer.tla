----------------------------- MODULE ScreenLayer -----------------------------
(***************************************************************************)
(* The web overlay and the player's input.  Screens are frames of a page   *)
(* that runs in the browser process (dist/mods/ui/web/ui/ui.js); the game  *)
(* asks it to show and hide screens by scripts, and the page answers with  *)
(* queries: show or hide the overlay, capture or release the input         *)
(* (Web/Ui/ScreenLayer.cpp, Web/WebRenderer.cpp).  While input is captured *)
(* a context lies on the stack of Patches/Input.cpp and the game gets none *)
(* of it; the contexts are taken off the stack by the game's own input     *)
(* update, one at a time.                                                  *)
(*                                                                         *)
(* Scripts and queries arrive in the order they are sent and any time      *)
(* later.  The queries that are there when a frame handles them are that   *)
(* many steps in a row.  Not modelled: the keys for debugging the page and *)
(* the renderer before it is initialized or after it is shut down.         *)
(***************************************************************************)
EXTENDS Integers, Sequences

CONSTANTS
  Screens,
  CaptureScreens,     \* the screens screens.json gives captureInput
  ToggleScreens,      \* the screens whose script changes it (chat.js)
  KeyScreens,         \* the screens a key of the game asks for (console, chat)
  InputTypes,
  MaxScripts, MaxQueries, MaxContexts    \* bounds on what is under way and the stack

ASSUME ScreensAssumption ==
  CaptureScreens \cup ToggleScreens \cup KeyScreens \subseteq Screens
ASSUME BoundsAssumption == MaxScripts \in Nat /\ MaxQueries \in Nat /\ MaxContexts \in Nat

VARIABLES
  \* --- ui.js
  page,               \* "blank", "script" (ui is there), "json" (screens.json is
                      \* being loaded) or "ready"
  deferred,           \* screens requested until screens.json is loaded
  state, loaded, captureInput,           \* the fields of each screen
  \* --- between the processes
  scripts,            \* ExecuteJavascript: <<"request" or "hide", screen>>
  queries,            \* "show", "hide", "capture", "release"
  \* --- ScreenLayer.cpp and WebRenderer.cpp
  rendering,          \* the renderer's state is Overlay, not Hidden
  InputCaptured,
  \* --- Input.cpp
  contexts,           \* the height of contextStack
  contextDone,
  blockStates,        \* what is blocked when the contexts are done
  blocked,            \* what the engine blocks
  \* --- history
  asked,              \* the screens last asked to show, not to hide, since ui.js
                      \* loads screens.json
  wanted,             \* what the game last asked to block
  early               \* the screens whose last call was to hide them, made while
                      \* screens.json was loading and a request was kept

uiVars      == <<page, deferred, state, loaded, captureInput, asked, early>>
overlayVars == <<rendering, InputCaptured>>
inputVars   == <<contexts, contextDone, blockStates, blocked, wanted>>
vars == <<uiVars, scripts, queries, overlayVars, inputVars>>

-----------------------------------------------------------------------------
(* ui.js                                                                   *)

Visible(st) == {s \in Screens : st[s] = "visible"}

\* Mutant: the input is captured before the overlay is shown.
OverlayQueriesSwapped(st, capture) ==
  <<IF \E s \in Visible(st) : capture[s] THEN "capture" ELSE "release",
    IF Visible(st) # {} THEN "show" ELSE "hide">>

\* What updateOverlay asks of the game.
OverlayQueries(st, capture) ==
  <<IF Visible(st) # {} THEN "show" ELSE "hide",
    IF \E s \in Visible(st) : capture[s] THEN "capture" ELSE "release">>

UpdateOverlay ==
  /\ Len(queries) + 2 <= MaxQueries
  /\ queries' = queries \o OverlayQueries(state', captureInput')

ShowScreen(s, show) ==
  /\ state' = [state EXCEPT ![s] = IF show THEN "visible" ELSE "hidden"]
  /\ UNCHANGED captureInput
  /\ UpdateOverlay

\* Mutant: a request is not kept until screens.json is loaded.
DeferredNever(s) == deferred

\* requestScreen keeps a request until screens.json is loaded.
Deferred(s) == deferred \cup {s}

\* requestScreen: before screens.json is asked for the screen is not defined.
RequestScreen(s) ==
  /\ \/ page = "script" /\ UNCHANGED <<deferred, state, captureInput, queries>>
     \/ page = "json" /\ deferred' = Deferred(s) /\ UNCHANGED <<state, captureInput, queries>>
     \/ page = "ready" /\ loaded[s] /\ ShowScreen(s, TRUE) /\ UNCHANGED deferred
     \/ /\ page = "ready" /\ ~loaded[s]
        /\ state' = [state EXCEPT ![s] = "waiting"]
        /\ UNCHANGED <<deferred, captureInput, queries>>
  /\ asked' = IF page = "script" THEN asked ELSE asked \cup {s}
  /\ early' = early \ {s}
  /\ UNCHANGED <<page, loaded>>

\* hideScreen: a screen that is not defined yet cannot be hidden.
HideScreen(s) ==
  /\ IF page = "ready" THEN ShowScreen(s, FALSE) ELSE UNCHANGED <<state, captureInput, queries>>
  /\ asked' = asked \ {s}
  /\ early' = IF s \in deferred THEN early \cup {s} ELSE early \ {s}
  /\ UNCHANGED <<page, deferred, loaded>>

\* ui.js is run.
PageRuns ==
  /\ page = "blank"
  /\ page' = "script"
  /\ UNCHANGED <<deferred, state, loaded, captureInput, asked, early, scripts, queries,
                 overlayVars, inputVars>>

\* $(window).load: screens.json is asked for.
WindowLoads ==
  /\ page = "script"
  /\ page' = "json"
  /\ UNCHANGED <<deferred, state, loaded, captureInput, asked, early, scripts, queries,
                 overlayVars, inputVars>>

\* screens.json is there: the screens are created, their frames begin to load and
\* the requests that were kept are made.
ScreensLoad ==
  /\ page = "json"
  /\ page' = "ready"
  /\ state' = [s \in Screens |-> IF s \in deferred THEN "waiting" ELSE state[s]]
  /\ deferred' = {}
  /\ UNCHANGED <<loaded, captureInput, asked, early, scripts, queries, overlayVars, inputVars>>

\* createFrame: once the screen loads it is shown if it should be visible.
ShowsOnceLoaded(s) == state[s] = "waiting"

FrameLoads(s) ==
  /\ page = "ready" /\ ~loaded[s]
  /\ loaded' = [loaded EXCEPT ![s] = TRUE]
  /\ IF ShowsOnceLoaded(s) THEN ShowScreen(s, TRUE)
     ELSE UNCHANGED <<state, captureInput, queries>>
  /\ UNCHANGED <<page, deferred, asked, early, scripts, overlayVars, inputVars>>

\* A script of the game is run; a page without ui ignores it.
RunScript ==
  /\ scripts # <<>>
  /\ scripts' = Tail(scripts)
  /\ LET call == Head(scripts)
     IN IF page = "blank" THEN UNCHANGED <<uiVars, queries>>
        ELSE IF call[1] = "request" THEN RequestScreen(call[2])
        ELSE HideScreen(call[2])
  /\ UNCHANGED <<overlayVars, inputVars>>

\* dew.hide, dew.show and dew.captureInput: a screen that has loaded hides or
\* shows itself or another screen, or changes whether it captures input.
ScreenHides(s, t) ==
  /\ loaded[s]
  /\ HideScreen(t)
  /\ UNCHANGED <<scripts, overlayVars, inputVars>>

ScreenShows(s, t) ==
  /\ loaded[s]
  /\ RequestScreen(t)
  /\ UNCHANGED <<scripts, overlayVars, inputVars>>

SetCaptureState(s, capture) ==
  /\ loaded[s] /\ s \in ToggleScreens
  /\ captureInput' = [captureInput EXCEPT ![s] = capture]
  /\ UNCHANGED state
  /\ UpdateOverlay
  /\ UNCHANGED <<page, deferred, loaded, asked, early, scripts, overlayVars, inputVars>>

-----------------------------------------------------------------------------
(* Patches/Input.cpp: the stack of contexts.                               *)

All(b) == [t \in InputTypes |-> b]

PushContext ==
  /\ contexts < MaxContexts
  /\ contexts' = contexts + 1
  /\ blocked' = IF contexts = 0 THEN All(TRUE) ELSE blocked

\* Mutant: a context goes on as long as the overlay shows.
ContextKeepsRendering == rendering

\* GameInputTick and UiInputTick of the overlay's context: whether it goes on.
ContextKeeps == rendering /\ InputCaptured

\* The active context is ticked, and the engine's input is blocked after it.
TickContext(doneBefore) ==
  /\ InputCaptured' = (rendering /\ InputCaptured)
  /\ contextDone' = (doneBefore \/ ~ContextKeeps)
  /\ blocked' = All(TRUE)

\* Mutant: a context that is done stays done for the next one.
StillDone == contextDone

\* contextDone after PopContext.
DoneAfterPop == FALSE

\* The contexts that are left when a finished one has been popped.
Remaining == IF contextDone THEN contexts - 1 ELSE contexts

\* UpdateInputHook: a finished context is popped, then the active one is ticked; with
\* no context the default handlers may see the key of a screen.
UpdateInputHook ==
  /\ contexts' = Remaining
  /\ \/ Remaining # 0 /\ TickContext(DoneAfterPop) /\ UNCHANGED scripts
     \/ /\ Remaining = 0
        /\ contextDone' = DoneAfterPop
        /\ blocked' = IF contextDone THEN blockStates ELSE blocked
        /\ UNCHANGED InputCaptured
        /\ \/ UNCHANGED scripts
           \/ /\ Len(scripts) < MaxScripts
              /\ \E s \in KeyScreens : scripts' = Append(scripts, <<"request", s>>)
  /\ UNCHANGED <<uiVars, queries, rendering, blockStates, wanted>>

\* UiInputTick, from ProcessUiInputHook and QuickUpdateUiInputHook.
UiInputTick ==
  /\ contexts > 0
  /\ TickContext(contextDone)
  /\ UNCHANGED <<uiVars, scripts, queries, rendering, contexts, blockStates, wanted>>

\* Mutant: what the game asks to block during a context is forgotten.
SavedWithoutContext(t, b) ==
  IF contexts = 0 THEN [blockStates EXCEPT ![t] = b] ELSE blockStates

\* What BlockInputHook keeps for when the contexts are done.
Saved(t, b) == [blockStates EXCEPT ![t] = b]

BlockInputHook(t, b) ==
  /\ blocked' = IF contexts = 0 THEN [blocked EXCEPT ![t] = b] ELSE blocked
  /\ blockStates' = Saved(t, b)
  /\ wanted' = [wanted EXCEPT ![t] = b]
  /\ UNCHANGED <<uiVars, scripts, queries, overlayVars, contexts, contextDone>>

-----------------------------------------------------------------------------
(* ScreenLayer.cpp and the queries of the page.                            *)

\* Mutant: no second context is pushed over one that is on the stack.
PushFirstContext ==
  IF contexts = 0 THEN PushContext ELSE UNCHANGED <<contexts, blocked>>

\* The context CaptureInput makes.
PushOverlayContext == PushContext

\* CaptureInput does nothing when nothing changes or the overlay does not show.
CaptureInput(capture) ==
  IF InputCaptured = capture \/ (capture /\ ~rendering)
    THEN UNCHANGED <<InputCaptured, contexts, blocked>>
    ELSE /\ InputCaptured' = capture
         /\ IF capture THEN PushOverlayContext ELSE UNCHANGED <<contexts, blocked>>

\* Update of the query handler, one query.
HandleQuery ==
  /\ queries # <<>>
  /\ queries' = Tail(queries)
  /\ LET query == Head(queries)
     IN \/ /\ query \in {"show", "hide"}
           /\ rendering' = (query = "show")
           /\ UNCHANGED <<InputCaptured, contexts, blocked>>
        \/ /\ query \in {"capture", "release"}
           /\ CaptureInput(query = "capture")
           /\ UNCHANGED rendering
  /\ UNCHANGED <<uiVars, scripts, contextDone, blockStates, wanted>>

\* ScreenLayer::Show and Hide of the game's parts: loading, voting, title, menus.
GameShows(s) ==
  /\ Len(scripts) < MaxScripts
  /\ scripts' = Append(scripts, <<"request", s>>)
  /\ UNCHANGED <<uiVars, queries, overlayVars, inputVars>>

GameHides(s) ==
  /\ Len(scripts) < MaxScripts
  /\ scripts' = Append(scripts, <<"hide", s>>)
  /\ UNCHANGED <<uiVars, queries, overlayVars, inputVars>>

-----------------------------------------------------------------------------
Init ==
  /\ page = "blank" /\ deferred = {} /\ asked = {} /\ early = {}
  /\ state = [s \in Screens |-> "hidden"]
  /\ loaded = [s \in Screens |-> FALSE]
  /\ captureInput = [s \in Screens |-> s \in CaptureScreens]
  /\ scripts = <<>> /\ queries = <<>>
  /\ rendering = FALSE /\ InputCaptured = FALSE
  /\ contexts = 0 /\ contextDone = FALSE
  /\ blockStates = All(FALSE) /\ blocked = All(FALSE) /\ wanted = All(FALSE)

Next ==
  \/ PageRuns \/ WindowLoads \/ ScreensLoad \/ RunScript
  \/ \E s \in Screens : FrameLoads(s) \/ GameShows(s) \/ GameHides(s)
  \/ \E s, t \in Screens : ScreenShows(s, t) \/ ScreenHides(s, t)
  \/ \E s \in Screens, capture \in BOOLEAN : SetCaptureState(s, capture)
  \/ HandleQuery \/ UpdateInputHook \/ UiInputTick
  \/ \E t \in InputTypes, b \in BOOLEAN : BlockInputHook(t, b)

Spec == Init /\ [][Next]_vars

\* Every frame updates the game's input and handles the queries that are there.
FairSpec == Spec /\ WF_vars(HandleQuery) /\ WF_vars(UpdateInputHook)

-----------------------------------------------------------------------------
\* The types of the state; the stack is never popped when it is empty.
TypeOK ==
  /\ page \in {"blank", "script", "json", "ready"}
  /\ deferred \cup asked \cup early \subseteq Screens
  /\ state \in [Screens -> {"hidden", "waiting", "visible"}]
  /\ loaded \in [Screens -> BOOLEAN]
  /\ captureInput \in [Screens -> BOOLEAN]
  /\ scripts \in Seq({"request", "hide"} \X Screens)
  /\ queries \in Seq({"show", "hide", "capture", "release"})
  /\ rendering \in BOOLEAN /\ InputCaptured \in BOOLEAN
  /\ contexts \in Nat /\ contextDone \in BOOLEAN
  /\ blockStates \in [InputTypes -> BOOLEAN] /\ blocked \in [InputTypes -> BOOLEAN]
  /\ wanted \in [InputTypes -> BOOLEAN]

\* While the overlay captures the input a context keeps it from the game, whatever
\* the page releases and captures again before a finished context is popped: the
\* one that is popped is not the only one (CaptureInput, UpdateInputHook).
CapturedInputHasContext ==
  InputCaptured => contexts > (IF contextDone THEN 1 ELSE 0)

\* With a context on the stack the engine blocks all input, and without one exactly
\* what the game asked for last, also when it asked during a context
\* (PushContext, PopContext, BlockInputHook and the quick blocks around a tick).
GameInputIsRestored ==
  blocked = IF contexts > 0 THEN All(TRUE) ELSE wanted

\* When the game has handled all queries of the page, the overlay shows exactly when
\* a screen is visible, and it captures the input exactly when a visible screen does
\* (updateOverlay against Show, CaptureInput and the ticks that end a capture).
OverlayFollowsScreens ==
  queries = <<>> =>
    /\ rendering = (Visible(state) # {})
    /\ InputCaptured = \E s \in Visible(state) : captureInput[s]

\* A screen that was asked to show, and not to hide since, is shown as soon as its
\* frame has loaded, and any other is hidden; a request made while screens.json is
\* loading counts as well (requestScreen, hideScreen, createFrame).  The exception is
\* a screen hidden while screens.json was loading: the request before is still kept.
LastCallCounts ==
  page = "ready" => \A s \in Screens \ early :
    state[s] = IF s \notin asked THEN "hidden"
               ELSE IF loaded[s] THEN "visible" ELSE "waiting"

\* When no visible screen captures input any more the game gets its input back, and
\* keeps it until one does: every context that was pushed is popped.
InputComesBack ==
  <>[](\A s \in Visible(state) : ~captureInput[s]) => <>[](contexts = 0)
=============================================================================
