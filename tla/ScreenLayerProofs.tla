-------------------------- MODULE ScreenLayerProofs --------------------------
(***************************************************************************)
(* The safety properties of ScreenLayer for any screens, types of input    *)
(* and bounds.                                                             *)
(***************************************************************************)
EXTENDS ScreenLayer, TLAPS

-----------------------------------------------------------------------------
(* The parts of the inductive invariant.                                   *)

\* The context that is done is still on the stack, and what is restored after the
\* last one is what the game asked for last.
ContextInv ==
  /\ contextDone => contexts > 0
  /\ blockStates = wanted
  /\ CapturedInputHasContext
  /\ GameInputIsRestored

\* Before its screens exist the page shows none; the requests it keeps are those
\* that count, but for the screens in early.  A visible screen has loaded.
PageInv ==
  /\ page # "ready" => \A s \in Screens : state[s] = "hidden" /\ ~loaded[s]
  /\ page \in {"blank", "script"} => asked = {} /\ deferred = {}
  /\ page = "json" => \A s \in Screens \ early : s \in asked <=> s \in deferred
  /\ page = "ready" => deferred = {}
  /\ \A s \in Screens : state[s] = "visible" => loaded[s]
  /\ LastCallCounts

\* Whether a visible screen captures input.
Captures(st, capture) == \E s \in Visible(st) : capture[s]

\* What is left to handle ends with what the screens ask for now, and what has been
\* handled of the last update is in effect.
QueryInv ==
  /\ Len(queries) >= 2 =>
       queries[Len(queries) - 1] = (IF Visible(state) # {} THEN "show" ELSE "hide")
  /\ Len(queries) >= 1 =>
       queries[Len(queries)] = (IF Captures(state, captureInput) THEN "capture" ELSE "release")
  /\ Len(queries) <= 1 => rendering = (Visible(state) # {})
  /\ Len(queries) = 0 => InputCaptured = Captures(state, captureInput)

ScreenInv == TypeOK /\ ContextInv /\ PageInv /\ QueryInv

Queries == {"show", "hide", "capture", "release"}

-----------------------------------------------------------------------------
(* Facts about the page's steps.                                           *)

\* Taking off the head of a queue leaves its last entries in place.
LEMMA TailKeepsLast ==
  ASSUME NEW S, NEW q \in Seq(S), q # <<>>
  PROVE  /\ Tail(q) \in Seq(S) /\ Len(Tail(q)) = Len(q) - 1 /\ Head(q) \in S
         /\ Head(q) = q[1]
         /\ \A i \in 1..(Len(q) - 1) : Tail(q)[i] = q[i + 1]
  OBVIOUS

\* updateOverlay queues what the screens ask for now.
LEMMA UpdateOverlayAsks ==
  ASSUME queries \in Seq(Queries), UpdateOverlay
  PROVE  queries' \in Seq(Queries) /\ QueryInv'
<1> DEFINE a == IF Visible(state') # {} THEN "show" ELSE "hide"
           b == IF Captures(state', captureInput') THEN "capture" ELSE "release"
<1>1. queries' = queries \o <<a, b>>
  BY DEF UpdateOverlay, OverlayQueries, Captures
<1>2. a \in Queries /\ b \in Queries
  BY DEF Queries
<1>3. /\ queries' \in Seq(Queries) /\ Len(queries') = Len(queries) + 2
      /\ queries'[Len(queries) + 1] = a /\ queries'[Len(queries) + 2] = b
  <2> HIDE DEF a, b
  <2> QED BY <1>1, <1>2
<1>4. Len(queries) \in Nat
  OBVIOUS
<1>5. Visible(state)' = Visible(state') /\ Captures(state, captureInput)' = Captures(state', captureInput')
  BY DEF Visible, Captures
<1> HIDE DEF a, b
<1>6. Len(queries') >= 2 /\ Len(queries') - 1 = Len(queries) + 1
  BY <1>3, <1>4
<1>7. queries'[Len(queries') - 1] = a /\ queries'[Len(queries')] = b
  BY <1>3, <1>6
<1> QED BY <1>3, <1>5, <1>6, <1>7 DEF QueryInv, a, b

\* A step that leaves the visible screens, their capture, the queries and the overlay
\* alone keeps what is known of the queries.
LEMMA QueriesUntouched ==
  ASSUME QueryInv, UNCHANGED <<queries, captureInput, overlayVars>>,
         \A s \in Screens : state'[s] = "visible" <=> state[s] = "visible"
  PROVE  QueryInv'
<1>1. Visible(state') = Visible(state)
  BY DEF Visible
<1> QED BY <1>1 DEF QueryInv, Captures, overlayVars

\* The part of TypeOK the page's steps may disturb.
PageTypeOK ==
  /\ page \in {"blank", "script", "json", "ready"}
  /\ deferred \subseteq Screens /\ asked \subseteq Screens /\ early \subseteq Screens
  /\ state \in [Screens -> {"hidden", "waiting", "visible"}]
  /\ loaded \in [Screens -> BOOLEAN]
  /\ captureInput \in [Screens -> BOOLEAN]
  /\ queries \in Seq(Queries)

PageSideInv == PageTypeOK /\ PageInv /\ QueryInv

\* requestScreen
LEMMA RequestScreenKeeps ==
  ASSUME PageSideInv, NEW s \in Screens, RequestScreen(s), UNCHANGED overlayVars
  PROVE  PageSideInv'
<1> USE DEF PageSideInv
<1>0. UNCHANGED <<page, loaded>> /\ early' = early \ {s}
  BY DEF RequestScreen
<1>1. CASE page = "script" /\ UNCHANGED <<deferred, state, captureInput, queries>>
  <2>1. asked' = asked
    BY <1>1 DEF RequestScreen
  <2>2. PageTypeOK' /\ PageInv'
    BY <1>0, <1>1, <2>1 DEF PageTypeOK, PageInv, LastCallCounts
  <2> QED BY <1>1, <2>2, QueriesUntouched
<1>2. CASE page = "json" /\ deferred' = Deferred(s) /\ UNCHANGED <<state, captureInput, queries>>
  <2>1. asked' = asked \cup {s}
    BY <1>2 DEF RequestScreen
  <2>2. PageTypeOK' /\ PageInv'
    BY <1>0, <1>2, <2>1 DEF PageTypeOK, PageInv, LastCallCounts, Deferred
  <2> QED BY <1>2, <2>2, QueriesUntouched
<1>3. CASE page = "ready" /\ loaded[s] /\ ShowScreen(s, TRUE) /\ UNCHANGED deferred
  <2>1. asked' = asked \cup {s}
    BY <1>3 DEF RequestScreen
  <2>2. /\ state' = [state EXCEPT ![s] = "visible"] /\ UNCHANGED captureInput
        /\ UpdateOverlay
    BY <1>3 DEF ShowScreen
  <2>3. queries' \in Seq(Queries) /\ QueryInv'
    BY <2>2, UpdateOverlayAsks DEF PageTypeOK
  <2>4. PageTypeOK'
    BY <1>0, <1>3, <2>1, <2>2, <2>3 DEF PageTypeOK
  <2>5. PageInv'
    BY <1>0, <1>3, <2>1, <2>2 DEF PageTypeOK, PageInv, LastCallCounts
  <2> QED BY <2>3, <2>4, <2>5
<1>4. CASE /\ page = "ready" /\ ~loaded[s]
           /\ state' = [state EXCEPT ![s] = "waiting"]
           /\ UNCHANGED <<deferred, captureInput, queries>>
  <2>1. asked' = asked \cup {s}
    BY <1>4 DEF RequestScreen
  <2>2. \A t \in Screens : state'[t] = "visible" <=> state[t] = "visible"
    BY <1>4 DEF PageTypeOK, PageInv
  <2>3. PageTypeOK'
    BY <1>0, <1>4, <2>1 DEF PageTypeOK
  <2>4. PageInv'
    BY <1>0, <1>4, <2>1 DEF PageTypeOK, PageInv, LastCallCounts
  <2> QED BY <1>4, <2>2, <2>3, <2>4, QueriesUntouched
<1> QED BY <1>1, <1>2, <1>3, <1>4 DEF RequestScreen

\* hideScreen
LEMMA HideScreenKeeps ==
  ASSUME PageSideInv, NEW s \in Screens, HideScreen(s), UNCHANGED overlayVars
  PROVE  PageSideInv'
<1> USE DEF PageSideInv
<1>0. /\ UNCHANGED <<page, deferred, loaded>> /\ asked' = asked \ {s}
      /\ early' = IF s \in deferred THEN early \cup {s} ELSE early \ {s}
  BY DEF HideScreen
<1>1. CASE page = "ready"
  <2>1. /\ state' = [state EXCEPT ![s] = "hidden"] /\ UNCHANGED captureInput
        /\ UpdateOverlay
    BY <1>1 DEF HideScreen, ShowScreen
  <2>2. queries' \in Seq(Queries) /\ QueryInv'
    BY <2>1, UpdateOverlayAsks DEF PageTypeOK
  <2>3. PageTypeOK'
    BY <1>0, <2>1, <2>2 DEF PageTypeOK
  <2>4. PageInv'
    BY <1>0, <1>1, <2>1 DEF PageTypeOK, PageInv, LastCallCounts
  <2> QED BY <2>2, <2>3, <2>4
<1>2. CASE page # "ready"
  <2>1. UNCHANGED <<state, captureInput, queries>>
    BY <1>2 DEF HideScreen
  <2>2. PageTypeOK' /\ PageInv'
    BY <1>0, <1>2, <2>1 DEF PageTypeOK, PageInv, LastCallCounts
  <2> QED BY <2>1, <2>2, QueriesUntouched
<1> QED BY <1>1, <1>2

\* The page's own steps.
LEMMA PageLoads ==
  ASSUME PageSideInv, PageRuns \/ WindowLoads \/ ScreensLoad
  PROVE  PageSideInv'
<1> USE DEF PageSideInv
<1>1. UNCHANGED <<queries, captureInput, overlayVars, loaded, asked, early>>
  BY DEF PageRuns, WindowLoads, ScreensLoad
<1>2. CASE PageRuns \/ WindowLoads
  <2>1. UNCHANGED <<state, deferred>> /\ page' \in {"script", "json"} /\ page # "ready"
        /\ (page' = "json" => page = "script")
    BY <1>2 DEF PageRuns, WindowLoads
  <2>2. PageTypeOK' /\ PageInv'
    BY <1>1, <1>2, <2>1 DEF PageRuns, WindowLoads, PageTypeOK, PageInv, LastCallCounts
  <2> QED BY <1>1, <2>1, <2>2, QueriesUntouched
<1>3. CASE ScreensLoad
  <2>1. /\ page = "json" /\ page' = "ready" /\ deferred' = {}
        /\ state' = [s \in Screens |-> IF s \in deferred THEN "waiting" ELSE state[s]]
    BY <1>3 DEF ScreensLoad
  <2>2. \A s \in Screens : state[s] = "hidden" /\ ~loaded[s]
    BY <2>1 DEF PageInv
  <2>3. PageTypeOK'
    BY <1>1, <2>1 DEF PageTypeOK
  <2>4. PageInv'
    BY <1>1, <2>1, <2>2 DEF PageTypeOK, PageInv, LastCallCounts
  <2>5. \A s \in Screens : state'[s] = "visible" <=> state[s] = "visible"
    BY <2>1, <2>2
  <2> QED BY <1>1, <2>3, <2>4, <2>5, QueriesUntouched
<1> QED BY <1>2, <1>3

\* The frame of a screen has loaded.
LEMMA FrameLoadsKeeps ==
  ASSUME PageSideInv, NEW s \in Screens, FrameLoads(s)
  PROVE  PageSideInv'
<1> USE DEF PageSideInv
<1>0. /\ UNCHANGED <<page, deferred, asked, early, overlayVars>>
      /\ page = "ready" /\ ~loaded[s] /\ loaded' = [loaded EXCEPT ![s] = TRUE]
  BY DEF FrameLoads
<1>1. CASE state[s] = "waiting"
  <2>1. /\ state' = [state EXCEPT ![s] = "visible"] /\ UNCHANGED captureInput
        /\ UpdateOverlay
    BY <1>1 DEF FrameLoads, ShowsOnceLoaded, ShowScreen
  <2>2. queries' \in Seq(Queries) /\ QueryInv'
    BY <2>1, UpdateOverlayAsks DEF PageTypeOK
  <2>3. PageTypeOK'
    BY <1>0, <2>1, <2>2 DEF PageTypeOK
  <2>4. PageInv'
    BY <1>0, <1>1, <2>1 DEF PageTypeOK, PageInv, LastCallCounts
  <2> QED BY <2>2, <2>3, <2>4
<1>2. CASE state[s] # "waiting"
  <2>1. UNCHANGED <<state, captureInput, queries>>
    BY <1>2 DEF FrameLoads, ShowsOnceLoaded
  <2>2. PageTypeOK'
    BY <1>0, <2>1 DEF PageTypeOK
  <2>3. PageInv'
    BY <1>0, <1>2, <2>1 DEF PageTypeOK, PageInv, LastCallCounts
  <2> QED BY <1>0, <2>1, <2>2, <2>3, QueriesUntouched
<1> QED BY <1>1, <1>2

\* A screen changes whether it captures input.
LEMMA SetCaptureStateKeeps ==
  ASSUME PageSideInv, NEW s \in Screens, NEW capture \in BOOLEAN, SetCaptureState(s, capture)
  PROVE  PageSideInv'
<1> USE DEF PageSideInv
<1>1. /\ captureInput' = [captureInput EXCEPT ![s] = capture] /\ UpdateOverlay
      /\ UNCHANGED <<state, page, deferred, loaded, asked, early>>
  BY DEF SetCaptureState
<1>2. queries' \in Seq(Queries) /\ QueryInv'
  BY <1>1, UpdateOverlayAsks DEF PageTypeOK
<1>3. PageTypeOK' /\ PageInv'
  BY <1>1, <1>2 DEF PageTypeOK, PageInv, LastCallCounts
<1> QED BY <1>2, <1>3

-----------------------------------------------------------------------------
(* Facts about the game's steps.                                           *)

\* The part of TypeOK the game's steps may disturb.
InputTypeOK ==
  /\ rendering \in BOOLEAN /\ InputCaptured \in BOOLEAN
  /\ contexts \in Nat /\ contextDone \in BOOLEAN
  /\ blockStates \in [InputTypes -> BOOLEAN] /\ blocked \in [InputTypes -> BOOLEAN]
  /\ wanted \in [InputTypes -> BOOLEAN]

InputSideInv == InputTypeOK /\ ContextInv

\* CaptureInput: a context that is pushed over one that is about to be popped makes
\* two.
LEMMA CaptureInputKeeps ==
  ASSUME InputSideInv, NEW capture \in BOOLEAN, CaptureInput(capture),
         UNCHANGED <<rendering, contextDone, blockStates, wanted>>
  PROVE  InputSideInv'
<1> USE DEF InputSideInv
<1>1. CASE UNCHANGED <<InputCaptured, contexts, blocked>>
  BY <1>1 DEF InputTypeOK, ContextInv, CapturedInputHasContext, GameInputIsRestored, All
<1>2. CASE InputCaptured' = capture /\ capture /\ PushOverlayContext
  <2>1. contexts' = contexts + 1 /\ blocked' = IF contexts = 0 THEN All(TRUE) ELSE blocked
    BY <1>2 DEF PushOverlayContext, PushContext
  <2>2. InputTypeOK'
    BY <1>2, <2>1 DEF InputTypeOK, All
  <2>3. CapturedInputHasContext' /\ (contextDone' => contexts' > 0) /\ blockStates' = wanted'
    BY <2>1 DEF InputTypeOK, ContextInv, CapturedInputHasContext
  <2>4. GameInputIsRestored'
    <3>1. contexts' > 0
      BY <2>1 DEF InputTypeOK
    <3>2. blocked' = All(TRUE)
      BY <2>1 DEF InputTypeOK, ContextInv, GameInputIsRestored, All
    <3> QED BY <3>1, <3>2 DEF GameInputIsRestored, All
  <2> QED BY <2>2, <2>3, <2>4 DEF ContextInv
<1>3. CASE InputCaptured' = capture /\ ~capture /\ UNCHANGED <<contexts, blocked>>
  BY <1>3 DEF InputTypeOK, ContextInv, CapturedInputHasContext, GameInputIsRestored, All
<1> QED BY <1>1, <1>2, <1>3 DEF CaptureInput

\* A query is handled: what the page asked for last is in effect when the last one is.
LEMMA HandleQueryKeeps ==
  ASSUME PageSideInv, InputSideInv, HandleQuery
  PROVE  PageSideInv' /\ InputSideInv'
<1> DEFINE query == Head(queries)
<1>0. /\ queries # <<>> /\ queries' = Tail(queries)
      /\ UNCHANGED <<uiVars, contextDone, blockStates, wanted>>
  BY DEF HandleQuery
<1>1. queries \in Seq(Queries)
  BY DEF PageSideInv, PageTypeOK
<1>2. /\ queries' \in Seq(Queries) /\ Len(queries') = Len(queries) - 1 /\ query \in Queries
      /\ query = queries[1] /\ \A i \in 1..(Len(queries) - 1) : queries'[i] = queries[i + 1]
  BY <1>0, <1>1, TailKeepsLast
<1>3. Len(queries) \in Nat /\ Len(queries) > 0
  BY <1>0, <1>1
<1>4. PageTypeOK' /\ PageInv'
  BY <1>0, <1>2 DEF PageSideInv, PageTypeOK, PageInv, LastCallCounts, uiVars
<1>5. /\ \/ /\ query \in {"show", "hide"} /\ rendering' = (query = "show")
            /\ UNCHANGED <<InputCaptured, contexts, blocked>>
         \/ /\ query \in {"capture", "release"} /\ CaptureInput(query = "capture")
            /\ UNCHANGED rendering
  BY DEF HandleQuery
<1>6. InputSideInv'
  <2>1. CASE query \in {"show", "hide"}
    <3>1. rendering' \in BOOLEAN /\ UNCHANGED <<InputCaptured, contexts, blocked>>
      BY <1>5, <2>1
    <3> QED BY <1>0, <3>1 DEF InputSideInv, InputTypeOK, ContextInv,
                              CapturedInputHasContext, GameInputIsRestored
  <2>2. CASE query \in {"capture", "release"}
    BY <1>0, <1>5, <2>2, CaptureInputKeeps
  <2> QED BY <1>5, <2>1, <2>2
<1>7. UNCHANGED <<state, captureInput>>
  BY <1>0 DEF uiVars
<1>8. /\ Visible(state)' = Visible(state)
      /\ Captures(state, captureInput)' = Captures(state, captureInput)
  BY <1>7 DEF Visible, Captures
<1>9. QueryInv'
  <2>1. CASE Len(queries) >= 3
    <3>1. Len(queries') >= 2 /\ Len(queries') - 1 \in 1..(Len(queries) - 1)
          /\ Len(queries') \in 1..(Len(queries) - 1)
      BY <1>2, <1>3, <2>1
    <3>2. /\ queries'[Len(queries')] = queries[Len(queries)]
          /\ queries'[Len(queries') - 1] = queries[Len(queries) - 1]
      BY <1>2, <1>3, <3>1
    <3>3. QueryInv
      BY DEF PageSideInv
    <3>4. Len(queries) >= 2 /\ Len(queries) >= 1
      BY <1>3, <2>1
    <3> QED BY <1>8, <3>1, <3>2, <3>3, <3>4 DEF QueryInv
  <2>2. CASE Len(queries) = 2
    <3>1. query = IF Visible(state) # {} THEN "show" ELSE "hide"
      BY <1>2, <2>2 DEF PageSideInv, QueryInv
    <3>2. rendering' = (Visible(state) # {})
      BY <1>5, <3>1
    <3>3. Len(queries') = 1 /\ queries'[1] = queries[2]
      BY <1>2, <2>2
    <3> QED BY <1>7, <2>2, <3>2, <3>3 DEF PageSideInv, QueryInv, Captures, Visible
  <2>3. CASE Len(queries) = 1
    <3>1. /\ query = IF Captures(state, captureInput) THEN "capture" ELSE "release"
          /\ rendering = (Visible(state) # {})
      BY <1>2, <2>3 DEF PageSideInv, QueryInv
    <3>2. rendering' = rendering /\ CaptureInput(query = "capture")
      BY <1>5, <3>1
    <3>3. Captures(state, captureInput) => rendering
      BY <3>1 DEF Captures
    <3>4. (query = "capture") = Captures(state, captureInput)
      BY <3>1 DEF Captures
    <3>5. InputCaptured' = Captures(state, captureInput)
      BY <3>2, <3>3, <3>4 DEF CaptureInput, InputSideInv, InputTypeOK
    <3>6. Len(queries') = 0
      BY <1>2, <2>3
    <3> QED BY <1>8, <3>1, <3>2, <3>5, <3>6 DEF QueryInv
  <2>4. Len(queries) >= 3 \/ Len(queries) = 2 \/ Len(queries) = 1
    <3>1. \A n \in Nat : n > 0 => n >= 3 \/ n = 2 \/ n = 1
      OBVIOUS
    <3> QED BY <1>3, <3>1
  <2> QED BY <2>1, <2>2, <2>3, <2>4
<1> QED BY <1>4, <1>6, <1>9, <1>2 DEF PageSideInv

\* A tick that ends a capture because the overlay does not show is followed by a query
\* of the page, or there was nothing to end.
LEMMA TickKeepsQueries ==
  ASSUME QueryInv, rendering \in BOOLEAN, InputCaptured \in BOOLEAN,
         InputCaptured' = (rendering /\ InputCaptured) \/ InputCaptured' = InputCaptured,
         UNCHANGED <<state, captureInput, queries, rendering>>
  PROVE  QueryInv'
<1>1. /\ Visible(state)' = Visible(state)
      /\ Captures(state, captureInput)' = Captures(state, captureInput)
  BY DEF Visible, Captures
<1>2. Captures(state, captureInput) => Visible(state) # {}
  BY DEF Captures
<1>3. Len(queries) = 0 => rendering = (Visible(state) # {})
  BY DEF QueryInv
<1>4. ASSUME Len(queries) = 0 PROVE InputCaptured' = InputCaptured
  BY <1>2, <1>3, <1>4 DEF QueryInv
<1> QED BY <1>1, <1>4 DEF QueryInv

\* The active context is ticked.
LEMMA TickContextKeeps ==
  ASSUME InputSideInv, NEW doneBefore \in BOOLEAN, TickContext(doneBefore),
         contexts' \in Nat, contexts' > 0,
         ~doneBefore \/ (doneBefore = contextDone /\ contexts' = contexts),
         UNCHANGED <<rendering, blockStates, wanted>>
  PROVE  InputSideInv'
<1>1. /\ InputCaptured' = (rendering /\ InputCaptured)
      /\ contextDone' = (doneBefore \/ ~(rendering /\ InputCaptured))
      /\ blocked' = All(TRUE)
  BY DEF TickContext, ContextKeeps
<1>2. InputTypeOK'
  BY <1>1 DEF InputSideInv, InputTypeOK, All
<1>3. CapturedInputHasContext'
  <2>1. CASE ~doneBefore
    BY <1>1, <2>1 DEF CapturedInputHasContext, InputSideInv, InputTypeOK
  <2>2. CASE doneBefore = contextDone /\ contexts' = contexts
    BY <1>1, <2>2 DEF CapturedInputHasContext, InputSideInv, InputTypeOK, ContextInv
  <2> QED BY <2>1, <2>2
<1>4. GameInputIsRestored'
  BY <1>1 DEF GameInputIsRestored, All
<1> QED BY <1>2, <1>3, <1>4 DEF InputSideInv, ContextInv

\* UpdateInputHook: the last context is popped only when nothing is captured.
LEMMA UpdateInputHookKeeps ==
  ASSUME InputSideInv, QueryInv, UpdateInputHook
  PROVE  InputSideInv' /\ QueryInv'
<1>0. /\ contexts' = Remaining
      /\ UNCHANGED <<uiVars, queries, rendering, blockStates, wanted>>
  BY DEF UpdateInputHook
<1>1. /\ Remaining \in Nat
      /\ Remaining = 0 => ~InputCaptured
      /\ Remaining = 0 /\ ~contextDone => contexts = 0
  BY DEF Remaining, InputSideInv, InputTypeOK, ContextInv, CapturedInputHasContext
<1>2. UNCHANGED <<state, captureInput>>
  BY <1>0 DEF uiVars
<1>3. CASE Remaining # 0 /\ TickContext(FALSE)
  <2>1. contexts' \in Nat /\ contexts' > 0
    BY <1>0, <1>1, <1>3
  <2>2. InputSideInv'
    BY <1>0, <1>3, <2>1, TickContextKeeps
  <2>3. QueryInv'
    BY <1>0, <1>2, <1>3, TickKeepsQueries DEF TickContext, InputSideInv, InputTypeOK
  <2> QED BY <2>2, <2>3
<1>4. CASE /\ Remaining = 0 /\ contextDone' = FALSE
           /\ blocked' = IF contextDone THEN blockStates ELSE blocked
           /\ UNCHANGED InputCaptured
  <2>1. ~InputCaptured' /\ contexts' = 0
    BY <1>0, <1>1, <1>4
  <2>2. blocked' = wanted
    <3>1. CASE contextDone
      BY <1>4, <3>1 DEF InputSideInv, ContextInv
    <3>2. CASE ~contextDone
      <4>1. blocked' = blocked /\ contexts = 0
        BY <1>1, <1>4, <3>2
      <4> QED BY <4>1 DEF InputSideInv, ContextInv, GameInputIsRestored, All
    <3> QED BY <3>1, <3>2
  <2>3. InputTypeOK'
    <3>1. contextDone' \in BOOLEAN /\ InputCaptured' \in BOOLEAN
      BY <1>4 DEF InputSideInv, InputTypeOK
    <3>2. /\ UNCHANGED <<rendering, blockStates, wanted>> /\ contexts' \in Nat
          /\ blocked' = wanted
      BY <1>0, <2>1, <2>2
    <3> QED BY <3>1, <3>2 DEF InputSideInv, InputTypeOK
  <2>4. ContextInv'
    <3>1. GameInputIsRestored'
      BY <1>0, <2>1, <2>2 DEF GameInputIsRestored, All
    <3>2. blockStates' = wanted'
      BY <1>0 DEF InputSideInv, ContextInv
    <3> QED BY <1>4, <2>1, <3>1, <3>2 DEF ContextInv, CapturedInputHasContext
  <2>5. QueryInv'
    BY <1>0, <1>2, <1>4, TickKeepsQueries DEF InputSideInv, InputTypeOK
  <2> QED BY <2>3, <2>4, <2>5 DEF InputSideInv
<1> QED BY <1>3, <1>4 DEF UpdateInputHook, DoneAfterPop

\* UiInputTick leaves the stack alone.
LEMMA UiInputTickKeeps ==
  ASSUME InputSideInv, QueryInv, UiInputTick
  PROVE  InputSideInv' /\ QueryInv'
<1>1. /\ contexts > 0 /\ TickContext(contextDone)
      /\ UNCHANGED <<state, captureInput, queries, rendering, contexts, blockStates, wanted>>
  BY DEF UiInputTick, uiVars
<1>2. contextDone \in BOOLEAN /\ contexts' \in Nat /\ contexts' > 0
  BY <1>1 DEF InputSideInv, InputTypeOK
<1>3. InputSideInv'
  BY <1>1, <1>2, TickContextKeeps
<1>4. QueryInv'
  BY <1>1, TickKeepsQueries DEF TickContext, InputSideInv, InputTypeOK
<1> QED BY <1>3, <1>4

\* BlockInputHook keeps what the game asks for, in effect or saved.
LEMMA BlockInputHookKeeps ==
  ASSUME InputSideInv, NEW t \in InputTypes, NEW b \in BOOLEAN, BlockInputHook(t, b)
  PROVE  InputSideInv'
<1>1. /\ blocked' = IF contexts = 0 THEN [blocked EXCEPT ![t] = b] ELSE blocked
      /\ blockStates' = [blockStates EXCEPT ![t] = b]
      /\ wanted' = [wanted EXCEPT ![t] = b]
      /\ UNCHANGED <<rendering, InputCaptured, contexts, contextDone>>
  BY DEF BlockInputHook, Saved, overlayVars
<1>2. InputTypeOK'
  BY <1>1 DEF InputSideInv, InputTypeOK
<1>3. GameInputIsRestored'
  <2>1. CASE contexts = 0
    <3>1. blocked = wanted
      BY <2>1 DEF InputSideInv, ContextInv, GameInputIsRestored, All
    <3> QED BY <1>1, <2>1, <3>1 DEF GameInputIsRestored, All
  <2>2. CASE contexts # 0
    <3>1. contexts > 0
      BY <2>2 DEF InputSideInv, InputTypeOK
    <3>2. blocked = All(TRUE)
      BY <3>1 DEF InputSideInv, ContextInv, GameInputIsRestored, All
    <3> QED BY <1>1, <2>2, <3>1, <3>2 DEF GameInputIsRestored, All
  <2> QED BY <2>1, <2>2
<1>4. CapturedInputHasContext'
  BY <1>1 DEF InputSideInv, ContextInv, CapturedInputHasContext
<1> QED BY <1>1, <1>2, <1>3, <1>4 DEF InputSideInv, ContextInv

-----------------------------------------------------------------------------
(* The invariant.                                                          *)

\* The scripts under way.
ScriptTypeOK == scripts \in Seq({"request", "hide"} \X Screens)

\* The invariant by sides.
LEMMA ScreenInvParts == ScreenInv <=> PageSideInv /\ InputSideInv /\ ScriptTypeOK
<1>1. deferred \cup asked \cup early \subseteq Screens
        <=> deferred \subseteq Screens /\ asked \subseteq Screens /\ early \subseteq Screens
  OBVIOUS
<1>2. TypeOK <=> PageTypeOK /\ InputTypeOK /\ ScriptTypeOK
  BY <1>1 DEF TypeOK, PageTypeOK, InputTypeOK, ScriptTypeOK, Queries
<1> QED BY <1>2 DEF ScreenInv, PageSideInv, InputSideInv

\* The same for the next state.
LEMMA ScreenInvPartsNext == ScreenInv' <=> PageSideInv' /\ InputSideInv' /\ ScriptTypeOK'
<1>1. (deferred \cup asked \cup early \subseteq Screens)'
        <=> deferred' \subseteq Screens /\ asked' \subseteq Screens /\ early' \subseteq Screens
  OBVIOUS
<1>2. TypeOK' <=> PageTypeOK' /\ InputTypeOK' /\ ScriptTypeOK'
  BY <1>1 DEF TypeOK, PageTypeOK, InputTypeOK, ScriptTypeOK, Queries
<1> QED BY <1>2 DEF ScreenInv, PageSideInv, InputSideInv

\* A step that leaves the stack of contexts, its history and the overlay alone.
LEMMA InputUntouched ==
  ASSUME InputSideInv, UNCHANGED <<overlayVars, inputVars>>
  PROVE  InputSideInv'
BY DEF InputSideInv, InputTypeOK, ContextInv, CapturedInputHasContext, GameInputIsRestored,
       All, overlayVars, inputVars

\* A step that leaves the page, the queries and whether the overlay shows alone.
LEMMA PageUntouched ==
  ASSUME PageSideInv, UNCHANGED <<uiVars, queries>>, QueryInv'
  PROVE  PageSideInv'
BY DEF PageSideInv, PageTypeOK, PageInv, LastCallCounts, uiVars

\* A script is queued.
LEMMA ScriptQueued ==
  ASSUME ScriptTypeOK, NEW s \in Screens, NEW kind \in {"request", "hide"},
         scripts' = Append(scripts, <<kind, s>>)
  PROVE  ScriptTypeOK'
<1>1. <<kind, s>> \in {"request", "hide"} \X Screens
  OBVIOUS
<1> QED BY <1>1 DEF ScriptTypeOK

\* Every state the program starts in.
LEMMA InitKeeps == Init => ScreenInv
<1> SUFFICES ASSUME Init PROVE ScreenInv
  OBVIOUS
<1>1. PageTypeOK /\ PageInv
  BY DEF Init, PageTypeOK, PageInv, LastCallCounts, Queries
<1>2. QueryInv
  <2>1. Visible(state) = {} /\ ~Captures(state, captureInput)
    BY DEF Init, Visible, Captures
  <2>2. Len(queries) = 0 /\ rendering = FALSE /\ InputCaptured = FALSE
    BY DEF Init
  <2>3. rendering = (Visible(state) # {})
    BY <2>1, <2>2
  <2>4. InputCaptured = Captures(state, captureInput)
    BY <2>1, <2>2 DEF Captures
  <2> QED BY <2>2, <2>3, <2>4 DEF QueryInv
<1>3. InputTypeOK
  BY DEF Init, InputTypeOK, All
<1>4. ContextInv
  BY DEF Init, ContextInv, CapturedInputHasContext, GameInputIsRestored, All
<1>5. ScriptTypeOK
  BY DEF Init, ScriptTypeOK
<1> QED BY <1>1, <1>2, <1>3, <1>4, <1>5, ScreenInvParts DEF PageSideInv, InputSideInv

\* A script of the game is run in the page.
LEMMA RunScriptKeeps ==
  ASSUME PageSideInv, ScriptTypeOK, RunScript
  PROVE  PageSideInv' /\ ScriptTypeOK'
<1>1. scripts # <<>> /\ scripts' = Tail(scripts) /\ UNCHANGED overlayVars
  BY DEF RunScript
<1>2. ScriptTypeOK' /\ Head(scripts) \in {"request", "hide"} \X Screens
  BY <1>1, TailKeepsLast DEF ScriptTypeOK
<1>3. PICK s \in Screens : Head(scripts)[2] = s
  BY <1>2
<1>4. CASE UNCHANGED <<uiVars, queries>>
  <2>1. QueryInv'
    BY <1>1, <1>4, QueriesUntouched DEF PageSideInv, uiVars
  <2> QED BY <1>2, <1>4, <2>1, PageUntouched
<1>5. CASE RequestScreen(s)
  BY <1>1, <1>2, <1>5, RequestScreenKeeps
<1>6. CASE HideScreen(s)
  BY <1>1, <1>2, <1>6, HideScreenKeeps
<1> QED BY <1>3, <1>4, <1>5, <1>6 DEF RunScript

\* Every step of the page, the game and the queries between them keeps the invariant.
LEMMA NextKeeps == ScreenInv /\ [Next]_vars => ScreenInv'
<1> SUFFICES ASSUME ScreenInv, [Next]_vars PROVE ScreenInv'
  OBVIOUS
<1>0. PageSideInv /\ InputSideInv /\ ScriptTypeOK
  BY ScreenInvParts
<1> SUFFICES PageSideInv' /\ InputSideInv' /\ ScriptTypeOK'
  BY ScreenInvPartsNext
<1>a. ASSUME UNCHANGED scripts PROVE ScriptTypeOK'
  BY <1>0, <1>a DEF ScriptTypeOK
<1>1. CASE PageRuns \/ WindowLoads \/ ScreensLoad
  <2>1. UNCHANGED <<scripts, overlayVars, inputVars>>
    BY <1>1 DEF PageRuns, WindowLoads, ScreensLoad
  <2> QED BY <1>0, <1>1, <1>a, <2>1, PageLoads, InputUntouched
<1>2. CASE RunScript
  <2>1. UNCHANGED <<overlayVars, inputVars>>
    BY <1>2 DEF RunScript
  <2> QED BY <1>0, <1>2, <2>1, RunScriptKeeps, InputUntouched
<1>3. ASSUME NEW s \in Screens, FrameLoads(s) PROVE PageSideInv' /\ InputSideInv' /\ ScriptTypeOK'
  <2>1. UNCHANGED <<scripts, overlayVars, inputVars>>
    BY <1>3 DEF FrameLoads
  <2> QED BY <1>0, <1>3, <1>a, <2>1, FrameLoadsKeeps, InputUntouched
<1>4. ASSUME NEW s \in Screens, NEW t \in Screens, ScreenHides(s, t)
      PROVE PageSideInv' /\ InputSideInv' /\ ScriptTypeOK'
  <2>1. HideScreen(t) /\ UNCHANGED <<scripts, overlayVars, inputVars>>
    BY <1>4 DEF ScreenHides
  <2> QED BY <1>0, <1>a, <2>1, HideScreenKeeps, InputUntouched
<1>5. ASSUME NEW s \in Screens, GameShows(s) \/ GameHides(s)
      PROVE PageSideInv' /\ InputSideInv' /\ ScriptTypeOK'
  <2>1. UNCHANGED <<uiVars, queries, overlayVars, inputVars>>
    BY <1>5 DEF GameShows, GameHides
  <2>2. PICK kind \in {"request", "hide"} : scripts' = Append(scripts, <<kind, s>>)
    BY <1>5 DEF GameShows, GameHides
  <2>3. ScriptTypeOK'
    BY <1>0, <2>2, ScriptQueued
  <2>4. QueryInv'
    BY <1>0, <2>1, QueriesUntouched DEF PageSideInv, uiVars
  <2> QED BY <1>0, <2>1, <2>3, <2>4, PageUntouched, InputUntouched
<1>6. ASSUME NEW s \in Screens, NEW t \in Screens, ScreenShows(s, t)
      PROVE PageSideInv' /\ InputSideInv' /\ ScriptTypeOK'
  <2>1. RequestScreen(t) /\ UNCHANGED <<scripts, overlayVars, inputVars>>
    BY <1>6 DEF ScreenShows
  <2> QED BY <1>0, <1>a, <2>1, RequestScreenKeeps, InputUntouched
<1>7. ASSUME NEW s \in Screens, NEW capture \in BOOLEAN, SetCaptureState(s, capture)
      PROVE PageSideInv' /\ InputSideInv' /\ ScriptTypeOK'
  <2>1. UNCHANGED <<scripts, overlayVars, inputVars>>
    BY <1>7 DEF SetCaptureState
  <2> QED BY <1>0, <1>7, <1>a, <2>1, SetCaptureStateKeeps, InputUntouched
<1>8. CASE HandleQuery
  <2>1. UNCHANGED scripts
    BY <1>8 DEF HandleQuery
  <2> QED BY <1>0, <1>8, <1>a, <2>1, HandleQueryKeeps
<1>9. CASE UpdateInputHook
  <2>1. UNCHANGED <<uiVars, queries>>
    BY <1>9 DEF UpdateInputHook
  <2>2. InputSideInv' /\ QueryInv'
    BY <1>0, <1>9, UpdateInputHookKeeps DEF PageSideInv
  <2>3. ScriptTypeOK'
    <3>1. ASSUME NEW s \in KeyScreens, scripts' = Append(scripts, <<"request", s>>)
          PROVE ScriptTypeOK'
      BY <1>0, <3>1, ScriptQueued, ScreensAssumption
    <3> QED BY <1>9, <1>a, <3>1 DEF UpdateInputHook
  <2> QED BY <1>0, <2>1, <2>2, <2>3, PageUntouched
<1>10. CASE UiInputTick
  <2>1. UNCHANGED <<uiVars, scripts, queries>>
    BY <1>10 DEF UiInputTick
  <2>2. InputSideInv' /\ QueryInv'
    BY <1>0, <1>10, UiInputTickKeeps DEF PageSideInv
  <2> QED BY <1>0, <1>a, <2>1, <2>2, PageUntouched
<1>11. ASSUME NEW t \in InputTypes, NEW b \in BOOLEAN, BlockInputHook(t, b)
       PROVE PageSideInv' /\ InputSideInv' /\ ScriptTypeOK'
  <2>1. UNCHANGED <<uiVars, scripts, queries, overlayVars>>
    BY <1>11 DEF BlockInputHook
  <2>2. QueryInv'
    BY <1>0, <2>1, QueriesUntouched DEF PageSideInv, uiVars
  <2> QED BY <1>0, <1>11, <1>a, <2>1, <2>2, PageUntouched, BlockInputHookKeeps
<1>12. CASE UNCHANGED vars
  <2>1. UNCHANGED <<uiVars, scripts, queries, overlayVars, inputVars>>
    BY <1>12 DEF vars
  <2>2. QueryInv'
    BY <1>0, <2>1, QueriesUntouched DEF PageSideInv, uiVars
  <2> QED BY <1>0, <1>a, <2>1, <2>2, PageUntouched, InputUntouched
<1> QED BY <1>1, <1>2, <1>3, <1>4, <1>5, <1>6, <1>7, <1>8, <1>9, <1>10, <1>11, <1>12 DEF Next

\* The inductive invariant holds in every state of the overlay and the input.
THEOREM ScreenInvariant == Spec => []ScreenInv
BY InitKeeps, NextKeeps, PTL DEF Spec

\* The types of the state: the stack of contexts is never popped when it is empty
\* (PopContext).
THEOREM ScreenTypeCorrect == Spec => []TypeOK
<1>1. ScreenInv => TypeOK
  BY DEF ScreenInv
<1> QED BY <1>1, ScreenInvariant, PTL

\* While the overlay captures the input a context that is not about to be popped
\* keeps it from the game (CaptureInput, UpdateInputHook).
THEOREM CaptureHasContext == Spec => []CapturedInputHasContext
<1>1. ScreenInv => CapturedInputHasContext
  BY DEF ScreenInv, ContextInv
<1> QED BY <1>1, ScreenInvariant, PTL

\* The engine blocks everything during a context and what the game asked for last
\* without one (PushContext, PopContext, BlockInputHook).
THEOREM InputIsRestored == Spec => []GameInputIsRestored
<1>1. ScreenInv => GameInputIsRestored
  BY DEF ScreenInv, ContextInv
<1> QED BY <1>1, ScreenInvariant, PTL

\* The overlay and the capture agree with the page's screens when its queries have been
\* handled (updateOverlay, CaptureInput).
THEOREM OverlayAgrees == Spec => []OverlayFollowsScreens
<1>1. ScreenInv => OverlayFollowsScreens
  <2> SUFFICES ASSUME QueryInv, queries = <<>>
               PROVE  /\ rendering = (Visible(state) # {})
                      /\ InputCaptured = \E s \in Visible(state) : captureInput[s]
    BY DEF ScreenInv, OverlayFollowsScreens
  <2>1. Len(queries) = 0
    OBVIOUS
  <2> QED BY <2>1 DEF QueryInv, Captures
<1> QED BY <1>1, ScreenInvariant, PTL

\* The last call for a screen decides whether it shows, but for a hide made while
\* screens.json is loading (requestScreen, hideScreen, createFrame).
THEOREM LastCallDecides == Spec => []LastCallCounts
<1>1. ScreenInv => LastCallCounts
  BY DEF ScreenInv, PageInv
<1> QED BY <1>1, ScreenInvariant, PTL
=============================================================================
