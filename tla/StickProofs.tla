---------------------------- MODULE StickProofs -----------------------------
(***************************************************************************)
(* Proofs about what the stick shows.  Button, for all thresholds,         *)
(* manifests and lengths of an iteration: ButtonInv is inductive.  Screen, *)
(* for all timeouts and all batches of frames: ScreenIInv and LossIInv are *)
(* inductive, by a lemma about each stage of the loop.                     *)
(***************************************************************************)
EXTENDS MCStick, WellFoundedInduction, TLAPS

-----------------------------------------------------------------------------
(* The button.                                                            *)

\* An age grows by the length of the iteration, up to the bound.
LEMMA AgeGrows ==
    ASSUME NEW age \in Ages, NEW dt \in Steps
    PROVE  /\ Age(age, dt) \in Ages
           /\ Age(age, dt) >= age
           /\ Age(age, dt) = age + dt \/ Age(age, dt) = MaxAge
           /\ Age(age, dt) <= age + dt
BY ButtonAssumption DEF Age, Ages

\* last_short_click stays an age or None.
LEMMA ClickType ==
    ASSUME TypeOK, NEW dt \in Steps
    PROVE  ClickAge(dt) \in Ages \cup {Never}
BY AgeGrows DEF ClickAge, TypeOK

\* The branch without an action leaves the screen's types.
LEMMA AnimateType ==
    ASSUME TypeOK, NEW dt \in Steps, Animate(dt)
    PROVE  /\ page' = page /\ show_about' = show_about
           /\ last_short_click' \in Ages \cup {Never}
           /\ shutdown_animation_active' \in BOOLEAN
           /\ shutdown_animation_active' => lcd' = "animation" /\ stable_pressed' /\ ~long_press_sent'
           /\ ~shutdown_animation_active' => lcd' = Rendered
<1>1. shutdown_animation_active' \in BOOLEAN
  BY Zenon DEF Animate
<1>2. last_short_click' \in Ages \cup {Never}
  BY ClickType DEF Animate
<1>3. page' = page /\ show_about' = show_about
  BY DEF Animate
<1>4. shutdown_animation_active' => lcd' = "animation" /\ stable_pressed' /\ ~long_press_sent'
  BY Zenon DEF Animate
<1>5. ~shutdown_animation_active' => lcd' = Rendered
  BY Zenon DEF Animate
<1> QED
  BY <1>1, <1>2, <1>3, <1>4, <1>5

\* A short press leaves a page of the manifest and draws it.
LEMMA NextScreenType ==
    ASSUME TypeOK, page < display_config.pages, NEW dt \in Steps, NextScreen(dt)
    PROVE  /\ page' \in Nat /\ page' < display_config.pages
           /\ show_about' \in BOOLEAN
           /\ last_short_click' \in Ages \cup {Never}
           /\ ~shutdown_animation_active' /\ shutdown_animation_active' \in BOOLEAN
           /\ lcd' = "current"
<1>1. ~shutdown_animation_active' /\ shutdown_animation_active' \in BOOLEAN
  BY Zenon DEF NextScreen
<1>2. lcd' = "current"
  BY DEF NextScreen, RenderedOnRelease
<1>3. show_about' \in BOOLEAN
  BY Zenon DEF NextScreen, TypeOK
<1>4. last_short_click' \in Ages \cup {Never}
  BY ClickType, ButtonAssumption DEF NextScreen, Ages
<1>5. display_config.pages \in Nat \ {0}
  BY ButtonAssumption DEF TypeOK
<1>6. page' \in {page, (page + 1) % display_config.pages}
  BY Zenon DEF NextScreen
<1>7. page' \in Nat /\ page' < display_config.pages
  BY <1>5, <1>6 DEF TypeOK
<1> QED
  BY <1>1, <1>2, <1>3, <1>4, <1>7

\* The stick starts with the button up and the first page drawn.
LEMMA ButtonInit == Init => ButtonInv
<1> SUFFICES ASSUME Init PROVE ButtonInv
  OBVIOUS
<1> USE ButtonAssumption
<1>1. /\ raw_pressed \in BOOLEAN /\ stable_pressed \in BOOLEAN /\ long_press_sent \in BOOLEAN
      /\ connected \in BOOLEAN /\ show_about \in BOOLEAN /\ render_pending \in BOOLEAN
      /\ shutdown_animation_active \in BOOLEAN /\ requested \in BOOLEAN
      /\ ~stable_pressed /\ ~shutdown_animation_active /\ ~requested
  BY Zenon DEF Init
<1>2. TypeOK
  BY <1>1 DEF Init, TypeOK, Ages, Lcd
<1>3. page < display_config.pages
  BY DEF Init
<1> QED
  BY <1>1, <1>2, <1>3 DEF Init, ButtonInv, TimedFromPress, AnimatedHold

\* What the invariant says of the screen.
HoldOnScreen ==
    /\ AnimatedHold
    /\ lcd = "animation" => shutdown_animation_active
    /\ lcd = "outdated" => render_pending

\* A frame or a timeout before the button is looked at.
LEMMA ChangesStep ==
    ASSUME ButtonInv, Changes, connected' \in BOOLEAN, display_config' \in Displays,
           page' \in Nat, page' < display_config'.pages
    PROVE  ButtonInv'
<1>0. TypeOK
  BY DEF ButtonInv
<1>1. /\ UNCHANGED <<raw_pressed, raw_age, stable_pressed, held, long_press_sent, down, show_about,
                     last_short_click, shutdown_animation_active, requested>>
      /\ lcd' = IF lcd = "current" THEN "outdated" ELSE lcd
  BY DEF Changes, buttonVars
<1>2. render_pending' \in BOOLEAN /\ render_pending'
  BY Zenon DEF Changes
<1>3. TypeOK'
  BY <1>0, <1>1, <1>2 DEF TypeOK, Lcd
<1> QED
  BY <1>1, <1>2, <1>3 DEF ButtonInv, TimedFromPress, AnimatedHold

\* The branch without an action keeps what is said of the screen.
LEMMA AnimateScreen ==
    ASSUME ButtonInv, NEW dt \in Steps, Animate(dt), Iteration
    PROVE  HoldOnScreen' /\ lcd' \in Lcd
<1>1. TypeOK /\ HoldOnScreen
  BY DEF ButtonInv, HoldOnScreen
<1>2. /\ shutdown_animation_active' => lcd' = "animation" /\ stable_pressed' /\ ~long_press_sent'
      /\ ~shutdown_animation_active' => lcd' = Rendered
  BY <1>1, AnimateType
<1>3. Rendered \in {"current", "sent"}
  BY <1>1 DEF Rendered, HoldOnScreen, AnimatedHold, TypeOK, Lcd
<1> QED
  BY <1>2, <1>3 DEF HoldOnScreen, AnimatedHold, Lcd

\* One iteration of the loop.
LEMMA LoopStep ==
    ASSUME ButtonInv, NEW dt \in Steps,
           Bounce(dt) \/ PressSettles(dt) \/ ReleaseSettles(dt) \/ HoldCompletes(dt) \/ Rests(dt)
    PROVE  ButtonInv'
<1> USE ButtonAssumption
<1>0. /\ TypeOK /\ TimedFromPress /\ HoldOnScreen
      /\ requested => long_press_sent
      /\ page < display_config.pages
  BY DEF ButtonInv, HoldOnScreen
<1>1. /\ raw_age \in Ages /\ held \in Ages /\ down \in Ages
      /\ Age(raw_age, dt) \in Ages /\ Age(held, dt) \in Ages /\ Age(down, dt) \in Ages
      /\ HeldOn(dt) \in Ages /\ 0 \in Ages
  BY <1>0, AgeGrows DEF TypeOK, HeldOn, Ages
<1>2. stable_pressed => Age(down, dt) = MaxAge \/ Age(down, dt) >= Age(held, dt) + Debounce
  BY <1>0, <1>1, AgeGrows DEF TimedFromPress, Ages
<1>3. SUFFICES /\ raw_pressed' \in BOOLEAN /\ raw_age' \in Ages
               /\ stable_pressed' \in BOOLEAN /\ held' \in Ages /\ long_press_sent' \in BOOLEAN
               /\ page' \in Nat /\ page' < display_config.pages /\ show_about' \in BOOLEAN
               /\ last_short_click' \in Ages \cup {Never}
               /\ shutdown_animation_active' \in BOOLEAN
               /\ lcd' \in Lcd /\ down' \in Ages /\ requested' \in BOOLEAN
               /\ Iteration /\ TimedFromPress' /\ HoldOnScreen'
               /\ requested' => long_press_sent'
  <2>1. render_pending' \in BOOLEAN
    BY <1>3, Zenon DEF Iteration
  <2>2. connected' = connected /\ display_config' = display_config
    BY <1>3 DEF Iteration
  <2>3. TypeOK'
    BY <1>0, <1>3, <2>1, <2>2 DEF TypeOK
  <2> QED
    BY <1>3, <2>2, <2>3 DEF ButtonInv, HoldOnScreen
<1>4. CASE Bounce(dt)
  <2>1. /\ raw_pressed' \in BOOLEAN /\ stable_pressed' = stable_pressed
        /\ long_press_sent' = long_press_sent /\ requested' = requested
        /\ Animate(dt) /\ Iteration
    BY <1>4, Zenon DEF Bounce
  <2>2. raw_age' = 0 /\ held' = HeldOn(dt) /\ down' = IF stable_pressed THEN Age(down, dt) ELSE 0
    BY <1>4 DEF Bounce, HeldOverBounce
  <2>3. TimedFromPress'
    BY <1>1, <1>2, <2>1, <2>2 DEF TimedFromPress, HeldOn
  <2>4. down' \in Ages
    BY <1>1, <2>2
  <2> QED
    BY <1>0, <1>1, <2>1, <2>2, <2>3, <2>4, AnimateType, AnimateScreen DEF TypeOK
<1>5. CASE PressSettles(dt)
  <2>1. /\ stable_pressed' \in BOOLEAN /\ stable_pressed'
        /\ long_press_sent' \in BOOLEAN
        /\ requested' \in BOOLEAN /\ ~requested'
    BY <1>5, Zenon DEF PressSettles
  <2>2. Animate(dt) /\ Steady(dt) /\ Iteration
    BY <1>5 DEF PressSettles, Steady
  <2>3. /\ raw_pressed /\ ~stable_pressed /\ Age(raw_age, dt) >= Debounce
    BY <1>0, <1>5, Zenon DEF PressSettles, Debounced, TypeOK
  <2>4. held' = 0
    BY <1>5 DEF PressSettles, HeldAtPress
  <2>5. raw_pressed' = raw_pressed /\ raw_age' = Age(raw_age, dt) /\ down' = Age(down, dt)
    BY <2>2, <2>3 DEF Steady
  <2>6. Age(down, dt) >= Debounce
    BY <1>0, <1>1, <2>3, AgeGrows DEF TimedFromPress, Age, Ages
  <2>7. TimedFromPress'
    BY <1>1, <2>1, <2>4, <2>5, <2>6 DEF TimedFromPress, Ages
  <2> QED
    BY <1>0, <1>1, <2>1, <2>2, <2>4, <2>5, <2>7, AnimateType, AnimateScreen DEF TypeOK
<1>6. CASE ReleaseSettles(dt)
  <2>1. /\ stable_pressed' \in BOOLEAN /\ ~stable_pressed'
        /\ long_press_sent' = long_press_sent /\ requested' = requested
        /\ ~raw_pressed
    BY <1>6, Zenon DEF ReleaseSettles
  <2>2. held' = 0 /\ Steady(dt) /\ Iteration
    BY <1>6 DEF ReleaseSettles, Steady
  <2>3. raw_pressed' = raw_pressed /\ raw_age' = Age(raw_age, dt) /\ down' \in {0, Age(down, dt)}
    BY <2>2 DEF Steady
  <2>4. TimedFromPress'
    BY <2>1, <2>3 DEF TimedFromPress
  <2>5. CASE NextScreen(dt)
    BY <1>0, <1>1, <2>1, <2>2, <2>3, <2>4, <2>5, NextScreenType
    DEF TypeOK, HoldOnScreen, AnimatedHold, Lcd
  <2>6. CASE Animate(dt)
    BY <1>0, <1>1, <2>1, <2>2, <2>3, <2>4, <2>6, AnimateType, AnimateScreen DEF TypeOK
  <2> QED
    BY <1>6, <2>5, <2>6 DEF ReleaseSettles
<1>7. CASE HoldCompletes(dt)
  <2>1. /\ stable_pressed' = stable_pressed /\ stable_pressed
        /\ long_press_sent' \in BOOLEAN /\ long_press_sent'
        /\ requested' \in BOOLEAN
        /\ shutdown_animation_active' \in BOOLEAN /\ ~shutdown_animation_active'
    BY <1>0, <1>7, Zenon DEF HoldCompletes, HoldDue, TypeOK
  <2>2. /\ held' = Age(held, dt) /\ Steady(dt) /\ Iteration
        /\ page' = page /\ show_about' = show_about /\ last_short_click' = Never
        /\ lcd' \in {"sent", Rendered}
    BY <1>7, <2>1 DEF HoldCompletes, Steady, HeldOn
  <2>3. raw_pressed' = raw_pressed /\ raw_age' = Age(raw_age, dt) /\ down' = Age(down, dt)
    BY <2>1, <2>2 DEF Steady
  <2>4. TimedFromPress'
    BY <1>2, <2>1, <2>2, <2>3 DEF TimedFromPress
  <2>5. Rendered \in {"current", "sent"}
    BY <1>0 DEF Rendered, HoldOnScreen, AnimatedHold, TypeOK, Lcd
  <2>6. HoldOnScreen' /\ lcd' \in Lcd
    BY <2>1, <2>2, <2>5 DEF HoldOnScreen, AnimatedHold, Lcd
  <2> QED
    BY <1>0, <1>1, <2>1, <2>2, <2>3, <2>4, <2>6 DEF TypeOK
<1>8. CASE Rests(dt)
  <2>1. /\ stable_pressed' = stable_pressed /\ long_press_sent' = long_press_sent
        /\ requested' = requested
        /\ held' = HeldOn(dt) /\ Animate(dt) /\ Steady(dt) /\ Iteration
    BY <1>8 DEF Rests, Steady
  <2>2. /\ raw_pressed' = raw_pressed /\ raw_age' = Age(raw_age, dt)
        /\ down' = IF stable_pressed \/ raw_pressed THEN Age(down, dt) ELSE 0
    BY <2>1 DEF Steady
  <2>3. raw_pressed /\ ~stable_pressed => Age(down, dt) >= Age(raw_age, dt)
    BY <1>0, <1>1 DEF TimedFromPress, Age, Ages
  <2>4. TimedFromPress'
    BY <1>1, <1>2, <2>1, <2>2, <2>3 DEF TimedFromPress, HeldOn
  <2>5. down' \in Ages
    BY <1>1, <2>2
  <2> QED
    BY <1>0, <1>1, <2>1, <2>2, <2>4, <2>5, AnimateType, AnimateScreen DEF TypeOK
<1> QED
  BY <1>4, <1>5, <1>6, <1>7, <1>8

-----------------------------------------------------------------------------
\* ButtonInv holds in every reachable state.
THEOREM ButtonInvariant == Spec => []ButtonInv
<1>1. ButtonInv /\ [Next]_vars => ButtonInv'
  <2> SUFFICES ASSUME ButtonInv, [Next]_vars
               PROVE  ButtonInv'
    OBVIOUS
  <2>0. TypeOK /\ page < display_config.pages
    BY DEF ButtonInv
  <2>1. CASE DaemonChanges
    BY <2>0, <2>1, ChangesStep DEF DaemonChanges, TypeOK
  <2>2. CASE ReceiveDisplayConfig
    <3>1. display_config' \in Displays /\ display_config'.pages \in Nat \ {0}
      BY <2>2, ButtonAssumption DEF ReceiveDisplayConfig
    <3>2. page' \in Nat /\ page' < display_config'.pages
      BY <2>0, <2>2, <3>1 DEF ReceiveDisplayConfig, TypeOK
    <3>3. Changes /\ connected' \in BOOLEAN
      BY <2>0, <2>2 DEF ReceiveDisplayConfig, TypeOK
    <3> QED
      BY <3>1, <3>2, <3>3, ChangesStep
  <2>3. CASE Loop
    BY <2>3, LoopStep DEF Loop
  <2>4. CASE UNCHANGED vars
    BY <2>4 DEF vars, buttonVars, screenVars, ButtonInv, TypeOK, TimedFromPress, AnimatedHold
  <2> QED
    BY <2>1, <2>2, <2>3, <2>4 DEF Next
<1> QED
  BY <1>1, ButtonInit, PTL DEF Spec

\* After every iteration the LCD shows what it should.
THEOREM LcdIsCurrent == Spec => []LcdCurrent
<1>1. ButtonInv => LcdCurrent
  BY DEF ButtonInv, TypeOK, Lcd, LcdCurrent
<1> QED
  BY <1>1, ButtonInvariant, PTL

\* The button was really held for the configured time when a shutdown is requested.
THEOREM RequestWasHeld == Spec => HeldLongEnough
<1>1. ButtonInv /\ ButtonInv' /\ [Next]_vars =>
        [~requested /\ requested' => down' >= display_config.hold + UpFor']_vars
  <2> SUFFICES ASSUME ButtonInv, ButtonInv', Next, ~requested, requested'
               PROVE  down' >= display_config.hold + UpFor'
    OBVIOUS
  <2>1. PICK dt \in Steps : HoldCompletes(dt)
    BY Zenon DEF Next, Loop, DaemonChanges, ReceiveDisplayConfig, Changes, Bounce, PressSettles,
                 ReleaseSettles, Rests
  <2>2. /\ stable_pressed /\ stable_pressed'
        /\ raw_pressed \/ ~(Age(raw_age, dt) >= Debounce)
    BY <2>1, Zenon DEF ButtonInv, TypeOK, HoldCompletes, HoldDue, Debounced
  <2>3. /\ held' >= display_config.hold
        /\ raw_pressed' = raw_pressed /\ raw_age' = Age(raw_age, dt)
        /\ display_config \in Displays
    BY <2>1, Zenon DEF ButtonInv, TypeOK, HoldCompletes, HoldDue, Steady
  <2>4. /\ down' = MaxAge \/ down' >= held' + Debounce
        /\ down' \in Ages /\ held' \in Ages /\ raw_age' \in Ages
    BY <2>2 DEF ButtonInv, TypeOK, TimedFromPress
  <2>5. display_config.hold \in Nat /\ display_config.hold + Debounce <= MaxAge
    BY <2>3, ButtonAssumption
  <2>6. UpFor' \in Nat /\ UpFor' < Debounce
    <3>1. CASE raw_pressed
      BY <2>3, <3>1, ButtonAssumption DEF UpFor
    <3>2. CASE ~raw_pressed
      BY <2>2, <2>3, <2>4, <3>2, ButtonAssumption DEF UpFor, Ages
    <3> QED
      BY <3>1, <3>2
  <2>7. held' >= display_config.hold /\ held' \in Nat /\ down' \in Nat /\ Debounce \in Nat
    BY <2>3, <2>4, ButtonAssumption DEF Ages
  <2>8. down' >= display_config.hold + Debounce
    <3>1. CASE down' = MaxAge
      BY <2>5, <3>1, ButtonAssumption
    <3>2. CASE down' >= held' + Debounce
      <4>1. \A a, b, c, d \in Nat : a >= b + d /\ b >= c => a >= c + d
        OBVIOUS
      <4> QED
        BY <2>5, <2>7, <3>2, <4>1
    <3> QED
      BY <2>4, <3>1, <3>2
  <2> QED
    BY <2>4, <2>5, <2>6, <2>8, ButtonAssumption DEF Ages
<1> QED
  BY <1>1, ButtonInvariant, PTL DEF Spec, HeldLongEnough

\* A press that has requested a shutdown does nothing else.
THEOREM PressHasOneResult == Spec => OneActionPerPress
<1>1. ButtonInv /\ [Next]_vars =>
        [requested /\ requested' /\ display_config' = display_config
            => page' = page /\ show_about' = show_about]_vars
  <2> SUFFICES ASSUME ButtonInv, Next, requested, requested', display_config' = display_config
               PROVE  page' = page /\ show_about' = show_about
    OBVIOUS
  <2>0. TypeOK /\ long_press_sent /\ page < display_config.pages
    BY DEF ButtonInv
  <2>1. CASE DaemonChanges
    BY <2>1 DEF DaemonChanges, Changes
  <2>2. CASE ReceiveDisplayConfig
    <3>1. display_config.pages \in Nat \ {0} /\ page \in Nat
      BY <2>0, ButtonAssumption DEF TypeOK
    <3>2. page % display_config.pages = page
      BY <2>0, <3>1
    <3> QED
      BY <2>2, <3>2 DEF ReceiveDisplayConfig, Changes
  <2>3. ASSUME NEW dt \in Steps,
               Bounce(dt) \/ PressSettles(dt) \/ ReleaseSettles(dt) \/ HoldCompletes(dt) \/ Rests(dt)
        PROVE  page' = page /\ show_about' = show_about
    BY <2>0, <2>3, Zenon
    DEF Bounce, PressSettles, ReleaseSettles, ShortPress, HoldCompletes, Rests, Animate
  <2> QED
    BY <2>1, <2>2, <2>3 DEF Next, Loop
<1> QED
  BY <1>1, ButtonInvariant, PTL DEF Spec, OneActionPerPress

-----------------------------------------------------------------------------
(* The screen: the frames of a batch, taken in turn.                       *)

\* A set of numbers with an element has a least one.
LEMMA Least ==
    ASSUME NEW T, T \subseteq Nat, T # {}
    PROVE  \E x \in T : \A y \in T : x <= y
<1>1. \E R : IsWellFoundedOn(R, Nat) /\ \A x, y \in Nat : <<y, x>> \in R <=> y < x
  <2> DEFINE Q == OpToRel(<, Nat)
  <2>1. IsWellFoundedOn(Q, Nat)
    BY NatLessThanWellFounded
  <2>2. \A x, y \in Nat : <<y, x>> \in Q <=> y < x
    BY DEF OpToRel
  <2> HIDE DEF Q
  <2> QED BY <2>1, <2>2
<1>2. PICK R : IsWellFoundedOn(R, Nat) /\ \A x, y \in Nat : <<y, x>> \in R <=> y < x
  BY <1>1
<1>3. \E x \in T : \A y \in T : ~(<<y, x>> \in R)
  BY <1>2, WFMin
<1>4. PICK x \in T : \A y \in T : ~(<<y, x>> \in R)
  BY <1>3
<1>5. ASSUME NEW y \in T PROVE x <= y
  <2>1. ~(y < x) /\ x \in Nat /\ y \in Nat
    BY <1>2, <1>4
  <2> QED BY <2>1
<1> QED BY <1>5

\* So a set of numbers with 0 and every successor holds them all.
LEMMA Induction ==
    ASSUME NEW N \in Nat, NEW T, 0 \in T, \A n \in 0..N : n > 0 /\ n - 1 \in T => n \in T
    PROVE  0..N \subseteq T
<1> DEFINE D == {n \in 0..N : n \notin T}
<1>1. SUFFICES ASSUME D # {} PROVE FALSE
  OBVIOUS
<1>2. D \subseteq Nat
  OBVIOUS
<1>3. PICK n \in D : \A k \in D : n <= k
  <2> HIDE DEF D
  <2> QED BY <1>1, <1>2, Least
<1>4. n \in 0..N /\ n \notin T /\ n # 0
  OBVIOUS
<1>5. n - 1 \in 0..N /\ ~(n <= n - 1)
  BY <1>4
<1>6. n - 1 \in T
  BY <1>3, <1>5
<1> QED BY <1>4, <1>6

\* after[n] is what the first n frames of a batch leave.
InTurn(seen, batch, after) ==
    /\ after[0] = seen
    /\ \A n \in 0..Len(batch) : n > 0 => after[n] = Scr!Reads(after[n - 1], batch[n])
    /\ Scr!AfterFrames(seen, batch) = after[Len(batch)]

\* The recursive function of AfterFrames exists: it takes the frames one after the other.
LEMMA FramesInTurn ==
    ASSUME NEW seen, NEW batch, Len(batch) \in Nat
    PROVE  \E after : InTurn(seen, batch, after)
<1> DEFINE Fits(f, N) == f = [n \in 0..N |-> IF n = 0 THEN seen ELSE Scr!Reads(f[n - 1], batch[n])]
           T == {N \in 0..Len(batch) : \E f : Fits(f, N)}
<1>1. 0 \in T
  <2> DEFINE g == [n \in 0..0 |-> seen]
  <2>1. \A n \in 0..0 : n = 0
    OBVIOUS
  <2>2. Fits(g, 0)
    BY <2>1
  <2>3. \E f : Fits(f, 0)
    <3> HIDE DEF Fits
    <3> QED BY <2>2
  <2> QED BY <2>3
<1>2. ASSUME NEW N \in 0..Len(batch), N > 0, N - 1 \in T
      PROVE  N \in T
  <2>1. PICK f : Fits(f, N - 1)
    BY <1>2
  <2> DEFINE g == [n \in 0..N |-> IF n = 0 THEN seen ELSE Scr!Reads(f[n - 1], batch[n])]
  <2>2. \A n \in 0..(N - 1) : g[n] = f[n]
    <3>1. \A n \in 0..(N - 1) : n \in 0..N
      OBVIOUS
    <3>2. \A n \in 0..(N - 1) : f[n] = IF n = 0 THEN seen ELSE Scr!Reads(f[n - 1], batch[n])
      BY <2>1
    <3> QED BY <3>1, <3>2
  <2>3. \A n \in 0..N : n # 0 => n - 1 \in 0..(N - 1)
    OBVIOUS
  <2>4. Fits(g, N)
    BY <2>2, <2>3
  <2> QED BY <2>4
<1>3. Len(batch) \in T
  <2> HIDE DEF T
  <2>1. 0..Len(batch) \subseteq T
    BY <1>1, <1>2, Induction
  <2> QED BY <2>1
<1> DEFINE after == CHOOSE f : Fits(f, Len(batch))
<1>4. Fits(after, Len(batch))
  BY <1>3
<1>5. Scr!AfterFrames(seen, batch) = after[Len(batch)]
  BY DEF Scr!AfterFrames
<1> HIDE DEF after
<1>6. after[0] = seen
  <2>1. 0 \in 0..Len(batch)
    OBVIOUS
  <2> QED BY <1>4, <2>1, Zenon
<1>7. ASSUME NEW n \in 0..Len(batch), n > 0
      PROVE  after[n] = Scr!Reads(after[n - 1], batch[n])
  <2>1. n # 0
    BY <1>7
  <2> QED BY <1>4, <2>1, Zenon
<1>8. InTurn(seen, batch, after)
  BY <1>5, <1>6, <1>7 DEF InTurn
<1> QED BY <1>8

-----------------------------------------------------------------------------
(* What the stages of an iteration keep.                                   *)

\* An Option of an age counted up to a limit.
Options(limit) == {<<>>} \cup {<<n>> : n \in 0..limit}

\* The values of ShutdownDisplay.
ShutdownDisplays ==
    [kind : {"Accepted", "Guests", "GuestsStopped", "HostPoweroff", "ReportingLost", "ConnectionLost",
             "Failed"},
     total : Nat, remaining : Nat, spinner : 0..3]

\* The values of the stick's variables.
Sticks ==
    [daemon : Scr!DaemonState, session : BOOLEAN, snapshot : BOOLEAN,
     last_update : Options(LinkTimeout), usb_connected : BOOLEAN, usb_activity : Options(1),
     lost_since : Options(UsbLostConfirm), display : ShutdownDisplays, spinner_age : 0..1,
     show_about : BOOLEAN, port : BOOLEAN, render_pending : BOOLEAN]

\* The count on the LCD is the one of the last frame of the shutdown.
CountShown(s, count) == s.daemon = "PoweringOff" => Scr!shutdown_remaining(s.display) = count

\* A shutdown is timed from its last report, and given up only after its time.
Timed(s, age) ==
    s.daemon = "PoweringOff" /\ s.display.kind # "Failed" =>
        /\ s.last_update = age /\ age # <<>>
        /\ s.display.kind = "ReportingLost" => age[1] >= ReportTimeout

\* And is given up in time.
InTime(s) ==
    /\ s.daemon = "PoweringOff"
    /\ s.display.kind \notin {"ReportingLost", "ConnectionLost", "Failed"}
    /\ s.last_update # <<>>
    => s.last_update[1] < ReportTimeout

\* What is drawn of s is drawn of t, but for the two ABOUT screens.
Alike(s, t) ==
    /\ t.daemon = s.daemon /\ t.snapshot = s.snapshot /\ t.display = s.display
    /\ t.show_about = s.show_about
    /\ s.daemon = "Waiting" => t.usb_connected = s.usb_connected

\* A stage that changes what is drawn asks for a redraw, and none withdraws it.
Asks(s, t) ==
    /\ s.render_pending => t.render_pending
    /\ ~t.render_pending => Alike(s, t)

\* The values of the stick, the last count and the age of the last report that keep the
\* properties.
Sound ==
    {x \in [stick : Sticks, count : Nat, age : Options(LinkTimeout)] :
        CountShown(x.stick, x.count) /\ Timed(x.stick, x.age)}

\* What an Option holds.
LEMMA OptionFacts ==
    ASSUME NEW limit \in Nat
    PROVE  /\ <<>> \in Options(limit) /\ <<0>> \in Options(limit)
           /\ \A o \in Options(limit) : o # <<>> => o[1] \in 0..limit /\ o = <<o[1]>>
           /\ \A n \in 0..limit : <<n>> \in Options(limit)
BY DEF Options

\* An age grows up to its limit.
LEMMA OlderType ==
    ASSUME NEW limit \in Nat, NEW ticks \in Nat
    PROVE  /\ \A age \in 0..limit :
                 Scr!Older(age, ticks, limit) \in 0..limit /\ Scr!Older(age, ticks, limit) >= age
           /\ \A o \in Options(limit) : Scr!OlderOption(o, ticks, limit) \in Options(limit)
                                        /\ (o # <<>> =>
                                              /\ Scr!OlderOption(o, ticks, limit) # <<>>
                                              /\ Scr!OlderOption(o, ticks, limit)[1] >= o[1])
<1>1. \A age \in 0..limit :
         Scr!Older(age, ticks, limit) \in 0..limit /\ Scr!Older(age, ticks, limit) >= age
  BY DEF Scr!Older
<1>2. ASSUME NEW o \in Options(limit)
      PROVE  /\ Scr!OlderOption(o, ticks, limit) \in Options(limit)
             /\ o # <<>> => /\ Scr!OlderOption(o, ticks, limit) # <<>>
                            /\ Scr!OlderOption(o, ticks, limit)[1] >= o[1]
  <2>1. CASE o = <<>>
    BY <2>1 DEF Scr!OlderOption
  <2>2. CASE o # <<>>
    <3>1. o[1] \in 0..limit
      BY <2>2, OptionFacts
    <3>2. Scr!OlderOption(o, ticks, limit) = <<Scr!Older(o[1], ticks, limit)>>
      BY <2>2 DEF Scr!OlderOption
    <3> QED BY <1>1, <3>1, <3>2, OptionFacts
  <2> QED BY <2>1, <2>2
<1> QED BY <1>1, <1>2

\* The displays of a shutdown, and their counts.
LEMMA DisplayTypes ==
    /\ \A k \in {"Accepted", "Guests", "GuestsStopped", "HostPoweroff", "ReportingLost",
                 "ConnectionLost", "Failed"} : \A t, r \in Nat :
          /\ Scr!Display(k, t, r) \in ShutdownDisplays
          /\ Scr!Display(k, t, r).kind = k /\ Scr!Display(k, t, r).remaining = r
    /\ Scr!Accepted \in ShutdownDisplays /\ Scr!Accepted.kind = "Accepted"
    /\ \A d \in ShutdownDisplays : Scr!shutdown_remaining(d) \in Nat
<1>1. \A k \in {"Accepted", "Guests", "GuestsStopped", "HostPoweroff", "ReportingLost",
                 "ConnectionLost", "Failed"} : \A t, r \in Nat :
          /\ Scr!Display(k, t, r) \in ShutdownDisplays
          /\ Scr!Display(k, t, r).kind = k /\ Scr!Display(k, t, r).remaining = r
  BY DEF Scr!Display, ShutdownDisplays
<1>2. Scr!Accepted \in ShutdownDisplays /\ Scr!Accepted.kind = "Accepted"
  BY <1>1 DEF Scr!Accepted
<1>3. \A d \in ShutdownDisplays : Scr!shutdown_remaining(d) \in Nat
  BY DEF ShutdownDisplays, Scr!shutdown_remaining
<1> QED BY <1>1, <1>2, <1>3

\* A stage leaves a stick that is as sound.
Keeps(s, t) ==
    /\ t \in Sticks
    /\ Asks(s, t)
    /\ \A age \in Options(LinkTimeout) : Timed(s, age) => Timed(t, age)
    /\ \A count \in Nat : CountShown(s, count) => CountShown(t, count)

\* Stages one after the other.
LEMMA KeepsChain ==
    ASSUME NEW s, NEW t, NEW u, Keeps(s, t), Keeps(t, u)
    PROVE  Keeps(s, u)
BY DEF Keeps, Asks, Alike

\* A stage that does nothing.
LEMMA KeepsItself ==
    ASSUME NEW s \in Sticks
    PROVE  Keeps(s, s)
BY DEF Keeps, Asks, Alike

\* Time ages the clocks and changes nothing that is drawn.
LEMMA AgedSound ==
    ASSUME NEW s \in Sticks, NEW ticks \in {0, 1}
    PROVE  LET t == Scr!Aged(s, ticks)
           IN  /\ t \in Sticks
               /\ Alike(s, t) /\ ~t.render_pending
               /\ t.session = s.session
               /\ t.last_update = Scr!OlderOption(s.last_update, ticks, LinkTimeout)
               /\ t.usb_activity = Scr!OlderOption(s.usb_activity, ticks, 1)
               /\ t.lost_since = Scr!OlderOption(s.lost_since, ticks, UsbLostConfirm)
<1> USE StickAssumption DEF Scr!ScreenAssumption
<1> DEFINE t == Scr!Aged(s, ticks)
<1>1. t = [s EXCEPT !.last_update = Scr!OlderOption(s.last_update, ticks, LinkTimeout),
                    !.usb_activity = Scr!OlderOption(s.usb_activity, ticks, 1),
                    !.lost_since = Scr!OlderOption(s.lost_since, ticks, UsbLostConfirm),
                    !.spinner_age = Scr!Older(s.spinner_age, ticks, 1),
                    !.render_pending = FALSE]
  BY Zenon DEF Scr!Aged
<1>2. /\ Scr!OlderOption(s.last_update, ticks, LinkTimeout) \in Options(LinkTimeout)
      /\ Scr!OlderOption(s.usb_activity, ticks, 1) \in Options(1)
      /\ Scr!OlderOption(s.lost_since, ticks, UsbLostConfirm) \in Options(UsbLostConfirm)
      /\ Scr!Older(s.spinner_age, ticks, 1) \in 0..1
  BY OlderType DEF Sticks
<1>3. t \in Sticks
  BY <1>1, <1>2 DEF Sticks
<1>4. Alike(s, t) /\ ~t.render_pending
  BY <1>1 DEF Alike, Sticks
<1> QED BY <1>1, <1>3, <1>4 DEF Sticks

\* The poll of the bus.
LEMMA UsbSound ==
    ASSUME NEW s \in Sticks, ~s.render_pending, NEW sof \in BOOLEAN
    PROVE  LET t == Scr!AfterUsb(s, sof)
           IN  /\ Keeps(s, t)
               /\ t = [s EXCEPT !.usb_activity = t.usb_activity, !.usb_connected = t.usb_connected,
                                !.render_pending = t.render_pending]
               /\ t.usb_connected <=> t.usb_activity = <<0>>
               /\ t.usb_activity = IF sof THEN <<0>> ELSE s.usb_activity
<1> DEFINE activity == IF sof THEN <<0>> ELSE s.usb_activity
           connected_now == activity = <<0>>
           pending == connected_now # s.usb_connected /\ s.daemon = "Waiting"
           t == Scr!AfterUsb(s, sof)
<1>1. activity \in Options(1) /\ connected_now \in BOOLEAN /\ pending \in BOOLEAN
  BY OptionFacts DEF Sticks
<1>2. t = [s EXCEPT !.usb_activity = activity, !.usb_connected = connected_now,
                    !.render_pending = pending]
  BY Zenon DEF Scr!AfterUsb
<1> HIDE DEF pending, connected_now
<1>3. t \in Sticks
  BY <1>1, <1>2 DEF Sticks
<1>4. /\ t.usb_activity = activity /\ t.usb_connected = connected_now /\ t.render_pending = pending
      /\ t.daemon = s.daemon /\ t.snapshot = s.snapshot /\ t.display = s.display
      /\ t.show_about = s.show_about /\ t.last_update = s.last_update
  BY <1>2 DEF Sticks
<1>5. ~t.render_pending => (s.daemon = "Waiting" => t.usb_connected = s.usb_connected)
  BY <1>4, Zenon DEF pending
<1>6. Keeps(s, t)
  BY <1>3, <1>4, <1>5 DEF Keeps, Asks, Alike, Timed, CountShown
<1>7. t.usb_connected <=> t.usb_activity = <<0>>
  BY <1>4, Zenon DEF connected_now
<1>8. t.usb_activity = IF sof THEN <<0>> ELSE s.usb_activity
  BY <1>4
<1> QED BY <1>2, <1>4, <1>6, <1>7, <1>8

\* The timeout of the link.
LEMMA LinkSound ==
    ASSUME NEW s \in Sticks
    PROVE  /\ Keeps(s, Scr!AfterLink(s))
           /\ \/ Scr!AfterLink(s) = s
              \/ /\ s.daemon = "Connected"
                 /\ Scr!AfterLink(s) =
                       [s EXCEPT !.daemon = "Stale", !.session = FALSE, !.render_pending = TRUE]
<1>1. \/ Scr!AfterLink(s) = s
      \/ /\ s.daemon = "Connected"
         /\ Scr!AfterLink(s) = [s EXCEPT !.daemon = "Stale", !.session = FALSE, !.render_pending = TRUE]
  BY Zenon DEF Scr!AfterLink
<1>2. CASE Scr!AfterLink(s) = s
  BY <1>2, KeepsItself
<1>3. ASSUME NEW t, t = [s EXCEPT !.daemon = "Stale", !.session = FALSE, !.render_pending = TRUE]
      PROVE  Keeps(s, t)
  <2>1. t \in Sticks /\ t.render_pending /\ t.daemon = "Stale"
    BY <1>3 DEF Sticks, Scr!DaemonState
  <2> QED BY <2>1 DEF Keeps, Asks, Timed, CountShown
<1> QED BY <1>1, <1>2, <1>3

\* A click.
LEMMA ButtonSound ==
    ASSUME NEW s \in Sticks, NEW click \in Scr!Clicks
    PROVE  /\ Keeps(s, Scr!AfterButton(s, click))
           /\ \E about \in BOOLEAN, pending \in BOOLEAN :
                 Scr!AfterButton(s, click) = [s EXCEPT !.show_about = about, !.render_pending = pending]
<1> DEFINE t == Scr!AfterButton(s, click)
<1>1. CASE click = "none"
  <2>1. t = s
    BY <1>1 DEF Scr!AfterButton
  <2>2. s = [s EXCEPT !.show_about = s.show_about, !.render_pending = s.render_pending]
        /\ s.show_about \in BOOLEAN /\ s.render_pending \in BOOLEAN
    BY DEF Sticks
  <2> HIDE DEF t
  <2>3. Keeps(s, t) /\ \E about \in BOOLEAN, pending \in BOOLEAN :
                          t = [s EXCEPT !.show_about = about, !.render_pending = pending]
    BY <2>1, <2>2, KeepsItself
  <2> QED BY <2>3 DEF t
<1>2. ASSUME NEW about \in BOOLEAN, t = [s EXCEPT !.show_about = about, !.render_pending = TRUE]
      PROVE  Keeps(s, t)
  <2> HIDE DEF t
  <2>1. t \in Sticks
    BY <1>2 DEF Sticks
  <2>2. t.render_pending /\ t.daemon = s.daemon /\ t.display = s.display /\ t.last_update = s.last_update
    BY <1>2 DEF Sticks
  <2> QED BY <2>1, <2>2 DEF Keeps, Asks, Timed, CountShown
<1>3. CASE click # "none"
  <2>1. \E about \in BOOLEAN : t = [s EXCEPT !.show_about = about, !.render_pending = TRUE]
    <3>1. CASE click = "single"
      <4>1. t = [s EXCEPT !.show_about = FALSE, !.render_pending = TRUE]
        BY <3>1 DEF Scr!AfterButton
      <4> HIDE DEF t
      <4> QED BY <4>1
    <3>2. CASE click = "double"
      <4>1. t = [s EXCEPT !.show_about = ~s.show_about, !.render_pending = TRUE]
        BY <3>2, Zenon DEF Scr!AfterButton
      <4>2. (~s.show_about) \in BOOLEAN
        OBVIOUS
      <4> HIDE DEF t
      <4> QED BY <4>1, <4>2, Zenon
    <3> QED BY <1>3, <3>1, <3>2 DEF Scr!Clicks
  <2> HIDE DEF t
  <2>2. PICK about \in BOOLEAN : t = [s EXCEPT !.show_about = about, !.render_pending = TRUE]
    BY <2>1
  <2>3. Keeps(s, t)
    BY <2>2, <1>2
  <2>4. TRUE \in BOOLEAN
    OBVIOUS
  <2>5. Keeps(s, t) /\ \E a \in BOOLEAN, pending \in BOOLEAN :
                          t = [s EXCEPT !.show_about = a, !.render_pending = pending]
    BY <2>2, <2>3, <2>4, Zenon
  <2> QED BY <2>5 DEF t
<1> QED BY <1>1, <1>3

\* The stage that times a lost connection.
LEMMA UsbLostSound ==
    ASSUME NEW s \in Sticks
    PROVE  LET t == Scr!AfterUsbLost(s)
           IN  /\ Keeps(s, t)
               /\ t = [s EXCEPT !.lost_since = t.lost_since, !.display = t.display,
                                !.render_pending = t.render_pending]
               /\ s.usb_connected => t.display = s.display
               /\ \/ t.display = s.display
                  \/ /\ ~s.usb_connected /\ s.daemon = "PoweringOff"
                     /\ s.display.kind \notin {"Failed", "ConnectionLost"}
                     /\ s.lost_since # <<>> /\ s.lost_since[1] >= UsbLostConfirm
                     /\ t.display.kind = "ConnectionLost"
               /\ s.daemon # "PoweringOff" => t.lost_since = <<>>
               /\ s.daemon = "PoweringOff" /\ t.display.kind \notin {"Failed", "ConnectionLost"} =>
                     IF s.usb_connected THEN t.lost_since = <<>>
                     ELSE t.lost_since = IF s.lost_since = <<>> THEN <<0>> ELSE s.lost_since
<1> USE StickAssumption DEF Scr!ScreenAssumption
<1> DEFINE t == Scr!AfterUsbLost(s)
           since == IF s.lost_since = <<>> THEN 0 ELSE s.lost_since[1]
           shown == Scr!Display("ConnectionLost", 0, Scr!shutdown_remaining(s.display))
<1>0. /\ s.display \in ShutdownDisplays /\ s.lost_since \in Options(UsbLostConfirm)
      /\ UsbLostConfirm \in Nat \ {0}
  BY DEF Sticks
<1>1. CASE s.daemon # "PoweringOff"
  <2>1. t = [s EXCEPT !.lost_since = <<>>]
    BY <1>1 DEF Scr!AfterUsbLost
  <2> HIDE DEF t
  <2>2. t \in Sticks
    BY <2>1, OptionFacts DEF Sticks
  <2>3. Keeps(s, t)
    BY <1>1, <2>1, <2>2 DEF Keeps, Asks, Alike, Timed, CountShown, Sticks
  <2> QED BY <1>1, <2>1, <2>3 DEF t, Sticks
<1>2. CASE s.daemon = "PoweringOff" /\ s.display.kind \in {"Failed", "ConnectionLost"}
  <2>1. t = s
    BY <1>2, Zenon DEF Scr!AfterUsbLost
  <2> HIDE DEF t
  <2>2. Keeps(s, t)
    BY <2>1, KeepsItself
  <2> QED BY <1>2, <2>1, <2>2 DEF t, Sticks
<1>3. CASE /\ s.daemon = "PoweringOff" /\ s.display.kind \notin {"Failed", "ConnectionLost"}
           /\ s.usb_connected
  <2>1. t = [s EXCEPT !.lost_since = <<>>]
    BY <1>3, Zenon DEF Scr!AfterUsbLost
  <2> HIDE DEF t
  <2>2. t \in Sticks
    BY <2>1, OptionFacts DEF Sticks
  <2>3. Keeps(s, t)
    BY <1>3, <2>1, <2>2 DEF Keeps, Asks, Alike, Timed, CountShown, Sticks
  <2> QED BY <1>3, <2>1, <2>3 DEF t, Sticks
<1>4. CASE /\ s.daemon = "PoweringOff" /\ s.display.kind \notin {"Failed", "ConnectionLost"}
           /\ ~s.usb_connected
  <2>1. t = IF since < UsbLostConfirm THEN [s EXCEPT !.lost_since = <<since>>]
            ELSE [s EXCEPT !.lost_since = <<since>>, !.render_pending = TRUE, !.display = shown]
    BY <1>4, Zenon DEF Scr!AfterUsbLost
  <2>2. /\ since \in 0..UsbLostConfirm /\ <<since>> \in Options(UsbLostConfirm)
        /\ <<since>> = IF s.lost_since = <<>> THEN <<0>> ELSE s.lost_since
        /\ ~(since < UsbLostConfirm) => s.lost_since # <<>> /\ s.lost_since[1] >= UsbLostConfirm
    BY <1>0, OptionFacts
  <2>3. /\ shown \in ShutdownDisplays /\ shown.kind = "ConnectionLost"
        /\ Scr!shutdown_remaining(shown) = Scr!shutdown_remaining(s.display)
    <3>1. Scr!shutdown_remaining(s.display) \in Nat
      BY <1>0, DisplayTypes
    <3>2. /\ shown \in ShutdownDisplays /\ shown.kind = "ConnectionLost"
          /\ shown.remaining = Scr!shutdown_remaining(s.display)
      BY <3>1 DEF Scr!Display, ShutdownDisplays
    <3> QED BY <3>2 DEF Scr!shutdown_remaining
  <2> HIDE DEF t, since, shown
  <2>4. CASE since < UsbLostConfirm
    <3>1. t = [s EXCEPT !.lost_since = <<since>>]
      BY <2>1, <2>4
    <3>2. t \in Sticks
      BY <3>1, <2>2 DEF Sticks
    <3>3. Keeps(s, t)
      BY <3>1, <3>2 DEF Keeps, Asks, Alike, Timed, CountShown, Sticks
    <3> QED BY <1>4, <2>2, <3>1, <3>3 DEF t, Sticks
  <2>5. CASE ~(since < UsbLostConfirm)
    <3>1. t = [s EXCEPT !.lost_since = <<since>>, !.render_pending = TRUE, !.display = shown]
      BY <2>1, <2>5
    <3>2. t \in Sticks
      BY <3>1, <2>2, <2>3 DEF Sticks
    <3>3. /\ t.daemon = s.daemon /\ t.display = shown /\ t.last_update = s.last_update
          /\ t.render_pending
      BY <3>1 DEF Sticks
    <3>4. Keeps(s, t)
      BY <1>4, <2>3, <3>2, <3>3 DEF Keeps, Asks, Timed, CountShown
    <3> QED BY <1>4, <2>2, <2>3, <2>5, <3>1, <3>3, <3>4 DEF t, Sticks
  <2> QED BY <2>4, <2>5
<1> QED BY <1>1, <1>2, <1>3, <1>4

\* The stage that times the reports.
LEMMA ReportTimeoutSound ==
    ASSUME NEW s \in Sticks, NEW t, t = Scr!AfterReportTimeout(s)
    PROVE  /\ Keeps(s, t)
           /\ t = [s EXCEPT !.display = t.display, !.render_pending = t.render_pending]
           /\ \/ t.display = s.display
              \/ /\ t.display.kind = "ReportingLost" /\ s.daemon = "PoweringOff"
                 /\ s.display.kind \notin {"ReportingLost", "ConnectionLost", "Failed"}
                 /\ s.last_update # <<>> /\ s.last_update[1] >= ReportTimeout
           /\ InTime(t)
<1> DEFINE shown == Scr!Display("ReportingLost", 0, Scr!shutdown_remaining(s.display))
           due == /\ s.daemon = "PoweringOff"
                  /\ s.display.kind \notin {"ReportingLost", "ConnectionLost", "Failed"}
                  /\ s.last_update # <<>> /\ s.last_update[1] >= ReportTimeout
<1>1. \/ ~due /\ t = s
      \/ due /\ t = [s EXCEPT !.display = shown, !.render_pending = TRUE]
  BY Zenon DEF Scr!AfterReportTimeout
<1>2. /\ shown \in ShutdownDisplays /\ shown.kind = "ReportingLost"
      /\ Scr!shutdown_remaining(shown) = Scr!shutdown_remaining(s.display)
  <2>1. s.display \in ShutdownDisplays
    BY DEF Sticks
  <2>2. Scr!shutdown_remaining(s.display) \in Nat
    BY <2>1, DisplayTypes
  <2>3. /\ shown \in ShutdownDisplays /\ shown.kind = "ReportingLost"
        /\ shown.remaining = Scr!shutdown_remaining(s.display)
    BY <2>2 DEF Scr!Display, ShutdownDisplays
  <2> QED BY <2>3 DEF Scr!shutdown_remaining
<1> HIDE DEF shown, due
<1>3. CASE ~due /\ t = s
  <2>1. Keeps(s, t)
    BY <1>3, KeepsItself
  <2>2. s.last_update # <<>> => s.last_update[1] \in Nat
    BY OptionFacts, StickAssumption DEF Sticks, Scr!ScreenAssumption
  <2>3. InTime(t)
    BY <1>3, <2>2, StickAssumption DEF InTime, due, Scr!ScreenAssumption
  <2> QED BY <1>3, <2>1, <2>3 DEF Sticks
<1>4. CASE due /\ t = [s EXCEPT !.display = shown, !.render_pending = TRUE]
  <2>1. t \in Sticks
    BY <1>2, <1>4 DEF Sticks
  <2>2. /\ t.daemon = s.daemon /\ t.display = shown /\ t.last_update = s.last_update
        /\ t.render_pending
    BY <1>4 DEF Sticks
  <2>3. Keeps(s, t)
    BY <1>2, <1>4, <2>1, <2>2 DEF Keeps, Asks, Timed, CountShown, due
  <2>4. InTime(t)
    BY <1>2, <2>2 DEF InTime
  <2> QED BY <1>2, <1>4, <2>2, <2>3, <2>4 DEF due, Sticks
<1> QED BY <1>1, <1>3, <1>4

\* The spinner.
LEMMA SpinnerSound ==
    ASSUME NEW s \in Sticks
    PROVE  LET t == Scr!AfterSpinner(s)
           IN  /\ Keeps(s, t)
               /\ t = [s EXCEPT !.display = t.display, !.spinner_age = t.spinner_age,
                                !.render_pending = t.render_pending]
               /\ t.display.kind = s.display.kind
<1> DEFINE t == Scr!AfterSpinner(s)
           turned == [s.display EXCEPT !.spinner = (@ + 1) % 4]
<1>1. \/ t = s
      \/ t = [s EXCEPT !.display = turned, !.spinner_age = 0, !.render_pending = TRUE]
  BY Zenon DEF Scr!AfterSpinner
<1>2. /\ turned \in ShutdownDisplays /\ turned.kind = s.display.kind
      /\ Scr!shutdown_remaining(turned) = Scr!shutdown_remaining(s.display)
  BY DEF Sticks, ShutdownDisplays, Scr!shutdown_remaining
<1> HIDE DEF t, turned
<1>3. CASE t = s
  <2>1. Keeps(s, t)
    BY <1>3, KeepsItself
  <2> QED BY <1>3, <2>1 DEF t, Sticks
<1>4. CASE t = [s EXCEPT !.display = turned, !.spinner_age = 0, !.render_pending = TRUE]
  <2>1. t \in Sticks
    <3>1. turned \in ShutdownDisplays /\ 0 \in 0..1
      BY <1>2
    <3> QED BY <1>4, <3>1 DEF Sticks
  <2>2. /\ t.daemon = s.daemon /\ t.display = turned /\ t.last_update = s.last_update
        /\ t.render_pending
    BY <1>4 DEF Sticks
  <2>3. Keeps(s, t)
    BY <1>2, <1>4, <2>1, <2>2 DEF Keeps, Asks, Timed, CountShown
  <2> QED BY <1>2, <1>4, <2>2, <2>3 DEF t, Sticks
<1> QED BY <1>1, <1>3, <1>4

\* The kinds of frames, and the display of a phase.
LEMMA FrameTypes ==
    ASSUME NEW m \in Scr!HostFrame
    PROVE  /\ m.kind \in {"Hello", "UnsupportedVersion", "HealthSnapshot", "DisplayConfig",
                          "ShutdownAccepted", "NetworkConfig", "ShutdownProgress", "ShutdownFailed"}
           /\ m.kind = "NetworkConfig" => m.enabled \in BOOLEAN
           /\ m.kind = "ShutdownFailed" => m.remaining \in Nat
           /\ m.kind = "ShutdownProgress" =>
                 /\ m.remaining \in Nat /\ m.total \in Nat
                 /\ m.phase \in {"PreparingGuests", "GuestsStopped", "StoppingGuests", "PoweringOff"}
                 /\ m.phase \in {"PreparingGuests", "GuestsStopped"} => m.remaining = 0
BY DEF Scr!HostFrame

\* What a phase is displayed as: never as a loss or a failure, and with its count.
LEMMA PhaseTypes ==
    ASSUME NEW m \in Scr!HostFrame, m.kind = "ShutdownProgress"
    PROVE  /\ Scr!PhaseDisplay(m) \in ShutdownDisplays
           /\ Scr!shutdown_remaining(Scr!PhaseDisplay(m)) = m.remaining
           /\ Scr!PhaseDisplay(m).kind \notin {"ReportingLost", "ConnectionLost", "Failed"}
<1>1. /\ m.remaining \in Nat /\ m.total \in Nat
      /\ m.phase \in {"PreparingGuests", "GuestsStopped", "StoppingGuests", "PoweringOff"}
      /\ m.phase \in {"PreparingGuests", "GuestsStopped"} => m.remaining = 0
  BY FrameTypes
<1>2. CASE m.phase = "PreparingGuests"
  <2>1. Scr!PhaseDisplay(m) = Scr!Display("Accepted", 0, 0) /\ m.remaining = 0
    BY <1>1, <1>2 DEF Scr!PhaseDisplay, Scr!Accepted
  <2> QED BY <1>2, <2>1 DEF Scr!Display, ShutdownDisplays, Scr!shutdown_remaining
<1>3. CASE m.phase = "StoppingGuests"
  <2>1. Scr!PhaseDisplay(m) = Scr!Display("Guests", m.total, m.remaining)
    BY <1>3 DEF Scr!PhaseDisplay
  <2> QED BY <1>1, <2>1 DEF Scr!Display, ShutdownDisplays, Scr!shutdown_remaining
<1>4. CASE m.phase = "GuestsStopped"
  <2>1. Scr!PhaseDisplay(m) = Scr!Display("GuestsStopped", 0, 0) /\ m.remaining = 0
    BY <1>1, <1>4 DEF Scr!PhaseDisplay
  <2> QED BY <1>4, <2>1 DEF Scr!Display, ShutdownDisplays, Scr!shutdown_remaining
<1>5. CASE m.phase = "PoweringOff"
  <2>1. Scr!PhaseDisplay(m) = Scr!Display("HostPoweroff", 0, m.remaining)
    BY <1>5 DEF Scr!PhaseDisplay
  <2> QED BY <1>1, <1>5, <2>1 DEF Scr!Display, ShutdownDisplays, Scr!shutdown_remaining
<1> QED BY <1>1, <1>2, <1>3, <1>4, <1>5

\* A report of a shutdown resets the clocks of the timeouts.
LEMMA ReportSound ==
    ASSUME NEW s \in Sticks, NEW display \in ShutdownDisplays
    PROVE  LET t == Scr!Report(s, display)
           IN  /\ t \in Sticks /\ t.render_pending
               /\ t.daemon = "PoweringOff" /\ t.display = display
               /\ t.last_update = <<0>> /\ t.lost_since = <<>>
               /\ t.session = s.session /\ t.usb_connected = s.usb_connected
<1> USE StickAssumption DEF Scr!ScreenAssumption
<1> DEFINE t == Scr!Report(s, display)
           age == IF display.kind = "HostPoweroff" THEN 0 ELSE s.spinner_age
<1>1. t = [s EXCEPT !.last_update = <<0>>, !.lost_since = <<>>, !.daemon = "PoweringOff",
                    !.display = display, !.render_pending = TRUE, !.spinner_age = age]
  BY Zenon DEF Scr!Report, Scr!LostSinceAfterReport
<1>2. age \in 0..1
  BY DEF Sticks
<1>3. <<0>> \in Options(LinkTimeout) /\ <<>> \in Options(UsbLostConfirm)
  BY OptionFacts
<1> HIDE DEF t, age
<1>4. t \in Sticks
  BY <1>1, <1>2, <1>3 DEF Sticks, Scr!DaemonState
<1>5. /\ t.render_pending /\ t.daemon = "PoweringOff" /\ t.display = display
      /\ t.last_update = <<0>> /\ t.lost_since = <<>>
      /\ t.session = s.session /\ t.usb_connected = s.usb_connected
  BY <1>1 DEF Sticks
<1> QED BY <1>4, <1>5 DEF t

\* The clock of a lost connection runs on only in the shutdown in which it was started.
SameLoss(s, t) ==
    t.lost_since # <<>> =>
        /\ t.lost_since = s.lost_since
        /\ t.daemon = "PoweringOff" /\ t.display.kind \notin {"Failed", "ConnectionLost"} =>
              s.daemon = "PoweringOff" /\ s.display = t.display

\* What a frame may do.
Receives(s, t) ==
    /\ Asks(s, t)
    /\ s.session => t.session
    /\ t.usb_connected = s.usb_connected
    /\ SameLoss(s, t)
    /\ t.display.kind = "ConnectionLost" => s.display.kind = "ConnectionLost"

\* A frame that tells of no shutdown.
LEMMA OtherFrame ==
    ASSUME NEW s \in Sticks, NEW m \in Scr!HostFrame,
           m.kind \notin Scr!ShutdownKinds \/ ~s.session
    PROVE  Keeps(s, Scr!AfterFrame(s, m)) /\ Receives(s, Scr!AfterFrame(s, m))
<1> DEFINE t == Scr!AfterFrame(s, m)
<1>0. <<>> \in Options(LinkTimeout) /\ <<0>> \in Options(LinkTimeout)
  BY StickAssumption, OptionFacts DEF Scr!ScreenAssumption
<1>1. ASSUME t = s
      PROVE  Keeps(s, t) /\ Receives(s, t)
  <2> HIDE DEF t
  <2>1. Keeps(s, t)
    BY <1>1, KeepsItself
  <2> QED BY <1>1, <2>1 DEF Keeps, Receives, SameLoss
<1>2. ASSUME NEW d \in {"Waiting", "Connected"}, NEW u \in Options(LinkTimeout), NEW w \in BOOLEAN,
             NEW e \in BOOLEAN, s.session => e,
             t = [s EXCEPT !.daemon = d, !.last_update = u, !.session = e, !.snapshot = w,
                           !.render_pending = TRUE]
      PROVE  Keeps(s, t) /\ Receives(s, t)
  <2> HIDE DEF t
  <2>2. t \in Sticks
    BY <1>2 DEF Sticks, Scr!DaemonState
  <2>3. /\ t.daemon = d /\ t.render_pending /\ t.session = e /\ t.usb_connected = s.usb_connected
        /\ t.lost_since = s.lost_since /\ t.display = s.display
    BY <1>2 DEF Sticks
  <2> QED BY <1>2, <2>2, <2>3 DEF Keeps, Receives, SameLoss, Asks, Timed, CountShown
<1>3. CASE m.kind = "Hello"
  <2>1. t = [s EXCEPT !.daemon = "Waiting", !.last_update = <<>>, !.session = TRUE,
                      !.render_pending = TRUE]
    BY <1>3 DEF Scr!AfterFrame
  <2>2. [s EXCEPT !.daemon = "Waiting", !.last_update = <<>>, !.session = TRUE, !.render_pending = TRUE]
          = [s EXCEPT !.daemon = "Waiting", !.last_update = <<>>, !.session = TRUE,
                      !.snapshot = s.snapshot, !.render_pending = TRUE]
    BY DEF Sticks
  <2>3. s.snapshot \in BOOLEAN /\ TRUE \in BOOLEAN /\ <<>> \in Options(LinkTimeout)
    BY <1>0 DEF Sticks
  <2> HIDE DEF t
  <2>9. Keeps(s, t) /\ Receives(s, t)
    BY <1>2, <2>1, <2>2, <2>3
  <2> QED BY <2>9 DEF t
<1>4. CASE m.kind = "HealthSnapshot" /\ s.session
  <2>1. t = [s EXCEPT !.daemon = "Connected", !.last_update = <<0>>, !.snapshot = TRUE,
                      !.render_pending = TRUE]
    BY <1>4 DEF Scr!AfterFrame
  <2>2. [s EXCEPT !.daemon = "Connected", !.last_update = <<0>>, !.snapshot = TRUE,
                  !.render_pending = TRUE]
          = [s EXCEPT !.daemon = "Connected", !.last_update = <<0>>, !.session = s.session,
                      !.snapshot = TRUE, !.render_pending = TRUE]
    BY DEF Sticks
  <2>3. s.session \in BOOLEAN /\ TRUE \in BOOLEAN /\ <<0>> \in Options(LinkTimeout)
    BY <1>0 DEF Sticks
  <2> HIDE DEF t
  <2>9. Keeps(s, t) /\ Receives(s, t)
    BY <1>2, <2>1, <2>2, <2>3
  <2> QED BY <2>9 DEF t
<1>5. CASE m.kind = "UnsupportedVersion"
  <2>1. t = [s EXCEPT !.daemon = "Incompatible", !.render_pending = TRUE]
    BY <1>5 DEF Scr!AfterFrame
  <2> HIDE DEF t
  <2>2. t \in Sticks
    BY <2>1 DEF Sticks, Scr!DaemonState
  <2>3. /\ t.daemon = "Incompatible" /\ t.render_pending /\ t.session = s.session
        /\ t.usb_connected = s.usb_connected /\ t.lost_since = s.lost_since /\ t.display = s.display
    BY <2>1 DEF Sticks
  <2>9. Keeps(s, t) /\ Receives(s, t)
    BY <2>2, <2>3 DEF Keeps, Receives, SameLoss, Asks, Timed, CountShown
  <2> QED BY <2>9 DEF t
<1>6. CASE m.kind = "DisplayConfig" /\ s.session
  <2>1. t = [s EXCEPT !.render_pending = TRUE]
    BY <1>6 DEF Scr!AfterFrame
  <2> HIDE DEF t
  <2>2. t \in Sticks
    BY <2>1 DEF Sticks
  <2>3. /\ t.daemon = s.daemon /\ t.render_pending /\ t.session = s.session /\ t.display = s.display
        /\ t.usb_connected = s.usb_connected /\ t.lost_since = s.lost_since
        /\ t.last_update = s.last_update
    BY <2>1 DEF Sticks
  <2>9. Keeps(s, t) /\ Receives(s, t)
    BY <2>2, <2>3 DEF Keeps, Receives, SameLoss, Asks, Timed, CountShown
  <2> QED BY <2>9 DEF t
<1>7. CASE m.kind = "NetworkConfig" /\ s.session
  <2>1. t = [s EXCEPT !.port = m.enabled]
    BY <1>7 DEF Scr!AfterFrame
  <2> HIDE DEF t
  <2>2. t \in Sticks
    BY <1>7, <2>1, FrameTypes DEF Sticks
  <2>3. /\ t.daemon = s.daemon /\ t.session = s.session /\ t.display = s.display
        /\ t.usb_connected = s.usb_connected /\ t.lost_since = s.lost_since
        /\ t.last_update = s.last_update /\ t.render_pending = s.render_pending
        /\ t.show_about = s.show_about /\ t.snapshot = s.snapshot
    BY <2>1 DEF Sticks
  <2>9. Keeps(s, t) /\ Receives(s, t)
    BY <2>2, <2>3 DEF Keeps, Receives, SameLoss, Asks, Alike, Timed, CountShown
  <2> QED BY <2>9 DEF t
<1>8. CASE m.kind \notin {"Hello", "UnsupportedVersion"} /\ ~s.session
  <2>1. t = s
    BY <1>8 DEF Scr!AfterFrame
  <2> HIDE DEF t
  <2>9. Keeps(s, t) /\ Receives(s, t)
    BY <1>1, <2>1
  <2> QED BY <2>9 DEF t
<1>9. \/ m.kind = "Hello"
      \/ m.kind = "UnsupportedVersion"
      \/ m.kind = "HealthSnapshot" /\ s.session
      \/ m.kind = "DisplayConfig" /\ s.session
      \/ m.kind = "NetworkConfig" /\ s.session
      \/ m.kind \notin {"Hello", "UnsupportedVersion"} /\ ~s.session
  BY FrameTypes DEF Scr!ShutdownKinds
<1> QED BY <1>3, <1>4, <1>5, <1>6, <1>7, <1>8, <1>9

\* A frame of a shutdown in a session: its count is shown, and its progress is timed anew.
LEMMA ShutdownFrame ==
    ASSUME NEW s \in Sticks, NEW m \in Scr!HostFrame, m.kind \in Scr!ShutdownKinds, s.session
    PROVE  LET t == Scr!AfterFrame(s, m)
               count == IF m.kind = "ShutdownAccepted" THEN 0 ELSE m.remaining
           IN  /\ t \in Sticks /\ Receives(s, t)
               /\ count \in Nat /\ CountShown(t, count)
               /\ Timed(t, <<0>>)
               /\ m.kind = "ShutdownFailed" => \A age \in Options(LinkTimeout) : Timed(t, age)
<1> DEFINE t == Scr!AfterFrame(s, m)
           count == IF m.kind = "ShutdownAccepted" THEN 0 ELSE m.remaining
<1>1. ASSUME NEW display \in ShutdownDisplays, Scr!shutdown_remaining(display) = count,
             display.kind \notin {"ReportingLost", "ConnectionLost"}, t = Scr!Report(s, display)
      PROVE  t \in Sticks /\ Receives(s, t) /\ CountShown(t, count) /\ Timed(t, <<0>>)
  <2> HIDE DEF t, count
  <2>1. /\ t \in Sticks /\ t.render_pending
        /\ t.daemon = "PoweringOff" /\ t.display = display
        /\ t.last_update = <<0>> /\ t.lost_since = <<>>
        /\ t.session = s.session /\ t.usb_connected = s.usb_connected
    BY <1>1, ReportSound
  <2> QED BY <1>1, <2>1 DEF Receives, SameLoss, Asks, CountShown, Timed
<1>2. CASE m.kind = "ShutdownAccepted"
  <2>1. t = Scr!Report(s, Scr!Accepted)
    BY <1>2 DEF Scr!AfterFrame
  <2>2. Scr!Accepted \in ShutdownDisplays /\ Scr!shutdown_remaining(Scr!Accepted) = 0
        /\ Scr!Accepted.kind \notin {"ReportingLost", "ConnectionLost"}
    BY DisplayTypes DEF Scr!shutdown_remaining
  <2>3. count = 0 /\ count \in Nat
    BY <1>2
  <2> HIDE DEF t, count
  <2>4. t \in Sticks /\ Receives(s, t) /\ CountShown(t, count) /\ Timed(t, <<0>>)
    BY <1>1, <2>1, <2>2, <2>3
  <2> QED BY <1>2, <2>3, <2>4 DEF t, count
<1>3. CASE m.kind = "ShutdownProgress"
  <2>1. t = Scr!Report(s, Scr!PhaseDisplay(m))
    BY <1>3 DEF Scr!AfterFrame
  <2>2. count = m.remaining /\ count \in Nat
    BY <1>3, FrameTypes
  <2>3. /\ Scr!PhaseDisplay(m) \in ShutdownDisplays
        /\ Scr!shutdown_remaining(Scr!PhaseDisplay(m)) = count
        /\ Scr!PhaseDisplay(m).kind \notin {"ReportingLost", "ConnectionLost"}
    BY <1>3, <2>2, PhaseTypes
  <2> HIDE DEF t, count
  <2>4. t \in Sticks /\ Receives(s, t) /\ CountShown(t, count) /\ Timed(t, <<0>>)
    BY <1>1, <2>1, <2>3
  <2> QED BY <1>3, <2>2, <2>3, <2>4 DEF t, count
<1>4. CASE m.kind = "ShutdownFailed"
  <2>1. t = [s EXCEPT !.daemon = "PoweringOff", !.display = Scr!Display("Failed", 0, m.remaining),
                      !.render_pending = TRUE]
    BY <1>4 DEF Scr!AfterFrame
  <2>2. count = m.remaining /\ count \in Nat
    BY <1>4, FrameTypes
  <2> DEFINE display == Scr!Display("Failed", 0, m.remaining)
  <2>3. /\ display \in ShutdownDisplays /\ display.kind = "Failed"
        /\ Scr!shutdown_remaining(display) = count
    BY <2>2 DEF Scr!Display, ShutdownDisplays, Scr!shutdown_remaining
  <2> HIDE DEF t, count, display
  <2>4. t \in Sticks
    BY <2>1, <2>3 DEF Sticks, Scr!DaemonState, display
  <2>5. /\ t.daemon = "PoweringOff" /\ t.display = display /\ t.render_pending
        /\ t.session = s.session /\ t.usb_connected = s.usb_connected /\ t.lost_since = s.lost_since
    BY <2>1 DEF Sticks, display
  <2>6. Receives(s, t) /\ CountShown(t, count)
    BY <2>3, <2>5 DEF Receives, SameLoss, Asks, CountShown
  <2>7. ASSUME NEW age PROVE Timed(t, age)
    BY <2>3, <2>5 DEF Timed
  <2> QED BY <2>2, <2>4, <2>6, <2>7 DEF t, count
<1> QED BY <1>2, <1>3, <1>4 DEF Scr!ShutdownKinds

\* Frames one after the other.
LEMMA ReceivesChain ==
    ASSUME NEW s, NEW t, NEW u, Receives(s, t), Receives(t, u)
    PROVE  Receives(s, u)
<1>1. Asks(s, u)
  BY DEF Receives, Asks, Alike
<1>2. SameLoss(s, u)
  BY DEF Receives, SameLoss
<1> QED BY <1>1, <1>2 DEF Receives

\* The next frame of a batch.
LEMMA ReadsSound ==
    ASSUME NEW x \in Sound, NEW m \in Scr!HostFrame
    PROVE  Scr!Reads(x, m) \in Sound /\ Receives(x.stick, Scr!Reads(x, m).stick)
<1> DEFINE t == Scr!AfterFrame(x.stick, m)
<1> USE StickAssumption DEF Scr!ScreenAssumption
<1>1. /\ x.stick \in Sticks /\ x.count \in Nat /\ x.age \in Options(LinkTimeout)
      /\ CountShown(x.stick, x.count) /\ Timed(x.stick, x.age)
  BY DEF Sound
<1>2. CASE m.kind \notin Scr!ShutdownKinds \/ ~x.stick.session
  <2>1. Scr!Reads(x, m) = [stick |-> t, count |-> x.count, age |-> x.age]
    BY <1>2, Zenon DEF Scr!Reads
  <2>2. Keeps(x.stick, t) /\ Receives(x.stick, t)
    BY <1>1, <1>2, OtherFrame
  <2> HIDE DEF t
  <2>3. t \in Sticks /\ CountShown(t, x.count) /\ Timed(t, x.age)
    BY <1>1, <2>2 DEF Keeps
  <2> QED BY <1>1, <2>1, <2>2, <2>3 DEF Sound
<1>3. CASE m.kind \in Scr!ShutdownKinds /\ x.stick.session
  <2> DEFINE count == IF m.kind = "ShutdownAccepted" THEN 0 ELSE m.remaining
             age == IF m.kind # "ShutdownFailed" THEN <<0>> ELSE x.age
  <2>1. Scr!Reads(x, m) = [stick |-> t, count |-> count, age |-> age]
    BY <1>3, Zenon DEF Scr!Reads
  <2>2. /\ t \in Sticks /\ Receives(x.stick, t)
        /\ count \in Nat /\ CountShown(t, count)
        /\ Timed(t, <<0>>)
        /\ m.kind = "ShutdownFailed" => \A a \in Options(LinkTimeout) : Timed(t, a)
    BY <1>1, <1>3, ShutdownFrame
  <2> HIDE DEF t
  <2>3. age \in Options(LinkTimeout) /\ Timed(t, age)
    BY <1>1, <2>2, OptionFacts
  <2> HIDE DEF count, age
  <2> QED BY <2>1, <2>2, <2>3 DEF Sound
<1> QED BY <1>2, <1>3

\* All frames of a batch.
LEMMA FramesSound ==
    ASSUME NEW seen \in Sound, NEW batch \in Seq(Scr!HostFrame)
    PROVE  LET after == Scr!AfterFrames(seen, batch)
           IN  after \in Sound /\ Receives(seen.stick, after.stick)
<1> DEFINE Good == {x \in Sound : Receives(seen.stick, x.stick)}
<1>1. Len(batch) \in Nat /\ \A n \in 1..Len(batch) : batch[n] \in Scr!HostFrame
  OBVIOUS
<1>0. PICK after : InTurn(seen, batch, after)
  BY <1>1, FramesInTurn
<1>2. /\ after[0] = seen
      /\ \A n \in 0..Len(batch) : n > 0 => after[n] = Scr!Reads(after[n - 1], batch[n])
      /\ Scr!AfterFrames(seen, batch) = after[Len(batch)]
  BY <1>0 DEF InTurn
<1> DEFINE T == {n \in 0..Len(batch) : after[n] \in Good}
<1>3. 0 \in T
  <2>1. Receives(seen.stick, seen.stick)
    BY DEF Receives, SameLoss, Asks, Alike
  <2>2. 0 \in 0..Len(batch)
    BY <1>1
  <2> QED BY <1>2, <2>1, <2>2
<1>4. ASSUME NEW n \in 0..Len(batch), n > 0, n - 1 \in T
      PROVE  n \in T
  <2>1. batch[n] \in Scr!HostFrame
    BY <1>1, <1>4
  <2>2. after[n - 1] \in Sound /\ Receives(seen.stick, after[n - 1].stick)
    BY <1>4
  <2>3. after[n] = Scr!Reads(after[n - 1], batch[n])
    BY <1>2, <1>4
  <2> HIDE DEF T, Good
  <2>4. after[n] \in Sound /\ Receives(after[n - 1].stick, after[n].stick)
    BY <2>1, <2>2, <2>3, ReadsSound
  <2>5. Receives(seen.stick, after[n].stick)
    BY <2>2, <2>4, ReceivesChain
  <2> QED BY <2>4, <2>5 DEF T, Good
<1>5. Len(batch) \in T
  <2> HIDE DEF T
  <2>1. 0..Len(batch) \subseteq T
    BY <1>1, <1>3, <1>4, Induction
  <2> QED BY <1>1, <2>1
<1> QED BY <1>2, <1>5

\* The stages after the frames.
LEMMA StagesSound ==
    ASSUME NEW s \in Sticks, NEW click \in Scr!Clicks
    PROVE  LET t == Scr!AfterStages(s, click)
           IN  /\ Keeps(s, t)
               /\ InTime(t)
<1> USE StickAssumption DEF Scr!ScreenAssumption
<1> DEFINE t1 == Scr!AfterLink(s)
           t2 == Scr!AfterButton(t1, click)
           t3 == Scr!AfterUsbLost(t2)
           t4 == Scr!AfterReportTimeout(t3)
           t5 == Scr!AfterSpinner(t4)
<1>1. Keeps(s, t1)
  BY LinkSound
<1> HIDE DEF t1
<1>2. Keeps(t1, t2)
  BY <1>1, ButtonSound DEF Keeps
<1> HIDE DEF t2
<1>3. Keeps(t2, t3)
  BY <1>2, UsbLostSound DEF Keeps
<1> HIDE DEF t3
<1>4. Keeps(t3, t4) /\ InTime(t4)
  BY <1>3, ReportTimeoutSound DEF Keeps
<1> HIDE DEF t4
<1>5. Keeps(t4, t5) /\ InTime(t5)
  <2>1. /\ t4 \in Sticks /\ Keeps(t4, t5) /\ t5.display.kind = t4.display.kind
        /\ t5 = [t4 EXCEPT !.display = t5.display, !.spinner_age = t5.spinner_age,
                           !.render_pending = t5.render_pending]
    BY <1>4, SpinnerSound DEF Keeps
  <2> HIDE DEF t5
  <2>2. t5.daemon = t4.daemon /\ t5.last_update = t4.last_update
    BY <2>1 DEF Sticks
  <2> QED BY <1>4, <2>1, <2>2 DEF InTime
<1>6. Scr!AfterStages(s, click) = t5
  BY DEF Scr!AfterStages, t1, t2, t3, t4
<1> HIDE DEF t5
<1>7. Keeps(s, t5)
  BY <1>1, <1>2, <1>3, <1>4, <1>5, KeepsChain
<1> QED BY <1>5, <1>6, <1>7

-----------------------------------------------------------------------------
(* What render draws.                                                      *)

\* The bar of STOPPING GUESTS stays inside its frame.
LEMMA BarFits ==
    ASSUME NEW d \in ShutdownDisplays
    PROVE  Scr!GuestShutdownBar(d) \in 0..198
<1> DEFINE left == IF d.remaining < d.total THEN d.remaining ELSE d.total
<1>1. d.total \in Nat /\ left \in 0..d.total
  BY DEF ShutdownDisplays
<1>2. CASE d.total = 0
  BY <1>2 DEF Scr!GuestShutdownBar
<1>3. CASE d.total # 0
  <2>1. ASSUME NEW total \in Nat \ {0}, NEW part_done \in 0..total
        PROVE  (part_done * 198) \div total \in 0..198
    <3> DEFINE q == (part_done * 198) \div total
    <3>1. q \in Int /\ total * q <= part_done * 198 /\ part_done * 198 < total * q + total
      OBVIOUS
    <3> HIDE DEF q
    <3>2. q >= 0
      <4>1. SUFFICES ASSUME q <= 0 - 1 PROVE FALSE
        BY <3>1
      <4>2. total * q <= 0 - total
        BY <3>1, <4>1
      <4> QED BY <3>1, <4>2
    <3>3. q <= 198
      <4>1. SUFFICES ASSUME q >= 199 PROVE FALSE
        BY <3>1
      <4>2. total * q >= total * 199
        BY <3>1, <4>1
      <4> QED BY <3>1, <4>2
    <3> QED BY <3>1, <3>2, <3>3 DEF q
  <2>2. d.total - left \in 0..d.total
    BY <1>1
  <2>3. Scr!GuestShutdownBar(d) = ((d.total - left) * 198) \div d.total
    BY <1>3 DEF Scr!GuestShutdownBar
  <2> HIDE DEF left
  <2> QED BY <1>1, <1>3, <2>1, <2>2, <2>3
<1> QED BY <1>2, <1>3

\* The ABOUT screens.
IsAbout(shown) == shown \in {<<"QR ABOUT">>, <<"DETAILED ABOUT">>}

\* The same screen, or both ABOUT screens.
SameScreen(a, b) == a = b \/ (IsAbout(a) /\ IsAbout(b))

\* States that are alike are drawn as the same screen, whatever the address.
LEMMA AlikeDrawn ==
    ASSUME NEW s \in Sticks, NEW t \in Sticks, Alike(s, t), NEW a \in BOOLEAN, NEW b \in BOOLEAN
    PROVE  SameScreen(Scr!Rendered(s, a), Scr!Rendered(t, b))
<1>1. CASE s.show_about /\ s.daemon # "PoweringOff"
  <2>1. IsAbout(Scr!Rendered(s, a)) /\ IsAbout(Scr!Rendered(t, b))
    BY <1>1 DEF Scr!Rendered, IsAbout, Alike
  <2> QED BY <2>1 DEF SameScreen
<1>2. CASE ~(s.show_about /\ s.daemon # "PoweringOff")
  <2>1. Scr!Rendered(s, a) = Scr!Rendered(t, b)
    <3>1. CASE s.daemon = "PoweringOff"
      BY <1>2, <3>1 DEF Scr!Rendered, Alike
    <3>2. CASE s.daemon = "Stale"
      BY <1>2, <3>2 DEF Scr!Rendered, Alike
    <3>3. CASE s.daemon = "Incompatible"
      BY <1>2, <3>3 DEF Scr!Rendered, Alike
    <3>4. CASE s.daemon = "Connected"
      BY <1>2, <3>4 DEF Scr!Rendered, Alike
    <3>5. CASE s.daemon = "Waiting"
      BY <1>2, <3>5 DEF Scr!Rendered, Alike
    <3> QED BY <3>1, <3>2, <3>3, <3>4, <3>5 DEF Sticks, Scr!DaemonState
  <2> QED BY <2>1 DEF SameScreen
<1> QED BY <1>1, <1>2

\* What render draws.
LEMMA DrawnTypes ==
    ASSUME NEW s \in Sticks, NEW a \in BOOLEAN
    PROVE  LET shown == Scr!Rendered(s, a)
           IN  shown[1] \in Scr!Screens /\ (shown[1] = "SHUTDOWN" => shown[3] \in 0..198)
<1> USE DEF Scr!Screens
<1>1. CASE s.show_about /\ s.daemon # "PoweringOff"
  BY <1>1 DEF Scr!Rendered
<1>2. CASE ~(s.show_about /\ s.daemon # "PoweringOff")
  <2>1. CASE s.daemon = "PoweringOff"
    <3>1. s.display \in ShutdownDisplays
      BY DEF Sticks
    <3>2. Scr!GuestShutdownBar(s.display) \in 0..198
      BY <3>1, BarFits
    <3>3. Scr!Rendered(s, a) = <<"SHUTDOWN", s.display, IF s.display.kind = "Guests"
                                                         THEN Scr!GuestShutdownBar(s.display) ELSE 0>>
      BY <1>2, <2>1 DEF Scr!Rendered
    <3> QED BY <3>2, <3>3
  <2>2. CASE s.daemon = "Stale"
    BY <1>2, <2>2 DEF Scr!Rendered
  <2>3. CASE s.daemon = "Incompatible"
    BY <1>2, <2>3 DEF Scr!Rendered
  <2>4. CASE s.daemon = "Connected"
    BY <1>2, <2>4 DEF Scr!Rendered
  <2>5. CASE s.daemon = "Waiting"
    BY <1>2, <2>5 DEF Scr!Rendered
  <2> QED BY <2>1, <2>2, <2>3, <2>4, <2>5 DEF Sticks, Scr!DaemonState
<1> QED BY <1>1, <1>2

-----------------------------------------------------------------------------
(* The invariant of the screen.                                            *)

\* The invariant of the screen: values in range, the count of the last shutdown frame,
\* a shutdown timed by its last report, and the screen that render draws.
ScreenIInv ==
    /\ stick \in Sticks /\ last \in Nat
    /\ CountShown(stick, last)
    /\ Timed(stick, report_age) /\ InTime(stick)
    /\ SameScreen(screen, Scr!Rendered(stick, address))
    /\ address \in BOOLEAN /\ host \in {"on", "off"} /\ clock \in {0, 1}
    /\ usb_age \in Options(UsbLostConfirm) /\ report_age \in Options(LinkTimeout)

\* The stick boots so.
LEMMA ScreenStarts == Scr!Init => ScreenIInv
<1> SUFFICES ASSUME Scr!Init PROVE ScreenIInv
  OBVIOUS
<1> USE StickAssumption DEF Scr!ScreenAssumption
<1>1. /\ stick = Scr!Boot /\ address = FALSE /\ screen = Scr!Rendered(stick, address) /\ host = "on"
      /\ usb_age = <<>> /\ last = 0 /\ report_age = <<>> /\ clock = 0
  BY DEF Scr!Init
<1>2. /\ Scr!Accepted \in ShutdownDisplays
      /\ <<>> \in Options(LinkTimeout) /\ <<>> \in Options(1) /\ <<>> \in Options(UsbLostConfirm)
  BY DisplayTypes, OptionFacts
<1>3. Scr!Boot \in Sticks
  BY <1>2 DEF Scr!Boot, Sticks, Scr!DaemonState
<1>4. Scr!Boot.daemon = "Waiting"
  BY DEF Scr!Boot
<1>5. CountShown(stick, last) /\ Timed(stick, report_age) /\ InTime(stick)
  BY <1>1, <1>4 DEF CountShown, Timed, InTime
<1>6. SameScreen(screen, Scr!Rendered(stick, address))
  BY <1>1 DEF SameScreen
<1>7. address \in BOOLEAN
  BY <1>1, Zenon
<1> QED BY <1>1, <1>2, <1>3, <1>5, <1>6, <1>7 DEF ScreenIInv

\* What an iteration finds when it comes to its frames.
LEMMA BeforeFrames ==
    ASSUME ScreenIInv, NEW ticks \in {0, 1}, NEW sof \in BOOLEAN
    PROVE  LET s == Scr!AfterUsb(Scr!Aged(stick, ticks), sof)
           IN  /\ [stick |-> s, count |-> last,
                   age |-> Scr!OlderOption(report_age, ticks, LinkTimeout)] \in Sound
               /\ ~s.render_pending => Alike(stick, s)
               /\ s.daemon = stick.daemon /\ s.display = stick.display
               /\ s.lost_since = Scr!OlderOption(stick.lost_since, ticks, UsbLostConfirm)
               /\ sof => s.usb_connected
<1> USE StickAssumption DEF Scr!ScreenAssumption
<1> DEFINE s1 == Scr!Aged(stick, ticks)
           s == Scr!AfterUsb(s1, sof)
           age == Scr!OlderOption(report_age, ticks, LinkTimeout)
<1>1. /\ stick \in Sticks /\ last \in Nat /\ report_age \in Options(LinkTimeout)
      /\ CountShown(stick, last) /\ Timed(stick, report_age)
  BY DEF ScreenIInv
<1>2. /\ s1 \in Sticks /\ Alike(stick, s1) /\ ~s1.render_pending
      /\ s1.last_update = Scr!OlderOption(stick.last_update, ticks, LinkTimeout)
      /\ s1.lost_since = Scr!OlderOption(stick.lost_since, ticks, UsbLostConfirm)
  BY <1>1, AgedSound
<1>3. /\ age \in Options(LinkTimeout)
      /\ report_age # <<>> => /\ age # <<>> /\ age[1] >= report_age[1]
                              /\ age[1] \in Nat /\ report_age[1] \in Nat
  <2>1. LinkTimeout \in Nat /\ ticks \in Nat /\ report_age \in Options(LinkTimeout)
    BY <1>1
  <2>2. /\ age \in Options(LinkTimeout)
        /\ report_age # <<>> => age # <<>> /\ age[1] >= report_age[1]
    BY <2>1, OlderType
  <2> HIDE DEF age
  <2>3. \A o \in Options(LinkTimeout) : o # <<>> => o[1] \in Nat
    BY <2>1, OptionFacts
  <2> QED BY <2>1, <2>2, <2>3
<1> HIDE DEF s1
<1>4. CountShown(s1, last) /\ Timed(s1, age)
  <2>1. CountShown(s1, last)
    BY <1>1, <1>2 DEF Alike, CountShown
  <2>2. ASSUME s1.daemon = "PoweringOff", s1.display.kind # "Failed"
        PROVE  /\ s1.last_update = age /\ age # <<>>
               /\ s1.display.kind = "ReportingLost" => age[1] >= ReportTimeout
    <3>1. /\ stick.last_update = report_age /\ report_age # <<>>
          /\ s1.display.kind = "ReportingLost" => report_age[1] >= ReportTimeout
      BY <1>1, <1>2, <2>2 DEF Alike, Timed
    <3>2. s1.last_update = age
      BY <1>2, <3>1
    <3> HIDE DEF age
    <3> QED BY <1>3, <3>1, <3>2
  <2> QED BY <2>1, <2>2 DEF Timed
<1> HIDE DEF age
<1>5. /\ Keeps(s1, s)
      /\ s = [s1 EXCEPT !.usb_activity = s.usb_activity, !.usb_connected = s.usb_connected,
                        !.render_pending = s.render_pending]
      /\ s.usb_connected <=> s.usb_activity = <<0>>
      /\ s.usb_activity = IF sof THEN <<0>> ELSE s1.usb_activity
  BY <1>2, UsbSound
<1> HIDE DEF s
<1>6. s \in Sticks /\ CountShown(s, last) /\ Timed(s, age) /\ Asks(s1, s)
  BY <1>1, <1>3, <1>4, <1>5 DEF Keeps
<1>7. s.daemon = s1.daemon /\ s.display = s1.display /\ s.lost_since = s1.lost_since
  BY <1>2, <1>5 DEF Sticks
<1>8. [stick |-> s, count |-> last, age |-> age] \in Sound
  BY <1>1, <1>3, <1>6 DEF Sound
<1>9. ~s.render_pending => Alike(stick, s)
  BY <1>2, <1>6 DEF Asks, Alike
<1> QED BY <1>2, <1>5, <1>7, <1>8, <1>9 DEF s, s1, age, Alike

\* An iteration, whatever it finds.
LEMMA IterationSound ==
    ASSUME ScreenIInv, NEW ticks \in {0, 1}, NEW sof \in BOOLEAN, NEW batch \in Seq(Scr!HostFrame),
           NEW click \in Scr!Clicks, Scr!Iterate(ticks, sof, batch, click),
           address' = address, host' = host
    PROVE  ScreenIInv'
<1> USE StickAssumption DEF Scr!ScreenAssumption
<1> DEFINE s == Scr!AfterUsb(Scr!Aged(stick, ticks), sof)
           arrived == [stick |-> s, count |-> last,
                       age |-> Scr!OlderOption(report_age, ticks, LinkTimeout)]
           seen == Scr!AfterFrames(arrived, batch)
           t == Scr!AfterStages(seen.stick, click)
<1>1. /\ stick' = t
      /\ screen' = IF t.render_pending THEN Scr!Rendered(t, address) ELSE screen
      /\ usb_age' = IF sof THEN <<0>> ELSE Scr!OlderOption(usb_age, ticks, UsbLostConfirm)
      /\ last' = seen.count
      /\ report_age' = IF Scr!AwaitsReports(t) THEN seen.age ELSE <<>>
      /\ clock' = (clock + ticks) % 2
  BY Zenon DEF Scr!Iterate
<1>2. arrived \in Sound /\ arrived.stick = s /\ (~s.render_pending => Alike(stick, s))
  BY BeforeFrames
<1> HIDE DEF s, arrived
<1>3. seen \in Sound /\ Receives(s, seen.stick)
  BY <1>2, FramesSound
<1> HIDE DEF seen
<1>4. /\ seen.stick \in Sticks /\ seen.count \in Nat /\ seen.age \in Options(LinkTimeout)
      /\ CountShown(seen.stick, seen.count) /\ Timed(seen.stick, seen.age)
  BY <1>3 DEF Sound
<1>5. Keeps(seen.stick, t) /\ InTime(t)
  BY <1>4, StagesSound
<1> HIDE DEF t
<1>6. t \in Sticks /\ CountShown(t, seen.count) /\ Timed(t, seen.age) /\ Asks(seen.stick, t)
  BY <1>4, <1>5 DEF Keeps
<1>7. ~t.render_pending => Alike(stick, t)
  BY <1>2, <1>3, <1>6 DEF Receives, Asks, Alike
<1>8. address \in BOOLEAN /\ stick \in Sticks
  BY DEF ScreenIInv
<1>9. SameScreen(screen', Scr!Rendered(t, address))
  <2>1. CASE t.render_pending
    BY <1>1, <2>1 DEF SameScreen
  <2>2. CASE ~t.render_pending
    <3>1. SameScreen(Scr!Rendered(stick, address), Scr!Rendered(t, address))
      BY <1>6, <1>7, <1>8, <2>2, AlikeDrawn
    <3>2. SameScreen(screen, Scr!Rendered(stick, address))
      BY DEF ScreenIInv
    <3> QED BY <1>1, <2>2, <3>1, <3>2 DEF SameScreen
  <2> QED BY <2>1, <2>2
<1>10. usb_age' \in Options(UsbLostConfirm)
  BY <1>1, OptionFacts, OlderType DEF ScreenIInv
<1>11. clock' \in {0, 1} /\ host' \in {"on", "off"} /\ address' \in BOOLEAN
  BY <1>1 DEF ScreenIInv
<1>12. /\ stick' \in Sticks /\ last' \in Nat /\ report_age' \in Options(LinkTimeout)
       /\ CountShown(stick', last') /\ Timed(stick', report_age') /\ InTime(stick')
  <2>1. report_age' \in Options(LinkTimeout)
    BY <1>1, <1>4, OptionFacts
  <2>2. Timed(stick', report_age')
    BY <1>1, <1>6 DEF Timed, Scr!AwaitsReports
  <2> QED BY <1>1, <1>4, <1>5, <1>6, <2>1, <2>2
<1>13. SameScreen(screen', Scr!Rendered(stick', address'))
  BY <1>1, <1>9
<1> QED BY <1>10, <1>11, <1>12, <1>13 DEF ScreenIInv

\* A step of the stick, its address or its host.
LEMMA ScreenSteps ==
    ASSUME ScreenIInv, Scr!Next
    PROVE  ScreenIInv'
<1> USE StickAssumption DEF Scr!ScreenAssumption
<1>1. CASE Scr!Iteration
  <2>1. PICK ticks \in {0, 1}, sof \in BOOLEAN, batch \in Batches, click \in Scr!Clicks :
           Scr!Iterate(ticks, sof, batch, click)
    BY <1>1 DEF Scr!Iteration
  <2>2. address' = address /\ host' = host
    BY <1>1 DEF Scr!Iteration
  <2>3. batch \in Seq(Scr!HostFrame)
    OBVIOUS
  <2> QED BY <2>1, <2>2, <2>3, IterationSound
<1>2. CASE Scr!AddressChanges
  <2>1. /\ address' = ~address
        /\ UNCHANGED <<stick, screen, host, usb_age, last, report_age, clock>>
    BY <1>2 DEF Scr!AddressChanges
  <2>2. address \in BOOLEAN /\ address' \in BOOLEAN /\ stick \in Sticks
    BY <2>1 DEF ScreenIInv
  <2>3. SameScreen(Scr!Rendered(stick, address), Scr!Rendered(stick, address'))
    <3>1. Alike(stick, stick)
      BY DEF Alike
    <3> QED BY <2>2, <3>1, AlikeDrawn
  <2>4. SameScreen(screen, Scr!Rendered(stick, address'))
    BY <2>3 DEF SameScreen, ScreenIInv
  <2> QED BY <2>1, <2>2, <2>4 DEF ScreenIInv
<1>3. CASE Scr!HostPower
  BY <1>3 DEF Scr!HostPower, ScreenIInv
<1> QED BY <1>1, <1>2, <1>3 DEF Scr!Next

\* The invariant is inductive.
LEMMA ScreenInductive ==
    /\ StickInit => ScreenIInv
    /\ ScreenIInv /\ [StickNext]_<<buttonPart, screenPart, viewsPart, part>> => ScreenIInv'
<1>1. StickInit => ScreenIInv
  BY ScreenStarts DEF StickInit
<1>2. ASSUME ScreenIInv, UNCHANGED screenPart PROVE ScreenIInv'
  <2>1. /\ stick' = stick /\ address' = address /\ screen' = screen /\ host' = host
        /\ usb_age' = usb_age /\ last' = last /\ report_age' = report_age /\ clock' = clock
    BY <1>2, Zenon DEF screenPart
  <2> QED BY <1>2, <2>1, Zenon DEF ScreenIInv
<1>3. ScreenIInv /\ StickNext => ScreenIInv'
  BY <1>2, ScreenSteps DEF StickNext
<1> QED BY <1>1, <1>2, <1>3

\* The two screens.
LEMMA AboutScreens ==
    ASSUME NEW shown, IsAbout(shown)
    PROVE  shown = <<shown[1]>> /\ shown[1] \in {"QR ABOUT", "DETAILED ABOUT"}
<1>1. CASE shown = <<"QR ABOUT">>
  BY <1>1
<1>2. CASE shown = <<"DETAILED ABOUT">>
  BY <1>2
<1> QED BY <1>1, <1>2 DEF IsAbout

\* What the invariant says of the properties of Screen.
LEMMA ScreenImplies ==
    ASSUME ScreenIInv
    PROVE  ScreenInv
<1> USE StickAssumption DEF Scr!ScreenAssumption
<1> DEFINE drawn == Scr!Rendered(stick, address)
<1>1. /\ stick \in Sticks /\ CountShown(stick, last) /\ SameScreen(screen, drawn)
      /\ Timed(stick, report_age) /\ InTime(stick)
      /\ address \in BOOLEAN /\ host \in {"on", "off"} /\ clock \in {0, 1}
      /\ usb_age \in Options(UsbLostConfirm) /\ report_age \in Options(LinkTimeout)
  BY Zenon DEF ScreenIInv
<1>2. screen[1] \in Scr!Screens /\ (screen[1] = "SHUTDOWN" => screen[3] \in 0..198)
  <2>1. drawn[1] \in Scr!Screens /\ (drawn[1] = "SHUTDOWN" => drawn[3] \in 0..198)
    BY <1>1, DrawnTypes
  <2>2. CASE screen = drawn
    BY <2>1, <2>2
  <2>3. CASE IsAbout(screen)
    BY <2>3, AboutScreens DEF Scr!Screens
  <2> QED BY <1>1, <2>2, <2>3 DEF SameScreen
<1>3. Scr!LcdShowsState
  <2>1. CASE screen = drawn
    BY <2>1 DEF Scr!LcdShowsState
  <2>2. ASSUME IsAbout(screen), IsAbout(drawn), screen # drawn
        PROVE  Scr!LcdShowsState
    <3>1. {screen[1], drawn[1]} = {"QR ABOUT", "DETAILED ABOUT"}
      <4> HIDE DEF drawn
      <4>1. \/ screen[1] = "QR ABOUT" /\ drawn[1] = "DETAILED ABOUT"
            \/ screen[1] = "DETAILED ABOUT" /\ drawn[1] = "QR ABOUT"
        <5>1. /\ screen = <<screen[1]>> /\ screen[1] \in {"QR ABOUT", "DETAILED ABOUT"}
              /\ drawn = <<drawn[1]>> /\ drawn[1] \in {"QR ABOUT", "DETAILED ABOUT"}
          BY <2>2, AboutScreens
        <5>2. ASSUME screen[1] = drawn[1] PROVE FALSE
          <6>1. <<screen[1]>> = <<drawn[1]>>
            BY <5>2
          <6>2. screen = drawn
            BY <5>1, <6>1, Zenon
          <6> QED BY <2>2, <6>2
        <5> QED BY <5>1, <5>2
      <4> QED BY <4>1, Zenon
    <3> QED BY <3>1 DEF Scr!LcdShowsState
  <2> QED BY <1>1, <2>1, <2>2 DEF SameScreen
<1> HIDE DEF drawn
<1>4. ASSUME NEW limit \in 0..LinkTimeout, NEW age \in Options(limit)
      PROVE  Len(age) <= 1 /\ (age # <<>> => age[1] \in 0..LinkTimeout)
  <2>1. CASE age = <<>>
    <3>1. Len(age) = 0
      BY <2>1
    <3> QED BY <2>1, <3>1
  <2>2. CASE age # <<>>
    <3>1. limit \in Nat /\ limit <= LinkTimeout
      OBVIOUS
    <3>2. PICK n \in 0..limit : age = <<n>>
      BY <2>2 DEF Options
    <3>3. Len(age) = 1 /\ age[1] = n
      BY <3>2
    <3> QED BY <3>1, <3>3
  <2> QED BY <2>1, <2>2
<1>5. \A age \in {stick.last_update, stick.usb_activity, stick.lost_since, usb_age, report_age} :
         Len(age) <= 1 /\ (age # <<>> => age[1] \in 0..LinkTimeout)
  <2>1. LinkTimeout \in 0..LinkTimeout /\ 1 \in 0..LinkTimeout /\ UsbLostConfirm \in 0..LinkTimeout
    OBVIOUS
  <2>2. /\ stick.last_update \in Options(LinkTimeout) /\ stick.usb_activity \in Options(1)
        /\ stick.lost_since \in Options(UsbLostConfirm)
    BY <1>1 DEF Sticks
  <2> QED BY <1>1, <1>4, <2>1, <2>2
<1>6. /\ stick.daemon \in Scr!DaemonState
      /\ stick.session \in BOOLEAN /\ stick.snapshot \in BOOLEAN /\ stick.usb_connected \in BOOLEAN
      /\ stick.show_about \in BOOLEAN /\ stick.port \in BOOLEAN /\ stick.display.spinner \in 0..3
  BY <1>1 DEF Sticks, ShutdownDisplays
<1>7. Scr!TypeOK
  BY <1>1, <1>2, <1>5, <1>6, Zenon DEF Scr!TypeOK
<1>8. Scr!LastCountKept
  BY <1>1 DEF CountShown, Scr!LastCountKept
<1>9. Scr!ReportsTimed
  BY <1>1 DEF Timed, InTime, Scr!ReportsTimed, Scr!AwaitsReports
<1> QED BY <1>3, <1>7, <1>8, <1>9 DEF ScreenInv

\* The LCD shows the state of the main loop, whatever is received, in whatever
\* batches, times out or is clicked: no change goes without a redraw.  A shutdown is
\* timed out when SHUTDOWN_REPORT_TIMEOUT has passed since its last report and at no
\* other time, and then keeps the last count it was told.
THEOREM ScreenSafe == StickSpec => []ScreenInv
<1>1. StickInit => ScreenIInv
  BY ScreenInductive
<1>2. ScreenIInv /\ [StickNext]_<<buttonPart, screenPart, viewsPart, part>> => ScreenIInv'
  BY ScreenInductive
<1>3. ScreenIInv => ScreenInv
  BY ScreenImplies
<1> QED BY <1>1, <1>2, <1>3, PTL DEF StickSpec

-----------------------------------------------------------------------------
(* A lost connection.                                                      *)

\* The screens of a shutdown on which a loss is not timed.
LossSettled(s) == s.daemon = "PoweringOff" /\ s.display.kind \in {"Failed", "ConnectionLost"}

\* The bus has been quiet for at least this long.
QuietFor(age, ticks) == age = <<>> \/ age[1] >= ticks

\* What the clock of a lost connection has counted was quiet.
QuietSince(s, age) == s.lost_since # <<>> /\ ~LossSettled(s) => QuietFor(age, s.lost_since[1])

\* And before the stage that sets it right.
QuietIfLost(s, age) == s.usb_connected \/ s.daemon # "PoweringOff" \/ QuietSince(s, age)

\* The stages keep the clock of a loss within the quiet time.
LEMMA StagesLoss ==
    ASSUME NEW s \in Sticks, NEW click \in Scr!Clicks, NEW age \in Options(UsbLostConfirm),
           QuietIfLost(s, age)
    PROVE  LET t == Scr!AfterStages(s, click)
           IN  /\ QuietSince(t, age)
               /\ t.display.kind = "ConnectionLost" /\ s.display.kind # "ConnectionLost" =>
                     QuietFor(age, UsbLostConfirm)
<1> USE StickAssumption DEF Scr!ScreenAssumption
<1> DEFINE t1 == Scr!AfterLink(s)
           t2 == Scr!AfterButton(t1, click)
           t3 == Scr!AfterUsbLost(t2)
           t4 == Scr!AfterReportTimeout(t3)
           t5 == Scr!AfterSpinner(t4)
<1>1. /\ t1 \in Sticks /\ t1.usb_connected = s.usb_connected
      /\ t1.display = s.display /\ t1.lost_since = s.lost_since
      /\ t1.daemon = "PoweringOff" => s.daemon = "PoweringOff"
  BY LinkSound DEF Sticks, Keeps
<1> HIDE DEF t1
<1>2. /\ t2 \in Sticks /\ t2.usb_connected = t1.usb_connected /\ t2.display = t1.display
      /\ t2.daemon = t1.daemon /\ t2.lost_since = t1.lost_since
  <2>1. Keeps(t1, t2)
    BY <1>1, ButtonSound
  <2>2. PICK about \in BOOLEAN, pending \in BOOLEAN :
           t2 = [t1 EXCEPT !.show_about = about, !.render_pending = pending]
    BY <1>1, ButtonSound
  <2> HIDE DEF t2
  <2> QED BY <1>1, <2>1, <2>2 DEF Sticks, Keeps
<1> HIDE DEF t2
<1>3. QuietIfLost(t2, age)
  BY <1>1, <1>2 DEF QuietIfLost, QuietSince, LossSettled
<1>4. /\ t3 \in Sticks /\ t3.daemon = t2.daemon
      /\ \/ t3.display = t2.display
         \/ /\ ~t2.usb_connected /\ t2.daemon = "PoweringOff" /\ ~LossSettled(t2)
            /\ t2.lost_since # <<>> /\ t2.lost_since[1] >= UsbLostConfirm
            /\ t3.display.kind = "ConnectionLost"
      /\ t2.daemon # "PoweringOff" => t3.lost_since = <<>>
      /\ t2.daemon = "PoweringOff" /\ t3.display.kind \notin {"Failed", "ConnectionLost"} =>
            IF t2.usb_connected THEN t3.lost_since = <<>>
            ELSE t3.lost_since = IF t2.lost_since = <<>> THEN <<0>> ELSE t2.lost_since
  <2>1. /\ Keeps(t2, t3)
        /\ t3 = [t2 EXCEPT !.lost_since = t3.lost_since, !.display = t3.display,
                           !.render_pending = t3.render_pending]
    BY <1>2, UsbLostSound
  <2>2. /\ \/ t3.display = t2.display
           \/ /\ ~t2.usb_connected /\ t2.daemon = "PoweringOff"
              /\ t2.display.kind \notin {"Failed", "ConnectionLost"}
              /\ t2.lost_since # <<>> /\ t2.lost_since[1] >= UsbLostConfirm
              /\ t3.display.kind = "ConnectionLost"
        /\ t2.daemon # "PoweringOff" => t3.lost_since = <<>>
        /\ t2.daemon = "PoweringOff" /\ t3.display.kind \notin {"Failed", "ConnectionLost"} =>
              IF t2.usb_connected THEN t3.lost_since = <<>>
              ELSE t3.lost_since = IF t2.lost_since = <<>> THEN <<0>> ELSE t2.lost_since
    BY <1>2, UsbLostSound
  <2> HIDE DEF t3
  <2>3. t3.daemon = t2.daemon /\ t3 \in Sticks
    BY <1>2, <2>1 DEF Sticks, Keeps
  <2> QED BY <2>2, <2>3 DEF LossSettled
<1>5. /\ t4 \in Sticks /\ t4.daemon = t3.daemon /\ t4.lost_since = t3.lost_since
      /\ \/ t4.display = t3.display
         \/ t4.display.kind = "ReportingLost" /\ t3.daemon = "PoweringOff" /\ ~LossSettled(t3)
  <2> HIDE DEF t3
  <2>1. /\ Keeps(t3, t4)
        /\ t4 = [t3 EXCEPT !.display = t4.display, !.render_pending = t4.render_pending]
        /\ \/ t4.display = t3.display
           \/ /\ t4.display.kind = "ReportingLost" /\ t3.daemon = "PoweringOff"
              /\ t3.display.kind \notin {"ReportingLost", "ConnectionLost", "Failed"}
    BY <1>4, ReportTimeoutSound DEF t4
  <2> HIDE DEF t4
  <2> QED BY <1>4, <2>1 DEF Sticks, Keeps, LossSettled
<1> HIDE DEF t4
<1>6. /\ t5.daemon = t4.daemon /\ t5.lost_since = t4.lost_since
      /\ t5.display.kind = t4.display.kind
  <2>1. /\ Keeps(t4, t5) /\ t5.display.kind = t4.display.kind
        /\ t5 = [t4 EXCEPT !.display = t5.display, !.spinner_age = t5.spinner_age,
                           !.render_pending = t5.render_pending]
    BY <1>5, SpinnerSound
  <2> HIDE DEF t5
  <2> QED BY <1>5, <2>1 DEF Sticks
<1>7. Scr!AfterStages(s, click) = t5
  BY DEF Scr!AfterStages, t1, t2, t4
<1> HIDE DEF t3, t5
<1>8. QuietSince(t3, age)
  <2> SUFFICES ASSUME t3.lost_since # <<>>, ~LossSettled(t3) PROVE QuietFor(age, t3.lost_since[1])
    BY DEF QuietSince
  <2>1. t2.daemon = "PoweringOff" /\ t3.display.kind \notin {"Failed", "ConnectionLost"}
    BY <1>4 DEF LossSettled
  <2>2. t3.display = t2.display /\ ~t2.usb_connected
    BY <1>4, <2>1
  <2>3. CASE t2.lost_since = <<>>
    <3>1. t3.lost_since[1] = 0
      BY <1>4, <2>1, <2>2, <2>3
    <3>2. age # <<>> => age[1] \in Nat
      BY OptionFacts
    <3> QED BY <3>1, <3>2 DEF QuietFor
  <2>4. CASE t2.lost_since # <<>>
    <3>1. t3.lost_since = t2.lost_since
      BY <1>4, <2>1, <2>2, <2>4
    <3>2. ~LossSettled(t2)
      BY <2>1, <2>2 DEF LossSettled
    <3> QED BY <1>3, <2>1, <2>2, <2>4, <3>1, <3>2 DEF QuietIfLost, QuietSince
  <2> QED BY <2>3, <2>4
<1>9. QuietSince(t5, age)
  <2>1. LossSettled(t3) => LossSettled(t5)
    BY <1>5, <1>6 DEF LossSettled
  <2> QED BY <1>5, <1>6, <1>8, <2>1 DEF QuietSince
<1>10. ASSUME t5.display.kind = "ConnectionLost", s.display.kind # "ConnectionLost"
       PROVE  QuietFor(age, UsbLostConfirm)
  <2>1. t3.display.kind = "ConnectionLost" /\ t2.display.kind # "ConnectionLost"
    BY <1>1, <1>2, <1>5, <1>6, <1>10
  <2>2. /\ ~t2.usb_connected /\ t2.daemon = "PoweringOff" /\ ~LossSettled(t2)
        /\ t2.lost_since # <<>> /\ t2.lost_since[1] >= UsbLostConfirm
    BY <1>4, <2>1
  <2>3. QuietFor(age, t2.lost_since[1])
    BY <1>3, <2>2 DEF QuietIfLost, QuietSince
  <2>4. t2.lost_since[1] \in Nat /\ (age # <<>> => age[1] \in Nat)
    BY <1>2, <2>2, OptionFacts DEF Sticks
  <2> QED BY <2>2, <2>3, <2>4 DEF QuietFor
<1> QED BY <1>7, <1>9, <1>10

\* An iteration.
LEMMA IterationLoss ==
    ASSUME ScreenIInv, QuietSince(stick, usb_age), NEW ticks \in {0, 1}, NEW sof \in BOOLEAN,
           NEW batch \in Seq(Scr!HostFrame), NEW click \in Scr!Clicks,
           Scr!Iterate(ticks, sof, batch, click)
    PROVE  /\ QuietSince(stick', usb_age')
           /\ stick.display.kind # "ConnectionLost" /\ stick'.display.kind = "ConnectionLost" =>
                 QuietFor(usb_age', UsbLostConfirm)
<1> USE StickAssumption DEF Scr!ScreenAssumption
<1> DEFINE s == Scr!AfterUsb(Scr!Aged(stick, ticks), sof)
           arrived == [stick |-> s, count |-> last,
                       age |-> Scr!OlderOption(report_age, ticks, LinkTimeout)]
           seen == Scr!AfterFrames(arrived, batch)
           r == seen.stick
           age == IF sof THEN <<0>> ELSE Scr!OlderOption(usb_age, ticks, UsbLostConfirm)
<1>1. stick' = Scr!AfterStages(r, click) /\ usb_age' = age
  BY Zenon DEF Scr!Iterate
<1>2. /\ arrived \in Sound /\ arrived.stick = s
      /\ s.daemon = stick.daemon /\ s.display = stick.display
      /\ s.lost_since = Scr!OlderOption(stick.lost_since, ticks, UsbLostConfirm)
      /\ sof => s.usb_connected
  BY BeforeFrames
<1>3. /\ stick.lost_since \in Options(UsbLostConfirm) /\ usb_age \in Options(UsbLostConfirm)
      /\ age \in Options(UsbLostConfirm)
  BY OptionFacts, OlderType DEF ScreenIInv, Sticks
<1> HIDE DEF s, arrived
<1>4. QuietIfLost(s, age)
  <2>1. CASE sof
    BY <1>2, <2>1 DEF QuietIfLost
  <2>2. CASE ~sof
    <3> SUFFICES ASSUME s.lost_since # <<>>, ~LossSettled(s) PROVE QuietFor(age, s.lost_since[1])
      BY DEF QuietIfLost, QuietSince
    <3>1. /\ stick.lost_since # <<>> /\ ~LossSettled(stick)
          /\ s.lost_since[1] = Scr!Older(stick.lost_since[1], ticks, UsbLostConfirm)
      BY <1>2 DEF LossSettled, Scr!OlderOption
    <3>2. QuietFor(usb_age, stick.lost_since[1])
      BY <3>1 DEF QuietSince
    <3>3. CASE usb_age = <<>>
      BY <2>2, <3>3 DEF QuietFor, Scr!OlderOption
    <3>4. CASE usb_age # <<>>
      <4>1. age[1] = Scr!Older(usb_age[1], ticks, UsbLostConfirm)
        BY <2>2, <3>4 DEF Scr!OlderOption
      <4>2. usb_age[1] \in Nat /\ stick.lost_since[1] \in Nat /\ usb_age[1] >= stick.lost_since[1]
        BY <1>3, <3>1, <3>2, <3>4, OptionFacts DEF QuietFor
      <4>3. age[1] >= s.lost_since[1]
        <5> HIDE DEF age
        <5> QED BY <3>1, <4>1, <4>2 DEF Scr!Older
      <4> QED BY <4>3 DEF QuietFor
    <3> QED BY <3>3, <3>4
  <2> QED BY <2>1, <2>2
<1>5. seen \in Sound /\ Receives(s, r)
  BY <1>2, FramesSound
<1> HIDE DEF seen, r, age
<1>6. QuietIfLost(r, age)
  BY <1>4, <1>5 DEF Receives, SameLoss, QuietIfLost, QuietSince, LossSettled
<1>7. r \in Sticks /\ (r.display.kind = "ConnectionLost" => stick.display.kind = "ConnectionLost")
  BY <1>2, <1>5 DEF Sound, Receives, r
<1>8. /\ QuietSince(Scr!AfterStages(r, click), age)
      /\ /\ Scr!AfterStages(r, click).display.kind = "ConnectionLost"
         /\ r.display.kind # "ConnectionLost"
         => QuietFor(age, UsbLostConfirm)
  BY <1>3, <1>6, <1>7, StagesLoss
<1> QED BY <1>1, <1>7, <1>8

\* The invariant of a lost connection.
LossIInv == ScreenIInv /\ QuietSince(stick, usb_age)

\* It is inductive, and its steps show a loss only when it holds.
LEMMA LossInductive ==
    ASSUME LossIInv, [StickNext]_<<buttonPart, screenPart, viewsPart, part>>
    PROVE  /\ LossIInv'
           /\ stick.display.kind # "ConnectionLost" /\ stick'.display.kind = "ConnectionLost" =>
                 QuietFor(usb_age', UsbLostConfirm)
<1> USE StickAssumption DEF Scr!ScreenAssumption
<1>1. ScreenIInv' /\ ScreenIInv /\ QuietSince(stick, usb_age)
  BY ScreenInductive DEF LossIInv
<1>2. ASSUME stick' = stick, usb_age' = usb_age
      PROVE  /\ QuietSince(stick', usb_age')
             /\ stick.display.kind # "ConnectionLost" /\ stick'.display.kind = "ConnectionLost" =>
                   QuietFor(usb_age', UsbLostConfirm)
  BY <1>1, <1>2
<1>3. ASSUME NEW ticks \in {0, 1}, NEW sof \in BOOLEAN, NEW batch \in Seq(Scr!HostFrame),
             NEW click \in Scr!Clicks, Scr!Iterate(ticks, sof, batch, click)
      PROVE  /\ QuietSince(stick', usb_age')
             /\ stick.display.kind # "ConnectionLost" /\ stick'.display.kind = "ConnectionLost" =>
                   QuietFor(usb_age', UsbLostConfirm)
  BY <1>1, <1>3, IterationLoss
<1>4. \/ stick' = stick /\ usb_age' = usb_age
      \/ \E ticks \in {0, 1}, sof \in BOOLEAN, batch \in Seq(Scr!HostFrame), click \in Scr!Clicks :
            Scr!Iterate(ticks, sof, batch, click)
  <2>1. CASE Scr!Iteration
    BY <2>1 DEF Scr!Iteration
  <2>2. CASE Scr!AddressChanges \/ Scr!HostPower
    BY <2>2 DEF Scr!AddressChanges, Scr!HostPower
  <2>3. CASE UNCHANGED screenPart
    BY <2>3 DEF screenPart
  <2> QED BY <2>1, <2>2, <2>3 DEF StickNext, Scr!Next
<1> QED BY <1>1, <1>2, <1>3, <1>4 DEF LossIInv

\* CONNECTION LOST appears only after the bus has been quiet for the whole of
\* SHUTDOWN_USB_LOST_CONFIRM: what an earlier loss, an earlier shutdown or a failed
\* one left in shutdown_usb_lost_since never counts.
THEOREM LostWhenQuiet == StickSpec => Scr!LostOnlyWhenQuiet
<1>1. StickInit => LossIInv
  <2> SUFFICES ASSUME StickInit PROVE LossIInv
    OBVIOUS
  <2>1. stick.lost_since = <<>>
    BY DEF StickInit, Scr!Init, Scr!Boot
  <2> QED BY <2>1, ScreenInductive DEF LossIInv, QuietSince
<1>2. LossIInv /\ [StickNext]_<<buttonPart, screenPart, viewsPart, part>> => LossIInv'
  BY LossInductive
<1>3. LossIInv /\ [StickNext]_<<buttonPart, screenPart, viewsPart, part>>
      => [stick.display.kind # "ConnectionLost" /\ stick'.display.kind = "ConnectionLost"
          => usb_age' = <<>> \/ usb_age'[1] >= UsbLostConfirm]_Scr!vars
  BY LossInductive DEF QuietFor
<1> QED BY <1>1, <1>2, <1>3, PTL DEF StickSpec, Scr!LostOnlyWhenQuiet

=============================================================================
