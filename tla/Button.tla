------------------------------- MODULE Button -------------------------------
(***************************************************************************)
(* The front button of the stick: Button::update with its debouncing and   *)
(* hold timing, and what the main loop does with its result: pages, the    *)
(* ABOUT screen, the hold animation, the shutdown request and the LCD.     *)
(*                                                                         *)
(* An iteration of the loop samples the pin once, some ticks after the     *)
(* one before it.  Instants are kept as their ages in ticks, up to MaxAge. *)
(***************************************************************************)
EXTENDS Naturals

CONSTANTS Debounce, DoubleClick,   \* DEBOUNCE and DOUBLE_CLICK_WINDOW, in ticks
          Displays,                \* display manifests: hold, delay and number of pages
          Steps,                   \* lengths of an iteration, in ticks
          MaxAge,                  \* bound on ages, beyond every threshold
          Never                    \* last_short_click = None

ASSUME ButtonAssumption ==
    /\ Debounce \in Nat \ {0} /\ DoubleClick \in Nat /\ MaxAge \in Nat
    /\ Steps \subseteq Nat \ {0}
    /\ Displays \subseteq [hold : Nat \ {0}, delay : Nat, pages : Nat \ {0}]
    /\ \A d \in Displays : d.delay < d.hold /\ d.hold + Debounce <= MaxAge
    /\ DoubleClick < MaxAge
    /\ Never \notin Nat

VARIABLES raw_pressed, raw_age,          \* the pin's last sample; age of raw_changed_at
          stable_pressed, held,          \* the debounced pin; age of pressed_at
          long_press_sent,
          connected,                     \* daemon = DaemonState::Connected
          display_config,
          page, show_about,
          last_short_click,              \* its age, or Never
          shutdown_animation_active,
          render_pending,                \* in the present iteration
          lcd,                           \* what the LCD shows
          down,                          \* ghost: age of the pin's going down for this press
          requested                      \* ghost: this press has requested a shutdown

buttonVars == <<raw_pressed, raw_age, stable_pressed, held, long_press_sent, down>>
screenVars == <<page, show_about, last_short_click>>
vars == <<buttonVars, connected, display_config, screenVars, shutdown_animation_active,
          render_pending, lcd, requested>>

Ages == 0..MaxAge

\* "current": what render draws of the present state; "outdated": of an earlier one;
\* "animation": the bar of a hold; "sent": the full bar of a completed hold.
Lcd == {"current", "outdated", "animation", "sent"}

TypeOK ==
    /\ raw_pressed \in BOOLEAN /\ raw_age \in Ages
    /\ stable_pressed \in BOOLEAN /\ held \in Ages
    /\ long_press_sent \in BOOLEAN
    /\ connected \in BOOLEAN
    /\ display_config \in Displays
    /\ page \in Nat /\ show_about \in BOOLEAN
    /\ last_short_click \in Ages \cup {Never}
    /\ shutdown_animation_active \in BOOLEAN
    /\ render_pending \in BOOLEAN
    /\ lcd \in Lcd
    /\ down \in Ages
    /\ requested \in BOOLEAN

Init ==
    /\ raw_pressed = FALSE /\ raw_age = 0
    /\ stable_pressed = FALSE /\ held = 0
    /\ long_press_sent = FALSE
    /\ connected = FALSE
    /\ display_config \in Displays
    /\ page = 0 /\ show_about = FALSE /\ last_short_click = Never
    /\ shutdown_animation_active = FALSE
    /\ render_pending = FALSE
    /\ lcd = "current"
    /\ down = 0
    /\ requested = FALSE

-----------------------------------------------------------------------------
(* What the iteration does before it comes to the button.                  *)

\* Something the LCD shows has changed.
Changes ==
    /\ render_pending' = TRUE
    /\ lcd' = IF lcd = "current" THEN "outdated" ELSE lcd
    /\ UNCHANGED <<buttonVars, show_about, last_short_click, shutdown_animation_active, requested>>

\* A frame or a timeout that enters or leaves DaemonState::Connected, or new data.
DaemonChanges ==
    /\ connected' \in BOOLEAN
    /\ Changes
    /\ UNCHANGED <<display_config, page>>

ReceiveDisplayConfig ==
    /\ display_config' \in Displays
    /\ page' = page % display_config'.pages
    /\ Changes
    /\ UNCHANGED connected

-----------------------------------------------------------------------------
(* Button::update.                                                         *)

Age(age, dt) == IF age + dt < MaxAge THEN age + dt ELSE MaxAge

ClickAge(dt) == IF last_short_click = Never THEN Never ELSE Age(last_short_click, dt)

HeldOn(dt) == IF stable_pressed THEN Age(held, dt) ELSE 0

\* Mutant: a bounce of the contact restarts the hold.
HeldRestarted(dt) == 0

HeldOverBounce(dt) == HeldOn(dt)

\* Mutant: the hold is timed from the first contact.
HeldFromContact(dt) == Age(raw_age, dt)

HeldAtPress(dt) == 0

Debounced(dt) == stable_pressed # raw_pressed /\ Age(raw_age, dt) >= Debounce

HoldDue(dt) ==
    /\ stable_pressed /\ ~long_press_sent
    /\ HeldOn(dt) >= display_config.hold

-----------------------------------------------------------------------------
(* The main loop on what update returns.                                   *)

Rendered == IF shutdown_animation_active \/ render_pending THEN "current" ELSE lcd

\* Mutant: a canceled hold does not ask for the page to be drawn again.
RenderedOnPageTurn == IF shutdown_animation_active THEN lcd ELSE "current"

RenderedOnRelease == "current"

DoubleClicked(dt) == ClickAge(dt) # Never /\ ClickAge(dt) <= DoubleClick

\* No action: the animation follows held_for.
Animate(dt) ==
    LET animates == connected /\ stable_pressed' /\ ~long_press_sent' /\ held' >= display_config.delay
    IN  /\ shutdown_animation_active' = animates
        /\ lcd' = IF animates THEN "animation" ELSE Rendered
        /\ last_short_click' = ClickAge(dt)
        /\ UNCHANGED <<page, show_about>>

\* NextScreen: releasing a hold whose animation was shown only cancels it.
NextScreen(dt) ==
    /\ \/ /\ shutdown_animation_active
          /\ last_short_click' = ClickAge(dt)
          /\ UNCHANGED <<page, show_about>>
       \/ /\ ~shutdown_animation_active /\ show_about
          /\ show_about' = FALSE /\ last_short_click' = Never
          /\ UNCHANGED page
       \/ /\ ~shutdown_animation_active /\ ~show_about /\ DoubleClicked(dt)
          /\ show_about' = TRUE /\ last_short_click' = Never
          /\ UNCHANGED page
       \/ /\ ~shutdown_animation_active /\ ~show_about /\ ~DoubleClicked(dt)
          /\ page' = (page + 1) % display_config.pages /\ last_short_click' = 0
          /\ UNCHANGED show_about
    /\ shutdown_animation_active' = FALSE
    /\ lcd' = RenderedOnRelease

Iteration == render_pending' = FALSE /\ UNCHANGED <<connected, display_config>>

\* The pin is not as it was: update returns at once.
Bounce(dt) ==
    /\ raw_pressed' = ~raw_pressed /\ raw_age' = 0
    /\ held' = HeldOverBounce(dt)
    /\ down' = IF stable_pressed THEN Age(down, dt) ELSE 0
    /\ UNCHANGED <<stable_pressed, long_press_sent, requested>>
    /\ Animate(dt) /\ Iteration

\* The pin is as it was.
Steady(dt) ==
    /\ raw_age' = Age(raw_age, dt)
    /\ down' = IF stable_pressed \/ raw_pressed THEN Age(down, dt) ELSE 0
    /\ UNCHANGED raw_pressed
    /\ Iteration

PressSettles(dt) ==
    /\ Debounced(dt) /\ raw_pressed
    /\ stable_pressed' = TRUE /\ held' = HeldAtPress(dt) /\ long_press_sent' = FALSE
    /\ requested' = FALSE
    /\ Animate(dt) /\ Steady(dt)

\* Mutant: the release of a completed hold counts as a press, too.
EveryPress == TRUE

ShortPress == ~long_press_sent

ReleaseSettles(dt) ==
    /\ Debounced(dt) /\ ~raw_pressed
    /\ stable_pressed' = FALSE /\ held' = 0
    /\ UNCHANGED <<long_press_sent, requested>>
    /\ \/ ShortPress /\ NextScreen(dt)
       \/ ~ShortPress /\ Animate(dt)
    /\ Steady(dt)

\* ShutdownRequested: sent to the daemon when there is one, lost otherwise.
HoldCompletes(dt) ==
    /\ ~Debounced(dt) /\ HoldDue(dt)
    /\ long_press_sent' = TRUE /\ held' = HeldOn(dt)
    /\ requested' = connected
    /\ lcd' = IF connected /\ ~render_pending THEN "sent" ELSE Rendered
    /\ shutdown_animation_active' = FALSE
    /\ last_short_click' = Never
    /\ UNCHANGED <<stable_pressed, page, show_about>>
    /\ Steady(dt)

Rests(dt) ==
    /\ ~Debounced(dt) /\ ~HoldDue(dt)
    /\ held' = HeldOn(dt)
    /\ UNCHANGED <<stable_pressed, long_press_sent, requested>>
    /\ Animate(dt) /\ Steady(dt)

Loop ==
    \E dt \in Steps :
        Bounce(dt) \/ PressSettles(dt) \/ ReleaseSettles(dt) \/ HoldCompletes(dt) \/ Rests(dt)

Next == DaemonChanges \/ ReceiveDisplayConfig \/ Loop

Spec == Init /\ [][Next]_vars

-----------------------------------------------------------------------------
(* Safety.                                                                 *)

\* How long the pin has been up again, while its release is being debounced.
UpFor == IF raw_pressed THEN 0 ELSE raw_age

\* README: "Holding the front button for the configured duration requests a
\* Proxmox shutdown."  From the sample that found the pin down to the one that
\* found it up again, or to the request, the hold lasted at least that long,
\* although update goes on counting while it debounces the release, and whatever
\* manifest came in during the hold.
HeldLongEnough ==
    [][~requested /\ requested' => down' >= display_config.hold + UpFor']_vars

\* A press has one result: once it has requested a shutdown, neither its bounces
\* nor its release turn the page or open or close ABOUT.
OneActionPerPress ==
    [][requested /\ requested' /\ display_config' = display_config
          => page' = page /\ show_about' = show_about]_vars

\* At the end of an iteration the LCD shows the present state, the animation of
\* the hold in progress, or the full bar of a completed one: nothing that arrives
\* during an animation is forgotten, and no animation outlives its hold.
LcdCurrent ==
    ~render_pending =>
        \/ lcd \in {"current", "sent"}
        \/ lcd = "animation" /\ shutdown_animation_active

\* A press is debounced from the last contact, and its hold timed from there.
TimedFromPress ==
    /\ raw_pressed /\ ~stable_pressed => down >= raw_age
    /\ stable_pressed => down = MaxAge \/ down >= held + Debounce

\* The animation stands for a hold that has not been decided.
AnimatedHold ==
    shutdown_animation_active => lcd = "animation" /\ stable_pressed /\ ~long_press_sent

\* The inductive invariant behind the three.
ButtonInv ==
    /\ TypeOK
    /\ TimedFromPress
    /\ AnimatedHold
    /\ lcd = "animation" => shutdown_animation_active
    /\ lcd = "outdated" => render_pending
    /\ requested => long_press_sent
    /\ page < display_config.pages

-----------------------------------------------------------------------------
(* Liveness.                                                               *)

\* The loop goes round, and the contact does not bounce at every sample for ever.
FairSpec ==
    /\ Spec
    /\ WF_vars(Loop)
    /\ SF_vars(\E dt \in Steps : ReleaseSettles(dt) \/ HoldCompletes(dt))

\* Every press is answered: it ends as a short press or as a completed hold.
PressAnswered == stable_pressed /\ ~long_press_sent ~> ~stable_pressed \/ long_press_sent

=============================================================================
