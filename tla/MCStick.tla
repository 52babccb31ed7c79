------------------------------ MODULE MCStick -------------------------------
(***************************************************************************)
(* What the stick shows, for TLC: Button, with thresholds of a few ticks,  *)
(* Screen and Views.  They share no variable, so what one does is          *)
(* independent of the others: in a behaviour one of them moves, and the    *)
(* others stay as they start.                                              *)
(***************************************************************************)
EXTENDS Button, MCScreen, MCViews

CONSTANTS UsbLostConfirm, ReportTimeout, LinkTimeout, Batches, Provisioning, WifiInReach,
          Configuration, Usual, Reported

VARIABLES part,     \* the one that moves
          stick, address, screen, host, usb_age, last, report_age, clock,
          snapshot, pages, web

Scr == INSTANCE Screen WITH lcd <- screen
Shown == INSTANCE Views WITH lcd <- pages, Changes <- Reported

ASSUME StickAssumption == Scr!ScreenAssumption

\* A longer and a shorter hold, with and without a delay of its animation.
TwoDisplays == {[hold |-> 6, delay |-> 2, pages |-> 3], [hold |-> 3, delay |-> 0, pages |-> 2]}

buttonPart == vars
screenPart == <<stick, address, screen, host, usb_age, last, report_age, clock>>
viewsPart == <<snapshot, pages, web>>

StickInit ==
    /\ part \in {"button", "screen", "views"}
    /\ Init /\ Scr!Init
    /\ IF part = "views" THEN Shown!Init ELSE snapshot = {} /\ pages = <<>> /\ web = <<>>
    /\ part # "button" => display_config = CHOOSE d \in Displays : TRUE

StickNext ==
    \/ part = "button" /\ Next /\ UNCHANGED <<screenPart, viewsPart, part>>
    \/ part = "screen" /\ Scr!Next /\ UNCHANGED <<buttonPart, viewsPart, part>>
    \/ part = "views" /\ Shown!Next /\ UNCHANGED <<buttonPart, screenPart, part>>

\* The fairness of Button and of Screen, for the behaviours in which they move.
StickFairness ==
    /\ WF_buttonPart(part = "button" /\ Loop)
    /\ SF_buttonPart(part = "button" /\ \E dt \in Steps : ReleaseSettles(dt) \/ HoldCompletes(dt))
    /\ WF_clock(part = "screen" /\ clock' = 1 - clock)

StickSpec ==
    StickInit /\ [][StickNext]_<<buttonPart, screenPart, viewsPart, part>> /\ StickFairness

-----------------------------------------------------------------------------
(* The properties of the parts.                                            *)

\* The LCD shows the state of the main loop whatever is received, times out or is
\* clicked; a shutdown is timed out exactly when its reports have stopped for
\* SHUTDOWN_REPORT_TIMEOUT, and then keeps the last count it was told.
ScreenInv ==
    Scr!TypeOK /\ Scr!LcdShowsState /\ Scr!LastCountKept /\ Scr!ReportsTimed

\* A lost host is shown: CONNECTION LOST only after the bus has been quiet for all of
\* SHUTDOWN_USB_LOST_CONFIRM, and in the end a screen that tells of a host that is off.
LossShown == Scr!LostOnlyWhenQuiet /\ Scr!HostOffShown

\* The views of a snapshot: each row is drawn on one page, complete and apart from the
\* others, and what changes on the LCD changes on the dashboard.
ViewsShown ==
    /\ [](part = "views" => Shown!EveryRowDrawn /\ Shown!TextsApart /\ Shown!TextsComplete)
    /\ Shown!WebFollowsLcd

-----------------------------------------------------------------------------
(* What the documents promise and the code does not do: these fail.        *)

PowerOffPhaseStays == Scr!PowerOffPhaseStays
SetupShown == Scr!SetupShown                          \* with Provisioning = TRUE
AboutFollowsAddress == Scr!AboutFollowsAddress        \* with WifiInReach = TRUE, Batches <- AboutFrames
CauseShown == part = "views" => Shown!CauseShown      \* with Usual <- UnwellSnapshot
SameInformation == Shown!SameInformation

=============================================================================
