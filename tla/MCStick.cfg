SPECIFICATION StickSpec
CONSTANTS
    Debounce = 3
    DoubleClick = 6
    Displays <- TwoDisplays
    Steps = {1, 2}
    MaxAge = 10
    Never = Never
    UsbLostConfirm = 2
    ReportTimeout = 3
    LinkTimeout = 4
    Batches <- UpToTwoFrames
    Provisioning = FALSE
    WifiInReach = FALSE
    Configuration <- FullConfiguration
    Usual <- UsualSnapshot
    Reported <- AllChanges
INVARIANTS ButtonInv LcdCurrent ScreenInv
PROPERTIES HeldLongEnough OneActionPerPress PressAnswered LossShown ViewsShown
