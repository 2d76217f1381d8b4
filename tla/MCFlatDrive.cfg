CONSTANTS
    MaxMods = 3
    Size <- MCSize
    Outcome <- MCOutcomeFailing
    MaxCancels = 1
    MaxVerify = 1
    MaxCrashes = 1
    MayClose = TRUE
SPECIFICATION Spec
CHECK_DEADLOCK FALSE
INVARIANTS
    RootIsApproved
    AppliedIsApproved
    SandboxIsApprovedTree
    NoWorkIsRepeated
    ApprovesOwnUploads
    UploadsAreExpectedAtFirst
    CatchUpAssertionsAtFirst
    OpinionsNeverUndercount
    CancelledIsForgotten
    VerificationOnStableDrive
PROPERTIES
    NeverForgetsApproved
