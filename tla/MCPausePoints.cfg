SPECIFICATION FairSpec
CONSTANTS
    r1 = r1
    r2 = r2
    k1 = k1
    Runs = {r1, r2}
    Checkouts = {k1}
    CheckoutOf <- SharedCheckout
    Calls = {"a", "b"}
    Closable = {r2}
    MaxTurns <- Turns
    MaxDrops = 1
INVARIANTS TypeOK HeldCounted OnePreparation PausedLosesNothing PromptSent
PROPERTIES AbortStopsWaiting PauseReached
CHECK_DEADLOCK FALSE
