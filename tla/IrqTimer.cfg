\* A timer beside one transfer.
CONSTANTS
    Transfers = {t}
    IntPipes = {}
    Others = {}
    UsesTimer = TRUE
    Prompt = FALSE
SPECIFICATION Spec
INVARIANT ElapsedSeen
