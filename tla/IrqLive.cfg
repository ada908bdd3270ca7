\* A transfer and the doorbell, with interrupts taken at once and fairness.
CONSTANTS
    Transfers = {t}
    IntPipes = {}
    Others = {"advance"}
    UsesTimer = FALSE
    Prompt = TRUE
SPECIFICATION FairSpec
INVARIANTS TypeOK NoLostWakeup
PROPERTY Noticed
