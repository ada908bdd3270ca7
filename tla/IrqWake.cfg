\* An interrupt pipe and the port, whose polls enable each other's bits, and a timer
\* beside them.
CONSTANTS
    Transfers = {}
    IntPipes = {i}
    Others = {"device"}
    UsesTimer = TRUE
    Prompt = FALSE
SPECIFICATION Spec
INVARIANT NoLostWakeup
