SPECIFICATION Spec
CONSTANTS
    Updates = {1, 2, 3, 4}
    Handlers = {h1, h2}
    MaxTokens = 3
    MaxOpens = 1
    Opens = {"compose", "cancel", "decision"}
    Texts = {"x"}
    Decisions = {"approved", "rejected"}
    Approval = Approval
    Attempt = Attempt
    None = None
    Ttl = 1
    ApprovalExpires = 1
    MaxClock = 1
SYMMETRY Symmetric
CHECK_DEADLOCK FALSE
INVARIANTS
    EffectOnce
    EffectWasChosen
    EffectInTime
    OutcomeIsTrue
    PromptUsedOnce
