SPECIFICATION FairSpec
CONSTANTS
    None = None
    Chats = {c1, c2}
    MaxTurns = 3
    Cap = 1
    MaxHeld = 1
    Kinds = {"say", "card", "listing", "carry"}
INVARIANTS  EveryWaitIsAnswerable CloseWaitsForEveryRun
PROPERTIES CartsAreHeldFor DeletedNeverPays LineWaitsOnlyForPeople
CHECK_DEADLOCK FALSE
