SPECIFICATION FairSpec
CONSTANTS
    Chains <- MCChains
    Faults = {"bad_session", "setex_error", "no_file_name", "throws"}
    MaxEnds = 3
INVARIANTS RepliedOnce Onion HandledOnce
PROPERTY Replies
CHECK_DEADLOCK FALSE
