CONSTANTS
  Auths = {a1, a2, a3}
  None = None
  MaxAsks = 2
SPECIFICATION FairSpec
INVARIANTS TypeOK RefsAccounted SessionIsListeners PromptShown
PROPERTIES ResponseToItsOwnPrompt CancelHides
CHECK_DEADLOCK FALSE
