\* safety, refinement and liveness of one manager over three loops
SPECIFICATION FairSpec
CONSTANT MaxLoops = 3
INVARIANTS OneLoop ServedUnlessSkipped
PROPERTIES ImplementsOneLink WantedKeepsTrying CancelledLoopsEnd
CHECK_DEADLOCK FALSE
