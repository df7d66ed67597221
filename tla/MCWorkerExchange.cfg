SPECIFICATION FairSpec
CONSTANT MaxFrames <- FramesWritten
INVARIANTS TypeOK Supervised RetryOnlyIfSilent OutcomeAuthentic
PROPERTY CallsReturn
