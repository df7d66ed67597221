SPECIFICATION FairSpec
CONSTANTS MaxFile = 4
          MaxAudio = 3
INVARIANTS TypeOK DestroyedLast Settled TranscriptCoversStream
PROPERTIES OwnerReturns SessionDestroyed
