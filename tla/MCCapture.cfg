SPECIFICATION FairSpec
CONSTANTS PcmLimit = 2
          MaxBytes = 5
          MaxCrashes = 1
INVARIANTS TypeOK ScratchGone WavIsRecording
PROPERTY MicrophoneReleased
