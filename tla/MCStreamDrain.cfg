SPECIFICATION Spec
CONSTANTS MaxFile = 2
          MaxAudio = 3
INVARIANT StreamDrained
