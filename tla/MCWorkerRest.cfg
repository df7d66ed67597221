SPECIFICATION Spec
CONSTANT MaxFrames <- FramesWritten
INVARIANT AtMostOneRest
