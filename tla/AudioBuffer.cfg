SPECIFICATION Spec
CONSTANTS
    VM_AUDIO_FRAMES = 3
    INDEX = 6
    MaxEpoch = 3
    VM_AUDIO_RATE = 2
    Rates = {1, 3}
    LowRate = 1
    HighRate = 2
    CaptureHigh = 2
    VM_AUDIO_PREFILL = 2
    VM_AUDIO_FADE = 2
    CaptureEpochs = 3
    Uses = {{"out"}, {"in"}}
    TapFrames = 1
INVARIANTS LateIsBounded NoSoundFromBefore
PROPERTIES QueuesAreFifo OldestFrameLeaves
CHECK_DEADLOCK FALSE
