\* Room for three bytes: sentences that fit, fill the buffer and overflow it,
\* with two bytes damaged or lost anywhere.
CONSTANTS
    BufferSize = 4
    Lengths = {1, 2, 4}
    MaxSentences = 3
    MaxFaults = 2
    CountMax = 1
SPECIFICATION Spec
INVARIANTS
    SoundSentencesArrive
    OnlyDamageMerges
    OverflowsAreCountedOnce
CHECK_DEADLOCK FALSE
