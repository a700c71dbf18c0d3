CONSTANT MaxParams = 4

SPECIFICATION LoopSpec

\* The loop ends after the last entry.
CHECK_DEADLOCK FALSE

INVARIANT LoopPrefersEd25519
