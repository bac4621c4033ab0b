CONSTANTS
    ByteValues = 2
    Xor <- MCXor
    CounterBytes = 3
    NonceSizes = {0, 1, 2, 3, 4}
    IvBytes = {1}
    MaxBatch = 2
SPECIFICATION Spec
INVARIANTS NoncesFresh RefusesAtLimit InStep
PROPERTIES ReadsWhatWasSent
