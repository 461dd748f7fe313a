SPECIFICATION AeadSpec
CONSTANTS
    Direct = {d1}
    Operations = {p1, p2}
    Keys = {k1, k2}
    Nonces = {n1}
    OddNonces = {n8}
    Messages = {1, 2}
    Ads = {1}
    Buffers = {b1}
    MaxAad = 2
    Lengths = {0, 1}
    d1 = d1  p1 = p1  p2 = p2  k1 = k1  k2 = k2  n1 = n1  n8 = n8  b1 = b1
SYMMETRY OpSymmetry
INVARIANTS
    OwnerIsStreaming
    FinishComputesItsStream
    EcbUsesItsKey
    DeclaredLengthsHold
