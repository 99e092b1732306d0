CONSTANTS
    k1 = k1
    k2 = k2
    Keys = {k1, k2}
    MaxLength = 3
    Blobs <- MCBlobs
    Adders = {a1, a2}
    MaxTime = 3
    MaxAdds = 2
    MaxFaults = 1
SYMMETRY KeySymmetry
SPECIFICATION KeysSpec
INVARIANT KeysTypeOK
INVARIANT LoadKeepsNewest
INVARIANT StoreMatchesCache
INVARIANT AuthSound
