SPECIFICATION Spec
CONSTANTS
    b1 = b1  b2 = b2  k1 = k1  k2 = k2  p1 = p1  p2 = p2  bad = bad
    NullPub = NullPub
    NoKey = NoKey
    Bits <- MCBits
    Keys <- MCKeys
    Pubs <- MCPubs
    Pad <- MCPad
    Valid <- MCValid
    PubFields <- MCPubFields
INVARIANTS
    TypeOK
    NothingStale
    RecipientReads
