SPECIFICATION Spec
CONSTANTS
    Validator = {v1, v2, v3}
    Announced <- MCAnnounced
    Sizes = {1, 2}
    TurnLengths = {1, 2}
    Epoch = 4
    BohrBlock = 6
    MaxNumber = 14
SYMMETRY MCSymmetry
CHECK_DEADLOCK FALSE
INVARIANTS
    SignersTakeTurns
    HalfMaySign
    BatchesAgree
    AnnouncedSetInForce
    FreshSnapshotConverges
