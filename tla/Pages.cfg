SPECIFICATION Spec

CONSTANTS
    Promo = Promo
    s1 = s1
    s2 = s2
    s3 = s3
    MaxNotes = 2
    Types = {Promo}
    TypeOf <- MCTypeOf
    Matches = {1}
    RecentSize = 2
    PageSize = 1
    Slots = {s1, s2, s3}
    MaxOlder = 1
    MaxTurns = 2
    All = All
    None = None

SYMMETRY SlotSymmetry

CHECK_DEADLOCK FALSE

INVARIANTS
    TypeOK
    SpinnerHasCall
    ShownOnce
    
    ChosenViewSettles
    ReadIsRead
