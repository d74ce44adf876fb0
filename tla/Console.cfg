CONSTANTS
    admin = admin
    carol = carol
    r1 = r1
    r2 = r2
    Registrants = {r1, r2}
    NameOf <- SameName
    Seeds = {admin}
    Seed = Seed
    None = None
    All = All
    Selections <- OneUser
    MaxPosts = 2
SPECIFICATION Spec
SYMMETRY RegistrantSymmetry
INVARIANTS
    TypeOK
    ConfirmedCanSignIn
    SuccessMeansStored
    ButtonHasCall
PROPERTY
    ImplementsRegistry
