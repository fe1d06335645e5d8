SPECIFICATION Spec
CONSTANTS
    Users = {u1, u2, u3}
    Calls = {c1, c2, c3}
    Null = Null
    MaxRestarts = 1
SYMMETRY Symmetry
INVARIANTS
    AdminLostOnlyInRace
    SetupIsComplete
PROPERTY MembersAreAdded
CHECK_DEADLOCK FALSE
