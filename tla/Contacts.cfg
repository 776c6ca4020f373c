\* Two users, three codes, two requests at a time.
SPECIFICATION Spec
CONSTANTS
    Users = {u1, u2}
    Codes = {k1, k2, k3}
    Requests = {r1, r2}
    NoUser = NoUser
    NoCode = NoCode
INVARIANTS ListedMaySend RequestsAcceptable GivenUpIsRetired RetiredIsNobodys
PROPERTIES AcceptedStays BookSpec
SYMMETRY ContactSymmetry
