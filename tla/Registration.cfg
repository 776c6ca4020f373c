\* A founder and three newcomers, two requests at a time, two uses of each code.
SPECIFICATION Spec
CONSTANTS
    Keys = {founder, k1, k2, k3}
    Founder = founder
    Names = {n1, n2}
    Requests = {r1, r2}
    Challenges = {c1, c2, c3}
    Digests <- Samples
    Difficulty = 14
    Uses = 2
    NoName = NoName
    NoKey = NoKey
    NoChallenge = NoChallenge
INVARIANTS UsesConserved ChallengePaysOnce WorkWasDone NamesUnique
SYMMETRY RegistrationSymmetry
\* the challenges of the instance come to their end
CHECK_DEADLOCK FALSE
