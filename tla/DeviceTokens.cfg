\* Two users, two devices that change hands, two fan-outs.
SPECIFICATION Spec
CONSTANTS
    Users = {u1, u2}
    Tokens = {t1, t2}
    Wakes = {w1, w2}
    NoUser = NoUser
    NoToken = NoToken
PROPERTY LiveTokenStays
SYMMETRY TokenSymmetry
