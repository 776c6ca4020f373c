\* Two custom avatars, two commits at a time, two failing calls or stops.
SPECIFICATION Spec
CONSTANTS
    AvatarIds = {a1, a2}
    Kind <- AllCustom
    Commits = {c1, c2}
    NoAvatar = NoAvatar
    MaxFaults = 2
INVARIANTS TypeOK DownloadsExist NoObjectForgotten OneCurrent
SYMMETRY AvatarSymmetry
\* every upload of the instance comes to its end
CHECK_DEADLOCK FALSE
