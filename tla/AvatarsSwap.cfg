\* Commits of default avatars, no faults.
SPECIFICATION Spec
CONSTANTS
    AvatarIds = {a1, a2}
    Kind <- AllDefault
    Commits = {c1, c2}
    NoAvatar = NoAvatar
    MaxFaults = 0
PROPERTY DefaultIsKept
\* every upload of the instance comes to its end
CHECK_DEADLOCK FALSE
