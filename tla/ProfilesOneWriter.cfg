SPECIFICATION ProfilesSpec
CONSTANTS
    Profile = {p1, p2}
    Writer = {w1}
    Inode = {i1, i2, i3}
    NoInode = NoInode
    Absent = Absent
    MaxTime = 3
SYMMETRY Symmetry
INVARIANTS
    ProfilesTypeOK
    PublishedIsWhole
    SavedIsListed
