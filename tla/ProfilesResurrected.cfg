SPECIFICATION ProfilesSpec
CONSTANTS
    Profile = {p1}
    Writer = {w1, w2}
    Inode = {i1, i2, i3, i4}
    NoInode = NoInode
    Absent = Absent
    MaxTime = 3
SYMMETRY Symmetry
PROPERTIES
    TouchIsNoopWhenUnknown
