CONSTANTS
    s1 = s1
    s2 = s2
    l1 = l1
    Segs <- MCSegs
    Links <- MCLinks
    Null = Null
    MaxMounts = 2
SYMMETRY MCSymmetry
SPECIFICATION Spec
\* The user may stay on a page after every request has settled.
CHECK_DEADLOCK FALSE
INVARIANT
    DisposedSessionHookRemoved
