SPECIFICATION Spec
CONSTANTS
    i1 = i1
    i2 = i2
    t1 = t1
    t2 = t2
    Instances = {i1, i2}
    Threads = {t1, t2}
    Home <- TwoInstances
    Ids = {u1, u2}
    Secrets = {s1, s2}
    Base64Secrets = {s2}
    Keys = {k1}
    NoKey = NoKey
    Absent = Absent
    NoFile = NoFile
    Garbage = Garbage
    Free = Free
INVARIANT UnmarkedIsPlain
