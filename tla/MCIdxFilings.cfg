CONSTANTS
    f1 = f1
    f2 = f2
    s1 = s1
    s2 = s2
    r1 = r1
    r2 = r2
    r3 = r3
    Run = {r1, r2, r3}
    Filing = {f1, f2}
    Shard = {s1, s2}
    ShardOf <- MCShardOf
    MaxReruns = 1
SPECIFICATION Spec
INVARIANTS
    TypeOK
    RefreshOnlyWhenComplete
SYMMETRY RunSymmetry
CHECK_DEADLOCK FALSE
