CONSTANTS
    d = d  p = p
    k1 = k1  k2 = k2  k3 = k3  v1 = v1  v2 = v2
    None = None
    Deleted = Deleted
    Keys = {k1, k2, k3}
    Values = {v1, v2}
    MaxSize = 2
    Users = {d}
    Savers = {p}
    MaxFailures = 0
SPECIFICATION Spec
PROPERTY SavingIsInvisible
