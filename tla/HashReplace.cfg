SPECIFICATION MCSpec
CONSTANTS
    k1 = k1
    k2 = k2
    x = x
    Key = {k1, k2}
    Value = {x, y}
    Object = {o1, o2, o3, o4, o5, o6, o7, o8}
    NULL = NULL
    HashFunc <- MCHashFunc
    HashPrimes <- MCHashPrimes
    Callbacks <- MCCallbacks
    MaxPopulation = 4
PROPERTY ValueReplaced
CHECK_DEADLOCK FALSE
