SPECIFICATION Spec
CONSTANTS
    url = url
    Unset = Unset
    Garbled = Garbled
    MaxInt32 = 31
    c1 = c1
    Conns = {c1}
    Environments <- Sized
INVARIANT
    PoolIsAsConfigured
