CONSTANTS
    u1 = u1  u2 = u2  s1 = s1  s2 = s2  m1 = m1  m2 = m2
    ZeroAddress = ZeroAddress
    Users = {u1}
    Sponsors = {s1, s2}
    Masters = {m1}
    MaxCredit = 1
    GenesisTimes = {1}
    MaxTime = 3
    Balances = {0, 1}
    MaxStateHistory = 1
SPECIFICATION Spec
INVARIANT TypeOK
PROPERTIES NativeResultIsChange HistoryReadsSealed
