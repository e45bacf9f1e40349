CONSTANTS
    u1 = u1  u2 = u2  s1 = s1  s2 = s2  m1 = m1  m2 = m2
    ZeroAddress = ZeroAddress
    Users <- MCUsers
    Sponsors <- MCSponsors
    Masters <- MCMasters
    MaxCredit = 1
    GenesisTimes = {0}
    MaxTime = 2
    Balances = {0}
    MaxStateHistory = 0
SPECIFICATION Spec
PROPERTY NativeResultIsChange
