CONSTANTS
    o1 = o1  o2 = o2  o3 = o3  aA = aA  aB = aB  r1 = r1  r2 = r2
    h1 = h1  h2 = h2  k1 = k1  k2 = k2  v1 = v1  v2 = v2  c1 = c1  c2 = c2
    NoRoot = NoRoot  NoHash = NoHash  Nil = Nil  Miss = Miss
    Objects <- MCObjects
    Addr <- MCAddr
    Root <- MCRoot
    Hash <- MCHash
    Keys <- MCKeys
    Content <- MCContent
    CodeOf <- MCCodeOf
SPECIFICATION Spec
INVARIANTS ReadsCorrect CachesFaithful
