SPECIFICATION Spec
CONSTANTS
    t1 = t1
    t2 = t2
    c1 = c1
    c2 = c2
    c3 = c3
    Tab <- MCTab
    Call <- MCCall
    Slots <- MCSlots
    MaxPair = 2
INVARIANTS
    IInv
    SingleRefresh
    NobodyLeftQueued
    StoreMatchesStorage
    UsedTokenIsReplaced
SYMMETRY Symmetry
VIEW UpToForgottenPairs
