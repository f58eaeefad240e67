CONSTANTS
    Nodes <- NineNodes
    Trees = {A, B}
    Tmp = Tmp
    Null = Null
    KeyOf <- EightKeys
    MaxShared = 3
SPECIFICATION Spec
INVARIANTS TypeOK RedBlack ReadersSeeTheOrder EntriesAreOwned
PROPERTIES KeepsSortedLists EveryCallReturns
