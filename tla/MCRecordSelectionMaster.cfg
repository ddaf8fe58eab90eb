CONSTANTS
    Nil = Nil
    NoRec = NoRec
    Recs <- MCRecs
    Batches <- MCBatches
    Times = {0, 1, 2, 3}
SPECIFICATION Spec
INVARIANTS
    MasterReturnsChosen
CHECK_DEADLOCK FALSE
