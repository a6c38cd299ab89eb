SPECIFICATION Spec
CONSTANTS
    Dishes <- TwoDishes
    NoDish = NoDish
    Times <- Now
    MAX_HISTORY = 1
    MAX_COLLECT = 1
    Recipes <- OneRecipe
    MaxId = 3
    MaxSeqid = 4
INVARIANTS
    SeqidFresh
PROPERTIES
    InsertKeepsRows
    IdNeverReused
