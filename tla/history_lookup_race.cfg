SPECIFICATION Spec
CONSTANTS
    Dishes <- TwoDishes
    NoDish = NoDish
    Times <- Now
    MAX_HISTORY = 2
    MAX_COLLECT = 1
    Recipes <- TwoRecipes
    MaxId = 4
    MaxSeqid = 5
PROPERTIES
    InsertAdds
