SPECIFICATION OtaSpec
CONSTANTS
    ROWS = 2
    MaxVersion = 3
    MaxOffers = 2
INVARIANTS
    RecipesFollowFirmware
    SuppressedOnlyWhileDownloading
