SPECIFICATION Spec
CONSTANTS
    Runner = {r1, r2}
    Last <- MCLast
    Needs <- MCNeeds
    DownNeeds <- MCDownNeeds
    Blocks <- MCBlocks
    Takes <- MCTakes
    Repeatable <- MCRepeatable
    Fragile <- MCFragile
    Home = 1
    MaxDown = 3
    MaxFault = 2
INVARIANTS TypeOK SchemaAsRecorded NoUnrecordedChange
PROPERTIES UpMeansUpToDate EventuallyMigrated LogSpec
