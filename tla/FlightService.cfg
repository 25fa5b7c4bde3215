SPECIFICATION FairSpec
CONSTANTS
    w1 = w1
    Workers = {w1}
    Tables <- SomeTables
    Pages <- SomePages
    Sizes <- SomeSizes
    Numbers <- SomeNumbers
    SizeLimit = 3
    IntSpan = 8
    LongSpan = 64
INVARIANTS
    TypeOK
    UsesLiveConnection
    OneRequestLost
    PagesAreSlices
PROPERTY Recovers
