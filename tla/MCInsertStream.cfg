SPECIFICATION FairSpec
CONSTANT MaxMessages = 4
INVARIANT TypeOK
INVARIANT OkMeansEveryBatch
INVARIANT RowsAreAPrefix
PROPERTY EveryStreamIsAnswered
