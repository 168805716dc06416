\* Up to five items of two kinds, batches of two.
CONSTANTS
  Item = {a, b}
  max_batch_size = 2
  MaxItems = 5
SPECIFICATION FairSpec
INVARIANTS TypeOK NothingLost
PROPERTY ImplementsQueue
