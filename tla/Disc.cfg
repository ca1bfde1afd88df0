CONSTANT MaxNesting = 2
SPECIFICATION FairSpec
INVARIANTS DiscKept TruthfulReads HandoverQuiet
PROPERTY DiscServed
CHECK_DEADLOCK FALSE
