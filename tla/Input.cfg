CONSTANTS
    MAX_INPUT_EVENT = 4
    MaxNesting = 3
    MaxTag = 12
    MaxReread = 2
SPECIFICATION FairSpec
INVARIANT QueueKept
PROPERTY FifoSpec
PROPERTY AllDelivered
