CONSTANTS
    MaxRetries = 3
    FlushEvery = 2
    MaxReceived = 3
SPECIFICATION FairSpec
INVARIANTS TypeOK  NetworkRetried SignalHeeded
PROPERTY Terminates
CHECK_DEADLOCK FALSE
