SPECIFICATION FairSpec
CONSTANTS
    None = None
    Id = {1, 2}
    CoId = {1}
    Content = {1, 2, 3}
    Malformed = {3}
    Studied <- Shapes
    MaxBatch = 3
    MaxRetries = 2
    MaxFlights = 2
    MaxSpent = 2
    Starts <- Starts1
CHECK_DEADLOCK FALSE
PROPERTY QuietRow
PROPERTY SettleShows
PROPERTY PinRefuses
PROPERTY Converges
