CONSTANTS
    None = None
    Torn = Torn
    Guests <- MCGuests
    Version = {1, 2}
    First = 1
    MaxEdits = 3
    MaxFaults = 1
SPECIFICATION Spec
INVARIANT FreshIsCurrent
INVARIANT SuccessIsFresh
PROPERTY Converges
