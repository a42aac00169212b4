CONSTANTS
    short = short
    long = long
    k1 = k1
    k2 = k2
    Keys = {k1, k2}
    Names = {short, long}
    Chars <- MCChars
    MaxChars = 3
    Amounts <- MCAmounts
    RestrictUsername = TRUE
    Access = 1
    Refresh = 2
    Gifts = {1}
    Workers = {w1, w2}
    MaxClock = 3
    MaxRequests = 2
    MaxDonations = 2
    MaxRestarts = 1
SPECIFICATION Spec
CHECK_DEADLOCK FALSE
INVARIANTS TypeOK HeldNamesAreAllowed DonatedIsKept LockedOut
PROPERTY DonationsAreCredited
