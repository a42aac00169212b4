CONSTANTS
    alice = alice
    h1 = h1
    w1 = w1
    w2 = w2
    e1 = e1
    e2 = e2
    Users = {alice}
    Hashes = {h1}
    Workers = {w1, w2}
    Events = {e1, e2}
    Author <- MCAuthor
    Amount <- MCAmount
    Deposit <- MCDeposit
    GeneratedAt <- MCTime
    SentAt <- MCTime
    PayLimitPct = 0
    SmallPayLimitPct = 0
    InternalPct = 1
    ServicePct = 1
    PctUnit = 2
    SmallPay = 2
    DonationReceiver = "none"
    Lnd = FALSE
    LateStart = FALSE
    Retries = TRUE
    MaxFaults = 1
SPECIFICATION NwcSpec
INVARIANTS NwcConsistent AnsweredOnce SuccessIsPaid
PROPERTIES HandledOnce EventuallyAnswered
