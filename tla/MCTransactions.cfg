CONSTANTS
    alice = alice
    bob = bob
    h1 = h1
    h2 = h2
    h3 = h3
    w1 = w1
    w2 = w2
    task = task
    Users = {alice, bob}
    Hashes = {h1, h2, h3}
    Workers = {w1, w2, task}
    Task = task
    Requests <- MCRequests
    Payee <- MCPayee
    Outcomes <- MCOutcomes
    Amount <- MCAmount
    GeneratedAt <- MCSameTime
    Deposit <- MCDeposit
    DonationReceiver = bob
    Lnd = FALSE
    MaxFaults = 0
    PayLimitPct = 1
    SmallPayLimitPct = 1
    InternalPct = 1
    ServicePct = 1
    PctUnit = 2
    SmallPay = 1
SPECIFICATION FairSpec
CHECK_DEADLOCK FALSE
INVARIANT Consistent
PROPERTIES CommitsAreAtomic EveryTransactionEnds
