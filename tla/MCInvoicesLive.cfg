CONSTANTS
    alice = alice
    bob = bob
    h1 = h1
    h2 = h2
    w1 = w1
    w2 = w2
    w3 = w3
    Users = {alice}
    Hashes = {h1, h2}
    Workers = {w1}
    Amount <- MCAmount
    GeneratedAt <- MCTimes
    Deposit <- MCSmallDeposit
    DonationReceiver = "none"
    Lnd = FALSE
    MaxFaults = 1
    PayLimitPct = 1
    SmallPayLimitPct = 1
    InternalPct = 1
    ServicePct = 1
    PctUnit = 2
    SmallPay = 2
    SelfPayment = TRUE
    Payers = {"none"}
    Index <- MCTimes
    Others = {2}
    PageSize = 2
    Overpaid = 0
    Passes = 3
    Downtime = FALSE
    Foreign = FALSE
SPECIFICATION FairSpec
PROPERTIES ReceivedIsCredited ClosedIsClosed
