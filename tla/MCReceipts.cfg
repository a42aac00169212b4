CONSTANTS
    alice = alice
    bob = bob
    h1 = h1
    h2 = h2
    Users = {alice, bob}
    Hashes = {h1, h2}
    Workers = {}
    Amount <- MCAmount
    Deposit <- MCDeposit
    GeneratedAt <- MCTime
    PayLimitPct = 1
    SmallPayLimitPct = 1
    InternalPct = 1
    ServicePct = 1
    PctUnit = 2
    SmallPay = 2
    DonationReceiver = "none"
    Lnd = FALSE
    MaxFaults = 2
    MinSendable = 1
    MaxSendable = 3
    Unreachable = {h2}
SPECIFICATION Spec
INVARIANTS TypeOK Truthful ReceiptIsTrue MarkedIsSent
PROPERTIES PaidIsReceipted
