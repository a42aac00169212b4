CONSTANTS
    alice = alice
    bob = bob
    h1 = h1
    h2 = h2
    w1 = w1
    w2 = w2
    Users = {alice, bob}
    Hashes = {h1, h2}
    Workers = {w1, w2}
    Amount <- MCAmount
    Deposit <- MCDeposit
    PayLimitPct = 1
    SmallPayLimitPct = 1
    InternalPct = 1
    ServicePct = 1
    PctUnit = 2
    SmallPay = 2
    DonationReceiver = "none"
    Lnd = FALSE
    LateStart = FALSE
    Retries = FALSE
    GeneratedAt <- MCSameTime
    SentAt <- MCSameTime
    MaxFaults = 2
SYMMETRY MCSymmetry
SPECIFICATION Spec
INVARIANTS TypeOK Consistent LockedFunds NeverRefundedAndSent ChargedWhatItCost AskedOnceAndFunded NoOverdraft Explained
PROPERTY SettledForGood
