CONSTANTS
    alice = alice
    bob = bob
    h1 = h1
    h2 = h2
    w1 = w1
    w2 = w2
    w3 = w3
    Users = {alice, bob}
    Hashes = {h1}
    Workers = {w1, w2, w3}
    Amount <- MCAmount
    GeneratedAt <- MCTimes
    Deposit <- MCDeposit
    DonationReceiver = bob
    Lnd = FALSE
    MaxFaults = 2
    PayLimitPct = 1
    SmallPayLimitPct = 1
    InternalPct = 1
    ServicePct = 1
    PctUnit = 2
    SmallPay = 2
    SelfPayment = TRUE
    Payers = {alice, "none"}
    Index <- MCTimes
    Others = {}
    PageSize = 2
    Overpaid = 1
    Passes = 3
    Downtime = TRUE
    Foreign = TRUE
SYMMETRY MCSymmetry
SPECIFICATION Spec
INVARIANTS Consistent CreditedWhatWasPaid Explained DonatedIsSum
PROPERTY PaidForGood
