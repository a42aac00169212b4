CONSTANTS
    alice = alice
    bob = bob
    own = own
    other = other
    w1 = w1

    Users = {alice, bob}
    Hashes = {own, other}
    Own = {own}
    Workers = {w1}
    Amount <- MCAmount
    GeneratedAt <- MCTimes
    Deposit <- MCDeposit
    DonationReceiver = "none"
    Lnd = TRUE
    MaxFaults = 1
    PayLimitPct = 1
    SmallPayLimitPct = 1
    InternalPct = 1
    ServicePct = 0
    PctUnit = 2
    SmallPay = 2
    LateStart = FALSE
    Retries = FALSE
    SentAt <- MCTimes
    SelfPayment = FALSE
    Payers = {"none"}
    Index <- MCIndex
    Others = {}
    PageSize = 2
    Overpaid = 0
    Passes = 0
    Downtime = FALSE
    Foreign = FALSE
SYMMETRY MCSymmetry
SPECIFICATION Spec
INVARIANTS Consistent Solvent Explained
PROPERTY CustodySpec
