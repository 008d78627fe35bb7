SPECIFICATION FairSpec
CONSTANTS
    epay1 = epay1
    stripe1 = stripe1
    creem1 = creem1
    code1 = code1
    h1 = h1
    h2 = h2
    n1 = n1
    n2 = n2
    Orders = {epay1, stripe1, creem1, code1}
    Method <- AllMethods
    Amount <- MCAmount
    Money <- MCMoney
    QuotaPerUnit = 3
    Nodes = {n1}
    Handlers = {h1, h2}
    NodeOf <- OneServer
    SQLite = TRUE
    Faults = {"crash", "db"}
    MaxFaults = 1
    MaxSpare = 2
    NoOrder = NoOrder
CHECK_DEADLOCK FALSE
INVARIANTS CreditedOnce SuccessCredited
PROPERTY PaidIsCredited
