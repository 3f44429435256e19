SPECIFICATION HttpSpec
CONSTANTS
    alice = alice
    bob = bob
    carol = carol
    USD = USD
    EUR = EUR
    r1 = r1
    r2 = r2
    d1 = d1
    Requests = {r1, r2}
    Readers = {d1}
    WalletIDs = {1, 2, 3, 4}
    Owners = {alice, bob, carol}
    Keys = {"e", "k", "n", "t", "w", "x"}
    NonUTF8Keys = {"x"}
    SupportedCurrencies = {USD, EUR}
    MaxMinor = 4
    Commands <- MCCommands
    Queries <- MCQueries
    Messages <- MCMessages
    maxRequestBodyBytes <- Limit
    swaggerEnabled = TRUE
    OpenedWallets <- TwoWallets
    OperatorStatuses = {}
    MaxLosses = 1
    MaxConns = 2
    MaxFaults = 1
    maxTransactionAttempts = 2
SYMMETRY Symmetry
INVARIANTS
    DocumentedStatus
    ClientErrorLeavesNoTrace
    CreatedOncePerKey
    ServerErrorsNeedAFault
