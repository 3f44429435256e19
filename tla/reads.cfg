SPECIFICATION ReadsFairSpec
CONSTANTS
    alice = alice
    bob = bob
    USD = USD
    EUR = EUR
    r1 = r1
    r2 = r2
    r3 = r3
    d1 = d1
    Requests = {r1, r2, r3}
    Readers = {d1}
    WalletIDs = {1, 2, 3}
    Owners = {alice, bob}
    Keys = {"d", "e", "t"}
    NonUTF8Keys = {}
    SupportedCurrencies = {USD, EUR}
    MaxMinor = 4
    Commands <- HistoryCommands
    Queries <- ReadQueries
    OpenedWallets <- TwoWallets
    OperatorStatuses = {}
    MaxConns = 2
    MaxFaults = 0
    MaxLosses = 1
    maxTransactionAttempts = 2
INVARIANTS
    PagesAreTheHistory
    OperationReadWhole
    OperationShownToParticipants
PROPERTIES
    EveryReadAnswered
