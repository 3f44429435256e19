SPECIFICATION Spec
CONSTANTS
    alice = alice
    bob = bob
    carol = carol
    USD = USD
    EUR = EUR
    r1 = r1
    r2 = r2
    r3 = r3
    r4 = r4
    Requests = {r1, r2, r3, r4}
    WalletIDs = {1, 2, 3}
    Owners = {alice, bob, carol}
    Keys = {"d", "t", "u", "w"}
    NonUTF8Keys = {}
    SupportedCurrencies = {USD, EUR}
    MaxMinor = 3
    Commands <- TransferCommands
    OpenedWallets <- TwoWallets
    OperatorStatuses = {}
    MaxConns = 3
    MaxFaults = 0
    maxTransactionAttempts = 3
    Numbers <- MCNumbers
SYMMETRY Symmetry
INVARIANTS
    RowsCurrent
    NoWaitCycle
    MoneyConserved
    SchemaNeverRefuses
