SPECIFICATION Spec
CONSTANTS
    alice = alice
    bob = bob
    carol = carol
    USD = USD
    EUR = EUR
    r1 = r1
    Requests = {r1}
    WalletIDs = {1, 2, 3}
    Owners = {alice, bob, carol}
    Keys = {"d", "e", "t", "k"}
    NonUTF8Keys = {}
    SupportedCurrencies = {USD, EUR}
    MaxMinor = 3
    Commands <- MixedCommands
    OpenedWallets <- TwoWallets
    OperatorStatuses = {}
    MaxConns = 2
    MaxFaults = 3
    maxTransactionAttempts = 3
    Numbers <- MCNumbers
INVARIANTS
    RetriedThreeTimes
