SPECIFICATION FairSpec
CONSTANTS
    alice = alice
    bob = bob
    carol = carol
    USD = USD
    EUR = EUR
    r1 = r1
    r2 = r2
    r3 = r3
    Requests = {r1, r2, r3}
    WalletIDs = {1, 2, 3}
    Owners = {alice, bob, carol}
    Keys = {"k", "u"}
    NonUTF8Keys = {}
    SupportedCurrencies = {USD, EUR}
    MaxMinor = 3
    Commands <- ProgressCommands
    OpenedWallets <- TwoWallets
    OperatorStatuses = {}
    MaxConns = 2
    MaxFaults = 1
    maxTransactionAttempts = 3
    Numbers <- MCNumbers
PROPERTIES
    EveryRequestAnswered
    LocksReleased
