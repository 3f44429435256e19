SPECIFICATION Spec
CONSTANTS
    alice = alice
    bob = bob
    carol = carol
    USD = USD
    EUR = EUR
    r1 = r1
    r2 = r2
    r3 = r3
    Requests = {r1, r2, r3}
    WalletIDs = {1, 2, 3}
    Owners = {alice, bob, carol}
    Keys = {"d", "e", "t", "k"}
    NonUTF8Keys = {}
    SupportedCurrencies = {USD, EUR}
    MaxMinor = 3
    Commands <- MixedCommands
    OpenedWallets <- TwoWallets
    OperatorStatuses = {"FROZEN"}
    MaxConns = 2
    MaxFaults = 2
    maxTransactionAttempts = 3
    Numbers <- MCNumbers
SYMMETRY Symmetry
PROPERTIES
    ImplementsLedger
