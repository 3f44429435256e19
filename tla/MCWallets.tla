------------------------------ MODULE MCWallets ------------------------------
(***************************************************************************)
(* The small instances: who has a wallet at the start, and the commands    *)
(* requests may carry in each run.                                         *)
(***************************************************************************)
EXTENDS WalletRefinement, TLC

CONSTANTS alice, bob, carol, USD, EUR

Opened(id, owner, currency) ==
    [id |-> id, owner |-> owner, currency |-> currency, balance |-> 0,
     status |-> "ACTIVE", version |-> 1]

OneWallet  == {Opened(1, alice, USD)}
TwoWallets == {Opened(1, alice, USD), Opened(2, bob, USD)}

Money(kind, owner, key, source, destination, amount) ==
    [kind |-> kind, owner |-> owner, key |-> key, source |-> source,
     destination |-> destination, currency |-> USD, amount |-> amount]

Deposit(owner, key, id, amount)    == Money("DEPOSIT", owner, key, NoID, id, amount)
Withdrawal(owner, key, id, amount) == Money("WITHDRAWAL", owner, key, id, NoID, amount)
Transfer(owner, key, from, to, amount) == Money("TRANSFER", owner, key, from, to, amount)
Creation(owner, key, currency) ==
    [kind |-> "CREATE", owner |-> owner, key |-> key, source |-> NoID,
     destination |-> NoID, currency |-> currency, amount |-> 0]

\* Each is accepted or refused by the balance it meets.
TransferCommands ==
    {Deposit(alice, "d", 1, 2), Transfer(alice, "t", 1, 2, 1),
     Transfer(bob, "u", 2, 1, 1), Withdrawal(alice, "w", 1, 2)}

\* Two deposits that together overflow MaxMinor, commands that a wallet's balance,
\* status or currency may refuse, and those that do not get as far as the database.
FailureCommands ==
    {Deposit(alice, "d", 1, 2), Deposit(alice, "e", 1, 2),
     Transfer(alice, "t", 1, 2, 1), Withdrawal(alice, "w", 1, 2),
     [Deposit(bob, "e", 2, 1) EXCEPT !.currency = EUR],
     Withdrawal(bob, "x", 1, 1),
     Deposit(NoName, "d", 1, 1), Deposit(alice, NoName, 1, 1),
     Deposit(alice, "d", 1, 0), Transfer(alice, "t", 1, 1, 1),
     Creation(carol, "k", NoName)}

\* One key, used again for the same command, for another amount, for another
\* kind of command and by another owner; races for an owner; and payments to a
\* wallet that may not be there yet.
RetryCommands ==
    {Deposit(alice, "k", 1, 1), Deposit(alice, "k", 1, 2), Creation(alice, "k", USD),
     Creation(carol, "k", USD), Creation(carol, "l", USD), Creation(bob, "k", USD),
     Transfer(alice, "t", 1, 3, 1)}

\* Opposing transfers, and a key used twice.
ProgressCommands ==
    {Transfer(alice, "k", 1, 2, 1), Transfer(bob, "u", 2, 1, 1), Deposit(alice, "k", 1, 1)}

\* Commands that meet in one wallet, and one that opens another.
MixedCommands ==
    {Deposit(alice, "d", 1, 1), Deposit(alice, "e", 1, 1),
     Transfer(alice, "t", 1, 2, 1), Creation(carol, "k", USD)}

MCNumbers == 1 .. 8

Symmetry == Permutations(Requests)
=============================================================================
