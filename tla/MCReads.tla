------------------------------- MODULE MCReads -------------------------------
(***************************************************************************)
(* Small instances of WalletReads.                                         *)
(***************************************************************************)
EXTENDS WalletReads

CONSTANTS alice, bob, USD, EUR, r1

Opened(id, owner) ==
    [id |-> id, owner |-> owner, currency |-> USD, balance |-> 0,
     status |-> "ACTIVE", version |-> 1]

TwoWallets == {Opened(1, alice), Opened(2, bob)}

Money(kind, owner, key, source, destination, amount) ==
    [kind |-> kind, owner |-> owner, key |-> key, source |-> source,
     destination |-> destination, currency |-> USD, amount |-> amount]

\* Two deposits and a transfer that write one history.
HistoryCommands ==
    {Money("DEPOSIT", alice, "d", NoID, 1, 2), Money("DEPOSIT", alice, "e", NoID, 1, 1),
     Money("TRANSFER", alice, "t", 1, 2, 1)}

Ask(kind, owner, wallet, transaction, limit, type) ==
    [kind |-> kind, owner |-> owner, wallet |-> wallet, transaction |-> transaction,
     limit |-> limit, type |-> type]

History(limit, type) == Ask("HISTORY", alice, 1, NoID, limit, type)
Operation(owner)     == Ask("TRANSACTION", owner, NoID, r1, 1, NoName)

\* Histories by the entry, and by pages of two deposits; an operation asked for
\* by a participant who comes second in it and by nobody; wallets of one's own,
\* of others and of nobody; and a page that is refused.
ReadQueries ==
    {History(1, NoName), History(2, "DEPOSIT"), History(0, NoName),
     Operation(bob), Operation(NoName),
     Ask("WALLET", alice, 1, NoID, 1, NoName), Ask("WALLET", bob, 1, NoID, 1, NoName),
     Ask("WALLET", alice, 3, NoID, 1, NoName)}
=============================================================================
