-------------------------------- MODULE MCHttp --------------------------------
(***************************************************************************)
(* Messages that are in order, messages with one thing wrong, and messages *)
(* with several.                                                           *)
(***************************************************************************)
EXTENDS HttpApi

CONSTANTS alice, bob, carol, USD, EUR

Opened(id, owner) ==
    [id |-> id, owner |-> owner, currency |-> USD, balance |-> 0,
     status |-> "ACTIVE", version |-> 1]

TwoWallets == {Opened(1, alice), Opened(2, bob)}

Money(kind, owner, key, source, destination, amount) ==
    [kind |-> kind, owner |-> owner, key |-> key, source |-> source,
     destination |-> destination, currency |-> USD, amount |-> amount]

Ask(kind, owner, wallet, transaction) ==
    [kind |-> kind, owner |-> owner, wallet |-> wallet, transaction |-> transaction,
     limit |-> 1, type |-> NoName]

NoQuery == Ask("WALLET", NoName, NoID, NoID)

Small == [value |-> "fits", end |-> 1, size |-> 1, blank |-> TRUE]

Plain(method, route) ==
    [route |-> route, method |-> method, path |-> TRUE, json |-> TRUE, body |-> Small,
     ids |-> TRUE, command |-> NoCommand, cursor |-> TRUE, filter |-> TRUE,
     query |-> NoQuery]

Post(route, c) == [Plain("POST", route) EXCEPT !.command = c]
Get(route, q)  == [Plain("GET", route) EXCEPT !.query = q]

Deposit    == Post("deposits", Money("DEPOSIT", alice, "k", NoID, 1, 2))
Withdrawal == Post("withdrawals", Money("WITHDRAWAL", alice, "w", 1, NoID, 1))
Transfer   == Post("transfers", Money("TRANSFER", alice, "t", 1, 2, 1))
Opening    == Post("wallets", [Money("CREATE", carol, "k", NoID, NoID, 0)
                                 EXCEPT !.currency = EUR])

\* Requests that succeed, or that the use cases refuse: some do either, by what is
\* there when they come.  "x" is a key PostgreSQL cannot store.
Orderly ==
    {Deposit, Transfer, Opening,
     [Deposit EXCEPT !.command.destination = 3, !.command.key = "n"],
     [Withdrawal EXCEPT !.command.key = "x"],
     [Transfer EXCEPT !.command.destination = 1],
     [Opening EXCEPT !.command.owner = alice],
     [Opening EXCEPT !.command.currency = NoName]}

Limit == 2

\* Every check of the handlers, alone and with others behind it.
Disorderly ==
    {[m EXCEPT !.json = FALSE] : m \in {Deposit, Opening}}
    \cup {[m EXCEPT !.body = b] : m \in {Transfer, Opening}, b \in
            {[Small EXCEPT !.value = "refused"], [Small EXCEPT !.blank = FALSE],
             [Small EXCEPT !.end = 2],
             [Small EXCEPT !.end = Limit + 1, !.size = Limit + 1]}}
    \cup {[m EXCEPT !.command.key = NoName] : m \in {Deposit, Transfer, Opening}}
    \cup {[m EXCEPT !.command.owner = NoName] : m \in {Withdrawal, Opening}}
    \cup {[Deposit EXCEPT !.path = FALSE, !.json = FALSE],
          [Deposit EXCEPT !.command.amount = 0, !.command.owner = NoName],
          [Transfer EXCEPT !.ids = FALSE, !.command.currency = NoName],
          [Opening EXCEPT !.method = "GET"]}

Operation(r) == Get("transaction", Ask("TRANSACTION", bob, NoID, r))
History      == Get("history", Ask("HISTORY", alice, 1, NoID))
Wallet3      == Get("wallet", Ask("WALLET", carol, 3, NoID))

Questions ==
    {Operation(r) : r \in Requests}
    \cup {Wallet3, [Wallet3 EXCEPT !.query.owner = NoName],
          [History EXCEPT !.cursor = FALSE, !.query.limit = 101]}
    \cup {Plain("GET", route) : route \in {"ready", "docs", "other"}}

MCMessages == Orderly \cup Disorderly \cup Questions

MCCommands == {m.command : m \in {n \in Messages : n.route \in Commanding}}
MCQueries  == {m.query : m \in {n \in Messages : n.route \in Querying}}

Symmetry == Permutations(Requests)
=============================================================================
