---------------------------- MODULE PostgresStore ----------------------------
(***************************************************************************)
(* The four tables of migrations/, the open READ COMMITTED transactions of *)
(* the pool's connections, and the statements repository.go and store.go   *)
(* run in them.                                                            *)
(*                                                                         *)
(* A table is the set of its committed rows.  tx[r] is the database's view *)
(* of the transaction of request r: the rows it has written and nobody     *)
(* else sees, and the wallet rows it has locked.  It outlives the request: *)
(* a backend whose client is gone still holds its locks, and may still     *)
(* commit.                                                                 *)
(*                                                                         *)
(* An operator of this module describes one statement: what it reads, what *)
(* it waits for and what it changes.  PostgreSQL itself is external.       *)
(***************************************************************************)
EXTENDS WalletDomain

VARIABLES
    wallets,       \* committed rows of wallets
    transactions,  \* committed rows of financial_transactions
    ledger,        \* committed rows of ledger_entries
    idempotency,   \* committed rows of idempotency_records
    nextSequence,  \* the BIGSERIAL of ledger_entries: a rollback leaves a gap
    tx             \* the database transaction of each request

tables    == <<wallets, transactions, ledger, idempotency>>
storeVars == <<wallets, transactions, ledger, idempotency, nextSequence, tx>>

ResourceIDs == WalletIDs \cup Requests

FinancialTransaction ==
    [id : Requests, type : {"DEPOSIT", "WITHDRAWAL", "TRANSFER"},
     amount : Int, currency : SupportedCurrencies \cup {NoName},
     source : WalletIDs \cup {NoID}, destination : WalletIDs \cup {NoID}]

LedgerEntry ==
    [sequence : Int, transaction : Requests, wallet : WalletIDs,
     direction : {"DEBIT", "CREDIT"}, amount : Int, before : Int, after : Int]

\* hash and type are functions of the command that made the record, so the
\* record keeps the command with its key removed.
IdempotencyRecord ==
    [scope : Owners \cup {NoName}, key : Keys \cup {NoName}, hash : Command,
     type : {"WALLET", "TRANSACTION"}, resource : ResourceIDs \cup {NoID}]

DatabaseTransaction ==
    [state        : {"none", "open", "committing", "committed"},
     records      : SUBSET IdempotencyRecord,
     wallets      : SUBSET Wallet,
     transactions : SUBSET FinancialTransaction,
     entries      : SUBSET LedgerEntry,
     locks        : SUBSET WalletIDs]

NoTransaction ==
    [state |-> "none", records |-> {}, wallets |-> {}, transactions |-> {},
     entries |-> {}, locks |-> {}]

StoreTypeOK ==
    /\ wallets \subseteq Wallet
    /\ transactions \subseteq FinancialTransaction
    /\ ledger \subseteq LedgerEntry
    /\ idempotency \subseteq IdempotencyRecord
    /\ nextSequence \in Int
    /\ tx \in [Requests -> DatabaseTransaction]

Live(r) == tx[r].state \in {"open", "committing"}

-----------------------------------------------------------------------------
(* Whom a statement waits for                                              *)

\* Mutant: the request hash is a part of the primary key.
SameKeyAndHash(a, b) == a.scope = b.scope /\ a.key = b.key /\ a.hash = b.hash

SameKey(a, b) == a.scope = b.scope /\ a.key = b.key

\* Mutant: there is no unique index on owner_id for the statement to wait at.
NoOwnerHolders(r, owner) == {}

\* INSERT ... ON CONFLICT waits for another transaction that has inserted the
\* same primary key and has not ended.
RecordHolders(r, record) ==
    {q \in Requests \ {r} : \E other \in tx[q].records : SameKey(other, record)}

\* INSERT INTO wallets waits for another transaction that has inserted or
\* updated a row of the same owner_id and has not ended.
OwnerHolders(r, owner) ==
    {q \in Requests \ {r} : \E w \in tx[q].wallets : w.owner = owner}

\* SELECT ... FOR UPDATE waits for the transaction that has the row locked.
RowHolders(r, id) == {q \in Requests \ {r} : id \in tx[q].locks}

-----------------------------------------------------------------------------
(* Statements                                                              *)

\* BEGIN ISOLATION LEVEL READ COMMITTED
BeginTx(r) == tx' = [tx EXCEPT ![r] = [NoTransaction EXCEPT !.state = "open"]]

\* The transaction's effects and locks are gone: ROLLBACK, an error that aborts
\* it, or a backend that notices its client has left.
AbortTx(r) == tx' = [tx EXCEPT ![r] = NoTransaction]

InsertRecord(r, record) ==
    tx' = [tx EXCEPT ![r].records = @ \cup {record}]

InsertWallet(r, w) ==
    tx' = [tx EXCEPT ![r].wallets = @ \cup {w}]

\* Parameters are converted before the statement runs: a key that is no text in
\* UTF-8 is refused (22021), and so is the empty string as a UUID (22P02).
Storable(record) == record.key \notin NonUTF8Keys /\ record.resource # NoID

\* Mutant: the row is read without FOR UPDATE.
LockNothing(r, id) == UNCHANGED tx

LockRow(r, id) ==
    tx' = [tx EXCEPT ![r].locks = @ \cup {id}]

\* Mutant: the second of two updates takes the place of the first.
UpdateLastRow(r, w) == tx' = [tx EXCEPT ![r].wallets = {w}]

UpdateRow(r, w) ==
    tx' = [tx EXCEPT ![r].wallets = {old \in @ : old.id # w.id} \cup {w}]

InsertTransaction(r, t) ==
    tx' = [tx EXCEPT ![r].transactions = @ \cup {t}]

InsertEntry(r, e) ==
    /\ tx' = [tx EXCEPT ![r].entries = @ \cup {e}]
    /\ nextSequence' = nextSequence + 1

\* COMMIT has reached the server ...
SendCommit(r) == tx' = [tx EXCEPT ![r].state = "committing"]

\* ... and the server applies it, whether or not anybody waits for the answer.
ApplyCommit(r) ==
    /\ wallets' = {w \in wallets : \A new \in tx[r].wallets : new.id # w.id}
                    \cup tx[r].wallets
    /\ transactions' = transactions \cup tx[r].transactions
    /\ ledger' = ledger \cup tx[r].entries
    /\ idempotency' = idempotency \cup tx[r].records
    /\ tx' = [tx EXCEPT ![r] = [NoTransaction EXCEPT !.state = "committed"]]

-----------------------------------------------------------------------------
(* The constraints of 001_initial.sql and 002_wallet_ownership.sql that a  *)
(* row can break by itself                                                 *)

WalletRowValid(w) == 0 <= w.balance /\ w.version > 0

TransactionRowValid(t) ==
    /\ t.amount > 0
    /\ t.currency \in SupportedCurrencies
    /\ t.type = "DEPOSIT"    => t.source = NoID /\ t.destination # NoID
    /\ t.type = "WITHDRAWAL" => t.source # NoID /\ t.destination = NoID
    /\ t.type = "TRANSFER"   => /\ NoID \notin {t.source, t.destination}
                                /\ t.source # t.destination

EntryRowValid(e) ==
    /\ e.amount > 0 /\ 0 <= e.before /\ 0 <= e.after
    /\ e.direction = "DEBIT"  => e.after = e.before - e.amount
    /\ e.direction = "CREDIT" => e.after = e.before + e.amount
=============================================================================
