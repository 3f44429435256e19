-------------------------- MODULE WalletProperties --------------------------
(***************************************************************************)
(* What the code, its schema and its documents promise of WalletService.   *)
(***************************************************************************)
EXTENDS WalletService, FiniteSetsExt

-----------------------------------------------------------------------------
(* Locks                                                                   *)

\* A wallet row read FOR UPDATE is still the committed row, and locked by this
\* transaction alone, for as long as the transaction may commit: the balance,
\* status and version that UpdateWallet writes back whole are never stale.
RowsCurrent ==
    \A r \in Requests : Live(r) =>
        /\ rows[r] \subseteq wallets
        /\ tx[r].locks = {w.id : w \in rows[r]}
        /\ \A q \in Requests \ {r} : tx[q].locks \cap tx[r].locks = {}

\* The requests r cannot go on without: those that fill the pool, hold the
\* uncommitted key or owner, or have the wallet locked.
Blockers(r) ==
    CASE pc[r] = "begin" ->
           LET busy == {q \in Requests : OnConnection(q)}
           IN  IF Cardinality(busy) < MaxConns THEN {} ELSE busy
      [] pc[r] = "reserve"      -> RecordHolders(r, Record(r))
      [] pc[r] = "insertWallet" -> OwnerHolders(r, command[r].owner)
      [] pc[r] = "lock"         -> UNION {RowHolders(r, id) :
                                          id \in {i \in WalletIDs : NextLock(r, i)}}
      [] OTHER                  -> {}

\* No set of requests waits for itself: opposing transfers, retries with the
\* same key, races for an owner and a full pool never form a cycle between them,
\* which is what the order of lockWallets and of the statements is for.
NoWaitCycle ==
    \A S \in (SUBSET Requests) \ {{}} : \E r \in S : Blockers(r) \cap S = {}

-----------------------------------------------------------------------------
(* Money                                                                   *)

\* The ledger explains every balance: the newest committed entry of a wallet
\* ends at its balance, every entry starts where the one before it ended, and
\* the first starts at zero.
HistoryExplainsBalance ==
    \A w \in wallets :
        LET history == {e \in ledger : e.wallet = w.id}
        IN  /\ history = {} => w.balance = 0
            /\ \A e \in history :
                 LET older == {o \in history : o.sequence < e.sequence}
                     newer == {o \in history : o.sequence > e.sequence}
                 IN  /\ newer = {} => e.after = w.balance
                     /\ older = {} => e.before = 0
                     /\ older # {} => \E o \in older :
                          /\ \A p \in older : p.sequence <= o.sequence
                          /\ o.after = e.before

\* Every committed change of a wallet is one entry and one version: no update is
\* lost and none is made without an entry.
VersionCountsEntries ==
    \A w \in wallets :
        w.version = 1 + Cardinality({e \in ledger : e.wallet = w.id})

\* A committed transaction has exactly one entry for each of its wallets, for
\* its amount and in its direction, and no entry stands without its transaction.
EveryTransactionFullyPosted ==
    /\ \A e \in ledger : \E t \in transactions : t.id = e.transaction
    /\ \A t \in transactions :
         LET posted == {e \in ledger : e.transaction = t.id}
         IN  /\ {<<e.wallet, e.direction>> : e \in posted} =
                  {<<id, IF id = t.source THEN "DEBIT" ELSE "CREDIT">> :
                      id \in {t.source, t.destination} \ {NoID}}
             /\ Cardinality(posted) = Cardinality({t.source, t.destination} \ {NoID})
             /\ \A e \in posted : e.amount = t.amount

TotalBalance(S) == MapThenSumSet(LAMBDA w : w.balance, S)

\* What a transaction brings in from outside.
NetOf(t) ==
    CASE t.type = "DEPOSIT"    -> t.amount
      [] t.type = "WITHDRAWAL" -> - t.amount
      [] t.type = "TRANSFER"   -> 0

TotalNet(S) == MapThenSumSet(NetOf, S)

\* Money is neither made nor lost: the balances add up to what deposits brought
\* in less what withdrawals took out.
MoneyConserved == TotalBalance(wallets) = TotalNet(transactions)

\* A balance never falls below zero nor leaves int64.
BalanceInRange == \A w \in wallets : w.balance \in 0 .. MaxMinor

\* No row the code writes is one a CHECK of the schema refuses: the constraints
\* are a second line that is never needed.
SchemaNeverRefuses ==
    \A r \in Requests :
        /\ \A w \in tx[r].wallets : WalletRowValid(w)
        /\ \A t \in tx[r].transactions : TransactionRowValid(t)
        /\ \A e \in tx[r].entries : EntryRowValid(e)

\* Committed history is only appended to, and an entry that appears is newer
\* than every entry of its wallet a reader may have paged past.  README.md:524:
\* "Cursor pagination remains stable as new transactions arrive".
HistoryAppendOnly ==
    [][/\ ledger \subseteq ledger' /\ transactions \subseteq transactions'
       /\ \A e \in ledger' \ ledger, o \in ledger :
            o.wallet = e.wallet => o.sequence < e.sequence]_vars

\* Status is the operator's: a use case that read a wallet before it was frozen
\* never writes the old status back, and never changes a balance of a wallet
\* that is not active.
StatusIsTheOperators ==
    [][\A w \in wallets, n \in wallets' : w.id = n.id =>
         /\ w.status # n.status => Operator
         /\ w.balance # n.balance => w.status = "ACTIVE"]_vars

-----------------------------------------------------------------------------
(* Idempotency                                                             *)

SameRequest(r, q) ==
    command[r].owner = command[q].owner /\ command[r].key = command[q].key

\* Retries of a request, by the client or by WithinTransaction, with answers and
\* connections lost, move money at most once.
AtMostOncePerKey ==
    \A t, u \in transactions : SameRequest(t.id, u.id) => t = u

\* resource_id has no foreign key, yet a committed record always leads to the
\* committed resource its request describes.
EveryRecordResolves ==
    \A rec \in idempotency :
        IF rec.type = "WALLET"
          THEN \E w \in wallets :
                 /\ w.id = rec.resource
                 /\ w.owner = rec.scope /\ w.currency = rec.hash.currency
          ELSE \E t \in transactions :
                 /\ t.id = rec.resource
                 /\ command[t.id] = [rec.hash EXCEPT !.key = rec.key]

Acknowledged(r) == pc[r] = "done" /\ err[r] = NoError

\* What a client was told is there: the wallet it opened, or the transaction it
\* asked for with the entries it was shown.
AcknowledgedIsDurable ==
    \A r \in Requests : Acknowledged(r) =>
        IF command[r].kind = "CREATE"
          THEN \E w \in wallets : /\ w.id = newID[r]
                                  /\ w.owner = command[r].owner
                                  /\ w.currency = command[r].currency
          ELSE /\ \E t \in transactions :
                    /\ t.id = result[r].transaction
                    /\ t.type = command[r].kind /\ t.amount = command[r].amount
                    /\ t.source = command[r].source
                    /\ t.destination = command[r].destination
               /\ result[r].entries =
                    {e \in ledger : e.transaction = result[r].transaction}
               /\ result[r].entries # {}

\* Two acknowledged requests with one key were told the same, and one of them at
\* most was told it was the first.
ReplaysAgree ==
    \A r, q \in Requests :
        /\ Acknowledged(r) /\ Acknowledged(q) /\ r # q /\ SameRequest(r, q)
        => /\ command[r] = command[q]
           /\ command[r].kind = "CREATE" => newID[r] = newID[q]
           /\ result[r].transaction = result[q].transaction
           /\ result[r].entries = result[q].entries
           /\ result[r].replayed \/ result[q].replayed

\* A request that was told no has left nothing behind, so the same key may be
\* used again.  Only a client left without an answer has to ask.
RefusedLeavesNoTrace ==
    \A r \in Requests :
        pc[r] = "done" /\ err[r] \notin {NoError, "ErrUnavailable"} =>
            /\ tx[r].state # "committing"
            /\ \A t \in transactions : t.id # r
            /\ \A rec \in idempotency :
                 /\ rec.resource # r
                 /\ command[r].kind = "CREATE" /\ ~ result[r].replayed =>
                      rec.resource # newID[r]

\* Another attempt starts only when the last one can no longer commit.
RetryOnlyAfterRollback ==
    \A r \in Requests : pc[r] \in {"backoff", "begin"} => tx[r].state = "none"

\* The owner index admits one wallet per owner, and no wallet without the record
\* that lets the client who lost the answer find it.
OneWalletPerOwner ==
    /\ \A v, w \in wallets : v.owner = w.owner => v = w
    /\ \A w \in wallets :
         \/ \E o \in OpenedWallets : o.id = w.id
         \/ \E rec \in idempotency : rec.scope = w.owner /\ rec.resource = w.id

-----------------------------------------------------------------------------
(* Progress                                                                *)

\* Every request that arrived is answered, whatever it waited for.
EveryRequestAnswered == \A r \in Requests : pc[r] # "idle" ~> pc[r] = "done"

\* No lock outlives the requests for good, also when clients or connections are
\* gone: a wallet can always be used again.
LocksReleased ==
    \A r \in Requests : tx[r].locks # {} ~> tx[r].locks = {}

-----------------------------------------------------------------------------
(* A claim of the documents that the code does not keep                    *)

\* README.md:87: "Deadlocks and serialization failures are retried up to three
\* times".  A request that fails with one has been retried three times; the code
\* makes three attempts, so it retries twice.
RetriedThreeTimes ==
    \A r \in Requests :
        pc[r] = "done" /\ err[r] = "40P01" => attempt[r] - 1 >= 3
=============================================================================
