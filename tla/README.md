# Verification of the wallet service

This directory holds a TLA+ model of the wallet service, the TLC runs that check
it on small instances, and proofs checked by TLAPS. Paths such as
`service.go:142` refer to the Go sources (`internal/application/service.go`,
`internal/domain/*.go`, `internal/infrastructure/postgres/*.go`, ...).

## 1. The system

An HTTP service over PostgreSQL. Several replicas may run; all shared state is in
the database.

| Component | State it keeps | Operations | What makes it correct |
|---|---|---|---|
| Domain rules (`internal/domain`) | none: values | `NewWallet`, `Credit`, `Debit`, `AddMinor`, `ParseMoney`, `FormatMinor` | order of refusals, no overflow, no negative balance, exact text/minor-unit conversion |
| Use cases (`internal/application`) | local variables captured by the transaction closure | `CreateWallet`, `Deposit`, `Withdraw`, `Transfer`; reads `GetWallet`, `GetTransaction`, `ListHistory` | one effect per key, all or nothing, never on stale rows, no deadlock |
| Store (`internal/infrastructure/postgres`) | pool of connections; per attempt one READ COMMITTED transaction | `WithinTransaction` (3 attempts), the SQL statements of `repository.go` | retry only what has certainly not happened, release locks |
| Schema and migrations (`postgres/migrations.go`, `cmd/migrate`) | four tables, their constraints, `schema_migrations`; an advisory lock | `Migrate`, by every server and by the release step | each file applied once and in order, also with several versions at once and after interruptions |
| HTTP layer (`internal/interfaces/httpapi`) | none; the client keeps the cursor | routing, the checks of seven handlers, body decoding, deadline, error-to-status mapping, history cursor | an answer tells the client what happened |
| Configuration (`internal/config`) | the process environment | `Load`, `ValidateProduction` | limits as documented, no start with settings that mean something else |
| Server lifecycle (`cmd/server`) | goroutines of `run`, listener and handlers; the pool; timers | `run`: load, open, migrate, listen, `Shutdown`, `Close` | handlers finish before the process ends, which it does in bounded time |
| OpenAPI documents and generator (`api`, `cmd/openapi`) | none | serve and convert static files | (not modelled) |

A request is one goroutine. It validates its command, generates a UUID, and hands
a closure to `Store.WithinTransaction`, which runs it in a database transaction:
reserve the idempotency key; if the key was lost, read the earlier result and
return it; otherwise lock the wallets in the order of their IDs, check, insert
the transaction, update the wallets, insert the ledger entries; commit. Goroutines
meet only in the database: on the primary key `(scope, key)`, on the unique
`owner_id`, on wallet rows locked `FOR UPDATE`, and in the connection pool.

What is hard about it, and what tests hardly reach: interleavings between any two
statements; a transaction that fails half-way; COMMIT whose answer is lost; a
goroutine that is gone while its backend still holds locks or is committing; a
client that retries at the wrong moment; the captured variables that survive from
one attempt to the next; an operator who changes a wallet's status by hand. The
list of hazards with their lines is in `PROJECT.json`.

## 2. Modules

    WalletDomain        rules, commands, validation, request hash
      PostgresStore     tables, open transactions, statements and what they wait for
        WalletService   goroutines, retry loop, failures, Spec and FairSpec
          WalletProperties        invariants, action and liveness properties
            WalletRefinement      WalletService implements WalletLedger
              MCWallets           instances for TLC
            WalletServiceProofs   proofs: control (types, sessions, row locks, who waits for
                                  whom) and money (one effect for a key, balances, rows, statuses)
              WalletHistoryProofs     proofs: what a commit writes, the history, the sums
                WalletPromiseProofs   proofs: owners, keys, answers, the refinement
                  WalletReadsProofs   proofs: what readers are shown (also of WalletReads)
                    HttpApiProofs     proofs: what statuses say (also of HttpApi)
            WalletReads             GET requests beside the use cases, paging clients
              MCReads             instances
              HttpHandlers        routes, checks, decoding and statuses
                HttpApi           messages in, WalletService and WalletReads, statuses out
                  MCHttp          instances
      WalletLedger      the atomic ledger a client is promised

    Migrations          callers of Migrate, their sessions, the advisory lock
      MCMigrations      instances
      MigrationsProofs  proofs: versions, scripts, failures, refinement
    SchemaVersion       the version number Migrate is to implement
    Configuration       Load and ValidateProduction
      ServerLifecycle   both programs from main to exit
        MCServer        instances
        ServerLifecycleProofs   proofs: what a stop takes and what it cuts, the size of the pool
    MoneyText           ParseMoney and FormatMinor between a client and its wallet
      MCMoney           instances
      MoneyTextProofs   proofs: numbers and their digits, texts accepted and shown

**WalletDomain.** A command is one record for the three Go command types; a wallet
is the row without its times. `validateMutation`, `Credit`, `Debit`, `AddMinor`
keep the order of their checks, since it decides which error a client sees.
UUIDs of wallets are numbers, because the order of their strings is the lock
order; the UUID of a transaction is the request that generated it. Abstractions:
SHA-256 is injective (the hash of a command is the command without its key);
generated UUIDs are fresh; `MaxMinor` stands for `math.MaxInt64`, and every sum is
compared as in `AddMinor`, before it is made. Keys are whatever bytes a client has
sent; `NonUTF8Keys` are those that are no text in UTF-8, which no check of the code tells
from others.

**PostgresStore.** Tables are sets of committed rows, so that uniqueness is
something to check and not something assumed. `tx[r]` is what the server knows of
the transaction of request `r`: uncommitted rows, row locks, and whether COMMIT
has arrived. Each operator is one statement of `repository.go`. What a statement
waits for (`RecordHolders`, `OwnerHolders`, `RowHolders`) follows PostgreSQL: an
insert waits for an uncommitted row with the same unique key, and `FOR UPDATE` for
the holder of the row. `Storable` is what its types ask of an idempotency record before
any of this: a key in UTF-8 (`VARCHAR(128)`) and an ID that is not empty (`UUID`). COMMIT makes
all rows of a transaction visible at once. PostgreSQL is external: these are assumptions
about it.

**WalletService.** `pc[r]` is the statement the goroutine of `r` runs next; one
action is one statement and the Go code up to the next. Local variables that
outlive a statement are variables of the model: `newID` (the captured wallet ID or
`transactionID`), `rows` (the wallets read `FOR UPDATE`), `found`, `result`, `err`,
`attempt`. `Conclude` is the loop of `WithinTransaction`. `RefuseRecord` is the INSERT of a
record that is not `Storable`; it fails though nothing is broken, for one of those
keys, or when a replay of `CreateWallet` whose read failed has left the zero Wallet in the
captured variable and the next attempt reserves the key for its empty ID. Failures, at most
`MaxFaults` of them, may hit at any point:

* `StatementFails`: PostgreSQL reports an error, retryable (`40P01`) or not, and has
  aborted the transaction. `40P01` stands for `40001` too.
* `CommitFails`: COMMIT is answered with an error.
* `RollbackFails`: the connection breaks during ROLLBACK.
* `Abandon`: the deadline of `timeout`, a disconnected client, a broken connection
  or the end of the process. The goroutine returns; the backend is left where it
  is, and `BackendGone` or, if COMMIT had arrived, `ServerCommits` decides its
  fate. The end of the process is `Abandon` of all its requests.
* `OperatorSetsStatus`: no code writes `FROZEN` or `CLOSED`; an operator does, with an
  UPDATE that waits for the row lock.

Left out: times; the deadlock detector (`NoWaitCycle` shows it has nothing to
detect, and its error is injected anyway); the order in which waiters get a lock;
a statement still running on the server when its client leaves, which ends like
any other statement of a transaction that will abort.

**WalletLedger** is the abstract specification: a command takes effect in one step,
once for its key, on the wallets as they are then; a positive answer names a
resource already made. `WalletRefinement` maps `WalletService` to it: the tables are
the abstract state, a command takes effect in `ServerCommits`, an answer is given
when `pc` becomes `done`, everything else stutters.

**WalletReads** adds the GET requests to the same database. `reading[d]` is the
goroutine of reader `d` and, for a history, the client that follows `nextCursor`:
the pages it has put together (`items`) and the token it will send. A read opens no
transaction: every statement takes a connection of the pool for itself
(`PoolHasConnection`) and sees what is committed then, so `GetTransaction` sees up to
four moments (`ReadOperation`, `ReadOperationEntries`, and one `AuthorizeOperation` for
each turn of the loop over a map, in any order). A lost answer makes a paging client
ask for the same page again (`ReadFails`). `baseline` is a history variable: what the
history held when its first page was read. `ORDER BY` is given by what it promises
(`Lists`: these rows, by falling number) and not by a way to sort; `LIMIT limit + 1` and the
row too many are as in the code (`Fetched`, `HasMore`, `Page`).

**HttpHandlers** are the handlers without their state. A message is a record of
what their checks tell apart; `Checks(m)` lists the checks of a handler in its order,
each as the status it answers with, and `Immediate(m)` is the first that fails. A message
carries the command or query its route makes of it (`KindOf`). A body
has a length, an end of its first JSON value and something or nothing behind it,
since `decodeJSON` decodes twice; a value that ends nowhere ends with the body, or at the limit.
An `Idempotency-Key` passes if it is not blank and short enough, whatever its bytes are. `problemForError` maps errors to sets of statuses:
no answer in time is 503 or 500, by what the error wraps. **HttpApi** composes them
with `WalletService` and `WalletReads`: `ReceiveCommand` is the action `Arrive` with the
command of a message, `Respond` gives the outcome a status. `DeadlineInRollback` is the
one place where the two layers share more than an error: an error of the rollback
is joined to the first (`store.go:76`), and the switch of `problemForError` may find
either. `Ping` gets a connection of the pool in time or answers 503; `late` marks an
exchange that has met such a deadline, as `faults` and `losses` count what has failed in use
cases and reads.

**Migrations.** One action is one statement of `Migrate` in one of its callers. The
caller and its session on the server are two things (`pc`, `session`): when the caller
leaves (`Leave`: lost connection, cancelled context, end of the process), its session
still waits for the lock or holds it, and may still commit, until `SessionEnds`.
Callers may embed different numbers of files (`Embedded`), as in a rolling deployment.
A caller that is started again is another member of `Migrators`. **SchemaVersion** is
what `Migrate` promises: one number that grows in single steps and that a successful
call has seen reach its own; `ImplementsSchemaVersion` maps the set of applied files
to it.

**Configuration** is `Load` as a function of an environment. A value is unset, does
not parse, or is what it parses to; `int32` wraps after `MaxInt32`. **ServerLifecycle** calls
it: it is one process of either program, from `main` to its exit. `main` is the place
of `run`, `server` the goroutine of `ListenAndServe`, `conn[c]` a connection and the
handler behind it, `pool` the pgxpool with one connection for each handler in `query`.
Time passes in ticks (`Tick`), and not past a timer that has fired and is not yet served,
so deadlines are met to the tick; the code between two waits takes no time. net/http
is external: `Shutdown` closes the listener, waits for handlers, and returns
the error of its context at the deadline; the end of the process cuts what still runs. A
request exists for it once its header is in: connections that have been new for five seconds,
and those waiting for a next request or in the middle of its header, it closes (`ReadHeader`
may close a connection at any time). pgxpool is external, too: `Close` waits for the connections
in use; that it may also wait, up to 15 s, for pgx to clean up broken connections to a database
that is out of reach, is left out, and `StopIsBounded` is to be read without it.

**MoneyText.** A text is the sequence of parts `strings.Split` leaves, a part is a
sequence of digits, `Other` and `Space`. `TrimSpace` drops the white space around a text, which
is the first thing `ParseMoney` does with an amount (`money.go:46`); `AmountError` is what it says
of the rest. `Numeral` is `strconv.FormatInt`, by repeated division, and `Number`
`strconv.ParseInt`. `ParseError`, `Parsed` and `FormatMinor` are the conversions of
`money.go`, between a client who deposits what it types and withdraws what it is
shown. `WalletService` works on minor units, which is what these conversions are for.

## 3. What is checked

The runs of `WalletService` use `MCWallets.tla`, the others the MC module of their
component; requests are symmetric in the runs of safety properties, whose constants name no
request (`http` asks for the operation of each). Definitions named `No...`, `...Unchecked` or marked "Mutant" in the
modules are used by no specification: each is a plausible bug in one definition,
and the run of the property it belongs to finds it.

| Run | Instance | What it shows |
|---|---|---|
| `transfers` | 4 requests, pool of 3; deposit, withdrawal, opposing transfers | `RowsCurrent`: what `UpdateWallet` writes back whole is never stale. `NoWaitCycle`: requests never wait in a circle for keys, owners, rows or connections. `MoneyConserved`. `SchemaNeverRefuses`: the CHECK constraints are never needed. |
| `failures` | 3 requests, pool of 3, 2 failures or interventions of an operator; two deposits together overflow `MaxMinor`; wrong currency, foreign wallet, commands refused before the database | `HistoryExplainsBalance`, `VersionCountsEntries`, `EveryTransactionFullyPosted`, `BalanceInRange`. `HistoryAppendOnly`: an entry that appears is newer than all entries of its wallet, on which stable cursors rest. `StatusIsTheOperators`: a use case never writes an old status back, nor moves money of a wallet that is not active. |
| `retries` | 3 requests, pool of 2, 2 failures, 2 attempts; one key with equal and different payloads and kinds and by other owners; one owner under two keys; a payment to the wallet being opened | `AtMostOncePerKey`, `AcknowledgedIsDurable`, `ReplaysAgree`, `RefusedLeavesNoTrace`, `RetryOnlyAfterRollback`, `OneWalletPerOwner`, `EveryRecordResolves` (`resource_id` has no foreign key), `TypeOK`. |
| `progress` | 3 requests, pool of 2, 1 failure; fair | `EveryRequestAnswered`, `LocksReleased`. |
| `refinement` | 3 requests, 2 failures or interventions; two deposits and a transfer that meet in one wallet, and a wallet being opened | `ImplementsLedger`: what a client sees could have happened one command at a time, each on the wallets as they then were. |
| `reads` | 3 requests, pool of 2, a reader that loses one answer; pages of one entry and of two deposits, an operation by its second participant and by nobody, wallets of one's own, of others and of nobody; fair | `PagesAreTheHistory`: what a client has put together from the pages is the history as it was when it began, and adds up to the balance. `OperationReadWhole`: no transaction without all its entries, though they are read by another statement. `OperationShownToParticipants`: whatever the order of the map. `EveryReadAnswered`. |
| `migrations` | a caller with 2 files and two with 3, a database at any version, failures in any number; fair | `RecordedIsApplied`, `ScriptRunsOnce` (002 cannot run twice), `FailureIsOnesOwn`, `ImplementsSchemaVersion`, `EveryCallEnds`: also after a caller that has left with the lock. |
| `server` | both programs; 16 environments, of which two serve with timeouts in opposite relations; 3 connections, pool of 2; fair | `NothingIsCutShort`: the process ends between transactions, and after a clean stop has answered every request whose header was in. `StopIsBounded`: a stop takes no longer than `ShutdownTimeout` and one request. `StopsWhenTold`. |
| `http` | two POST messages of 8 in order, one of them with a key that is not UTF-8, and 19 with one or several things wrong, one GET of 8; wallets with one key opened twice; 1 failure of a request, 1 of a reader, and pings without an answer | `DocumentedStatus` (the lists of `openapi.yaml`), `ClientErrorLeavesNoTrace`, `CreatedOncePerKey` (201 once, the same place always), `ServerErrorsNeedAFault`: of all that clients send, only such a key is answered with a 5xx while nothing fails. |
| `amounts` | all texts of at most two parts over `0`, `5` and another character, short ones also with white space anywhere; exponents 2 and 0; overflow at 127 | `AcceptedAsDocumented`: `ParseMoney` takes every text the patterns of `openapi.yaml` match, and beside these only such a text with white space around it. `ShownIsTheSum`, `ShownCanBeWithdrawn`. |
| `three_retries` | 1 request, 3 failures | expected violation, see section 5. |
| `pool_narrowed` | pool sizes around the width of the integer | expected violation, see section 5. |

*Bounds.* Two transactions suffice for every pairwise race, a third for a chain of
waiters or a bystander, a fourth for a ledger with entries before and after an
opposing pair. One failure breaks any single point; two cover a failure of the
retry, or of the answer and of the next attempt. Two wallets suffice for lock
order, a third is opened during the run. `MaxMinor` is 3, so that overflow and
insufficient funds both happen. A reader takes a connection for one statement only,
so readers do not meet, and one is as good as two; three writers give a history with
two seams between its pages. Three callers of `Migrate` are one that works, one that
waits and one that has left its session behind. Three connections over a pool of two
are one more than may hold a database connection. The timeouts of `server` are a few
ticks, which keep the order of the real ones; `MaxInt32` is 31, so that values
around both ends of the range are tried. In `reads` only readers
meet failures: those of a request leave nothing a read could see. The failures of
`migrations` and `server` are choices of their actions, and not bounded. Deadlock is checked in every run: the only state
without a step is the one where all requests are answered and no transaction is
left, in which `Terminating` stutters (in the other components, the one where every
call has ended or the process is gone).

*Fairness.* `FairSpec` assumes weak fairness of `Proceed(r)` (the Go scheduler runs
a goroutine that can run; a lock or connection that stays free is given to the
request that waits for it, and with finitely many requests no one can be overtaken
for ever) and of `Server(r)` (PostgreSQL finishes a COMMIT it has received and ends the
transaction of a closed connection). Arrivals and failures are not fair. `ReadsFairSpec`
adds the statements of readers. `Migrations!FairSpec` is the same for callers and
server, `SessionEnds` being what keepalives of PostgreSQL are for. In `ServerLifecycle`
`run`, time, and the handlers whose timer has fired are fair; a handler before its
deadline need not get anywhere, and clients are never fair.

## 4. What is proved

The theorems hold for every set of requests, wallets, owners, keys, currencies and
commands, every pool size, and any number of attempts, failures and interventions.
They assume `DomainAssumption` (IDs are distinct from `NoID`, owners and keys from
the empty string; any of the keys may be in `NonUTF8Keys`) and `ServiceAssumption` (wallets at the start are unused, one for
each ID and owner; the bounds are natural numbers), which TLC evaluates in every run.

| Theorem | Module | States |
|---|---|---|
| `TypeCorrect` | `WalletServiceProofs` | `[](TypeOK /\ ControlOK)` |
| `RetriesAreSafe` | `WalletServiceProofs` | `[]RetryOnlyAfterRollback` |
| `RowsStayCurrent` | `WalletServiceProofs` | `[]RowsCurrent` |
| `NobodyWaitsForHimself` | `WalletServiceProofs` | `[]NoWaitCycle`, for finitely many requests |
| `KeyMovesMoneyOnce` | `WalletServiceProofs` | `[]AtMostOncePerKey` |
| `BalancesStayInRange` | `WalletServiceProofs` | `[]BalanceInRange` |
| `ConstraintsNeverNeeded` | `WalletServiceProofs` | `[]SchemaNeverRefuses` |
| `StatusLeftToOperators` | `WalletServiceProofs` | `StatusIsTheOperators`, an action property |
| `HistoryOnlyGrows` | `WalletHistoryProofs` | `HistoryAppendOnly`, an action property |
| `HistoryExplains` | `WalletHistoryProofs` | `[]HistoryExplainsBalance` |
| `PostingsAreWhole` | `WalletHistoryProofs` | `[]EveryTransactionFullyPosted` |
| `VersionsCount` | `WalletHistoryProofs` | `[]VersionCountsEntries` |
| `MoneyIsConserved` | `WalletHistoryProofs` | `[]MoneyConserved`, for finitely many wallets at the start |
| `OwnersHaveOneWallet` | `WalletPromiseProofs` | `[]OneWalletPerOwner` |
| `RecordsResolve` | `WalletPromiseProofs` | `[]EveryRecordResolves` |
| `RefusalsLeaveNoTrace` | `WalletPromiseProofs` | `[]RefusedLeavesNoTrace` |
| `AnswersAreDurable` | `WalletPromiseProofs` | `[]AcknowledgedIsDurable` |
| `ReplaysTellTheSame` | `WalletPromiseProofs` | `[]ReplaysAgree` |
| `ServiceImplementsLedger` | `WalletPromiseProofs` | `ImplementsLedger`, the refinement |
| `ReadersDoNotDisturb` | `WalletReadsProofs` | `ReadsSpec => Spec` |
| `OperationsAreReadWhole` | `WalletReadsProofs` | `[]OperationReadWhole` |
| `OperationsAreShownToParticipants` | `WalletReadsProofs` | `[]OperationShownToParticipants` |
| `PagesShowTheHistory` | `WalletReadsProofs` | `[]PagesAreTheHistory` |
| `HandlersOnlyTranslate` | `HttpApiProofs` | `HttpSpec => ReadsSpec /\ Spec` |
| `StatusesAreDocumented` | `HttpApiProofs` | `[]DocumentedStatus` |
| `ClientErrorsLeaveNoTrace` | `HttpApiProofs` | `[]ClientErrorLeavesNoTrace` |
| `CreatedOnce` | `HttpApiProofs` | `[]CreatedOncePerKey` |
| `FaultsMakeServerErrors` | `HttpApiProofs` | `[]ServerErrorsNeedAFault` |
| `TypeCorrect` | `MigrationsProofs` | `[]TypeOK` of `Migrations`: the loop never leaves the embedded files |
| `VersionsAreTrue` | `MigrationsProofs` | `[]RecordedIsApplied`, and the applied files have no gaps (`AppliedInOrder`) |
| `NoScriptTwice` | `MigrationsProofs` | `[]ScriptRunsOnce` |
| `FailuresStayApart` | `MigrationsProofs` | `[]FailureIsOnesOwn` |
| `ImplementsVersion` | `MigrationsProofs` | `ImplementsSchemaVersion`, the refinement |
| `StopTakesBoundedTime` | `ServerLifecycleProofs` | `[]StopIsBounded` |
| `NothingCut` | `ServerLifecycleProofs` | `NothingIsCutShort`, an action property |
| `PoolsThatFitAreAsConfigured` | `ServerLifecycleProofs` | `[]PoolSizeOK`: a pool is as large as the environment says if that is an `int32`, and never smaller than 2 |
| `TextsAcceptedAsDocumented` | `MoneyTextProofs` | `[]AcceptedAsDocumented` |
| `BalancesShownAreSums` | `MoneyTextProofs` | `[]ShownIsTheSum` |
| `ShownBalancesCanBeWithdrawn` | `MoneyTextProofs` | `[]ShownCanBeWithdrawn` |
| `LeadingZerosAreIgnored` | `MoneyTextProofs` | zeros in front of a trimmed text change neither its error nor its minor units |

Three theorems about the service need one more assumption each, which they state as an
`ASSUME` of their own. `NobodyWaitsForHimself`: there are finitely many requests, as in
any server (infinitely many could each wait for the next). `MoneyIsConserved`: finitely
many wallets are there at the start, so that their balances have a sum.
`ServiceImplementsLedger`: `Nat \subseteq Numbers`, that is, the sequence behind
`ledger_entries.sequence_no` may give any natural number; a smaller set would have the
abstract ledger refuse entries that the code makes.

Those about `WalletReads` hold for any number of readers, any queries and any number of lost
answers; `ReadsAssumption` says that readers are not requests and queries have the fields a handler
fills. Those about `HttpApi` hold for any set of messages; `HandlersAssumption` says that a message
carries a command of the kind its route makes (`handler.go:136`: `deposit` calls `Deposit`) and
that the limit of a body is positive. `DomainAssumption` and `ServiceAssumption` are assumed there, too.

Those about `ServerLifecycle` hold for any number of connections, any pool size, any
environment and any timeouts; `LifecycleAssumption` says that durations and the size of the pool
are unset, garbled or integers, and `ConfigurationAssumption` that `MaxInt32` is a natural number. Those about `Migrations` hold for any number of callers and files, and assume
`MigrationsAssumption`: every caller embeds the first of the files, one at least, and a
database starts at some version with what `schema_migrations` says (`Init`).

Those about `MoneyText` hold for any base, any largest amount, any set of currencies and texts of
any length. `MoneyAssumption` says that a text has a part at least, as `strings.Split` returns, made
of digits, white space and other characters. `TextsAcceptedAsDocumented` alone cites `ExponentsAssumption`: a
currency has two digits behind the point or none (`money.go:10`), which is what the two patterns
of `openapi.yaml` are written for.

None of the invariants is inductive by itself. Each is a part of, or follows
from, a stronger one, built up in this order:

* `ControlOK`. `TypeOK` alone does not exclude that `CreateWallet` inserts the zero
  Wallet: a replay whose read fails leaves it in the captured variable, and the next
  attempt goes on with it. `KindOK` follows it to the reservation of the key, where its
  empty ID is refused. `Validated` and `KindOK` also say that the statements of a use case
  are run for a valid command of its kind, `LostKeyStaysTaken` that whoever reads a
  record finds one, and `AttemptsLeft` bounds the loop.
* `SessionsOK` relates the goroutine's place in its code to the state the server has
  for its transaction. `RetryOnlyAfterRollback` is its first conjunct. The case that
  needs thought is a rollback that fails with a retryable error: such an error comes
  from the server, which has then aborted the transaction already.
* `LocksOK`. What a request has read it has locked and is committed (`WrittenOf`,
  `CommittedOf`); locks of two requests are disjoint (`Apart`). The step that could
  break it is the commit of *another* request (`OtherLocks`): the rows it replaces are
  rows it has locked, or a wallet it has made. For the second, `Generated` follows the
  UUID of a new wallet from its generation to its commit, and `ReplayOf` shows that a
  captured wallet which was overwritten by a replay is never inserted.
* `KeysOK`. A transaction that is not committed is inserted only by the holder of its
  key, once (`KeyOf`); an uncommitted key is not committed by anybody else (`KeyFree`)
  and has one holder (`KeysApart`); a committed transaction has its key committed with
  it (`PostedKeysTaken`). Hence, when a transaction commits, no committed one has its
  key (`PostedOnce`).
* `MoneyOK`. Every row a transaction has written is a new wallet or one of the rows it
  has read with its command applied, and that row passed the checks of `Debit` or
  `Credit` (`WrittenFrom`, `EntryFrom`). By `LocksOK` the row read is still the committed
  one when the new one replaces it; this carries range, status and the arithmetic of
  entries from the checks to the commit. The theorem on statuses needs in addition
  that wallet IDs are unique (`WalletsOK`).

* `WaitingOK`. A goroutine that waits for a row or for an owner has written no wallet;
  the rows it has locked are smaller than those it still has to lock, and the one it
  waits for is the least of these. So of the requests that wait in a circle for rows,
  take the one that waits for the greatest row: its holder waits for a smaller one,
  although it holds a greater (`WaitingEnds`, by the well-founded order of finite sets).
  Keys and connections are dealt with before: who holds a key does not wait for one, and
  who waits for a connection holds nothing.
* `StagedOK` says what an open transaction contains: nothing before its first insert, a
  wallet with its key, or a money transaction with all rows and entries by the time it
  is committed (`StagedOf`). `Commits` and `PostingMatches` turn it into what a COMMIT does to the
  tables: it adds one whole posting, or one wallet, or nothing. Everything about history
  and about answers rests on these two.
* `LedgerOK`. Numbers of entries are below the sequence; an entry of an open transaction
  is newer than every committed one of its wallet. The number is taken before the
  commit, so this is no property of sequences: it holds because the row lock is held from
  before the number is taken, and another commit on this wallet would need it.
* `AccountedOK`. The entries of a wallet form a chain from zero to its balance; as an
  inductive statement: each entry has its predecessor's end as its start, and the
  newest entry ends at the balance (`EndsAt`). `PostedOK` has for each transaction its
  entries (`FullyPosted`), `VersionsOK` the version of each wallet in terms of their number.
* `ConservedOK` is `MoneyConserved` with the tables finite. Sums are over sets, with the
  community modules' `MapThenSumSet`; the lemmas before it show that such a sum exists, is
  unique and grows by what is added, each by taking a smallest counterexample among
  the subsets of a finite set, as induction theorems cannot be instantiated.
* `OwnersOK`. Whoever has made a wallet and not committed it has its owner for itself:
  no committed wallet has it (`OwnerFree`), and no other uncommitted one (`OwnersApart`).
* `RecordsOK`. A committed key leads to a committed wallet or transaction, which is what the
  command with that hash asked for. It is stronger than `EveryRecordResolves`, and is what
  makes replays tell the truth.
* `OutcomeOK`. A request that has an error of its own making has, or will have, no commit
  behind it (`Decided`, `NoTrace`). The difficult part is an attempt that follows another one,
  and a COMMIT answered with an error, whose outcome is not known: neither is a refusal.
* `AnswerOK`. What the captured variables hold when the closure has returned is true of
  the tables as soon as its COMMIT has been applied (`Truthful`), and stays so (`Durable`): tables only
  grow, and wallets keep owner and currency (`AccountsStay`).
* `CarriedOK` ties commands in progress to those that have arrived. With it, `StepSimulated` maps
  every step: a `ServerCommits` that changes the tables is the abstract command (`CommitOpens`,
  `CommitPosts`, where `SameRules` says that the checks made on the rows that were read are those
  of the ledger on the rows that are there now), an end with an answer is the
  abstract answer (`ReturnsAnswer`), and everything else stutters.

* The proofs about readers and statuses use these as one invariant (`ServiceInv`); since readers
  and handlers leave the service's variables alone (`ReadersDoNotDisturb`, `HandlersOnlyTranslate`), it
  holds beside them. `ReadingOK` adds the types of a reader and where each kind of query can be.
* `OperationsOK` follows `GetTransaction` over its statements. The transaction found is
  committed and stays so; by `PostedOK` its entries, read later, are those of both wallets and
  no others are ever added. Of the wallets still to look at, those already passed belong to
  somebody else, and a wallet never changes hands (`AccountsStay`), so the answer of the loop does
  not depend on its order.
* `PagesOK` says of a client between two pages: `baseline` is the history up to some entry
  (`BeganWith`), the token names an entry of it, and the items so far list the part from there
  on. That a new entry is newer than all of `baseline` is `HistoryOnlyGrows`
  again: without it, an entry could appear behind the client and `baseline` would no longer be a
  beginning. Lemmas about `Lists` show that
  a finite set of rows has one list, that its first part lists the newest rows, and that a page put behind
  the pages before it lists them together. That the statement adds up is `AccountedOK` for neighbours.
* `ErrorsOK` and `ReadErrorsOK` say which errors can be told to whom: an error of the database needs a
  fault, or a key it cannot store, and the empty ID of the zero Wallet a fault in an attempt before; a `CreateWallet` is never told that a wallet is missing or another's, since by `AnswerOK` and
  `RecordsOK` its replay finds the wallet; `ErrKeyRequired` goes to commands without a key only.
  `ExchangeOK` ties each exchange to its goroutine: a request that runs has the command of its
  message, which has passed every check of its handler (`ImmediateAnswers`, `PassedOn`), and a status
  that has been sent is the one of the outcome. The theorems then go through the table of
  `problemForError` once.

Each step lemma first treats the request that moves (`Own...`), then the others
(`Other...`), whose variables the step leaves alone (`OthersUnchanged`). All the
strengthened invariants were model-checked on the instances of `retries` and
`failures`, or of `reads` and `http`.

The invariant of `Migrations` (`IInv`) says of every caller: a session that does more
than wait has the advisory lock, and a caller past the lock has such a session
(`LockOf`); its transaction holds exactly what its place in the loop says (`TxOf`); what
it has read in `schema_migrations` under the lock is still so when it commits
(`ProgressOf`), which is why no script runs twice; a success means that all its files
are applied, an error that something has gone wrong for it (`OutcomeOf`). The applied
files are `1 .. version` (`Gapless`). `ProgressOf` could be broken by a caller that has
left while its COMMIT was under way; `LockOf` forbids it, since the session that
commits has the lock until it ends. The refinement follows: only `ServerCommits` changes
the version, by one, since by `ProgressOf` the file it commits is the next.

The invariant of `ServerLifecycle` has five parts besides types. `StartOK`, `PoolOK` and
`ListenerOK` say that nobody is let in before `listen` and after `select`, and that the pool
is open exactly while handlers may ask it for connections; so the handlers that hold
one when `Close` begins are all that will (`StopOK`). `TimeOK` bounds how long that is: the
time `Close` has taken was added to the age of each of them as well, and a handler that
is older than `RequestTimeout` is not waited for. That the timeouts are natural numbers is
what the checks of `Load` are for (`LoadedDuration`). `PoolsThatFitAreAsConfigured` is the other side of
the finding in section 5: where `int32` changes nothing (`FittingNumbers`), nothing else does, since a pool is
opened only with the configuration that `Load` has returned (`LoadedOK`).

`MoneyText` has a short invariant on long lemmas. `MoneyInv` says that what the client has said so
far is the balance times the `Scale` of its currency, that a shown text is `FormatMinor` of the
balance, and that an answer is `AmountError` of the text it answers. That these are the right
numbers is about sequences of digits of any length. Since the induction theorems cannot be
instantiated, `Least` (a set of natural numbers has a least member, from the well-founded order of
finite sets) gives induction for sets, over numbers (`EveryNumber`) and sequences
(`EverySequence`). `NumberStep` finds the recursion in the community modules' `FoldLeft`; with it, zeros
in front change nothing (`ZerosInFront`), k zeros behind multiply by `Unit(k)` (`ZerosBehind`), and a
number is zero if all digits are (`NothingButZeros`). `NumeralIsTheNumber` shows that repeated
division gives back the number. Hence `ShownAmount`: `Minor` of `FormatMinor` is the identity, because the
cut at the point falls inside digits padded to more than the exponent (`Padded`).
`TrimmedText` says what is left of a text without the white space around it, `DocumentedIsTrimmed` that
nothing is lost of one the patterns match; `InvalidAmounts` and `DocumentedAmounts` compare what
`ParseMoney` has checked with the patterns.
`MoneyInv` was model-checked on the instance of `amounts`.

**Only model-checked.** Liveness (`EveryRequestAnswered`, `LocksReleased`, `EveryReadAnswered`,
`EveryCallEnds`, `StopsWhenTold`) is out of reach of the prover. Every other property of the runs
that pass is a theorem.

## 5. Where documents and code differ

`three_retries` looks for a request that fails with a serialization failure after
fewer than three retries, and finds one after two. `maxTransactionAttempts = 3`
(`store.go:17`) counts the first attempt; `README.md:87` says "Deadlocks and
serialization failures are retried up to three times with bounded backoff", and
`DESIGN.md:160`, `docs/architecture.md:47` and `docs/diagrams.md:141` say the same.

`pool_narrowed` looks for a server whose pool is not as large as its environment says.
`config.go:68` converts `DATABASE_MAX_CONNECTIONS` to `int32` before `config.go:81` compares it
with 2 (`README.md:242`: "Maximum pool connections; minimum is 2"): 4294967298 starts a
server with a pool of 2 and is not refused.

Five more observations came up while modelling; the modules say what the code does,
and no run states the document's side.

* `README.md:474` promises 413 for a body of more than 1 MiB. When the JSON object fits and
  white space behind it does not, the limit is met by the second `Decode` of
  `decodeJSON` (`handler.go:368`), whose errors all become 400.
* `openapi.yaml:987` and `:994` give amounts a `maxLength`. `ParseMoney` measures a number only
  after its leading zeros are gone (`money.go:70`) and accepts longer texts: by
  `LeadingZerosAreIgnored`, of any length.
* `ParseMoney` trims white space (`money.go:46`), so `" 25.00"` is an amount; the patterns of
  `openapi.yaml:988` and `:995` allow none. `AcceptedAsDocumented` names this as the only difference
  between them.
* `openapi.yaml:436-443` asks of an `Idempotency-Key` that it is not blank and not longer than 128
  characters, and `handler.go:393` asks no more. A key that is no text in UTF-8 passes, and the
  INSERT is refused (22021): the client is answered 500 for what it sent, with nothing broken and nothing
  left behind. `ServerErrorsNeedAFault` names it as the only such input. Its neighbour
  is a 500 after a failure that would have been retried: the attempt after a replay whose read has
  failed sends the empty string for `resource_id` (`service.go:64`) and is refused, too (22P02).
* By default a request may take `HTTP_READ_TIMEOUT` for its body (15 s) and `REQUEST_TIMEOUT`
  (10 s), while `SHUTDOWN_TIMEOUT` is 10 s. A stop may then end with an error and cut off
  requests whose body was still coming in; `NothingIsCutShort` says what is certain in
  that case, too: none of them holds a database connection.

## 6. What is not modelled, and the plan

Not modelled on purpose:

* the OpenAPI documents and their generator: static files, no state;
* logging, request IDs and security headers: nothing reads them;
* `recoverer`: no operation can panic, so no state of the model would reach it;
* the clock: no code compares times (that `updated_at` may go back is listed as a
  hazard without a property);
* `WriteTimeout` and `IdleTimeout`: they end connections, not handlers;
* `NewMoney`: no program calls it;
* which of several configuration errors is reported first, and the wording of all
  problem bodies;
* errors that cannot happen: of `ids.New` (`service.go:43`, `:120`, `:207`), since `crypto/rand.Read`
  does not fail from Go 1.24 on and `go.mod` asks for 1.25; of `UpdateWallet` that changes no
  row (`repository.go:97`), since its row is locked and nothing deletes wallets;
* PostgreSQL, pgx and net/http themselves, as said in section 2.

What is left: liveness, which is checked on the instances and not proved, and the three hazards
listed without a property.
