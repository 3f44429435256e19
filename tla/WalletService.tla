---------------------------- MODULE WalletService ----------------------------
(***************************************************************************)
(* The money-moving use cases of internal/application/service.go, run by   *)
(* one goroutine per HTTP request against PostgresStore, with the retry    *)
(* loop of Store.WithinTransaction around them.                            *)
(*                                                                         *)
(* One action is one SQL statement and the Go code up to the next one.     *)
(* Between two statements any other goroutine, an operator at the database *)
(* console or a failure may step in.                                       *)
(***************************************************************************)
EXTENDS PostgresStore, FiniteSets

CONSTANTS
    Commands,              \* the commands requests may carry
    OpenedWallets,         \* committed wallets at the start, none of them used yet
    OperatorStatuses,      \* statuses an operator may give a wallet by hand
    MaxConns,              \* pool size: DATABASE_MAX_CONNECTIONS
    MaxFaults,             \* bound on failures and operator interventions in a run
    maxTransactionAttempts

ASSUME ServiceAssumption ==
    /\ Commands \subseteq Command
    /\ OpenedWallets \subseteq
         {w \in Wallet : w.balance = 0 /\ w.status = "ACTIVE" /\ w.version = 1}
    /\ \A v, w \in OpenedWallets : v.id = w.id \/ v.owner = w.owner => v = w
    /\ OperatorStatuses \subseteq {"ACTIVE", "FROZEN", "CLOSED"}
    /\ MaxConns \in Nat \ {0} /\ MaxFaults \in Nat
    /\ maxTransactionAttempts \in Nat \ {0}

VARIABLES
    pc,       \* the statement the goroutine of each request runs next
    command,  \* the command it carries
    newID,    \* transactionID, or wallet.ID of the captured wallet of CreateWallet
    attempt,  \* attempt of WithinTransaction
    found,    \* record.ResourceID of the idempotency record it lost to
    rows,     \* the wallets it has read FOR UPDATE
    result,   \* the captured result, or the replayed flag of CreateWallet
    err,      \* the error it returns
    faults    \* failures and operator interventions so far

requestVars == <<pc, command, newID, attempt, found, rows, result, err>>
vars        == <<storeVars, requestVars, faults>>

Running(r) == pc[r] \notin {"idle", "done"}

\* Goroutines between BeginTx and the end of Commit or Rollback.
OnConnection(r) == Running(r) /\ pc[r] \notin {"begin", "backoff"}

NoResult == [transaction |-> NoID, entries |-> {}, replayed |-> FALSE]

Labels ==
    {"idle", "begin", "reserve", "readKey", "readResource", "readEntries", "lock",
     "post", "update", "entry", "insertWallet", "commit", "committing", "rollback",
     "backoff", "done"}

Result ==
    [transaction : ResourceIDs \cup {NoID}, entries : SUBSET LedgerEntry,
     replayed : BOOLEAN]

RequestTypeOK ==
    /\ pc \in [Requests -> Labels]
    /\ command \in [Requests -> Command]
    /\ newID \in [Requests -> ResourceIDs \cup {NoID}]
    /\ attempt \in [Requests -> 1 .. maxTransactionAttempts]
    /\ found \in [Requests -> ResourceIDs \cup {NoID}]
    /\ rows \in [Requests -> SUBSET Wallet]
    /\ result \in [Requests -> Result]
    /\ err \in [Requests -> Errors]
    /\ faults \in 0 .. MaxFaults

TypeOK == StoreTypeOK /\ RequestTypeOK

Init ==
    /\ wallets = OpenedWallets
    /\ transactions = {} /\ ledger = {} /\ idempotency = {}
    /\ nextSequence = 1
    /\ tx = [r \in Requests |-> NoTransaction]
    /\ pc = [r \in Requests |-> "idle"]
    /\ command = [r \in Requests |-> NoCommand]
    /\ newID = [r \in Requests |-> NoID]
    /\ attempt = [r \in Requests |-> 1]
    /\ found = [r \in Requests |-> NoID]
    /\ rows = [r \in Requests |-> {}]
    /\ result = [r \in Requests |-> NoResult]
    /\ err = [r \in Requests |-> NoError]
    /\ faults = 0

-----------------------------------------------------------------------------
(* Control                                                                 *)

Goto(r, label) == pc' = [pc EXCEPT ![r] = label]

\* The goroutine returns e to its caller.
Answer(r, e) == Goto(r, "done") /\ err' = [err EXCEPT ![r] = e]

\* operation(ctx, repository) returned e: runTransaction rolls back.
Fail(r, e) == Goto(r, "rollback") /\ err' = [err EXCEPT ![r] = e]

\* Mutant: every error is worth another attempt.
RetryEverything(e) == TRUE

isRetryable(e) == e = "40P01"

\* Mutant: the loop ends after its last attempt and returns nil.
ConcludeByFallingThrough(r, e) ==
    IF isRetryable(e)
      THEN IF attempt[r] < maxTransactionAttempts
             THEN Goto(r, "backoff") /\ err' = [err EXCEPT ![r] = e]
             ELSE Answer(r, NoError)
      ELSE Answer(r, e)

\* Mutant: every error is retried at once, and attempts are not counted.
ConcludeWithoutCounting(r, e) ==
    Goto(r, "begin") /\ err' = [err EXCEPT ![r] = e]

\* runTransaction returned e: WithinTransaction backs off, or gives up.
Conclude(r, e) ==
    IF isRetryable(e) /\ attempt[r] < maxTransactionAttempts
      THEN Goto(r, "backoff") /\ err' = [err EXCEPT ![r] = e]
      ELSE Answer(r, e)

-----------------------------------------------------------------------------
(* A request arrives                                                       *)

\* A UUID never generated before.  Since Go 1.24 crypto/rand.Read fails no more,
\* and with it ids.New (go.mod asks for 1.25).
FreshIDs(r, c) ==
    IF c.kind = "CREATE"
      THEN {id \in WalletIDs : /\ \A w \in wallets : w.id # id
                               /\ \A q \in Requests : newID[q] # id}
      ELSE {r}

Arrive(r) ==
    /\ pc[r] = "idle"
    /\ \E c \in Commands :
         /\ command' = [command EXCEPT ![r] = c]
         /\ \/ /\ ValidationError(c) # NoError
               /\ Answer(r, ValidationError(c))
               /\ UNCHANGED newID
            \/ /\ ValidationError(c) = NoError
               /\ \E id \in FreshIDs(r, c) : newID' = [newID EXCEPT ![r] = id]
               /\ Goto(r, "begin")
               /\ UNCHANGED err
    /\ UNCHANGED <<storeVars, attempt, found, rows, result, faults>>

-----------------------------------------------------------------------------
(* The statements of a transaction                                         *)

\* BeginTx waits for a free connection of the pool.
Begin(r) ==
    /\ pc[r] = "begin"
    /\ Cardinality({q \in Requests : OnConnection(q)}) < MaxConns
    /\ BeginTx(r)
    /\ Goto(r, "reserve")
    /\ rows' = [rows EXCEPT ![r] = {}]
    /\ UNCHANGED <<tables, nextSequence, command, newID, attempt, found, result,
                   err, faults>>

Record(r) ==
    [scope |-> command[r].owner, key |-> command[r].key,
     hash |-> requestHash(command[r]), type |-> resourceType(command[r]),
     resource |-> newID[r]]

\* The INSERT would violate the primary key (scope, key).
KeyTaken(r) == \E old \in idempotency : SameKey(old, Record(r))

\* Mutant: the key is reserved on a connection of the pool, not in tx.
ReserveKeyOutsideTx(r) ==
    /\ pc[r] = "reserve"
    /\ Storable(Record(r)) /\ ~ KeyTaken(r)
    /\ idempotency' = idempotency \cup {Record(r)}
    /\ Goto(r, IF command[r].kind = "CREATE" THEN "insertWallet" ELSE "lock")
    /\ UNCHANGED <<wallets, transactions, ledger, nextSequence, tx, command, newID,
                   attempt, found, rows, result, err, faults>>

\* ReserveIdempotency, when the INSERT affects one row ...
ReserveKey(r) ==
    /\ pc[r] = "reserve"
    /\ Storable(Record(r))
    /\ RecordHolders(r, Record(r)) = {}
    /\ ~ KeyTaken(r)
    /\ InsertRecord(r, Record(r))
    /\ Goto(r, IF command[r].kind = "CREATE" THEN "insertWallet" ELSE "lock")
    /\ UNCHANGED <<tables, nextSequence, command, newID, attempt, found, rows,
                   result, err, faults>>

\* ... when it does nothing, because the key is taken ...
LoseKey(r) ==
    /\ pc[r] = "reserve"
    /\ Storable(Record(r))
    /\ RecordHolders(r, Record(r)) = {}
    /\ KeyTaken(r)
    /\ Goto(r, "readKey")
    /\ UNCHANGED <<storeVars, command, newID, attempt, found, rows, result, err,
                   faults>>

\* ... and when PostgreSQL refuses the record, and aborts the transaction: for
\* its key, or because an attempt of CreateWallet that has lost the key left the
\* zero Wallet behind (ReadWallet, StatementFails).
RefuseRecord(r) ==
    /\ pc[r] = "reserve"
    /\ ~ Storable(Record(r))
    /\ AbortTx(r)
    /\ Fail(r, "ErrDatabase")
    /\ UNCHANGED <<tables, nextSequence, command, newID, attempt, found, rows,
                   result, faults>>

\* Mutant: a replay only has to be of the same kind of resource.
ReplayAnyHash(record, c) == record.type = resourceType(c)

validateReplay(record, c) ==
    record.hash = requestHash(c) /\ record.type = resourceType(c)

\* The SELECT of ReserveIdempotency, and the check of what it returns.
ReadKey(r) ==
    /\ pc[r] = "readKey"
    /\ \E old \in idempotency :
         /\ SameKey(old, Record(r))
         /\ IF validateReplay(old, command[r])
              THEN /\ found' = [found EXCEPT ![r] = old.resource]
                   /\ Goto(r, "readResource")
                   /\ UNCHANGED err
              ELSE Fail(r, "ErrIdempotencyConflict") /\ UNCHANGED found
    /\ UNCHANGED <<storeVars, command, newID, attempt, rows, result, faults>>

\* tx.GetWallet of a replayed CreateWallet: it overwrites the captured wallet,
\* with the zero Wallet when there is none.
ReadWallet(r) ==
    /\ pc[r] = "readResource" /\ command[r].kind = "CREATE"
    /\ IF \E w \in wallets : w.id = found[r]
         THEN \E w \in wallets :
                /\ w.id = found[r]
                /\ newID' = [newID EXCEPT ![r] = w.id]
                /\ IF w.owner = command[r].owner
                     THEN Goto(r, "commit") /\ UNCHANGED err
                     ELSE Fail(r, "ErrWalletAccessDenied")
         ELSE newID' = [newID EXCEPT ![r] = NoID] /\ Fail(r, "ErrWalletNotFound")
    /\ result' = [result EXCEPT ![r].replayed = TRUE]
    /\ UNCHANGED <<storeVars, command, attempt, found, rows, faults>>

Replayed(id) == [transaction |-> id, entries |-> {}, replayed |-> TRUE]

\* GetOperationResult reads the transaction first ...
ReadTransaction(r) ==
    /\ pc[r] = "readResource" /\ command[r].kind # "CREATE"
    /\ IF \E t \in transactions : t.id = found[r]
         THEN /\ result' = [result EXCEPT ![r] = Replayed(found[r])]
              /\ Goto(r, "readEntries") /\ UNCHANGED err
         ELSE /\ result' = [result EXCEPT ![r] = Replayed(NoID)]
              /\ Fail(r, "ErrTransactionNotFound")
    /\ UNCHANGED <<storeVars, command, newID, attempt, found, rows, faults>>

\* ... and its entries with a second statement.
ReadEntries(r) ==
    /\ pc[r] = "readEntries"
    /\ result' = [result EXCEPT ![r].entries =
                    {e \in ledger : e.transaction = found[r]}]
    /\ Goto(r, "commit")
    /\ UNCHANGED <<storeVars, command, newID, attempt, found, rows, err, faults>>

\* Transfer writes the source's side first.
FirstOf(r, id, left) ==
    id \in left /\ (command[r].source \in left => id = command[r].source)

\* Mutant: the wallets are locked in the order the command names them.
NextLockAsNamed(r, id) == FirstOf(r, id, Participants(command[r]) \ tx[r].locks)

\* lockWallets goes through the wallets in the order of their IDs.
NextLock(r, id) ==
    LET left == Participants(command[r]) \ tx[r].locks
    IN  id \in left /\ \A other \in left : id <= other

LockWallet(r) ==
    /\ pc[r] = "lock"
    /\ \E w \in wallets :
         /\ NextLock(r, w.id)
         /\ RowHolders(r, w.id) = {}
         /\ LockRow(r, w.id)
         /\ rows' = [rows EXCEPT ![r] = @ \cup {w}]
         /\ Goto(r, IF Participants(command[r]) = tx[r].locks \cup {w.id}
                      THEN "post" ELSE "lock")
    /\ UNCHANGED <<tables, nextSequence, command, newID, attempt, found, result,
                   err, faults>>

MissWallet(r) ==
    /\ pc[r] = "lock"
    /\ \E id \in WalletIDs : NextLock(r, id) /\ \A w \in wallets : w.id # id
    /\ Fail(r, "ErrWalletNotFound")
    /\ UNCHANGED <<storeVars, command, newID, attempt, found, rows, result, faults>>

Refuse(r) ==
    /\ pc[r] = "post"
    /\ \E w \in rows[r] : LET c == command[r] IN
         \E e \in {"ErrWalletAccessDenied", DebitError(w, c), CreditError(w, c)} :
             Refused(rows[r], c, e) /\ Fail(r, e)
    /\ UNCHANGED <<storeVars, command, newID, attempt, found, rows, result, faults>>

CreateFinancialTransaction(r) ==
    /\ pc[r] = "post"
    /\ Accepted(rows[r], command[r])
    /\ InsertTransaction(r, [id |-> r, type |-> command[r].kind,
                             amount |-> command[r].amount,
                             currency |-> command[r].currency,
                             source |-> command[r].source,
                             destination |-> command[r].destination])
    /\ Goto(r, "update")
    /\ UNCHANGED <<tables, nextSequence, command, newID, attempt, found, rows,
                   result, err, faults>>

\* The row is there to be updated: it is locked, and nothing deletes wallets.
UpdateWallet(r) ==
    /\ pc[r] = "update"
    /\ LET done == {w.id : w \in tx[r].wallets}
           left == Participants(command[r]) \ done
       IN  \E w \in rows[r] :
             /\ FirstOf(r, w.id, left)
             /\ UpdateRow(r, Mutated(w, command[r]))
             /\ Goto(r, IF left = {w.id} THEN "entry" ELSE "update")
    /\ UNCHANGED <<tables, nextSequence, command, newID, attempt, found, rows,
                   result, err, faults>>

\* Mutant: before is read after the wallet was changed.
EntryReadLate(r, w) ==
    [sequence |-> nextSequence, transaction |-> r, wallet |-> w.id,
     direction |-> direction(w, command[r]), amount |-> command[r].amount,
     before |-> Mutated(w, command[r]).balance,
     after |-> Mutated(w, command[r]).balance]

Entry(r, w) ==
    [sequence |-> nextSequence, transaction |-> r, wallet |-> w.id,
     direction |-> direction(w, command[r]), amount |-> command[r].amount,
     before |-> w.balance, after |-> Mutated(w, command[r]).balance]

CreateLedgerEntry(r) ==
    /\ pc[r] = "entry"
    /\ LET done == {e.wallet : e \in tx[r].entries}
           left == Participants(command[r]) \ done
       IN  \E w \in rows[r] :
             /\ FirstOf(r, w.id, left)
             /\ InsertEntry(r, Entry(r, w))
             /\ IF left = {w.id}
                  THEN /\ Goto(r, "commit")
                       /\ result' = [result EXCEPT ![r] =
                            [transaction |-> r, replayed |-> FALSE,
                             entries |-> tx[r].entries \cup {Entry(r, w)}]]
                  ELSE Goto(r, "entry") /\ UNCHANGED result
    /\ UNCHANGED <<tables, command, newID, attempt, found, rows, err, faults>>

CreateWallet(r) ==
    /\ pc[r] = "insertWallet"
    /\ OwnerHolders(r, command[r].owner) = {}
    /\ \A w \in wallets : w.owner # command[r].owner
    /\ InsertWallet(r, NewWallet(newID[r], command[r]))
    /\ Goto(r, "commit")
    /\ UNCHANGED <<tables, nextSequence, command, newID, attempt, found, rows,
                   result, err, faults>>

\* The unique violation on wallets_owner_id_key aborts the transaction.
RefuseSecondWallet(r) ==
    /\ pc[r] = "insertWallet"
    /\ OwnerHolders(r, command[r].owner) = {}
    /\ \E w \in wallets : w.owner = command[r].owner
    /\ AbortTx(r)
    /\ Fail(r, "ErrOwnerHasWallet")
    /\ UNCHANGED <<tables, nextSequence, command, newID, attempt, found, rows,
                   result, faults>>

-----------------------------------------------------------------------------
(* The end of a transaction                                                *)

Commit(r) ==
    /\ pc[r] = "commit"
    /\ SendCommit(r)
    /\ Goto(r, "committing")
    /\ UNCHANGED <<tables, nextSequence, command, newID, attempt, found, rows,
                   result, err, faults>>

CommitAcknowledged(r) ==
    /\ pc[r] = "committing" /\ tx[r].state = "committed"
    /\ AbortTx(r)
    /\ Answer(r, NoError)
    /\ UNCHANGED <<tables, nextSequence, command, newID, attempt, found, rows,
                   result, faults>>

\* Mutant: a refused command is tried again in the transaction it was refused in.
RetryInPlace(r) ==
    /\ pc[r] = "rollback"
    /\ IF rows[r] # {} /\ Live(r)
         THEN Goto(r, "post") /\ UNCHANGED <<tx, err>>
         ELSE AbortTx(r) /\ Conclude(r, err[r])
    /\ UNCHANGED <<tables, nextSequence, command, newID, attempt, found, rows,
                   result, faults>>

Rollback(r) ==
    /\ pc[r] = "rollback"
    /\ AbortTx(r)
    /\ Conclude(r, err[r])
    /\ UNCHANGED <<tables, nextSequence, command, newID, attempt, found, rows,
                   result, faults>>

\* The backoff timer fires.
Retry(r) ==
    /\ pc[r] = "backoff"
    /\ Goto(r, "begin")
    /\ attempt' = [attempt EXCEPT ![r] = @ + 1]
    /\ UNCHANGED <<storeVars, command, newID, found, rows, result, err, faults>>

-----------------------------------------------------------------------------
(* The database server                                                     *)

ServerCommits(r) ==
    /\ tx[r].state = "committing"
    /\ ApplyCommit(r)
    /\ UNCHANGED <<nextSequence, requestVars, faults>>

\* A backend whose client has left, before or after it sent COMMIT, aborts.
BackendGone(r) ==
    /\ pc[r] = "done" /\ Live(r)
    /\ AbortTx(r)
    /\ UNCHANGED <<tables, nextSequence, requestVars, faults>>

-----------------------------------------------------------------------------
(* What may go wrong, at most MaxFaults times                              *)

Fault == faults < MaxFaults /\ faults' = faults + 1

InStatement(r) ==
    /\ OnConnection(r) /\ pc[r] \notin {"commit", "committing", "rollback"}
    /\ pc[r] = "post" => Accepted(rows[r], command[r])

\* PostgreSQL reports e: it has aborted the transaction.  GetWallet then returns
\* the zero Wallet, which CreateWallet assigns to its captured variable.
StatementFails(r, e) ==
    /\ Fault /\ InStatement(r)
    /\ AbortTx(r)
    /\ Fail(r, e)
    /\ newID' = IF pc[r] = "readResource" /\ command[r].kind = "CREATE"
                  THEN [newID EXCEPT ![r] = NoID] ELSE newID
    /\ result' = IF pc[r] \in {"readResource", "readEntries"}
                   THEN [result EXCEPT ![r] = Replayed(NoID)]
                   ELSE result
    /\ UNCHANGED <<tables, nextSequence, command, attempt, found, rows>>

\* PostgreSQL answers COMMIT with an error.
CommitFails(r, e) ==
    /\ Fault /\ pc[r] = "committing" /\ tx[r].state = "committing"
    /\ AbortTx(r)
    /\ Conclude(r, e)
    /\ UNCHANGED <<tables, nextSequence, command, newID, attempt, found, rows, result>>

\* The connection is lost during ROLLBACK.  errors.Join keeps the first error.
RollbackFails(r) ==
    /\ Fault /\ pc[r] = "rollback"
    /\ Conclude(r, err[r])
    /\ UNCHANGED <<storeVars, command, newID, attempt, found, rows, result>>

\* The deadline of the timeout middleware, a client that hangs up, a lost
\* connection or the end of the process: the goroutine returns, or is gone, and
\* the backend is left as it is.
Abandon(r) ==
    /\ Fault /\ Running(r) /\ pc[r] # "rollback"
    /\ Answer(r, "ErrUnavailable")
    /\ UNCHANGED <<storeVars, command, newID, attempt, found, rows, result>>

\* UPDATE wallets SET status, typed at the console, waits for the row's lock.
OperatorSetsStatus(w, status) ==
    /\ Fault
    /\ \A r \in Requests : w.id \notin tx[r].locks
    /\ status # w.status
    /\ wallets' = (wallets \ {w}) \cup {[w EXCEPT !.status = status]}
    /\ UNCHANGED <<transactions, ledger, idempotency, nextSequence, tx, requestVars>>

-----------------------------------------------------------------------------
(* The system                                                              *)

\* What the goroutine of r does of its own accord once it has started.
Proceed(r) ==
    \/ Begin(r) \/ ReserveKey(r) \/ LoseKey(r) \/ RefuseRecord(r) \/ ReadKey(r)
    \/ ReadWallet(r) \/ ReadTransaction(r) \/ ReadEntries(r)
    \/ LockWallet(r) \/ MissWallet(r) \/ Refuse(r)
    \/ CreateFinancialTransaction(r) \/ UpdateWallet(r) \/ CreateLedgerEntry(r)
    \/ CreateWallet(r) \/ RefuseSecondWallet(r)
    \/ Commit(r) \/ CommitAcknowledged(r) \/ Rollback(r) \/ Retry(r)

Server(r) == ServerCommits(r) \/ BackendGone(r)

Failure(r) ==
    \/ \E e \in {"40P01", "ErrDatabase"} : StatementFails(r, e) \/ CommitFails(r, e)
    \/ RollbackFails(r) \/ Abandon(r)

Operator ==
    \E w \in wallets, status \in OperatorStatuses : OperatorSetsStatus(w, status)

Terminating ==
    /\ \A r \in Requests : pc[r] = "done" /\ ~ Live(r)
    /\ UNCHANGED vars

Next ==
    \/ \E r \in Requests : Arrive(r) \/ Proceed(r) \/ Server(r) \/ Failure(r)
    \/ Operator
    \/ Terminating

Spec == Init /\ [][Next]_vars

\* The Go scheduler runs every goroutine that can go on and the server ends
\* every transaction whose fate is up to it.  Requests need not arrive, and
\* nothing has to fail.
Fairness ==
    \A r \in Requests : WF_vars(Proceed(r)) /\ WF_vars(Server(r))

FairSpec == Spec /\ Fairness
=============================================================================
