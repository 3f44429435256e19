------------------------ MODULE WalletServiceProofs -------------------------
(***************************************************************************)
(* Proofs about WalletService for any number of requests, wallets, owners, *)
(* commands, failures and attempts.                                        *)
(*   Control: its types; sessions and row locks, that is, an attempt starts*)
(* only when the last one can no longer commit, and what a goroutine read  *)
(* FOR UPDATE is still true when it writes it back; who waits for whom.    *)
(*   Money: a key moves it at most once, however often and by whom its     *)
(* request is sent again; no balance leaves its range and no row the code  *)
(* writes is one the schema refuses; a use case neither changes a wallet's *)
(* status nor moves money of one that is not active.                       *)
(***************************************************************************)
EXTENDS WalletProperties, FiniteSetTheorems, WellFoundedInduction, TLAPS

-----------------------------------------------------------------------------
(* The inductive strengthening of TypeOK                                   *)

\* Nothing starts a transaction that its use case has not let pass.
Validated(r) == Running(r) => ValidationError(command[r]) = NoError

\* The two kinds of use cases do not run each other's statements, and the zero
\* Wallet a failed replay leaves in the captured variable is not inserted: its
\* record is refused before (RefuseRecord).
KindOK(r) ==
    /\ Running(r) /\ command[r].kind = "CREATE" => newID[r] \in WalletIDs \cup {NoID}
    /\ pc[r] = "insertWallet" => command[r].kind = "CREATE" /\ newID[r] \in WalletIDs
    /\ pc[r] \in {"lock", "post", "update", "entry", "readEntries"} =>
         command[r].kind # "CREATE"

\* Whoever has lost its key finds it taken for as long as it looks.
LostKeyStaysTaken(r) ==
    pc[r] \in {"readKey", "readResource", "readEntries"} => KeyTaken(r)

AttemptsLeft(r) == pc[r] = "backoff" => attempt[r] < maxTransactionAttempts

ControlOf(r) ==
    Validated(r) /\ KindOK(r) /\ LostKeyStaysTaken(r) /\ AttemptsLeft(r)

ControlOK == \A r \in Requests : ControlOf(r)

-----------------------------------------------------------------------------
(* Initial states                                                          *)

LEMMA InitTypeOK == Init => TypeOK
<1> SUFFICES ASSUME Init PROVE TypeOK
  OBVIOUS
<1> USE DomainAssumption, ServiceAssumption DEF Init
<1>1. StoreTypeOK
  BY DEF StoreTypeOK, NoTransaction, DatabaseTransaction
<1>2. NoCommand \in Command
  <2>1. 0 \in 0 .. MaxMinor
    OBVIOUS
  <2> QED
    BY <2>1 DEF NoCommand, Command, NoID, NoName
<1>3. attempt \in [Requests -> 1 .. maxTransactionAttempts]
  OBVIOUS
<1>4. pc \in [Requests -> {"idle"}] /\ faults \in 0 .. MaxFaults
  OBVIOUS
<1>7. err \in [Requests -> Errors]
  BY DEF NoError, Errors
<1>5. /\ newID \in [Requests -> ResourceIDs \cup {NoID}]
      /\ found \in [Requests -> ResourceIDs \cup {NoID}]
      /\ rows \in [Requests -> SUBSET Wallet]
  OBVIOUS
<1>6. result \in [Requests -> Result]
  BY DEF NoResult, Result
<1> QED
  BY <1>1, <1>2, <1>3, <1>4, <1>5, <1>6, <1>7 DEF TypeOK, RequestTypeOK, Labels

(***************************************************************************)
(* Each statement leaves the transaction of r well typed.                  *)
(***************************************************************************)
TxTypeOK == tx \in [Requests -> DatabaseTransaction]

LEMMA StatementTypes ==
    ASSUME TxTypeOK, NEW r \in Requests
    PROVE  /\ BeginTx(r) => TxTypeOK'
           /\ AbortTx(r) => TxTypeOK'
           /\ SendCommit(r) => TxTypeOK'
           /\ ApplyCommit(r) => TxTypeOK'
           /\ \A x \in IdempotencyRecord : InsertRecord(r, x) => TxTypeOK'
           /\ \A x \in Wallet : InsertWallet(r, x) => TxTypeOK'
           /\ \A x \in Wallet : UpdateRow(r, x) => TxTypeOK'
           /\ \A x \in WalletIDs : LockRow(r, x) => TxTypeOK'
           /\ \A x \in FinancialTransaction : InsertTransaction(r, x) => TxTypeOK'
           /\ \A x \in LedgerEntry : InsertEntry(r, x) => TxTypeOK'
<1> USE DEF TxTypeOK, DatabaseTransaction, NoTransaction
<1>1. BeginTx(r) => TxTypeOK'
  BY DEF BeginTx
<1>2. AbortTx(r) => TxTypeOK'
  BY DEF AbortTx
<1>3. SendCommit(r) => TxTypeOK'
  BY DEF SendCommit
<1>4. ApplyCommit(r) => TxTypeOK'
  BY DEF ApplyCommit
<1>5. \A x \in IdempotencyRecord : InsertRecord(r, x) => TxTypeOK'
  BY DEF InsertRecord
<1>6. \A x \in Wallet : InsertWallet(r, x) => TxTypeOK'
  BY DEF InsertWallet
<1>7. \A x \in Wallet : UpdateRow(r, x) => TxTypeOK'
  BY DEF UpdateRow
<1>8. \A x \in WalletIDs : LockRow(r, x) => TxTypeOK'
  BY DEF LockRow
<1>9. \A x \in FinancialTransaction : InsertTransaction(r, x) => TxTypeOK'
  BY DEF InsertTransaction
<1>10. \A x \in LedgerEntry : InsertEntry(r, x) => TxTypeOK'
  BY DEF InsertEntry
<1> QED
  BY <1>1, <1>2, <1>3, <1>4, <1>5, <1>6, <1>7, <1>8, <1>9, <1>10

-----------------------------------------------------------------------------
(***************************************************************************)
(* Type correctness of the goroutines' steps.                              *)
(***************************************************************************)
LEMMA ControlTypes ==
    ASSUME RequestTypeOK, NEW r \in Requests
    PROVE  /\ \A l \in Labels : Goto(r, l) => pc' \in [Requests -> Labels]
           /\ \A e \in Errors : Answer(r, e) \/ Fail(r, e) \/ Conclude(r, e) =>
                /\ pc' \in [Requests -> Labels]
                /\ err' \in [Requests -> Errors]
<1> USE DEF RequestTypeOK, Goto
<1>1. \A l \in Labels : Goto(r, l) => pc' \in [Requests -> Labels]
  OBVIOUS
<1>2. \A e \in Errors : Answer(r, e) \/ Fail(r, e) \/ Conclude(r, e) =>
                /\ pc' \in [Requests -> Labels]
                /\ err' \in [Requests -> Errors]
  BY <1>1 DEF Answer, Fail, Conclude, Labels
<1> QED
  BY <1>1, <1>2

LEMMA RecordType ==
    ASSUME TypeOK, NEW r \in Requests
    PROVE  Record(r) \in IdempotencyRecord
<1>1. requestHash(command[r]) \in Command
  BY DEF TypeOK, RequestTypeOK, requestHash, Command
<1>2. /\ command[r].owner \in Owners \cup {NoName}
      /\ command[r].key \in Keys \cup {NoName}
  BY DEF TypeOK, RequestTypeOK, Command
<1>3. newID[r] \in ResourceIDs \cup {NoID}
  BY DEF TypeOK, RequestTypeOK
<1> QED
  BY <1>1, <1>2, <1>3 DEF Record, resourceType, IdempotencyRecord

LEMMA MutatedType ==
    ASSUME NEW w \in Wallet, NEW c \in Command
    PROVE  /\ Mutated(w, c) \in Wallet
           /\ Mutated(w, c).id = w.id
           /\ Mutated(w, c).owner = w.owner
           /\ Mutated(w, c).status = w.status
<1>1. c.amount \in Int
  BY DomainAssumption DEF Command
<1>2. /\ w.balance + c.amount \in Int /\ w.balance - c.amount \in Int
      /\ w.version + 1 \in Int
  BY <1>1 DEF Wallet
<1>3. Credit(w, c) \in Wallet
  BY <1>2 DEF Credit, Wallet
<1>4. Debit(w, c) \in Wallet
  BY <1>2 DEF Debit, Wallet
<1> QED
  BY <1>3, <1>4 DEF Mutated, Credit, Debit, Wallet

LEMMA EntryType ==
    ASSUME TypeOK, NEW r \in Requests, NEW w \in rows[r]
    PROVE  Entry(r, w) \in LedgerEntry
<1>1. w \in Wallet /\ command[r] \in Command /\ nextSequence \in Int
  BY DEF TypeOK, RequestTypeOK, StoreTypeOK
<1>2. command[r].amount \in Int
  BY <1>1, DomainAssumption DEF Command
<1>3. Mutated(w, command[r]) \in Wallet
  BY <1>1, MutatedType
<1> QED
  BY <1>1, <1>2, <1>3 DEF Entry, direction, LedgerEntry, Wallet

LEMMA ReplayedType ==
    ASSUME NEW id \in ResourceIDs \cup {NoID}
    PROVE  Replayed(id) \in Result
BY DEF Replayed, Result

LEMMA ValidCreation ==
    ASSUME NEW c \in Command, c.kind = "CREATE", ValidationError(c) = NoError,
           NEW id \in WalletIDs
    PROVE  NewWallet(id, c) \in Wallet
<1>1. c.owner \in Owners /\ c.currency \in SupportedCurrencies
  BY DEF Command, ValidationError, NoError
<1> QED
  BY <1>1 DEF NewWallet, Wallet

LEMMA PostedType ==
    ASSUME NEW c \in Command, c.kind # "CREATE", NEW r \in Requests
    PROVE  [id |-> r, type |-> c.kind, amount |-> c.amount, currency |-> c.currency,
            source |-> c.source, destination |-> c.destination] \in FinancialTransaction
<1>1. c.amount \in Int
  BY DomainAssumption DEF Command
<1> QED
  BY <1>1 DEF FinancialTransaction, Command

LEMMA ProceedTypeOK ==
    ASSUME TypeOK, ControlOK, NEW r \in Requests, Proceed(r)
    PROVE  TypeOK'
<1> USE DEF TypeOK, StoreTypeOK, RequestTypeOK, TxTypeOK, tables, storeVars
<1>1. CASE Begin(r)
  BY <1>1, ControlTypes, StatementTypes DEF Begin, Labels
<1>2. CASE ReserveKey(r)
  BY <1>2, ControlTypes, StatementTypes, RecordType DEF ReserveKey, Labels
<1>3. CASE LoseKey(r)
  BY <1>3, ControlTypes DEF LoseKey, Labels
<1>4. CASE ReadKey(r)
  BY <1>4, ControlTypes DEF ReadKey, Labels, Errors, IdempotencyRecord
<1>5. CASE ReadWallet(r)
  <2>1. newID' \in [Requests -> ResourceIDs \cup {NoID}]
    BY <1>5 DEF ReadWallet, Wallet, ResourceIDs
  <2>2. result' \in [Requests -> Result]
    <3>1. result[r] \in Result /\ [result[r] EXCEPT !.replayed = TRUE] \in Result
      BY DEF Result
    <3> QED
      BY <1>5, <3>1 DEF ReadWallet
  <2>3. pc' \in [Requests -> Labels] /\ err' \in [Requests -> Errors]
    BY <1>5, ControlTypes DEF ReadWallet, Labels, Errors
  <2> QED
    BY <1>5, <2>1, <2>2, <2>3 DEF ReadWallet
<1>6. CASE ReadTransaction(r)
  <2>1. result' \in [Requests -> Result]
    BY <1>6, ReplayedType DEF ReadTransaction
  <2>2. pc' \in [Requests -> Labels] /\ err' \in [Requests -> Errors]
    BY <1>6, ControlTypes DEF ReadTransaction, Labels, Errors
  <2> QED
    BY <1>6, <2>1, <2>2 DEF ReadTransaction
<1>7. CASE ReadEntries(r)
  BY <1>7, ControlTypes DEF ReadEntries, Labels, Result
<1>8. CASE LockWallet(r)
  BY <1>8, ControlTypes, StatementTypes DEF LockWallet, Labels, Wallet
<1>9. CASE MissWallet(r)
  BY <1>9, ControlTypes DEF MissWallet, Errors
<1>10. CASE Refuse(r)
  BY <1>10, ControlTypes DEF Refuse, Errors, DebitError, CreditError, validateMutation,
       AddMinorError
<1>11. CASE CreateFinancialTransaction(r)
  <2>1. command[r] \in Command /\ command[r].kind # "CREATE"
    BY <1>11 DEF CreateFinancialTransaction, ControlOK, ControlOf, KindOK
  <2>2. TxTypeOK'
    BY <1>11, <2>1, PostedType, StatementTypes DEF CreateFinancialTransaction
  <2> QED
    BY <1>11, <2>2, ControlTypes DEF CreateFinancialTransaction, Labels
<1>12. CASE UpdateWallet(r)
  BY <1>12, ControlTypes, StatementTypes, MutatedType DEF UpdateWallet, Labels
<1>13. CASE CreateLedgerEntry(r)
  <2>1. PICK w \in rows[r] :
          /\ InsertEntry(r, Entry(r, w))
          /\ \/ Goto(r, "commit") /\ result' = [result EXCEPT ![r] =
                   [transaction |-> r, replayed |-> FALSE,
                    entries |-> tx[r].entries \cup {Entry(r, w)}]]
             \/ Goto(r, "entry") /\ UNCHANGED result
    BY <1>13 DEF CreateLedgerEntry
  <2>2. Entry(r, w) \in LedgerEntry
    BY EntryType
  <2>3. TxTypeOK'
    BY <2>1, <2>2, StatementTypes
  <2>7. nextSequence' \in Int
    BY <2>1 DEF InsertEntry
  <2>4. tx[r].entries \cup {Entry(r, w)} \in SUBSET LedgerEntry
    BY <2>2 DEF DatabaseTransaction
  <2>5. result' \in [Requests -> Result]
    <3>1. [transaction |-> r, replayed |-> FALSE,
           entries |-> tx[r].entries \cup {Entry(r, w)}] \in Result
      BY <2>4 DEF Result, ResourceIDs
    <3> QED
      BY <2>1, <3>1
  <2>6. pc' \in [Requests -> Labels]
    BY <2>1, ControlTypes DEF Labels
  <2> QED
    BY <1>13, <2>3, <2>5, <2>6, <2>7 DEF CreateLedgerEntry
<1>14. CASE CreateWallet(r)
  <2>1. NewWallet(newID[r], command[r]) \in Wallet
    BY <1>14, ValidCreation DEF CreateWallet, ControlOK, ControlOf, KindOK, Validated, Running
  <2>2. TxTypeOK'
    BY <1>14, <2>1, StatementTypes DEF CreateWallet
  <2> QED
    BY <1>14, <2>2, ControlTypes DEF CreateWallet, Labels
<1>15. CASE RefuseSecondWallet(r) \/ RefuseRecord(r)
  BY <1>15, ControlTypes, StatementTypes DEF RefuseSecondWallet, RefuseRecord, Errors
<1>16. CASE Commit(r)
  BY <1>16, ControlTypes, StatementTypes DEF Commit, Labels
<1>17. CASE CommitAcknowledged(r)
  BY <1>17, ControlTypes, StatementTypes DEF CommitAcknowledged, Errors
<1>18. CASE Rollback(r)
  BY <1>18, ControlTypes, StatementTypes DEF Rollback
<1>19. CASE Retry(r)
  <2>1. attempt[r] + 1 \in 1 .. maxTransactionAttempts
    BY <1>19, ServiceAssumption DEF Retry, ControlOK, ControlOf, AttemptsLeft
  <2> QED
    BY <1>19, <2>1, ControlTypes DEF Retry, Labels
<1> QED
  BY <1>1, <1>2, <1>3, <1>4, <1>5, <1>6, <1>7, <1>8, <1>9, <1>10, <1>11, <1>12,
     <1>13, <1>14, <1>15, <1>16, <1>17, <1>18, <1>19 DEF Proceed

\* ApplyCommit only adds rows of the transaction to the tables.
LEMMA ServerTypeOK ==
    ASSUME TypeOK, NEW r \in Requests, Server(r)
    PROVE  TypeOK'
<1> USE DEF TypeOK, StoreTypeOK, RequestTypeOK, TxTypeOK, tables, requestVars
<1>1. CASE ServerCommits(r)
  <2>1. TxTypeOK'
    BY <1>1, StatementTypes DEF ServerCommits
  <2>2. tx[r] \in DatabaseTransaction
    OBVIOUS
  <2>3. /\ wallets' \subseteq Wallet /\ transactions' \subseteq FinancialTransaction
        /\ ledger' \subseteq LedgerEntry /\ idempotency' \subseteq IdempotencyRecord
    BY <1>1, <2>2 DEF ServerCommits, ApplyCommit, DatabaseTransaction
  <2> QED
    BY <1>1, <2>1, <2>3 DEF ServerCommits
<1>2. CASE BackendGone(r)
  BY <1>2, StatementTypes DEF BackendGone
<1> QED
  BY <1>1, <1>2 DEF Server

LEMMA FailureTypeOK ==
    ASSUME TypeOK, NEW r \in Requests, Failure(r)
    PROVE  TypeOK'
<1> USE DEF TypeOK, StoreTypeOK, RequestTypeOK, TxTypeOK, tables, storeVars
<1>1. Fault => faults' \in 0 .. MaxFaults
  BY ServiceAssumption DEF Fault
<1>2. ASSUME NEW e \in {"40P01", "ErrDatabase"}, StatementFails(r, e)
      PROVE  TypeOK'
  <2>1. /\ newID' \in [Requests -> ResourceIDs \cup {NoID}]
        /\ result' \in [Requests -> Result]
    BY <1>2, ReplayedType DEF StatementFails
  <2>2. TxTypeOK' /\ pc' \in [Requests -> Labels] /\ err' \in [Requests -> Errors]
    BY <1>2, ControlTypes, StatementTypes DEF StatementFails, Errors
  <2> QED
    BY <1>1, <1>2, <2>1, <2>2 DEF StatementFails
<1>3. ASSUME NEW e \in {"40P01", "ErrDatabase"}, CommitFails(r, e)
      PROVE  TypeOK'
  BY <1>1, <1>3, ControlTypes, StatementTypes DEF CommitFails, Errors
<1>4. CASE RollbackFails(r)
  BY <1>1, <1>4, ControlTypes DEF RollbackFails
<1>5. CASE Abandon(r)
  BY <1>1, <1>5, ControlTypes DEF Abandon, Errors
<1> QED
  BY <1>2, <1>3, <1>4, <1>5 DEF Failure

LEMMA ArriveTypeOK ==
    ASSUME TypeOK, NEW r \in Requests, Arrive(r)
    PROVE  TypeOK'
<1> USE DEF TypeOK, StoreTypeOK, RequestTypeOK, storeVars
<1>1. \A c \in Command : ValidationError(c) \in Errors
  BY DEF ValidationError, Errors
<1>2. PICK c \in Command :
        /\ command' = [command EXCEPT ![r] = c]
        /\ \/ Answer(r, ValidationError(c)) /\ UNCHANGED newID
           \/ /\ \E id \in FreshIDs(r, c) : newID' = [newID EXCEPT ![r] = id]
              /\ Goto(r, "begin")
              /\ UNCHANGED err
  BY ServiceAssumption DEF Arrive
<1>3. FreshIDs(r, c) \subseteq ResourceIDs
  BY DEF FreshIDs, ResourceIDs
<1>4. newID' \in [Requests -> ResourceIDs \cup {NoID}]
  BY <1>2, <1>3
<1>5. pc' \in [Requests -> Labels] /\ err' \in [Requests -> Errors]
  BY <1>1, <1>2, ControlTypes DEF Labels
<1> QED
  BY <1>2, <1>4, <1>5 DEF Arrive

LEMMA OperatorTypeOK ==
    ASSUME TypeOK, Operator
    PROVE  TypeOK'
<1>1. PICK w \in wallets, status \in OperatorStatuses : OperatorSetsStatus(w, status)
  BY DEF Operator
<1>2. [w EXCEPT !.status = status] \in Wallet
  BY ServiceAssumption DEF TypeOK, StoreTypeOK, Wallet
<1>3. faults' \in 0 .. MaxFaults
  BY <1>1, ServiceAssumption DEF OperatorSetsStatus, Fault, TypeOK, RequestTypeOK
<1> QED
  BY <1>1, <1>2, <1>3 DEF OperatorSetsStatus, TypeOK, StoreTypeOK, RequestTypeOK,
     requestVars

-----------------------------------------------------------------------------
(***************************************************************************)
(* A step of one request changes nothing of another.                       *)
(***************************************************************************)
RequestStep(q) == Arrive(q) \/ Proceed(q) \/ Server(q) \/ Failure(q)

Local(r) == <<pc[r], command[r], newID[r], attempt[r], found[r], rows[r], result[r],
              err[r], tx[r]>>

LEMMA OthersUnchanged ==
    ASSUME TypeOK, NEW q \in Requests, RequestStep(q), NEW r \in Requests \ {q}
    PROVE  Local(r)' = Local(r)
<1> USE DEF TypeOK, StoreTypeOK, RequestTypeOK, storeVars, requestVars, tables, Local,
        Goto, Answer, Fail, Conclude, BeginTx, AbortTx, InsertRecord, InsertWallet,
        LockRow, UpdateRow, InsertTransaction, InsertEntry, SendCommit, ApplyCommit
<1>1. CASE Arrive(q)
  BY <1>1 DEF Arrive
<1>2. CASE Begin(q) \/ ReserveKey(q) \/ LoseKey(q) \/ ReadKey(q) \/ ReadWallet(q)
  BY <1>2 DEF Begin, ReserveKey, LoseKey, ReadKey, ReadWallet
<1>3. CASE ReadTransaction(q) \/ ReadEntries(q) \/ LockWallet(q) \/ MissWallet(q) \/ Refuse(q)
  BY <1>3 DEF ReadTransaction, ReadEntries, LockWallet, MissWallet, Refuse
<1>4. CASE CreateFinancialTransaction(q) \/ UpdateWallet(q) \/ CreateLedgerEntry(q)
  BY <1>4 DEF CreateFinancialTransaction, UpdateWallet, CreateLedgerEntry
<1>5. CASE \/ CreateWallet(q) \/ RefuseSecondWallet(q) \/ RefuseRecord(q)
           \/ Commit(q) \/ CommitAcknowledged(q)
  BY <1>5 DEF CreateWallet, RefuseSecondWallet, RefuseRecord, Commit, CommitAcknowledged
<1>6. CASE Rollback(q) \/ Retry(q) \/ Server(q)
  BY <1>6 DEF Rollback, Retry, Server, ServerCommits, BackendGone
<1>7. CASE Failure(q)
  BY <1>7 DEF Failure, StatementFails, CommitFails, RollbackFails, Abandon
<1> QED
  BY <1>1, <1>2, <1>3, <1>4, <1>5, <1>6, <1>7 DEF RequestStep, Proceed

-----------------------------------------------------------------------------
(***************************************************************************)
(* ControlOK is preserved.                                                 *)
(***************************************************************************)
LEMMA IdempotencyGrows ==
    ASSUME NEW q \in Requests, RequestStep(q)
    PROVE  idempotency \subseteq idempotency'
<1> USE DEF storeVars, tables
<1>1. CASE Arrive(q)
  BY <1>1 DEF Arrive
<1>2. CASE Proceed(q)
  BY <1>2 DEF Proceed, Begin, ReserveKey, LoseKey, ReadKey, ReadWallet, ReadTransaction,
     ReadEntries, LockWallet, MissWallet, Refuse, CreateFinancialTransaction,
     UpdateWallet, CreateLedgerEntry, CreateWallet, RefuseSecondWallet, RefuseRecord,
     Commit, CommitAcknowledged, Rollback, Retry
<1>3. CASE Server(q)
  BY <1>3 DEF Server, ServerCommits, BackendGone, ApplyCommit
<1>4. CASE Failure(q)
  BY <1>4 DEF Failure, StatementFails, CommitFails, RollbackFails, Abandon
<1> QED
  BY <1>1, <1>2, <1>3, <1>4 DEF RequestStep

LEMMA KeyStaysTaken ==
    ASSUME NEW r \in Requests, KeyTaken(r), idempotency \subseteq idempotency',
           command'[r] = command[r]
    PROVE  KeyTaken(r)'
BY DEF KeyTaken, SameKey, Record

LEMMA OwnControl ==
    ASSUME TypeOK, NEW q \in Requests, ControlOf(q), RequestStep(q)
    PROVE  ControlOf(q)'
<1> USE DEF TypeOK, RequestTypeOK, ControlOf, Validated, KindOK, LostKeyStaysTaken,
        AttemptsLeft, Running, Goto, Answer, Fail
<1>0. command'[q] = command[q] /\ KeyTaken(q) => KeyTaken(q)'
  BY IdempotencyGrows, KeyStaysTaken
<1>c. ASSUME NEW e, Conclude(q, e)
      PROVE  \/ pc'[q] = "backoff" /\ attempt[q] < maxTransactionAttempts
             \/ pc'[q] = "done"
  BY <1>c DEF Conclude
<1>1. CASE Arrive(q)
  BY <1>1 DEF Arrive, FreshIDs
<1>2. CASE Begin(q) \/ Retry(q)
  BY <1>0, <1>2 DEF Begin, Retry
<1>3. CASE ReserveKey(q)
  BY <1>0, <1>3 DEF ReserveKey, Storable, Record
<1>4. CASE LoseKey(q)
  BY <1>0, <1>4 DEF LoseKey
<1>5. CASE ReadKey(q)
  BY <1>0, <1>5 DEF ReadKey
<1>6. CASE ReadWallet(q)
  <2>1. \A w \in wallets : w.id \in WalletIDs
    BY DEF StoreTypeOK, Wallet
  <2> QED
    BY <1>0, <1>6, <2>1 DEF ReadWallet
<1>7. CASE ReadTransaction(q) \/ ReadEntries(q)
  BY <1>0, <1>7 DEF ReadTransaction, ReadEntries
<1>8. CASE LockWallet(q) \/ MissWallet(q) \/ Refuse(q)
  BY <1>0, <1>8 DEF LockWallet, MissWallet, Refuse
<1>9. CASE CreateFinancialTransaction(q) \/ UpdateWallet(q) \/ CreateLedgerEntry(q)
  BY <1>0, <1>9 DEF CreateFinancialTransaction, UpdateWallet, CreateLedgerEntry
<1>10. CASE \/ CreateWallet(q) \/ RefuseSecondWallet(q) \/ RefuseRecord(q)
            \/ Commit(q) \/ CommitAcknowledged(q)
  BY <1>0, <1>10 DEF CreateWallet, RefuseSecondWallet, RefuseRecord, Commit,
     CommitAcknowledged
<1>11. CASE Rollback(q)
  BY <1>0, <1>c, <1>11 DEF Rollback
<1>12. CASE Server(q)
  BY <1>0, <1>12 DEF Server, ServerCommits, BackendGone, requestVars
<1>13. CASE Failure(q)
  <2>1. CASE \E e \in {"40P01", "ErrDatabase"} : StatementFails(q, e)
    BY <1>0, <2>1 DEF StatementFails, InStatement, OnConnection
  <2>2. CASE \E e \in {"40P01", "ErrDatabase"} : CommitFails(q, e)
    BY <1>0, <1>c, <2>2 DEF CommitFails
  <2>3. CASE RollbackFails(q)
    BY <1>0, <1>c, <2>3 DEF RollbackFails
  <2>4. CASE Abandon(q)
    BY <2>4 DEF Abandon
  <2> QED
    BY <1>13, <2>1, <2>2, <2>3, <2>4 DEF Failure
<1> QED
  BY <1>1, <1>2, <1>3, <1>4, <1>5, <1>6, <1>7, <1>8, <1>9, <1>10, <1>11, <1>12, <1>13
     DEF RequestStep, Proceed

LEMMA OtherControl ==
    ASSUME TypeOK, NEW q \in Requests, RequestStep(q),
           NEW r \in Requests \ {q}, ControlOf(r)
    PROVE  ControlOf(r)'
<1>1. /\ pc'[r] = pc[r] /\ command'[r] = command[r]
      /\ newID'[r] = newID[r] /\ attempt'[r] = attempt[r]
  BY OthersUnchanged DEF Local
<1>2. KeyTaken(r) => KeyTaken(r)'
  BY <1>1, IdempotencyGrows, KeyStaysTaken
<1> QED
  BY <1>1, <1>2 DEF ControlOf, Validated, KindOK, LostKeyStaysTaken, AttemptsLeft, Running

-----------------------------------------------------------------------------
(***************************************************************************)
(* Type correctness                                                        *)
(***************************************************************************)
LEMMA NextSplit ==
    ASSUME [Next]_vars
    PROVE  \/ \E q \in Requests : RequestStep(q)
           \/ Operator
           \/ UNCHANGED vars
BY DEF Next, RequestStep, Terminating

LEMMA InitControlOK == Init => ControlOK
BY DEF Init, ControlOK, ControlOf, Validated, KindOK, LostKeyStaysTaken, AttemptsLeft,
   Running

LEMMA ControlStep ==
    ASSUME TypeOK, ControlOK, [Next]_vars
    PROVE  ControlOK'
<1>1. CASE \E q \in Requests : RequestStep(q)
  BY <1>1, OwnControl, OtherControl DEF ControlOK
<1>2. CASE Operator
  BY <1>2 DEF Operator, OperatorSetsStatus, requestVars, ControlOK, ControlOf, Validated,
     KindOK, LostKeyStaysTaken, AttemptsLeft, Running, KeyTaken, SameKey, Record
<1>3. CASE UNCHANGED vars
  BY <1>3 DEF vars, storeVars, requestVars, ControlOK, ControlOf, Validated, KindOK,
     LostKeyStaysTaken, AttemptsLeft, Running, KeyTaken, SameKey, Record
<1> QED
  BY <1>1, <1>2, <1>3, NextSplit

LEMMA TypeStep ==
    ASSUME TypeOK, ControlOK, [Next]_vars
    PROVE  TypeOK'
<1>1. CASE \E q \in Requests : RequestStep(q)
  BY <1>1, ArriveTypeOK, ProceedTypeOK, ServerTypeOK, FailureTypeOK DEF RequestStep
<1>2. CASE Operator
  BY <1>2, OperatorTypeOK
<1>3. CASE UNCHANGED vars
  BY <1>3 DEF vars, storeVars, requestVars, TypeOK, StoreTypeOK, RequestTypeOK
<1> QED
  BY <1>1, <1>2, <1>3, NextSplit

\* Every reachable state is well typed, and every goroutine is where its use
\* case may be.
THEOREM TypeCorrect == Spec => [](TypeOK /\ ControlOK)
<1>1. Init => TypeOK /\ ControlOK
  BY InitTypeOK, InitControlOK
<1>2. TypeOK /\ ControlOK /\ [Next]_vars => (TypeOK /\ ControlOK)'
  BY TypeStep, ControlStep
<1> QED
  BY <1>1, <1>2, PTL DEF Spec

-----------------------------------------------------------------------------
(* The inductive strengthening of RowsCurrent                              *)

Fresh == [NoTransaction EXCEPT !.state = "open"]

\* The database transaction a goroutine has at each of its statements.
SessionOf(r) ==
    /\ pc[r] \in {"idle", "begin", "backoff"} => tx[r].state = "none"
    /\ pc[r] \in {"reserve", "readKey", "readResource", "readEntries"} => tx[r] = Fresh
    /\ pc[r] \in {"lock", "post", "update", "entry", "insertWallet", "commit"} =>
         tx[r].state = "open"
    /\ pc[r] = "committing" => tx[r].state \in {"committing", "committed"}
    /\ pc[r] = "rollback" => /\ tx[r].state \in {"none", "open"}
                             /\ isRetryable(err[r]) => tx[r].state = "none"
    /\ ~ Live(r) => /\ tx[r].locks = {} /\ tx[r].wallets = {} /\ tx[r].records = {}
                    /\ tx[r].transactions = {} /\ tx[r].entries = {}

SessionsOK == \A r \in Requests : SessionOf(r)

\* newID[r] is the UUID CreateWallet generated, not one it read back.
Generated(r) ==
    command[r].kind = "CREATE" /\ newID[r] # NoID /\ ~ result[r].replayed

\* A use case that has read an earlier result never gets to make one of its own.
ReplayOf(r) ==
    /\ pc[r] = "idle" => newID[r] = NoID /\ ~ result[r].replayed
    /\ pc[r] = "insertWallet" => ~ result[r].replayed
    /\ result[r].replayed => KeyTaken(r)

\* What r has read it has locked, and what it has written it has locked or made.
WrittenOf(r) ==
    /\ Live(r) => tx[r].locks = {w.id : w \in rows[r]}
    /\ \A w \in tx[r].wallets : w.id \in tx[r].locks \/ (Generated(r) /\ w.id = newID[r])

\* What r has read is committed, and what it has made is not.
CommittedOf(r) ==
    /\ Live(r) => rows[r] \subseteq wallets
    /\ Generated(r) /\ tx[r].state # "committed" /\ (pc[r] # "done" \/ Live(r)) =>
         \A w \in wallets : w.id # newID[r]

LocksOf(r) == ReplayOf(r) /\ WrittenOf(r) /\ CommittedOf(r)

\* No two requests have locked the same wallet, or made one with the same ID.
Apart(r, q) ==
    /\ tx[r].locks \cap tx[q].locks = {}
    /\ Generated(r) /\ Generated(q) => newID[r] # newID[q]

LocksOK ==
    /\ \A r \in Requests : LocksOf(r)
    /\ \A r, q \in Requests : r # q => Apart(r, q)

-----------------------------------------------------------------------------
(* Sessions                                                                *)

LEMMA BusinessErrors ==
    ASSUME NEW w, NEW c
    PROVE  /\ ~ isRetryable(DebitError(w, c))
           /\ ~ isRetryable(CreditError(w, c))
BY DEF isRetryable, DebitError, CreditError, validateMutation, AddMinorError, NoError

LEMMA OwnSession ==
    ASSUME TypeOK, NEW q \in Requests, SessionOf(q), RequestStep(q)
    PROVE  SessionOf(q)'
<1> USE DEF TypeOK, RequestTypeOK, StoreTypeOK, SessionOf, Live, Goto, Answer, Fail,
        storeVars, requestVars
<1>t. tx[q] \in DatabaseTransaction
  OBVIOUS
<1>a. AbortTx(q) => tx'[q] = NoTransaction
  BY DEF AbortTx
<1>n. /\ NoTransaction.state = "none" /\ NoTransaction.locks = {}
      /\ NoTransaction.wallets = {} /\ NoTransaction.records = {}
      /\ NoTransaction.transactions = {} /\ NoTransaction.entries = {}
      /\ Fresh.state = "open"
  BY DEF NoTransaction, Fresh
<1>c. ASSUME NEW e, Conclude(q, e)
      PROVE  pc'[q] = "done" \/ (pc'[q] = "backoff" /\ isRetryable(e))
  BY <1>c DEF Conclude
<1>1. CASE Arrive(q) \/ LoseKey(q) \/ ReadKey(q) \/ ReadWallet(q) \/ ReadTransaction(q)
             \/ ReadEntries(q) \/ MissWallet(q) \/ Retry(q)
  BY <1>1, <1>n DEF Arrive, LoseKey, ReadKey, ReadWallet, ReadTransaction, ReadEntries,
     MissWallet, Retry, isRetryable
<1>2. CASE Begin(q)
  BY <1>2, <1>n DEF Begin, BeginTx, Fresh
<1>3. CASE Refuse(q)
  BY <1>3, BusinessErrors DEF Refuse, isRetryable
<1>4. CASE ReserveKey(q)
  BY <1>4, <1>t, <1>n DEF ReserveKey, InsertRecord, DatabaseTransaction
<1>11. CASE LockWallet(q)
  BY <1>11, <1>t DEF LockWallet, LockRow, DatabaseTransaction
<1>12. CASE CreateWallet(q)
  BY <1>12, <1>t DEF CreateWallet, InsertWallet, DatabaseTransaction
<1>5. CASE CreateFinancialTransaction(q)
  BY <1>5, <1>t DEF CreateFinancialTransaction, InsertTransaction, DatabaseTransaction
<1>13. CASE UpdateWallet(q)
  <2>1. PICK w \in rows[q] : UpdateRow(q, Mutated(w, command[q]))
    BY <1>13 DEF UpdateWallet
  <2>2. tx'[q].state = tx[q].state
    BY <1>t, <2>1 DEF UpdateRow, DatabaseTransaction
  <2>3. pc[q] = "update" /\ pc'[q] \in {"update", "entry"}
    BY <1>13 DEF UpdateWallet
  <2> QED
    BY <2>2, <2>3
<1>14. CASE CreateLedgerEntry(q)
  <2>1. PICK w \in rows[q] : InsertEntry(q, Entry(q, w))
    BY <1>14 DEF CreateLedgerEntry
  <2>2. tx'[q].state = tx[q].state
    BY <1>t, <2>1 DEF InsertEntry, DatabaseTransaction
  <2>3. pc[q] = "entry" /\ pc'[q] \in {"entry", "commit"}
    BY <1>14 DEF CreateLedgerEntry
  <2> QED
    BY <2>2, <2>3
<1>6. CASE RefuseSecondWallet(q) \/ RefuseRecord(q) \/ CommitAcknowledged(q)
  BY <1>6, <1>a, <1>n DEF RefuseSecondWallet, RefuseRecord, CommitAcknowledged,
     isRetryable
<1>7. CASE Commit(q)
  BY <1>7, <1>t DEF Commit, SendCommit, DatabaseTransaction
<1>8. CASE Rollback(q)
  BY <1>8, <1>a, <1>n, <1>c DEF Rollback
<1>9. CASE Server(q)
  BY <1>9, <1>a, <1>n DEF Server, ServerCommits, BackendGone, ApplyCommit, NoTransaction
<1>10. CASE Failure(q)
  <2>1. CASE \E e \in {"40P01", "ErrDatabase"} : StatementFails(q, e)
    BY <1>a, <1>n, <2>1 DEF StatementFails
  <2>2. CASE \E e \in {"40P01", "ErrDatabase"} : CommitFails(q, e)
    BY <1>a, <1>n, <1>c, <2>2 DEF CommitFails
  <2>3. CASE RollbackFails(q)
    BY <1>c, <2>3 DEF RollbackFails
  <2>4. CASE Abandon(q)
    BY <2>4 DEF Abandon
  <2> QED
    BY <1>10, <2>1, <2>2, <2>3, <2>4 DEF Failure
<1> QED
  BY <1>1, <1>2, <1>3, <1>4, <1>5, <1>6, <1>7, <1>8, <1>9, <1>10, <1>11, <1>12,
     <1>13, <1>14
     DEF RequestStep, Proceed

LEMMA InitSessions == Init => SessionsOK
<1> SUFFICES ASSUME Init, NEW r \in Requests PROVE SessionOf(r)
  BY DEF SessionsOK
<1>1. pc[r] = "idle" /\ tx[r] = NoTransaction
  BY DEF Init
<1> QED
  BY <1>1 DEF SessionOf, NoTransaction, Live

LEMMA SessionStep ==
    ASSUME TypeOK, SessionsOK, [Next]_vars
    PROVE  SessionsOK'
<1>1. CASE \E q \in Requests : RequestStep(q)
  <2>1. PICK q \in Requests : RequestStep(q)
    BY <1>1
  <2>2. SessionOf(q)'
    BY <2>1, OwnSession DEF SessionsOK
  <2>3. ASSUME NEW r \in Requests \ {q}  PROVE SessionOf(r)'
    BY <2>1, OthersUnchanged DEF Local, SessionsOK, SessionOf, Live
  <2> QED
    BY <2>2, <2>3 DEF SessionsOK
<1>2. CASE Operator \/ UNCHANGED vars
  BY <1>2 DEF Operator, OperatorSetsStatus, vars, storeVars, requestVars, SessionsOK,
     SessionOf, Live
<1> QED
  BY <1>1, <1>2, NextSplit

\* WithinTransaction starts another attempt only when the last one is rolled
\* back: no effect can be applied behind the back of a retry.
THEOREM RetriesAreSafe == Spec => []RetryOnlyAfterRollback
<1>1. SessionsOK => RetryOnlyAfterRollback
  BY DEF SessionsOK, SessionOf, RetryOnlyAfterRollback
<1>2. TypeOK /\ SessionsOK /\ [Next]_vars => SessionsOK'
  BY SessionStep
<1> QED
  BY <1>1, <1>2, InitSessions, TypeCorrect, PTL DEF Spec
-----------------------------------------------------------------------------
(* Locks                                                                   *)

LEMMA OwnReplay ==
    ASSUME TypeOK, NEW q \in Requests, ControlOf(q), ReplayOf(q), RequestStep(q)
    PROVE  ReplayOf(q)'
<1> USE DEF TypeOK, RequestTypeOK, ReplayOf, Goto, Answer, Fail, storeVars, requestVars
<1>k. command'[q] = command[q] /\ KeyTaken(q) => KeyTaken(q)'
  BY IdempotencyGrows, KeyStaysTaken
<1>l. pc[q] \in {"readKey", "readResource", "readEntries"} => KeyTaken(q)
  BY DEF ControlOf, LostKeyStaysTaken
<1>c. ASSUME NEW e, Conclude(q, e)
      PROVE  pc'[q] \in {"backoff", "done"}
  BY <1>c DEF Conclude
<1>1. CASE Arrive(q)
  BY <1>1 DEF Arrive
<1>2. CASE Begin(q) \/ Retry(q) \/ LoseKey(q) \/ ReadKey(q)
  BY <1>2, <1>k DEF Begin, Retry, LoseKey, ReadKey
<1>3. CASE ReserveKey(q)
  BY <1>3, <1>k DEF ReserveKey
<1>4. CASE ReadWallet(q) \/ ReadTransaction(q) \/ ReadEntries(q)
  BY <1>4, <1>k, <1>l DEF ReadWallet, ReadTransaction, ReadEntries
<1>5. CASE LockWallet(q) \/ MissWallet(q) \/ Refuse(q) \/ CreateFinancialTransaction(q)
  BY <1>5, <1>k DEF LockWallet, MissWallet, Refuse, CreateFinancialTransaction
<1>6. CASE UpdateWallet(q)
  <2>1. pc[q] = "update" /\ pc'[q] \in {"update", "entry"}
    BY <1>6 DEF UpdateWallet
  <2>2. UNCHANGED <<command, newID, result>>
    BY <1>6 DEF UpdateWallet
  <2> QED
    BY <2>1, <2>2, <1>k
<1>11. CASE CreateLedgerEntry(q)
  <2>1. pc[q] = "entry" /\ pc'[q] \in {"entry", "commit"}
    BY <1>11 DEF CreateLedgerEntry
  <2>2. UNCHANGED <<command, newID>> /\ (result'[q].replayed => result[q].replayed)
    <3>1. PICK w \in rows[q] :
            \/ UNCHANGED result
            \/ result' = [result EXCEPT ![q] =
                            [transaction |-> q, replayed |-> FALSE,
                             entries |-> tx[q].entries \cup {Entry(q, w)}]]
      BY <1>11 DEF CreateLedgerEntry
    <3>2. UNCHANGED <<command, newID>>
      BY <1>11 DEF CreateLedgerEntry
    <3> QED
      BY <3>1, <3>2
  <2> QED
    BY <2>1, <2>2, <1>k
<1>7. CASE \/ CreateWallet(q) \/ RefuseSecondWallet(q) \/ RefuseRecord(q)
           \/ Commit(q) \/ CommitAcknowledged(q)
  BY <1>7, <1>k DEF CreateWallet, RefuseSecondWallet, RefuseRecord, Commit,
     CommitAcknowledged
<1>8. CASE Rollback(q)
  BY <1>8, <1>k, <1>c DEF Rollback
<1>9. CASE Server(q)
  BY <1>9, <1>k DEF Server, ServerCommits, BackendGone
<1>10. CASE Failure(q)
  <2>1. CASE \E e \in {"40P01", "ErrDatabase"} : StatementFails(q, e)
    BY <2>1, <1>k, <1>l DEF StatementFails
  <2>2. CASE \E e \in {"40P01", "ErrDatabase"} : CommitFails(q, e)
    BY <2>2, <1>k, <1>c DEF CommitFails
  <2>3. CASE RollbackFails(q) \/ Abandon(q)
    BY <2>3, <1>k, <1>c DEF RollbackFails, Abandon, Running
  <2> QED
    BY <1>10, <2>1, <2>2, <2>3 DEF Failure
<1> QED
  BY <1>1, <1>2, <1>3, <1>4, <1>5, <1>6, <1>7, <1>8, <1>9, <1>10, <1>11
     DEF RequestStep, Proceed

\* Only a commit changes the committed wallets.
LEMMA OnlyCommitsChangeWallets ==
    ASSUME NEW q \in Requests, RequestStep(q)
    PROVE  UNCHANGED wallets \/ ServerCommits(q)
<1> USE DEF storeVars, tables
<1>1. CASE Arrive(q)
  BY <1>1 DEF Arrive
<1>2. CASE Proceed(q)
  BY <1>2 DEF Proceed, Begin, ReserveKey, LoseKey, ReadKey, ReadWallet, ReadTransaction,
     ReadEntries, LockWallet, MissWallet, Refuse, CreateFinancialTransaction,
     UpdateWallet, CreateLedgerEntry, CreateWallet, RefuseSecondWallet, RefuseRecord,
     Commit, CommitAcknowledged, Rollback, Retry
<1>3. CASE Server(q)
  BY <1>3 DEF Server, BackendGone
<1>4. CASE Failure(q)
  BY <1>4 DEF Failure, StatementFails, CommitFails, RollbackFails, Abandon
<1> QED
  BY <1>1, <1>2, <1>3, <1>4 DEF RequestStep

\* A request generates at most one ID, when it arrives, and gives it up for good
\* when it reads an earlier result.
LEMMA GeneratedAtArrival ==
    ASSUME TypeOK, NEW q \in Requests, ControlOf(q), ReplayOf(q), RequestStep(q),
           Generated(q)'
    PROVE  \/ Generated(q) /\ newID'[q] = newID[q] /\ (pc[q] = "done" => pc'[q] = "done")
           \/ /\ pc[q] = "idle" /\ UNCHANGED storeVars
              /\ \A w \in wallets : w.id # newID'[q]
              /\ \A r \in Requests : newID[r] # newID'[q]
<1> USE DEF TypeOK, RequestTypeOK, Generated, storeVars, requestVars, Goto, Answer, Fail
<1>1. CASE Arrive(q)
  BY <1>1 DEF Arrive, FreshIDs, ReplayOf
<1>2. CASE Proceed(q)
  <2>1. CASE ReadWallet(q) \/ ReadTransaction(q) \/ ReadEntries(q)
    <3>1. result[q] \in Result
      OBVIOUS
    <3>2. CASE ReadWallet(q) \/ ReadTransaction(q)
      BY <3>1, <3>2 DEF ReadWallet, ReadTransaction, Replayed, Result
    <3>3. CASE ReadEntries(q)
      BY <3>1, <3>3 DEF ReadEntries, Result
    <3> QED
      BY <2>1, <3>2, <3>3
  <2>2. CASE CreateLedgerEntry(q)
    <3>1. pc[q] = "entry" /\ UNCHANGED command
      BY <2>2 DEF CreateLedgerEntry
    <3> QED
      BY <3>1 DEF ControlOf, KindOK
  <2>3. CASE UNCHANGED <<command, newID, result>> /\ pc[q] # "done"
    BY <2>3
  <2> QED
    BY <1>2, <2>1, <2>2, <2>3 DEF Proceed, Begin, ReserveKey, LoseKey, ReadKey,
       LockWallet, MissWallet, Refuse, CreateFinancialTransaction, UpdateWallet,
       CreateWallet, RefuseSecondWallet, RefuseRecord, Commit, CommitAcknowledged,
       Rollback, Retry
<1>3. CASE Server(q)
  BY <1>3 DEF Server, ServerCommits, BackendGone
<1>4. CASE Failure(q)
  <2>1. CASE \E e \in {"40P01", "ErrDatabase"} : StatementFails(q, e)
    BY <2>1 DEF StatementFails, Replayed, InStatement, OnConnection, Running
  <2>2. CASE UNCHANGED <<command, newID, result>> /\ pc[q] # "done"
    BY <2>2
  <2> QED
    BY <1>4, <2>1, <2>2 DEF Failure, CommitFails, RollbackFails, Abandon, Running
<1> QED
  BY <1>1, <1>2, <1>3, <1>4 DEF RequestStep

LEMMA OwnWritten ==
    ASSUME TypeOK, NEW q \in Requests, ControlOf(q), SessionOf(q), LocksOf(q),
           RequestStep(q)
    PROVE  WrittenOf(q)'
<1> USE DEF TypeOK, RequestTypeOK, StoreTypeOK, storeVars, requestVars, tables
<1>t. tx[q] \in DatabaseTransaction
  OBVIOUS
<1>g. UNCHANGED <<command, newID, result>> => Generated(q)' = Generated(q)
  BY DEF Generated
<1>w. WrittenOf(q)
  BY DEF LocksOf
<1>n. ASSUME tx'[q].state \notin {"open", "committing"}, tx'[q].wallets = {}
      PROVE  WrittenOf(q)'
  BY <1>n DEF WrittenOf, Live
<1>s. ASSUME tx'[q].wallets = tx[q].wallets, tx'[q].locks = tx[q].locks,
             UNCHANGED <<rows, command, newID, result>>, Live(q)' => Live(q)
      PROVE  WrittenOf(q)'
  BY <1>s, <1>g, <1>w DEF WrittenOf
<1>a. ASSUME AbortTx(q)
      PROVE  WrittenOf(q)'
  BY <1>a, <1>n DEF AbortTx, NoTransaction
<1>1. CASE Arrive(q)
  BY <1>1, <1>n DEF Arrive, SessionOf, Live
<1>2. CASE Begin(q)
  <2>1. tx'[q].wallets = {} /\ tx'[q].locks = {} /\ rows'[q] = {}
    BY <1>2 DEF Begin, BeginTx, NoTransaction
  <2> QED
    BY <2>1 DEF WrittenOf
<1>3. CASE LoseKey(q) \/ ReadKey(q) \/ MissWallet(q) \/ Refuse(q) \/ Retry(q)
             \/ RollbackFails(q) \/ Abandon(q)
  BY <1>3, <1>s DEF LoseKey, ReadKey, MissWallet, Refuse, Retry, RollbackFails, Abandon,
     Live
<1>4. CASE ReadWallet(q) \/ ReadTransaction(q) \/ ReadEntries(q)
  <2>1. pc[q] \in {"readResource", "readEntries"} /\ UNCHANGED <<tx, rows>>
    BY <1>4 DEF ReadWallet, ReadTransaction, ReadEntries
  <2>2. tx[q].wallets = {} /\ Live(q)
    BY <2>1 DEF SessionOf, Fresh, NoTransaction, Live
  <2> QED
    BY <1>w, <2>1, <2>2 DEF WrittenOf, Live
<1>5. CASE \/ RefuseSecondWallet(q) \/ RefuseRecord(q) \/ CommitAcknowledged(q)
           \/ Rollback(q) \/ BackendGone(q)
           \/ \E e \in {"40P01", "ErrDatabase"} : StatementFails(q, e) \/ CommitFails(q, e)
  BY <1>5, <1>a DEF RefuseSecondWallet, RefuseRecord, CommitAcknowledged, Rollback,
     BackendGone, StatementFails, CommitFails
<1>6. CASE ReserveKey(q)
  BY <1>6, <1>t, <1>s DEF ReserveKey, InsertRecord, DatabaseTransaction, Live
<1>7. CASE CreateFinancialTransaction(q)
  BY <1>7, <1>t, <1>s DEF CreateFinancialTransaction, InsertTransaction,
     DatabaseTransaction, Live
<1>8. CASE Commit(q)
  BY <1>8, <1>t, <1>s DEF Commit, SendCommit, DatabaseTransaction, SessionOf, Live
<1>9. CASE CreateLedgerEntry(q)
  <2>1. PICK w \in rows[q] : InsertEntry(q, Entry(q, w))
    BY <1>9 DEF CreateLedgerEntry
  <2>2. /\ tx'[q].wallets = tx[q].wallets /\ tx'[q].locks = tx[q].locks
        /\ tx'[q].state = tx[q].state
    BY <1>t, <2>1 DEF InsertEntry, DatabaseTransaction
  <2>3. UNCHANGED <<rows, command, newID>> /\ pc[q] = "entry"
    BY <1>9 DEF CreateLedgerEntry
  <2>4. ~ Generated(q)
    BY <2>3 DEF ControlOf, KindOK, Generated
  <2> QED
    BY <1>w, <2>2, <2>3, <2>4 DEF WrittenOf, Live
<1>10. CASE LockWallet(q)
  <2>1. PICK w \in wallets : LockRow(q, w.id) /\ rows' = [rows EXCEPT ![q] = @ \cup {w}]
    BY <1>10 DEF LockWallet
  <2>2. /\ tx'[q].wallets = tx[q].wallets /\ tx'[q].locks = tx[q].locks \cup {w.id}
        /\ tx'[q].state = tx[q].state /\ rows'[q] = rows[q] \cup {w}
    BY <1>t, <2>1 DEF LockRow, DatabaseTransaction
  <2>3. UNCHANGED <<command, newID, result>>
    BY <1>10 DEF LockWallet
  <2> QED
    BY <1>w, <1>g, <2>2, <2>3 DEF WrittenOf, Live
<1>11. CASE UpdateWallet(q)
  <2>1. PICK w \in rows[q] : UpdateRow(q, Mutated(w, command[q]))
    BY <1>11 DEF UpdateWallet
  <2>2. /\ tx'[q].locks = tx[q].locks /\ tx'[q].state = tx[q].state
        /\ tx'[q].wallets \subseteq tx[q].wallets \cup {Mutated(w, command[q])}
    BY <1>t, <2>1 DEF UpdateRow, DatabaseTransaction
  <2>3. UNCHANGED <<rows, command, newID, result>> /\ Live(q)
    BY <1>11 DEF UpdateWallet, SessionOf, Live
  <2>4. Mutated(w, command[q]).id = w.id
    BY MutatedType
  <2>5. w.id \in tx[q].locks
    BY <1>w, <2>3 DEF WrittenOf
  <2> QED
    BY <1>w, <1>g, <2>2, <2>3, <2>4, <2>5 DEF WrittenOf, Live
<1>12. CASE CreateWallet(q)
  <2>1. /\ tx'[q].locks = tx[q].locks /\ tx'[q].state = tx[q].state
        /\ tx'[q].wallets = tx[q].wallets \cup {NewWallet(newID[q], command[q])}
    BY <1>12, <1>t DEF CreateWallet, InsertWallet, DatabaseTransaction
  <2>2. UNCHANGED <<rows, command, newID, result>> /\ pc[q] = "insertWallet"
    BY <1>12 DEF CreateWallet
  <2>3. Generated(q)
    BY <2>2, DomainAssumption DEF ControlOf, KindOK, LocksOf, ReplayOf, Generated
  <2>4. NewWallet(newID[q], command[q]).id = newID[q]
    BY DEF NewWallet
  <2> QED
    BY <1>w, <1>g, <2>1, <2>2, <2>3, <2>4 DEF WrittenOf, Live
<1>13. CASE ServerCommits(q)
  BY <1>13, <1>n DEF ServerCommits, ApplyCommit, NoTransaction
<1> QED
  BY <1>1, <1>2, <1>3, <1>4, <1>5, <1>6, <1>7, <1>8, <1>9, <1>10, <1>11, <1>12, <1>13
     DEF RequestStep, Proceed, Server, Failure

\* How a request's own step moves its session and the rows it has read.
LEMMA OwnProgress ==
    ASSUME TypeOK, NEW q \in Requests, SessionOf(q), RequestStep(q)
    PROVE  /\ tx[q].state = "committed" =>
                tx'[q].state = "committed" \/ (pc'[q] = "done" /\ ~ Live(q)')
           /\ pc[q] = "done" /\ Live(q)' => Live(q)
           /\ Live(q)' => \/ rows'[q] = {}
                          \/ Live(q) /\ rows'[q] \subseteq rows[q] \cup wallets
<1> USE DEF TypeOK, RequestTypeOK, StoreTypeOK, storeVars, requestVars, tables
<1> DEFINE G == /\ tx[q].state = "committed" =>
                     tx'[q].state = "committed" \/ (pc'[q] = "done" /\ ~ Live(q)')
                /\ pc[q] = "done" /\ Live(q)' => Live(q)
                /\ Live(q)' => \/ rows'[q] = {}
                               \/ Live(q) /\ rows'[q] \subseteq rows[q] \cup wallets
<1>t. tx[q] \in DatabaseTransaction
  OBVIOUS
<1>c. tx[q].state = "committed" => pc[q] \in {"committing", "done"}
  BY DEF SessionOf, Live, Fresh, NoTransaction, Labels
<1>n. ASSUME AbortTx(q), pc[q] \notin {"committing", "done"} \/ pc'[q] = "done"
      PROVE  G
  BY <1>n, <1>c DEF AbortTx, NoTransaction, Live
<1>s. ASSUME tx'[q].state = tx[q].state, UNCHANGED rows
      PROVE  G
  BY <1>s DEF Live
<1>1. CASE Begin(q)
  <2>1. rows'[q] = {} /\ pc[q] = "begin"
    BY <1>1 DEF Begin
  <2> QED
    BY <2>1, <1>c DEF Live
<1>2. CASE Arrive(q) \/ LoseKey(q) \/ ReadKey(q) \/ ReadWallet(q) \/ ReadTransaction(q)
             \/ ReadEntries(q) \/ MissWallet(q) \/ Refuse(q) \/ Retry(q)
             \/ RollbackFails(q) \/ Abandon(q)
  BY <1>2, <1>s DEF Arrive, LoseKey, ReadKey, ReadWallet, ReadTransaction, ReadEntries,
     MissWallet, Refuse, Retry, RollbackFails, Abandon
<1>3. CASE ReserveKey(q) \/ CreateFinancialTransaction(q) \/ CreateWallet(q)
  <2>1. CASE ReserveKey(q)
    BY <2>1, <1>t, <1>s DEF ReserveKey, InsertRecord, DatabaseTransaction
  <2>2. CASE CreateFinancialTransaction(q)
    BY <2>2, <1>t, <1>s DEF CreateFinancialTransaction, InsertTransaction,
       DatabaseTransaction
  <2>3. CASE CreateWallet(q)
    BY <2>3, <1>t, <1>s DEF CreateWallet, InsertWallet, DatabaseTransaction
  <2> QED
    BY <1>3, <2>1, <2>2, <2>3
<1>4. CASE UpdateWallet(q)
  <2>1. PICK w \in rows[q] : UpdateRow(q, Mutated(w, command[q])) /\ UNCHANGED rows
    BY <1>4 DEF UpdateWallet
  <2> QED
    BY <2>1, <1>t, <1>s DEF UpdateRow, DatabaseTransaction
<1>5. CASE CreateLedgerEntry(q)
  <2>1. PICK w \in rows[q] : InsertEntry(q, Entry(q, w)) /\ UNCHANGED rows
    BY <1>5 DEF CreateLedgerEntry
  <2> QED
    BY <2>1, <1>t, <1>s DEF InsertEntry, DatabaseTransaction
<1>6. CASE LockWallet(q)
  <2>1. PICK w \in wallets : LockRow(q, w.id) /\ rows' = [rows EXCEPT ![q] = @ \cup {w}]
    BY <1>6 DEF LockWallet
  <2>2. tx'[q].state = tx[q].state
    BY <1>t, <2>1 DEF LockRow, DatabaseTransaction
  <2>3. rows'[q] \subseteq rows[q] \cup wallets
    BY <2>1
  <2> QED
    BY <2>2, <2>3 DEF Live
<1>7. CASE Commit(q)
  <2>1. tx'[q].state = "committing" /\ UNCHANGED rows /\ pc[q] = "commit"
    BY <1>7, <1>t DEF Commit, SendCommit, DatabaseTransaction
  <2>2. tx[q].state = "open"
    BY <2>1 DEF SessionOf
  <2> QED
    BY <2>1, <2>2 DEF Live
<1>8. CASE \/ RefuseSecondWallet(q) \/ RefuseRecord(q) \/ CommitAcknowledged(q)
           \/ Rollback(q) \/ BackendGone(q)
  BY <1>8, <1>n DEF RefuseSecondWallet, RefuseRecord, CommitAcknowledged, Rollback,
     BackendGone, Answer, Goto
<1>9. CASE \E e \in {"40P01", "ErrDatabase"} : StatementFails(q, e)
  BY <1>9, <1>n DEF StatementFails, InStatement, OnConnection, Running
<1>10. CASE \E e \in {"40P01", "ErrDatabase"} : CommitFails(q, e)
  BY <1>10 DEF CommitFails, AbortTx, NoTransaction, Live
<1>11. CASE ServerCommits(q)
  BY <1>11 DEF ServerCommits, ApplyCommit, Live
<1> QED
  BY <1>1, <1>2, <1>3, <1>4, <1>5, <1>6, <1>7, <1>8, <1>9, <1>10, <1>11
     DEF RequestStep, Proceed, Server, Failure

LEMMA OwnCommitted ==
    ASSUME TypeOK, NEW q \in Requests, ControlOf(q), SessionOf(q), LocksOf(q),
           RequestStep(q)
    PROVE  CommittedOf(q)'
<1>1. CASE ServerCommits(q)
  <2>1. tx'[q].state = "committed"
    BY <1>1 DEF ServerCommits, ApplyCommit, TypeOK, StoreTypeOK
  <2> QED
    BY <2>1 DEF CommittedOf, Live
<1>2. CASE UNCHANGED wallets
  <2>1. Live(q)' => rows'[q] \subseteq wallets'
    BY <1>2, OwnProgress DEF LocksOf, CommittedOf
  <2>2. ASSUME Generated(q)', tx'[q].state # "committed", pc'[q] # "done" \/ Live(q)',
               NEW w \in wallets
        PROVE  w.id # newID'[q]
    <3>1. CASE Generated(q) /\ newID'[q] = newID[q] /\ (pc[q] = "done" => pc'[q] = "done")
      BY <2>2, <3>1, OwnProgress DEF LocksOf, CommittedOf
    <3>2. CASE \A v \in wallets : v.id # newID'[q]
      BY <3>2
    <3> QED
      BY <2>2, <3>1, <3>2, GeneratedAtArrival DEF LocksOf
  <2> QED
    BY <1>2, <2>1, <2>2 DEF CommittedOf
<1> QED
  BY <1>1, <1>2, OnlyCommitsChangeWallets

\* A lock is only taken when nobody holds it.
LEMMA LocksTaken ==
    ASSUME TypeOK, NEW q \in Requests, RequestStep(q), NEW id \in tx'[q].locks
    PROVE  id \in tx[q].locks \/ \A r \in Requests \ {q} : id \notin tx[r].locks
<1> USE DEF TypeOK, RequestTypeOK, StoreTypeOK, storeVars, requestVars, tables
<1>t. tx[q] \in DatabaseTransaction
  OBVIOUS
<1>1. CASE tx'[q].locks = {} \/ tx'[q].locks = tx[q].locks
  BY <1>1
<1>2. CASE Begin(q) \/ Server(q) \/ Failure(q) \/ RefuseSecondWallet(q) \/ RefuseRecord(q)
             \/ CommitAcknowledged(q) \/ Rollback(q)
  BY <1>1, <1>2 DEF Begin, Server, ServerCommits, BackendGone, Failure, StatementFails,
     CommitFails, RollbackFails, Abandon, RefuseSecondWallet, RefuseRecord,
     CommitAcknowledged, Rollback, BeginTx, AbortTx, ApplyCommit, NoTransaction
<1>3. CASE Arrive(q) \/ LoseKey(q) \/ ReadKey(q) \/ ReadWallet(q) \/ ReadTransaction(q)
             \/ ReadEntries(q) \/ MissWallet(q) \/ Refuse(q) \/ Retry(q)
  BY <1>1, <1>3 DEF Arrive, LoseKey, ReadKey, ReadWallet, ReadTransaction, ReadEntries,
     MissWallet, Refuse, Retry
<1>4. CASE ReserveKey(q)
  BY <1>1, <1>4, <1>t DEF ReserveKey, InsertRecord, DatabaseTransaction
<1>5. CASE CreateFinancialTransaction(q)
  BY <1>1, <1>5, <1>t DEF CreateFinancialTransaction, InsertTransaction,
     DatabaseTransaction
<1>6. CASE CreateWallet(q)
  BY <1>1, <1>6, <1>t DEF CreateWallet, InsertWallet, DatabaseTransaction
<1>7. CASE Commit(q)
  BY <1>1, <1>7, <1>t DEF Commit, SendCommit, DatabaseTransaction
<1>8. CASE UpdateWallet(q)
  <2>1. PICK w \in rows[q] : UpdateRow(q, Mutated(w, command[q]))
    BY <1>8 DEF UpdateWallet
  <2> QED
    BY <1>1, <1>t, <2>1 DEF UpdateRow, DatabaseTransaction
<1>9. CASE CreateLedgerEntry(q)
  <2>1. PICK w \in rows[q] : InsertEntry(q, Entry(q, w))
    BY <1>9 DEF CreateLedgerEntry
  <2> QED
    BY <1>1, <1>t, <2>1 DEF InsertEntry, DatabaseTransaction
<1>10. CASE LockWallet(q)
  <2>1. PICK w \in wallets : RowHolders(q, w.id) = {} /\ LockRow(q, w.id)
    BY <1>10 DEF LockWallet
  <2>2. tx'[q].locks = tx[q].locks \cup {w.id}
    BY <1>t, <2>1 DEF LockRow, DatabaseTransaction
  <2> QED
    BY <2>1, <2>2 DEF RowHolders
<1> QED
  BY <1>2, <1>3, <1>4, <1>5, <1>6, <1>7, <1>8, <1>9, <1>10 DEF RequestStep, Proceed

LEMMA ApartStep ==
    ASSUME TypeOK, NEW q \in Requests, ControlOf(q), LocksOf(q), RequestStep(q),
           NEW r \in Requests \ {q}, Apart(q, r)
    PROVE  Apart(q, r)'
<1>1. tx'[r] = tx[r] /\ newID'[r] = newID[r] /\ Generated(r)' = Generated(r)
  BY OthersUnchanged DEF Local, Generated
<1>2. tx'[q].locks \cap tx'[r].locks = {}
  BY <1>1, LocksTaken DEF Apart
<1>3. Generated(q)' /\ Generated(r)' => newID'[q] # newID'[r]
  BY <1>1, GeneratedAtArrival DEF Apart, LocksOf
<1> QED
  BY <1>2, <1>3 DEF Apart

\* The commit of one request leaves what another has read as it was.
LEMMA OtherLocks ==
    ASSUME TypeOK, LocksOK, NEW q \in Requests, RequestStep(q),
           NEW r \in Requests \ {q}
    PROVE  LocksOf(r)'
<1>1. Local(r)' = Local(r)
  BY OthersUnchanged
<1>2. KeyTaken(r) => KeyTaken(r)'
  BY <1>1, IdempotencyGrows, KeyStaysTaken DEF Local
<1>3. ReplayOf(r)' /\ WrittenOf(r)'
  BY <1>1, <1>2 DEF LocksOK, LocksOf, ReplayOf, WrittenOf, Generated, Live, Local
<1>4. CASE UNCHANGED wallets
  BY <1>1, <1>3, <1>4 DEF LocksOK, LocksOf, CommittedOf, Generated, Live, Local
<1>5. CASE ServerCommits(q)
  <2>1. /\ Live(q) /\ tx[q].state # "committed"
        /\ wallets' = {w \in wallets : \A new \in tx[q].wallets : new.id # w.id}
                        \cup tx[q].wallets
    BY <1>5 DEF ServerCommits, ApplyCommit, Live
  <2>2. ASSUME NEW new \in tx[q].wallets
        PROVE  \/ new.id \in tx[q].locks /\ \E w \in wallets : w.id = new.id
               \/ /\ Generated(q) /\ new.id = newID[q]
                  /\ \A w \in wallets : w.id # new.id
    BY <2>1 DEF LocksOK, LocksOf, WrittenOf, CommittedOf
  <2>3. Apart(q, r)
    BY DEF LocksOK
  <2>4. ASSUME Live(r), NEW w \in rows[r]
        PROVE  w \in wallets'
    <3>1. w \in wallets /\ w.id \in tx[r].locks
      BY <2>4 DEF LocksOK, LocksOf, WrittenOf, CommittedOf
    <3> QED
      BY <2>1, <2>2, <2>3, <3>1 DEF Apart
  <2>5. ASSUME Generated(r), \A w \in wallets : w.id # newID[r], NEW v \in wallets'
        PROVE  v.id # newID[r]
    BY <2>1, <2>2, <2>3, <2>5 DEF Apart
  <2>6. CommittedOf(r)'
    BY <1>1, <2>4, <2>5 DEF LocksOK, LocksOf, CommittedOf, Generated, Live, Local
  <2> QED
    BY <1>3, <2>6 DEF LocksOf
<1> QED
  BY <1>4, <1>5, OnlyCommitsChangeWallets

LEMMA InitLocks == Init => LocksOK
<1> SUFFICES ASSUME Init PROVE LocksOK
  OBVIOUS
<1>1. ASSUME NEW r \in Requests
      PROVE  /\ pc[r] = "idle" /\ tx[r] = NoTransaction /\ newID[r] = NoID
             /\ ~ result[r].replayed
  BY <1>1 DEF Init, NoResult
<1> QED
  BY <1>1 DEF LocksOK, LocksOf, ReplayOf, WrittenOf, CommittedOf, Apart, Generated, Live,
     NoTransaction

LEMMA OperatorLocks ==
    ASSUME TypeOK, LocksOK, Operator
    PROVE  LocksOK'
<1>1. PICK w \in wallets, status \in OperatorStatuses : OperatorSetsStatus(w, status)
  BY DEF Operator
<1>2. UNCHANGED <<transactions, ledger, idempotency, nextSequence, tx, requestVars>>
  BY <1>1 DEF OperatorSetsStatus
<1>3. [w EXCEPT !.status = status].id = w.id
  BY DEF TypeOK, StoreTypeOK, Wallet
<1>4. wallets' = (wallets \ {w}) \cup {[w EXCEPT !.status = status]}
  BY <1>1 DEF OperatorSetsStatus
<1>5. ASSUME NEW r \in Requests
      PROVE  ReplayOf(r)' /\ WrittenOf(r)'
  BY <1>2 DEF LocksOK, LocksOf, ReplayOf, WrittenOf, Generated, Live, requestVars,
     KeyTaken, SameKey, Record
<1>6. ASSUME NEW r \in Requests, Live(r), NEW v \in rows[r]
      PROVE  v \in wallets'
  <2>1. v \in wallets /\ v.id \in tx[r].locks
    BY <1>6 DEF LocksOK, LocksOf, WrittenOf, CommittedOf
  <2>2. w.id \notin tx[r].locks
    BY <1>1 DEF OperatorSetsStatus
  <2> QED
    BY <1>4, <2>1, <2>2
<1>7. ASSUME NEW r \in Requests
      PROVE  CommittedOf(r)'
  BY <1>2, <1>3, <1>4, <1>6 DEF LocksOK, LocksOf, CommittedOf, Generated, Live,
     requestVars
<1>8. ASSUME NEW r \in Requests, NEW q \in Requests, r # q
      PROVE  Apart(r, q)'
  BY <1>2, <1>8 DEF LocksOK, Apart, Generated, requestVars
<1> QED
  BY <1>5, <1>7, <1>8 DEF LocksOK, LocksOf

LEMMA LocksStep ==
    ASSUME TypeOK, ControlOK, SessionsOK, LocksOK, [Next]_vars
    PROVE  LocksOK'
<1>1. CASE \E q \in Requests : RequestStep(q)
  <2>1. PICK q \in Requests : RequestStep(q)
    BY <1>1
  <2>2. ControlOf(q) /\ SessionOf(q) /\ LocksOf(q)
    BY DEF ControlOK, SessionsOK, LocksOK
  <2>3. LocksOf(q)'
    BY <2>1, <2>2, OwnReplay, OwnWritten, OwnCommitted DEF LocksOf
  <2>4. ASSUME NEW r \in Requests \ {q}
        PROVE  Apart(q, r)' /\ Apart(r, q)'
    <3>1. Apart(q, r)'
      BY <2>1, <2>2, ApartStep DEF LocksOK
    <3> QED
      BY <3>1 DEF Apart
  <2>5. ASSUME NEW r \in Requests \ {q}, NEW s \in Requests \ {q}, r # s
        PROVE  Apart(r, s)'
    <3>1. Local(r)' = Local(r) /\ Local(s)' = Local(s) /\ Apart(r, s)
      BY <2>1, <2>5, OthersUnchanged DEF LocksOK
    <3> QED
      BY <3>1 DEF Apart, Generated, Local
  <2>6. \A r \in Requests : LocksOf(r)'
    BY <2>1, <2>3, OtherLocks
  <2> QED
    BY <2>4, <2>5, <2>6 DEF LocksOK
<1>2. CASE Operator
  BY <1>2, OperatorLocks
<1>3. CASE UNCHANGED vars
  BY <1>3 DEF vars, storeVars, requestVars, LocksOK, LocksOf, ReplayOf, WrittenOf,
     CommittedOf, Apart, Generated, Live, KeyTaken, SameKey, Record
<1> QED
  BY <1>1, <1>2, <1>3, NextSplit

\* The wallets a transaction has read FOR UPDATE are the committed rows until it
\* ends, and locked by it alone: lockWallets, and the whole-row UPDATE that writes
\* them back, lose no update whatever other requests, failures and operators do.
THEOREM RowsStayCurrent == Spec => []RowsCurrent
<1>1. LocksOK => RowsCurrent
  BY DEF LocksOK, LocksOf, WrittenOf, CommittedOf, Apart, RowsCurrent
<1>2. TypeOK /\ ControlOK /\ SessionsOK /\ LocksOK /\ [Next]_vars => (SessionsOK /\ LocksOK)'
  BY SessionStep, LocksStep
<1>3. Init => SessionsOK /\ LocksOK
  BY InitSessions, InitLocks
<1> QED
  BY <1>1, <1>2, <1>3, TypeCorrect, PTL DEF Spec

-----------------------------------------------------------------------------
(* Waiting in a circle                                                     *)

\* A goroutine that may have to wait for a row or an owner has changed no wallet,
\* and the rows it has locked come before those it has still to lock.
WaitingOf(r) ==
    /\ pc[r] \in {"lock", "insertWallet"} => tx[r].wallets = {}
    /\ pc[r] = "lock" =>
         \A held \in tx[r].locks, left \in Participants(command[r]) \ tx[r].locks :
             held < left

WaitingOK == \A r \in Requests : WaitingOf(r)

LEMMA ParticipantsInOrder ==
    ASSUME TypeOK, NEW r \in Requests
    PROVE  Participants(command[r]) \subseteq WalletIDs /\ WalletIDs \subseteq Int
<1>1. command[r] \in Command
  BY DEF TypeOK, RequestTypeOK
<1> QED
  BY <1>1, DomainAssumption DEF Participants, Command

LEMMA OwnWaiting ==
    ASSUME TypeOK, NEW q \in Requests, SessionOf(q), WaitingOf(q), RequestStep(q)
    PROVE  WaitingOf(q)'
<1> USE DEF TypeOK, RequestTypeOK, StoreTypeOK, storeVars, requestVars, Goto, Answer,
        Fail
<1>t. tx[q] \in DatabaseTransaction
  OBVIOUS
<1>1. CASE ReserveKey(q)
  <2>1. tx[q] = Fresh /\ tx'[q] = [tx[q] EXCEPT !.records = @ \cup {Record(q)}]
    BY <1>1 DEF ReserveKey, InsertRecord, SessionOf
  <2>2. tx'[q].wallets = {} /\ tx'[q].locks = {}
    BY <2>1 DEF Fresh, NoTransaction
  <2> QED
    BY <2>2 DEF WaitingOf
<1>2. CASE LockWallet(q)
  <2>1. PICK w \in wallets : NextLock(q, w.id) /\ LockRow(q, w.id)
    BY <1>2 DEF LockWallet
  <2>2. pc[q] = "lock" /\ UNCHANGED command
    BY <1>2 DEF LockWallet
  <2>3. tx'[q].wallets = tx[q].wallets /\ tx'[q].locks = tx[q].locks \cup {w.id}
    BY <1>t, <2>1 DEF LockRow, DatabaseTransaction
  <2>4. Participants(command[q]) \subseteq Int
    BY ParticipantsInOrder
  <2>5. w.id \in Participants(command[q])
        /\ \A other \in Participants(command[q]) \ tx[q].locks : w.id <= other
    BY <2>1 DEF NextLock
  <2>6. ASSUME NEW held \in tx[q].locks \cup {w.id},
               NEW left \in Participants(command[q]) \ (tx[q].locks \cup {w.id})
        PROVE  held < left
    BY <2>2, <2>4, <2>5, <2>6 DEF WaitingOf
  <2> QED
    BY <2>2, <2>3, <2>6 DEF WaitingOf
<1>3. CASE UNCHANGED <<pc, command>> /\ tx'[q] = tx[q]
  BY <1>3 DEF WaitingOf
<1>4. CASE pc'[q] \notin {"lock", "insertWallet"}
  BY <1>4 DEF WaitingOf
<1>5. CASE Arrive(q) \/ Begin(q) \/ LoseKey(q) \/ ReadKey(q) \/ ReadWallet(q)
             \/ ReadTransaction(q) \/ ReadEntries(q) \/ MissWallet(q) \/ Refuse(q)
             \/ RefuseSecondWallet(q) \/ RefuseRecord(q) \/ CommitAcknowledged(q)
             \/ Retry(q)
  BY <1>4, <1>5 DEF Arrive, Begin, LoseKey, ReadKey, ReadWallet, ReadTransaction,
     ReadEntries, MissWallet, Refuse, RefuseSecondWallet, RefuseRecord,
     CommitAcknowledged, Retry
<1>6. CASE CreateFinancialTransaction(q) \/ UpdateWallet(q) \/ CreateLedgerEntry(q)
             \/ CreateWallet(q) \/ Commit(q)
  BY <1>4, <1>6 DEF CreateFinancialTransaction, UpdateWallet, CreateLedgerEntry,
     CreateWallet, Commit
<1>7. CASE Rollback(q)
  BY <1>4, <1>7 DEF Rollback, Conclude
<1>8. CASE Failure(q)
  BY <1>4, <1>8 DEF Failure, StatementFails, CommitFails, RollbackFails, Abandon, Conclude
<1>9. CASE Server(q)
  BY <1>4, <1>9 DEF Server, ServerCommits, BackendGone, SessionOf
<1> QED
  BY <1>1, <1>2, <1>5, <1>6, <1>7, <1>8, <1>9 DEF RequestStep, Proceed

LEMMA WaitingStep ==
    ASSUME TypeOK, SessionsOK, WaitingOK, [Next]_vars
    PROVE  WaitingOK'
<1>1. CASE \E q \in Requests : RequestStep(q)
  <2>1. PICK q \in Requests : RequestStep(q)
    BY <1>1
  <2>2. WaitingOf(q)'
    BY <2>1, OwnWaiting DEF SessionsOK, WaitingOK
  <2>3. ASSUME NEW r \in Requests \ {q}  PROVE WaitingOf(r)'
    BY <2>1, OthersUnchanged DEF Local, WaitingOK, WaitingOf
  <2> QED
    BY <2>2, <2>3 DEF WaitingOK
<1>2. CASE Operator \/ UNCHANGED vars
  BY <1>2 DEF Operator, OperatorSetsStatus, vars, storeVars, requestVars, WaitingOK,
     WaitingOf
<1> QED
  BY <1>1, <1>2, NextSplit

\* A request that waits and is waited for holds its key, or rows besides.
LEMMA HeldWhileWaiting ==
    ASSUME SessionsOK, WaitingOK, NEW r \in Requests, NEW q \in Blockers(r),
           Blockers(q) # {}
    PROVE  /\ q \in Requests
           /\ pc[r] \in {"begin", "reserve", "lock"}
           /\ pc[r] = "begin" => pc[q] # "begin"
           /\ pc[r] = "reserve" => pc[q] \in {"lock", "insertWallet"}
           /\ pc[r] = "lock" => pc[q] \in {"lock", "insertWallet"}
<1>1. q \in Requests /\ pc[q] \in {"begin", "reserve", "insertWallet", "lock"}
  BY DEF Blockers, RecordHolders, OwnerHolders, RowHolders
<1>2. tx[q].wallets = {}
  BY <1>1 DEF SessionsOK, SessionOf, WaitingOK, WaitingOf, Fresh, NoTransaction, Live
<1>3. pc[q] \in {"begin", "reserve"} => tx[q].records = {} /\ tx[q].locks = {}
  BY <1>1 DEF SessionsOK, SessionOf, Fresh, NoTransaction, Live
<1>4. pc[r] \in {"begin", "reserve", "insertWallet", "lock"}
  BY DEF Blockers
<1>5. pc[r] = "begin" => pc[q] # "begin"
  BY DEF Blockers, OnConnection
<1>6. pc[r] = "reserve" => tx[q].records # {}
  BY DEF Blockers, RecordHolders
<1>7. pc[r] # "insertWallet"
  BY <1>2 DEF Blockers, OwnerHolders
<1>8. pc[r] = "lock" => tx[q].locks # {}
  BY DEF Blockers, RowHolders
<1> QED
  BY <1>1, <1>3, <1>4, <1>5, <1>6, <1>7, <1>8

LEMMA NextIsLeast ==
    ASSUME TypeOK, NEW r \in Requests, NEW i, NextLock(r, i)
    PROVE  /\ i \in WalletIDs /\ i \in Int /\ i \in Participants(command[r]) \ tx[r].locks
           /\ \A j : NextLock(r, j) => i = j
<1>1. Participants(command[r]) \subseteq WalletIDs /\ WalletIDs \subseteq Int
  BY ParticipantsInOrder
<1>2. i \in Participants(command[r]) \ tx[r].locks
  BY DEF NextLock
<1>3. ASSUME NEW j, NextLock(r, j)
      PROVE  i = j
  <2>1. j \in Participants(command[r]) \ tx[r].locks /\ i <= j /\ j <= i
    BY <1>2, <1>3 DEF NextLock
  <2>2. i \in Int /\ j \in Int
    BY <1>1, <1>2, <2>1
  <2> QED
    BY <2>1, <2>2
<1> QED
  BY <1>1, <1>2, <1>3

\* Rows are locked in the order of their IDs, so among requests that wait for rows
\* the one that waits for the greatest waits for nobody of them.
LEMMA WaitingEnds ==
    ASSUME TypeOK, SessionsOK, WaitingOK, IsFiniteSet(Requests)
    PROVE  NoWaitCycle
<1> SUFFICES ASSUME NEW S \in SUBSET Requests, S # {},
                    \A r \in S : Blockers(r) \cap S # {}
             PROVE  FALSE
  BY DEF NoWaitCycle
<1> DEFINE W == {r \in S : pc[r] = "lock"}
<1>1. \A r \in S : \E q \in S : q \in Blockers(r) /\ Blockers(q) # {}
  OBVIOUS
<1>2. \A r \in S : pc[r] \in {"begin", "reserve", "lock"}
  BY <1>1, HeldWhileWaiting
<1>3. W # {}
  <2>1. PICK r \in S : TRUE
    OBVIOUS
  <2>2. PICK q \in S : q \in Blockers(r) /\ Blockers(q) # {}
    BY <1>1
  <2>3. PICK p \in S : p \in Blockers(q) /\ Blockers(p) # {}
    BY <1>1
  <2>4. "lock" \in {pc[r], pc[q], pc[p]}
    BY <1>2, <2>2, <2>3, HeldWhileWaiting
  <2> QED
    BY <2>4
<1>4. ASSUME NEW r \in W
      PROVE  \E q \in W, i, j \in WalletIDs : NextLock(r, i) /\ NextLock(q, j) /\ i < j
  <2>1. PICK q \in S : q \in Blockers(r) /\ Blockers(q) # {}
    BY <1>1
  <2>2. q \in W
    BY <1>2, <2>1, HeldWhileWaiting
  <2>3. PICK i \in WalletIDs : NextLock(r, i) /\ i \in tx[q].locks
    BY <2>1 DEF Blockers, RowHolders
  <2>4. PICK j \in WalletIDs : NextLock(q, j)
    BY <2>1, <2>2 DEF Blockers
  <2>5. i < j
    BY <2>2, <2>3, <2>4, NextIsLeast DEF WaitingOK, WaitingOf
  <2> QED
    BY <2>2, <2>3, <2>4, <2>5
<1> DEFINE Above(r) == {q \in W : \E i, j \in WalletIDs :
                                    NextLock(r, i) /\ NextLock(q, j) /\ i < j}
<1>5. ASSUME NEW r \in W
      PROVE  \E q \in W : <<Above(q), Above(r)>> \in StrictSubsetOrdering(Requests)
  <2>1. PICK q \in W, i, j \in WalletIDs : NextLock(r, i) /\ NextLock(q, j) /\ i < j
    BY <1>4
  <2>2. q \in Above(r) /\ q \notin Above(q)
    BY <2>1, NextIsLeast
  <2>3. Above(q) \subseteq Above(r)
    <3>1. SUFFICES ASSUME NEW p \in W, NEW k \in WalletIDs, NEW l \in WalletIDs,
                          NextLock(q, k), NextLock(p, l), k < l
                   PROVE  i < l
      BY <2>1
    <3> QED
      BY <2>1, <3>1, NextIsLeast
  <2> QED
    BY <2>2, <2>3 DEF StrictSubsetOrdering
<1> DEFINE T == {Above(r) : r \in W}
<1>6. T \subseteq FiniteSubsetsOf(Requests) /\ T # {}
  <2>1. FiniteSubsetsOf(Requests) = SUBSET Requests
    BY FS_FiniteSubsetsOfFinite
  <2>2. \A r \in W : Above(r) \subseteq Requests
    OBVIOUS
  <2> HIDE DEF Above, W
  <2> QED
    BY <1>3, <2>1, <2>2
<1>7. \E x \in T : \A y \in T : <<y, x>> \notin StrictSubsetOrdering(Requests)
  <2> HIDE DEF T
  <2> QED
    BY <1>6, FS_StrictSubsetOrderingWellFounded, WFMin
<1> QED
  BY <1>5, <1>7

\* Requests never wait in a circle for rows, keys, owners or connections of the
\* pool, whatever wallets their commands name and however many there are: rows are
\* locked in the order of their IDs, after the key and before any wallet is written.
THEOREM NobodyWaitsForHimself ==
    ASSUME IsFiniteSet(Requests)
    PROVE  Spec => []NoWaitCycle
<1>1. TypeOK /\ SessionsOK /\ WaitingOK => NoWaitCycle
  BY WaitingEnds
<1>2. TypeOK /\ SessionsOK /\ WaitingOK /\ [Next]_vars => (SessionsOK /\ WaitingOK)'
  BY SessionStep, WaitingStep
<1>3. Init => WaitingOK
  BY DEF Init, WaitingOK, WaitingOf
<1> QED
  BY <1>1, <1>2, <1>3, InitSessions, TypeCorrect, PTL DEF Spec

-----------------------------------------------------------------------------
(* The inductive strengthening of AtMostOncePerKey                         *)

\* r moves money only while it holds its key, and once.
KeyOf(r) ==
    /\ pc[r] \in {"lock", "post", "update", "entry"} => tx[r].records # {}
    /\ pc[r] \in {"lock", "post"} => tx[r].transactions = {}
    /\ \A rec \in tx[r].records : rec.scope = command[r].owner /\ rec.key = command[r].key
    /\ tx[r].transactions # {} => tx[r].records # {}
    /\ \A t, u \in tx[r].transactions : t = u /\ t.id = r

\* A key that is not committed belongs to one request.
KeyFree(r) == \A rec \in tx[r].records, old \in idempotency : ~ SameKey(rec, old)

KeysApart(r, q) ==
    \A mine \in tx[r].records, other \in tx[q].records : ~ SameKey(mine, other)

\* A committed transaction has its key committed with it.
PostedKeysTaken == \A t \in transactions : pc[t.id] # "idle" /\ KeyTaken(t.id)

KeysOK ==
    /\ \A r \in Requests : KeyOf(r) /\ KeyFree(r)
    /\ \A r, q \in Requests : r # q => KeysApart(r, q)
    /\ PostedKeysTaken
    /\ AtMostOncePerKey

-----------------------------------------------------------------------------
(* The request that makes the step                                         *)

LEMMA OwnKey ==
    ASSUME TypeOK, NEW q \in Requests, SessionOf(q), KeyOf(q), RequestStep(q)
    PROVE  KeyOf(q)'
<1> USE DEF TypeOK, RequestTypeOK, StoreTypeOK, storeVars, requestVars, tables, Goto,
        Answer, Fail
<1>t. tx[q] \in DatabaseTransaction
  OBVIOUS
<1>n. ASSUME tx'[q].records = {}, tx'[q].transactions = {},
             pc'[q] \notin {"lock", "post", "update", "entry"}
      PROVE  KeyOf(q)'
  BY <1>n DEF KeyOf
<1>s. ASSUME tx'[q].records = tx[q].records, tx'[q].transactions = tx[q].transactions,
             command'[q] = command[q],
             pc'[q] \in {"lock", "post"} => pc[q] = "lock",
             pc'[q] \in {"update", "entry"} => pc[q] \in {"update", "entry"}
      PROVE  KeyOf(q)'
  BY <1>s DEF KeyOf
<1>a. ASSUME AbortTx(q), pc'[q] \notin {"lock", "post", "update", "entry"}
      PROVE  KeyOf(q)'
  BY <1>a, <1>n DEF AbortTx, NoTransaction
<1>c. ASSUME NEW e, Conclude(q, e)
      PROVE  pc'[q] \in {"backoff", "done"}
  BY <1>c DEF Conclude
<1>1. CASE Arrive(q)
  <2>1. tx'[q].records = {} /\ tx'[q].transactions = {}
    BY <1>1 DEF Arrive, SessionOf, Live
  <2>2. pc'[q] \in {"begin", "done"}
    BY <1>1 DEF Arrive
  <2> QED
    BY <1>n, <2>1, <2>2
<1>2. CASE Begin(q)
  BY <1>2, <1>n DEF Begin, BeginTx, NoTransaction
<1>3. CASE LoseKey(q) \/ ReadKey(q) \/ ReadWallet(q) \/ ReadTransaction(q)
             \/ ReadEntries(q) \/ MissWallet(q) \/ Refuse(q) \/ Retry(q)
  BY <1>3, <1>s DEF LoseKey, ReadKey, ReadWallet, ReadTransaction, ReadEntries,
     MissWallet, Refuse, Retry
<1>4. CASE RollbackFails(q) \/ Abandon(q)
  BY <1>4, <1>s, <1>c DEF RollbackFails, Abandon
<1>5. CASE \/ RefuseSecondWallet(q) \/ RefuseRecord(q) \/ CommitAcknowledged(q)
           \/ Rollback(q)
           \/ \E e \in {"40P01", "ErrDatabase"} : StatementFails(q, e) \/ CommitFails(q, e)
  BY <1>5, <1>a, <1>c DEF RefuseSecondWallet, RefuseRecord, CommitAcknowledged, Rollback,
     StatementFails, CommitFails
<1>6. CASE BackendGone(q)
  BY <1>6, <1>a DEF BackendGone
<1>7. CASE ReserveKey(q)
  <2>1. /\ tx'[q].records = tx[q].records \cup {Record(q)}
        /\ tx'[q].transactions = tx[q].transactions
    BY <1>7, <1>t DEF ReserveKey, InsertRecord, DatabaseTransaction
  <2>2. tx[q].records = {} /\ tx[q].transactions = {}
    BY <1>7 DEF ReserveKey, SessionOf, Fresh, NoTransaction
  <2>3. pc'[q] \in {"lock", "insertWallet"} /\ UNCHANGED command
    BY <1>7 DEF ReserveKey
  <2> QED
    BY <2>1, <2>2, <2>3 DEF KeyOf, Record
<1>8. CASE LockWallet(q)
  <2>1. PICK w \in wallets : LockRow(q, w.id)
    BY <1>8 DEF LockWallet
  <2>2. /\ tx'[q].records = tx[q].records /\ tx'[q].transactions = tx[q].transactions
    BY <1>t, <2>1 DEF LockRow, DatabaseTransaction
  <2>3. pc[q] = "lock" /\ pc'[q] \in {"lock", "post"} /\ UNCHANGED command
    BY <1>8 DEF LockWallet
  <2> QED
    BY <1>s, <2>2, <2>3
<1>9. CASE CreateFinancialTransaction(q)
  <2>1. PICK t : InsertTransaction(q, t) /\ t.id = q
    BY <1>9 DEF CreateFinancialTransaction
  <2>2. /\ tx'[q].records = tx[q].records
        /\ tx'[q].transactions = tx[q].transactions \cup {t}
    BY <1>t, <2>1 DEF InsertTransaction, DatabaseTransaction
  <2>3. pc[q] = "post" /\ pc'[q] = "update" /\ UNCHANGED command
    BY <1>9 DEF CreateFinancialTransaction
  <2> QED
    BY <2>1, <2>2, <2>3 DEF KeyOf
<1>10. CASE UpdateWallet(q)
  <2>1. PICK w \in rows[q] : UpdateRow(q, Mutated(w, command[q]))
    BY <1>10 DEF UpdateWallet
  <2>2. /\ tx'[q].records = tx[q].records /\ tx'[q].transactions = tx[q].transactions
    BY <1>t, <2>1 DEF UpdateRow, DatabaseTransaction
  <2>3. pc[q] = "update" /\ pc'[q] \in {"update", "entry"} /\ UNCHANGED command
    BY <1>10 DEF UpdateWallet
  <2> QED
    BY <1>s, <2>2, <2>3
<1>11. CASE CreateLedgerEntry(q)
  <2>1. PICK w \in rows[q] : InsertEntry(q, Entry(q, w))
    BY <1>11 DEF CreateLedgerEntry
  <2>2. /\ tx'[q].records = tx[q].records /\ tx'[q].transactions = tx[q].transactions
    BY <1>t, <2>1 DEF InsertEntry, DatabaseTransaction
  <2>3. pc[q] = "entry" /\ pc'[q] \in {"entry", "commit"} /\ UNCHANGED command
    BY <1>11 DEF CreateLedgerEntry
  <2> QED
    BY <1>s, <2>2, <2>3
<1>12. CASE CreateWallet(q)
  BY <1>12, <1>t, <1>s DEF CreateWallet, InsertWallet, DatabaseTransaction
<1>13. CASE Commit(q)
  BY <1>13, <1>t, <1>s DEF Commit, SendCommit, DatabaseTransaction
<1>14. CASE ServerCommits(q)
  <2>1. tx'[q].records = {} /\ tx'[q].transactions = {}
    BY <1>14 DEF ServerCommits, ApplyCommit, NoTransaction
  <2>2. tx[q].state = "committing" /\ UNCHANGED pc
    BY <1>14 DEF ServerCommits
  <2>3. pc'[q] \notin {"lock", "post", "update", "entry"}
    BY <2>2 DEF SessionOf
  <2> QED
    BY <1>n, <2>1, <2>3
<1> QED
  BY <1>1, <1>2, <1>3, <1>4, <1>5, <1>6, <1>7, <1>8, <1>9, <1>10, <1>11, <1>12, <1>13,
     <1>14 DEF RequestStep, Proceed, Server, Failure

\* A key is only reserved when nobody has it.
LEMMA KeysReservedFree ==
    ASSUME TypeOK, NEW q \in Requests, RequestStep(q), NEW rec \in tx'[q].records
    PROVE  \/ rec \in tx[q].records
           \/ rec = Record(q) /\ ~ KeyTaken(q) /\ RecordHolders(q, rec) = {}
<1> USE DEF TypeOK, RequestTypeOK, StoreTypeOK, storeVars, requestVars, tables
<1>t. tx[q] \in DatabaseTransaction
  OBVIOUS
<1>1. CASE tx'[q].records = {} \/ tx'[q].records = tx[q].records
  BY <1>1
<1>2. CASE Begin(q) \/ Server(q) \/ Failure(q) \/ RefuseSecondWallet(q) \/ RefuseRecord(q)
             \/ CommitAcknowledged(q) \/ Rollback(q)
  BY <1>1, <1>2 DEF Begin, Server, ServerCommits, BackendGone, Failure, StatementFails,
     CommitFails, RollbackFails, Abandon, RefuseSecondWallet, RefuseRecord,
     CommitAcknowledged, Rollback, BeginTx, AbortTx, ApplyCommit, NoTransaction
<1>3. CASE Arrive(q) \/ LoseKey(q) \/ ReadKey(q) \/ ReadWallet(q) \/ ReadTransaction(q)
             \/ ReadEntries(q) \/ MissWallet(q) \/ Refuse(q) \/ Retry(q)
  BY <1>1, <1>3 DEF Arrive, LoseKey, ReadKey, ReadWallet, ReadTransaction, ReadEntries,
     MissWallet, Refuse, Retry
<1>4. CASE ReserveKey(q)
  BY <1>4, <1>t DEF ReserveKey, InsertRecord, DatabaseTransaction
<1>5. CASE CreateFinancialTransaction(q)
  BY <1>1, <1>5, <1>t DEF CreateFinancialTransaction, InsertTransaction,
     DatabaseTransaction
<1>6. CASE CreateWallet(q)
  BY <1>1, <1>6, <1>t DEF CreateWallet, InsertWallet, DatabaseTransaction
<1>7. CASE Commit(q)
  BY <1>1, <1>7, <1>t DEF Commit, SendCommit, DatabaseTransaction
<1>8. CASE UpdateWallet(q)
  <2>1. PICK w \in rows[q] : UpdateRow(q, Mutated(w, command[q]))
    BY <1>8 DEF UpdateWallet
  <2> QED
    BY <1>1, <1>t, <2>1 DEF UpdateRow, DatabaseTransaction
<1>9. CASE CreateLedgerEntry(q)
  <2>1. PICK w \in rows[q] : InsertEntry(q, Entry(q, w))
    BY <1>9 DEF CreateLedgerEntry
  <2> QED
    BY <1>1, <1>t, <2>1 DEF InsertEntry, DatabaseTransaction
<1>10. CASE LockWallet(q)
  <2>1. PICK w \in wallets : LockRow(q, w.id)
    BY <1>10 DEF LockWallet
  <2> QED
    BY <1>1, <1>t, <2>1 DEF LockRow, DatabaseTransaction
<1> QED
  BY <1>2, <1>3, <1>4, <1>5, <1>6, <1>7, <1>8, <1>9, <1>10 DEF RequestStep, Proceed

LEMMA OnlyCommitsChangeKeys ==
    ASSUME NEW q \in Requests, RequestStep(q)
    PROVE  UNCHANGED <<transactions, idempotency>> \/ ServerCommits(q)
<1> USE DEF storeVars, tables
<1>1. CASE Arrive(q)
  BY <1>1 DEF Arrive
<1>2. CASE Proceed(q)
  BY <1>2 DEF Proceed, Begin, ReserveKey, LoseKey, ReadKey, ReadWallet, ReadTransaction,
     ReadEntries, LockWallet, MissWallet, Refuse, CreateFinancialTransaction,
     UpdateWallet, CreateLedgerEntry, CreateWallet, RefuseSecondWallet, RefuseRecord,
     Commit, CommitAcknowledged, Rollback, Retry
<1>3. CASE Server(q)
  BY <1>3 DEF Server, BackendGone
<1>4. CASE Failure(q)
  BY <1>4 DEF Failure, StatementFails, CommitFails, RollbackFails, Abandon
<1> QED
  BY <1>1, <1>2, <1>3, <1>4 DEF RequestStep

\* A request that has arrived keeps its command.
LEMMA CommandFixed ==
    ASSUME TypeOK, NEW q \in Requests, RequestStep(q), NEW r \in Requests, pc[r] # "idle"
    PROVE  command'[r] = command[r] /\ pc'[r] # "idle"
<1> USE DEF TypeOK, RequestTypeOK, storeVars, requestVars, Goto, Answer, Fail, Conclude
<1>1. CASE r # q
  BY <1>1, OthersUnchanged DEF Local
<1>2. CASE r = q
  <2>1. ~ Arrive(q)
    BY <1>2 DEF Arrive
  <2>2. CASE Proceed(q)
    BY <1>2, <2>2 DEF Proceed, Begin, ReserveKey, LoseKey, ReadKey, ReadWallet,
       ReadTransaction, ReadEntries, LockWallet, MissWallet, Refuse,
       CreateFinancialTransaction, UpdateWallet, CreateLedgerEntry, CreateWallet,
       RefuseSecondWallet, RefuseRecord, Commit, CommitAcknowledged, Rollback, Retry
  <2>3. CASE Server(q)
    BY <1>2, <2>3 DEF Server, ServerCommits, BackendGone
  <2>4. CASE Failure(q)
    BY <1>2, <2>4 DEF Failure, StatementFails, CommitFails, RollbackFails, Abandon
  <2> QED
    BY <2>1, <2>2, <2>3, <2>4 DEF RequestStep
<1> QED
  BY <1>1, <1>2

-----------------------------------------------------------------------------
(* All requests                                                            *)

LEMMA InitKeys == Init => KeysOK
<1> SUFFICES ASSUME Init PROVE KeysOK
  OBVIOUS
<1>1. ASSUME NEW r \in Requests
      PROVE  pc[r] = "idle" /\ tx[r] = NoTransaction
  BY <1>1 DEF Init
<1>2. transactions = {}
  BY DEF Init
<1> QED
  BY <1>1, <1>2 DEF KeysOK, KeyOf, KeyFree, KeysApart, PostedKeysTaken, AtMostOncePerKey,
     NoTransaction

LEMMA KeysApartStep ==
    ASSUME TypeOK, KeysOK, NEW q \in Requests, RequestStep(q), NEW r \in Requests \ {q}
    PROVE  KeysApart(q, r)' /\ KeysApart(r, q)'
<1>1. tx'[r] = tx[r]
  BY OthersUnchanged DEF Local
<1>2. ASSUME NEW mine \in tx'[q].records, NEW other \in tx[r].records
      PROVE  ~ SameKey(mine, other)
  <2>1. CASE mine \in tx[q].records
    BY <2>1 DEF KeysOK, KeysApart
  <2>2. CASE RecordHolders(q, mine) = {}
    BY <2>2 DEF RecordHolders, SameKey
  <2> QED
    BY <2>1, <2>2, KeysReservedFree
<1> QED
  BY <1>1, <1>2 DEF KeysApart, SameKey

LEMMA KeyFreeStep ==
    ASSUME TypeOK, KeysOK, NEW q \in Requests, RequestStep(q), NEW r \in Requests
    PROVE  KeyFree(r)'
<1>1. CASE UNCHANGED <<transactions, idempotency>>
  <2>1. CASE r = q
    BY <1>1, <2>1, KeysReservedFree DEF KeysOK, KeyFree, KeyTaken, SameKey
  <2>2. CASE r # q
    BY <1>1, <2>2, OthersUnchanged DEF Local, KeysOK, KeyFree
  <2> QED
    BY <2>1, <2>2
<1>2. CASE ServerCommits(q)
  <2>1. idempotency' = idempotency \cup tx[q].records
    BY <1>2 DEF ServerCommits, ApplyCommit
  <2>2. CASE r = q
    <3>1. tx'[q].records = {}
      BY <1>2 DEF ServerCommits, ApplyCommit, NoTransaction, TypeOK, StoreTypeOK
    <3> QED
      BY <2>2, <3>1 DEF KeyFree
  <2>3. CASE r # q
    BY <2>1, <2>3, OthersUnchanged DEF Local, KeysOK, KeyFree, KeysApart
  <2> QED
    BY <2>2, <2>3
<1> QED
  BY <1>1, <1>2, OnlyCommitsChangeKeys

\* The heart of the argument: the transactions that q commits are one at most,
\* and no committed transaction has its key.
LEMMA PostedOnce ==
    ASSUME TypeOK, KeysOK, NEW q \in Requests, SessionOf(q), RequestStep(q)
    PROVE  PostedKeysTaken' /\ AtMostOncePerKey'
<1>0. ASSUME NEW t \in transactions
      PROVE  /\ t.id \in Requests /\ command'[t.id] = command[t.id]
             /\ pc'[t.id] # "idle" /\ KeyTaken(t.id)'
  <2>1. t.id \in Requests /\ pc[t.id] # "idle" /\ KeyTaken(t.id)
    BY DEF TypeOK, StoreTypeOK, FinancialTransaction, KeysOK, PostedKeysTaken
  <2>2. command'[t.id] = command[t.id] /\ pc'[t.id] # "idle"
    BY <2>1, CommandFixed
  <2> QED
    BY <2>1, <2>2, IdempotencyGrows, KeyStaysTaken
<1>1. CASE UNCHANGED <<transactions, idempotency>>
  BY <1>0, <1>1 DEF KeysOK, PostedKeysTaken, AtMostOncePerKey, SameRequest
<1>2. CASE ServerCommits(q)
  <2>1. /\ transactions' = transactions \cup tx[q].transactions
        /\ idempotency' = idempotency \cup tx[q].records
        /\ UNCHANGED <<pc, command>> /\ Live(q)
    BY <1>2 DEF ServerCommits, ApplyCommit, requestVars, Live
  <2>2. pc[q] # "idle"
    BY <2>1 DEF SessionOf, Live
  <2>3. ASSUME NEW t \in tx[q].transactions
        PROVE  /\ t.id = q
               /\ \E rec \in tx[q].records :
                    rec.scope = command[q].owner /\ rec.key = command[q].key
    BY DEF KeysOK, KeyOf
  <2>4. ASSUME NEW t \in tx[q].transactions
        PROVE  KeyTaken(q)'
    BY <2>1, <2>3 DEF KeyTaken, SameKey, Record
  <2>5. PostedKeysTaken'
    BY <1>0, <2>1, <2>2, <2>3, <2>4 DEF PostedKeysTaken
  <2>6. ASSUME NEW t \in transactions, NEW u \in tx[q].transactions
        PROVE  ~ SameRequest(t.id, u.id)
    <3>1. \E old \in idempotency :
             old.scope = command[t.id].owner /\ old.key = command[t.id].key
      BY DEF KeysOK, PostedKeysTaken, KeyTaken, SameKey, Record
    <3> QED
      BY <2>3, <3>1 DEF KeysOK, KeyFree, SameKey, SameRequest
  <2>7. ASSUME NEW t \in transactions', NEW u \in transactions', SameRequest(t.id, u.id)'
        PROVE  t = u
    <3>1. SameRequest(t.id, u.id) /\ SameRequest(u.id, t.id)
      BY <2>1, <2>7 DEF SameRequest
    <3> QED
      BY <2>1, <2>6, <3>1 DEF KeysOK, KeyOf, AtMostOncePerKey
  <2> QED
    BY <2>5, <2>7 DEF AtMostOncePerKey
<1> QED
  BY <1>1, <1>2, OnlyCommitsChangeKeys

LEMMA KeysStep ==
    ASSUME TypeOK, SessionsOK, KeysOK, [Next]_vars
    PROVE  KeysOK'
<1>1. CASE \E q \in Requests : RequestStep(q)
  <2>1. PICK q \in Requests : RequestStep(q)
    BY <1>1
  <2>2. SessionOf(q) /\ KeyOf(q)
    BY DEF SessionsOK, KeysOK
  <2>3. ASSUME NEW r \in Requests \ {q}  PROVE KeyOf(r)'
    BY <2>1, OthersUnchanged DEF Local, KeysOK, KeyOf
  <2>4. ASSUME NEW r \in Requests  PROVE KeyOf(r)' /\ KeyFree(r)'
    BY <2>1, <2>2, <2>3, OwnKey, KeyFreeStep
  <2>5. ASSUME NEW r \in Requests \ {q}, NEW s \in Requests \ {q}, r # s
        PROVE  KeysApart(r, s)'
    BY <2>1, <2>5, OthersUnchanged DEF Local, KeysOK, KeysApart
  <2> QED
    BY <2>1, <2>2, <2>4, <2>5, KeysApartStep, PostedOnce DEF KeysOK
<1>2. CASE Operator \/ UNCHANGED vars
  <2>1. UNCHANGED <<transactions, idempotency, tx, pc, command, newID>>
    BY <1>2 DEF Operator, OperatorSetsStatus, vars, storeVars, requestVars
  <2> QED
    BY <2>1 DEF KeysOK, KeyOf, KeyFree, KeysApart, PostedKeysTaken, AtMostOncePerKey,
       SameRequest, SameKey, KeyTaken, Record
<1> QED
  BY <1>1, <1>2, NextSplit

\* Retries of a request, by the client under its key or by WithinTransaction, with
\* commits whose answer was lost, move money at most once.
THEOREM KeyMovesMoneyOnce == Spec => []AtMostOncePerKey
<1>1. KeysOK => AtMostOncePerKey
  BY DEF KeysOK
<1>2. TypeOK /\ ControlOK /\ SessionsOK /\ KeysOK /\ [Next]_vars => (SessionsOK /\ KeysOK)'
  BY SessionStep, KeysStep
<1>3. Init => SessionsOK /\ KeysOK
  BY InitSessions, InitKeys
<1> QED
  BY <1>1, <1>2, <1>3, TypeCorrect, PTL DEF Spec

-----------------------------------------------------------------------------
(* The inductive strengthening                                             *)

\* What Debit or Credit has checked of the row v.
MayMutate(v, c) ==
    /\ c.amount > 0 /\ v.status = "ACTIVE" /\ v.currency = c.currency
    /\ \/ v.id = c.source /\ c.amount <= v.balance
       \/ v.id # c.source /\ v.id = c.destination /\ v.balance <= MaxMinor - c.amount

\* n is the wallet r opens, or a row it has read, with its command applied.
WrittenFrom(r, n) ==
    \/ Generated(r) /\ n = NewWallet(newID[r], command[r])
    \/ \E v \in rows[r] : n = Mutated(v, command[r]) /\ MayMutate(v, command[r])

EntryFrom(r, e) ==
    \E v \in rows[r] :
        /\ MayMutate(v, command[r])
        /\ e.amount = command[r].amount /\ e.direction = direction(v, command[r])
        /\ e.before = v.balance /\ e.after = Mutated(v, command[r]).balance

\* Money moves on checked rows, all of them locked.
MoneyOf(r) ==
    /\ pc[r] \in {"post", "update", "entry"} => Participants(command[r]) = tx[r].locks
    /\ pc[r] \in {"update", "entry"} => Accepted(rows[r], command[r])
    /\ pc[r] = "insertWallet" => tx[r].wallets = {}
    /\ \A n \in tx[r].wallets : WrittenFrom(r, n)
    /\ \A n, m \in tx[r].wallets : n.id = m.id => n = m
    /\ \A t \in tx[r].transactions : TransactionRowValid(t)
    /\ \A e \in tx[r].entries : EntryFrom(r, e)

WalletsOK ==
    /\ \A w \in wallets : w.balance \in 0 .. MaxMinor /\ w.version > 0
    /\ \A v, w \in wallets : v.id = w.id => v = w

MoneyOK == WalletsOK /\ \A r \in Requests : MoneyOf(r)

-----------------------------------------------------------------------------
(* What the checks of the domain give                                      *)

LEMMA AcceptedMayMutate ==
    ASSUME NEW held \in SUBSET Wallet, NEW c \in Command, Accepted(held, c),
           NEW v \in held, v.id \in Participants(c)
    PROVE  MayMutate(v, c)
<1>1. c.amount \in Int /\ v.balance \in Int /\ MaxMinor \in Int
  BY DomainAssumption DEF Command, Wallet
<1>2. CASE v.id = c.source
  <2>1. DebitError(v, c) = NoError
    BY <1>2 DEF Accepted, DebitsPass
  <2>2. validateMutation(v, c) = NoError /\ ~ (v.balance < c.amount)
    BY <2>1 DEF DebitError, NoError
  <2>3. v.status = "ACTIVE" /\ ~ (c.amount <= 0) /\ v.currency = c.currency
    BY <2>2 DEF validateMutation, NoError
  <2> QED
    BY <1>1, <1>2, <2>2, <2>3 DEF MayMutate
<1>3. CASE v.id # c.source /\ v.id = c.destination
  <2>1. CreditError(v, c) = NoError
    BY <1>3 DEF Accepted, CreditsPass
  <2>2. validateMutation(v, c) = NoError /\ AddMinorError(v.balance, c.amount) = NoError
    BY <2>1 DEF CreditError, NoError
  <2>3. ~ (v.balance > MaxMinor - c.amount)
    BY <2>2 DEF AddMinorError, NoError
  <2>4. v.status = "ACTIVE" /\ ~ (c.amount <= 0) /\ v.currency = c.currency
    BY <2>2 DEF validateMutation, NoError
  <2> QED
    BY <1>1, <1>3, <2>3, <2>4 DEF MayMutate
<1> QED
  BY <1>2, <1>3 DEF Participants

\* A row whose change was checked stays in its range.
LEMMA MutatedInRange ==
    ASSUME NEW v \in Wallet, NEW c \in Command, MayMutate(v, c),
           v.balance \in 0 .. MaxMinor, v.version > 0
    PROVE  /\ Mutated(v, c).balance \in 0 .. MaxMinor
           /\ Mutated(v, c).version > 0
<1>1. c.amount \in Int /\ v.balance \in Int /\ v.version \in Int /\ MaxMinor \in Int
  BY DomainAssumption DEF Command, Wallet
<1>2. CASE v.id = c.source
  <2>1. Mutated(v, c).balance = v.balance - c.amount /\ Mutated(v, c).version = v.version + 1
    BY <1>2 DEF Mutated, Debit, Wallet
  <2>2. c.amount > 0 /\ c.amount <= v.balance
    BY <1>2 DEF MayMutate
  <2> QED
    BY <1>1, <2>1, <2>2
<1>3. CASE v.id # c.source
  <2>1. Mutated(v, c).balance = v.balance + c.amount /\ Mutated(v, c).version = v.version + 1
    BY <1>3 DEF Mutated, Credit, Wallet
  <2>2. c.amount > 0 /\ v.balance <= MaxMinor - c.amount
    BY <1>3 DEF MayMutate
  <2> QED
    BY <1>1, <2>1, <2>2
<1> QED
  BY <1>2, <1>3

\* The transaction that changeBalance and Transfer insert is one the schema takes.
LEMMA PostedRowValid ==
    ASSUME TypeOK, NEW q \in Requests, ControlOf(q), WrittenOf(q), MoneyOf(q),
           pc[q] = "post", tx[q].state = "open", Accepted(rows[q], command[q])
    PROVE  TransactionRowValid(
             [id |-> q, type |-> command[q].kind, amount |-> command[q].amount,
              currency |-> command[q].currency, source |-> command[q].source,
              destination |-> command[q].destination])
<1> DEFINE c == command[q]
<1>1. c \in Command /\ c.kind # "CREATE" /\ ValidationError(c) = NoError
  BY DEF TypeOK, RequestTypeOK, ControlOf, KindOK, Validated, Running
<1>2. c.amount > 0 /\ ~ LacksWallet(c) /\ (c.kind = "TRANSFER" => c.source # c.destination)
  <2>1. ~ (c.amount <= 0) /\ ~ LacksWallet(c)
    BY <1>1 DEF ValidationError, NoError
  <2>2. c.amount \in Int
    BY <1>1, DomainAssumption DEF Command
  <2>3. c.kind = "TRANSFER" => c.source # c.destination
    BY <1>1 DEF ValidationError, NoError
  <2> QED
    BY <2>1, <2>2, <2>3
<1>3. /\ c.kind = "DEPOSIT" => c.source = NoID /\ c.destination # NoID
      /\ c.kind = "WITHDRAWAL" => c.source # NoID /\ c.destination = NoID
      /\ c.kind = "TRANSFER" => NoID \notin {c.source, c.destination}
  BY <1>1, <1>2 DEF Command, LacksWallet
<1>4. PICK id \in Participants(c) : TRUE
  BY <1>1, <1>3 DEF Participants, Command
<1>5. PICK v \in rows[q] : v.id = id
  BY <1>4 DEF MoneyOf, WrittenOf, Live
<1>6. MayMutate(v, c) /\ v \in Wallet
  BY <1>1, <1>4, <1>5, AcceptedMayMutate DEF TypeOK, RequestTypeOK
<1>7. c.currency \in SupportedCurrencies
  BY <1>6 DEF MayMutate, Wallet
<1> QED
  BY <1>2, <1>3, <1>7 DEF TransactionRowValid

-----------------------------------------------------------------------------
(* The request that makes the step                                         *)

LEMMA OwnMoney ==
    ASSUME TypeOK, NEW q \in Requests, ControlOf(q), SessionOf(q), LocksOf(q),
           MoneyOf(q), RequestStep(q)
    PROVE  MoneyOf(q)'
<1> USE DEF TypeOK, RequestTypeOK, StoreTypeOK, storeVars, requestVars, tables, Goto,
        Answer, Fail
<1>t. tx[q] \in DatabaseTransaction
  OBVIOUS
<1>g. UNCHANGED <<command, newID, result>> => Generated(q)' = Generated(q)
  BY DEF Generated
<1>n. ASSUME tx'[q].wallets = {}, tx'[q].transactions = {}, tx'[q].entries = {},
             pc'[q] \notin {"post", "update", "entry"}
      PROVE  MoneyOf(q)'
  BY <1>n DEF MoneyOf
<1>w. ASSUME command'[q] = command[q], newID'[q] = newID[q],
             Generated(q) => Generated(q)', rows[q] \subseteq rows'[q]
      PROVE  /\ \A n : WrittenFrom(q, n) => WrittenFrom(q, n)'
             /\ \A e : EntryFrom(q, e) => EntryFrom(q, e)'
  BY <1>w DEF WrittenFrom, EntryFrom
<1>s. ASSUME tx'[q].wallets = tx[q].wallets, tx'[q].transactions = tx[q].transactions,
             tx'[q].entries = tx[q].entries, UNCHANGED <<rows, command, newID, result>>,
             pc'[q] \in {"post", "update", "entry", "insertWallet"} => FALSE
      PROVE  MoneyOf(q)'
  BY <1>s, <1>g, <1>w DEF MoneyOf
<1>a. ASSUME AbortTx(q), pc'[q] \notin {"post", "update", "entry"}
      PROVE  MoneyOf(q)'
  BY <1>a, <1>n DEF AbortTx, NoTransaction
<1>c. ASSUME NEW e, Conclude(q, e)
      PROVE  pc'[q] \in {"backoff", "done"}
  BY <1>c DEF Conclude
<1>1. CASE Arrive(q)
  <2>1. tx'[q].wallets = {} /\ tx'[q].transactions = {} /\ tx'[q].entries = {}
    BY <1>1 DEF Arrive, SessionOf, Live
  <2>2. pc'[q] \in {"begin", "done"}
    BY <1>1 DEF Arrive
  <2> QED
    BY <1>n, <2>1, <2>2
<1>2. CASE Begin(q)
  BY <1>2, <1>n DEF Begin, BeginTx, NoTransaction
<1>3. CASE LoseKey(q) \/ ReadKey(q) \/ MissWallet(q) \/ Refuse(q) \/ Retry(q)
  BY <1>3, <1>s DEF LoseKey, ReadKey, MissWallet, Refuse, Retry
<1>4. CASE RollbackFails(q) \/ Abandon(q)
  BY <1>4, <1>s, <1>c DEF RollbackFails, Abandon
<1>5. CASE ReadWallet(q) \/ ReadTransaction(q) \/ ReadEntries(q)
  <2>1. /\ pc[q] \in {"readResource", "readEntries"} /\ UNCHANGED tx
        /\ pc'[q] \in {"readEntries", "commit", "rollback"}
    BY <1>5 DEF ReadWallet, ReadTransaction, ReadEntries
  <2>2. tx'[q].wallets = {} /\ tx'[q].transactions = {} /\ tx'[q].entries = {}
    BY <2>1 DEF SessionOf, Fresh, NoTransaction
  <2> QED
    BY <1>n, <2>1, <2>2
<1>6. CASE \/ RefuseSecondWallet(q) \/ RefuseRecord(q) \/ CommitAcknowledged(q)
           \/ Rollback(q)
           \/ \E e \in {"40P01", "ErrDatabase"} : StatementFails(q, e) \/ CommitFails(q, e)
  BY <1>6, <1>a, <1>c DEF RefuseSecondWallet, RefuseRecord, CommitAcknowledged, Rollback,
     StatementFails, CommitFails
<1>7. CASE BackendGone(q)
  BY <1>7, <1>a DEF BackendGone
<1>8. CASE ReserveKey(q)
  <2>1. /\ tx'[q].wallets = tx[q].wallets /\ tx'[q].transactions = tx[q].transactions
        /\ tx'[q].entries = tx[q].entries
    BY <1>8, <1>t DEF ReserveKey, InsertRecord, DatabaseTransaction
  <2>2. tx[q].wallets = {} /\ tx[q].transactions = {} /\ tx[q].entries = {}
    BY <1>8 DEF ReserveKey, SessionOf, Fresh, NoTransaction
  <2>3. pc'[q] \in {"lock", "insertWallet"}
    BY <1>8 DEF ReserveKey
  <2> QED
    BY <1>n, <2>1, <2>2, <2>3
<1>9. CASE LockWallet(q)
  <2>1. PICK w \in wallets :
          /\ LockRow(q, w.id) /\ rows' = [rows EXCEPT ![q] = @ \cup {w}]
          /\ Goto(q, IF Participants(command[q]) = tx[q].locks \cup {w.id}
                       THEN "post" ELSE "lock")
    BY <1>9 DEF LockWallet
  <2>2. /\ tx'[q].wallets = tx[q].wallets /\ tx'[q].transactions = tx[q].transactions
        /\ tx'[q].entries = tx[q].entries /\ tx'[q].locks = tx[q].locks \cup {w.id}
    BY <1>t, <2>1 DEF LockRow, DatabaseTransaction
  <2>3. UNCHANGED <<command, newID, result>>
    BY <1>9 DEF LockWallet
  <2>4. /\ \A n : WrittenFrom(q, n) => WrittenFrom(q, n)'
        /\ \A e : EntryFrom(q, e) => EntryFrom(q, e)'
    BY <1>g, <1>w, <2>1, <2>3
  <2>5. /\ pc'[q] \in {"post", "lock"}
        /\ pc'[q] = "post" => Participants(command'[q]) = tx'[q].locks
    BY <2>1, <2>2, <2>3
  <2> QED
    BY <2>2, <2>4, <2>5 DEF MoneyOf
<1>10. CASE CreateFinancialTransaction(q)
  <2> DEFINE t == [id |-> q, type |-> command[q].kind, amount |-> command[q].amount,
                   currency |-> command[q].currency, source |-> command[q].source,
                   destination |-> command[q].destination]
  <2>1. /\ InsertTransaction(q, t) /\ Accepted(rows[q], command[q])
        /\ pc[q] = "post" /\ pc'[q] = "update"
        /\ UNCHANGED <<rows, command, newID, result>>
    BY <1>10 DEF CreateFinancialTransaction
  <2> HIDE DEF t
  <2>2. /\ tx'[q].wallets = tx[q].wallets /\ tx'[q].entries = tx[q].entries
        /\ tx'[q].locks = tx[q].locks
        /\ tx'[q].transactions = tx[q].transactions \cup {t}
    BY <1>t, <2>1 DEF InsertTransaction, DatabaseTransaction
  <2>3. TransactionRowValid(t)
    BY <2>1, PostedRowValid DEF t, SessionOf, LocksOf
  <2>4. /\ \A n : WrittenFrom(q, n) => WrittenFrom(q, n)'
        /\ \A e : EntryFrom(q, e) => EntryFrom(q, e)'
    BY <1>g, <1>w, <2>1
  <2> QED
    BY <2>1, <2>2, <2>3, <2>4 DEF MoneyOf
<1>11. CASE UpdateWallet(q)
  <2>1. PICK v \in rows[q] : /\ v.id \in Participants(command[q])
                             /\ UpdateRow(q, Mutated(v, command[q]))
    BY <1>11 DEF UpdateWallet, FirstOf
  <2>2. /\ pc[q] = "update" /\ pc'[q] \in {"update", "entry"}
        /\ UNCHANGED <<rows, command, newID, result>>
    BY <1>11 DEF UpdateWallet
  <2> DEFINE new == Mutated(v, command[q])
  <2> HIDE DEF new
  <2>3. /\ tx'[q].transactions = tx[q].transactions /\ tx'[q].entries = tx[q].entries
        /\ tx'[q].locks = tx[q].locks
        /\ tx'[q].wallets = {old \in tx[q].wallets : old.id # new.id} \cup {new}
    BY <1>t, <2>1 DEF UpdateRow, DatabaseTransaction, new
  <2>4. MayMutate(v, command[q])
    BY <2>1, <2>2, AcceptedMayMutate DEF MoneyOf
  <2>5. WrittenFrom(q, new)
    BY <2>4 DEF WrittenFrom, new
  <2>6. /\ \A n : WrittenFrom(q, n) => WrittenFrom(q, n)'
        /\ \A e : EntryFrom(q, e) => EntryFrom(q, e)'
    BY <1>g, <1>w, <2>2
  <2> QED
    BY <2>2, <2>3, <2>5, <2>6 DEF MoneyOf
<1>12. CASE CreateLedgerEntry(q)
  <2>1. PICK v \in rows[q] : /\ v.id \in Participants(command[q])
                             /\ InsertEntry(q, Entry(q, v))
    BY <1>12 DEF CreateLedgerEntry, FirstOf
  <2>2. /\ pc[q] = "entry" /\ pc'[q] \in {"entry", "commit"}
        /\ UNCHANGED <<rows, command, newID>>
    BY <1>12 DEF CreateLedgerEntry
  <2>3. /\ tx'[q].transactions = tx[q].transactions /\ tx'[q].wallets = tx[q].wallets
        /\ tx'[q].locks = tx[q].locks
        /\ tx'[q].entries = tx[q].entries \cup {Entry(q, v)}
    BY <1>t, <2>1 DEF InsertEntry, DatabaseTransaction
  <2>4. MayMutate(v, command[q])
    BY <2>1, <2>2, AcceptedMayMutate DEF MoneyOf
  <2>5. EntryFrom(q, Entry(q, v))
    BY <2>4 DEF EntryFrom, Entry
  <2>6. ~ Generated(q)
    BY <2>2 DEF ControlOf, KindOK, Generated
  <2>7. /\ \A n : WrittenFrom(q, n) => WrittenFrom(q, n)'
        /\ \A e : EntryFrom(q, e) => EntryFrom(q, e)'
    BY <1>w, <2>2, <2>6
  <2> QED
    BY <2>2, <2>3, <2>5, <2>7 DEF MoneyOf
<1>13. CASE CreateWallet(q)
  <2>1. /\ tx'[q].transactions = tx[q].transactions /\ tx'[q].entries = tx[q].entries
        /\ tx'[q].wallets = tx[q].wallets \cup {NewWallet(newID[q], command[q])}
    BY <1>13, <1>t DEF CreateWallet, InsertWallet, DatabaseTransaction
  <2>2. /\ pc[q] = "insertWallet" /\ pc'[q] = "commit"
        /\ UNCHANGED <<rows, command, newID, result>>
    BY <1>13 DEF CreateWallet
  <2>3. Generated(q)
    BY <2>2, DomainAssumption DEF ControlOf, KindOK, LocksOf, ReplayOf, Generated
  <2>4. WrittenFrom(q, NewWallet(newID[q], command[q]))
    BY <2>3 DEF WrittenFrom
  <2>5. /\ \A n : WrittenFrom(q, n) => WrittenFrom(q, n)'
        /\ \A e : EntryFrom(q, e) => EntryFrom(q, e)'
    BY <1>g, <1>w, <2>2
  <2> QED
    BY <2>1, <2>2, <2>4, <2>5 DEF MoneyOf
<1>14. CASE Commit(q)
  BY <1>14, <1>t, <1>s DEF Commit, SendCommit, DatabaseTransaction
<1>15. CASE ServerCommits(q)
  <2>1. tx'[q].wallets = {} /\ tx'[q].transactions = {} /\ tx'[q].entries = {}
    BY <1>15 DEF ServerCommits, ApplyCommit, NoTransaction
  <2>2. tx[q].state = "committing" /\ UNCHANGED pc
    BY <1>15 DEF ServerCommits
  <2>3. pc'[q] \notin {"post", "update", "entry"}
    BY <2>2 DEF SessionOf
  <2> QED
    BY <1>n, <2>1, <2>3
<1> QED
  BY <1>1, <1>2, <1>3, <1>4, <1>5, <1>6, <1>7, <1>8, <1>9, <1>10, <1>11, <1>12, <1>13,
     <1>14, <1>15 DEF RequestStep, Proceed, Server, Failure

-----------------------------------------------------------------------------
(* All requests                                                            *)

\* Rows that are about to be committed.
LEMMA WrittenInRange ==
    ASSUME TypeOK, SessionsOK, LocksOK, MoneyOK, NEW r \in Requests, NEW n \in tx[r].wallets
    PROVE  /\ n.balance \in 0 .. MaxMinor /\ n.version > 0
           /\ \/ \A w \in wallets : w.id # n.id
              \/ \E v \in wallets : /\ v.id = n.id /\ v.status = n.status
                                    /\ v.status = "ACTIVE"
<1>1. Live(r) /\ tx[r].state # "committed"
  BY DEF SessionsOK, SessionOf, Live
<1>2. CASE Generated(r) /\ n = NewWallet(newID[r], command[r])
  <2>1. n.balance = 0 /\ n.version = 1 /\ n.id = newID[r]
    BY <1>2 DEF NewWallet
  <2>2. \A w \in wallets : w.id # newID[r]
    BY <1>1, <1>2 DEF LocksOK, LocksOf, CommittedOf
  <2> QED
    BY <2>1, <2>2, DomainAssumption
<1>3. CASE \E v \in rows[r] : n = Mutated(v, command[r]) /\ MayMutate(v, command[r])
  <2>1. PICK v \in rows[r] : n = Mutated(v, command[r]) /\ MayMutate(v, command[r])
    BY <1>3
  <2>2. v \in wallets
    BY <1>1, <2>1 DEF LocksOK, LocksOf, CommittedOf
  <2>3. v \in Wallet /\ command[r] \in Command
    BY DEF TypeOK, RequestTypeOK
  <2>4. v.balance \in 0 .. MaxMinor /\ v.version > 0
    BY <2>2 DEF MoneyOK, WalletsOK
  <2>5. n.balance \in 0 .. MaxMinor /\ n.version > 0
    BY <2>1, <2>3, <2>4, MutatedInRange
  <2>6. v.id = n.id /\ v.status = n.status /\ v.status = "ACTIVE"
    BY <2>1, <2>3, MutatedType DEF MayMutate
  <2> QED
    BY <2>2, <2>5, <2>6
<1> QED
  BY <1>2, <1>3 DEF MoneyOK, MoneyOf, WrittenFrom

LEMMA InitMoney == Init => MoneyOK
<1> SUFFICES ASSUME Init PROVE MoneyOK
  OBVIOUS
<1>1. ASSUME NEW r \in Requests
      PROVE  pc[r] = "idle" /\ tx[r] = NoTransaction
  BY <1>1 DEF Init
<1>2. \A w \in wallets : w.balance = 0 /\ w.version = 1
  BY ServiceAssumption DEF Init
<1>3. \A v, w \in wallets : v.id = w.id => v = w
  BY ServiceAssumption DEF Init
<1>4. WalletsOK
  BY <1>2, <1>3, DomainAssumption DEF WalletsOK
<1> QED
  BY <1>1, <1>4 DEF MoneyOK, MoneyOf, NoTransaction

LEMMA WalletsStep ==
    ASSUME TypeOK, SessionsOK, LocksOK, MoneyOK, NEW q \in Requests, RequestStep(q)
    PROVE  WalletsOK'
<1>1. CASE UNCHANGED wallets
  BY <1>1 DEF MoneyOK, WalletsOK
<1>2. CASE ServerCommits(q)
  <2>1. wallets' = {w \in wallets : \A new \in tx[q].wallets : new.id # w.id}
                     \cup tx[q].wallets
    BY <1>2 DEF ServerCommits, ApplyCommit
  <2>2. \A w \in wallets' : w.balance \in 0 .. MaxMinor /\ w.version > 0
    BY <2>1, WrittenInRange DEF MoneyOK, WalletsOK
  <2>3. \A v, w \in wallets' : v.id = w.id => v = w
    BY <2>1 DEF MoneyOK, WalletsOK, MoneyOf
  <2> QED
    BY <2>2, <2>3 DEF WalletsOK
<1> QED
  BY <1>1, <1>2, OnlyCommitsChangeWallets

LEMMA OperatorMoney ==
    ASSUME TypeOK, MoneyOK, Operator
    PROVE  MoneyOK'
<1>1. PICK w \in wallets, status \in OperatorStatuses : OperatorSetsStatus(w, status)
  BY DEF Operator
<1> DEFINE n == [w EXCEPT !.status = status]
<1>2. n.id = w.id /\ n.balance = w.balance /\ n.version = w.version
  BY DEF TypeOK, StoreTypeOK, Wallet
<1>3. wallets' = (wallets \ {w}) \cup {n}
  BY <1>1 DEF OperatorSetsStatus
<1> HIDE DEF n
<1>4. WalletsOK'
  BY <1>2, <1>3 DEF MoneyOK, WalletsOK
<1>5. UNCHANGED <<tx, requestVars>>
  BY <1>1 DEF OperatorSetsStatus
<1> QED
  BY <1>4, <1>5 DEF MoneyOK, MoneyOf, WrittenFrom, EntryFrom, Generated, requestVars

LEMMA MoneyStep ==
    ASSUME TypeOK, ControlOK, SessionsOK, LocksOK, MoneyOK, [Next]_vars
    PROVE  MoneyOK'
<1>1. CASE \E q \in Requests : RequestStep(q)
  <2>1. PICK q \in Requests : RequestStep(q)
    BY <1>1
  <2>2. MoneyOf(q)'
    BY <2>1, OwnMoney DEF ControlOK, SessionsOK, LocksOK, MoneyOK
  <2>3. ASSUME NEW r \in Requests \ {q}  PROVE MoneyOf(r)'
    BY <2>1, OthersUnchanged DEF Local, MoneyOK, MoneyOf, WrittenFrom, EntryFrom, Generated
  <2> QED
    BY <2>1, <2>2, <2>3, WalletsStep DEF MoneyOK
<1>2. CASE Operator
  BY <1>2, OperatorMoney
<1>3. CASE UNCHANGED vars
  BY <1>3 DEF vars, storeVars, requestVars, MoneyOK, WalletsOK, MoneyOf, WrittenFrom,
     EntryFrom, Generated
<1> QED
  BY <1>1, <1>2, <1>3, NextSplit

\* Everything the theorems rest on.
MoneyInv == TypeOK /\ ControlOK /\ SessionsOK /\ LocksOK /\ MoneyOK

LEMMA MoneyInvariant == Spec => []MoneyInv
<1>1. Init => MoneyInv
  BY InitTypeOK, InitControlOK, InitSessions, InitLocks, InitMoney DEF MoneyInv
<1>2. MoneyInv /\ [Next]_vars => MoneyInv'
  BY TypeStep, ControlStep, SessionStep, LocksStep, MoneyStep DEF MoneyInv
<1> QED
  BY <1>1, <1>2, PTL DEF Spec

-----------------------------------------------------------------------------
(* The theorems                                                            *)

\* Debit and Credit, checked on the locked row, keep every balance between zero
\* and the largest amount, whatever happens between the check and the commit.
THEOREM BalancesStayInRange == Spec => []BalanceInRange
<1>1. MoneyInv => BalanceInRange
  BY DEF MoneyInv, MoneyOK, WalletsOK, BalanceInRange
<1> QED
  BY <1>1, MoneyInvariant, PTL

\* The CHECK constraints of 001_initial.sql are never what refuses a command:
\* every row the code inserts or updates satisfies them.
THEOREM ConstraintsNeverNeeded == Spec => []SchemaNeverRefuses
<1>1. ASSUME MoneyInv, NEW r \in Requests
      PROVE  /\ \A w \in tx[r].wallets : WalletRowValid(w)
             /\ \A t \in tx[r].transactions : TransactionRowValid(t)
             /\ \A e \in tx[r].entries : EntryRowValid(e)
  <2>1. \A w \in tx[r].wallets : WalletRowValid(w)
    BY <1>1, WrittenInRange DEF MoneyInv, WalletRowValid
  <2>2. \A t \in tx[r].transactions : TransactionRowValid(t)
    BY <1>1 DEF MoneyInv, MoneyOK, MoneyOf
  <2>3. ASSUME NEW e \in tx[r].entries
        PROVE  EntryRowValid(e)
    <3>1. Live(r)
      BY <1>1 DEF MoneyInv, SessionsOK, SessionOf
    <3>2. PICK v \in rows[r] :
            /\ MayMutate(v, command[r])
            /\ e.amount = command[r].amount /\ e.direction = direction(v, command[r])
            /\ e.before = v.balance /\ e.after = Mutated(v, command[r]).balance
      BY <1>1 DEF MoneyInv, MoneyOK, MoneyOf, EntryFrom
    <3>3. v \in Wallet /\ command[r] \in Command /\ v \in wallets
      BY <1>1, <3>1 DEF MoneyInv, TypeOK, RequestTypeOK, LocksOK, LocksOf, CommittedOf
    <3>4. v.balance \in 0 .. MaxMinor /\ v.version > 0
      BY <1>1, <3>3 DEF MoneyInv, MoneyOK, WalletsOK
    <3>5. Mutated(v, command[r]).balance \in 0 .. MaxMinor
      BY <3>2, <3>3, <3>4, MutatedInRange
    <3>6. /\ v.id = command[r].source => e.after = e.before - e.amount
          /\ v.id # command[r].source => e.after = e.before + e.amount
      BY <3>2, <3>3 DEF Mutated, Debit, Credit, Wallet
    <3>7. /\ e.direction = "DEBIT" => v.id = command[r].source
          /\ e.direction = "CREDIT" => v.id # command[r].source
      BY <3>2 DEF direction
    <3>8. e.amount > 0
      BY <3>2 DEF MayMutate
    <3> QED
      BY <3>2, <3>4, <3>5, <3>6, <3>7, <3>8 DEF EntryRowValid
  <2> QED
    BY <2>1, <2>2, <2>3
<1>2. MoneyInv => SchemaNeverRefuses
  BY <1>1 DEF SchemaNeverRefuses
<1> QED
  BY <1>2, MoneyInvariant, PTL

\* A use case that read a wallet before an operator froze it neither writes the
\* old status back nor moves its money.
THEOREM StatusLeftToOperators == Spec => StatusIsTheOperators
<1>1. ASSUME MoneyInv, [Next]_vars, NEW w \in wallets, NEW n \in wallets', w.id = n.id
      PROVE  /\ w.status # n.status => Operator
             /\ w.balance # n.balance => w.status = "ACTIVE"
  <2>0. \A v \in wallets : v.id = w.id => v = w
    BY <1>1 DEF MoneyInv, MoneyOK, WalletsOK
  <2>1. CASE UNCHANGED wallets
    BY <1>1, <2>0, <2>1
  <2>2. ASSUME NEW q \in Requests, ServerCommits(q)
        PROVE  w.status = n.status /\ (w.balance # n.balance => w.status = "ACTIVE")
    <3>1. n \in wallets \/ n \in tx[q].wallets
      BY <2>2 DEF ServerCommits, ApplyCommit
    <3> QED
      BY <1>1, <2>0, <3>1, WrittenInRange DEF MoneyInv
  <2>3. CASE Operator
    <3>1. PICK v \in wallets, status \in OperatorStatuses : OperatorSetsStatus(v, status)
      BY <2>3 DEF Operator
    <3>2. /\ [v EXCEPT !.status = status].id = v.id
          /\ [v EXCEPT !.status = status].balance = v.balance
      BY <1>1 DEF MoneyInv, TypeOK, StoreTypeOK, Wallet
    <3>3. n \in wallets \/ n = [v EXCEPT !.status = status]
      BY <3>1 DEF OperatorSetsStatus
    <3> QED
      BY <1>1, <2>0, <2>3, <3>2, <3>3
  <2>4. CASE UNCHANGED vars
    BY <2>1, <2>4 DEF vars, storeVars
  <2> QED
    BY <1>1, <2>1, <2>2, <2>3, <2>4, NextSplit, OnlyCommitsChangeWallets
<1>2. MoneyInv /\ [Next]_vars =>
        [\A w \in wallets, n \in wallets' : w.id = n.id =>
           /\ w.status # n.status => Operator
           /\ w.balance # n.balance => w.status = "ACTIVE"]_vars
  BY <1>1
<1> QED
  BY <1>2, MoneyInvariant, PTL DEF Spec, StatusIsTheOperators
=============================================================================
