-------------------------- MODULE WalletHistoryProofs --------------------------
(***************************************************************************)
(* Proofs about what a transaction has written by the time it commits, and *)
(* about the history that commits leave behind.                            *)
(***************************************************************************)
EXTENDS WalletServiceProofs

-----------------------------------------------------------------------------
(* What a transaction has written                                          *)

\* The row of financial_transactions that r inserts.
Posted(r) ==
    [id |-> r, type |-> command[r].kind, amount |-> command[r].amount,
     currency |-> command[r].currency, source |-> command[r].source,
     destination |-> command[r].destination]

\* e is the entry r makes for the row w it has read.
EntryOfRow(r, e, w) ==
    /\ e.transaction = r /\ e.wallet = w.id /\ e.direction = direction(w, command[r])
    /\ e.amount = command[r].amount
    /\ e.before = w.balance /\ e.after = Mutated(w, command[r]).balance

WritesNoRow(r) ==
    tx[r].wallets = {} /\ tx[r].transactions = {} /\ tx[r].entries = {}

StagesNothing(r) == tx[r].records = {} /\ WritesNoRow(r)
StagesKey(r)     == tx[r].records = {Record(r)} /\ WritesNoRow(r)

StagesWallet(r) ==
    /\ command[r].kind = "CREATE" /\ Generated(r)
    /\ tx[r].records = {Record(r)}
    /\ tx[r].wallets = {NewWallet(newID[r], command[r])}
    /\ tx[r].transactions = {} /\ tx[r].entries = {}

\* The rows of a money command so far.
StagesPosting(r) ==
    /\ command[r].kind # "CREATE" /\ newID[r] = r
    /\ tx[r].records = {Record(r)} /\ tx[r].transactions = {Posted(r)}
    /\ Participants(command[r]) = tx[r].locks /\ Accepted(rows[r], command[r])
    /\ \A n \in tx[r].wallets : \E w \in rows[r] : n = Mutated(w, command[r])
    /\ \A e \in tx[r].entries : \E w \in rows[r] : EntryOfRow(r, e, w)
    /\ \A e, f \in tx[r].entries : e.wallet = f.wallet => e = f

AllUpdated(r) == Participants(command[r]) \subseteq {n.id : n \in tx[r].wallets}
AllEntered(r) == Participants(command[r]) \subseteq {e.wallet : e \in tx[r].entries}

StagesAll(r) == StagesPosting(r) /\ AllUpdated(r) /\ AllEntered(r)

\* A transaction that sends COMMIT has written nothing, a wallet with its key, or
\* everything a money command writes.
StagedOf(r) ==
    /\ command[r].kind # "CREATE" /\ Running(r) => newID[r] = r
    /\ pc[r] \in {"lock", "post", "insertWallet"} => StagesKey(r)
    /\ pc[r] = "insertWallet" => tx[r].locks = {}
    /\ pc[r] \in {"update", "entry"} => StagesPosting(r)
    /\ pc[r] = "entry" => AllUpdated(r)
    /\ pc[r] = "commit" \/ tx[r].state = "committing" =>
         StagesNothing(r) \/ StagesWallet(r) \/ StagesAll(r)

StagedOK == \A r \in Requests : StagedOf(r)

-----------------------------------------------------------------------------
(* The effect of a step on the transaction of its request                  *)

Parts(r) == <<tx[r].records, tx[r].wallets, tx[r].transactions, tx[r].entries,
              tx[r].locks>>

Empty == <<{}, {}, {}, {}, {}>>

LEMMA OwnEffect ==
    ASSUME TypeOK, NEW q \in Requests, RequestStep(q)
    PROVE  \/ Parts(q)' = Parts(q)
           \/ Parts(q)' = Empty
           \/ /\ ReserveKey(q)
              /\ Parts(q)' = [Parts(q) EXCEPT ![1] = @ \cup {Record(q)}]
           \/ /\ LockWallet(q)
              /\ \E w \in wallets :
                   Parts(q)' = [Parts(q) EXCEPT ![5] = @ \cup {w.id}]
           \/ /\ CreateFinancialTransaction(q)
              /\ Parts(q)' = [Parts(q) EXCEPT ![3] = @ \cup {Posted(q)}]
           \/ /\ UpdateWallet(q)
              /\ \E w \in rows[q] : LET new == Mutated(w, command[q]) IN
                   Parts(q)' = [Parts(q) EXCEPT ![2] =
                                  {old \in @ : old.id # new.id} \cup {new}]
           \/ /\ CreateLedgerEntry(q)
              /\ \E w \in rows[q] :
                   Parts(q)' = [Parts(q) EXCEPT ![4] = @ \cup {Entry(q, w)}]
           \/ /\ CreateWallet(q)
              /\ Parts(q)' = [Parts(q) EXCEPT ![2] =
                                @ \cup {NewWallet(newID[q], command[q])}]
<1> USE DEF TypeOK, RequestTypeOK, StoreTypeOK, storeVars, requestVars, tables
<1>t. tx[q] \in DatabaseTransaction
  OBVIOUS
<1>s. tx'[q] = tx[q] => Parts(q)' = Parts(q)
  BY DEF Parts
<1>n. ASSUME NEW s, tx'[q] = [NoTransaction EXCEPT !.state = s] \/ tx'[q] = NoTransaction
      PROVE  Parts(q)' = Empty
  BY <1>n DEF Parts, Empty, NoTransaction
<1>1. CASE \/ Begin(q) \/ RefuseSecondWallet(q) \/ RefuseRecord(q)
           \/ CommitAcknowledged(q) \/ Rollback(q)
           \/ Server(q)
           \/ \E e \in {"40P01", "ErrDatabase"} : StatementFails(q, e) \/ CommitFails(q, e)
  BY <1>1, <1>n DEF Begin, RefuseSecondWallet, RefuseRecord, CommitAcknowledged,
     Rollback, Server,
     ServerCommits, BackendGone, StatementFails, CommitFails, BeginTx, AbortTx, ApplyCommit
<1>2. CASE Arrive(q) \/ LoseKey(q) \/ ReadKey(q) \/ ReadWallet(q) \/ ReadTransaction(q)
             \/ ReadEntries(q) \/ MissWallet(q) \/ Refuse(q) \/ Retry(q)
             \/ RollbackFails(q) \/ Abandon(q)
  BY <1>2, <1>s DEF Arrive, LoseKey, ReadKey, ReadWallet, ReadTransaction, ReadEntries,
     MissWallet, Refuse, Retry, RollbackFails, Abandon
<1>3. CASE ReserveKey(q)
  BY <1>3, <1>t DEF ReserveKey, InsertRecord, DatabaseTransaction, Parts
<1>4. CASE LockWallet(q)
  <2>1. PICK w \in wallets : LockRow(q, w.id)
    BY <1>4 DEF LockWallet
  <2>2. Parts(q)' = [Parts(q) EXCEPT ![5] = @ \cup {w.id}]
    BY <1>t, <2>1 DEF LockRow, DatabaseTransaction, Parts
  <2> QED
    BY <1>4, <2>2
<1>5. CASE CreateFinancialTransaction(q)
  BY <1>5, <1>t DEF CreateFinancialTransaction, InsertTransaction, DatabaseTransaction,
     Parts, Posted
<1>6. CASE UpdateWallet(q)
  <2>1. PICK w \in rows[q] : UpdateRow(q, Mutated(w, command[q]))
    BY <1>6 DEF UpdateWallet
  <2> DEFINE new == Mutated(w, command[q])
  <2> HIDE DEF new
  <2>2. Parts(q)' = [Parts(q) EXCEPT ![2] = {old \in @ : old.id # new.id} \cup {new}]
    BY <1>t, <2>1 DEF UpdateRow, DatabaseTransaction, Parts, new
  <2> QED
    BY <1>6, <2>2 DEF new
<1>7. CASE CreateLedgerEntry(q)
  <2>1. PICK w \in rows[q] : InsertEntry(q, Entry(q, w))
    BY <1>7 DEF CreateLedgerEntry
  <2>2. Parts(q)' = [Parts(q) EXCEPT ![4] = @ \cup {Entry(q, w)}]
    BY <1>t, <2>1 DEF InsertEntry, DatabaseTransaction, Parts
  <2> QED
    BY <1>7, <2>2
<1>8. CASE CreateWallet(q)
  BY <1>8, <1>t DEF CreateWallet, InsertWallet, DatabaseTransaction, Parts
<1>9. CASE Commit(q)
  BY <1>9, <1>t DEF Commit, SendCommit, DatabaseTransaction, Parts
<1> QED
  BY <1>1, <1>2, <1>3, <1>4, <1>5, <1>6, <1>7, <1>8, <1>9
     DEF RequestStep, Proceed, Failure, Server

-----------------------------------------------------------------------------
(* Transactions are staged as their use case writes them                   *)

LEMMA OwnStaged ==
    ASSUME TypeOK, NEW q \in Requests, ControlOf(q), SessionOf(q), SessionOf(q)',
           LocksOf(q), MoneyOf(q), MoneyOf(q)', StagedOf(q), RequestStep(q)
    PROVE  StagedOf(q)'
<1> USE DEF TypeOK, RequestTypeOK, StoreTypeOK, storeVars, requestVars, tables, Goto,
        Answer, Fail
<1>t. tx[q] \in DatabaseTransaction
  OBVIOUS
<1>i. ASSUME command'[q] = command[q], newID'[q] = newID[q], pc[q] \notin {"idle", "done"}
      PROVE  command'[q].kind # "CREATE" => newID'[q] = q
  BY <1>i DEF StagedOf, Running
<1>n. ASSUME pc'[q] \notin {"lock", "post", "insertWallet", "update", "entry", "commit"},
             tx'[q].state # "committing",
             command'[q].kind # "CREATE" /\ Running(q)' => newID'[q] = q
      PROVE  StagedOf(q)'
  BY <1>n DEF StagedOf
<1>a. ASSUME AbortTx(q)
      PROVE  tx'[q].state # "committing"
  BY <1>a DEF AbortTx, NoTransaction
<1>c. ASSUME NEW e, Conclude(q, e)
      PROVE  pc'[q] \in {"backoff", "done"}
  BY <1>c DEF Conclude
<1>k. ASSUME UNCHANGED <<command, newID>>
      PROVE  Record(q)' = Record(q) /\ Posted(q)' = Posted(q)
  BY <1>k DEF Record, Posted
<1>f. ASSUME tx[q] = Fresh, tx'[q] = tx[q]
      PROVE  StagesNothing(q)' /\ tx'[q].state # "committing"
  BY <1>f DEF StagesNothing, WritesNoRow, Fresh, NoTransaction
<1>1. CASE Arrive(q)
  <2>1. tx'[q].state # "committing" /\ pc'[q] \in {"begin", "done"}
    BY <1>1 DEF Arrive, SessionOf
  <2>2. command'[q].kind # "CREATE" /\ Running(q)' => newID'[q] = q
    BY <1>1 DEF Arrive, FreshIDs, Running
  <2> QED
    BY <1>n, <2>1, <2>2
<1>2. CASE Begin(q) \/ LoseKey(q) \/ ReadKey(q) \/ MissWallet(q) \/ Refuse(q) \/ Retry(q)
  <2>1. /\ pc[q] \notin {"idle", "done"} /\ UNCHANGED <<command, newID>>
        /\ pc'[q] \in {"reserve", "readKey", "readResource", "rollback", "begin"}
    BY <1>2 DEF Begin, LoseKey, ReadKey, MissWallet, Refuse, Retry
  <2>2. tx'[q].state # "committing"
    BY <2>1 DEF SessionOf, Fresh, NoTransaction
  <2> QED
    BY <1>n, <1>i, <2>1, <2>2
<1>3. CASE RollbackFails(q)
  <2>1. /\ pc[q] = "rollback" /\ UNCHANGED <<command, newID, tx>>
        /\ pc'[q] \in {"backoff", "done"}
    BY <1>3, <1>c DEF RollbackFails
  <2> QED
    BY <1>n, <1>i, <2>1 DEF SessionOf
<1>4. CASE Abandon(q)
  <2>1. pc'[q] = "done" /\ UNCHANGED <<command, newID, tx, rows, result>>
    BY <1>4 DEF Abandon
  <2> QED
    BY <2>1, <1>k DEF StagedOf, Running, StagesNothing, StagesWallet, StagesAll,
       StagesPosting, AllUpdated, AllEntered, WritesNoRow, EntryOfRow, Generated
<1>5. CASE \/ RefuseSecondWallet(q) \/ RefuseRecord(q) \/ CommitAcknowledged(q)
           \/ Rollback(q)
  <2>1. /\ pc[q] \notin {"idle", "done"} /\ UNCHANGED <<command, newID>> /\ AbortTx(q)
        /\ pc'[q] \in {"rollback", "backoff", "done"}
    BY <1>5, <1>c DEF RefuseSecondWallet, RefuseRecord, CommitAcknowledged, Rollback
  <2> QED
    BY <1>n, <1>i, <1>a, <2>1
<1>6. CASE BackendGone(q)
  <2>1. pc'[q] = "done" /\ AbortTx(q)
    BY <1>6 DEF BackendGone
  <2> QED
    BY <1>n, <1>a, <2>1 DEF Running
<1>7. CASE \E e \in {"40P01", "ErrDatabase"} : StatementFails(q, e) \/ CommitFails(q, e)
  <2>1. /\ pc[q] \notin {"idle", "done"} /\ AbortTx(q) /\ UNCHANGED command
        /\ pc'[q] \in {"rollback", "backoff", "done"}
        /\ command[q].kind # "CREATE" => UNCHANGED newID
    BY <1>7, <1>c DEF StatementFails, CommitFails, InStatement, OnConnection, Running
  <2> QED
    BY <1>n, <1>i, <1>a, <2>1
<1>8. CASE ReadWallet(q)
  <2>1. /\ pc[q] = "readResource" /\ command'[q].kind = "CREATE" /\ UNCHANGED tx
        /\ pc'[q] \in {"commit", "rollback"}
    BY <1>8 DEF ReadWallet
  <2>2. tx[q] = Fresh
    BY <2>1 DEF SessionOf
  <2> QED
    BY <1>f, <2>1, <2>2 DEF StagedOf
<1>9. CASE ReadTransaction(q) \/ ReadEntries(q)
  <2>1. /\ pc[q] \in {"readResource", "readEntries"} /\ UNCHANGED <<tx, command, newID>>
        /\ pc'[q] \in {"readEntries", "commit", "rollback"}
    BY <1>9 DEF ReadTransaction, ReadEntries
  <2>2. tx[q] = Fresh
    BY <2>1 DEF SessionOf
  <2> QED
    BY <1>f, <1>i, <2>1, <2>2 DEF StagedOf
<1>10. CASE ReserveKey(q)
  <2>1. /\ tx'[q].records = tx[q].records \cup {Record(q)}
        /\ tx'[q].wallets = tx[q].wallets /\ tx'[q].transactions = tx[q].transactions
        /\ tx'[q].entries = tx[q].entries /\ tx'[q].locks = tx[q].locks
    BY <1>10, <1>t DEF ReserveKey, InsertRecord, DatabaseTransaction
  <2>2. tx[q] = Fresh
    BY <1>10 DEF ReserveKey, SessionOf
  <2>3. /\ pc[q] = "reserve" /\ pc'[q] \in {"lock", "insertWallet"}
        /\ UNCHANGED <<command, newID>>
    BY <1>10 DEF ReserveKey
  <2>4. StagesKey(q)' /\ tx'[q].locks = {}
    BY <1>k, <2>1, <2>2, <2>3 DEF StagesKey, WritesNoRow, Fresh, NoTransaction
  <2>5. tx'[q].state # "committing"
    BY <2>3 DEF SessionOf
  <2> QED
    BY <1>i, <2>3, <2>4, <2>5 DEF StagedOf
<1>11. CASE LockWallet(q)
  <2>1. PICK w \in wallets : LockRow(q, w.id)
    BY <1>11 DEF LockWallet
  <2>2. /\ tx'[q].records = tx[q].records /\ tx'[q].wallets = tx[q].wallets
        /\ tx'[q].transactions = tx[q].transactions /\ tx'[q].entries = tx[q].entries
    BY <1>t, <2>1 DEF LockRow, DatabaseTransaction
  <2>3. /\ pc[q] = "lock" /\ pc'[q] \in {"lock", "post"} /\ UNCHANGED <<command, newID>>
    BY <1>11 DEF LockWallet
  <2>4. StagesKey(q)'
    BY <1>k, <2>2, <2>3 DEF StagedOf, StagesKey, WritesNoRow
  <2>5. tx'[q].state # "committing"
    BY <2>3 DEF SessionOf
  <2> QED
    BY <1>i, <2>3, <2>4, <2>5 DEF StagedOf
<1>12. CASE CreateFinancialTransaction(q)
  <2>1. Parts(q)' = [Parts(q) EXCEPT ![3] = @ \cup {Posted(q)}]
    BY <1>12, <1>t DEF CreateFinancialTransaction, InsertTransaction, DatabaseTransaction,
       Parts, Posted
  <2>2. /\ tx'[q].records = tx[q].records /\ tx'[q].wallets = tx[q].wallets
        /\ tx'[q].transactions = tx[q].transactions \cup {Posted(q)}
        /\ tx'[q].entries = tx[q].entries
    BY <2>1 DEF Parts
  <2>3. /\ pc[q] = "post" /\ pc'[q] = "update" /\ UNCHANGED <<command, newID, rows>>
    BY <1>12 DEF CreateFinancialTransaction
  <2>4. /\ Participants(command'[q]) = tx'[q].locks
        /\ Accepted(rows'[q], command'[q])
    BY <2>3 DEF MoneyOf
  <2>5. command'[q].kind # "CREATE" /\ newID'[q] = q
    BY <1>i, <2>3 DEF ControlOf, KindOK
  <2>6. StagesKey(q)
    BY <2>3 DEF StagedOf
  <2>7. StagesPosting(q)'
    BY <1>k, <2>2, <2>3, <2>4, <2>5, <2>6 DEF StagesPosting, StagesKey, WritesNoRow
  <2>8. tx'[q].state # "committing"
    BY <2>3 DEF SessionOf
  <2> QED
    BY <2>3, <2>5, <2>7, <2>8 DEF StagedOf
<1>13. CASE UpdateWallet(q)
  <2> DEFINE left == Participants(command[q]) \ {n.id : n \in tx[q].wallets}
  <2>1. PICK w \in rows[q] : /\ UpdateRow(q, Mutated(w, command[q]))
                             /\ Goto(q, IF left = {w.id} THEN "entry" ELSE "update")
    BY <1>13 DEF UpdateWallet
  <2> DEFINE new == Mutated(w, command[q])
  <2>0. new.id = w.id
    BY MutatedType
  <2> HIDE DEF new
  <2>2. /\ tx'[q].records = tx[q].records /\ tx'[q].transactions = tx[q].transactions
        /\ tx'[q].entries = tx[q].entries /\ tx'[q].locks = tx[q].locks
        /\ tx'[q].wallets = {old \in tx[q].wallets : old.id # new.id} \cup {new}
    BY <1>t, <2>1 DEF UpdateRow, DatabaseTransaction, new
  <2>3. /\ pc[q] = "update" /\ UNCHANGED <<command, newID, rows>>
    BY <1>13 DEF UpdateWallet
  <2>4. StagesPosting(q)
    BY <2>3 DEF StagedOf
  <2>5. StagesPosting(q)'
    <3>1. \A n \in tx'[q].wallets : \E v \in rows[q] : n = Mutated(v, command[q])
      BY <2>2, <2>4 DEF StagesPosting, new
    <3>2. \A e \in tx'[q].entries : \E v \in rows[q] : EntryOfRow(q, e, v)'
      BY <2>2, <2>3, <2>4 DEF StagesPosting, EntryOfRow
    <3> QED
      BY <1>k, <2>2, <2>3, <2>4, <3>1, <3>2 DEF StagesPosting
  <2>6. left = {w.id} => AllUpdated(q)'
    BY <2>0, <2>2, <2>3 DEF AllUpdated
  <2>7. pc'[q] \in {"update", "entry"} /\ (pc'[q] = "entry" => left = {w.id})
    BY <2>1
  <2>8. tx'[q].state # "committing"
    BY <2>7 DEF SessionOf
  <2> QED
    BY <1>i, <2>3, <2>5, <2>6, <2>7, <2>8 DEF StagedOf
<1>14. CASE CreateLedgerEntry(q)
  <2> DEFINE left == Participants(command[q]) \ {e.wallet : e \in tx[q].entries}
  <2>1. PICK w \in rows[q] :
          /\ w.id \in left /\ InsertEntry(q, Entry(q, w))
          /\ IF left = {w.id} THEN Goto(q, "commit") ELSE Goto(q, "entry")
    BY <1>14 DEF CreateLedgerEntry, FirstOf
  <2> DEFINE new == Entry(q, w)
  <2>0. EntryOfRow(q, new, w)
    BY DEF EntryOfRow, Entry
  <2> HIDE DEF new
  <2>2. /\ tx'[q].records = tx[q].records /\ tx'[q].transactions = tx[q].transactions
        /\ tx'[q].wallets = tx[q].wallets /\ tx'[q].locks = tx[q].locks
        /\ tx'[q].entries = tx[q].entries \cup {new}
    BY <1>t, <2>1 DEF InsertEntry, DatabaseTransaction, new
  <2>3. /\ pc[q] = "entry" /\ UNCHANGED <<command, newID, rows>>
    BY <1>14 DEF CreateLedgerEntry
  <2>4. StagesPosting(q) /\ AllUpdated(q)
    BY <2>3 DEF StagedOf
  <2>5. StagesPosting(q)'
    <3>1. \A e \in tx'[q].entries : \E v \in rows[q] : EntryOfRow(q, e, v)'
      BY <2>0, <2>2, <2>3, <2>4 DEF StagesPosting, EntryOfRow
    <3>2. \A e, f \in tx'[q].entries : e.wallet = f.wallet => e = f
      BY <2>0, <2>1, <2>2, <2>4 DEF StagesPosting, EntryOfRow
    <3> QED
      BY <1>k, <2>2, <2>3, <2>4, <3>1, <3>2 DEF StagesPosting
  <2>6. AllUpdated(q)' /\ (left = {w.id} => AllEntered(q)')
    BY <2>0, <2>2, <2>3, <2>4 DEF AllUpdated, AllEntered, EntryOfRow
  <2>7. pc'[q] \in {"commit", "entry"} /\ (pc'[q] = "commit" => left = {w.id})
    BY <2>1
  <2>8. tx'[q].state # "committing"
    BY <2>7 DEF SessionOf
  <2> QED
    BY <1>i, <2>3, <2>5, <2>6, <2>7, <2>8 DEF StagedOf, StagesAll
<1>15. CASE CreateWallet(q)
  <2>1. /\ tx'[q].records = tx[q].records /\ tx'[q].transactions = tx[q].transactions
        /\ tx'[q].entries = tx[q].entries
        /\ tx'[q].wallets = tx[q].wallets \cup {NewWallet(newID[q], command[q])}
    BY <1>15, <1>t DEF CreateWallet, InsertWallet, DatabaseTransaction
  <2>2. /\ pc[q] = "insertWallet" /\ pc'[q] = "commit"
        /\ UNCHANGED <<rows, command, newID, result>>
    BY <1>15 DEF CreateWallet
  <2>3. command[q].kind = "CREATE" /\ Generated(q)
    BY <2>2, DomainAssumption DEF ControlOf, KindOK, LocksOf, ReplayOf, Generated
  <2>4. StagesKey(q)
    BY <2>2 DEF StagedOf
  <2>5. StagesWallet(q)'
    BY <1>k, <2>1, <2>2, <2>3, <2>4 DEF StagesWallet, StagesKey, WritesNoRow, Generated
  <2> QED
    BY <2>2, <2>3, <2>5 DEF StagedOf
<1>16. CASE Commit(q)
  <2>1. /\ tx'[q].records = tx[q].records /\ tx'[q].transactions = tx[q].transactions
        /\ tx'[q].entries = tx[q].entries /\ tx'[q].wallets = tx[q].wallets
        /\ tx'[q].locks = tx[q].locks
    BY <1>16, <1>t DEF Commit, SendCommit, DatabaseTransaction
  <2>2. /\ pc[q] = "commit" /\ pc'[q] = "committing"
        /\ UNCHANGED <<rows, command, newID, result>>
    BY <1>16 DEF Commit
  <2>3. StagesNothing(q) \/ StagesWallet(q) \/ StagesAll(q)
    BY <2>2 DEF StagedOf
  <2>4. StagesNothing(q)' \/ StagesWallet(q)' \/ StagesAll(q)'
    BY <1>k, <2>1, <2>2, <2>3 DEF StagesNothing, StagesWallet, StagesAll,
       StagesPosting, AllUpdated, AllEntered, WritesNoRow, EntryOfRow, Generated
  <2> QED
    BY <1>i, <2>2, <2>4 DEF StagedOf
<1>17. CASE ServerCommits(q)
  <2>1. tx'[q].state = "committed" /\ UNCHANGED <<pc, command, newID>>
    BY <1>17 DEF ServerCommits, ApplyCommit, NoTransaction
  <2>2. pc'[q] \in {"committing", "done"}
    BY <2>1 DEF SessionOf, Fresh, NoTransaction, Labels
  <2> QED
    BY <1>n, <1>i, <2>1, <2>2 DEF Running
<1> QED
  BY <1>1, <1>2, <1>3, <1>4, <1>5, <1>6, <1>7, <1>8, <1>9, <1>10, <1>11, <1>12, <1>13,
     <1>14, <1>15, <1>16, <1>17 DEF RequestStep, Proceed, Server, Failure

LEMMA InitStaged == Init => StagedOK
<1> SUFFICES ASSUME Init, NEW r \in Requests PROVE StagedOf(r)
  BY DEF StagedOK
<1>1. pc[r] = "idle" /\ tx[r] = NoTransaction
  BY DEF Init
<1> QED
  BY <1>1 DEF StagedOf, Running, NoTransaction

\* What another request has staged stays as it is.
LEMMA StagedFrame ==
    ASSUME NEW r \in Requests, Local(r)' = Local(r), StagedOf(r)
    PROVE  StagedOf(r)'
<1>1. /\ pc'[r] = pc[r] /\ command'[r] = command[r] /\ newID'[r] = newID[r]
      /\ rows'[r] = rows[r] /\ result'[r] = result[r] /\ tx'[r] = tx[r]
  BY DEF Local
<1>2. /\ Record(r)' = Record(r) /\ Posted(r)' = Posted(r) /\ Generated(r)' = Generated(r)
      /\ \A e, w : EntryOfRow(r, e, w)' = EntryOfRow(r, e, w)
  BY <1>1 DEF Record, Posted, Generated, EntryOfRow
<1>3. /\ StagesNothing(r)' = StagesNothing(r) /\ StagesKey(r)' = StagesKey(r)
      /\ StagesWallet(r)' = StagesWallet(r)
  BY <1>1, <1>2 DEF StagesNothing, StagesKey, StagesWallet, WritesNoRow
<1>4. StagesPosting(r)' = StagesPosting(r)
  BY <1>1, <1>2 DEF StagesPosting
<1>5. AllUpdated(r)' = AllUpdated(r) /\ AllEntered(r)' = AllEntered(r)
  BY <1>1 DEF AllUpdated, AllEntered
<1> QED
  BY <1>1, <1>3, <1>4, <1>5 DEF StagedOf, StagesAll, Running

LEMMA StagedStep ==
    ASSUME MoneyInv, MoneyInv', StagedOK, [Next]_vars
    PROVE  StagedOK'
<1>1. CASE \E q \in Requests : RequestStep(q)
  <2>1. PICK q \in Requests : RequestStep(q)
    BY <1>1
  <2>2. /\ ControlOf(q) /\ SessionOf(q) /\ SessionOf(q)' /\ LocksOf(q)
        /\ MoneyOf(q) /\ MoneyOf(q)' /\ TypeOK /\ StagedOf(q)
    BY DEF MoneyInv, ControlOK, SessionsOK, LocksOK, MoneyOK, StagedOK
  <2>3. StagedOf(q)'
    BY <2>1, <2>2, OwnStaged
  <2>4. ASSUME NEW r \in Requests \ {q}  PROVE StagedOf(r)'
    BY <2>1, OthersUnchanged, StagedFrame DEF StagedOK, MoneyInv
  <2> QED
    BY <2>3, <2>4 DEF StagedOK
<1>2. CASE Operator \/ UNCHANGED vars
  <2>1. \A r \in Requests : Local(r)' = Local(r)
    BY <1>2 DEF Operator, OperatorSetsStatus, vars, storeVars, requestVars, Local
  <2> QED
    BY <2>1, StagedFrame DEF StagedOK
<1> QED
  BY <1>1, <1>2, NextSplit

\* What every theorem below rests on.
StagedInv == MoneyInv /\ KeysOK /\ StagedOK

LEMMA StagedInvariant == Spec => []StagedInv
<1>1. Init => KeysOK /\ StagedOK
  BY InitKeys, InitStaged
<1>2. MoneyInv /\ MoneyInv' /\ KeysOK /\ StagedOK /\ [Next]_vars => (KeysOK /\ StagedOK)'
  BY StagedStep, KeysStep DEF MoneyInv
<1> QED
  BY <1>1, <1>2, MoneyInvariant, PTL DEF Spec, StagedInv

-----------------------------------------------------------------------------
(* Commits                                                                 *)

LEMMA OnlyCommitsChangeTables ==
    ASSUME NEW q \in Requests, RequestStep(q)
    PROVE  UNCHANGED tables \/ ServerCommits(q)
<1> USE DEF storeVars, tables
<1>1. CASE Arrive(q)
  BY <1>1 DEF Arrive
<1>2. CASE Proceed(q)
  BY <1>2 DEF Proceed, Begin, ReserveKey, LoseKey, ReadKey, ReadWallet, ReadTransaction,
     ReadEntries, LockWallet, MissWallet, Refuse, CreateFinancialTransaction,
     UpdateWallet, CreateLedgerEntry, CreateWallet, RefuseSecondWallet, RefuseRecord,
     Commit, CommitAcknowledged, Rollback, Retry
<1>3. CASE Server(q)
  BY <1>3 DEF Server, BackendGone
<1>4. CASE Failure(q)
  BY <1>4 DEF Failure, StatementFails, CommitFails, RollbackFails, Abandon
<1> QED
  BY <1>1, <1>2, <1>3, <1>4 DEF RequestStep

\* A transaction's rows are committed all at once: nothing, a wallet with its key,
\* or everything a money command writes.
LEMMA Commits ==
    ASSUME StagedInv, NEW q \in Requests, ServerCommits(q)
    PROVE  /\ Live(q) /\ tx[q].state = "committing"
           /\ \/ StagesNothing(q) /\ UNCHANGED tables
              \/ /\ StagesWallet(q)
                 /\ \A w \in wallets : w.id # newID[q]
                 /\ wallets' = wallets \cup {NewWallet(newID[q], command[q])}
                 /\ idempotency' = idempotency \cup {Record(q)}
                 /\ UNCHANGED <<transactions, ledger>>
              \/ /\ StagesAll(q)
                 /\ wallets' = {w \in wallets : \A new \in tx[q].wallets : new.id # w.id}
                                 \cup tx[q].wallets
                 /\ transactions' = transactions \cup {Posted(q)}
                 /\ ledger' = ledger \cup tx[q].entries
                 /\ idempotency' = idempotency \cup {Record(q)}
<1>1. Live(q) /\ tx[q].state = "committing"
  BY DEF ServerCommits, Live
<1>2. StagesNothing(q) \/ StagesWallet(q) \/ StagesAll(q)
  BY <1>1 DEF StagedInv, StagedOK, StagedOf
<1>3. /\ wallets' = {w \in wallets : \A new \in tx[q].wallets : new.id # w.id}
                      \cup tx[q].wallets
      /\ transactions' = transactions \cup tx[q].transactions
      /\ ledger' = ledger \cup tx[q].entries
      /\ idempotency' = idempotency \cup tx[q].records
  BY DEF ServerCommits, ApplyCommit
<1>4. CASE StagesNothing(q)
  BY <1>1, <1>3, <1>4 DEF StagesNothing, WritesNoRow, tables
<1>5. CASE StagesWallet(q)
  <2>1. \A w \in wallets : w.id # newID[q]
    BY <1>1, <1>5 DEF StagesWallet, StagedInv, MoneyInv, LocksOK, LocksOf, CommittedOf
  <2>2. NewWallet(newID[q], command[q]).id = newID[q]
    BY DEF NewWallet
  <2> QED
    BY <1>1, <1>3, <1>5, <2>1, <2>2 DEF StagesWallet
<1>6. CASE StagesAll(q)
  BY <1>1, <1>3, <1>6 DEF StagesAll, StagesPosting
<1> QED
  BY <1>2, <1>4, <1>5, <1>6

\* The rows a posting has locked, updated and entered are the same, each once.
LEMMA PostingMatches ==
    ASSUME StagedInv, NEW q \in Requests, Live(q), StagesAll(q)
    PROVE  /\ rows[q] \subseteq wallets /\ rows[q] \subseteq Wallet
           /\ command[q] \in Command
           /\ Participants(command[q]) = {v.id : v \in rows[q]}
           /\ \A v \in rows[q] : MayMutate(v, command[q])
           /\ tx[q].wallets = {Mutated(v, command[q]) : v \in rows[q]}
           /\ \A e \in tx[q].entries : \E v \in rows[q] : EntryOfRow(q, e, v)
           /\ \A v \in rows[q] : \E e \in tx[q].entries : EntryOfRow(q, e, v)
           /\ \A v, w \in rows[q] : v.id = w.id => v = w
           /\ \A v \in rows[q] : Mutated(v, command[q]).id = v.id
<1> USE DEF StagesAll
<1>1. rows[q] \subseteq wallets /\ tx[q].locks = {v.id : v \in rows[q]}
  BY DEF StagedInv, MoneyInv, LocksOK, LocksOf, CommittedOf, WrittenOf
<1>2. rows[q] \subseteq Wallet /\ command[q] \in Command
  BY DEF StagedInv, MoneyInv, TypeOK, RequestTypeOK
<1>3. Participants(command[q]) = {v.id : v \in rows[q]}
  BY <1>1 DEF StagesPosting
<1>4. \A v, w \in rows[q] : v.id = w.id => v = w
  BY <1>1 DEF StagedInv, MoneyInv, MoneyOK, WalletsOK
<1>5. \A v \in rows[q] : Mutated(v, command[q]).id = v.id
  BY <1>2, MutatedType
<1>6. ASSUME NEW v \in rows[q]
      PROVE  MayMutate(v, command[q])
  BY <1>2, <1>3, AcceptedMayMutate DEF StagesPosting
<1>7. ASSUME NEW v \in rows[q]
      PROVE  Mutated(v, command[q]) \in tx[q].wallets
  <2>1. PICK n \in tx[q].wallets : n.id = v.id
    BY <1>3 DEF AllUpdated
  <2>2. PICK w \in rows[q] : n = Mutated(w, command[q])
    BY DEF StagesPosting
  <2> QED
    BY <1>4, <1>5, <2>1, <2>2
<1>8. tx[q].wallets = {Mutated(v, command[q]) : v \in rows[q]}
  BY <1>7 DEF StagesPosting
<1>9. ASSUME NEW v \in rows[q]
      PROVE  \E e \in tx[q].entries : EntryOfRow(q, e, v)
  <2>1. PICK e \in tx[q].entries : e.wallet = v.id
    BY <1>3 DEF AllEntered
  <2>2. PICK w \in rows[q] : EntryOfRow(q, e, w)
    BY DEF StagesPosting
  <2> QED
    BY <1>4, <2>1, <2>2 DEF EntryOfRow
<1>10. \A e \in tx[q].entries : \E v \in rows[q] : EntryOfRow(q, e, v)
  BY DEF StagesPosting
<1> QED
  BY <1>1, <1>2, <1>3, <1>4, <1>5, <1>6, <1>8, <1>9, <1>10

-----------------------------------------------------------------------------
(* The order of the ledger                                                 *)

\* Entries that r may still commit are newer than every committed entry of their
\* wallets, which r has locked.
EntriesNewest(r) ==
    \A e \in tx[r].entries :
        /\ e.sequence \in 1 .. nextSequence - 1
        /\ e.transaction = r /\ e.wallet \in tx[r].locks
        /\ \A o \in ledger : o.wallet = e.wallet => o.sequence < e.sequence

\* The sequence numbers the entries of each wallet.
LedgerOK ==
    /\ nextSequence \in Nat \ {0}
    /\ \A e \in ledger : e.sequence \in 1 .. nextSequence - 1
    /\ \A e, f \in ledger : e.wallet = f.wallet /\ e.sequence = f.sequence => e = f
    /\ \A r \in Requests : EntriesNewest(r)

\* A request takes a number only for the entry it inserts.
LEMMA SequenceMoves ==
    ASSUME TypeOK, NEW q \in Requests, RequestStep(q)
    PROVE  \/ /\ UNCHANGED nextSequence
              /\ tx'[q].entries = {}
                   \/ (tx'[q].entries = tx[q].entries /\ tx[q].locks \subseteq tx'[q].locks)
           \/ /\ pc[q] = "entry" /\ UNCHANGED tables /\ nextSequence' = nextSequence + 1
              /\ tx'[q].locks = tx[q].locks
              /\ \E w \in rows[q] : tx'[q].entries = tx[q].entries \cup {Entry(q, w)}
<1> USE DEF storeVars, tables
<1>1. CASE CreateLedgerEntry(q)
  <2>1. PICK w \in rows[q] : InsertEntry(q, Entry(q, w))
    BY <1>1 DEF CreateLedgerEntry
  <2>2. tx[q] \in DatabaseTransaction
    BY DEF TypeOK, StoreTypeOK
  <2>3. /\ tx'[q].entries = tx[q].entries \cup {Entry(q, w)}
        /\ tx'[q].locks = tx[q].locks /\ nextSequence' = nextSequence + 1
    BY <2>1, <2>2 DEF InsertEntry, DatabaseTransaction, TypeOK, StoreTypeOK
  <2> QED
    BY <1>1, <2>3 DEF CreateLedgerEntry
<1>2. CASE ~ CreateLedgerEntry(q)
  <2>1. UNCHANGED nextSequence
    <3>1. CASE Arrive(q)
      BY <3>1 DEF Arrive
    <3>2. CASE Proceed(q)
      BY <1>2, <3>2 DEF Proceed, Begin, ReserveKey, LoseKey, ReadKey, ReadWallet,
         ReadTransaction, ReadEntries, LockWallet, MissWallet, Refuse,
         CreateFinancialTransaction, UpdateWallet, CreateWallet, RefuseSecondWallet,
         RefuseRecord,
         Commit, CommitAcknowledged, Rollback, Retry
    <3>3. CASE Server(q)
      BY <3>3 DEF Server, ServerCommits, BackendGone
    <3>4. CASE Failure(q)
      BY <3>4 DEF Failure, StatementFails, CommitFails, RollbackFails, Abandon
    <3> QED
      BY <3>1, <3>2, <3>3, <3>4 DEF RequestStep
  <2>2. \/ tx'[q].entries = {}
        \/ tx'[q].entries = tx[q].entries /\ tx[q].locks \subseteq tx'[q].locks
    <3>1. \/ Parts(q)' = Parts(q) \/ Parts(q)' = Empty
          \/ \E S : \/ Parts(q)' = [Parts(q) EXCEPT ![1] = S]
                    \/ Parts(q)' = [Parts(q) EXCEPT ![2] = S]
                    \/ Parts(q)' = [Parts(q) EXCEPT ![3] = S]
          \/ \E id : Parts(q)' = [Parts(q) EXCEPT ![5] = @ \cup {id}]
      BY <1>2, OwnEffect
    <3>2. Parts(q) = <<tx[q].records, tx[q].wallets, tx[q].transactions,
                       tx[q].entries, tx[q].locks>>
      BY DEF Parts
    <3>3. Parts(q)' = <<tx'[q].records, tx'[q].wallets, tx'[q].transactions,
                        tx'[q].entries, tx'[q].locks>>
      BY DEF Parts
    <3>4. CASE Parts(q)' = Parts(q) \/ Parts(q)' = Empty
      BY <3>2, <3>3, <3>4 DEF Empty
    <3>5. ASSUME NEW S, \/ Parts(q)' = [Parts(q) EXCEPT ![1] = S]
                        \/ Parts(q)' = [Parts(q) EXCEPT ![2] = S]
                        \/ Parts(q)' = [Parts(q) EXCEPT ![3] = S]
          PROVE  tx'[q].entries = tx[q].entries /\ tx'[q].locks = tx[q].locks
      BY <3>2, <3>3, <3>5
    <3>6. ASSUME NEW id, Parts(q)' = [Parts(q) EXCEPT ![5] = @ \cup {id}]
          PROVE  tx'[q].entries = tx[q].entries /\ tx'[q].locks = tx[q].locks \cup {id}
      BY <3>2, <3>3, <3>6
    <3> QED
      BY <3>1, <3>4, <3>5, <3>6
  <2> QED
    BY <2>1, <2>2
<1> QED
  BY <1>1, <1>2

\* The commit of one request leaves the entries of another the newest of their
\* wallets, because it has locked other wallets.
LEMMA OtherEntries ==
    ASSUME StagedInv, LedgerOK, NEW q \in Requests, RequestStep(q),
           NEW r \in Requests \ {q}
    PROVE  EntriesNewest(r)'
<1>1. tx'[r] = tx[r]
  BY OthersUnchanged DEF Local, StagedInv, MoneyInv
<1>2. nextSequence \in Nat /\ nextSequence' \in Nat /\ nextSequence <= nextSequence'
  BY SequenceMoves DEF LedgerOK, StagedInv, MoneyInv
<1>3. ASSUME NEW e \in tx[r].entries
      PROVE  /\ e.sequence \in 1 .. nextSequence' - 1
             /\ e.transaction = r /\ e.wallet \in tx[r].locks
  BY <1>2 DEF LedgerOK, EntriesNewest
<1>4. ASSUME NEW e \in tx[r].entries, NEW o \in ledger', o.wallet = e.wallet
      PROVE  o.sequence < e.sequence
  <2>1. o \in ledger \/ o \in tx[q].entries
    BY OnlyCommitsChangeTables DEF tables, ServerCommits, ApplyCommit
  <2>2. o \notin tx[q].entries
    BY <1>3, <1>4 DEF LedgerOK, EntriesNewest, StagedInv, MoneyInv, LocksOK, Apart
  <2> QED
    BY <1>4, <2>1, <2>2 DEF LedgerOK, EntriesNewest
<1> QED
  BY <1>1, <1>3, <1>4 DEF EntriesNewest

LEMMA OwnEntries ==
    ASSUME StagedInv, LedgerOK, NEW q \in Requests, RequestStep(q)
    PROVE  EntriesNewest(q)'
<1> USE DEF StagedInv, MoneyInv, LedgerOK
<1>1. CASE tx'[q].entries = {}
  BY <1>1 DEF EntriesNewest
<1>2. CASE /\ UNCHANGED nextSequence /\ UNCHANGED tables
           /\ tx'[q].entries = tx[q].entries /\ tx[q].locks \subseteq tx'[q].locks
  BY <1>2 DEF EntriesNewest, tables
<1>3. ASSUME pc[q] = "entry", UNCHANGED tables, nextSequence' = nextSequence + 1,
             tx'[q].locks = tx[q].locks, NEW w \in rows[q],
             tx'[q].entries = tx[q].entries \cup {Entry(q, w)}
      PROVE  EntriesNewest(q)'
  <2>1. w.id \in tx[q].locks
    BY <1>3 DEF LocksOK, LocksOf, WrittenOf, SessionsOK, SessionOf, Live
  <2>2. /\ Entry(q, w).sequence = nextSequence /\ Entry(q, w).transaction = q
        /\ Entry(q, w).wallet = w.id
    BY DEF Entry
  <2>3. \A o \in ledger : o.sequence \in Int /\ o.sequence < nextSequence
    OBVIOUS
  <2>4. /\ nextSequence \in 1 .. nextSequence' - 1
        /\ 1 .. nextSequence - 1 \subseteq 1 .. nextSequence' - 1
    <3>1. nextSequence >= 1
      OBVIOUS
    <3> QED
      BY <1>3, <3>1
  <2> QED
    BY <1>3, <2>1, <2>2, <2>3, <2>4 DEF EntriesNewest, tables
<1>4. CASE ServerCommits(q)
  <2>1. tx'[q].entries = {}
    BY <1>4 DEF ServerCommits, ApplyCommit, NoTransaction, TypeOK, StoreTypeOK
  <2> QED
    BY <1>1, <2>1
<1> QED
  BY <1>1, <1>2, <1>3, <1>4, SequenceMoves, OnlyCommitsChangeTables

LEMMA LedgerStep ==
    ASSUME StagedInv, LedgerOK, [Next]_vars
    PROVE  LedgerOK'
<1>1. CASE \E q \in Requests : RequestStep(q)
  <2>1. PICK q \in Requests : RequestStep(q)
    BY <1>1
  <2>2. \A r \in Requests : EntriesNewest(r)'
    BY <2>1, OwnEntries, OtherEntries
  <2>3. /\ nextSequence \in Nat \ {0} /\ nextSequence' \in Nat \ {0}
        /\ nextSequence <= nextSequence'
    BY <2>1, SequenceMoves DEF LedgerOK, StagedInv, MoneyInv
  <2>4. ledger' = ledger \/ ledger' = ledger \cup tx[q].entries
    BY <2>1, OnlyCommitsChangeTables DEF tables, ServerCommits, ApplyCommit
  <2>5. \A e \in ledger \cup tx[q].entries : e.sequence \in 1 .. nextSequence' - 1
    BY <2>3 DEF LedgerOK, EntriesNewest
  <2>6. ASSUME NEW e \in ledger', NEW f \in ledger', e.wallet = f.wallet,
               e.sequence = f.sequence
        PROVE  e = f
    <3>1. CASE ledger' = ledger
      BY <2>6, <3>1 DEF LedgerOK
    <3>2. CASE ServerCommits(q)
      <4>1. \A x, y \in tx[q].entries : x.wallet = y.wallet => x = y
        BY <3>2, Commits DEF StagesNothing, StagesWallet, StagesAll, StagesPosting,
           WritesNoRow
      <4>2. \A x \in tx[q].entries, o \in ledger :
              x.wallet = o.wallet => x.sequence # o.sequence
        BY <2>3 DEF LedgerOK, EntriesNewest
      <4> QED
        BY <2>4, <2>6, <4>1, <4>2 DEF LedgerOK
    <3> QED
      BY <2>1, <3>1, <3>2, OnlyCommitsChangeTables DEF tables
  <2> QED
    BY <2>2, <2>3, <2>4, <2>5, <2>6 DEF LedgerOK
<1>2. CASE Operator \/ UNCHANGED vars
  <2>1. UNCHANGED <<ledger, nextSequence, tx>>
    BY <1>2 DEF Operator, OperatorSetsStatus, vars, storeVars
  <2> QED
    BY <2>1 DEF LedgerOK, EntriesNewest
<1> QED
  BY <1>1, <1>2, NextSplit

LEMMA InitLedger == Init => LedgerOK
<1> SUFFICES ASSUME Init PROVE LedgerOK
  OBVIOUS
<1>1. ledger = {} /\ nextSequence = 1
  BY DEF Init
<1>2. \A r \in Requests : tx[r].entries = {}
  BY DEF Init, NoTransaction
<1> QED
  BY <1>1, <1>2 DEF LedgerOK, EntriesNewest

LEMMA HistoryGrows ==
    ASSUME StagedInv, LedgerOK, [Next]_vars
    PROVE  /\ ledger \subseteq ledger' /\ transactions \subseteq transactions'
           /\ \A e \in ledger' \ ledger, o \in ledger :
                o.wallet = e.wallet => o.sequence < e.sequence
<1>1. CASE UNCHANGED <<ledger, transactions>>
  BY <1>1
<1>2. ASSUME NEW q \in Requests, ServerCommits(q)
      PROVE  /\ ledger \subseteq ledger' /\ transactions \subseteq transactions'
             /\ \A e \in ledger' \ ledger, o \in ledger :
                  o.wallet = e.wallet => o.sequence < e.sequence
  <2>1. ledger' = ledger \cup tx[q].entries /\ transactions \subseteq transactions'
    BY <1>2 DEF ServerCommits, ApplyCommit
  <2> QED
    BY <1>2, <2>1 DEF LedgerOK, EntriesNewest
<1>3. CASE \E q \in Requests : RequestStep(q)
  BY <1>1, <1>2, <1>3, OnlyCommitsChangeTables DEF tables
<1>4. CASE Operator \/ UNCHANGED vars
  BY <1>1, <1>4 DEF Operator, OperatorSetsStatus, vars, storeVars
<1> QED
  BY <1>3, <1>4, NextSplit

\* What is committed is never changed or withdrawn, and an entry that appears is
\* newer than every committed entry of its wallet: the lock on the wallet is held
\* from before the number is taken until the commit, so a reader who pages by
\* number misses none.
THEOREM HistoryOnlyGrows == Spec => HistoryAppendOnly
<1>1. StagedInv /\ LedgerOK /\ [Next]_vars => LedgerOK'
  BY LedgerStep
<1>2. StagedInv /\ LedgerOK /\ [Next]_vars =>
        [/\ ledger \subseteq ledger' /\ transactions \subseteq transactions'
         /\ \A e \in ledger' \ ledger, o \in ledger :
              o.wallet = e.wallet => o.sequence < e.sequence]_vars
  BY HistoryGrows
<1> QED
  BY <1>1, <1>2, InitLedger, StagedInvariant, PTL DEF Spec, HistoryAppendOnly

-----------------------------------------------------------------------------
(* The ledger explains the balances                                        *)

\* o is the newest committed entry of the wallet id older than the number s.
NewestBefore(o, id, s) ==
    /\ o \in ledger /\ o.wallet = id /\ o.sequence < s
    /\ \A p \in ledger : p.wallet = id /\ p.sequence < s => p.sequence <= o.sequence

\* The history of the wallet id before the number s ends at balance.
EndsAt(id, s, balance) ==
    \/ (\A p \in ledger : p.wallet = id => ~ (p.sequence < s)) /\ balance = 0
    \/ \E o \in ledger : NewestBefore(o, id, s) /\ o.after = balance

AccountedOK ==
    /\ \A e \in ledger : \E w \in wallets : w.id = e.wallet
    /\ \A w \in wallets : EndsAt(w.id, nextSequence, w.balance)
    /\ \A e \in ledger : EndsAt(e.wallet, e.sequence, e.before)

LEMMA AccountedExplains ==
    ASSUME LedgerOK, AccountedOK
    PROVE  HistoryExplainsBalance
<1> SUFFICES ASSUME NEW w \in wallets
             PROVE  LET history == {e \in ledger : e.wallet = w.id}
                    IN  /\ history = {} => w.balance = 0
                        /\ \A e \in history :
                             LET older == {o \in history : o.sequence < e.sequence}
                                 newer == {o \in history : o.sequence > e.sequence}
                             IN  /\ newer = {} => e.after = w.balance
                                 /\ older = {} => e.before = 0
                                 /\ older # {} => \E o \in older :
                                      /\ \A p \in older : p.sequence <= o.sequence
                                      /\ o.after = e.before
  BY DEF HistoryExplainsBalance
<1> DEFINE history == {e \in ledger : e.wallet = w.id}
<1>1. \A e \in ledger : e.sequence \in Int /\ e.sequence < nextSequence
  BY DEF LedgerOK
<1>2. history = {} => w.balance = 0
  BY DEF AccountedOK, EndsAt, NewestBefore
<1>3. ASSUME NEW e \in history, ~ \E o \in history : o.sequence > e.sequence
      PROVE  e.after = w.balance
  <2>1. PICK o \in ledger : NewestBefore(o, w.id, nextSequence) /\ o.after = w.balance
    BY <1>1 DEF AccountedOK, EndsAt
  <2>2. o \in history /\ e.sequence <= o.sequence
    BY <1>1, <2>1 DEF NewestBefore
  <2>3. o.sequence = e.sequence
    BY <1>1, <1>3, <2>2
  <2> QED
    BY <2>1, <2>2, <2>3 DEF LedgerOK
<1>4. ASSUME NEW e \in history, ~ \E o \in history : o.sequence < e.sequence
      PROVE  e.before = 0
  BY <1>4 DEF AccountedOK, EndsAt, NewestBefore
<1>5. ASSUME NEW e \in history, \E o \in history : o.sequence < e.sequence
      PROVE  \E o \in history : /\ o.sequence < e.sequence
                                /\ \A p \in history : p.sequence < e.sequence =>
                                                        p.sequence <= o.sequence
                                /\ o.after = e.before
  BY <1>5 DEF AccountedOK, EndsAt, NewestBefore
<1> QED
  BY <1>2, <1>3, <1>4, <1>5

\* A commit of entries newer than those of their wallets changes no history before
\* a number that is not newer than theirs.
LEMMA HistoryBefore ==
    ASSUME NEW id, NEW s, NEW balance, EndsAt(id, s, balance), ledger \subseteq ledger',
           \A e \in ledger' \ ledger : e.wallet = id => ~ (e.sequence < s)
    PROVE  EndsAt(id, s, balance)'
BY DEF EndsAt, NewestBefore

\* Numbers that are not used yet change no history.
LEMMA HistoryToDate ==
    ASSUME LedgerOK, NEW id, NEW balance, EndsAt(id, nextSequence, balance),
           UNCHANGED ledger, nextSequence' \in Nat, nextSequence <= nextSequence'
    PROVE  EndsAt(id, nextSequence, balance)'
<1>1. \A e \in ledger : e.sequence < nextSequence /\ e.sequence < nextSequence'
  BY DEF LedgerOK
<1> QED
  BY <1>1 DEF EndsAt, NewestBefore

\* The entries of a posting continue the histories of its wallets.
LEMMA PostingAccounted ==
    ASSUME StagedInv, LedgerOK, AccountedOK, NEW q \in Requests, ServerCommits(q),
           StagesAll(q)
    PROVE  AccountedOK'
<1>1. /\ wallets' = {w \in wallets : \A new \in tx[q].wallets : new.id # w.id}
                      \cup tx[q].wallets
      /\ ledger' = ledger \cup tx[q].entries
      /\ UNCHANGED nextSequence /\ Live(q)
  BY DEF ServerCommits, ApplyCommit, Live
<1>2. /\ rows[q] \subseteq wallets
      /\ tx[q].wallets = {Mutated(v, command[q]) : v \in rows[q]}
      /\ \A e \in tx[q].entries : \E v \in rows[q] : EntryOfRow(q, e, v)
      /\ \A v \in rows[q] : \E e \in tx[q].entries : EntryOfRow(q, e, v)
      /\ \A v, w \in rows[q] : v.id = w.id => v = w
      /\ \A v \in rows[q] : Mutated(v, command[q]).id = v.id
  BY <1>1, PostingMatches
<1>3. \A e, f \in tx[q].entries : e.wallet = f.wallet => e = f
  BY DEF StagesAll, StagesPosting
<1>4. ASSUME NEW e \in tx[q].entries
      PROVE  /\ e.sequence \in Int /\ e.sequence < nextSequence
             /\ \A o \in ledger : o.wallet = e.wallet => o.sequence < e.sequence
  BY DEF LedgerOK, EntriesNewest
<1>5. \A o \in ledger : o.sequence \in Int /\ o.sequence < nextSequence
  BY DEF LedgerOK
<1>6. ASSUME NEW e \in ledger'
      PROVE  \E w \in wallets' : w.id = e.wallet
  <2>1. CASE e \in tx[q].entries
    BY <1>1, <1>2, <2>1 DEF EntryOfRow
  <2>2. CASE e \in ledger
    <3>1. PICK w \in wallets : w.id = e.wallet
      BY <2>2 DEF AccountedOK
    <3> QED
      BY <1>1, <3>1
  <2> QED
    BY <1>1, <2>1, <2>2
<1>7. ASSUME NEW w \in wallets'
      PROVE  EndsAt(w.id, nextSequence, w.balance)'
  <2>1. CASE w \in wallets /\ \A new \in tx[q].wallets : new.id # w.id
    <3>1. \A e \in tx[q].entries : e.wallet # w.id
      BY <1>2, <2>1 DEF EntryOfRow
    <3>2. EndsAt(w.id, nextSequence, w.balance)
      BY <2>1 DEF AccountedOK
    <3> QED
      BY <1>1, <3>1, <3>2 DEF EndsAt, NewestBefore
  <2>2. CASE w \in tx[q].wallets
    <3>1. PICK v \in rows[q] : w = Mutated(v, command[q])
      BY <1>2, <2>2
    <3>2. PICK e \in tx[q].entries : EntryOfRow(q, e, v)
      BY <1>2
    <3>3. e.wallet = w.id /\ e.after = w.balance
      BY <1>2, <3>1, <3>2 DEF EntryOfRow
    <3>4. NewestBefore(e, w.id, nextSequence)'
      <4>1. e \in ledger' /\ e.wallet = w.id /\ e.sequence < nextSequence'
        BY <1>1, <1>4, <3>3
      <4>2. ASSUME NEW p \in ledger', p.wallet = w.id
            PROVE  p.sequence <= e.sequence
        BY <1>1, <1>3, <1>4, <1>5, <3>3, <4>2
      <4> QED
        BY <4>1, <4>2 DEF NewestBefore
    <3> QED
      BY <1>1, <3>2, <3>3, <3>4 DEF EndsAt
  <2> QED
    BY <1>1, <2>1, <2>2
<1>8. ASSUME NEW e \in ledger'
      PROVE  EndsAt(e.wallet, e.sequence, e.before)'
  <2>1. CASE e \in ledger
    <3>1. \A f \in ledger' \ ledger : f.wallet = e.wallet => ~ (f.sequence < e.sequence)
      BY <1>1, <1>4, <1>5, <2>1
    <3>2. EndsAt(e.wallet, e.sequence, e.before)
      BY <2>1 DEF AccountedOK
    <3> QED
      BY <1>1, <3>1, <3>2, HistoryBefore
  <2>2. CASE e \in tx[q].entries
    <3>1. PICK v \in rows[q] : EntryOfRow(q, e, v)
      BY <1>2, <2>2
    <3>2. EndsAt(e.wallet, nextSequence, e.before)
      BY <1>2, <3>1 DEF AccountedOK, EntryOfRow
    <3>3. \A p \in ledger : p.wallet = e.wallet => p.sequence < e.sequence
      BY <1>4, <2>2
    <3>4. EndsAt(e.wallet, e.sequence, e.before)
      BY <1>5, <3>2, <3>3 DEF EndsAt, NewestBefore
    <3>5. \A f \in ledger' \ ledger : f.wallet = e.wallet => ~ (f.sequence < e.sequence)
      BY <1>1, <1>3, <1>4, <2>2
    <3> QED
      BY <1>1, <3>4, <3>5, HistoryBefore
  <2> QED
    BY <1>1, <2>1, <2>2
<1> QED
  BY <1>6, <1>7, <1>8 DEF AccountedOK

LEMMA AccountedStep ==
    ASSUME StagedInv, LedgerOK, LedgerOK', AccountedOK, [Next]_vars
    PROVE  AccountedOK'
<1>1. CASE \E q \in Requests : RequestStep(q)
  <2>1. PICK q \in Requests : RequestStep(q)
    BY <1>1
  <2>2. CASE UNCHANGED tables
    <3>1. nextSequence' \in Nat /\ nextSequence <= nextSequence'
      BY <2>1, SequenceMoves DEF LedgerOK, StagedInv, MoneyInv
    <3>2. \A w \in wallets : EndsAt(w.id, nextSequence, w.balance)'
      BY <2>2, <3>1, HistoryToDate DEF tables, AccountedOK
    <3>3. \A e \in ledger : EndsAt(e.wallet, e.sequence, e.before)'
      BY <2>2, HistoryBefore DEF tables, AccountedOK
    <3> QED
      BY <2>2, <3>2, <3>3 DEF tables, AccountedOK
  <2>3. CASE ServerCommits(q) /\ StagesWallet(q)
    <3> DEFINE n == NewWallet(newID[q], command[q])
    <3>1. /\ wallets' = wallets \cup {n} /\ UNCHANGED <<ledger, nextSequence>>
          /\ \A w \in wallets : w.id # newID[q]
      BY <2>3, Commits DEF StagesNothing, StagesWallet, StagesAll, StagesPosting,
         ServerCommits
    <3>2. n.id = newID[q] /\ n.balance = 0
      BY DEF NewWallet
    <3> HIDE DEF n
    <3>3. EndsAt(n.id, nextSequence, n.balance)
      BY <3>1, <3>2 DEF AccountedOK, EndsAt
    <3> QED
      BY <3>1, <3>3 DEF AccountedOK, EndsAt, NewestBefore
  <2>4. CASE ServerCommits(q) /\ StagesAll(q)
    BY <2>4, PostingAccounted
  <2> QED
    BY <2>1, <2>2, <2>3, <2>4, OnlyCommitsChangeTables, Commits
<1>2. CASE Operator
  <2>1. PICK v \in wallets, status \in OperatorStatuses : OperatorSetsStatus(v, status)
    BY <1>2 DEF Operator
  <2> DEFINE n == [v EXCEPT !.status = status]
  <2>0. n.id = v.id /\ n.balance = v.balance
    BY DEF StagedInv, MoneyInv, TypeOK, StoreTypeOK, Wallet
  <2>5. wallets' = (wallets \ {v}) \cup {n}
    BY <2>1 DEF OperatorSetsStatus
  <2> HIDE DEF n
  <2>2. \A w \in wallets' : \E u \in wallets : u.id = w.id /\ u.balance = w.balance
    BY <2>0, <2>5
  <2>3. \A u \in wallets : \E w \in wallets' : u.id = w.id
    BY <2>0, <2>5
  <2>4. UNCHANGED <<ledger, nextSequence>>
    BY <2>1 DEF OperatorSetsStatus
  <2> QED
    BY <2>2, <2>3, <2>4 DEF AccountedOK, EndsAt, NewestBefore
<1>3. CASE UNCHANGED vars
  BY <1>3 DEF vars, storeVars, AccountedOK, EndsAt, NewestBefore
<1> QED
  BY <1>1, <1>2, <1>3, NextSplit

LEMMA InitAccounted == Init => AccountedOK
<1> SUFFICES ASSUME Init PROVE AccountedOK
  OBVIOUS
<1>1. ledger = {} /\ \A w \in wallets : w.balance = 0
  BY ServiceAssumption DEF Init
<1> QED
  BY <1>1 DEF AccountedOK, EndsAt

HistoryInv == StagedInv /\ LedgerOK /\ AccountedOK

LEMMA HistoryInvariant == Spec => []HistoryInv
<1>1. Init => LedgerOK /\ AccountedOK
  BY InitLedger, InitAccounted
<1>2. /\ StagedInv /\ LedgerOK /\ AccountedOK /\ [Next]_vars
      => (LedgerOK /\ AccountedOK)'
  BY LedgerStep, AccountedStep
<1> QED
  BY <1>1, <1>2, StagedInvariant, PTL DEF Spec, HistoryInv

\* Every balance can be read off the ledger: each entry starts where the one before
\* it ended, the first at zero, and the newest ends at the balance, whatever other
\* requests, retries, failures and operators did in between.
THEOREM HistoryExplains == Spec => []HistoryExplainsBalance
<1>1. HistoryInv => HistoryExplainsBalance
  BY AccountedExplains DEF HistoryInv
<1> QED
  BY <1>1, HistoryInvariant, PTL

-----------------------------------------------------------------------------
(* Postings are whole                                                      *)

\* A committed transaction has its entries, one for each wallet of its command.
FullyPosted(t) ==
    /\ \A e \in ledger : e.transaction = t.id =>
         /\ e.wallet \in {t.source, t.destination} \ {NoID}
         /\ e.direction = IF e.wallet = t.source THEN "DEBIT" ELSE "CREDIT"
         /\ e.amount = t.amount
    /\ \A id \in {t.source, t.destination} \ {NoID} :
         \E e \in ledger : e.transaction = t.id /\ e.wallet = id
    /\ \A e, f \in ledger :
         e.transaction = t.id /\ f.transaction = t.id /\ e.wallet = f.wallet => e = f

PostedOK ==
    /\ \A e \in ledger : \E t \in transactions : t.id = e.transaction
    /\ \A t \in transactions : FullyPosted(t)

LEMMA PostedFully ==
    ASSUME PostedOK
    PROVE  EveryTransactionFullyPosted
<1>1. ASSUME NEW t \in transactions
      PROVE  LET posted == {e \in ledger : e.transaction = t.id}
             IN  /\ {<<e.wallet, e.direction>> : e \in posted} =
                      {<<id, IF id = t.source THEN "DEBIT" ELSE "CREDIT">> :
                          id \in {t.source, t.destination} \ {NoID}}
                 /\ Cardinality(posted) =
                      Cardinality({t.source, t.destination} \ {NoID})
                 /\ \A e \in posted : e.amount = t.amount
  <2> DEFINE posted == {e \in ledger : e.transaction = t.id}
             ids    == {t.source, t.destination} \ {NoID}
             entry  == [id \in ids |-> CHOOSE e \in posted : e.wallet = id]
  <2>1. /\ \A e \in posted : /\ e.wallet \in ids /\ e.amount = t.amount
                             /\ e.direction = IF e.wallet = t.source THEN "DEBIT"
                                                                     ELSE "CREDIT"
        /\ \A id \in ids : \E e \in posted : e.wallet = id
        /\ \A e, f \in posted : e.wallet = f.wallet => e = f
    BY DEF PostedOK, FullyPosted
  <2>2. IsFiniteSet(ids)
    <3>1. IsFiniteSet({t.source} \cup {t.destination})
      BY FS_Singleton, FS_Union
    <3> QED
      BY <3>1, FS_Subset
  <2> HIDE DEF posted, ids
  <2>3. \A id \in ids : entry[id] \in posted /\ entry[id].wallet = id
    BY <2>1
  <2> HIDE DEF entry
  <2>4. entry \in [ids -> posted]
    <3>1. entry = [id \in ids |-> CHOOSE e \in posted : e.wallet = id]
      BY DEF entry
    <3> QED
      BY <2>3, <3>1
  <2>5. entry \in Bijection(ids, posted)
    BY <2>1, <2>3, <2>4 DEF Bijection, Injection, Surjection, IsInjective
  <2>6. Cardinality(posted) = Cardinality(ids)
    BY <2>2, <2>5, FS_Bijection DEF ExistsBijection
  <2>7. {<<e.wallet, e.direction>> : e \in posted} =
          {<<id, IF id = t.source THEN "DEBIT" ELSE "CREDIT">> : id \in ids}
    BY <2>1
  <2> QED
    BY <2>1, <2>6, <2>7 DEF posted, ids
<1> QED
  BY <1>1 DEF PostedOK, EveryTransactionFullyPosted

\* A transaction that may still commit has not committed before.
LEMMA NotPostedYet ==
    ASSUME StagedInv, NEW q \in Requests, tx[q].records = {Record(q)}
    PROVE  \A t \in transactions : t.id # q
BY DEF StagedInv, KeysOK, PostedKeysTaken, KeyTaken, KeyFree, SameKey

LEMMA PostedStep ==
    ASSUME StagedInv, LedgerOK, PostedOK, [Next]_vars
    PROVE  PostedOK'
<1>1. CASE UNCHANGED <<ledger, transactions>>
  BY <1>1 DEF PostedOK, FullyPosted
<1>2. ASSUME NEW q \in Requests, ServerCommits(q), StagesAll(q)
      PROVE  PostedOK'
  <2>1. /\ transactions' = transactions \cup {Posted(q)}
        /\ ledger' = ledger \cup tx[q].entries /\ Live(q)
    BY <1>2 DEF ServerCommits, ApplyCommit, StagesAll, StagesPosting, Live
  <2>2. /\ \A t \in transactions : t.id # q
        /\ \A e \in ledger : e.transaction # q
    BY <1>2, NotPostedYet DEF StagesAll, StagesPosting, PostedOK
  <2>3. \A e \in tx[q].entries : e.transaction = q
    BY DEF LedgerOK, EntriesNewest
  <2>4. PICK t : /\ t = Posted(q) /\ t.id = q /\ t.amount = command[q].amount
                 /\ t.source = command[q].source
                 /\ t.destination = command[q].destination
    <3>1. /\ Posted(q).id = q /\ Posted(q).amount = command[q].amount
          /\ Posted(q).source = command[q].source
          /\ Posted(q).destination = command[q].destination
      BY DEF Posted
    <3> QED
      BY <3>1
  <2>5. /\ Participants(command[q]) = {v.id : v \in rows[q]}
        /\ \A e \in tx[q].entries : \E v \in rows[q] : EntryOfRow(q, e, v)
        /\ \A v \in rows[q] : \E e \in tx[q].entries : EntryOfRow(q, e, v)
    BY <1>2, <2>1, PostingMatches
  <2>6. \A e, f \in tx[q].entries : e.wallet = f.wallet => e = f
    BY <1>2 DEF StagesAll, StagesPosting
  <2>7. \A e \in tx[q].entries :
          /\ e.wallet \in Participants(command[q])
          /\ e.direction = IF e.wallet = command[q].source THEN "DEBIT" ELSE "CREDIT"
          /\ e.amount = command[q].amount
    BY <2>5 DEF EntryOfRow, direction
  <2>8. \A id \in Participants(command[q]) : \E e \in tx[q].entries : e.wallet = id
    BY <2>5 DEF EntryOfRow
  <2>9. FullyPosted(t)'
    <3>1. \A e : e \in ledger' /\ e.transaction = t.id <=> e \in tx[q].entries
      BY <2>1, <2>2, <2>3, <2>4
    <3>2. Participants(command[q]) = {t.source, t.destination} \ {NoID}
      BY <2>4 DEF Participants
    <3> QED
      BY <2>4, <2>6, <2>7, <2>8, <3>1, <3>2 DEF FullyPosted
  <2>10. ASSUME NEW u \in transactions
         PROVE  FullyPosted(u)'
    <3>1. \A e : e \in ledger' /\ e.transaction = u.id <=>
                   e \in ledger /\ e.transaction = u.id
      BY <2>1, <2>2, <2>3
    <3>2. FullyPosted(u)
      BY DEF PostedOK
    <3> QED
      BY <3>1, <3>2 DEF FullyPosted
  <2>11. \A e \in ledger' : \E u \in transactions' : u.id = e.transaction
    BY <2>1, <2>3, <2>4 DEF PostedOK
  <2> QED
    BY <2>1, <2>4, <2>9, <2>10, <2>11 DEF PostedOK
<1>3. CASE \E q \in Requests : RequestStep(q)
  BY <1>1, <1>2, <1>3, OnlyCommitsChangeTables, Commits DEF tables
<1>4. CASE Operator \/ UNCHANGED vars
  BY <1>1, <1>4 DEF Operator, OperatorSetsStatus, vars, storeVars
<1> QED
  BY <1>3, <1>4, NextSplit

LEMMA PostedInvariant == Spec => []PostedOK
<1>1. Init => PostedOK
  BY DEF Init, PostedOK
<1>2. HistoryInv /\ PostedOK /\ [Next]_vars => PostedOK'
  BY PostedStep DEF HistoryInv
<1> QED
  BY <1>1, <1>2, HistoryInvariant, PTL DEF Spec

\* A command moves its money wholly or not at all: a committed transaction has one
\* entry for each of its wallets, for its amount and in its direction, and there is
\* no entry without its transaction.
THEOREM PostingsAreWhole == Spec => []EveryTransactionFullyPosted
BY PostedInvariant, PostedFully, PTL

-----------------------------------------------------------------------------
(* Versions                                                                *)

HistoryOf(id) == {e \in ledger : e.wallet = id}

VersionsOK ==
    \A w \in wallets : /\ IsFiniteSet(HistoryOf(w.id))
                       /\ w.version = 1 + Cardinality(HistoryOf(w.id))

LEMMA PostingVersions ==
    ASSUME HistoryInv, VersionsOK, NEW q \in Requests, ServerCommits(q), StagesAll(q)
    PROVE  VersionsOK'
<1> USE DEF HistoryInv
<1>1. /\ wallets' = {w \in wallets : \A new \in tx[q].wallets : new.id # w.id}
                      \cup tx[q].wallets
      /\ ledger' = ledger \cup tx[q].entries /\ Live(q)
  BY DEF ServerCommits, ApplyCommit, Live
<1>2. /\ rows[q] \subseteq wallets /\ rows[q] \subseteq Wallet
      /\ tx[q].wallets = {Mutated(v, command[q]) : v \in rows[q]}
      /\ \A e \in tx[q].entries : \E v \in rows[q] : EntryOfRow(q, e, v)
      /\ \A v \in rows[q] : \E e \in tx[q].entries : EntryOfRow(q, e, v)
      /\ \A v \in rows[q] : Mutated(v, command[q]).id = v.id
  BY <1>1, PostingMatches
<1>3. \A e, f \in tx[q].entries : e.wallet = f.wallet => e = f
  BY DEF StagesAll, StagesPosting
<1>4. \A e \in tx[q].entries : e \notin ledger
  <2>1. \A e \in tx[q].entries, o \in ledger : o.wallet = e.wallet => o.sequence < e.sequence
    BY DEF LedgerOK, EntriesNewest
  <2>2. \A o \in ledger : ~ (o.sequence < o.sequence)
    BY DEF LedgerOK
  <2> QED
    BY <2>1, <2>2
<1> SUFFICES ASSUME NEW w \in wallets'
             PROVE  /\ IsFiniteSet(HistoryOf(w.id)')
                    /\ w.version = 1 + Cardinality(HistoryOf(w.id)')
  BY DEF VersionsOK
<1>5. CASE w \in wallets /\ \A new \in tx[q].wallets : new.id # w.id
  <2>1. \A e \in tx[q].entries : e.wallet # w.id
    BY <1>2, <1>5 DEF EntryOfRow
  <2>2. HistoryOf(w.id)' = HistoryOf(w.id)
    BY <1>1, <2>1 DEF HistoryOf
  <2> QED
    BY <1>5, <2>2 DEF VersionsOK
<1>6. CASE w \in tx[q].wallets
  <2>1. PICK v \in rows[q] : w = Mutated(v, command[q])
    BY <1>2, <1>6
  <2>2. PICK e \in tx[q].entries : EntryOfRow(q, e, v)
    BY <1>2
  <2>3. v.id = w.id /\ e.wallet = w.id
    BY <1>2, <2>1, <2>2 DEF EntryOfRow
  <2>4. HistoryOf(w.id)' = HistoryOf(w.id) \cup {e} /\ e \notin HistoryOf(w.id)
    BY <1>1, <1>3, <1>4, <2>3 DEF HistoryOf
  <2>5. IsFiniteSet(HistoryOf(w.id)) /\ v.version = 1 + Cardinality(HistoryOf(w.id))
    BY <1>2, <2>3 DEF VersionsOK
  <2>6. w.version = v.version + 1 /\ v.version \in Int
    BY <1>2, <2>1 DEF Mutated, Debit, Credit, Wallet
  <2>7. Cardinality(HistoryOf(w.id)) \in Nat
    BY <2>5, FS_CardinalityType
  <2>8. /\ IsFiniteSet(HistoryOf(w.id) \cup {e})
        /\ Cardinality(HistoryOf(w.id) \cup {e}) = Cardinality(HistoryOf(w.id)) + 1
    BY <2>4, <2>5, FS_AddElement
  <2> QED
    BY <2>4, <2>5, <2>6, <2>7, <2>8
<1> QED
  BY <1>1, <1>5, <1>6

LEMMA VersionsStep ==
    ASSUME HistoryInv, VersionsOK, [Next]_vars
    PROVE  VersionsOK'
<1>1. CASE UNCHANGED <<wallets, ledger>>
  BY <1>1 DEF VersionsOK, HistoryOf
<1>2. ASSUME NEW q \in Requests, ServerCommits(q), StagesWallet(q)
      PROVE  VersionsOK'
  <2> DEFINE n == NewWallet(newID[q], command[q])
  <2>1. /\ wallets' = wallets \cup {n} /\ UNCHANGED ledger
        /\ \A w \in wallets : w.id # newID[q]
    BY <1>2, Commits DEF StagesNothing, StagesWallet, StagesAll, StagesPosting, HistoryInv
  <2>2. n.id = newID[q] /\ n.version = 1
    BY DEF NewWallet
  <2> HIDE DEF n
  <2>3. HistoryOf(n.id) = {}
    BY <2>1, <2>2 DEF HistoryOf, HistoryInv, AccountedOK
  <2>4. IsFiniteSet(HistoryOf(n.id)) /\ n.version = 1 + Cardinality(HistoryOf(n.id))
    BY <2>2, <2>3, FS_EmptySet
  <2>5. \A id : HistoryOf(id)' = HistoryOf(id)
    BY <2>1 DEF HistoryOf
  <2> QED
    BY <2>1, <2>4, <2>5 DEF VersionsOK
<1>3. CASE \E q \in Requests : RequestStep(q)
  BY <1>1, <1>2, <1>3, OnlyCommitsChangeTables, Commits, PostingVersions
     DEF tables, HistoryInv
<1>4. CASE Operator
  <2>1. PICK v \in wallets, status \in OperatorStatuses : OperatorSetsStatus(v, status)
    BY <1>4 DEF Operator
  <2> DEFINE n == [v EXCEPT !.status = status]
  <2>2. n.id = v.id /\ n.version = v.version
    BY DEF HistoryInv, StagedInv, MoneyInv, TypeOK, StoreTypeOK, Wallet
  <2>3. wallets' = (wallets \ {v}) \cup {n} /\ UNCHANGED ledger
    BY <2>1 DEF OperatorSetsStatus
  <2> HIDE DEF n
  <2>4. \A id : HistoryOf(id)' = HistoryOf(id)
    BY <2>3 DEF HistoryOf
  <2> QED
    BY <2>2, <2>3, <2>4 DEF VersionsOK
<1>5. CASE UNCHANGED vars
  BY <1>1, <1>5 DEF vars, storeVars
<1> QED
  BY <1>3, <1>4, <1>5, NextSplit

LEMMA VersionsInvariant == Spec => []VersionsOK
<1>1. Init => VersionsOK
  <2>1. ASSUME Init, NEW w \in wallets
        PROVE  HistoryOf(w.id) = {} /\ w.version = 1
    BY <2>1, ServiceAssumption DEF Init, HistoryOf
  <2> QED
    BY <2>1, FS_EmptySet DEF VersionsOK
<1>2. HistoryInv /\ VersionsOK /\ [Next]_vars => VersionsOK'
  BY VersionsStep
<1> QED
  BY <1>1, <1>2, HistoryInvariant, PTL DEF Spec

\* No update is lost and none is made without its entry: a wallet has as many
\* versions after its first as entries.
THEOREM VersionsCount == Spec => []VersionCountsEntries
<1>1. VersionsOK => VersionCountsEntries
  BY DEF VersionsOK, VersionCountsEntries, HistoryOf
<1> QED
  BY <1>1, VersionsInvariant, PTL

-----------------------------------------------------------------------------
(* Sums, as MapThenSumSet computes them                                    *)

Chosen(s) == CHOOSE x \in s : TRUE

\* g is the sum of f over each subset of S, as MapThenSumSet computes it.
Sums(f, S, g) ==
    g = [s \in SUBSET S |->
          IF s = {} THEN 0 ELSE f[Chosen(s)] + g[s \ {Chosen(s)}]]

LEMMA SmallestSubset ==
    ASSUME NEW S, IsFiniteSet(S), NEW T, T \subseteq SUBSET S, T # {}
    PROVE  \E s \in T : \A t \in T : t \subseteq s => t = s
<1>1. FiniteSubsetsOf(S) = SUBSET S
  BY FS_FiniteSubsetsOfFinite
<1>2. PICK s \in T : \A t \in T : <<t, s>> \notin StrictSubsetOrdering(S)
  BY <1>1, FS_StrictSubsetOrderingWellFounded, WFMin
<1> QED
  BY <1>2 DEF StrictSubsetOrdering

LEMMA SumStep ==
    ASSUME NEW f, NEW S, NEW g, Sums(f, S, g)
    PROVE  /\ g[{}] = 0
           /\ \A s \in SUBSET S : s # {} =>
                /\ Chosen(s) \in s
                /\ g[s] = f[Chosen(s)] + g[s \ {Chosen(s)}]
<1>1. \A s \in SUBSET S :
        g[s] = IF s = {} THEN 0 ELSE f[Chosen(s)] + g[s \ {Chosen(s)}]
  BY Zenon DEF Sums
<1>2. \A s : s # {} => Chosen(s) \in s
  BY DEF Chosen
<1> QED
  BY <1>1, <1>2

LEMMA SumUnique ==
    ASSUME NEW S, NEW T, T \subseteq S, IsFiniteSet(T), NEW f, NEW e,
           \A x \in T : f[x] = e[x],
           NEW g, Sums(f, S, g), NEW h, Sums(e, T, h)
    PROVE  \A s \in SUBSET T : g[s] = h[s]
<1> DEFINE Bad == {s \in SUBSET T : g[s] # h[s]}
<1> SUFFICES ASSUME Bad # {} PROVE FALSE
  OBVIOUS
<1>1. PICK s \in Bad : \A t \in Bad : t \subseteq s => t = s
  <2>1. Bad \subseteq SUBSET T
    OBVIOUS
  <2> HIDE DEF Bad
  <2> QED
    BY <2>1, SmallestSubset
<1>2. s # {}
  BY <1>1, SumStep
<1> DEFINE x == Chosen(s)
<1>3. /\ x \in s /\ s \in SUBSET T
      /\ g[s] = f[x] + g[s \ {x}] /\ h[s] = e[x] + h[s \ {x}]
  <2>1. s \in SUBSET T /\ s \in SUBSET S
    OBVIOUS
  <2> HIDE DEF Bad
  <2> QED
    BY <1>2, <2>1, SumStep
<1> HIDE DEF x
<1>4. g[s \ {x}] = h[s \ {x}]
  BY <1>1, <1>3
<1> QED
  BY <1>1, <1>3, <1>4

LEMMA SumExists ==
    ASSUME NEW S, IsFiniteSet(S), NEW f
    PROVE  \E g : Sums(f, S, g)
<1> DEFINE Bad == {s \in SUBSET S : \A g : ~ Sums(f, s, g)}
<1> SUFFICES ASSUME Bad # {} PROVE FALSE
  OBVIOUS
<1>1. PICK s \in Bad : \A t \in Bad : t \subseteq s => t = s
  <2>1. Bad \subseteq SUBSET S
    OBVIOUS
  <2> HIDE DEF Bad
  <2> QED
    BY <2>1, SmallestSubset
<1> DEFINE Sum(t) == CHOOSE g : Sums(f, t, g)
           g == [t \in SUBSET s |->
                  IF t = {} THEN 0
                  ELSE f[Chosen(t)] + Sum(t \ {Chosen(t)})[t \ {Chosen(t)}]]
<1>2. \A t \in SUBSET s : t # s => Sums(f, t, Sum(t))
  BY <1>1
<1>3. ASSUME NEW t \in SUBSET s, t # s
      PROVE  Sum(t)[t] = g[t]
  <2>1. Sums(f, t, Sum(t)) /\ IsFiniteSet(t)
    BY <1>2, <1>3, FS_Subset
  <2>2. CASE t = {}
    BY <2>1, <2>2, SumStep
  <2>3. CASE t # {}
    <3> DEFINE u == t \ {Chosen(t)}
    <3>1. Chosen(t) \in t /\ Sum(t)[t] = f[Chosen(t)] + Sum(t)[u]
      BY <2>1, <2>3, SumStep
    <3>2. u \in SUBSET s /\ u # s /\ u \in SUBSET t /\ IsFiniteSet(u)
      BY <2>1, <3>1, FS_Subset
    <3>3. Sums(f, u, Sum(u))
      BY <1>2, <3>2
    <3>4. Sum(t)[u] = Sum(u)[u]
      <4> HIDE DEF Sum, u
      <4> QED
        BY <2>1, <3>2, <3>3, SumUnique
    <3>5. g[t] = f[Chosen(t)] + Sum(u)[u]
      BY <2>3
    <3> QED
      BY <3>1, <3>4, <3>5
  <2> QED
    BY <2>2, <2>3
<1>4. g = [t \in SUBSET s |->
            IF t = {} THEN 0 ELSE f[Chosen(t)] + g[t \ {Chosen(t)}]]
  <2>1. ASSUME NEW t \in SUBSET s, t # {}
        PROVE  Sum(t \ {Chosen(t)})[t \ {Chosen(t)}] = g[t \ {Chosen(t)}]
    <3>1. Chosen(t) \in t
      BY <2>1 DEF Chosen
    <3>2. t \ {Chosen(t)} \in SUBSET s /\ t \ {Chosen(t)} # s
      BY <3>1
    <3> HIDE DEF Sum, g
    <3> QED
      BY <1>3, <3>2
  <2> HIDE DEF Sum
  <2> QED
    BY <2>1
<1>5. Sums(f, s, g)
  <2> HIDE DEF g
  <2> QED
    BY <1>4 DEF Sums
<1> QED
  BY <1>1, <1>5

LEMMA SumIsInt ==
    ASSUME NEW S, IsFiniteSet(S), NEW f, \A x \in S : f[x] \in Int,
           NEW g, Sums(f, S, g), NEW r \in SUBSET S
    PROVE  g[r] \in Int
<1> DEFINE Bad == {s \in SUBSET S : g[s] \notin Int}
<1> SUFFICES ASSUME Bad # {} PROVE FALSE
  OBVIOUS
<1>1. PICK s \in Bad : \A t \in Bad : t \subseteq s => t = s
  <2>1. Bad \subseteq SUBSET S
    OBVIOUS
  <2> HIDE DEF Bad
  <2> QED
    BY <2>1, SmallestSubset
<1>2. s # {}
  <2>1. g[s] \notin Int /\ g[{}] = 0
    BY SumStep
  <2> QED
    BY <2>1
<1>3. Chosen(s) \in s /\ g[s] = f[Chosen(s)] + g[s \ {Chosen(s)}]
  BY <1>1, <1>2, SumStep
<1>4. g[s \ {Chosen(s)}] \in Int
  BY <1>1, <1>3
<1> QED
  BY <1>1, <1>3, <1>4

\* A sum does not depend on the order in which MapThenSumSet picks the elements.
LEMMA SumOfAny ==
    ASSUME NEW S, IsFiniteSet(S), NEW f, \A x \in S : f[x] \in Int,
           NEW g, Sums(f, S, g), NEW r \in SUBSET S, NEW z \in r
    PROVE  g[r] = f[z] + g[r \ {z}]
<1> DEFINE Bad == {s \in SUBSET S : \E x \in s : g[s] # f[x] + g[s \ {x}]}
<1> SUFFICES ASSUME Bad # {} PROVE FALSE
  OBVIOUS
<1>1. PICK s \in Bad : \A t \in Bad : t \subseteq s => t = s
  <2>1. Bad \subseteq SUBSET S
    OBVIOUS
  <2> HIDE DEF Bad
  <2> QED
    BY <2>1, SmallestSubset
<1>2. PICK x \in s : g[s] # f[x] + g[s \ {x}]
  BY <1>1
<1> DEFINE y == Chosen(s)
           u == (s \ {x}) \ {y}
<1>3. y \in s /\ g[s] = f[y] + g[s \ {y}]
  <2>1. s \in SUBSET S /\ s # {}
    BY <1>2
  <2> QED
    BY <2>1, SumStep
<1>4. x # y
  BY <1>2, <1>3
<1>5. g[s \ {y}] = f[x] + g[u] /\ g[s \ {x}] = f[y] + g[u]
  <2> HIDE DEF y
  <2>1. s \ {x} \notin Bad /\ s \ {y} \notin Bad
    BY <1>1, <1>2, <1>3
  <2>2. s \ {x} \in SUBSET S /\ s \ {y} \in SUBSET S /\ u = (s \ {y}) \ {x}
    BY <1>1
  <2> QED
    BY <1>2, <1>3, <1>4, <2>1, <2>2
<1>6. f[x] \in Int /\ f[y] \in Int /\ g[u] \in Int
  <2>1. x \in S /\ y \in S /\ u \in SUBSET S
    <3> HIDE DEF y
    <3> QED
      BY <1>1, <1>2, <1>3
  <2> HIDE DEF y, u
  <2> QED
    BY <2>1, SumIsInt
<1> HIDE DEF y, u
<1> QED
  BY <1>2, <1>3, <1>5, <1>6

LEMMA TotalBalanceSums ==
    ASSUME NEW S, IsFiniteSet(S), NEW f, \A w \in S : f[w] = w.balance
    PROVE  \E g : Sums(f, S, g) /\ TotalBalance(S) = g[S]
<1> DEFINE P(g) == g = [s \in SUBSET S |->
                          IF s = {} THEN 0
                          ELSE (CHOOSE x \in s : TRUE).balance
                                 + g[s \ {CHOOSE x \in s : TRUE}]]
<1>1. TotalBalance(S) = (CHOOSE g : P(g))[S]
  BY Zenon DEF TotalBalance, MapThenSumSet, MapThenFoldSet
<1>2. ASSUME NEW g
      PROVE  P(g) <=> Sums(f, S, g)
  <2>1. \A s \in SUBSET S : s # {} => f[Chosen(s)] = (CHOOSE x \in s : TRUE).balance
    BY DEF Chosen
  <2> QED
    BY <2>1 DEF Sums, Chosen
<1>3. PICK g : Sums(f, S, g)
  BY SumExists
<1> HIDE DEF P
<1>4. P(CHOOSE h : P(h))
  BY <1>2, <1>3
<1> QED
  BY <1>1, <1>2, <1>4

LEMMA TotalNetSums ==
    ASSUME NEW S, IsFiniteSet(S), NEW f, \A t \in S : f[t] = NetOf(t)
    PROVE  \E g : Sums(f, S, g) /\ TotalNet(S) = g[S]
<1> DEFINE P(g) == g = [s \in SUBSET S |->
                          IF s = {} THEN 0
                          ELSE NetOf(CHOOSE x \in s : TRUE)
                                 + g[s \ {CHOOSE x \in s : TRUE}]]
<1>1. TotalNet(S) = (CHOOSE g : P(g))[S]
  BY Zenon DEF TotalNet, MapThenSumSet, MapThenFoldSet
<1>2. ASSUME NEW g
      PROVE  P(g) <=> Sums(f, S, g)
  <2>1. \A s \in SUBSET S : s # {} => f[Chosen(s)] = NetOf(CHOOSE x \in s : TRUE)
    BY DEF Chosen
  <2> QED
    BY <2>1 DEF Sums, Chosen
<1>3. PICK g : Sums(f, S, g)
  BY SumExists
<1> HIDE DEF P
<1>4. P(CHOOSE h : P(h))
  BY <1>2, <1>3
<1> QED
  BY <1>1, <1>2, <1>4

LEMMA TotalBalanceOfAny ==
    ASSUME NEW S, IsFiniteSet(S), \A w \in S : w.balance \in Int, NEW v \in S
    PROVE  /\ TotalBalance(S) = v.balance + TotalBalance(S \ {v})
           /\ TotalBalance(S \ {v}) \in Int
<1> DEFINE f == [w \in S |-> w.balance]
           T == S \ {v}
<1>1. IsFiniteSet(T) /\ T \subseteq S
  BY FS_Subset
<1>2. \A w \in S : f[w] = w.balance /\ f[w] \in Int
  OBVIOUS
<1> HIDE DEF f
<1>3. PICK g : Sums(f, S, g) /\ TotalBalance(S) = g[S]
  BY <1>2, TotalBalanceSums
<1>4. PICK h : Sums(f, T, h) /\ TotalBalance(T) = h[T]
  <2> HIDE DEF T
  <2> QED
    BY <1>1, <1>2, TotalBalanceSums
<1>5. g[T] = h[T]
  <2> HIDE DEF T
  <2> QED
    BY <1>1, <1>3, <1>4, SumUnique
<1>6. g[S] = f[v] + g[T] /\ g[T] \in Int
  <2>1. Sums(f, S, g) /\ \A x \in S : f[x] \in Int
    BY <1>2, <1>3
  <2>2. g[S] = f[v] + g[S \ {v}]
    BY <2>1, SumOfAny
  <2>3. g[S \ {v}] \in Int
    BY <2>1, SumIsInt
  <2> QED
    BY <2>2, <2>3
<1> QED
  BY <1>2, <1>3, <1>4, <1>5, <1>6

LEMMA TotalNetOfAny ==
    ASSUME NEW S, IsFiniteSet(S), \A t \in S : NetOf(t) \in Int, NEW u \in S
    PROVE  /\ TotalNet(S) = NetOf(u) + TotalNet(S \ {u})
           /\ TotalNet(S \ {u}) \in Int
<1> DEFINE f == [t \in S |-> NetOf(t)]
           T == S \ {u}
<1>1. IsFiniteSet(T) /\ T \subseteq S
  BY FS_Subset
<1>2. \A t \in S : f[t] = NetOf(t) /\ f[t] \in Int
  OBVIOUS
<1> HIDE DEF f
<1>3. PICK g : Sums(f, S, g) /\ TotalNet(S) = g[S]
  BY <1>2, TotalNetSums
<1>4. PICK h : Sums(f, T, h) /\ TotalNet(T) = h[T]
  <2> HIDE DEF T
  <2> QED
    BY <1>1, <1>2, TotalNetSums
<1>5. g[T] = h[T]
  <2> HIDE DEF T
  <2> QED
    BY <1>1, <1>3, <1>4, SumUnique
<1>6. g[S] = f[u] + g[T] /\ g[T] \in Int
  <2>1. Sums(f, S, g) /\ \A x \in S : f[x] \in Int
    BY <1>2, <1>3
  <2>2. g[S] = f[u] + g[S \ {u}]
    BY <2>1, SumOfAny
  <2>3. g[S \ {u}] \in Int
    BY <2>1, SumIsInt
  <2> QED
    BY <2>2, <2>3
<1> QED
  BY <1>2, <1>3, <1>4, <1>5, <1>6

LEMMA NothingTotals ==
    ASSUME NEW S, IsFiniteSet(S), \A w \in S : w.balance = 0
    PROVE  TotalBalance(S) = 0 /\ TotalNet({}) = 0
<1> DEFINE f == [w \in S |-> 0]
<1>1. \A w \in S : f[w] = 0 /\ f[w] = w.balance
  OBVIOUS
<1> HIDE DEF f
<1>2. PICK g : Sums(f, S, g) /\ TotalBalance(S) = g[S]
  BY <1>1, TotalBalanceSums
<1>3. g[S] = 0
  <2> DEFINE Bad == {s \in SUBSET S : g[s] # 0}
  <2> SUFFICES ASSUME Bad # {} PROVE FALSE
    OBVIOUS
  <2>1. PICK s \in Bad : \A t \in Bad : t \subseteq s => t = s
    <3>1. Bad \subseteq SUBSET S
      OBVIOUS
    <3> HIDE DEF Bad
    <3> QED
      BY <3>1, SmallestSubset
  <2>2. s # {}
    <3>1. g[s] # 0 /\ g[{}] = 0
      BY <1>2, SumStep
    <3> QED
      BY <3>1
  <2>3. Chosen(s) \in s /\ g[s] = f[Chosen(s)] + g[s \ {Chosen(s)}]
    BY <1>2, <2>1, <2>2, SumStep
  <2>4. g[s \ {Chosen(s)}] = 0
    BY <2>1, <2>3
  <2> QED
    BY <1>1, <2>1, <2>3, <2>4
<1>4. TotalNet({}) = 0
  <2>1. IsFiniteSet({}) /\ \A t \in {} : f[t] = NetOf(t)
    BY FS_EmptySet
  <2>2. PICK h : Sums(f, {}, h) /\ TotalNet({}) = h[{}]
    BY <2>1, TotalNetSums
  <2> QED
    BY <2>2, SumStep
<1> QED
  BY <1>2, <1>3, <1>4

LEMMA BalanceAdded ==
    ASSUME NEW S, IsFiniteSet(S), \A w \in S : w.balance \in Int,
           NEW n, n \notin S, n.balance \in Int
    PROVE  /\ IsFiniteSet(S \cup {n})
           /\ TotalBalance(S \cup {n}) = TotalBalance(S) + n.balance
           /\ TotalBalance(S) \in Int
<1> DEFINE T == S \cup {n}
<1>1. /\ IsFiniteSet(T) /\ n \in T /\ \A w \in T : w.balance \in Int
      /\ T \ {n} = S
  BY FS_AddElement
<1> HIDE DEF T
<1>2. TotalBalance(T) = n.balance + TotalBalance(T \ {n}) /\ TotalBalance(T \ {n}) \in Int
  BY <1>1, TotalBalanceOfAny
<1>3. TotalBalance(T) = TotalBalance(S) + n.balance /\ TotalBalance(S) \in Int
  <2>1. TotalBalance(T \ {n}) = TotalBalance(S)
    BY <1>1
  <2> QED
    BY <1>2, <2>1
<1> QED
  BY <1>1, <1>3 DEF T

LEMMA BalanceReplaced ==
    ASSUME NEW S, IsFiniteSet(S), \A w \in S : w.balance \in Int,
           NEW v \in S, NEW n, n \notin S \ {v}, n.balance \in Int
    PROVE  /\ IsFiniteSet((S \ {v}) \cup {n})
           /\ TotalBalance((S \ {v}) \cup {n}) = TotalBalance(S) - v.balance + n.balance
           /\ TotalBalance(S) \in Int
<1> DEFINE T == S \ {v}
<1>1. IsFiniteSet(T) /\ \A w \in T : w.balance \in Int
  BY FS_Subset
<1>2. TotalBalance(S) = v.balance + TotalBalance(T) /\ TotalBalance(T) \in Int
  BY TotalBalanceOfAny
<1> HIDE DEF T
<1>3. IsFiniteSet(T \cup {n}) /\ TotalBalance(T \cup {n}) = TotalBalance(T) + n.balance
  BY <1>1, BalanceAdded DEF T
<1> QED
  BY <1>2, <1>3 DEF T

LEMMA NetAdded ==
    ASSUME NEW S, IsFiniteSet(S), \A t \in S : NetOf(t) \in Int,
           NEW u, u \notin S, NetOf(u) \in Int
    PROVE  /\ IsFiniteSet(S \cup {u})
           /\ TotalNet(S \cup {u}) = TotalNet(S) + NetOf(u)
           /\ TotalNet(S) \in Int
<1> DEFINE T == S \cup {u}
<1>1. /\ IsFiniteSet(T) /\ u \in T /\ \A t \in T : NetOf(t) \in Int
      /\ T \ {u} = S
  BY FS_AddElement
<1> HIDE DEF T
<1>2. TotalNet(T) = NetOf(u) + TotalNet(T \ {u}) /\ TotalNet(T \ {u}) \in Int
  BY <1>1, TotalNetOfAny
<1>3. TotalNet(T) = TotalNet(S) + NetOf(u) /\ TotalNet(S) \in Int
  <2>1. TotalNet(T \ {u}) = TotalNet(S)
    BY <1>1
  <2> QED
    BY <1>2, <2>1
<1> QED
  BY <1>1, <1>3 DEF T

-----------------------------------------------------------------------------
(* Money                                                                   *)

ConservedOK ==
    IsFiniteSet(wallets) /\ IsFiniteSet(transactions) /\ MoneyConserved

LEMMA AmountsAreIntegers ==
    ASSUME StagedInv
    PROVE  /\ \A w \in wallets : w.balance \in Int
           /\ \A t \in transactions : NetOf(t) \in Int
<1>1. \A w \in wallets : w.balance \in Int
  BY DEF StagedInv, MoneyInv, TypeOK, StoreTypeOK, Wallet
<1>2. \A t \in transactions : t.amount \in Int
                              /\ t.type \in {"DEPOSIT", "WITHDRAWAL", "TRANSFER"}
  BY DEF StagedInv, MoneyInv, TypeOK, StoreTypeOK, FinancialTransaction
<1>3. \A t \in transactions : NetOf(t) \in Int
  BY <1>2 DEF NetOf
<1> QED
  BY <1>1, <1>3

\* What a commit adds to balances is what its transaction brings in.
LEMMA PostingConserves ==
    ASSUME StagedInv, ConservedOK, NEW q \in Requests, ServerCommits(q), StagesAll(q)
    PROVE  ConservedOK'
<1> DEFINE c == command[q]
<1>1. /\ wallets' = {w \in wallets : \A new \in tx[q].wallets : new.id # w.id}
                      \cup tx[q].wallets
      /\ transactions' = transactions \cup {Posted(q)} /\ Live(q)
      /\ tx[q].transactions = {Posted(q)} /\ c.kind # "CREATE"
      /\ \A t \in transactions : t.id # q
  BY NotPostedYet DEF ServerCommits, ApplyCommit, Live, StagesAll, StagesPosting
<1>2. /\ rows[q] \subseteq wallets /\ rows[q] \subseteq Wallet /\ c \in Command
      /\ Participants(c) = {v.id : v \in rows[q]}
      /\ tx[q].wallets = {Mutated(v, c) : v \in rows[q]}
      /\ \A v \in rows[q] : Mutated(v, c).id = v.id
  BY <1>1, PostingMatches
<1>3. \A v, w \in wallets : v.id = w.id => v = w
  BY DEF StagedInv, MoneyInv, MoneyOK, WalletsOK
<1>4. TransactionRowValid(Posted(q))
  BY <1>1 DEF StagedInv, MoneyInv, MoneyOK, MoneyOf
<1>5. /\ c.kind = "DEPOSIT"    => c.source = NoID /\ c.destination # NoID
      /\ c.kind = "WITHDRAWAL" => c.source # NoID /\ c.destination = NoID
      /\ c.kind = "TRANSFER"   => /\ c.source # NoID /\ c.destination # NoID
                                  /\ c.source # c.destination
  BY <1>4 DEF Posted, TransactionRowValid
<1>6. /\ c.amount \in Int /\ \A v \in rows[q] : v.balance \in Int
      /\ c.kind \in {"DEPOSIT", "WITHDRAWAL", "TRANSFER"}
  BY <1>1, <1>2, DomainAssumption DEF Command, Wallet
<1>7. ASSUME NEW v \in rows[q]
      PROVE  Mutated(v, c).balance = IF v.id = c.source THEN v.balance - c.amount
                                     ELSE v.balance + c.amount
  <2>1. v \in Wallet
    BY <1>2
  <2> QED
    BY <2>1 DEF Mutated, Debit, Credit, Wallet
<1>8. PICK t : /\ transactions' = transactions \cup {t} /\ t \notin transactions
               /\ NetOf(t) = CASE c.kind = "DEPOSIT"    -> c.amount
                               [] c.kind = "WITHDRAWAL" -> - c.amount
                               [] c.kind = "TRANSFER"   -> 0
  <2>1. Posted(q).id = q /\ Posted(q).type = c.kind /\ Posted(q).amount = c.amount
    BY DEF Posted
  <2>2. NetOf(Posted(q)) = CASE c.kind = "DEPOSIT"    -> c.amount
                             [] c.kind = "WITHDRAWAL" -> - c.amount
                             [] c.kind = "TRANSFER"   -> 0
    BY <2>1 DEF NetOf
  <2> QED
    BY <1>1, <2>1, <2>2
<1> HIDE DEF c
<1>9. NetOf(t) \in Int
  BY <1>6, <1>8
<1>10. /\ IsFiniteSet(transactions')
       /\ TotalNet(transactions') = TotalNet(transactions) + NetOf(t)
       /\ TotalNet(transactions) \in Int
  BY <1>8, <1>9, AmountsAreIntegers, NetAdded DEF ConservedOK
<1>11. CASE c.kind \in {"DEPOSIT", "WITHDRAWAL"}
  <2>1. PICK v \in rows[q] : rows[q] = {v}
    <3>1. PICK id : Participants(c) = {id}
      BY <1>5, <1>11 DEF Participants
    <3>2. PICK v \in rows[q] : v.id = id
      BY <1>2, <3>1
    <3>3. \A w \in rows[q] : w.id = id
      BY <1>2, <3>1
    <3> QED
      BY <1>2, <1>3, <3>2, <3>3
  <2>2. PICK n : n = Mutated(v, c)
    OBVIOUS
  <2>3. tx[q].wallets = {n} /\ n.id = v.id /\ v \in wallets
    BY <1>2, <2>1, <2>2
  <2>4. wallets' = (wallets \ {v}) \cup {n} /\ n \notin wallets \ {v}
    BY <1>1, <1>3, <2>3
  <2>5. v.id \in Participants(c) /\ v.id # NoID
    BY <1>2 DEF Participants
  <2>6. n.balance = v.balance + NetOf(t) /\ n.balance \in Int
    <3>1. c.kind = "DEPOSIT" => v.id # c.source
      BY <1>5, <2>5
    <3>2. c.kind = "WITHDRAWAL" => v.id = c.source
      BY <1>5, <2>5 DEF Participants
    <3> QED
      BY <1>6, <1>7, <1>8, <1>11, <2>2, <3>1, <3>2
  <2>7. /\ IsFiniteSet(wallets')
        /\ TotalBalance(wallets') = TotalBalance(wallets) - v.balance + n.balance
        /\ TotalBalance(wallets) \in Int
    BY <2>3, <2>4, <2>6, AmountsAreIntegers, BalanceReplaced DEF ConservedOK
  <2> QED
    BY <1>6, <1>9, <1>10, <2>6, <2>7 DEF ConservedOK, MoneyConserved
<1>12. CASE c.kind = "TRANSFER"
  <2>1. c.source # c.destination /\ Participants(c) = {c.source, c.destination}
    BY <1>5, <1>12 DEF Participants
  <2>2. PICK v \in rows[q] : v.id = c.source
    BY <1>2, <2>1
  <2>3. PICK w \in rows[q] : w.id = c.destination
    BY <1>2, <2>1
  <2>4. rows[q] = {v, w} /\ v # w /\ v \in wallets /\ w \in wallets
    BY <1>2, <1>3, <2>1, <2>2, <2>3
  <2>5. PICK n : n = Mutated(v, c)
    OBVIOUS
  <2>6. PICK m : m = Mutated(w, c)
    OBVIOUS
  <2>7. tx[q].wallets = {n, m} /\ n.id = v.id /\ m.id = w.id
    BY <1>2, <2>4, <2>5, <2>6
  <2>8. n.balance = v.balance - c.amount /\ m.balance = w.balance + c.amount
    BY <1>7, <2>1, <2>2, <2>3, <2>5, <2>6
  <2> DEFINE S == (wallets \ {v}) \cup {n}
  <2>9. /\ wallets' = (S \ {w}) \cup {m} /\ w \in S
        /\ n \notin wallets \ {v} /\ m \notin S \ {w}
    BY <1>1, <1>3, <2>1, <2>2, <2>3, <2>4, <2>7
  <2>10. n.balance \in Int /\ m.balance \in Int /\ \A u \in S : u.balance \in Int
    BY <1>6, <2>8, AmountsAreIntegers
  <2>11. /\ IsFiniteSet(S)
         /\ TotalBalance(S) = TotalBalance(wallets) - v.balance + n.balance
         /\ TotalBalance(wallets) \in Int
    BY <2>4, <2>9, <2>10, AmountsAreIntegers, BalanceReplaced DEF ConservedOK
  <2> HIDE DEF S
  <2>12. /\ IsFiniteSet(wallets')
         /\ TotalBalance(wallets') = TotalBalance(S) - w.balance + m.balance
    BY <2>9, <2>10, <2>11, BalanceReplaced
  <2>13. NetOf(t) = 0
    BY <1>8, <1>12
  <2> QED
    BY <1>6, <1>10, <2>8, <2>11, <2>12, <2>13 DEF ConservedOK, MoneyConserved
<1> QED
  BY <1>6, <1>11, <1>12

LEMMA ConservedStep ==
    ASSUME StagedInv, ConservedOK, [Next]_vars
    PROVE  ConservedOK'
<1>1. CASE UNCHANGED <<wallets, transactions>>
  BY <1>1 DEF ConservedOK, MoneyConserved
<1>2. ASSUME NEW q \in Requests, ServerCommits(q), StagesWallet(q)
      PROVE  ConservedOK'
  <2> DEFINE n == NewWallet(newID[q], command[q])
  <2>1. /\ wallets' = wallets \cup {n} /\ UNCHANGED transactions
        /\ \A w \in wallets : w.id # newID[q]
    BY <1>2, Commits DEF StagesNothing, StagesWallet, StagesAll, StagesPosting
  <2>2. n.id = newID[q] /\ n.balance = 0
    BY DEF NewWallet
  <2> HIDE DEF n
  <2>3. n \notin wallets
    BY <2>1, <2>2
  <2>4. /\ IsFiniteSet(wallets') /\ TotalBalance(wallets') = TotalBalance(wallets) + 0
        /\ TotalBalance(wallets) \in Int
    BY <2>1, <2>2, <2>3, AmountsAreIntegers, BalanceAdded DEF ConservedOK
  <2> QED
    BY <2>1, <2>4 DEF ConservedOK, MoneyConserved
<1>3. CASE \E q \in Requests : RequestStep(q)
  BY <1>1, <1>2, <1>3, OnlyCommitsChangeTables, Commits, PostingConserves DEF tables
<1>4. CASE Operator
  <2>1. PICK v \in wallets, status \in OperatorStatuses : OperatorSetsStatus(v, status)
    BY <1>4 DEF Operator
  <2> DEFINE n == [v EXCEPT !.status = status]
  <2>2. n.id = v.id /\ n.balance = v.balance /\ v.balance \in Int
    BY DEF StagedInv, MoneyInv, TypeOK, StoreTypeOK, Wallet
  <2>3. wallets' = (wallets \ {v}) \cup {n} /\ UNCHANGED transactions
    BY <2>1 DEF OperatorSetsStatus
  <2> HIDE DEF n
  <2>4. n \notin wallets \ {v}
    BY <2>2 DEF StagedInv, MoneyInv, MoneyOK, WalletsOK
  <2>5. /\ IsFiniteSet(wallets')
        /\ TotalBalance(wallets') = TotalBalance(wallets) - v.balance + n.balance
        /\ TotalBalance(wallets) \in Int
    BY <2>2, <2>3, <2>4, AmountsAreIntegers, BalanceReplaced DEF ConservedOK
  <2> QED
    BY <2>2, <2>3, <2>5 DEF ConservedOK, MoneyConserved
<1>5. CASE UNCHANGED vars
  BY <1>1, <1>5 DEF vars, storeVars
<1> QED
  BY <1>3, <1>4, <1>5, NextSplit

\* Debit and Credit, on one wallet or on the two of a transfer, make and lose no
\* money: however many requests are retried, refused or cut off, the balances of
\* all wallets add up to the committed deposits less the committed withdrawals.
\* The database starts with finitely many wallets.
THEOREM MoneyIsConserved ==
    ASSUME IsFiniteSet(OpenedWallets)
    PROVE  Spec => []MoneyConserved
<1>1. Init => ConservedOK
  <2> SUFFICES ASSUME Init PROVE ConservedOK
    OBVIOUS
  <2>1. wallets = OpenedWallets /\ transactions = {} /\ \A w \in wallets : w.balance = 0
    BY ServiceAssumption DEF Init
  <2>2. TotalBalance(wallets) = 0 /\ TotalNet({}) = 0
    BY <2>1, NothingTotals
  <2> QED
    BY <2>1, <2>2, FS_EmptySet DEF ConservedOK, MoneyConserved
<1>2. StagedInv /\ ConservedOK /\ [Next]_vars => ConservedOK'
  BY ConservedStep
<1>3. ConservedOK => MoneyConserved
  BY DEF ConservedOK
<1> QED
  BY <1>1, <1>2, <1>3, StagedInvariant, PTL DEF Spec
=============================================================================
