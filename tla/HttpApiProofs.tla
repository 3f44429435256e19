----------------------------- MODULE HttpApiProofs -----------------------------
(***************************************************************************)
(* Proofs about the service as its clients see it: what a status tells a   *)
(* client of the request it sent.                                          *)
(***************************************************************************)
EXTENDS WalletReadsProofs, HttpApi

-----------------------------------------------------------------------------
(* What the handlers add                                                   *)

LEMMA HandlersAddNothing ==
    ASSUME [HttpNext]_httpVars
    PROVE  [ReadsNext]_readsVars
<1>1. ASSUME NEW r \in Requests, Exchanged(r)
      PROVE  [ReadsNext]_readsVars
  <2>1. CASE \/ \E m \in Messages : Receive(r, m)
             \/ Respond(r)
    BY <2>1 DEF Receive, Respond
  <2>2. CASE \E m \in Messages : ReceiveCommand(r, m)
    BY <2>2 DEF ReceiveCommand, ReadsNext, Next
  <2>3. CASE \/ DeadlineInRollback(r)
             \/ /\ Proceed(r) \/ Server(r) \/ Failure(r)
                /\ UNCHANGED <<reading, exchange>>
    BY <2>3 DEF DeadlineInRollback, ReadsNext, Next, Failure
  <2> QED
    BY <1>1, <2>1, <2>2, <2>3 DEF Exchanged
<1>2. ASSUME NEW d \in Readers, ExchangedRead(d)
      PROVE  [ReadsNext]_readsVars
  BY <1>2 DEF ExchangedRead, Receive, RespondRead, Ping, ReceiveQuery, ReadsNext
<1> QED
  BY <1>1, <1>2 DEF HttpNext, HttpTerminating, httpVars

\* The handlers do nothing to the database but through the use cases: whatever
\* messages come in, the service and the reads go on as they do without HTTP, and
\* all that is proved of their behaviours holds there too.
THEOREM HandlersOnlyTranslate == HttpSpec => ReadsSpec /\ Spec
<1>1. [HttpNext]_httpVars => [ReadsNext]_readsVars
  BY HandlersAddNothing
<1>2. HttpInit => ReadsInit
  BY DEF HttpInit
<1>3. HttpSpec => ReadsSpec
  BY <1>1, <1>2, PTL DEF HttpSpec, ReadsSpec
<1> QED
  BY <1>3, ReadersDoNotDisturb

-----------------------------------------------------------------------------
(* The errors of the use cases                                             *)

Failures == {"40P01", "ErrDatabase", "ErrUnavailable"}
Absences == {"ErrWalletNotFound", "ErrTransactionNotFound", "ErrWalletAccessDenied"}

\* Which errors can be told to whom.
ErrorOf(r) ==
    /\ pc[r] = "idle" => err[r] = NoError
    /\ Running(r) /\ newID[r] = NoID => faults > 0
    /\ err[r] \in Failures => faults > 0 \/ command[r].key \in NonUTF8Keys
    /\ command[r].kind = "CREATE" => err[r] \notin Absences
    /\ err[r] = "ErrKeyRequired" => command[r].key = NoName

ErrorsOK == \A r \in Requests : ErrorOf(r)

\* A replayed CreateWallet finds its wallet, and as its owner's.
LEMMA WalletOfReplay ==
    ASSUME PromiseInv, AnswerOK, NEW q \in Requests, ReadWallet(q)
    PROVE  \E v \in wallets : v.id = found[q] /\ v.owner = command[q].owner
<1> USE DEF PromiseInv, StagedInv, MoneyInv
<1>1. PICK rec \in idempotency : RecordOf(q, rec) /\ rec.resource = found[q]
  BY DEF AnswerOK, AnswerOf, ReadWallet
<1>2. rec.type = "WALLET" /\ rec.scope = command[q].owner
  BY <1>1 DEF RecordOf, resourceType, ReadWallet
<1> QED
  BY <1>1, <1>2 DEF RecordsOK, EveryRecordResolves

LEMMA ReplayFindsWallet ==
    ASSUME PromiseInv, AnswerOK, NEW q \in Requests, ReadWallet(q)
    PROVE  err'[q] = err[q]
<1> USE DEF PromiseInv, StagedInv, MoneyInv
<1>2. PICK v \in wallets : v.id = found[q] /\ v.owner = command[q].owner
  BY WalletOfReplay
<1>3. \A w \in wallets : w.id = found[q] => w = v
  BY <1>2 DEF MoneyOK, WalletsOK
<1> QED
  BY <1>2, <1>3 DEF ReadWallet

LEMMA NoOtherRefusals ==
    ASSUME NEW w, NEW c
    PROVE  /\ DebitError(w, c) \notin Failures \cup {"ErrKeyRequired"}
           /\ CreditError(w, c) \notin Failures \cup {"ErrKeyRequired"}
BY DEF DebitError, CreditError, validateMutation, AddMinorError, NoError, Failures

\* Failures are counted.
LEMMA FaultsGrow ==
    ASSUME TypeOK, NEW q \in Requests, RequestStep(q)
    PROVE  faults' >= faults /\ faults \in Nat /\ faults' \in Nat
<1>1. faults' = faults \/ faults' = faults + 1
  BY DEF RequestStep, Arrive, Proceed, Server, Failure, Begin, ReserveKey, LoseKey,
     ReadKey, ReadWallet, ReadTransaction, ReadEntries, LockWallet, MissWallet, Refuse,
     CreateFinancialTransaction, UpdateWallet, CreateLedgerEntry, CreateWallet,
     RefuseSecondWallet, RefuseRecord, Commit, CommitAcknowledged, Rollback, Retry,
     ServerCommits,
     BackendGone, Abandon, StatementFails, CommitFails, RollbackFails, Fault
<1> QED
  BY <1>1, ServiceAssumption DEF TypeOK, RequestTypeOK

LEMMA OwnError ==
    ASSUME PromiseInv, AnswerOK, NEW q \in Requests, RequestStep(q), ErrorOf(q)
    PROVE  ErrorOf(q)'
<1> USE DEF PromiseInv, StagedInv, MoneyInv, TypeOK, RequestTypeOK, StoreTypeOK, Goto,
        Answer, Fail, Conclude
<1> DEFINE Same == /\ command'[q] = command[q] /\ faults' >= faults
                   /\ Running(q) /\ pc'[q] # "idle"
                   /\ newID'[q] # newID[q] => newID'[q] # NoID
<1>0. faults' >= faults /\ faults \in Nat /\ faults' \in Nat
  BY FaultsGrow
<1>1. CASE Arrive(q)
  <2>1. /\ command'[q] \in Command /\ pc'[q] # "idle"
        /\ err'[q] = NoError \/ err'[q] = ValidationError(command'[q])
    BY <1>1, ServiceAssumption DEF Arrive, ErrorOf
  <2>2. Running(q)' => newID'[q] # NoID
    <3>1. \A c : NoID \notin FreshIDs(q, c)
      BY DomainAssumption DEF FreshIDs
    <3> QED
      BY <1>1, <3>1 DEF Arrive, Running
  <2> QED
    BY <2>1, <2>2 DEF ErrorOf, ValidationError, NoError, Failures, Absences
<1>2. ASSUME Same, err'[q] = err[q] \/ err'[q] = NoError
      PROVE  ErrorOf(q)'
  BY <1>0, <1>2 DEF ErrorOf, NoError, Failures, Absences
<1>3. CASE \/ Begin(q) \/ ReserveKey(q) \/ LoseKey(q) \/ ReadEntries(q) \/ LockWallet(q)
           \/ CreateFinancialTransaction(q) \/ UpdateWallet(q) \/ CreateLedgerEntry(q)
           \/ CreateWallet(q) \/ Commit(q) \/ CommitAcknowledged(q) \/ Retry(q)
  <2>1. Same /\ (err'[q] = err[q] \/ err'[q] = NoError)
    BY <1>0, <1>3 DEF Running, Begin, ReserveKey, LoseKey, ReadEntries, LockWallet,
       CreateFinancialTransaction, UpdateWallet, CreateLedgerEntry, CreateWallet, Commit,
       CommitAcknowledged, Retry
  <2> QED
    BY <1>2, <2>1
<1>4. CASE Rollback(q) \/ ReadWallet(q)
  <2>1. newID'[q] # newID[q] => newID'[q] # NoID
    <3>1. \A w \in wallets : w.id # NoID
      BY DomainAssumption DEF Wallet
    <3>2. CASE ReadWallet(q)
      <4>1. \E w \in wallets : newID' = [newID EXCEPT ![q] = w.id]
        <5>1. ASSUME ~ \E w \in wallets : w.id = found[q]
              PROVE  FALSE
          BY <3>2, <5>1, WalletOfReplay
        <5> QED
          BY <3>2, <5>1 DEF ReadWallet
      <4> QED
        BY <3>1, <4>1
    <3> QED
      BY <1>4, <3>2 DEF Rollback
  <2>2. Same /\ err'[q] = err[q]
    BY <1>0, <1>4, <2>1, ReplayFindsWallet DEF Rollback, ReadWallet, Running
  <2> QED
    BY <1>2, <2>2
<1>5. CASE Server(q)
  BY <1>0, <1>5 DEF Server, ServerCommits, BackendGone, requestVars, ErrorOf, Running
<1>6. CASE Failure(q)
  <2>1. Fault /\ command'[q] = command[q] /\ pc'[q] # "idle"
    BY <1>0, <1>6 DEF Failure, StatementFails, CommitFails, RollbackFails, Abandon, Fault
  <2>2. faults' > 0
    BY <1>0, <2>1 DEF Fault
  <2>3. err'[q] \in Failures \cup {err[q]}
    BY <1>6 DEF Failure, StatementFails, CommitFails, RollbackFails, Abandon, Failures
  <2> QED
    BY <2>1, <2>2, <2>3 DEF ErrorOf, NoError, Failures, Absences
<1>7. CASE ReadKey(q) \/ RefuseSecondWallet(q)
  <2>1. Same /\ err'[q] \in {err[q], "ErrIdempotencyConflict", "ErrOwnerHasWallet"}
    BY <1>0, <1>7 DEF ReadKey, RefuseSecondWallet, Running
  <2> QED
    BY <1>0, <2>1 DEF ErrorOf, NoError, Failures, Absences
<1>10. CASE RefuseRecord(q)
  <2>1. Same /\ err'[q] = "ErrDatabase"
    BY <1>0, <1>10 DEF RefuseRecord, Running
  <2>2. command[q].key \in NonUTF8Keys \/ newID[q] = NoID
    BY <1>10 DEF RefuseRecord, Storable, Record
  <2> QED
    BY <1>0, <2>1, <2>2 DEF ErrorOf, NoError, Failures, Absences
<1>8. CASE ReadTransaction(q) \/ MissWallet(q)
  <2>1. Same /\ err'[q] \in {err[q], "ErrTransactionNotFound", "ErrWalletNotFound"}
    BY <1>0, <1>8 DEF ReadTransaction, MissWallet, Running
  <2>2. command[q].kind # "CREATE"
    BY <1>8 DEF ReadTransaction, MissWallet, ControlOK, ControlOf, KindOK
  <2> QED
    BY <1>0, <2>1, <2>2 DEF ErrorOf, NoError, Failures, Absences
<1>9. CASE Refuse(q)
  <2>1. Same /\ command[q].kind # "CREATE"
    BY <1>0, <1>9 DEF Running, Refuse, ControlOK, ControlOf, KindOK
  <2>2. \E w : err'[q] \in {"ErrWalletAccessDenied", DebitError(w, command[q]),
                            CreditError(w, command[q])}
    BY <1>9 DEF Refuse
  <2>3. err'[q] \notin Failures \cup {"ErrKeyRequired"}
    BY <2>2, NoOtherRefusals DEF Failures
  <2> QED
    BY <1>0, <2>1, <2>3 DEF ErrorOf, NoError
<1> QED
  BY <1>1, <1>3, <1>4, <1>5, <1>6, <1>7, <1>8, <1>9, <1>10 DEF RequestStep, Proceed

LEMMA ErrorsStep ==
    ASSUME PromiseInv, AnswerOK, ErrorsOK, [Next]_vars
    PROVE  ErrorsOK'
<1>1. ASSUME NEW q \in Requests, RequestStep(q), NEW r \in Requests \ {q}
      PROVE  ErrorOf(r)'
  <2>1. /\ pc'[r] = pc[r] /\ err'[r] = err[r] /\ command'[r] = command[r]
        /\ newID'[r] = newID[r]
    BY <1>1, OthersUnchanged DEF PromiseInv, StagedInv, MoneyInv, Local
  <2>2. faults' >= faults /\ faults \in Nat /\ faults' \in Nat
    BY <1>1, FaultsGrow DEF PromiseInv, StagedInv, MoneyInv
  <2> QED
    BY <2>1, <2>2 DEF ErrorsOK, ErrorOf, Running
<1>2. CASE Operator
  BY <1>2, ServiceAssumption
     DEF Operator, OperatorSetsStatus, requestVars, Fault, ErrorsOK, ErrorOf, Running, PromiseInv,
     StagedInv, MoneyInv, TypeOK, RequestTypeOK
<1>3. CASE UNCHANGED vars
  BY <1>3 DEF vars, requestVars, ErrorsOK, ErrorOf, Running
<1> QED
  BY <1>1, <1>2, <1>3, NextSplit, OwnError DEF ErrorsOK

LEMMA ErrorsInvariant == Spec => []ErrorsOK
<1>1. Init => ErrorsOK
  BY DEF Init, ErrorsOK, ErrorOf, Running, NoError, Failures, Absences, NoCommand
<1>2. PromiseInv /\ AnswerOK /\ ErrorsOK /\ [Next]_vars => ErrorsOK'
  BY ErrorsStep
<1> QED
  BY <1>1, <1>2, AnswerInvariant, PTL DEF Spec

-----------------------------------------------------------------------------
(* The errors of the reads                                                 *)

ReadErrors ==
    {NoError, "ErrWalletNotFound", "ErrTransactionNotFound", "ErrWalletAccessDenied",
     "ErrInvalidOwner", "ErrLimit", "ErrUnavailable"}

\* A limit is refused for what it is, and a read fails only when something does.
ReadErrorOf(d) ==
    LET r == reading[d]
    IN  /\ r.error \in ReadErrors
        /\ r.error = "ErrUnavailable" => r.losses > 0
        /\ r.error = "ErrLimit" => QueryError(r.query) = "ErrLimit"

ReadErrorsOK == \A d \in Readers : ReadErrorOf(d)

\* A read that goes on keeps its query, and what it finds out it says.
LEMMA ReadGoesOn ==
    ASSUME ReadingOK, NEW d \in Readers, ReadProceeds(d) \/ ReadFails(d)
    PROVE  /\ reading[d].at \notin {"idle", "done"} /\ reading'[d].at # "idle"
           /\ reading'[d].query = reading[d].query
           /\ \/ /\ reading'[d].losses = reading[d].losses
                 /\ reading'[d].error \in {reading[d].error, NoError} \cup Absences
              \/ /\ reading'[d].losses > 0
                 /\ reading'[d].error \in {NoError, "ErrUnavailable"}
<1> DEFINE r == reading[d]
           n == reading'[d]
           Goal == /\ n.at # "idle" /\ n.query = r.query
                   /\ \/ n.losses = r.losses /\ n.error \in {r.error, NoError} \cup Absences
                      \/ n.losses > 0 /\ n.error \in {NoError, "ErrUnavailable"}
<1>t. reading \in [Readers -> Reading] /\ r \in Reading
  BY DEF ReadingOK
<1>1. r.at \notin {"idle", "done"}
  BY DEF ReadProceeds, ReadWalletRow, ReadOperation, ReadOperationEntries,
     AuthorizeOperation, ReadPage, ReadFails
<1> SUFFICES Goal
  BY <1>1
<1>2. ASSUME NEW e \in {NoError} \cup Absences, ReadAnswer(d, e)
      PROVE  Goal
  <2>1. n = [r EXCEPT !.at = "done", !.error = e]
    BY <1>t, <1>2 DEF ReadAnswer
  <2> QED
    BY <1>t, <2>1 DEF Reading
<1>4. CASE ReadWalletRow(d)
  <2> DEFINE row == {w \in wallets : w.id = r.query.wallet}
             at == IF r.query.kind = "WALLET" THEN "done" ELSE "page"
  <2>1. \/ ReadAnswer(d, "ErrWalletNotFound") \/ ReadAnswer(d, "ErrWalletAccessDenied")
        \/ n = [r EXCEPT !.found = row, !.at = at]
    BY <1>t, <1>4 DEF ReadWalletRow
  <2>2. at # "idle"
    OBVIOUS
  <2> HIDE DEF row, at
  <2>3. CASE n = [r EXCEPT !.found = row, !.at = at]
    BY <1>t, <2>2, <2>3 DEF Reading
  <2> QED
    BY <1>2, <2>1, <2>3 DEF Absences
<1>5. CASE ReadOperation(d)
  <2> DEFINE row == {t \in transactions : t.id = r.query.transaction}
  <2>1. \/ ReadAnswer(d, "ErrTransactionNotFound")
        \/ n = [r EXCEPT !.at = "entries", !.found = row]
    BY <1>t, <1>5 DEF ReadOperation
  <2> HIDE DEF row
  <2>2. CASE n = [r EXCEPT !.at = "entries", !.found = row]
    BY <1>t, <2>2 DEF Reading
  <2> QED
    BY <1>2, <2>1, <2>2 DEF Absences
<1>6. CASE ReadOperationEntries(d)
  <2> DEFINE left == UNION {Participants(t) : t \in r.found}
             read == EntriesOf(r.query.transaction)
  <2>1. n = [r EXCEPT !.at = "authorize", !.entries = read, !.left = left]
    BY <1>t, <1>6 DEF ReadOperationEntries
  <2> HIDE DEF left, read
  <2> QED
    BY <1>t, <2>1 DEF Reading
<1>7. CASE \E id \in WalletIDs : AuthorizeOperation(d, id)
  <2>1. PICK id \in WalletIDs : AuthorizeOperation(d, id)
    BY <1>7
  <2> DEFINE left == r.left \ {id}
  <2>2. \/ ReadAnswer(d, "ErrWalletNotFound") \/ ReadAnswer(d, NoError)
        \/ ReadAnswer(d, "ErrWalletAccessDenied")
        \/ n = [r EXCEPT !.left = left]
    BY <1>t, <2>1 DEF AuthorizeOperation
  <2> HIDE DEF left
  <2>3. CASE n = [r EXCEPT !.left = left]
    BY <1>t, <1>1, <2>3 DEF Reading
  <2> QED
    BY <1>2, <2>2, <2>3 DEF Absences
<1>8. CASE ReadPage(d)
  <2> DEFINE c == decodeCursor(r.cursor)
             page  == Page(r.query, c)
             items == r.items \o page
             token == encodeCursor(IF HasMore(r.query, c) THEN Last(page).sequence ELSE 0)
             base  == IF c = 0 THEN Matching(r.query, 0) ELSE r.baseline
             at    == IF HasMore(r.query, c) THEN "wallet" ELSE "done"
  <2>1. n = [r EXCEPT !.items = items, !.cursor = token, !.baseline = base, !.at = at]
    BY <1>t, <1>8 DEF ReadPage
  <2>2. at # "idle"
    OBVIOUS
  <2> HIDE DEF items, token, base, at
  <2> QED
    BY <1>t, <2>1, <2>2 DEF Reading
<1>9. CASE ReadFails(d)
  <2> DEFINE at == IF r.query.kind = "HISTORY" THEN "wallet" ELSE "done"
             e  == IF r.query.kind = "HISTORY" THEN NoError ELSE "ErrUnavailable"
  <2>1. n = [r EXCEPT !.losses = r.losses + 1, !.at = at, !.error = e]
    BY <1>t, <1>9 DEF ReadFails
  <2>2. e \in {NoError, "ErrUnavailable"} /\ at # "idle"
    OBVIOUS
  <2> HIDE DEF at, e
  <2> QED
    BY <1>t, <2>1, <2>2 DEF Reading
<1> QED
  BY <1>1, <1>4, <1>5, <1>6, <1>7, <1>8, <1>9 DEF ReadProceeds

LEMMA OwnReadError ==
    ASSUME ReadingOK, NEW d \in Readers, ReadErrorOf(d), ReaderStep(d)
    PROVE  ReadErrorOf(d)'
<1>1. CASE ReadArrives(d)
  <2>1. PICK p \in Queries : reading' = [reading EXCEPT
           ![d].query = p, ![d].error = QueryError(p),
           ![d].at = IF QueryError(p) # NoError THEN "done"
                     ELSE IF p.kind = "TRANSACTION" THEN "operation" ELSE "wallet"]
    BY <1>1 DEF ReadArrives
  <2>2. reading'[d].query = p /\ reading'[d].error = QueryError(p)
    BY <2>1 DEF ReadingOK, Reading
  <2> QED
    BY <2>2 DEF ReadErrorOf, QueryError, ReadErrors, NoError
<1>2. CASE ReadProceeds(d) \/ ReadFails(d)
  BY <1>2, ReadGoesOn DEF ReadErrorOf, ReadErrors, Absences, NoError, QueryError, MaxLimit
<1> QED
  BY <1>1, <1>2 DEF ReaderStep

LEMMA ReadErrorsInvariant == ReadsSpec => []ReadErrorsOK
<1>1. ReadsInit => ReadErrorsOK
  BY DEF ReadsInit, ReadErrorsOK, ReadErrorOf, ReadErrors, NotRead, NoError
<1>2. ASSUME ReadsInv, ReadErrorsOK, [ReadsNext]_readsVars
      PROVE  ReadErrorsOK'
  <2>1. CASE UNCHANGED reading
    BY <1>2, <2>1 DEF ReadErrorsOK, ReadErrorOf, QueryError, MaxLimit
  <2>2. ASSUME NEW d \in Readers, ReaderStep(d)
        PROVE  ReadErrorsOK'
    <3>1. ReadErrorOf(d)'
      BY <1>2, <2>2, OwnReadError DEF ReadsInv, ReadErrorsOK
    <3>2. ASSUME NEW c \in Readers \ {d}
          PROVE  ReadErrorOf(c)'
      <4>1. reading'[c] = reading[c]
        BY <1>2, <2>2, ReaderAlone DEF ReadsInv, ReadingOK
      <4> QED
        BY <1>2, <4>1 DEF ReadErrorsOK, ReadErrorOf, QueryError, MaxLimit
    <3> QED
      BY <3>1, <3>2 DEF ReadErrorsOK
  <2> QED
    BY <1>2, <2>1, <2>2 DEF ReadsNext, readsVars, ReaderStep
<1> QED
  BY <1>1, <1>2, ReadsInvariant, PTL DEF ReadsSpec

-----------------------------------------------------------------------------
(* What a handler does with a message                                      *)

LEMMA LeastIndex ==
    ASSUME NEW S \in SUBSET (1 .. 5), S # {}
    PROVE  Min(S) \in S
<1>1. \E x \in S : \A y \in S : x <= y
  <2>1. CASE 1 \in S
    BY <2>1
  <2>2. CASE 1 \notin S /\ 2 \in S
    BY <2>2
  <2>3. CASE 1 \notin S /\ 2 \notin S /\ 3 \in S
    BY <2>3
  <2>4. CASE 1 \notin S /\ 2 \notin S /\ 3 \notin S /\ 4 \in S
    BY <2>4
  <2>5. CASE 1 \notin S /\ 2 \notin S /\ 3 \notin S /\ 4 \notin S
    <3>1. \A x \in S : x = 5
      BY <2>5
    <3>2. 5 \in S
      BY <3>1
    <3> QED
      BY <3>1, <3>2
  <2> QED
    BY <2>1, <2>2, <2>3, <2>4, <2>5
<1> QED
  BY <1>1 DEF Min

\* The checks of a message, and the statuses they answer with.
Rejections(m) ==
    CASE m.route = "wallets" -> {400, 413, 415}
      [] m.route \in {"deposits", "withdrawals", "transfers"} -> {400, 413, 415, 422}
      [] OTHER -> {400}

LEMMA ChecksAnswer ==
    ASSUME NEW m
    PROVE  /\ DOMAIN Checks(m) \subseteq 1 .. 5
           /\ \A i \in DOMAIN Checks(m) : Checks(m)[i] \in Rejections(m) \cup {Passes}
<1> USE DEF decodeJSON, pathID, bodyIDs, ParseMoney, ownerIDFromRequest,
        idempotencyFromRequest, Check, Passes
<1>1. CASE m.route = "wallets"
  <2>1. Checks(m) = createWallet(m)
    BY <1>1 DEF Checks
  <2> QED
    BY <1>1, <2>1 DEF createWallet, Rejections
<1>2. CASE m.route \in {"deposits", "withdrawals"}
  <2>1. Checks(m) = changeBalance(m)
    BY <1>2 DEF Checks
  <2> QED
    BY <1>2, <2>1 DEF changeBalance, Rejections
<1>3. CASE m.route = "transfers"
  <2>1. Checks(m) = transfer(m)
    BY <1>3 DEF Checks
  <2> QED
    BY <1>3, <2>1 DEF transfer, Rejections
<1>4. CASE m.route \in {"wallet", "transaction"}
  <2>1. Checks(m) = getWallet(m)
    BY <1>4 DEF Checks, getWallet, getTransaction
  <2> QED
    BY <1>4, <2>1 DEF getWallet, Rejections
<1>5. CASE m.route = "history"
  <2>1. Checks(m) = listHistory(m)
    BY <1>5 DEF Checks
  <2> QED
    BY <1>5, <2>1 DEF listHistory, Rejections
<1>6. CASE m.route \notin Commanding \cup Querying
  <2>1. Checks(m) = <<>>
    BY <1>6 DEF Checks, Commanding, Querying
  <2> QED
    BY <2>1
<1> QED
  BY <1>1, <1>2, <1>3, <1>4, <1>5, <1>6 DEF Commanding, Querying

\* The first check that fails answers, or else the route.
LEMMA FirstFailureAnswers ==
    ASSUME NEW m, Routed(m) = Passes
    PROVE  \/ \E i \in DOMAIN Checks(m) :
                Checks(m)[i] # Passes /\ Immediate(m) = Checks(m)[i]
           \/ /\ \A i \in DOMAIN Checks(m) : Checks(m)[i] = Passes
              /\ \/ m.route = "docs" /\ Immediate(m) = 307
                 \/ /\ m.route \in (Documentation \ {"docs"}) \cup {"live"}
                    /\ Immediate(m) = 200
                 \/ /\ m.route \notin Documentation \cup {"live"}
                    /\ Immediate(m) = Passes
<1> DEFINE failed == {i \in DOMAIN Checks(m) : Checks(m)[i] # Passes}
<1>1. CASE failed # {}
  <2>1. Min(failed) \in failed
    <3>1. failed \in SUBSET (1 .. 5)
      BY ChecksAnswer
    <3> HIDE DEF failed
    <3> QED
      BY <1>1, <3>1, LeastIndex
  <2>2. Immediate(m) = Checks(m)[Min(failed)]
    BY <1>1 DEF Immediate
  <2> QED
    BY <2>1, <2>2
<1>2. CASE failed = {}
  <2>1. Immediate(m) = CASE m.route = "docs" -> 307
               [] m.route \in (Documentation \ {"docs"}) \cup {"live"} -> 200
               [] OTHER -> Passes
    BY <1>2 DEF Immediate
  <2> QED
    BY <1>2, <2>1 DEF Documentation
<1> QED
  BY <1>1, <1>2

\* What goes no further than its handler is answered as documented, and a command
\* that does not is the client's fault.
LEMMA ImmediateAnswers ==
    ASSUME NEW m \in Messages, Immediate(m) # Passes
    PROVE  /\ Immediate(m) \in Documented(m.route)
           /\ Immediate(m) \in Int /\ Immediate(m) < 500
           /\ m.route \in Commanding => Immediate(m) \in 400 .. 499
<1> USE DEF Documented, Commanding, Querying, Documentation, Health
<1>r. m.route \in Commanding \cup Querying \cup Health \cup Documentation \cup {"other"}
  BY HandlersAssumption DEF Message
<1>1. CASE Routed(m) # Passes
  <2>1. Immediate(m) = Routed(m)
    BY <1>1 DEF Immediate
  <2>2. \/ m.route \in Documentation \cup {"other"} /\ Routed(m) = 404
        \/ m.route # "other" /\ Routed(m) = 405
    BY <1>1, <1>r DEF Routed, Routes, registerDocumentationRoutes, Passes
  <2> QED
    BY <1>r, <2>1, <2>2
<1>2. CASE Routed(m) = Passes
  <2>1. m.route # "other"
    BY <1>2 DEF Routed, Routes, registerDocumentationRoutes, Passes
  <2>2. CASE \E i \in DOMAIN Checks(m) :
               Checks(m)[i] # Passes /\ Immediate(m) = Checks(m)[i]
    <3>1. Immediate(m) \in Rejections(m)
      BY <2>2, ChecksAnswer
    <3>2. m.route \in Commanding \cup Querying
      BY <2>2 DEF Checks
    <3> QED
      BY <3>1, <3>2 DEF Rejections
  <2>3. CASE /\ m.route \in Documentation \cup {"live"}
             /\ Immediate(m) = IF m.route = "docs" THEN 307 ELSE 200
    BY <2>3
  <2> QED
    BY <1>2, <2>2, <2>3, FirstFailureAnswers
<1> QED
  BY <1>1, <1>2

\* What goes further is a command with a key, or a query the use case accepts.
LEMMA PassedOn ==
    ASSUME NEW m \in Messages, Immediate(m) = Passes
    PROVE  /\ m.route \in Commanding => m.command.key # NoName
           /\ m.route \notin Commanding =>
                m.route = "ready" \/ (m.route \in Querying /\ QueryError(m.query) = NoError)
<1>1. m.route \in Commanding \cup Querying \cup Health \cup Documentation \cup {"other"}
  BY HandlersAssumption DEF Message
<1>2. Routed(m) = Passes
  BY DEF Immediate
<1>3. m.route # "other"
  BY <1>2 DEF Routed, Routes, registerDocumentationRoutes, Passes, Commanding, Querying,
     Health, Documentation
<1>4. /\ \A i \in DOMAIN Checks(m) : Checks(m)[i] = Passes
      /\ m.route \notin Documentation \cup {"live"}
  BY <1>2, FirstFailureAnswers DEF Passes
<1>5. ASSUME m.route \in Commanding
      PROVE  m.command.key # NoName
  <2>1. idempotencyFromRequest(m) = Passes
    <3>1. CASE m.route = "wallets"
      BY <1>4, <3>1 DEF Checks, createWallet
    <3>2. CASE m.route \in {"deposits", "withdrawals"}
      BY <1>4, <3>2 DEF Checks, changeBalance
    <3>3. CASE m.route = "transfers"
      BY <1>4, <3>3 DEF Checks, transfer
    <3> QED
      BY <1>5, <3>1, <3>2, <3>3 DEF Commanding
  <2> QED
    BY <2>1 DEF idempotencyFromRequest, Check, Passes
<1>6. ASSUME m.route \in Querying
      PROVE  QueryError(m.query) = NoError
  <2>1. m.query.kind = KindOf(m.route) /\ m.route \notin Commanding
    BY <1>6, HandlersAssumption DEF Querying, Commanding
  <2>2. /\ ownerIDFromRequest(m) = Passes
        /\ m.route = "history" => Check(m.query.limit \in 1 .. MaxLimit, 400) = Passes
    <3>1. CASE m.route \in {"wallet", "transaction"}
      BY <1>4, <3>1 DEF Checks, getWallet, getTransaction
    <3>2. CASE m.route = "history"
      BY <1>4, <3>2 DEF Checks, listHistory
    <3> QED
      BY <1>6, <3>1, <3>2 DEF Querying
  <2>3. m.query.owner # NoName
    BY <2>1, <2>2 DEF ownerIDFromRequest, Check, Passes
  <2>4. m.query.kind = "HISTORY" => m.query.limit \in 1 .. MaxLimit
    <3>1. m.query.kind = "HISTORY" => m.route = "history"
      BY <1>6, <2>1 DEF KindOf, Querying
    <3> QED
      BY <2>2, <3>1 DEF Check, Passes
  <2> QED
    BY <2>3, <2>4 DEF QueryError
<1> QED
  BY <1>1, <1>3, <1>4, <1>5, <1>6 DEF Health

-----------------------------------------------------------------------------
(* Messages and answers                                                    *)

Exchange == [message : Messages \cup {<<>>}, status : Int, late : BOOLEAN]

\* The status of an outcome of r.
OutcomeStatus(r) ==
    MutationStatus(err[r], result[r].replayed) \cup (IF exchange[r].late THEN {503} ELSE {})

\* The status of what d has read.
ReadStatus(d) ==
    IF reading[d].error = NoError THEN {200} ELSE problemForError(reading[d].error)

\* A message with a command, from its arrival to its answer.
CommandOf(r) ==
    LET x == exchange[r]
    IN  /\ ~ Received(r) => pc[r] = "idle" /\ ~ Answered(r)
        /\ Received(r) => x.message.route \in Commanding
        /\ Received(r) /\ Immediate(x.message) # Passes =>
             pc[r] = "idle" /\ x.status = Immediate(x.message)
        /\ Received(r) /\ Immediate(x.message) = Passes =>
             pc[r] # "idle" /\ command[r] = x.message.command
        /\ Answered(r) /\ Immediate(x.message) = Passes =>
             pc[r] = "done" /\ x.status \in OutcomeStatus(r)
        /\ x.late => faults > 0

\* A message with a query, or to the health checks and the documents.
QueryOf(d) ==
    LET x == exchange[d]
        m == exchange[d].message
    IN  /\ ~ Received(d) => reading[d].at = "idle" /\ ~ Answered(d)
        /\ Received(d) => m.route \notin Commanding
        /\ Received(d) /\ m.route = "ready" => reading[d].at = "idle"
        /\ Received(d) /\ Immediate(m) # Passes => x.status = Immediate(m)
        /\ Received(d) /\ Immediate(m) = Passes /\ m.route # "ready" =>
             reading[d].at # "idle" /\ reading[d].query = m.query
        /\ Answered(d) /\ Immediate(m) = Passes =>
             IF m.route = "ready"
               THEN x.status = 200 \/ (x.status = 503 /\ x.late)
               ELSE reading[d].at = "done" /\ x.status \in ReadStatus(d)

ExchangeOK ==
    /\ exchange \in [Requests \cup Readers -> Exchange]
    /\ \A r \in Requests : CommandOf(r)
    /\ \A d \in Readers : QueryOf(d)

LEMMA MessagesAreRecords == \A m \in Messages : m # <<>>
<1>1. \A m \in Messages : "route" \in DOMAIN m
  BY HandlersAssumption DEF Message
<1> QED
  BY <1>1

LEMMA InitExchange == HttpInit => ExchangeOK
<1>1. NoExchange \in Exchange
  BY DEF NoExchange, Exchange, Passes
<1>2. ASSUME HttpInit
      PROVE  ExchangeOK
  <2>1. \A x \in Requests \cup Readers : exchange[x] = NoExchange
    BY <1>2 DEF HttpInit
  <2>2. \A r \in Requests : CommandOf(r)
    BY <1>2, <2>1 DEF HttpInit, ReadsInit, Init, CommandOf, Received, Answered, NoExchange
  <2>3. \A d \in Readers : QueryOf(d)
    BY <1>2, <2>1 DEF HttpInit, ReadsInit, NotRead, QueryOf, Received, Answered, NoExchange
  <2> QED
    BY <1>1, <1>2, <2>2, <2>3 DEF HttpInit, ExchangeOK
<1> QED
  BY <1>2

LEMMA StatusesAreNumbers ==
    ASSUME NEW e, NEW replayed
    PROVE  /\ problemForError(e) \subseteq {400, 403, 404, 409, 422, 500, 503}
           /\ MutationStatus(e, replayed) \subseteq
                {200, 201, 400, 403, 404, 409, 422, 500, 503}
           /\ \A m \in Messages : Immediate(m) \in Int
<1>1. problemForError(e) \subseteq {400, 403, 404, 409, 422, 500, 503}
  BY DEF problemForError
<1> QED
  BY <1>1, ImmediateAnswers DEF MutationStatus, Passes

\* A request that has ended is done with, whatever its backend still does.
LEMMA EndIsTheEnd ==
    ASSUME TypeOK, NEW q \in Requests, RequestStep(q), pc[q] = "done"
    PROVE  pc'[q] = "done" /\ err'[q] = err[q] /\ result'[q] = result[q]
<1>1. ~ Arrive(q) /\ ~ Proceed(q)
  BY DEF Arrive, Proceed, Begin, ReserveKey, LoseKey, ReadKey, ReadWallet,
     ReadTransaction, ReadEntries, LockWallet, MissWallet, Refuse,
     CreateFinancialTransaction, UpdateWallet, CreateLedgerEntry, CreateWallet,
     RefuseSecondWallet, RefuseRecord, Commit, CommitAcknowledged, Rollback, Retry
<1>2. ~ Failure(q)
  BY DEF Failure, StatementFails, InStatement, OnConnection, Running, CommitFails,
     RollbackFails, Abandon
<1> QED
  BY <1>1, <1>2 DEF RequestStep, Server, ServerCommits, BackendGone, requestVars

\* What a step does to an exchange.
LEMMA ExchangeMoves ==
    ASSUME ExchangeOK, NEW x \in Requests \cup Readers
    PROVE  /\ exchange[x] \in Exchange
           /\ \A m \in Messages : Accept(x, m) =>
                /\ exchange' = [exchange EXCEPT ![x] = exchange'[x]]
                /\ exchange'[x] \in Exchange
                /\ exchange'[x].message = m /\ exchange'[x].status = Immediate(m)
                /\ exchange'[x].late = exchange[x].late
           /\ \A status \in Int : Reply(x, status) =>
                /\ exchange' = [exchange EXCEPT ![x] = exchange'[x]]
                /\ exchange'[x] \in Exchange
                /\ exchange'[x].message = exchange[x].message
                /\ exchange'[x].status = status
                /\ exchange'[x].late = exchange[x].late
<1>t. exchange \in [Requests \cup Readers -> Exchange] /\ exchange[x] \in Exchange
  BY DEF ExchangeOK
<1>1. ASSUME NEW m \in Messages, Accept(x, m)
      PROVE  /\ exchange' = [exchange EXCEPT ![x] = exchange'[x]]
             /\ exchange'[x] \in Exchange
             /\ exchange'[x].message = m /\ exchange'[x].status = Immediate(m)
             /\ exchange'[x].late = exchange[x].late
  <2>1. exchange'[x] = [exchange[x] EXCEPT !.message = m, !.status = Immediate(m)]
    BY <1>t, <1>1 DEF Accept
  <2>2. Immediate(m) \in Int
    BY StatusesAreNumbers
  <2>3. exchange' = [exchange EXCEPT ![x] = exchange'[x]]
    BY <1>t, <1>1 DEF Accept
  <2> QED
    BY <1>t, <2>1, <2>2, <2>3 DEF Exchange
<1>2. ASSUME NEW status \in Int, Reply(x, status)
      PROVE  /\ exchange' = [exchange EXCEPT ![x] = exchange'[x]]
             /\ exchange'[x] \in Exchange
             /\ exchange'[x].message = exchange[x].message
             /\ exchange'[x].status = status
             /\ exchange'[x].late = exchange[x].late
  <2>1. exchange'[x] = [exchange[x] EXCEPT !.status = status]
    BY <1>t, <1>2 DEF Reply
  <2>2. exchange' = [exchange EXCEPT ![x] = exchange'[x]]
    BY <1>t, <1>2 DEF Reply
  <2> QED
    BY <1>t, <2>1, <2>2 DEF Exchange
<1> QED
  BY <1>t, <1>1, <1>2

\* What another's step leaves of a request's exchange.
LEMMA CommandStays ==
    ASSUME ExchangeOK, NEW r \in Requests, exchange'[r] = exchange[r],
           pc'[r] = pc[r], command'[r] = command[r], err'[r] = err[r],
           result'[r] = result[r], faults' >= faults, faults \in Nat, faults' \in Nat
    PROVE  CommandOf(r)'
BY DEF ExchangeOK, CommandOf, Received, Answered, OutcomeStatus, MutationStatus

LEMMA OwnCommand ==
    ASSUME PromiseInv, ExchangeOK, NEW r \in Requests, Exchanged(r)
    PROVE  /\ CommandOf(r)'
           /\ exchange' = [exchange EXCEPT ![r] = exchange'[r]]
           /\ exchange'[r] \in Exchange
<1> DEFINE x == exchange[r]
           n == exchange'[r]
           Moved == exchange' = [exchange EXCEPT ![r] = n] /\ n \in Exchange
<1> USE DEF PromiseInv, StagedInv, MoneyInv
<1>t. exchange \in [Requests \cup Readers -> Exchange] /\ x \in Exchange /\ CommandOf(r)
  BY DEF ExchangeOK
<1>1. CASE \E m \in Messages : m.route \in Commanding /\ Receive(r, m)
  <2>1. PICK m \in Messages : m.route \in Commanding /\ Receive(r, m)
    BY <1>1
  <2>2. Immediate(m) # Passes
    BY <2>1 DEF Receive, Commanding
  <2>3. Moved /\ n.message = m /\ n.status = Immediate(m) /\ n.late = x.late
    BY <2>1, ExchangeMoves DEF Receive
  <2>4. pc[r] = "idle" /\ pc'[r] = pc[r] /\ faults' = faults
    BY <1>t, <2>1 DEF Receive, CommandOf, readsVars, vars, requestVars
  <2>5. m # <<>>
    BY MessagesAreRecords
  <2>6. CommandOf(r)'
    BY <1>t, <2>1, <2>2, <2>3, <2>4, <2>5 DEF CommandOf, Received, Answered
  <2> QED
    BY <2>3, <2>6
<1>2. CASE \E m \in Messages : m.route \in Commanding /\ ReceiveCommand(r, m)
  <2>1. PICK m \in Messages : m.route \in Commanding /\ ReceiveCommand(r, m)
    BY <1>2
  <2>2. Moved /\ n.message = m /\ n.status = Passes /\ n.late = x.late
    BY <2>1, ExchangeMoves DEF ReceiveCommand
  <2>3. pc'[r] # "idle" /\ command'[r] = m.command /\ faults' = faults
    BY <2>1 DEF ReceiveCommand, Arrive, Goto, Answer, TypeOK, RequestTypeOK
  <2>4. m # <<>> /\ Immediate(m) = Passes
    BY <2>1, MessagesAreRecords DEF ReceiveCommand
  <2>5. CommandOf(r)'
    BY <1>t, <2>1, <2>2, <2>3, <2>4 DEF CommandOf, Received, Answered
  <2> QED
    BY <2>2, <2>5
<1>3. CASE Respond(r)
  <2>1. PICK status \in OutcomeStatus(r) : Reply(r, status)
    BY <1>3 DEF Respond, OutcomeStatus
  <2>2. status \in Int
    <3>1. OutcomeStatus(r) \subseteq {200, 201, 400, 403, 404, 409, 422, 500, 503}
      BY StatusesAreNumbers DEF OutcomeStatus
    <3> QED
      BY <3>1
  <2>3. Moved /\ n.message = x.message /\ n.status = status /\ n.late = x.late
    BY <2>1, <2>2, ExchangeMoves
  <2>4. Received(r) /\ x.status = Passes /\ pc[r] = "done"
    BY <1>3 DEF Respond, Serving, Answered
  <2>5. Immediate(x.message) = Passes
    BY <1>t, <2>4 DEF CommandOf
  <2>6. /\ pc'[r] = pc[r] /\ command'[r] = command[r] /\ faults' = faults
        /\ err'[r] = err[r] /\ result'[r] = result[r]
    BY <1>3 DEF Respond, readsVars, vars, requestVars
  <2>7. n.status \in OutcomeStatus(r)'
    BY <2>1, <2>3, <2>6 DEF OutcomeStatus, MutationStatus
  <2>8. CommandOf(r)'
    BY <1>t, <2>3, <2>4, <2>5, <2>6, <2>7 DEF CommandOf, Received, Answered
  <2> QED
    BY <2>3, <2>8
<1>4. CASE DeadlineInRollback(r)
  <2>1. /\ RequestStep(r) /\ pc[r] = "rollback" /\ pc'[r] = "done"
        /\ faults' = faults + 1 /\ faults \in Nat
    BY <1>4, ServiceAssumption
       DEF DeadlineInRollback, RequestStep, Failure, RollbackFails, Fault, TypeOK,
       RequestTypeOK
  <2>2. n = [x EXCEPT !.late = TRUE] /\ exchange' = [exchange EXCEPT ![r] = n]
    BY <1>t, <1>4 DEF DeadlineInRollback
  <2>3. n \in Exchange /\ n.message = x.message /\ n.status = x.status
    BY <1>t, <2>2 DEF Exchange
  <2>4. Received(r) /\ Immediate(x.message) = Passes /\ ~ Answered(r)
    BY <1>t, <2>1 DEF CommandOf, Answered
  <2>5. command'[r] = command[r]
    BY <2>1, CommandFixed
  <2>6. CommandOf(r)'
    BY <1>t, <2>1, <2>3, <2>4, <2>5 DEF CommandOf, Received, Answered
  <2> QED
    BY <2>2, <2>3, <2>6
<1>5. CASE (Proceed(r) \/ Server(r) \/ Failure(r)) /\ UNCHANGED <<reading, exchange>>
  <2>1. RequestStep(r) /\ n = x /\ Moved
    BY <1>t, <1>5 DEF RequestStep
  <2>2. pc[r] # "idle"
    BY <1>5, <2>1, OnlyArrivalsStart
  <2>3. Received(r) /\ Immediate(x.message) = Passes
    BY <1>t, <2>2 DEF CommandOf
  <2>4. command'[r] = command[r] /\ pc'[r] # "idle"
    BY <2>1, <2>2, CommandFixed
  <2>5. faults' >= faults /\ faults \in Nat /\ faults' \in Nat
    BY <2>1, FaultsGrow
  <2>6. CASE pc[r] = "done"
    <3>1. pc'[r] = pc[r] /\ err'[r] = err[r] /\ result'[r] = result[r]
      BY <2>1, <2>6, EndIsTheEnd
    <3> QED
      BY <2>1, <2>4, <2>5, <3>1, CommandStays
  <2>7. CASE pc[r] # "done"
    <3>1. ~ Answered(r)
      BY <1>t, <2>3, <2>7 DEF CommandOf
    <3>2. CommandOf(r)'
      BY <1>t, <2>1, <2>3, <2>4, <2>5, <3>1 DEF CommandOf, Received, Answered
    <3> QED
      BY <2>1, <3>2
  <2> QED
    BY <2>6, <2>7
<1> QED
  BY <1>1, <1>2, <1>3, <1>4, <1>5 DEF Exchanged

LEMMA QueryStays ==
    ASSUME ExchangeOK, NEW d \in Readers, exchange'[d] = exchange[d],
           reading'[d] = reading[d]
    PROVE  QueryOf(d)'
BY DEF ExchangeOK, QueryOf, Received, Answered, ReadStatus

LEMMA OwnQuery ==
    ASSUME ReadingOK, ExchangeOK, NEW d \in Readers, ExchangedRead(d)
    PROVE  /\ QueryOf(d)'
           /\ exchange' = [exchange EXCEPT ![d] = exchange'[d]]
           /\ exchange'[d] \in Exchange
<1> DEFINE x == exchange[d]
           n == exchange'[d]
           Moved == exchange' = [exchange EXCEPT ![d] = n] /\ n \in Exchange
<1>t. exchange \in [Requests \cup Readers -> Exchange] /\ x \in Exchange /\ QueryOf(d)
  BY DEF ExchangeOK
<1>1. CASE \E m \in Messages : m.route \notin Commanding /\ Receive(d, m)
  <2>1. PICK m \in Messages : m.route \notin Commanding /\ Receive(d, m)
    BY <1>1
  <2>2. Moved /\ n.message = m /\ n.status = Immediate(m)
    BY <2>1, ExchangeMoves DEF Receive
  <2>3. reading[d].at = "idle" /\ reading'[d] = reading[d]
    BY <1>t, <2>1 DEF Receive, QueryOf, readsVars
  <2>4. m # <<>> /\ (Immediate(m) # Passes \/ m.route = "ready")
    BY <2>1, MessagesAreRecords DEF Receive
  <2>5. QueryOf(d)'
    BY <2>1, <2>2, <2>3, <2>4 DEF QueryOf, Received, Answered
  <2> QED
    BY <2>2, <2>5
<1>2. CASE \E m \in Messages : m.route \notin Commanding /\ ReceiveQuery(d, m)
  <2>1. PICK m \in Messages : m.route \notin Commanding /\ ReceiveQuery(d, m)
    BY <1>2
  <2>2. Moved /\ n.message = m /\ n.status = Passes
    BY <2>1, ExchangeMoves DEF ReceiveQuery
  <2>3. reading'[d].at # "idle" /\ reading'[d].query = m.query
    <3>1. PICK p \in Queries : reading' = [reading EXCEPT
             ![d].query = p, ![d].error = QueryError(p),
             ![d].at = IF QueryError(p) # NoError THEN "done"
                       ELSE IF p.kind = "TRANSACTION" THEN "operation" ELSE "wallet"]
      BY <2>1 DEF ReceiveQuery, ReadArrives
    <3>2. reading'[d].at # "idle"
      BY <3>1 DEF ReadingOK, Reading
    <3> QED
      BY <2>1, <3>2 DEF ReceiveQuery
  <2>4. m # <<>> /\ Immediate(m) = Passes /\ m.route # "ready"
    BY <2>1, MessagesAreRecords DEF ReceiveQuery
  <2>5. QueryOf(d)'
    BY <2>1, <2>2, <2>3, <2>4 DEF QueryOf, Received, Answered
  <2> QED
    BY <2>2, <2>5
<1>3. CASE RespondRead(d)
  <2>1. PICK status \in ReadStatus(d) : Reply(d, status)
    BY <1>3 DEF RespondRead, ReadStatus
  <2>2. status \in Int
    <3>1. ReadStatus(d) \subseteq {200, 400, 403, 404, 409, 422, 500, 503}
      BY StatusesAreNumbers DEF ReadStatus
    <3> QED
      BY <3>1
  <2>3. Moved /\ n.message = x.message /\ n.status = status
    BY <2>1, <2>2, ExchangeMoves
  <2>4. Received(d) /\ x.status = Passes /\ reading[d].at = "done"
    BY <1>3 DEF RespondRead, Serving, Answered
  <2>5. Immediate(x.message) = Passes /\ x.message.route # "ready"
    BY <1>t, <2>4 DEF QueryOf
  <2>6. reading'[d] = reading[d]
    BY <1>3 DEF RespondRead, readsVars
  <2>7. n.status \in ReadStatus(d)'
    BY <2>1, <2>3, <2>6 DEF ReadStatus
  <2>8. QueryOf(d)'
    BY <1>t, <2>3, <2>4, <2>5, <2>6, <2>7 DEF QueryOf, Received, Answered
  <2> QED
    BY <2>3, <2>8
<1>4. CASE Ping(d)
  <2>1. Received(d) /\ x.status = Passes /\ x.message.route = "ready"
    BY <1>4 DEF Ping, Serving, Answered
  <2>2. Immediate(x.message) = Passes
    BY <1>t, <2>1 DEF QueryOf
  <2>3. reading'[d] = reading[d]
    BY <1>4 DEF Ping, readsVars
  <2>4. CASE Reply(d, 200)
    <3>1. Moved /\ n.message = x.message /\ n.status = 200
      BY <2>4, ExchangeMoves
    <3>2. QueryOf(d)'
      BY <1>t, <2>1, <2>2, <2>3, <3>1 DEF QueryOf, Received, Answered
    <3> QED
      BY <3>1, <3>2
  <2>5. CASE exchange' = [exchange EXCEPT ![d].status = 503, ![d].late = TRUE]
    <3> DEFINE y == [x EXCEPT !.status = 503]
               z == [y EXCEPT !.late = TRUE]
    <3>4. n = z
      BY <1>t, <2>5
    <3>1. exchange' = [exchange EXCEPT ![d] = n]
      <4>1. exchange' = [[exchange EXCEPT ![d] = y] EXCEPT ![d] = [@ EXCEPT !.late = TRUE]]
        BY <2>5
      <4>2. \A c \in Requests \cup Readers : c # d => exchange'[c] = exchange[c]
        BY <1>t, <2>5
      <4>3. exchange' = [c \in Requests \cup Readers |-> exchange'[c]]
        <5> HIDE DEF y
        <5> QED
          BY <1>t, <4>1
      <4> HIDE DEF n, z, y
      <4>4. [exchange EXCEPT ![d] = n] =
              [c \in Requests \cup Readers |-> IF c = d THEN n ELSE exchange[c]]
        BY <1>t
      <4> QED
        BY <4>2, <4>3, <4>4 DEF n
    <3>5. y \in Exchange /\ y.message = x.message /\ y.status = 503
      BY <1>t DEF Exchange
    <3>6. z \in Exchange /\ z.message = y.message /\ z.status = y.status /\ z.late
      <4> HIDE DEF y
      <4> QED
        BY <3>5 DEF Exchange
    <3>2. n \in Exchange /\ n.message = x.message /\ n.status = 503 /\ n.late
      <4> HIDE DEF y, z, n
      <4> QED
        BY <3>4, <3>5, <3>6
    <3>3. QueryOf(d)'
      BY <1>t, <2>1, <2>2, <2>3, <3>2 DEF QueryOf, Received, Answered
    <3> QED
      BY <3>1, <3>2, <3>3
  <2> QED
    BY <1>4, <2>4, <2>5 DEF Ping
<1>5. CASE (ReadProceeds(d) \/ ReadFails(d)) /\ UNCHANGED exchange
  <2>1. n = x /\ Moved
    BY <1>t, <1>5
  <2>2. /\ reading[d].at \notin {"idle", "done"} /\ reading'[d].at # "idle"
        /\ reading'[d].query = reading[d].query
    BY <1>5, ReadGoesOn
  <2>3. /\ Received(d) /\ x.message.route # "ready"
        /\ Answered(d) => Immediate(x.message) # Passes
    BY <1>t, <2>2 DEF QueryOf
  <2>4. QueryOf(d)'
    BY <1>t, <2>1, <2>2, <2>3 DEF QueryOf, Received, Answered
  <2> QED
    BY <2>1, <2>4
<1> QED
  BY <1>1, <1>2, <1>3, <1>4, <1>5 DEF ExchangedRead

LEMMA RequestsAndReaders ==
    ASSUME NEW r \in Requests, NEW d \in Readers
    PROVE  r # d
BY ReadsAssumption

LEMMA ExchangeStep ==
    ASSUME PromiseInv, ReadingOK, ExchangeOK, [HttpNext]_httpVars
    PROVE  ExchangeOK'
<1>t. exchange \in [Requests \cup Readers -> Exchange]
  BY DEF ExchangeOK
<1>f. faults \in Nat
  BY ServiceAssumption DEF PromiseInv, StagedInv, MoneyInv, TypeOK, RequestTypeOK
<1>1. ASSUME NEW q \in Requests, Exchanged(q)
      PROVE  ExchangeOK'
  <2>1. /\ CommandOf(q)' /\ exchange' = [exchange EXCEPT ![q] = exchange'[q]]
        /\ exchange'[q] \in Exchange
    BY <1>1, OwnCommand
  <2>2. \A c \in Requests \cup Readers : c # q => exchange'[c] = exchange[c]
    BY <1>t, <2>1
  <2>3. exchange' \in [Requests \cup Readers -> Exchange]
    BY <1>t, <2>1
  <2>4. UNCHANGED reading /\ (RequestStep(q) \/ UNCHANGED vars)
    BY <1>1 DEF Exchanged, Receive, ReceiveCommand, Respond, DeadlineInRollback,
       RequestStep, Failure, readsVars
  <2>5. ASSUME NEW r \in Requests \ {q}
        PROVE  CommandOf(r)'
    <3>1. CASE RequestStep(q)
      <4>1. /\ pc'[r] = pc[r] /\ command'[r] = command[r] /\ err'[r] = err[r]
            /\ result'[r] = result[r]
        BY <3>1, OthersUnchanged DEF PromiseInv, StagedInv, MoneyInv, Local
      <4>2. faults' >= faults /\ faults' \in Nat
        BY <3>1, FaultsGrow DEF PromiseInv, StagedInv, MoneyInv
      <4> QED
        BY <1>f, <2>2, <4>1, <4>2, CommandStays
    <3>2. CASE UNCHANGED vars
      <4>1. /\ pc'[r] = pc[r] /\ command'[r] = command[r] /\ err'[r] = err[r]
            /\ result'[r] = result[r] /\ faults' = faults
        BY <3>2 DEF vars, requestVars
      <4> QED
        BY <1>f, <2>2, <4>1, CommandStays
    <3> QED
      BY <2>4, <3>1, <3>2
  <2>6. ASSUME NEW d \in Readers
        PROVE  QueryOf(d)'
    BY <2>2, <2>4, QueryStays, RequestsAndReaders
  <2> QED
    BY <2>1, <2>3, <2>5, <2>6 DEF ExchangeOK
<1>2. ASSUME NEW q \in Readers, ExchangedRead(q)
      PROVE  ExchangeOK'
  <2>1. /\ QueryOf(q)' /\ exchange' = [exchange EXCEPT ![q] = exchange'[q]]
        /\ exchange'[q] \in Exchange
    BY <1>2, OwnQuery
  <2>2. \A c \in Requests \cup Readers : c # q => exchange'[c] = exchange[c]
    BY <1>t, <2>1
  <2>3. exchange' \in [Requests \cup Readers -> Exchange]
    BY <1>t, <2>1
  <2>4. UNCHANGED reading \/ ReaderStep(q)
    BY <1>2 DEF ExchangedRead, Receive, ReceiveQuery, RespondRead, Ping, ReaderStep,
       readsVars
  <2>5. UNCHANGED vars
    BY <1>2 DEF ExchangedRead, Receive, ReceiveQuery, RespondRead, Ping, readsVars,
       ReadArrives, ReadProceeds, ReadFails, ReadWalletRow, ReadOperation,
       ReadOperationEntries, AuthorizeOperation, ReadPage
  <2>6. ASSUME NEW r \in Requests
        PROVE  CommandOf(r)'
    <3>1. /\ pc'[r] = pc[r] /\ command'[r] = command[r] /\ err'[r] = err[r]
          /\ result'[r] = result[r] /\ faults' = faults
      BY <2>5 DEF vars, requestVars
    <3> QED
      BY <1>f, <2>2, <3>1, CommandStays, RequestsAndReaders
  <2>7. ASSUME NEW d \in Readers \ {q}
        PROVE  QueryOf(d)'
    <3>1. reading'[d] = reading[d]
      BY <2>4, ReaderAlone DEF ReadingOK
    <3> QED
      BY <2>2, <3>1, QueryStays
  <2> QED
    BY <2>1, <2>3, <2>6, <2>7 DEF ExchangeOK
<1>3. CASE UNCHANGED httpVars
  <2>1. UNCHANGED <<exchange, reading>> /\ UNCHANGED <<pc, command, err, result, faults>>
    BY <1>3 DEF httpVars, readsVars, vars, requestVars
  <2>2. \A r \in Requests : CommandOf(r)'
    BY <1>f, <2>1, CommandStays
  <2>3. \A d \in Readers : QueryOf(d)'
    BY <2>1, QueryStays
  <2> QED
    BY <1>t, <2>1, <2>2, <2>3 DEF ExchangeOK
<1> QED
  BY <1>1, <1>2, <1>3 DEF HttpNext, HttpTerminating

HttpInv == ReadsInv /\ AnswerOK /\ ErrorsOK /\ ReadErrorsOK /\ ExchangeOK

LEMMA HttpInvariant == HttpSpec => []HttpInv
<1>1. HttpSpec => [](ReadsInv /\ AnswerOK /\ ErrorsOK /\ ReadErrorsOK)
  BY HandlersOnlyTranslate, ReadsInvariant, AnswerInvariant, ErrorsInvariant,
     ReadErrorsInvariant, PTL
<1>2. ReadsInv /\ ExchangeOK /\ [HttpNext]_httpVars => ExchangeOK'
  BY ExchangeStep DEF ReadsInv, ServiceInv
<1> QED
  BY <1>1, <1>2, InitExchange, PTL DEF HttpSpec, HttpInv

-----------------------------------------------------------------------------
(* What a status tells                                                     *)

\* The status of a request is what became of its outcome, or the first check that
\* failed.
LEMMA StatusOfCommand ==
    ASSUME HttpInv, NEW r \in Requests, Answered(r)
    PROVE  LET x == exchange[r] IN
           /\ x.message \in Messages /\ x.message.route \in Commanding
           /\ \/ /\ Immediate(x.message) # Passes /\ x.status = Immediate(x.message)
                 /\ pc[r] = "idle" /\ x.status \in 400 .. 499
              \/ /\ Immediate(x.message) = Passes /\ command[r] = x.message.command
                 /\ pc[r] = "done" /\ x.status \in OutcomeStatus(r)
<1>1. exchange[r] \in Exchange /\ CommandOf(r)
  BY DEF HttpInv, ExchangeOK
<1>2. Received(r) /\ exchange[r].message \in Messages
  BY <1>1 DEF CommandOf, Received, Exchange
<1>3. Immediate(exchange[r].message) # Passes =>
        exchange[r].status = Immediate(exchange[r].message) /\ pc[r] = "idle"
  BY <1>1, <1>2 DEF CommandOf
<1>4. exchange[r].message.route \in Commanding
  BY <1>1, <1>2 DEF CommandOf
<1> QED
  BY <1>1, <1>2, <1>3, <1>4, ImmediateAnswers DEF CommandOf

LEMMA StatusOfQuery ==
    ASSUME HttpInv, NEW d \in Readers, Answered(d)
    PROVE  LET x == exchange[d]
               m == exchange[d].message
           IN
           /\ m \in Messages /\ m.route \notin Commanding
           /\ \/ Immediate(m) # Passes /\ x.status = Immediate(m)
              \/ m.route = "ready" /\ (x.status = 200 \/ (x.status = 503 /\ x.late))
              \/ /\ m.route \in Querying /\ QueryError(m.query) = NoError
                 /\ reading[d].query = m.query /\ x.status \in ReadStatus(d)
<1>1. exchange[d] \in Exchange /\ QueryOf(d)
  BY DEF HttpInv, ExchangeOK
<1>2. Received(d) /\ exchange[d].message \in Messages
  BY <1>1 DEF QueryOf, Received, Exchange
<1> QED
  BY <1>1, <1>2, PassedOn DEF QueryOf

\* Every check of a handler and every error of a use case has a status that
\* openapi.yaml lists for the operation: POST /v1/wallets is answered with neither
\* 403 nor 404, though the replay of its key reads a wallet and checks its owner.
THEOREM StatusesAreDocumented == HttpSpec => []DocumentedStatus
<1> USE DEF Documented, Commanding, Querying, Documentation
<1>1. ASSUME HttpInv, NEW r \in Requests, Answered(r)
      PROVE  exchange[r].status \in Documented(exchange[r].message.route)
  <2> DEFINE m == exchange[r].message
  <2>1. m \in Messages /\ m.route \in Commanding
    BY <1>1, StatusOfCommand
  <2>2. CASE Immediate(m) # Passes
    BY <1>1, <2>1, <2>2, StatusOfCommand, ImmediateAnswers
  <2>3. CASE Immediate(m) = Passes
    <3>1. exchange[r].status \in OutcomeStatus(r) /\ command[r] = m.command
      BY <1>1, <2>3, StatusOfCommand
    <3>2. exchange[r].status \in {200, 201, 400, 403, 404, 409, 422, 500, 503}
      BY <3>1, StatusesAreNumbers DEF OutcomeStatus
    <3>3. ASSUME m.route = "wallets"
          PROVE  exchange[r].status \notin {403, 404}
      <4>1. command[r].kind = "CREATE"
        BY <2>1, <3>1, <3>3, HandlersAssumption DEF KindOf
      <4>2. err[r] \notin Absences
        BY <1>1, <4>1 DEF HttpInv, ErrorsOK, ErrorOf
      <4>3. problemForError(err[r]) \cap {403, 404} = {}
        BY <4>2 DEF problemForError, Absences
      <4> QED
        BY <3>1, <4>3 DEF OutcomeStatus, MutationStatus
    <3> QED
      BY <2>1, <3>2, <3>3
  <2> QED
    BY <2>2, <2>3
<1>2. ASSUME HttpInv, NEW d \in Readers, Answered(d)
      PROVE  exchange[d].status \in Documented(exchange[d].message.route)
  <2> DEFINE m == exchange[d].message
  <2>1. CASE Immediate(m) # Passes /\ exchange[d].status = Immediate(m)
    BY <1>2, <2>1, StatusOfQuery, ImmediateAnswers
  <2>2. CASE m.route = "ready" /\ exchange[d].status \in {200, 503}
    BY <2>2
  <2>3. CASE m.route \in Querying /\ exchange[d].status \in ReadStatus(d)
    <3>1. reading[d].error \in ReadErrors
      BY <1>2 DEF HttpInv, ReadErrorsOK, ReadErrorOf
    <3>2. ReadStatus(d) \subseteq {200, 400, 403, 404, 500, 503}
      BY <3>1 DEF ReadStatus, ReadErrors, problemForError
    <3> QED
      BY <2>3, <3>2
  <2> QED
    BY <1>2, <2>1, <2>2, <2>3, StatusOfQuery
<1>3. HttpInv => DocumentedStatus
  BY <1>1, <1>2 DEF DocumentedStatus
<1> QED
  BY <1>3, HttpInvariant, PTL

\* A client told 4xx has to mend its request and may send it again with the same
\* key: whether a check of the handler, of the use case or of the rows it had locked
\* refused it, nothing of it is in the database and nothing on its way there.
THEOREM ClientErrorsLeaveNoTrace == HttpSpec => []ClientErrorLeavesNoTrace
<1>1. ASSUME HttpInv, NEW r \in Requests, exchange[r].status \in 400 .. 499
      PROVE  /\ tx[r].state \notin {"committing", "committed"}
             /\ \A t \in transactions : t.id # r
             /\ \A rec \in idempotency : rec.resource # r
  <2> USE DEF HttpInv, ReadsInv, ServiceInv, PromiseInv, StagedInv, MoneyInv
  <2>1. Answered(r)
    BY <1>1 DEF Answered, Passes
  <2>2. pc[r] = "idle" \/ (pc[r] = "done" /\ err[r] \notin {NoError, "ErrUnavailable"})
    <3>1. CASE exchange[r].status \in OutcomeStatus(r)
      <4>1. exchange[r].status # 503 /\ exchange[r].status \notin {200, 201, 500}
        BY <1>1
      <4>2. exchange[r].status \in MutationStatus(err[r], result[r].replayed)
        BY <3>1, <4>1 DEF OutcomeStatus
      <4> QED
        BY <1>1, <2>1, <4>1, <4>2, StatusOfCommand DEF MutationStatus, problemForError
    <3> QED
      BY <1>1, <2>1, <3>1, StatusOfCommand
  <2>3. tx[r].state \notin {"committing", "committed"}
    BY <1>1, <2>2 DEF SessionsOK, SessionOf, OutcomeOK, OutcomeOf
  <2>4. \A t \in transactions : t.id # r
    BY <1>1, <2>2, <2>3 DEF OutcomeOK, OutcomeOf, Decided, NoTrace
  <2>5. ASSUME NEW rec \in idempotency
        PROVE  rec.resource # r
    <3>1. \/ \E w \in wallets : w.id = rec.resource
          \/ \E t \in transactions : t.id = rec.resource
      BY <1>1 DEF RecordsOK, EveryRecordResolves
    <3>2. \A w \in wallets : w.id # r
      BY <1>1, DomainAssumption DEF TypeOK, StoreTypeOK, Wallet
    <3> QED
      BY <2>4, <3>1, <3>2
  <2> QED
    BY <2>3, <2>4, <2>5
<1>2. HttpInv => ClientErrorLeavesNoTrace
  BY <1>1 DEF ClientErrorLeavesNoTrace
<1> QED
  BY <1>2, HttpInvariant, PTL

\* README.md:392: however often a client repeats a request that was not answered,
\* one 201 at most comes back for its key, every other success is a 200, and all of
\* them name the same resource.
THEOREM CreatedOnce == HttpSpec => []CreatedOncePerKey
<1>1. ASSUME HttpInv, NEW r \in Requests, exchange[r].status \in {200, 201}
      PROVE  /\ Acknowledged(r)
             /\ exchange[r].status = 201 => ~ result[r].replayed
  <2>1. Answered(r)
    BY <1>1 DEF Answered, Passes
  <2>2. pc[r] = "done" /\ exchange[r].status \in OutcomeStatus(r)
    <3>1. exchange[r].status \notin 400 .. 499
      BY <1>1
    <3> QED
      BY <1>1, <2>1, <3>1, StatusOfCommand
  <2>3. exchange[r].status \in MutationStatus(err[r], result[r].replayed)
    BY <1>1, <2>2 DEF OutcomeStatus
  <2>4. err[r] = NoError
    <3>1. 200 \notin problemForError(err[r]) /\ 201 \notin problemForError(err[r])
      BY DEF problemForError
    <3> QED
      BY <1>1, <2>3, <3>1 DEF MutationStatus
  <2> QED
    BY <1>1, <2>2, <2>3, <2>4 DEF Acknowledged, MutationStatus
<1>2. ASSUME HttpInv, ReplaysAgree
      PROVE  CreatedOncePerKey
  <2>1. ASSUME NEW r \in Requests, NEW q \in Requests, r # q, SameRequest(r, q),
               exchange[r].status \in {200, 201}, exchange[q].status \in {200, 201}
        PROVE  /\ {exchange[r].status, exchange[q].status} # {201}
               /\ Location(r) = Location(q)
    <3>1. Acknowledged(r) /\ Acknowledged(q)
      BY <1>1, <1>2, <2>1
    <3>2. /\ command[r] = command[q]
          /\ command[r].kind = "CREATE" => newID[r] = newID[q]
          /\ result[r].transaction = result[q].transaction
          /\ result[r].replayed \/ result[q].replayed
      BY <1>2, <2>1, <3>1 DEF ReplaysAgree
    <3>3. ~ (exchange[r].status = 201 /\ exchange[q].status = 201)
      BY <1>1, <1>2, <2>1, <3>2
    <3> QED
      BY <3>2, <3>3 DEF Location
  <2> QED
    BY <2>1 DEF CreatedOncePerKey
<1>3. HttpSpec => []ReplaysAgree
  BY HandlersOnlyTranslate, ReplaysTellTheSame, PTL
<1> QED
  BY <1>2, <1>3, HttpInvariant, PTL

\* While the database answers and nobody's deadline passes, a message is answered
\* with 500 or 503, in whatever order messages come in, only for a key that is no
\* text in UTF-8 (handler.go:393 lets it pass, repository.go:26 cannot store it): no
\* other check is forgotten that the use cases or the schema would have to make.
THEOREM FaultsMakeServerErrors == HttpSpec => []ServerErrorsNeedAFault
<1>1. ASSUME HttpInv, NEW r \in Requests, exchange[r].status >= 500
      PROVE  faults > 0 \/ command[r].key \in NonUTF8Keys
  <2>1. Answered(r)
    BY <1>1 DEF Answered, Passes
  <2> DEFINE m == exchange[r].message
  <2>2. /\ m \in Messages /\ m.route \in Commanding /\ Immediate(m) = Passes
        /\ command[r] = m.command /\ exchange[r].status \in OutcomeStatus(r)
    <3>1. ~ exchange[r].status \in 400 .. 499
      BY <1>1
    <3> QED
      BY <1>1, <2>1, <3>1, StatusOfCommand
  <2>3. CASE exchange[r].late
    BY <1>1, <2>3 DEF HttpInv, ExchangeOK, CommandOf
  <2>4. CASE exchange[r].status \in MutationStatus(err[r], result[r].replayed)
    <3>1. err[r] \in Errors
      BY <1>1 DEF HttpInv, ReadsInv, ServiceInv, PromiseInv, StagedInv, MoneyInv, TypeOK,
         RequestTypeOK
    <3>2. err[r] \in Failures \cup {"ErrKeyRequired"}
      BY <1>1, <2>4, <3>1 DEF MutationStatus, problemForError, Errors, Failures
    <3>3. command[r].key # NoName
      BY <2>2, PassedOn
    <3> QED
      BY <1>1, <3>2, <3>3 DEF HttpInv, ErrorsOK, ErrorOf
  <2> QED
    BY <2>2, <2>3, <2>4 DEF OutcomeStatus
<1>2. ASSUME HttpInv, NEW d \in Readers, exchange[d].status >= 500
      PROVE  reading[d].losses > 0 \/ exchange[d].late
  <2> DEFINE m == exchange[d].message
  <2>1. Answered(d) /\ m \in Messages
    BY <1>2, StatusOfQuery DEF Answered, Passes
  <2>2. ~ (Immediate(m) # Passes /\ exchange[d].status = Immediate(m))
    BY <1>2, <2>1, ImmediateAnswers
  <2>3. CASE m.route = "ready" /\ (exchange[d].status = 200 \/ exchange[d].late)
    BY <1>2, <2>3
  <2>4. CASE /\ QueryError(m.query) = NoError /\ reading[d].query = m.query
             /\ exchange[d].status \in ReadStatus(d)
    <3>1. ReadErrorOf(d)
      BY <1>2 DEF HttpInv, ReadErrorsOK
    <3>2. reading[d].error # "ErrLimit"
      BY <2>4, <3>1 DEF ReadErrorOf, NoError
    <3>3. reading[d].error = "ErrUnavailable"
      BY <1>2, <2>4, <3>1, <3>2 DEF ReadErrorOf, ReadErrors, ReadStatus, problemForError
    <3> QED
      BY <3>1, <3>3 DEF ReadErrorOf
  <2> QED
    BY <1>2, <2>1, <2>2, <2>3, <2>4, StatusOfQuery
<1>3. HttpInv => ServerErrorsNeedAFault
  BY <1>1, <1>2 DEF ServerErrorsNeedAFault
<1> QED
  BY <1>3, HttpInvariant, PTL
=============================================================================
