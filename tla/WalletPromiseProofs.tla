-------------------------- MODULE WalletPromiseProofs --------------------------
(***************************************************************************)
(* Proofs about what clients are told: who may have a wallet, where a      *)
(* committed key leads, what a refusal leaves behind, and what an answer,  *)
(* the first one or a replayed one, says of the ledger.                    *)
(***************************************************************************)
EXTENDS WalletHistoryProofs, WalletRefinement

-----------------------------------------------------------------------------
(* Wallets are never closed nor handed on                                  *)

\* v and w are states of one wallet.
SameAccount(v, w) == v.id = w.id /\ v.owner = w.owner /\ v.currency = w.currency

\* The committed wallets stay, and only CreateWallet adds one.
LEMMA AccountsStay ==
    ASSUME StagedInv, [Next]_vars
    PROVE  /\ \A w \in wallets : \E n \in wallets' : SameAccount(w, n)
           /\ \A n \in wallets' :
                \/ \E w \in wallets : SameAccount(w, n)
                \/ \E q \in Requests : /\ ServerCommits(q) /\ StagesWallet(q)
                                       /\ n = NewWallet(newID[q], command[q])
<1>1. CASE UNCHANGED wallets
  BY <1>1 DEF SameAccount
<1>2. ASSUME NEW q \in Requests, ServerCommits(q), StagesWallet(q)
      PROVE  wallets' = wallets \cup {NewWallet(newID[q], command[q])}
  BY <1>2, Commits DEF StagesNothing, StagesWallet, StagesAll, StagesPosting
<1>3. ASSUME NEW q \in Requests, ServerCommits(q), StagesAll(q)
      PROVE  /\ \A w \in wallets : \E n \in wallets' : SameAccount(w, n)
             /\ \A n \in wallets' : \E w \in wallets : SameAccount(w, n)
  <2>1. /\ wallets' = {w \in wallets : \A new \in tx[q].wallets : new.id # w.id}
                        \cup tx[q].wallets
        /\ Live(q)
    BY <1>3 DEF ServerCommits, ApplyCommit, Live
  <2>2. /\ rows[q] \subseteq wallets /\ rows[q] \subseteq Wallet /\ command[q] \in Command
        /\ tx[q].wallets = {Mutated(v, command[q]) : v \in rows[q]}
        /\ \A v, w \in rows[q] : v.id = w.id => v = w
    BY <1>3, <2>1, PostingMatches
  <2>3. ASSUME NEW v \in rows[q]
        PROVE  SameAccount(v, Mutated(v, command[q]))
    BY <2>2 DEF SameAccount, Mutated, Debit, Credit, Wallet
  <2>4. \A v, w \in wallets : v.id = w.id => v = w
    BY DEF StagedInv, MoneyInv, MoneyOK, WalletsOK
  <2>5. ASSUME NEW w \in wallets
        PROVE  \E n \in wallets' : SameAccount(w, n)
    <3>1. CASE \A new \in tx[q].wallets : new.id # w.id
      BY <2>1, <3>1 DEF SameAccount
    <3>2. CASE \E new \in tx[q].wallets : new.id = w.id
      <4>1. PICK v \in rows[q] : Mutated(v, command[q]).id = w.id
        BY <2>2, <3>2
      <4>2. v = w
        BY <2>2, <2>3, <2>4, <4>1 DEF SameAccount
      <4> QED
        BY <2>1, <2>2, <2>3, <4>2
    <3> QED
      BY <3>1, <3>2
  <2>6. ASSUME NEW n \in wallets'
        PROVE  \E w \in wallets : SameAccount(w, n)
    BY <2>1, <2>2, <2>3 DEF SameAccount
  <2> QED
    BY <2>5, <2>6
<1>4. CASE \E q \in Requests : RequestStep(q)
  <2>1. PICK q \in Requests : RequestStep(q)
    BY <1>4
  <2>2. UNCHANGED wallets \/ (ServerCommits(q) /\ (StagesWallet(q) \/ StagesAll(q)))
    BY <2>1, OnlyCommitsChangeTables, Commits DEF tables
  <2>3. CASE ServerCommits(q) /\ StagesWallet(q)
    BY <1>2, <2>3 DEF SameAccount
  <2> QED
    BY <1>1, <1>3, <2>2, <2>3
<1>5. CASE Operator
  <2>1. PICK v \in wallets, status \in OperatorStatuses : OperatorSetsStatus(v, status)
    BY <1>5 DEF Operator
  <2> DEFINE n == [v EXCEPT !.status = status]
  <2>2. SameAccount(v, n)
    BY DEF StagedInv, MoneyInv, TypeOK, StoreTypeOK, Wallet, SameAccount
  <2>3. wallets' = (wallets \ {v}) \cup {n}
    BY <2>1 DEF OperatorSetsStatus
  <2> HIDE DEF n
  <2> QED
    BY <2>2, <2>3 DEF SameAccount
<1>6. CASE UNCHANGED vars
  BY <1>1, <1>6 DEF vars, storeVars
<1> QED
  BY <1>4, <1>5, <1>6, NextSplit

-----------------------------------------------------------------------------
(* One wallet per owner                                                    *)

\* The owner of a wallet that is about to be committed has none yet.
OwnerFree(r) ==
    command[r].kind = "CREATE" =>
        \A n \in tx[r].wallets :
            /\ n.owner = command[r].owner
            /\ \A w \in wallets : w.owner # n.owner

OwnersApart(r, q) ==
    command[r].kind = "CREATE" /\ command[q].kind = "CREATE" =>
        \A n \in tx[r].wallets, m \in tx[q].wallets : n.owner # m.owner

OwnersOK ==
    /\ \A r \in Requests : OwnerFree(r)
    /\ \A r, q \in Requests : r # q => OwnersApart(r, q)
    /\ OneWalletPerOwner

LEMMA OnlyArrivalsSetCommands ==
    ASSUME NEW q \in Requests, RequestStep(q)
    PROVE  Arrive(q) \/ UNCHANGED command
<1>1. CASE Proceed(q)
  BY <1>1 DEF Proceed, Begin, ReserveKey, LoseKey, ReadKey, ReadWallet, ReadTransaction,
     ReadEntries, LockWallet, MissWallet, Refuse, CreateFinancialTransaction, UpdateWallet,
     CreateLedgerEntry, CreateWallet, RefuseSecondWallet, RefuseRecord, Commit,
     CommitAcknowledged, Rollback, Retry
<1>2. CASE Server(q)
  BY <1>2 DEF Server, ServerCommits, BackendGone, requestVars
<1>3. CASE Failure(q)
  BY <1>3 DEF Failure, StatementFails, CommitFails, RollbackFails, Abandon
<1> QED
  BY <1>1, <1>2, <1>3 DEF RequestStep

\* A wallet is only made for an owner nobody else has made one for.
LEMMA OwnersTaken ==
    ASSUME StagedInv, NEW q \in Requests, RequestStep(q), command'[q].kind = "CREATE",
           NEW n \in tx'[q].wallets
    PROVE  /\ command'[q] = command[q]
           /\ \/ n \in tx[q].wallets
              \/ /\ n.owner = command[q].owner
                 /\ \A w \in wallets : w.owner # command[q].owner
                 /\ OwnerHolders(q, command[q].owner) = {}
<1> USE DEF StagedInv, MoneyInv, TypeOK, RequestTypeOK, StoreTypeOK
<1>1. CASE Arrive(q)
  <2>1. tx'[q].wallets = {}
    BY <1>1 DEF Arrive, SessionsOK, SessionOf, Live, storeVars
  <2> QED
    BY <2>1
<1>2. ~ Arrive(q) => command'[q] = command[q]
  BY OnlyArrivalsSetCommands
<1>3. ~ UpdateWallet(q)
  BY <1>2 DEF UpdateWallet, Arrive, ControlOK, ControlOf, KindOK
<1>4. CASE CreateWallet(q)
  <2>1. tx'[q].wallets = tx[q].wallets \cup {NewWallet(newID[q], command[q])}
    BY <1>4 DEF CreateWallet, InsertWallet, DatabaseTransaction
  <2>2. NewWallet(newID[q], command[q]).owner = command[q].owner
    BY DEF NewWallet
  <2> QED
    BY <1>2, <1>4, <2>1, <2>2 DEF CreateWallet
<1>5. CASE ~ Arrive(q) /\ ~ CreateWallet(q)
  <2>1. \/ Parts(q)' = Parts(q) \/ Parts(q)' = Empty
        \/ \E S : \/ Parts(q)' = [Parts(q) EXCEPT ![1] = S]
                  \/ Parts(q)' = [Parts(q) EXCEPT ![3] = S]
                  \/ Parts(q)' = [Parts(q) EXCEPT ![4] = S]
                  \/ Parts(q)' = [Parts(q) EXCEPT ![5] = S]
    BY <1>3, <1>5, OwnEffect
  <2>2. tx'[q].wallets = tx[q].wallets \/ tx'[q].wallets = {}
    <3>2. Parts(q) = <<tx[q].records, tx[q].wallets, tx[q].transactions,
                       tx[q].entries, tx[q].locks>>
      BY DEF Parts
    <3>3. Parts(q)' = <<tx'[q].records, tx'[q].wallets, tx'[q].transactions,
                        tx'[q].entries, tx'[q].locks>>
      BY DEF Parts
    <3>4. CASE Parts(q)' = Parts(q) \/ Parts(q)' = Empty
      BY <3>2, <3>3, <3>4 DEF Empty
    <3>5. ASSUME NEW S, \/ Parts(q)' = [Parts(q) EXCEPT ![1] = S]
                        \/ Parts(q)' = [Parts(q) EXCEPT ![3] = S]
                        \/ Parts(q)' = [Parts(q) EXCEPT ![4] = S]
                        \/ Parts(q)' = [Parts(q) EXCEPT ![5] = S]
          PROVE  tx'[q].wallets = tx[q].wallets
      BY <3>2, <3>3, <3>5
    <3> QED
      BY <2>1, <3>4, <3>5
  <2> QED
    BY <1>2, <1>5, <2>2
<1> QED
  BY <1>1, <1>4, <1>5

LEMMA OneCommits ==
    ASSUME StagedInv, NEW p \in Requests, NEW q \in Requests, ServerCommits(p),
           ServerCommits(q)
    PROVE  p = q
BY DEF StagedInv, MoneyInv, TypeOK, StoreTypeOK, ServerCommits, ApplyCommit, NoTransaction

LEMMA OwnerFreeStep ==
    ASSUME StagedInv, OwnersOK, NEW q \in Requests, RequestStep(q), NEW r \in Requests
    PROVE  OwnerFree(r)'
<1>1. CASE ServerCommits(q) /\ r = q
  <2>1. tx'[q].wallets = {}
    BY <1>1 DEF ServerCommits, ApplyCommit, NoTransaction, StagedInv, MoneyInv, TypeOK,
       StoreTypeOK
  <2> QED
    BY <1>1, <2>1 DEF OwnerFree
<1>2. CASE UNCHANGED wallets /\ r = q
  BY <1>2, OwnersTaken DEF OwnersOK, OwnerFree
<1>3. CASE r # q
  <2>1. tx'[r] = tx[r] /\ command'[r] = command[r]
    BY <1>3, OthersUnchanged DEF Local, StagedInv, MoneyInv
  <2>2. ASSUME command[r].kind = "CREATE", NEW n \in tx[r].wallets, NEW w \in wallets'
        PROVE  w.owner # n.owner
    <3>1. CASE \E v \in wallets : SameAccount(v, w)
      BY <2>2, <3>1 DEF SameAccount, OwnersOK, OwnerFree
    <3>2. CASE \E p \in Requests : /\ ServerCommits(p) /\ StagesWallet(p)
                                   /\ w = NewWallet(newID[p], command[p])
      <4>1. PICK p \in Requests : /\ ServerCommits(p) /\ StagesWallet(p)
                                  /\ w = NewWallet(newID[p], command[p])
        BY <3>2
      <4>2. p # r
        <5>1. tx'[p] # tx[p]
          BY <4>1 DEF ServerCommits, ApplyCommit, NoTransaction, StagedInv, MoneyInv,
             TypeOK, StoreTypeOK
        <5> QED
          BY <2>1, <5>1
      <4> QED
        BY <2>2, <4>1, <4>2 DEF OwnersOK, OwnersApart, StagesWallet
    <3>3. [Next]_vars
      BY DEF Next, RequestStep
    <3> QED
      BY <3>1, <3>2, <3>3, AccountsStay
  <2> QED
    BY <2>1, <2>2 DEF OwnersOK, OwnerFree
<1> QED
  BY <1>1, <1>2, <1>3, OnlyCommitsChangeWallets

LEMMA OwnersApartStep ==
    ASSUME StagedInv, OwnersOK, NEW q \in Requests, RequestStep(q), NEW r \in Requests \ {q}
    PROVE  OwnersApart(q, r)' /\ OwnersApart(r, q)'
<1>1. tx'[r] = tx[r] /\ command'[r] = command[r]
  BY OthersUnchanged DEF Local, StagedInv, MoneyInv
<1>2. ASSUME command'[q].kind = "CREATE", command[r].kind = "CREATE",
             NEW n \in tx'[q].wallets, NEW m \in tx[r].wallets
      PROVE  n.owner # m.owner
  BY <1>2, OwnersTaken DEF OwnersOK, OwnersApart, OwnerHolders
<1> QED
  BY <1>1, <1>2 DEF OwnersApart

\* The index on owner_id and the rows that wait at it.
LEMMA OneWalletStep ==
    ASSUME StagedInv, StagedInv', OwnersOK, [Next]_vars
    PROVE  OneWalletPerOwner'
<1>1. ASSUME NEW p \in Requests, ServerCommits(p), StagesWallet(p)
      PROVE  /\ \A w \in wallets : w.owner # command[p].owner
             /\ Record(p) \in idempotency'
  <2>1. /\ command[p].kind = "CREATE" /\ Record(p) \in tx[p].records
        /\ NewWallet(newID[p], command[p]) \in tx[p].wallets
    BY <1>1 DEF StagesWallet
  <2>2. NewWallet(newID[p], command[p]).owner = command[p].owner
    BY DEF NewWallet
  <2>3. idempotency' = idempotency \cup tx[p].records
    BY <1>1 DEF ServerCommits, ApplyCommit
  <2> QED
    BY <2>1, <2>2, <2>3 DEF OwnersOK, OwnerFree
<1>2. ASSUME NEW v \in wallets', NEW w \in wallets', v.owner = w.owner
      PROVE  v.id = w.id
  <2>1. CASE \E a, b \in wallets : SameAccount(a, v) /\ SameAccount(b, w)
    BY <1>2, <2>1 DEF SameAccount, OwnersOK, OneWalletPerOwner
  <2>2. ASSUME NEW p \in Requests, ServerCommits(p), StagesWallet(p),
               v = NewWallet(newID[p], command[p]) \/ w = NewWallet(newID[p], command[p])
        PROVE  v.id = w.id
    <3>1. NewWallet(newID[p], command[p]).owner = command[p].owner
      BY DEF NewWallet
    <3>2. \A x \in wallets : ~ SameAccount(x, v) /\ ~ SameAccount(x, w)
      BY <1>1, <1>2, <2>2, <3>1 DEF SameAccount
    <3>3. v = NewWallet(newID[p], command[p]) /\ w = NewWallet(newID[p], command[p])
      BY <2>2, <3>2, AccountsStay, OneCommits
    <3> QED
      BY <3>3
  <2> QED
    BY <2>1, <2>2, AccountsStay
<1>3. ASSUME NEW v \in wallets', NEW w \in wallets', v.owner = w.owner
      PROVE  v = w
  BY <1>2, <1>3 DEF StagedInv, MoneyInv, MoneyOK, WalletsOK
<1>4. idempotency \subseteq idempotency'
  BY IdempotencyGrows, NextSplit DEF Operator, OperatorSetsStatus, vars, storeVars
<1>5. ASSUME NEW w \in wallets'
      PROVE  \/ \E o \in OpenedWallets : o.id = w.id
             \/ \E rec \in idempotency' : rec.scope = w.owner /\ rec.resource = w.id
  <2>1. CASE \E v \in wallets : SameAccount(v, w)
    BY <1>4, <2>1 DEF SameAccount, OwnersOK, OneWalletPerOwner
  <2>2. ASSUME NEW p \in Requests, ServerCommits(p), StagesWallet(p),
               w = NewWallet(newID[p], command[p])
        PROVE  \E rec \in idempotency' : rec.scope = w.owner /\ rec.resource = w.id
    BY <1>1, <2>2 DEF NewWallet, Record
  <2> QED
    BY <2>1, <2>2, AccountsStay
<1> QED
  BY <1>3, <1>5 DEF OneWalletPerOwner

LEMMA OwnersStep ==
    ASSUME StagedInv, StagedInv', OwnersOK, [Next]_vars
    PROVE  OwnersOK'
<1>1. CASE \E q \in Requests : RequestStep(q)
  <2>1. PICK q \in Requests : RequestStep(q)
    BY <1>1
  <2>2. ASSUME NEW r \in Requests \ {q}, NEW s \in Requests \ {q}, r # s
        PROVE  OwnersApart(r, s)'
    BY <2>1, <2>2, OthersUnchanged DEF Local, OwnersOK, OwnersApart, StagedInv, MoneyInv
  <2> QED
    BY <2>1, <2>2, OwnerFreeStep, OwnersApartStep, OneWalletStep DEF OwnersOK
<1>2. CASE Operator \/ UNCHANGED vars
  <2>1. UNCHANGED <<tx, command>>
    BY <1>2 DEF Operator, OperatorSetsStatus, vars, storeVars, requestVars
  <2>2. \A w \in wallets' : \E v \in wallets : SameAccount(v, w)
    <3>1. ~ \E q \in Requests : ServerCommits(q)
      <4>1. ASSUME NEW q \in Requests, ServerCommits(q)
            PROVE  FALSE
        BY <2>1, <4>1 DEF ServerCommits, ApplyCommit, NoTransaction, StagedInv, MoneyInv,
           TypeOK, StoreTypeOK
      <4> QED
        BY <4>1
    <3> QED
      BY <3>1, AccountsStay
  <2>3. \A r \in Requests : OwnerFree(r)'
    BY <2>1, <2>2 DEF OwnersOK, OwnerFree, SameAccount
  <2>4. \A r, q \in Requests : r # q => OwnersApart(r, q)'
    BY <2>1 DEF OwnersOK, OwnersApart
  <2> QED
    BY <2>3, <2>4, OneWalletStep DEF OwnersOK
<1> QED
  BY <1>1, <1>2, NextSplit

LEMMA InitOwners == Init => OwnersOK
<1> SUFFICES ASSUME Init PROVE OwnersOK
  OBVIOUS
<1>1. \A r \in Requests : tx[r].wallets = {}
  BY DEF Init, NoTransaction
<1>2. OneWalletPerOwner
  BY ServiceAssumption DEF Init, OneWalletPerOwner
<1> QED
  BY <1>1, <1>2 DEF OwnersOK, OwnerFree, OwnersApart

LEMMA OwnersInvariant == Spec => []OwnersOK
<1>1. StagedInv /\ StagedInv' /\ OwnersOK /\ [Next]_vars => OwnersOK'
  BY OwnersStep
<1> QED
  BY <1>1, InitOwners, StagedInvariant, PTL DEF Spec

\* Two concurrent CreateWallet commands of one owner, with any keys, retries and
\* lost connections between them, leave one wallet: wallets_owner_id_key holds the
\* second one back, and the record that leads to the wallet is committed with it.
THEOREM OwnersHaveOneWallet == Spec => []OneWalletPerOwner
<1>1. OwnersOK => OneWalletPerOwner
  BY DEF OwnersOK
<1> QED
  BY <1>1, OwnersInvariant, PTL

-----------------------------------------------------------------------------
(* Where a committed key leads                                             *)

RecordsOK ==
    /\ \A a, b \in idempotency : SameKey(a, b) => a = b
    /\ EveryRecordResolves
    /\ \A t \in transactions : t = Posted(t.id) /\ command[t.id].kind # "CREATE"

\* The hash of a request and its key are the request.
LEMMA HashAndKey ==
    ASSUME NEW c \in Command
    PROVE  c = [requestHash(c) EXCEPT !.key = c.key]
BY DEF requestHash, Command

LEMMA PostedCommandFixed ==
    ASSUME StagedInv, [Next]_vars, NEW t \in transactions
    PROVE  /\ t.id \in Requests /\ command'[t.id] = command[t.id]
           /\ Posted(t.id)' = Posted(t.id)
<1>1. t.id \in Requests /\ pc[t.id] # "idle"
  BY DEF StagedInv, MoneyInv, TypeOK, StoreTypeOK, FinancialTransaction, KeysOK,
     PostedKeysTaken
<1>2. command'[t.id] = command[t.id]
  <2>1. CASE \E q \in Requests : RequestStep(q)
    BY <1>1, <2>1, CommandFixed DEF StagedInv, MoneyInv
  <2>2. CASE Operator \/ UNCHANGED vars
    BY <2>2 DEF Operator, OperatorSetsStatus, vars, requestVars
  <2> QED
    BY <2>1, <2>2, NextSplit
<1> QED
  BY <1>1, <1>2 DEF Posted

\* A committed record and a committed transaction stay.
LEMMA CommittedStays ==
    ASSUME [Next]_vars
    PROVE  transactions \subseteq transactions' /\ idempotency \subseteq idempotency'
<1>1. CASE \E q \in Requests : RequestStep(q)
  BY <1>1, OnlyCommitsChangeTables DEF tables, ServerCommits, ApplyCommit
<1>2. CASE Operator \/ UNCHANGED vars
  BY <1>2 DEF Operator, OperatorSetsStatus, vars, storeVars
<1> QED
  BY <1>1, <1>2, NextSplit

\* What the record of r says of the command that made it.
Describes(rec) ==
    IF rec.type = "WALLET"
      THEN \E w \in wallets :
             /\ w.id = rec.resource
             /\ w.owner = rec.scope /\ w.currency = rec.hash.currency
      ELSE \E t \in transactions :
             t.id = rec.resource /\ command[t.id] = [rec.hash EXCEPT !.key = rec.key]

LEMMA StillDescribes ==
    ASSUME StagedInv, [Next]_vars, NEW rec, Describes(rec)
    PROVE  Describes(rec)'
<1>1. CASE rec.type = "WALLET"
  BY <1>1, AccountsStay DEF Describes, SameAccount
<1>2. CASE rec.type # "WALLET"
  <2>1. PICK t \in transactions :
          t.id = rec.resource /\ command[t.id] = [rec.hash EXCEPT !.key = rec.key]
    BY <1>2 DEF Describes
  <2>2. t \in transactions' /\ command'[t.id] = command[t.id]
    BY CommittedStays, PostedCommandFixed
  <2> QED
    BY <1>2, <2>1, <2>2 DEF Describes
<1> QED
  BY <1>1, <1>2

LEMMA NewRecordDescribes ==
    ASSUME StagedInv, NEW q \in Requests, ServerCommits(q), StagesWallet(q) \/ StagesAll(q)
    PROVE  Describes(Record(q))'
<1>0. command'[q] = command[q] /\ Record(q)' = Record(q)
  BY DEF ServerCommits, requestVars, Record
<1>1. CASE StagesWallet(q)
  <2>1. NewWallet(newID[q], command[q]) \in wallets'
    BY <1>1 DEF StagesWallet, ServerCommits, ApplyCommit
  <2>2. Record(q).type = "WALLET"
    BY <1>1 DEF StagesWallet, Record, resourceType
  <2>3. /\ NewWallet(newID[q], command[q]).id = Record(q).resource
        /\ NewWallet(newID[q], command[q]).owner = Record(q).scope
        /\ NewWallet(newID[q], command[q]).currency = Record(q).hash.currency
    BY DEF NewWallet, Record, requestHash, StagedInv, MoneyInv, TypeOK, RequestTypeOK,
       Command
  <2> QED
    BY <1>0, <2>1, <2>2, <2>3 DEF Describes
<1>2. CASE StagesAll(q)
  <2>1. Posted(q) \in transactions'
    BY <1>2 DEF StagesAll, StagesPosting, ServerCommits, ApplyCommit
  <2>2. /\ Record(q).type # "WALLET" /\ Posted(q).id = q /\ Record(q).resource = q
        /\ Record(q).hash = requestHash(command[q]) /\ Record(q).key = command[q].key
    BY <1>2 DEF StagesAll, StagesPosting, Record, Posted, resourceType
  <2>3. command[q] = [Record(q).hash EXCEPT !.key = Record(q).key]
    BY <2>2, HashAndKey DEF StagedInv, MoneyInv, TypeOK, RequestTypeOK
  <2> QED
    BY <1>0, <2>1, <2>2, <2>3 DEF Describes
<1> QED
  BY <1>1, <1>2

LEMMA RecordsStep ==
    ASSUME StagedInv, RecordsOK, [Next]_vars
    PROVE  RecordsOK'
<1>0. \A rec \in idempotency : Describes(rec)
  BY DEF RecordsOK, EveryRecordResolves, Describes
<1>1. \A t \in transactions : (t = Posted(t.id) /\ command[t.id].kind # "CREATE")'
  BY PostedCommandFixed DEF RecordsOK
<1>2. CASE \E q \in Requests : ServerCommits(q) /\ ~ StagesNothing(q)
  <2>1. PICK q \in Requests : ServerCommits(q) /\ ~ StagesNothing(q)
    BY <1>2
  <2>2. StagesWallet(q) \/ StagesAll(q)
    BY <2>1, Commits
  <2>3. /\ tx[q].records = {Record(q)} /\ idempotency' = idempotency \cup {Record(q)}
        /\ transactions' = transactions \cup tx[q].transactions
        /\ UNCHANGED command
    BY <2>1, <2>2 DEF StagesWallet, StagesAll, StagesPosting, ServerCommits, ApplyCommit,
       requestVars
  <2>4. \A old \in idempotency : ~ SameKey(Record(q), old) /\ ~ SameKey(old, Record(q))
    BY <2>3 DEF StagedInv, KeysOK, KeyFree, SameKey
  <2>5. \A a, b \in idempotency' : SameKey(a, b) => a = b
    BY <2>3, <2>4 DEF RecordsOK
  <2>6. \A rec \in idempotency' : Describes(rec)'
    <3>1. \A rec \in idempotency : Describes(rec)'
      BY <1>0, StillDescribes
    <3>2. Record(q)' = Record(q)
      BY <2>1 DEF ServerCommits, requestVars, Record
    <3>3. Describes(Record(q))'
      BY <2>1, <2>2, NewRecordDescribes
    <3> QED
      BY <2>3, <3>1, <3>2, <3>3
  <2>7. \A t \in tx[q].transactions : (t = Posted(t.id) /\ command[t.id].kind # "CREATE")'
    <3>1. \A t \in tx[q].transactions : t = Posted(q) /\ t.id = q /\ command[q].kind # "CREATE"
      BY <2>2 DEF StagesWallet, StagesAll, StagesPosting, Posted
    <3>2. Posted(q)' = Posted(q)
      BY <2>3 DEF Posted
    <3> QED
      BY <2>3, <3>1, <3>2
  <2> QED
    BY <1>1, <2>3, <2>5, <2>6, <2>7 DEF RecordsOK, EveryRecordResolves, Describes
<1>3. CASE UNCHANGED <<transactions, idempotency>>
  BY <1>0, <1>1, <1>3, StillDescribes DEF RecordsOK, EveryRecordResolves, Describes
<1>4. \/ \E q \in Requests : ServerCommits(q) /\ ~ StagesNothing(q)
      \/ UNCHANGED <<transactions, idempotency>>
  <2>1. CASE \E q \in Requests : RequestStep(q)
    <3>1. PICK q \in Requests : RequestStep(q)
      BY <2>1
    <3>2. CASE ServerCommits(q) /\ StagesNothing(q)
      BY <3>2 DEF ServerCommits, ApplyCommit, StagesNothing, WritesNoRow
    <3> QED
      BY <3>1, <3>2, OnlyCommitsChangeTables DEF tables
  <2>2. CASE Operator \/ UNCHANGED vars
    BY <2>2 DEF Operator, OperatorSetsStatus, vars, storeVars
  <2> QED
    BY <2>1, <2>2, NextSplit
<1> QED
  BY <1>2, <1>3, <1>4

LEMMA InitRecords == Init => RecordsOK
BY DEF Init, RecordsOK, EveryRecordResolves

LEMMA RecordsInvariant == Spec => []RecordsOK
<1>1. StagedInv /\ RecordsOK /\ [Next]_vars => RecordsOK'
  BY RecordsStep
<1> QED
  BY <1>1, InitRecords, StagedInvariant, PTL DEF Spec

\* ReserveIdempotency's record and the wallet or transaction it names are committed
\* together, and neither is ever taken away: a client who comes back with its key
\* finds what its request made, though resource_id has no foreign key.
THEOREM RecordsResolve == Spec => []EveryRecordResolves
<1>1. RecordsOK => EveryRecordResolves
  BY DEF RecordsOK
<1> QED
  BY <1>1, RecordsInvariant, PTL

-----------------------------------------------------------------------------
(* What a refusal leaves behind                                            *)

\* The commit of r is past, or will never come and the client knows no better.
Decided(r) ==
    \/ tx[r].state = "committed"
    \/ pc[r] = "done" /\ err[r] \in {NoError, "ErrUnavailable"} /\ ~ Live(r)

\* No row of r is committed.
NoTrace(r) ==
    /\ \A t \in transactions : t.id # r
    /\ Generated(r) => \A w \in wallets : w.id # newID[r]

OutcomeOf(r) ==
    /\ pc[r] = "rollback" => err[r] \notin {NoError, "ErrUnavailable"}
    /\ pc[r] = "done" /\ tx[r].state \in {"committing", "committed"} =>
         err[r] = "ErrUnavailable"
    /\ command[r].kind = "CREATE" => newID[r] \in WalletIDs \cup {NoID}
    /\ ~ Decided(r) => NoTrace(r)

OutcomeOK == \A r \in Requests : OutcomeOf(r)

LEMMA RefusalIsAnError ==
    ASSUME StagedInv, NEW q \in Requests, Live(q), NEW e, Refused(rows[q], command[q], e)
    PROVE  e \notin {NoError, "ErrUnavailable"}
<1>1. \A v, w \in rows[q] : v.id = w.id => v = w
  BY DEF StagedInv, MoneyInv, MoneyOK, WalletsOK, LocksOK, LocksOf, CommittedOf
<1>2. /\ \A w, c : DebitError(w, c) # "ErrUnavailable"
      /\ \A w, c : CreditError(w, c) # "ErrUnavailable"
  BY DEF DebitError, CreditError, validateMutation, AddMinorError, NoError
<1>3. CASE e = "ErrWalletAccessDenied"
  BY <1>3 DEF NoError
<1>4. CASE /\ ~ DebitsPass(rows[q], command[q])
           /\ \E w \in rows[q] : w.id = command[q].source /\ e = DebitError(w, command[q])
  BY <1>1, <1>2, <1>4 DEF DebitsPass
<1>5. CASE /\ ~ CreditsPass(rows[q], command[q])
           /\ \E w \in rows[q] : /\ w.id = command[q].destination
                                 /\ e = CreditError(w, command[q])
  BY <1>1, <1>2, <1>5 DEF CreditsPass
<1> QED
  BY <1>3, <1>4, <1>5 DEF Refused

LEMMA OwnRollback ==
    ASSUME StagedInv, OutcomeOK, NEW q \in Requests, RequestStep(q), pc'[q] = "rollback"
    PROVE  err'[q] \notin {NoError, "ErrUnavailable"}
<1> USE DEF StagedInv, MoneyInv, TypeOK, RequestTypeOK, StoreTypeOK, Goto, Answer, Fail
<1>c. ASSUME NEW e, Conclude(q, e)
      PROVE  pc'[q] # "rollback"
  BY <1>c DEF Conclude
<1>1. CASE Refuse(q)
  <2>1. PICK e : Refused(rows[q], command[q], e) /\ Fail(q, e)
    BY <1>1 DEF Refuse
  <2>2. Live(q)
    BY <1>1 DEF Refuse, SessionsOK, SessionOf, Live
  <2>3. err'[q] = e
    BY <2>1
  <2> QED
    BY <2>1, <2>2, <2>3, RefusalIsAnError
<1>2. CASE ReadKey(q) \/ ReadWallet(q) \/ ReadTransaction(q) \/ MissWallet(q)
             \/ RefuseSecondWallet(q) \/ RefuseRecord(q)
  BY <1>2 DEF ReadKey, ReadWallet, ReadTransaction, MissWallet, RefuseSecondWallet,
     RefuseRecord, NoError
<1>3. CASE \E e \in {"40P01", "ErrDatabase"} : StatementFails(q, e)
  BY <1>3 DEF StatementFails, NoError
<1>4. CASE Arrive(q) \/ Begin(q) \/ ReserveKey(q) \/ LoseKey(q) \/ ReadEntries(q)
             \/ LockWallet(q) \/ CreateFinancialTransaction(q) \/ UpdateWallet(q)
             \/ CreateLedgerEntry(q) \/ CreateWallet(q) \/ Commit(q)
             \/ CommitAcknowledged(q) \/ Retry(q) \/ Abandon(q) \/ BackendGone(q)
  BY <1>4 DEF Arrive, Begin, ReserveKey, LoseKey, ReadEntries, LockWallet,
     CreateFinancialTransaction, UpdateWallet, CreateLedgerEntry, CreateWallet, Commit,
     CommitAcknowledged, Retry, Abandon, BackendGone, requestVars
<1>5. CASE \/ Rollback(q) \/ RollbackFails(q)
           \/ \E e \in {"40P01", "ErrDatabase"} : CommitFails(q, e)
  BY <1>5, <1>c DEF Rollback, RollbackFails, CommitFails
<1>6. CASE ServerCommits(q)
  BY <1>6 DEF ServerCommits, requestVars, SessionsOK, SessionOf
<1> QED
  BY <1>1, <1>2, <1>3, <1>4, <1>5, <1>6 DEF RequestStep, Proceed, Server, Failure

\* The goroutine of r returns while a COMMIT of its own is under way, or was
\* applied, only when it is cut off.
LEMMA OwnEnd ==
    ASSUME StagedInv, OutcomeOK, NEW q \in Requests, RequestStep(q), pc'[q] = "done",
           tx'[q].state \in {"committing", "committed"}
    PROVE  err'[q] = "ErrUnavailable"
<1> USE DEF StagedInv, MoneyInv, TypeOK, RequestTypeOK, StoreTypeOK, Goto, Answer, Fail
<1>a. ~ AbortTx(q)
  BY DEF AbortTx, NoTransaction
<1>1. ~ Arrive(q) /\ ~ RollbackFails(q)
  BY DEF Arrive, RollbackFails, SessionsOK, SessionOf, storeVars
<1>2. /\ ~ RefuseSecondWallet(q) /\ ~ RefuseRecord(q) /\ ~ CommitAcknowledged(q)
      /\ ~ Rollback(q)
      /\ ~ BackendGone(q)
      /\ \A e \in {"40P01", "ErrDatabase"} : ~ StatementFails(q, e) /\ ~ CommitFails(q, e)
  BY <1>a DEF RefuseSecondWallet, RefuseRecord, CommitAcknowledged, Rollback, BackendGone,
     StatementFails, CommitFails
<1>3. CASE Begin(q) \/ ReserveKey(q) \/ LoseKey(q) \/ ReadKey(q) \/ ReadWallet(q)
             \/ ReadTransaction(q) \/ ReadEntries(q) \/ LockWallet(q) \/ MissWallet(q)
             \/ Refuse(q)
  BY <1>3 DEF Begin, ReserveKey, LoseKey, ReadKey, ReadWallet, ReadTransaction,
     ReadEntries, LockWallet, MissWallet, Refuse
<1>4. CASE CreateFinancialTransaction(q) \/ UpdateWallet(q) \/ CreateLedgerEntry(q)
             \/ CreateWallet(q) \/ Commit(q) \/ Retry(q)
  BY <1>4 DEF CreateFinancialTransaction, UpdateWallet, CreateLedgerEntry, CreateWallet,
     Commit, Retry
<1>5. CASE Abandon(q)
  BY <1>5 DEF Abandon
<1>6. CASE ServerCommits(q)
  BY <1>6 DEF ServerCommits, requestVars, OutcomeOK, OutcomeOf
<1> QED
  BY <1>1, <1>2, <1>3, <1>4, <1>5, <1>6 DEF RequestStep, Proceed, Server, Failure

LEMMA OwnID ==
    ASSUME StagedInv, OutcomeOK, NEW q \in Requests, RequestStep(q),
           command'[q].kind = "CREATE"
    PROVE  newID'[q] \in WalletIDs \cup {NoID}
<1> USE DEF StagedInv, MoneyInv, TypeOK, RequestTypeOK, StoreTypeOK
<1>1. CASE Arrive(q)
  <2>1. newID[q] = NoID
    BY <1>1 DEF Arrive, LocksOK, LocksOf, ReplayOf
  <2> QED
    BY <1>1, <2>1 DEF Arrive, FreshIDs
<1>2. CASE ReadWallet(q)
  BY <1>2 DEF ReadWallet, Wallet
<1>3. CASE \E e \in {"40P01", "ErrDatabase"} : StatementFails(q, e)
  BY <1>3 DEF StatementFails, OutcomeOK, OutcomeOf
<1>4. CASE UNCHANGED <<command, newID>>
  BY <1>4 DEF OutcomeOK, OutcomeOf
<1>5. \/ Arrive(q) \/ ReadWallet(q) \/ UNCHANGED <<command, newID>>
      \/ \E e \in {"40P01", "ErrDatabase"} : StatementFails(q, e)
  BY DEF RequestStep, Proceed, Begin, ReserveKey, LoseKey, ReadKey, ReadTransaction,
     ReadEntries, LockWallet, MissWallet, Refuse, CreateFinancialTransaction, UpdateWallet,
     CreateLedgerEntry, CreateWallet, RefuseSecondWallet, RefuseRecord, Commit,
     CommitAcknowledged,
     Rollback, Retry, Server, ServerCommits, BackendGone, requestVars, Failure,
     CommitFails, RollbackFails, Abandon
<1> QED
  BY <1>1, <1>2, <1>3, <1>4, <1>5

LEMMA DecidedStays ==
    ASSUME StagedInv, NEW q \in Requests, RequestStep(q), Decided(q)
    PROVE  Decided(q)'
<1> USE DEF StagedInv, MoneyInv, TypeOK, RequestTypeOK, StoreTypeOK, Goto, Answer, Fail
<1>1. CASE tx[q].state = "committed"
  <2>1. tx'[q].state = "committed" \/ (pc'[q] = "done" /\ ~ Live(q)')
    BY <1>1, OwnProgress DEF SessionsOK
  <2>2. CASE tx'[q].state # "committed"
    <3>1. pc[q] \in {"committing", "done"}
      BY <1>1 DEF Labels, SessionsOK, SessionOf, Fresh, NoTransaction
    <3>2. ~ Abandon(q) /\ ~ Server(q) /\ ~ RollbackFails(q)
      BY <1>1, <2>2, <3>1 DEF Abandon, Server, ServerCommits, BackendGone, Live, storeVars,
         RollbackFails
    <3>3. \A e \in {"40P01", "ErrDatabase"} : ~ StatementFails(q, e) /\ ~ CommitFails(q, e)
      BY <1>1, <3>1 DEF StatementFails, CommitFails, InStatement, OnConnection, Running
    <3>4. CommitAcknowledged(q)
      BY <3>1, <3>2, <3>3 DEF RequestStep, Failure, Arrive, Proceed, Begin, ReserveKey,
         LoseKey, ReadKey, ReadWallet, ReadTransaction, ReadEntries, LockWallet,
         MissWallet, Refuse, CreateFinancialTransaction, UpdateWallet, CreateLedgerEntry,
         CreateWallet, RefuseSecondWallet, RefuseRecord, Commit, Rollback, Retry
    <3> QED
      BY <2>1, <2>2, <3>4 DEF CommitAcknowledged, Decided
  <2> QED
    BY <2>2 DEF Decided
<1>2. CASE pc[q] = "done" /\ ~ Live(q)
  <2>1. ~ Arrive(q) /\ ~ Server(q)
    BY <1>2 DEF Arrive, Server, ServerCommits, BackendGone, Live
  <2>2. ~ Failure(q)
    BY <1>2 DEF Failure, StatementFails, CommitFails, RollbackFails, Abandon, InStatement,
       OnConnection, Running
  <2>3. ~ Proceed(q)
    BY <1>2 DEF Proceed, Begin, ReserveKey, LoseKey, ReadKey, ReadWallet, ReadTransaction,
       ReadEntries, LockWallet, MissWallet, Refuse, CreateFinancialTransaction,
       UpdateWallet, CreateLedgerEntry, CreateWallet, RefuseSecondWallet, RefuseRecord,
       Commit, CommitAcknowledged, Rollback, Retry
  <2> QED
    BY <2>1, <2>2, <2>3 DEF RequestStep
<1> QED
  BY <1>1, <1>2 DEF Decided

LEMMA OwnTrace ==
    ASSUME StagedInv, OutcomeOK, NEW q \in Requests, RequestStep(q), ~ Decided(q)'
    PROVE  NoTrace(q)'
<1>1. ~ Decided(q)
  BY DecidedStays
<1>2. UNCHANGED tables
  <2>1. ~ ServerCommits(q)
    BY DEF ServerCommits, ApplyCommit, NoTransaction, Decided, StagedInv, MoneyInv, TypeOK,
       StoreTypeOK
  <2> QED
    BY <2>1, OnlyCommitsChangeTables
<1>3. Generated(q)' => \A w \in wallets : w.id # newID'[q]
  BY <1>1, GeneratedAtArrival
     DEF OutcomeOK, OutcomeOf, NoTrace, StagedInv, MoneyInv, ControlOK, LocksOK, LocksOf
<1> QED
  BY <1>1, <1>2, <1>3 DEF tables, OutcomeOK, OutcomeOf, NoTrace

\* The commit of another request leaves no row of r.
LEMMA OtherTrace ==
    ASSUME StagedInv, NEW q \in Requests, RequestStep(q), NEW r \in Requests \ {q},
           NoTrace(r)
    PROVE  NoTrace(r)'
<1>1. Generated(r)' = Generated(r) /\ newID'[r] = newID[r]
  BY OthersUnchanged DEF Local, Generated, StagedInv, MoneyInv
<1>2. CASE UNCHANGED tables
  BY <1>1, <1>2 DEF tables, NoTrace
<1>3. CASE ServerCommits(q)
  <2>1. \A t \in transactions' : t.id # r
    BY <1>3 DEF ServerCommits, ApplyCommit, NoTrace, StagedInv, KeysOK, KeyOf
  <2>2. ASSUME Generated(r), NEW n \in wallets'
        PROVE  n.id # newID[r]
    <3>1. CASE \E w \in wallets : SameAccount(w, n)
      BY <2>2, <3>1 DEF NoTrace, SameAccount
    <3>2. ASSUME NEW p \in Requests, ServerCommits(p), StagesWallet(p),
                 n = NewWallet(newID[p], command[p])
          PROVE  n.id # newID[r]
      <4>1. p = q /\ Generated(p)
        BY <1>3, <3>2, OneCommits DEF StagesWallet
      <4> QED
        BY <2>2, <3>2, <4>1 DEF NewWallet, StagedInv, MoneyInv, LocksOK, Apart
    <3>3. [Next]_vars
      BY DEF Next, RequestStep
    <3> QED
      BY <3>1, <3>2, <3>3, AccountsStay
  <2> QED
    BY <1>1, <2>1, <2>2 DEF NoTrace
<1> QED
  BY <1>2, <1>3, OnlyCommitsChangeTables

LEMMA OutcomeStep ==
    ASSUME StagedInv, OutcomeOK, [Next]_vars
    PROVE  OutcomeOK'
<1>1. CASE \E q \in Requests : RequestStep(q)
  <2>1. PICK q \in Requests : RequestStep(q)
    BY <1>1
  <2>2. OutcomeOf(q)'
    BY <2>1, OwnRollback, OwnEnd, OwnID, OwnTrace DEF OutcomeOf
  <2>3. ASSUME NEW r \in Requests \ {q}  PROVE OutcomeOf(r)'
    BY <2>1, OthersUnchanged, OtherTrace
       DEF Local, OutcomeOK, OutcomeOf, Decided, Live, StagedInv, MoneyInv
  <2> QED
    BY <2>2, <2>3 DEF OutcomeOK
<1>2. CASE Operator
  <2>1. PICK v \in wallets, status \in OperatorStatuses : OperatorSetsStatus(v, status)
    BY <1>2 DEF Operator
  <2>2. \A n \in wallets' : \E w \in wallets : w.id = n.id
    <3>1. [v EXCEPT !.status = status].id = v.id
      BY DEF StagedInv, MoneyInv, TypeOK, StoreTypeOK, Wallet
    <3> QED
      BY <2>1, <3>1 DEF OperatorSetsStatus
  <2>3. UNCHANGED <<transactions, tx, requestVars>>
    BY <2>1 DEF OperatorSetsStatus
  <2> QED
    BY <2>2, <2>3 DEF requestVars, OutcomeOK, OutcomeOf, Decided, Live, NoTrace, Generated
<1>3. CASE UNCHANGED vars
  BY <1>3 DEF vars, storeVars, requestVars, OutcomeOK, OutcomeOf, Decided, Live, NoTrace,
     Generated
<1> QED
  BY <1>1, <1>2, <1>3, NextSplit

LEMMA InitOutcome == Init => OutcomeOK
BY DEF Init, OutcomeOK, OutcomeOf, NoTrace, NoTransaction, Generated, NoError

LEMMA OutcomeInvariant == Spec => []OutcomeOK
<1>1. StagedInv /\ OutcomeOK /\ [Next]_vars => OutcomeOK'
  BY OutcomeStep
<1> QED
  BY <1>1, InitOutcome, StagedInvariant, PTL DEF Spec

\* A request that was refused, by a check, by the schema or by the database, has
\* rolled back before it answered: no transaction, no wallet and no record of its
\* key is or will be committed, so the client may use the key again.
THEOREM RefusalsLeaveNoTrace == Spec => []RefusedLeavesNoTrace
<1>1. ASSUME TypeOK, OutcomeOK, RecordsOK,
             NEW r \in Requests, pc[r] = "done", err[r] \notin {NoError, "ErrUnavailable"}
      PROVE  /\ tx[r].state # "committing"
             /\ \A t \in transactions : t.id # r
             /\ \A rec \in idempotency :
                  /\ rec.resource # r
                  /\ command[r].kind = "CREATE" /\ ~ result[r].replayed =>
                       rec.resource # newID[r]
  <2>1. tx[r].state \notin {"committing", "committed"} /\ NoTrace(r)
    BY <1>1 DEF OutcomeOK, OutcomeOf, Decided
  <2>2. ASSUME NEW rec \in idempotency
        PROVE  \/ \E w \in wallets : w.id = rec.resource
               \/ \E t \in transactions : t.id = rec.resource
    BY <1>1 DEF RecordsOK, EveryRecordResolves
  <2>3. /\ \A w \in wallets : w.id \in WalletIDs /\ w.id # NoID /\ w.id # r
        /\ \A t \in transactions : t.id \notin WalletIDs \cup {NoID}
    BY <1>1, DomainAssumption
       DEF TypeOK, StoreTypeOK, Wallet, FinancialTransaction
  <2>4. command[r].kind = "CREATE" => newID[r] \in WalletIDs \cup {NoID}
    BY <1>1 DEF OutcomeOK, OutcomeOf
  <2> QED
    BY <2>1, <2>2, <2>3, <2>4 DEF NoTrace, Generated
<1>2. TypeOK /\ OutcomeOK /\ RecordsOK => RefusedLeavesNoTrace
  BY <1>1 DEF RefusedLeavesNoTrace
<1>3. StagedInv => TypeOK
  BY DEF StagedInv, MoneyInv
<1> QED
  BY <1>2, <1>3, StagedInvariant, OutcomeInvariant, RecordsInvariant, PTL

-----------------------------------------------------------------------------
(* What an answer says                                                     *)

Resource(r) == IF command[r].kind = "CREATE" THEN newID[r] ELSE result[r].transaction

\* rec is the record of a command like that of r.
RecordOf(r, rec) ==
    /\ rec.scope = command[r].owner /\ rec.key = command[r].key
    /\ rec.hash = requestHash(command[r]) /\ rec.type = resourceType(command[r])

EntriesIn(id) == {e \in ledger : e.transaction = id}

Durable(r) ==
    IF command[r].kind = "CREATE"
      THEN \E w \in wallets : /\ w.id = newID[r]
                              /\ w.owner = command[r].owner
                              /\ w.currency = command[r].currency
      ELSE /\ \E t \in transactions :
                /\ t.id = result[r].transaction
                /\ t.type = command[r].kind /\ t.amount = command[r].amount
                /\ t.source = command[r].source
                /\ t.destination = command[r].destination
           /\ result[r].entries = EntriesIn(result[r].transaction)
           /\ result[r].entries # {}

\* What r would answer is committed, under the record of its key.
Truthful(r) ==
    /\ \E rec \in idempotency : RecordOf(r, rec) /\ rec.resource = Resource(r)
    /\ Durable(r)
    /\ command[r].kind # "CREATE" => result[r].replayed \/ result[r].transaction = r

Ending(r) == pc[r] = "commit" \/ (pc[r] = "committing" /\ tx[r].state = "committing")

AnswerOf(r) ==
    /\ pc[r] \in {"readResource", "readEntries"} =>
         \E rec \in idempotency : RecordOf(r, rec) /\ rec.resource = found[r]
    /\ pc[r] = "readEntries" =>
         /\ result[r].transaction = found[r] /\ result[r].replayed
         /\ \E t \in transactions : t.id = found[r]
    /\ Ending(r) /\ StagesNothing(r) => Truthful(r)
    /\ Ending(r) /\ ~ StagesNothing(r) /\ command[r].kind # "CREATE" =>
         result[r] = [transaction |-> r, replayed |-> FALSE, entries |-> tx[r].entries]
    /\ pc[r] = "committing" /\ tx[r].state = "committed" => Truthful(r)
    /\ Acknowledged(r) => Truthful(r)
    /\ pc[r] = "idle" \/ command[r].kind = "CREATE" =>
         result[r].transaction = NoID /\ result[r].entries = {}

AnswerOK == \A r \in Requests : AnswerOf(r)

PromiseInv == StagedInv /\ PostedOK /\ RecordsOK /\ OutcomeOK

LEMMA PromiseInvariant == Spec => []PromiseInv
BY StagedInvariant, PostedInvariant, RecordsInvariant, OutcomeInvariant, PTL
   DEF PromiseInv

\* A validated money command names a wallet.
LEMMA SomebodyTakesPart ==
    ASSUME NEW c \in Command, ValidationError(c) = NoError, c.kind # "CREATE"
    PROVE  Participants(c) # {}
BY DEF ValidationError, NoError, LacksWallet, Participants, Command

\* The entries of a committed transaction are all of them.
LEMMA EntriesStay ==
    ASSUME PromiseInv, [Next]_vars, NEW t \in transactions
    PROVE  EntriesIn(t.id)' = EntriesIn(t.id)
<1>1. CASE UNCHANGED ledger
  BY <1>1 DEF EntriesIn
<1>2. ASSUME NEW q \in Requests, ServerCommits(q), StagesAll(q)
      PROVE  EntriesIn(t.id)' = EntriesIn(t.id)
  <2>1. t.id # q
    BY <1>2, NotPostedYet DEF PromiseInv, StagesAll, StagesPosting
  <2>2. \A e \in tx[q].entries : e.transaction = q
    BY <1>2 DEF StagesAll, StagesPosting, EntryOfRow
  <2>3. ledger' = ledger \cup tx[q].entries
    BY <1>2 DEF ServerCommits, ApplyCommit
  <2> QED
    BY <2>1, <2>2, <2>3 DEF EntriesIn
<1>3. CASE \E q \in Requests : RequestStep(q)
  <2>1. PICK q \in Requests : RequestStep(q)
    BY <1>3
  <2> QED
    BY <1>1, <1>2, <2>1, OnlyCommitsChangeTables, Commits DEF tables, PromiseInv
<1>4. CASE Operator \/ UNCHANGED vars
  BY <1>1, <1>4 DEF Operator, OperatorSetsStatus, vars, storeVars
<1> QED
  BY <1>3, <1>4, NextSplit

\* What has become true of an answer stays true of it.
LEMMA TruthStays ==
    ASSUME PromiseInv, [Next]_vars, NEW r \in Requests, Truthful(r),
           command'[r] = command[r], newID'[r] = newID[r], result'[r] = result[r]
    PROVE  Truthful(r)'
<1>1. (\E rec \in idempotency : RecordOf(r, rec) /\ rec.resource = Resource(r))'
  BY CommittedStays DEF Truthful, RecordOf, Resource
<1>2. CASE command[r].kind = "CREATE"
  <2>1. PICK w \in wallets : /\ w.id = newID[r] /\ w.owner = command[r].owner
                             /\ w.currency = command[r].currency
    BY <1>2 DEF Truthful, Durable
  <2>2. \E n \in wallets' : SameAccount(w, n)
    BY AccountsStay DEF PromiseInv
  <2>3. Durable(r)'
    BY <1>2, <2>1, <2>2 DEF Durable, SameAccount
  <2> QED
    BY <1>1, <1>2, <2>3 DEF Truthful
<1>3. CASE command[r].kind # "CREATE"
  <2>1. PICK t \in transactions :
          /\ t.id = result[r].transaction
          /\ t.type = command[r].kind /\ t.amount = command[r].amount
          /\ t.source = command[r].source /\ t.destination = command[r].destination
    BY <1>3 DEF Truthful, Durable
  <2>2. t \in transactions' /\ EntriesIn(t.id)' = EntriesIn(t.id)
    BY CommittedStays, EntriesStay
  <2>3. /\ result[r].entries = EntriesIn(t.id) /\ result[r].entries # {}
        /\ result[r].replayed \/ result[r].transaction = r
    BY <1>3, <2>1 DEF Truthful, Durable
  <2>4. EntriesIn(result[r].transaction)' = EntriesIn(t.id)'
    BY <2>1 DEF EntriesIn
  <2>5. Durable(r)'
    BY <1>3, <2>1, <2>2, <2>3, <2>4 DEF Durable
  <2> QED
    BY <1>1, <1>3, <2>3, <2>5 DEF Truthful
<1> QED
  BY <1>2, <1>3

-----------------------------------------------------------------------------
(* Answers in the making                                                   *)

\* GetOperationResult has read all there is about the command of r.
LEMMA ReplayIsTrue ==
    ASSUME PromiseInv, AnswerOK, NEW q \in Requests, ReadEntries(q)
    PROVE  Truthful(q)'
<1> USE DEF PromiseInv, StagedInv, MoneyInv, TypeOK, RequestTypeOK, StoreTypeOK
<1> DEFINE id == found[q]
<1>1. /\ pc[q] = "readEntries" /\ UNCHANGED <<storeVars, command, newID>>
      /\ result' = [result EXCEPT ![q].entries = EntriesIn(id)]
    BY DEF ReadEntries, EntriesIn
<1>2. command[q].kind # "CREATE" /\ ValidationError(command[q]) = NoError
  BY <1>1 DEF ControlOK, ControlOf, KindOK, Validated, Running
<1>3. PICK rec \in idempotency : RecordOf(q, rec) /\ rec.resource = id
  BY <1>1 DEF AnswerOK, AnswerOf
<1>4. result[q].transaction = id /\ result[q].replayed
  BY <1>1 DEF AnswerOK, AnswerOf
<1>5. /\ result'[q].transaction = id /\ result'[q].replayed
      /\ result'[q].entries = EntriesIn(id)
  BY <1>1, <1>4 DEF Result
<1>6. PICK t \in transactions :
        t.id = id /\ command[t.id] = [rec.hash EXCEPT !.key = rec.key]
  <2>1. rec.type # "WALLET"
    BY <1>2, <1>3 DEF RecordOf, resourceType
  <2> QED
    BY <1>3, <2>1 DEF RecordsOK, EveryRecordResolves
<1>7. command[t.id] = command[q]
  BY <1>3, <1>6, HashAndKey DEF RecordOf
<1>8. /\ t.type = command[q].kind /\ t.amount = command[q].amount
      /\ t.source = command[q].source /\ t.destination = command[q].destination
  <2>1. t = Posted(t.id)
    BY DEF RecordsOK
  <2> QED
    BY <1>7, <2>1 DEF Posted
<1>9. EntriesIn(id) # {}
  <2>1. PICK w : w \in Participants(command[q])
    BY <1>2, SomebodyTakesPart
  <2>2. w \in {t.source, t.destination} \ {NoID}
    BY <1>8, <2>1 DEF Participants
  <2>3. \E e \in ledger : e.transaction = t.id
    BY <2>2 DEF PostedOK, FullyPosted
  <2> QED
    BY <1>6, <2>3 DEF EntriesIn
<1>10. Durable(q)'
  <2>1. /\ command'[q] = command[q] /\ transactions' = transactions
        /\ EntriesIn(result[q].transaction)' = EntriesIn(id)
    BY <1>1, <1>5 DEF storeVars, EntriesIn
  <2> QED
    BY <1>2, <1>5, <1>6, <1>8, <1>9, <2>1 DEF Durable
<1>11. (\E r \in idempotency : RecordOf(q, r) /\ r.resource = Resource(q))'
  BY <1>1, <1>2, <1>3, <1>5 DEF RecordOf, Resource, storeVars
<1> QED
  BY <1>1, <1>2, <1>5, <1>10, <1>11 DEF Truthful

\* CreateWallet has read the wallet an earlier request opened.
LEMMA ReplayedWalletIsTrue ==
    ASSUME PromiseInv, AnswerOK, NEW q \in Requests, ReadWallet(q), pc'[q] = "commit"
    PROVE  Truthful(q)'
<1> USE DEF PromiseInv, StagedInv, MoneyInv, TypeOK, RequestTypeOK, StoreTypeOK
<1>1. /\ pc[q] = "readResource" /\ command[q].kind = "CREATE"
      /\ UNCHANGED <<storeVars, command>>
  BY DEF ReadWallet
<1>2. PICK w \in wallets :
        w.id = found[q] /\ newID'[q] = w.id /\ w.owner = command[q].owner
  BY DEF ReadWallet, Fail, Goto
<1>3. PICK rec \in idempotency : RecordOf(q, rec) /\ rec.resource = found[q]
  BY <1>1 DEF AnswerOK, AnswerOf
<1>4. PICK v \in wallets :
        v.id = rec.resource /\ v.owner = rec.scope /\ v.currency = rec.hash.currency
  <2>1. rec.type = "WALLET"
    BY <1>1, <1>3 DEF RecordOf, resourceType
  <2> QED
    BY <2>1 DEF RecordsOK, EveryRecordResolves
<1>5. w = v
  BY <1>2, <1>3, <1>4 DEF MoneyOK, WalletsOK
<1>6. rec.hash.currency = command[q].currency
  BY <1>3 DEF RecordOf, requestHash, Command
<1>7. Durable(q)'
  BY <1>1, <1>2, <1>4, <1>5, <1>6 DEF Durable, storeVars
<1>8. (\E r \in idempotency : RecordOf(q, r) /\ r.resource = Resource(q))'
  BY <1>1, <1>2, <1>3 DEF RecordOf, Resource, storeVars
<1> QED
  BY <1>1, <1>7, <1>8 DEF Truthful

\* A commit whose goroutine waits for it makes its answer true.
LEMMA CommitIsTrue ==
    ASSUME PromiseInv, AnswerOK, NEW q \in Requests, ServerCommits(q),
           pc[q] = "committing"
    PROVE  Truthful(q)'
<1> USE DEF PromiseInv
<1>1. /\ UNCHANGED <<command, newID, result>> /\ Ending(q)
      /\ Resource(q)' = Resource(q) /\ Record(q)' = Record(q)
  BY DEF ServerCommits, requestVars, Ending, Resource, Record
<1>2. [Next]_vars
  BY DEF Next, Server
<1>3. CASE StagesNothing(q)
  BY <1>1, <1>2, <1>3, TruthStays DEF AnswerOK, AnswerOf
<1>4. CASE StagesWallet(q)
  <2>1. /\ NewWallet(newID[q], command[q]) \in wallets' /\ Record(q) \in idempotency'
        /\ command[q].kind = "CREATE"
    BY <1>4 DEF StagesWallet, ServerCommits, ApplyCommit
  <2>2. /\ NewWallet(newID[q], command[q]).id = newID[q]
        /\ NewWallet(newID[q], command[q]).owner = command[q].owner
        /\ NewWallet(newID[q], command[q]).currency = command[q].currency
    BY DEF NewWallet
  <2>3. Durable(q)'
    BY <1>1, <2>1, <2>2 DEF Durable
  <2>4. RecordOf(q, Record(q)) /\ Record(q).resource = Resource(q)
    BY <2>1 DEF RecordOf, Record, Resource
  <2>5. (\E r \in idempotency : RecordOf(q, r) /\ r.resource = Resource(q))'
    BY <1>1, <2>1, <2>4 DEF RecordOf
  <2> QED
    BY <1>1, <2>1, <2>3, <2>5 DEF Truthful
<1>5. CASE StagesAll(q)
  <2>1. /\ command[q].kind # "CREATE" /\ newID[q] = q
        /\ tx[q].records = {Record(q)} /\ tx[q].transactions = {Posted(q)}
        /\ ~ StagesNothing(q)
    BY <1>5 DEF StagesAll, StagesPosting, StagesNothing
  <2>2. result[q] = [transaction |-> q, replayed |-> FALSE, entries |-> tx[q].entries]
    BY <1>1, <2>1 DEF AnswerOK, AnswerOf
  <2>3. /\ transactions' = transactions \cup {Posted(q)}
        /\ ledger' = ledger \cup tx[q].entries
        /\ idempotency' = idempotency \cup {Record(q)}
    BY <2>1 DEF ServerCommits, ApplyCommit
  <2>4. EntriesIn(q)' = tx[q].entries
    <3>1. \A e \in ledger : e.transaction # q
      BY <2>1, NotPostedYet DEF PostedOK
    <3>2. \A e \in tx[q].entries : e.transaction = q
      BY <1>5 DEF StagesAll, StagesPosting, EntryOfRow
    <3> QED
      BY <2>3, <3>1, <3>2 DEF EntriesIn
  <2>5. tx[q].entries # {}
    <3>1. command[q] \in Command /\ ValidationError(command[q]) = NoError
      BY DEF StagedInv, MoneyInv, TypeOK, RequestTypeOK, ControlOK, ControlOf, Validated,
         Running
    <3> QED
      BY <1>5, <2>1, <3>1, SomebodyTakesPart DEF StagesAll, AllEntered
  <2>6. /\ Posted(q).id = q
        /\ Posted(q).type = command[q].kind /\ Posted(q).amount = command[q].amount
        /\ Posted(q).source = command[q].source
        /\ Posted(q).destination = command[q].destination
    BY DEF Posted
  <2>7. /\ result'[q].transaction = q /\ result'[q].entries = tx[q].entries
        /\ command'[q] = command[q]
        /\ EntriesIn(result[q].transaction)' = tx[q].entries
    BY <1>1, <2>2, <2>4 DEF EntriesIn
  <2>8. Durable(q)'
    BY <2>1, <2>3, <2>5, <2>6, <2>7 DEF Durable
  <2>9. RecordOf(q, Record(q)) /\ Record(q).resource = Resource(q)
    BY <2>1, <2>2 DEF RecordOf, Record, Resource
  <2>10. (\E r \in idempotency : RecordOf(q, r) /\ r.resource = Resource(q))'
    BY <1>1, <2>3, <2>9 DEF RecordOf
  <2> QED
    BY <1>1, <2>1, <2>7, <2>8, <2>10 DEF Truthful
<1> QED
  BY <1>3, <1>4, <1>5, Commits

\* No answer is being made.
LEMMA NoAnswer ==
    ASSUME NEW q \in Requests,
           pc[q] \notin {"idle", "readResource", "readEntries", "commit", "committing"},
           ~ Acknowledged(q),
           command[q].kind = "CREATE" =>
             result[q].transaction = NoID /\ result[q].entries = {}
    PROVE  AnswerOf(q)
BY DEF AnswerOf, Ending

LEMMA OwnAnswer ==
    ASSUME PromiseInv, PromiseInv', AnswerOK, NEW q \in Requests, RequestStep(q)
    PROVE  AnswerOf(q)'
<1> USE DEF PromiseInv, StagedInv, MoneyInv, TypeOK, RequestTypeOK, StoreTypeOK, Goto,
        Answer, Fail
<1>0. [Next]_vars
  BY DEF Next, RequestStep
<1>1. AnswerOf(q) /\ ControlOf(q) /\ SessionOf(q) /\ StagedOf(q) /\ OutcomeOf(q)
  BY DEF AnswerOK, ControlOK, SessionsOK, StagedOK, OutcomeOK
<1>g. ASSUME command'[q] = command[q], result'[q] = result[q]
      PROVE  command'[q].kind = "CREATE" =>
               result'[q].transaction = NoID /\ result'[q].entries = {}
  BY <1>1, <1>g DEF AnswerOf
<1>2. CASE \/ Begin(q) \/ ReserveKey(q) \/ LoseKey(q) \/ LockWallet(q) \/ MissWallet(q)
           \/ Refuse(q) \/ CreateFinancialTransaction(q) \/ UpdateWallet(q)
           \/ RefuseSecondWallet(q) \/ RefuseRecord(q) \/ Retry(q) \/ Abandon(q)
  <2>1. /\ pc'[q] \in {"reserve", "lock", "insertWallet", "readKey", "post", "update",
                       "entry", "rollback", "begin"}
           \/ (pc'[q] = "done" /\ err'[q] # NoError)
        /\ UNCHANGED <<command, result>>
    BY <1>2 DEF Begin, ReserveKey, LoseKey, LockWallet, MissWallet, Refuse,
       CreateFinancialTransaction, UpdateWallet, RefuseSecondWallet, RefuseRecord,
       Retry, Abandon, NoError
  <2> QED
    BY <1>g, <2>1, NoAnswer DEF AnswerOf, Ending, Acknowledged
<1>3. CASE ReadKey(q)
  <2>1. /\ pc'[q] \in {"readResource", "rollback"} /\ UNCHANGED <<command, result, idempotency>>
        /\ pc'[q] = "readResource" =>
             \E old \in idempotency : /\ SameKey(old, Record(q))
                                      /\ validateReplay(old, command[q])
                                      /\ found'[q] = old.resource
    BY <1>3 DEF ReadKey, storeVars
  <2>2. pc'[q] = "readResource" =>
          \E rec \in idempotency : RecordOf(q, rec) /\ rec.resource = found'[q]
    BY <2>1 DEF RecordOf, SameKey, Record, validateReplay
  <2> QED
    BY <1>g, <2>1, <2>2 DEF AnswerOf, Ending, Acknowledged, RecordOf
<1>4. CASE ReadTransaction(q)
  <2>1. /\ pc[q] = "readResource" /\ command[q].kind # "CREATE"
        /\ UNCHANGED <<command, found, idempotency, transactions>>
        /\ pc'[q] \in {"readEntries", "rollback"}
        /\ pc'[q] = "readEntries" =>
             /\ \E t \in transactions : t.id = found[q]
             /\ result'[q] = Replayed(found[q])
    BY <1>4 DEF ReadTransaction, storeVars
  <2> QED
    BY <1>1, <2>1 DEF AnswerOf, Ending, Acknowledged, RecordOf, Replayed
<1>5. CASE ReadEntries(q)
  <2>1. /\ pc[q] = "readEntries" /\ pc'[q] = "commit" /\ UNCHANGED <<command, tx>>
    BY <1>5 DEF ReadEntries, storeVars
  <2>2. StagesNothing(q)' /\ command'[q].kind # "CREATE"
    BY <1>1, <2>1 DEF ControlOf, KindOK, SessionOf, Fresh, NoTransaction, StagesNothing,
       WritesNoRow
  <2> QED
    BY <1>5, <2>1, <2>2, ReplayIsTrue DEF AnswerOf, Acknowledged
<1>6. CASE ReadWallet(q)
  <2>1. /\ pc[q] = "readResource" /\ pc'[q] \in {"commit", "rollback"}
        /\ command'[q].kind = "CREATE" /\ command'[q] = command[q]
        /\ result'[q].transaction = result[q].transaction
        /\ result'[q].entries = result[q].entries
    BY <1>6 DEF ReadWallet, Result
  <2>2. result'[q].transaction = NoID /\ result'[q].entries = {}
    BY <1>1, <2>1 DEF AnswerOf
  <2>3. pc'[q] = "commit" => Truthful(q)'
    BY <1>6, ReplayedWalletIsTrue
  <2> QED
    BY <2>1, <2>2, <2>3 DEF AnswerOf, Ending, Acknowledged
<1>7. CASE CreateLedgerEntry(q)
  <2>1. /\ pc[q] = "entry" /\ pc'[q] \in {"entry", "commit"} /\ UNCHANGED command
        /\ command[q].kind # "CREATE"
    BY <1>1, <1>7 DEF CreateLedgerEntry, ControlOf, KindOK
  <2>2. PICK w \in rows[q] :
          /\ InsertEntry(q, Entry(q, w))
          /\ pc'[q] = "commit" =>
               result' = [result EXCEPT ![q] = [transaction |-> q, replayed |-> FALSE,
                            entries |-> tx[q].entries \cup {Entry(q, w)}]]
    BY <1>7 DEF CreateLedgerEntry
  <2>3. tx'[q].entries = tx[q].entries \cup {Entry(q, w)}
    BY <2>2 DEF InsertEntry, DatabaseTransaction
  <2>4. ~ StagesNothing(q)' /\ tx'[q].state # "committed"
    BY <1>1, <2>1, <2>2, <2>3
       DEF SessionOf, InsertEntry, DatabaseTransaction, StagesNothing, WritesNoRow
  <2>5. pc'[q] = "commit" =>
          result'[q] = [transaction |-> q, replayed |-> FALSE, entries |-> tx'[q].entries]
    BY <2>2, <2>3
  <2> QED
    BY <2>1, <2>4, <2>5 DEF AnswerOf, Ending, Acknowledged
<1>8. CASE CreateWallet(q)
  <2>1. /\ pc[q] = "insertWallet" /\ pc'[q] = "commit" /\ UNCHANGED <<command, result>>
        /\ command[q].kind = "CREATE"
        /\ tx'[q].wallets = tx[q].wallets \cup {NewWallet(newID[q], command[q])}
    BY <1>1, <1>8
       DEF CreateWallet, ControlOf, KindOK, InsertWallet, DatabaseTransaction
  <2>2. ~ StagesNothing(q)'
    BY <2>1 DEF StagesNothing, WritesNoRow
  <2> QED
    BY <1>g, <2>1, <2>2 DEF AnswerOf, Acknowledged
<1>9. CASE Commit(q)
  <2>1. /\ pc[q] = "commit" /\ pc'[q] = "committing"
        /\ UNCHANGED <<command, newID, result>>
        /\ tx'[q] = [tx[q] EXCEPT !.state = "committing"]
    BY <1>9 DEF Commit, SendCommit
  <2>2. /\ tx'[q].state = "committing" /\ StagesNothing(q)' = StagesNothing(q)
        /\ tx'[q].entries = tx[q].entries
    BY <2>1 DEF DatabaseTransaction, StagesNothing, WritesNoRow
  <2>3. StagesNothing(q) => Truthful(q)'
    BY <1>0, <1>1, <2>1, TruthStays DEF AnswerOf, Ending
  <2>4. ~ StagesNothing(q) /\ command[q].kind # "CREATE" =>
          result'[q] = [transaction |-> q, replayed |-> FALSE, entries |-> tx'[q].entries]
    BY <1>1, <2>1, <2>2 DEF AnswerOf, Ending
  <2> QED
    BY <1>g, <2>1, <2>2, <2>3, <2>4 DEF AnswerOf, Acknowledged
<1>10. CASE CommitAcknowledged(q)
  <2>1. /\ pc[q] = "committing" /\ tx[q].state = "committed" /\ pc'[q] = "done"
        /\ UNCHANGED <<command, newID, result>>
    BY <1>10 DEF CommitAcknowledged
  <2>2. Truthful(q)'
    BY <1>0, <1>1, <2>1, TruthStays DEF AnswerOf
  <2> QED
    BY <1>g, <2>1, <2>2 DEF AnswerOf, Ending
<1>11. CASE Server(q)
  <2>1. /\ UNCHANGED <<pc, command, newID, result, err, found>>
        /\ tx'[q].state \in {"none", "committed"}
    BY <1>11 DEF Server, ServerCommits, BackendGone, ApplyCommit, AbortTx, NoTransaction,
       requestVars
  <2>2. pc[q] \in {"commit", "committing", "done"}
    BY <1>1, <1>11 DEF Server, ServerCommits, BackendGone, Labels, SessionOf, Fresh,
       NoTransaction
  <2>3. pc[q] # "commit"
    <3>1. SessionOf(q)'
      BY DEF SessionsOK
    <3> QED
      BY <2>1, <3>1 DEF SessionOf
  <2>4. Acknowledged(q) => Truthful(q)'
    BY <1>0, <1>1, <2>1, TruthStays DEF AnswerOf
  <2>5. pc[q] = "committing" => Truthful(q)'
    BY <1>11, CommitIsTrue DEF Server, BackendGone
  <2> QED
    BY <1>g, <2>1, <2>2, <2>3, <2>4, <2>5 DEF AnswerOf, Ending, Acknowledged
<1>12. CASE Arrive(q)
  <2>1. /\ pc[q] = "idle" /\ UNCHANGED result
        /\ pc'[q] = "begin" \/ (pc'[q] = "done" /\ err'[q] # NoError)
    BY <1>12 DEF Arrive
  <2>2. result[q].transaction = NoID /\ result[q].entries = {}
    BY <1>1, <2>1 DEF AnswerOf
  <2> QED
    BY <2>1, <2>2 DEF AnswerOf, Ending, Acknowledged
<1>13. CASE \E e \in {"40P01", "ErrDatabase"} : StatementFails(q, e)
  <2>1. /\ pc'[q] = "rollback" /\ UNCHANGED command
        /\ result'[q] = result[q] \/ result'[q] = Replayed(NoID)
    BY <1>13 DEF StatementFails
  <2>2. command'[q].kind = "CREATE" =>
               result'[q].transaction = NoID /\ result'[q].entries = {}
    BY <1>g, <2>1 DEF Replayed
  <2> QED
    BY <2>1, <2>2 DEF AnswerOf, Ending, Acknowledged
<1>14. CASE \/ Rollback(q) \/ RollbackFails(q)
            \/ \E e \in {"40P01", "ErrDatabase"} : CommitFails(q, e)
  <2>1. PICK e : /\ e # NoError /\ Conclude(q, e)
                 /\ UNCHANGED <<command, result>>
    <3>1. CASE Rollback(q) \/ RollbackFails(q)
      BY <1>1, <3>1 DEF Rollback, RollbackFails, OutcomeOf
    <3>2. CASE \E e \in {"40P01", "ErrDatabase"} : CommitFails(q, e)
      BY <3>2 DEF CommitFails, NoError
    <3> QED
      BY <1>14, <3>1, <3>2
  <2>2. pc'[q] = "backoff" \/ (pc'[q] = "done" /\ err'[q] # NoError)
    BY <2>1 DEF Conclude
  <2> QED
    BY <1>g, <2>1, <2>2 DEF AnswerOf, Ending, Acknowledged
<1> QED
  BY <1>2, <1>3, <1>4, <1>5, <1>6, <1>7, <1>8, <1>9, <1>10, <1>11, <1>12, <1>13, <1>14
     DEF RequestStep, Proceed, Failure

LEMMA OtherAnswer ==
    ASSUME PromiseInv, AnswerOK, NEW q \in Requests, RequestStep(q),
           NEW r \in Requests \ {q}
    PROVE  AnswerOf(r)'
<1>1. Local(r)' = Local(r)
  BY OthersUnchanged DEF PromiseInv, StagedInv, MoneyInv
<1>2. /\ pc'[r] = pc[r] /\ command'[r] = command[r] /\ newID'[r] = newID[r]
      /\ found'[r] = found[r] /\ result'[r] = result[r] /\ err'[r] = err[r]
      /\ tx'[r] = tx[r]
  BY <1>1 DEF Local
<1>3. /\ Ending(r)' = Ending(r) /\ StagesNothing(r)' = StagesNothing(r)
      /\ Acknowledged(r)' = Acknowledged(r)
  BY <1>2 DEF Ending, StagesNothing, WritesNoRow, Acknowledged
<1>4. [Next]_vars
  BY DEF Next, RequestStep
<1>5. Truthful(r) => Truthful(r)'
  BY <1>2, <1>4, TruthStays
<1>6. transactions \subseteq transactions' /\ idempotency \subseteq idempotency'
  BY <1>4, CommittedStays
<1>7. \A rec : RecordOf(r, rec)' = RecordOf(r, rec)
  BY <1>2 DEF RecordOf
<1> QED
  BY <1>2, <1>3, <1>5, <1>6, <1>7 DEF AnswerOK, AnswerOf

LEMMA AnswerStep ==
    ASSUME PromiseInv, PromiseInv', AnswerOK, [Next]_vars
    PROVE  AnswerOK'
<1>1. CASE \E q \in Requests : RequestStep(q)
  <2>1. PICK q \in Requests : RequestStep(q)
    BY <1>1
  <2> QED
    BY <2>1, OwnAnswer, OtherAnswer DEF AnswerOK
<1>2. CASE Operator \/ UNCHANGED vars
  <2>1. UNCHANGED <<pc, command, newID, found, result, err, tx, transactions, idempotency>>
    BY <1>2 DEF Operator, OperatorSetsStatus, vars, storeVars, requestVars
  <2>2. ASSUME NEW r \in Requests
        PROVE  AnswerOf(r)'
    <3>1. Truthful(r) => Truthful(r)'
      BY <2>1, TruthStays
    <3>2. /\ Ending(r)' = Ending(r) /\ StagesNothing(r)' = StagesNothing(r)
          /\ Acknowledged(r)' = Acknowledged(r)
      BY <2>1 DEF Ending, StagesNothing, WritesNoRow, Acknowledged
    <3>3. \A rec : RecordOf(r, rec)' = RecordOf(r, rec)
      BY <2>1 DEF RecordOf
    <3> QED
      BY <2>1, <3>1, <3>2, <3>3 DEF AnswerOK, AnswerOf
  <2> QED
    BY <2>2 DEF AnswerOK
<1> QED
  BY <1>1, <1>2, NextSplit

LEMMA InitAnswers == Init => AnswerOK
<1> SUFFICES ASSUME Init, NEW r \in Requests
             PROVE  AnswerOf(r)
  BY DEF AnswerOK
<1>1. pc[r] = "idle" /\ result[r] = NoResult
  BY DEF Init
<1> QED
  BY <1>1 DEF AnswerOf, Ending, Acknowledged, NoResult

LEMMA AnswerInvariant == Spec => [](PromiseInv /\ AnswerOK)
<1>1. PromiseInv /\ PromiseInv' /\ AnswerOK /\ [Next]_vars => AnswerOK'
  BY AnswerStep
<1> QED
  BY <1>1, InitAnswers, PromiseInvariant, PTL DEF Spec

\* What a client was told is true for good: a wallet it opened is there under its
\* name and in its currency, and a transaction it was shown is committed with its
\* amount, its wallets and exactly the entries of the answer, however many requests
\* have committed, failed or been replayed since.
THEOREM AnswersAreDurable == Spec => []AcknowledgedIsDurable
<1>1. AnswerOK => AcknowledgedIsDurable
  BY DEF AnswerOK, AnswerOf, Truthful, Durable, EntriesIn, AcknowledgedIsDurable
<1> QED
  BY <1>1, AnswerInvariant, PTL

\* validateReplay and the record's resource make a replay the answer of the first
\* request: two requests with one key that were both told yes asked for the same and
\* were told the same, and not both of them that they were the first.
THEOREM ReplaysTellTheSame == Spec => []ReplaysAgree
<1>1. ASSUME PromiseInv, AnswerOK, NEW r \in Requests, NEW q \in Requests, r # q,
             Acknowledged(r), Acknowledged(q), SameRequest(r, q)
      PROVE  /\ command[r] = command[q]
             /\ command[r].kind = "CREATE" => newID[r] = newID[q]
             /\ result[r].transaction = result[q].transaction
             /\ result[r].entries = result[q].entries
             /\ result[r].replayed \/ result[q].replayed
  <2>1. Truthful(r) /\ Truthful(q)
    BY <1>1 DEF AnswerOK, AnswerOf
  <2>2. PICK a \in idempotency : RecordOf(r, a) /\ a.resource = Resource(r)
    BY <2>1 DEF Truthful
  <2>3. PICK b \in idempotency : RecordOf(q, b) /\ b.resource = Resource(q)
    BY <2>1 DEF Truthful
  <2>4. a = b
    BY <1>1, <2>2, <2>3 DEF PromiseInv, RecordsOK, SameKey, SameRequest, RecordOf
  <2>5. command[r] = command[q]
    <3>1. command[r] \in Command /\ command[q] \in Command
      BY <1>1 DEF PromiseInv, StagedInv, MoneyInv, TypeOK, RequestTypeOK
    <3> QED
      BY <2>2, <2>3, <2>4, <3>1, HashAndKey DEF RecordOf
  <2>6. CASE command[r].kind = "CREATE"
    <3>1. newID[r] = newID[q] /\ newID[r] \in WalletIDs
      BY <1>1, <2>1, <2>2, <2>3, <2>4, <2>5, <2>6
         DEF Resource, Truthful, Durable, PromiseInv, StagedInv, MoneyInv, TypeOK,
         StoreTypeOK, Wallet
    <3>2. result[r].replayed \/ result[q].replayed
      BY <1>1, <2>5, <2>6, <3>1, DomainAssumption
         DEF PromiseInv, StagedInv, MoneyInv, LocksOK, Apart, Generated
    <3> QED
      BY <1>1, <2>5, <2>6, <3>1, <3>2 DEF AnswerOK, AnswerOf
  <2>7. CASE command[r].kind # "CREATE"
    <3>1. result[r].transaction = result[q].transaction
      BY <2>2, <2>3, <2>4, <2>5, <2>7 DEF Resource
    <3> QED
      BY <1>1, <2>1, <2>5, <2>7, <3>1 DEF Truthful, Durable
  <2> QED
    BY <2>6, <2>7
<1>2. PromiseInv /\ AnswerOK => ReplaysAgree
  BY <1>1 DEF ReplaysAgree
<1> QED
  BY <1>2, AnswerInvariant, PTL

-----------------------------------------------------------------------------
(* WalletService implements WalletLedger                                   *)

\* A transaction only ever runs a command some client sent and the checks let pass.
CarriedOf(r) ==
    /\ pc[r] # "idle" => command[r] \in Commands
    /\ Live(r) => ValidationError(command[r]) = NoError

CarriedOK == \A r \in Requests : CarriedOf(r)

LEMMA OnlyArrivalsStart ==
    ASSUME StagedInv, NEW q \in Requests, RequestStep(q), pc[q] = "idle"
    PROVE  Arrive(q) /\ ~ Proceed(q) /\ ~ Server(q) /\ ~ Failure(q)
<1>1. ~ Proceed(q)
  BY DEF Proceed, Begin, ReserveKey, LoseKey, ReadKey, ReadWallet, ReadTransaction,
     ReadEntries, LockWallet, MissWallet, Refuse, CreateFinancialTransaction,
     UpdateWallet, CreateLedgerEntry, CreateWallet, RefuseSecondWallet, RefuseRecord,
     Commit, CommitAcknowledged, Rollback, Retry
<1>2. ~ Server(q)
  BY DEF Server, ServerCommits, BackendGone, StagedInv, MoneyInv, SessionsOK, SessionOf
<1>3. ~ Failure(q)
  BY DEF Failure, StatementFails, InStatement, OnConnection, Running, CommitFails,
     RollbackFails, Abandon
<1> QED
  BY <1>1, <1>2, <1>3 DEF RequestStep

LEMMA CarriedStep ==
    ASSUME PromiseInv, PromiseInv', CarriedOK, [Next]_vars
    PROVE  CarriedOK'
<1> USE DEF PromiseInv, StagedInv, MoneyInv, TypeOK, RequestTypeOK, StoreTypeOK
<1>1. CASE \E q \in Requests : RequestStep(q)
  <2>1. PICK q \in Requests : RequestStep(q)
    BY <1>1
  <2>2. ASSUME NEW r \in Requests \ {q}  PROVE CarriedOf(r)'
    BY <2>1, OthersUnchanged DEF Local, CarriedOK, CarriedOf, Live
  <2>3. pc'[q] # "idle" => command'[q] \in Commands
    <3>1. CASE Arrive(q)
      BY <3>1 DEF Arrive
    <3>2. CASE pc[q] # "idle"
      BY <2>1, <3>2, CommandFixed DEF CarriedOK, CarriedOf
    <3>3. CASE pc[q] = "idle" /\ ~ Arrive(q)
      BY <2>1, <3>3, OnlyArrivalsStart
    <3> QED
      BY <3>1, <3>2, <3>3
  <2>4. Live(q)' => ValidationError(command'[q]) = NoError
    <3>1. CASE Arrive(q)
      BY <3>1 DEF Arrive, SessionsOK, SessionOf, Live, storeVars
    <3>2. CASE ~ Arrive(q)
      <4>1. command'[q] = command[q]
        BY <2>1, <3>2, OnlyArrivalsSetCommands
      <4>2. CASE Running(q)
        BY <4>1, <4>2 DEF ControlOK, ControlOf, Validated
      <4>3. CASE pc[q] = "done"
        BY <2>1, <4>1, <4>3, OwnProgress DEF SessionsOK, CarriedOK, CarriedOf
      <4>4. CASE pc[q] = "idle"
        BY <2>1, <3>2, <4>4, OnlyArrivalsStart
      <4> QED
        BY <4>2, <4>3, <4>4 DEF Running
    <3> QED
      BY <3>1, <3>2
  <2> QED
    BY <2>2, <2>3, <2>4 DEF CarriedOK, CarriedOf
<1>2. CASE Operator \/ UNCHANGED vars
  BY <1>2 DEF Operator, OperatorSetsStatus, vars, storeVars, requestVars, CarriedOK,
     CarriedOf, Live
<1> QED
  BY <1>1, <1>2, NextSplit

LEMMA InitCarried == Init => CarriedOK
<1> SUFFICES ASSUME Init, NEW r \in Requests
             PROVE  CarriedOf(r)
  BY DEF CarriedOK
<1>1. pc[r] = "idle" /\ tx[r] = NoTransaction
  BY DEF Init
<1> QED
  BY <1>1 DEF CarriedOf, Live, NoTransaction

LEMMA CarriedInvariant == Spec => []CarriedOK
<1>1. PromiseInv /\ PromiseInv' /\ CarriedOK /\ [Next]_vars => CarriedOK'
  BY CarriedStep
<1> QED
  BY <1>1, InitCarried, PromiseInvariant, PTL DEF Spec

\* The ledger of the abstract specification goes by the rules of the same domain.
LEMMA SameRules ==
    ASSUME NEW c, NEW w, NEW held
    PROVE  /\ Promise!ValidationError(c) = ValidationError(c)
           /\ Promise!requestHash(c) = requestHash(c)
           /\ Promise!resourceType(c) = resourceType(c)
           /\ Promise!NewWallet(w, c) = NewWallet(w, c)
           /\ Promise!Mutated(w, c) = Mutated(w, c)
           /\ Promise!direction(w, c) = direction(w, c)
           /\ Promise!Participants(c) = Participants(c)
           /\ Promise!Accepted(held, c) = Accepted(held, c)
           /\ Promise!NoError = NoError /\ Promise!NoID = NoID
<1>1. Promise!NoError = NoError /\ Promise!NoID = NoID /\ Promise!NoName = NoName
  BY DEF NoError, NoID, NoName, Promise!NoError, Promise!NoID, Promise!NoName
<1>2. Promise!ValidationError(c) = ValidationError(c)
  BY <1>1 DEF ValidationError, Promise!ValidationError, LacksWallet, Promise!LacksWallet
<1>3. /\ Promise!requestHash(c) = requestHash(c)
      /\ Promise!resourceType(c) = resourceType(c)
      /\ Promise!NewWallet(w, c) = NewWallet(w, c)
      /\ Promise!direction(w, c) = direction(w, c)
      /\ Promise!Participants(c) = Participants(c)
  BY <1>1 DEF requestHash, Promise!requestHash, resourceType, Promise!resourceType,
     NewWallet, Promise!NewWallet, direction, Promise!direction, Participants,
     Promise!Participants
<1>4. Promise!Mutated(w, c) = Mutated(w, c)
  BY DEF Mutated, Promise!Mutated, Debit, Promise!Debit, Credit, Promise!Credit
<1>5. ASSUME NEW v
      PROVE  /\ Promise!DebitError(v, c) = DebitError(v, c)
             /\ Promise!CreditError(v, c) = CreditError(v, c)
  <2>1. Promise!validateMutation(v, c) = validateMutation(v, c)
    BY <1>1 DEF validateMutation, Promise!validateMutation
  <2>2. Promise!AddMinorError(v.balance, c.amount) = AddMinorError(v.balance, c.amount)
    BY <1>1 DEF AddMinorError, Promise!AddMinorError
  <2> QED
    BY <1>1, <2>1, <2>2 DEF DebitError, Promise!DebitError, CreditError, Promise!CreditError
<1>6. Promise!authorizeWallet(held, c) = authorizeWallet(held, c)
  BY <1>1 DEF authorizeWallet, Promise!authorizeWallet
<1>7. /\ Promise!DebitsPass(held, c) = DebitsPass(held, c)
      /\ Promise!CreditsPass(held, c) = CreditsPass(held, c)
  BY <1>1, <1>5 DEF DebitsPass, Promise!DebitsPass, CreditsPass, Promise!CreditsPass
<1>8. Promise!Accepted(held, c) = Accepted(held, c)
  BY <1>6, <1>7 DEF Accepted, Promise!Accepted
<1> QED
  BY <1>1, <1>2, <1>3, <1>4, <1>8

Told == [r \in Requests |-> AnswerGiven(r)]

\* No committed record has the key of a command that may still commit.
LEMMA KeyIsFree ==
    ASSUME StagedInv, NEW q \in Requests, tx[q].records = {Record(q)}
    PROVE  \A a \in idempotency :
             ~ (a.scope = command[q].owner /\ a.key = command[q].key)
<1>1. Record(q).scope = command[q].owner /\ Record(q).key = command[q].key
  BY DEF Record
<1>2. \A a \in idempotency : ~ SameKey(Record(q), a)
  BY DEF StagedInv, KeysOK, KeyFree
<1> QED
  BY <1>1, <1>2 DEF SameKey

\* The commit of a CreateWallet opens its wallet.
LEMMA CommitOpens ==
    ASSUME PromiseInv, OwnersOK, CarriedOK, NEW q \in Requests, ServerCommits(q),
           StagesWallet(q), Told' = Told
    PROVE  Promise!Open(command[q], newID[q])
<1> DEFINE c == command[q]
<1>1. c.kind = "CREATE" /\ ValidationError(c) = NoError
  BY DEF StagesWallet, ServerCommits, Live, CarriedOK, CarriedOf
<1>2. Promise!UseKey(c, newID[q])
  <2>1. \A a \in idempotency : ~ (a.scope = c.owner /\ a.key = c.key)
    BY KeyIsFree DEF PromiseInv, StagesWallet
  <2>2. idempotency' = idempotency \cup {Record(q)}
    BY DEF StagesWallet, ServerCommits, ApplyCommit
  <2>3. Record(q) = [scope |-> c.owner, key |-> c.key,
                     hash |-> Promise!requestHash(c),
                     type |-> Promise!resourceType(c), resource |-> newID[q]]
    BY SameRules DEF Record
  <2> QED
    BY <2>1, <2>2, <2>3 DEF Promise!UseKey
<1>3. NewWallet(newID[q], c) \in tx[q].wallets
  BY DEF StagesWallet
<1>4. \A w \in wallets : w.id # newID[q] /\ w.owner # c.owner
  <2>1. \A w \in wallets : w.id # newID[q]
    BY Commits DEF PromiseInv, StagesWallet, StagesNothing, StagesAll, StagesPosting
  <2>2. \A w \in wallets : w.owner # c.owner
    BY <1>1, <1>3 DEF OwnersOK, OwnerFree
  <2> QED
    BY <2>1, <2>2
<1>5. wallets' = wallets \cup {NewWallet(newID[q], c)} /\ UNCHANGED <<transactions, ledger>>
  BY Commits DEF PromiseInv, StagesWallet, StagesNothing, StagesAll, StagesPosting
<1>6. wallets' = wallets \cup {Promise!NewWallet(newID[q], c)}
  BY <1>5, SameRules
<1>7. Promise!ValidationError(c) = Promise!NoError
  BY <1>1, SameRules
<1> QED
  BY <1>1, <1>2, <1>4, <1>5, <1>6, <1>7 DEF Promise!Open, Told

\* The commit of a money command posts it: what its rows were is what they are.
LEMMA CommitPosts ==
    ASSUME Nat \subseteq Numbers, PromiseInv, LedgerOK, CarriedOK, NEW q \in Requests,
           ServerCommits(q), StagesAll(q), Told' = Told
    PROVE  Promise!Post(command[q], q)
<1> DEFINE c == command[q]
           held == {w \in wallets : w.id \in Promise!Participants(c)}
<1>1. /\ c.kind # "CREATE" /\ ValidationError(c) = NoError /\ newID[q] = q
      /\ tx[q].records = {Record(q)} /\ Live(q)
  BY DEF StagesAll, StagesPosting, ServerCommits, Live, CarriedOK, CarriedOf
<1>2. Promise!UseKey(c, q)
  <2>1. \A a \in idempotency : ~ (a.scope = c.owner /\ a.key = c.key)
    BY <1>1, KeyIsFree DEF PromiseInv
  <2>2. idempotency' = idempotency \cup {Record(q)}
    BY <1>1 DEF ServerCommits, ApplyCommit
  <2>3. Record(q) = [scope |-> c.owner, key |-> c.key,
                     hash |-> Promise!requestHash(c),
                     type |-> Promise!resourceType(c), resource |-> q]
    BY <1>1, SameRules DEF Record
  <2> QED
    BY <2>1, <2>2, <2>3 DEF Promise!UseKey
<1>3. \A t \in transactions : t.id # q
  BY <1>1, NotPostedYet DEF PromiseInv
<1>4. /\ rows[q] \subseteq wallets
      /\ Participants(c) = {v.id : v \in rows[q]}
      /\ tx[q].wallets = {Mutated(v, c) : v \in rows[q]}
      /\ \A e \in tx[q].entries : \E v \in rows[q] : EntryOfRow(q, e, v)
      /\ \A v \in rows[q] : \E e \in tx[q].entries : EntryOfRow(q, e, v)
      /\ \A v \in rows[q] : Mutated(v, c).id = v.id
  BY <1>1, PostingMatches DEF PromiseInv
<1>5. \A v, w \in wallets : v.id = w.id => v = w
  BY DEF PromiseInv, StagedInv, MoneyInv, MoneyOK, WalletsOK
<1>6. held = rows[q] /\ Promise!Participants(c) = {w.id : w \in held}
  BY <1>4, <1>5, SameRules
<1> HIDE DEF held
<1>7. Promise!Accepted(held, c)
  BY <1>6, SameRules DEF StagesAll, StagesPosting
<1>8. wallets' = (wallets \ held) \cup {Promise!Mutated(w, c) : w \in held}
  <2>1. wallets' = {w \in wallets : \A new \in tx[q].wallets : new.id # w.id}
                      \cup tx[q].wallets
    BY DEF ServerCommits, ApplyCommit
  <2>2. {w \in wallets : \A new \in tx[q].wallets : new.id # w.id} = wallets \ held
    BY <1>4, <1>5, <1>6
  <2>3. {Promise!Mutated(w, c) : w \in held} = tx[q].wallets
    BY <1>4, <1>6, SameRules
  <2> QED
    BY <2>1, <2>2, <2>3
<1>9. transactions' = transactions \cup
         {[id |-> q, type |-> c.kind, amount |-> c.amount, currency |-> c.currency,
           source |-> c.source, destination |-> c.destination]}
  BY DEF ServerCommits, ApplyCommit, StagesAll, StagesPosting, Posted
<1>10. \E number \in [Promise!Participants(c) -> Numbers] :
         /\ \A e \in ledger : e.wallet \in Promise!Participants(c) =>
                                 e.sequence < number[e.wallet]
         /\ ledger' = ledger \cup {Promise!Posting(w, c, q, number[w.id]) : w \in held}
  <2> DEFINE mine(id) == CHOOSE e \in tx[q].entries : e.wallet = id
             number == [id \in Promise!Participants(c) |-> mine(id).sequence]
  <2>1. ASSUME NEW id \in Promise!Participants(c)
        PROVE  mine(id) \in tx[q].entries /\ mine(id).wallet = id
    BY <1>4, <1>6 DEF EntryOfRow
  <2>2. ASSUME NEW e \in tx[q].entries
        PROVE  mine(e.wallet) = e /\ e.wallet \in Promise!Participants(c)
    BY <1>4, <1>6, <2>1 DEF EntryOfRow, StagesAll, StagesPosting
  <2> HIDE DEF mine
  <2>3. number \in [Promise!Participants(c) -> Numbers]
    BY <2>1 DEF LedgerOK, EntriesNewest
  <2>4. ASSUME NEW e \in ledger, e.wallet \in Promise!Participants(c)
        PROVE  e.sequence < number[e.wallet]
    BY <2>1, <2>4 DEF LedgerOK, EntriesNewest
  <2>5. ASSUME NEW w \in held
        PROVE  Promise!Posting(w, c, q, number[w.id]) = mine(w.id)
    <3>1. w.id \in Promise!Participants(c) /\ w \in rows[q]
      BY <1>6
    <3>2. mine(w.id) \in tx[q].entries /\ mine(w.id).wallet = w.id
      BY <2>1, <3>1
    <3>3. PICK v \in rows[q] : EntryOfRow(q, mine(w.id), v)
      BY <1>4, <3>2
    <3>4. v = w
      <4>1. v.id = w.id
        BY <3>2, <3>3 DEF EntryOfRow
      <4>2. v \in wallets /\ w \in wallets
        BY <1>4, <3>1
      <4> QED
        BY <1>5, <4>1, <4>2
    <3>5. mine(w.id) \in LedgerEntry
      BY <3>2 DEF PromiseInv, StagedInv, MoneyInv, TypeOK, StoreTypeOK, DatabaseTransaction
    <3>6. mine(w.id) =
            [sequence |-> mine(w.id).sequence, transaction |-> q, wallet |-> w.id,
             direction |-> direction(w, c), amount |-> c.amount,
             before |-> w.balance, after |-> Mutated(w, c).balance]
      BY <3>3, <3>4, <3>5 DEF EntryOfRow, LedgerEntry
    <3>7. number[w.id] = mine(w.id).sequence
      BY <3>1
    <3> QED
      BY <3>6, <3>7, SameRules DEF Promise!Posting
  <2>6. {Promise!Posting(w, c, q, number[w.id]) : w \in held} = tx[q].entries
    <3>1. \A w \in held : mine(w.id) \in tx[q].entries
      BY <1>6, <2>1
    <3>2. \A e \in tx[q].entries : \E w \in held : mine(w.id) = e
      BY <1>4, <1>6, <2>2 DEF EntryOfRow
    <3> QED
      BY <2>5, <3>1, <3>2
  <2>7. ledger' = ledger \cup tx[q].entries
    BY DEF ServerCommits, ApplyCommit
  <2> QED
    BY <2>3, <2>4, <2>6, <2>7
<1>11. Promise!ValidationError(c) = Promise!NoError
  BY <1>1, SameRules
<1> QED
  BY <1>1, <1>2, <1>3, <1>6, <1>7, <1>8, <1>9, <1>10, <1>11 DEF Promise!Post, Told, held

\* A goroutine that returns answers, and nothing else is ever said to a client.
LEMMA ReturnsAnswer ==
    ASSUME PromiseInv, AnswerOK', NEW q \in Requests, RequestStep(q), UNCHANGED tables
    PROVE  Told' = Told \/ Promise!Answer(q)
<1>1. ASSUME NEW r \in Requests \ {q}
      PROVE  AnswerGiven(r)' = AnswerGiven(r)
  BY OthersUnchanged DEF Local, AnswerGiven, Acknowledged, PromiseInv, StagedInv, MoneyInv
<1>2. CASE AnswerGiven(q)' = AnswerGiven(q)
  BY <1>1, <1>2 DEF Told
<1>3. CASE pc[q] = "done"
  <2>1. Server(q)
    BY <1>3 DEF RequestStep, Arrive, Proceed, Begin, ReserveKey, LoseKey, ReadKey,
       ReadWallet, ReadTransaction, ReadEntries, LockWallet, MissWallet, Refuse,
       CreateFinancialTransaction, UpdateWallet, CreateLedgerEntry, CreateWallet,
       RefuseSecondWallet, RefuseRecord, Commit, CommitAcknowledged, Rollback, Retry,
       Failure,
       StatementFails, InStatement, OnConnection, Running, CommitFails, RollbackFails,
       Abandon
  <2>2. UNCHANGED <<pc, err, command, newID, result>>
    BY <2>1 DEF Server, ServerCommits, BackendGone, requestVars
  <2> QED
    BY <1>2, <2>2 DEF AnswerGiven, Acknowledged
<1>4. CASE pc[q] # "done" /\ pc'[q] # "done"
  BY <1>2, <1>4 DEF AnswerGiven, Acknowledged
<1>5. CASE pc[q] # "done" /\ pc'[q] = "done"
  <2>1. Told[q] = Promise!Waiting
    BY <1>5, SameRules DEF Told, AnswerGiven, Acknowledged, Promise!Waiting
  <2> DEFINE id == AnswerGiven(q)'.resource
  <2>2. AnswerGiven(q)' = [given |-> TRUE, resource |-> id]
    BY <1>5 DEF AnswerGiven
  <2>3. id \in {Promise!NoID} \cup {a.resource : a \in idempotency}
    <3>1. CASE ~ Acknowledged(q)'
      BY <3>1, SameRules DEF AnswerGiven
    <3>2. CASE Acknowledged(q)'
      <4>1. \E rec \in idempotency' : rec.resource = Resource(q)'
        BY <3>2 DEF AnswerOK, AnswerOf, Truthful
      <4>2. id = Resource(q)'
        BY <3>2 DEF AnswerGiven, Resource
      <4> QED
        BY <4>1, <4>2 DEF tables
    <3> QED
      BY <3>1, <3>2
  <2> HIDE DEF id
  <2>4. Told' = [Told EXCEPT ![q] = [given |-> TRUE, resource |-> id]]
    BY <1>1, <2>2 DEF Told
  <2> QED
    BY <2>1, <2>3, <2>4 DEF Promise!Answer, Told, tables
<1> QED
  BY <1>3, <1>4, <1>5

LEMMA StepSimulated ==
    ASSUME Nat \subseteq Numbers, PromiseInv, LedgerOK, OwnersOK, CarriedOK, AnswerOK',
           [Next]_vars
    PROVE  [Promise!Next]_(Promise!abstractVars)
<1> USE DEF PromiseInv, StagedInv, MoneyInv, TypeOK, RequestTypeOK, StoreTypeOK
<1>u. ASSUME UNCHANGED tables, Told' = Told
      PROVE  UNCHANGED Promise!abstractVars
  BY <1>u DEF tables, Told, Promise!abstractVars
<1>1. ASSUME NEW q \in Requests, ServerCommits(q)
      PROVE  [Promise!Next]_(Promise!abstractVars)
  <2>1. Told' = Told
    BY <1>1 DEF ServerCommits, requestVars, Told, AnswerGiven, Acknowledged
  <2>2. command[q] \in Commands
    BY <1>1 DEF ServerCommits, SessionsOK, SessionOf, CarriedOK, CarriedOf
  <2>3. CASE UNCHANGED tables
    BY <1>u, <2>1, <2>3
  <2>4. CASE StagesWallet(q)
    <3>1. newID[q] \in WalletIDs
      BY <2>4 DEF StagesWallet, Generated, OutcomeOK, OutcomeOf
    <3> QED
      BY <1>1, <2>1, <2>2, <2>4, <3>1, CommitOpens DEF Promise!Next
  <2>5. CASE StagesAll(q)
    BY <1>1, <2>1, <2>2, <2>5, CommitPosts DEF Promise!Next
  <2> QED
    BY <1>1, <2>3, <2>4, <2>5, Commits
<1>2. ASSUME NEW q \in Requests, RequestStep(q), UNCHANGED tables
      PROVE  [Promise!Next]_(Promise!abstractVars)
  BY <1>u, <1>2, ReturnsAnswer DEF Promise!Next
<1>3. CASE Operator
  <2>1. PICK w \in wallets, status \in OperatorStatuses : OperatorSetsStatus(w, status)
    BY <1>3 DEF Operator
  <2>2. Told' = Told
    BY <2>1 DEF OperatorSetsStatus, requestVars, Told, AnswerGiven, Acknowledged
  <2>3. Promise!SetStatus(w, status)
    BY <2>1, <2>2 DEF OperatorSetsStatus, Promise!SetStatus, Told
  <2> QED
    BY <2>3 DEF Promise!Next
<1>4. CASE UNCHANGED vars
  <2>1. UNCHANGED tables /\ Told' = Told
    BY <1>4 DEF vars, storeVars, requestVars, tables, Told, AnswerGiven, Acknowledged
  <2> QED
    BY <1>u, <2>1
<1> QED
  BY <1>1, <1>2, <1>3, <1>4, NextSplit, OnlyCommitsChangeTables

LEMMA InitSimulated == Init => Promise!Init
<1> SUFFICES ASSUME Init PROVE Promise!Init
  OBVIOUS
<1>1. ASSUME NEW r \in Requests
      PROVE  AnswerGiven(r) = Promise!Waiting
  BY SameRules DEF Init, AnswerGiven, Acknowledged, Promise!Waiting
<1> QED
  BY <1>1 DEF Init, Promise!Init

\* The goroutines, the database and the failures together do nothing a client of an
\* atomic ledger would not see: each command takes effect at once when the server
\* applies its COMMIT, once for its key, on the wallets as they are then, and an
\* answer names only what has taken effect.  The sequence of ledger_entries may
\* give any natural number.
THEOREM ServiceImplementsLedger ==
    ASSUME Nat \subseteq Numbers
    PROVE  Spec => ImplementsLedger
<1>1. PromiseInv /\ LedgerOK /\ OwnersOK /\ CarriedOK /\ AnswerOK' /\ [Next]_vars
        => [Promise!Next]_(Promise!abstractVars)
  BY StepSimulated
<1>2. HistoryInv => LedgerOK
  BY DEF HistoryInv
<1> QED
  BY <1>1, <1>2, InitSimulated, AnswerInvariant, HistoryInvariant, OwnersInvariant,
     CarriedInvariant, PTL DEF Spec, ImplementsLedger, Promise!Spec
=============================================================================
