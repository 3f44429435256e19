----------------------------- MODULE WalletReads -----------------------------
(***************************************************************************)
(* GET requests beside the use cases of WalletService: GetWallet,          *)
(* GetTransaction and ListHistory of service.go, their statements in       *)
(* repository.go, and a client that follows nextCursor from page to page.  *)
(*                                                                         *)
(* A read opens no transaction.  Each of its statements takes a connection *)
(* of the pool, sees what is committed at that moment, and gives the       *)
(* connection back; between two of them anything may commit.               *)
(***************************************************************************)
EXTENDS WalletProperties, SequencesExt

CONSTANTS
    Readers,  \* GET requests; a reader of history is one client that pages
    Queries,  \* what they may ask for
    MaxLosses \* bound on the failures a reader meets

Query ==
    [kind : {"WALLET", "TRANSACTION", "HISTORY"}, owner : Owners \cup {NoName},
     wallet : WalletIDs \cup {NoID}, transaction : Requests \cup {NoID},
     limit : Nat, type : {"DEPOSIT", "WITHDRAWAL", "TRANSFER", NoName}]

ASSUME ReadsAssumption ==
    Queries \subseteq Query /\ MaxLosses \in Nat /\ Readers \cap Requests = {}

VARIABLE reading  \* the goroutine and the client of each reader

readsVars == <<vars, reading>>

MaxLimit == 100

NoCursor == <<>>

NotRead ==
    [at       |-> "idle",
     query    |-> [kind |-> "WALLET", owner |-> NoName, wallet |-> NoID,
                   transaction |-> NoID, limit |-> 1, type |-> NoName],
     cursor   |-> NoCursor, \* the token of the next page to ask for
     items    |-> <<>>,     \* what the pages so far have shown
     found    |-> {},       \* the row that was asked for
     entries  |-> {},       \* OperationResult.Entries
     left     |-> {},       \* wallets authorizeOperation has not looked at yet
     baseline |-> {},       \* what the history held when its first page was read
     losses   |-> 0,        \* failures so far
     error    |-> NoError]

ReadsInit == Init /\ reading = [d \in Readers |-> NotRead]

-----------------------------------------------------------------------------
(* Control                                                                 *)

ReadAnswer(d, e) ==
    reading' = [reading EXCEPT ![d].at = "done", ![d].error = e]

\* A statement on s.pool waits for a free connection.
PoolHasConnection == Cardinality({q \in Requests : OnConnection(q)}) < MaxConns

\* The first check a read fails before it asks the store.
QueryError(q) ==
    IF q.owner = NoName THEN "ErrInvalidOwner"
    ELSE IF q.kind = "HISTORY" /\ q.limit \notin 1 .. MaxLimit THEN "ErrLimit"
    ELSE NoError

ReadArrives(d) ==
    /\ reading[d].at = "idle"
    /\ \E q \in Queries :
         reading' = [reading EXCEPT
           ![d].query = q,
           ![d].error = QueryError(q),
           ![d].at = IF QueryError(q) # NoError THEN "done"
                     ELSE IF q.kind = "TRANSACTION" THEN "operation" ELSE "wallet"]
    /\ UNCHANGED vars

-----------------------------------------------------------------------------
(* GetWallet, and the check that opens ListHistory                         *)

ReadWalletRow(d) ==
    LET q == reading[d].query
        row == {w \in wallets : w.id = q.wallet}
    IN  /\ reading[d].at = "wallet"
        /\ PoolHasConnection
        /\ \/ row = {} /\ ReadAnswer(d, "ErrWalletNotFound")
           \/ /\ \E w \in row : w.owner # q.owner
              /\ ReadAnswer(d, "ErrWalletAccessDenied")
           \/ /\ \E w \in row : w.owner = q.owner
              /\ reading' = [reading EXCEPT ![d].found = row,
                   ![d].at = IF q.kind = "WALLET" THEN "done" ELSE "page"]
        /\ UNCHANGED vars

-----------------------------------------------------------------------------
(* GetTransaction                                                          *)

EntriesOf(id) == {e \in ledger : e.transaction = id}

\* Mutant: the entries are read first, the transaction second.
ReadOperationLast(d) ==
    LET row == {t \in transactions : t.id = reading[d].query.transaction}
    IN  /\ \/ /\ reading[d].at = "operation"
              /\ reading' = [reading EXCEPT ![d].at = "entries",
                   ![d].entries = EntriesOf(reading[d].query.transaction)]
           \/ /\ reading[d].at = "entries"
              /\ IF row = {}
                   THEN ReadAnswer(d, "ErrTransactionNotFound")
                   ELSE reading' = [reading EXCEPT ![d].found = row,
                          ![d].at = "authorize",
                          ![d].left = UNION {Participants(t) : t \in row}]
        /\ UNCHANGED vars

ReadOperation(d) ==
    LET row == {t \in transactions : t.id = reading[d].query.transaction}
    IN  /\ reading[d].at = "operation"
        /\ PoolHasConnection
        /\ IF row = {}
             THEN ReadAnswer(d, "ErrTransactionNotFound")
             ELSE reading' = [reading EXCEPT ![d].at = "entries", ![d].found = row]
        /\ UNCHANGED vars

ReadOperationEntries(d) ==
    /\ reading[d].at = "entries" /\ reading[d].found # {}
    /\ PoolHasConnection
    /\ reading' = [reading EXCEPT
         ![d].at = "authorize",
         ![d].entries = EntriesOf(reading[d].query.transaction),
         ![d].left = UNION {Participants(t) : t \in reading[d].found}]
    /\ UNCHANGED vars

\* Mutant: only the wallet the money came from is looked at.
AuthorizeSource(d, id) ==
    /\ reading[d].at = "authorize" /\ id \in reading[d].left
    /\ \A t \in reading[d].found : t.source # NoID => id = t.source
    /\ \E w \in wallets :
         /\ w.id = id
         /\ ReadAnswer(d, IF w.owner = reading[d].query.owner
                            THEN NoError ELSE "ErrWalletAccessDenied")
    /\ UNCHANGED vars

\* Mutant: wallets already looked at are looked at again.
AuthorizeAgain(d, id) ==
    /\ reading[d].at = "authorize" /\ id \in reading[d].left
    /\ PoolHasConnection
    /\ \E w \in wallets :
         /\ w.id = id
         /\ IF w.owner = reading[d].query.owner
              THEN ReadAnswer(d, NoError) ELSE UNCHANGED reading
    /\ UNCHANGED vars

\* One turn of the loop of authorizeOperation, which goes through a map: in no
\* particular order.
AuthorizeOperation(d, id) ==
    LET left == reading[d].left \ {id}
        row  == {w \in wallets : w.id = id}
    IN  /\ reading[d].at = "authorize" /\ id \in reading[d].left
        /\ PoolHasConnection
        /\ IF row = {} THEN ReadAnswer(d, "ErrWalletNotFound")
           ELSE IF \E w \in row : w.owner = reading[d].query.owner
             THEN ReadAnswer(d, NoError)
           ELSE IF left = {} THEN ReadAnswer(d, "ErrWalletAccessDenied")
           ELSE reading' = [reading EXCEPT ![d].left = left]
        /\ UNCHANGED vars

-----------------------------------------------------------------------------
(* ListHistory                                                             *)

\* Mutant: the token names the entry to continue at, and the query continues
\* below it.
encodeCursorBelow(sequence) == IF sequence <= 1 THEN NoCursor ELSE <<sequence - 1>>

\* A token is opaque to the client: the sequence it continues below, wrapped.
encodeCursor(sequence) == IF sequence <= 0 THEN NoCursor ELSE <<sequence>>

\* 0 stands for the newest page; a token that was not issued is refused by the
\* handler and never gets here.
decodeCursor(token) == IF token = NoCursor THEN 0 ELSE token[1]

HistoryItem(e, t) ==
    [sequence |-> e.sequence, transaction |-> t.id, type |-> t.type,
     direction |-> e.direction, amount |-> e.amount, after |-> e.after,
     counterparty |-> IF e.direction = "DEBIT" THEN t.destination ELSE t.source]

\* JOIN and WHERE ...
Selects(q, e, t) ==
    /\ t.id = e.transaction /\ e.wallet = q.wallet
    /\ q.type = NoName \/ t.type = q.type

\* ... and the rows of the query, before ORDER BY and LIMIT.
Matching(q, cursor) ==
    {HistoryItem(row[1], row[2]) : row \in
        {pair \in ledger \X transactions :
            /\ Selects(q, pair[1], pair[2])
            /\ cursor = 0 \/ pair[1].sequence < cursor}}

\* items are the members of S, ORDER BY sequence DESC.
Lists(items, S) ==
    /\ \A i, j \in DOMAIN items : i < j => items[i].sequence > items[j].sequence
    /\ Range(items) = S

NewestFirst(S) == CHOOSE items \in [1 .. Cardinality(S) -> S] : Lists(items, S)

\* LIMIT limit + 1: the row too many says that there are more.
Fetched(q, cursor) ==
    LET all == NewestFirst(Matching(q, cursor))
    IN  SubSeq(all, 1, IF Len(all) <= q.limit THEN Len(all) ELSE q.limit + 1)

HasMore(q, cursor) == Len(Fetched(q, cursor)) > q.limit

Page(q, cursor) ==
    LET fetched == Fetched(q, cursor)
    IN  IF Len(fetched) > q.limit THEN SubSeq(fetched, 1, q.limit) ELSE fetched

ReadPage(d) ==
    LET q      == reading[d].query
        cursor == decodeCursor(reading[d].cursor)
        page   == Page(q, cursor)
        more   == HasMore(q, cursor)
    IN  /\ reading[d].at = "page"
        /\ PoolHasConnection
        /\ reading' = [reading EXCEPT
             ![d].items = @ \o page,
             ![d].cursor = encodeCursor(IF more THEN Last(page).sequence ELSE 0),
             ![d].baseline = IF cursor = 0 THEN Matching(q, 0) ELSE @,
             ![d].at = IF more THEN "wallet" ELSE "done"]
        /\ UNCHANGED vars

-----------------------------------------------------------------------------
(* Failures                                                                *)

\* A statement fails or the answer is lost.  A client that pages asks for the
\* same page again.
ReadFails(d) ==
    LET q == reading[d].query
    IN  /\ reading[d].at \notin {"idle", "done"} /\ reading[d].losses < MaxLosses
        /\ reading' = [reading EXCEPT
             ![d].losses = @ + 1,
             ![d].at = IF q.kind = "HISTORY" THEN "wallet" ELSE "done",
             ![d].error = IF q.kind = "HISTORY" THEN NoError ELSE "ErrUnavailable"]
        /\ UNCHANGED vars

-----------------------------------------------------------------------------

ReadProceeds(d) ==
    \/ ReadWalletRow(d)
    \/ ReadOperation(d) \/ ReadOperationEntries(d)
    \/ \E id \in WalletIDs : AuthorizeOperation(d, id)
    \/ ReadPage(d)

ReadsNext ==
    \/ Next /\ UNCHANGED reading
    \/ \E d \in Readers : ReadArrives(d) \/ ReadProceeds(d) \/ ReadFails(d)

ReadsSpec == ReadsInit /\ [][ReadsNext]_readsVars

\* A read that waits for a connection gets one when the requests that fill the
\* pool have ended.
ReadsFairSpec ==
    /\ ReadsSpec
    /\ \A r \in Requests : WF_readsVars(Proceed(r) /\ UNCHANGED reading)
                           /\ WF_readsVars(Server(r) /\ UNCHANGED reading)
    /\ \A d \in Readers : WF_readsVars(ReadProceeds(d))

-----------------------------------------------------------------------------
(* Properties                                                              *)

ReadDone(d, kind) ==
    reading[d].at = "done" /\ reading[d].query.kind = kind

ReadOK(d, kind) == ReadDone(d, kind) /\ reading[d].error = NoError

\* Every balance shown is the one below it with its own amount added or taken
\* away, and the oldest starts from zero.
AddsUp(items) ==
    \A i \in DOMAIN items :
        items[i].after =
          (IF i = Len(items) THEN 0 ELSE items[i + 1].after)
          + (IF items[i].direction = "DEBIT" THEN - items[i].amount
                                             ELSE items[i].amount)

\* README.md:524: "Cursor pagination remains stable as new transactions arrive".
\* A client that follows the cursor to its end has seen what the history held
\* when it began, newest first, nothing twice and nothing left out, whatever
\* committed and whichever page was asked for again on the way; and unless it
\* asked for one type only, what it has is a statement that adds up.
PagesAreTheHistory ==
    \A d \in Readers : ReadOK(d, "HISTORY") =>
        LET items == reading[d].items
        IN  /\ Lists(items, reading[d].baseline)
            /\ reading[d].query.type = NoName => AddsUp(items)

\* GetTransaction reads the transaction and its entries with two statements, and
\* still never shows one without an entry for each of its wallets.
OperationReadWhole ==
    \A d \in Readers : ReadOK(d, "TRANSACTION") =>
        \A t \in reading[d].found :
            {e.wallet : e \in reading[d].entries} = {t.source, t.destination} \ {NoID}

\* An operation is shown to the owners of its wallets, to both and to nobody
\* else, in whichever order authorizeOperation comes across them.
OperationShownToParticipants ==
    \A d \in Readers :
        LET q == reading[d].query
            mine == {w \in wallets : w.owner = q.owner}
            participates == \E t \in reading[d].found, w \in mine :
                                w.id \in {t.source, t.destination}
        IN  /\ ReadOK(d, "TRANSACTION") => participates
            /\ ReadDone(d, "TRANSACTION")
               /\ reading[d].error = "ErrWalletAccessDenied" => ~ participates

\* Every read that arrived is answered, and paging comes to its end beside
\* requests that fill the pool and extend the history.
EveryReadAnswered ==
    \A d \in Readers : reading[d].at # "idle" ~> reading[d].at = "done"
=============================================================================
