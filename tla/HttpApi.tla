------------------------------- MODULE HttpApi -------------------------------
(***************************************************************************)
(* The service as its clients see it: messages come in, HttpHandlers       *)
(* rejects them or hands them to the use cases of WalletService and        *)
(* WalletReads, and their outcome goes out as a status.                    *)
(***************************************************************************)
EXTENDS HttpHandlers

VARIABLE exchange  \* the message of each request and reader, and its answer

httpVars == <<readsVars, exchange>>

NoExchange == [message |-> <<>>, status |-> Passes, late |-> FALSE]

Received(x) == exchange[x].message # <<>>
Answered(x) == exchange[x].status # Passes
Serving(x)  == Received(x) /\ ~ Answered(x)

HttpInit == ReadsInit /\ exchange = [x \in Requests \cup Readers |-> NoExchange]

Reply(x, status) == exchange' = [exchange EXCEPT ![x].status = status]

-----------------------------------------------------------------------------
(* A message comes in                                                      *)

Accept(x, m) ==
    exchange' = [exchange EXCEPT ![x].message = m, ![x].status = Immediate(m)]

\* It goes no further than its handler, or it waits for Ping ...
Receive(x, m) ==
    /\ ~ Received(x)
    /\ Immediate(m) # Passes \/ m.route = "ready"
    /\ Accept(x, m)
    /\ UNCHANGED readsVars

\* ... or it carries a command ...
ReceiveCommand(r, m) ==
    /\ ~ Received(r)
    /\ Immediate(m) = Passes
    /\ Accept(r, m)
    /\ Arrive(r) /\ command'[r] = m.command
    /\ UNCHANGED reading

\* ... or a query.
ReceiveQuery(d, m) ==
    /\ ~ Received(d)
    /\ Immediate(m) = Passes /\ m.route # "ready"
    /\ Accept(d, m)
    /\ ReadArrives(d) /\ reading'[d].query = m.query

-----------------------------------------------------------------------------
(* An answer goes out                                                      *)

\* errors.Join(err, rollbackErr) is an error of the context, too, when the
\* deadline came with the rollback.
Respond(r) ==
    /\ Serving(r) /\ pc[r] = "done"
    /\ \E status \in MutationStatus(err[r], result[r].replayed)
                     \cup (IF exchange[r].late THEN {503} ELSE {}) : Reply(r, status)
    /\ UNCHANGED readsVars

RespondRead(d) ==
    /\ Serving(d) /\ reading[d].at = "done"
    /\ \E status \in IF reading[d].error = NoError THEN {200}
                     ELSE problemForError(reading[d].error) : Reply(d, status)
    /\ UNCHANGED readsVars

\* readiness: the database answers, or does not in time.
Ping(d) ==
    /\ Serving(d) /\ exchange[d].message.route = "ready"
    /\ \/ PoolHasConnection /\ Reply(d, 200)
       \/ exchange' = [exchange EXCEPT ![d].status = 503, ![d].late = TRUE]
    /\ UNCHANGED readsVars

\* The deadline comes with the rollback of an error that is not worth another
\* attempt.
DeadlineInRollback(r) ==
    /\ RollbackFails(r)
    /\ pc'[r] = "done"
    /\ exchange' = [exchange EXCEPT ![r].late = TRUE]
    /\ UNCHANGED reading

-----------------------------------------------------------------------------

Exchanged(r) ==
    \/ \E m \in Messages : /\ m.route \in Commanding
                           /\ Receive(r, m) \/ ReceiveCommand(r, m)
    \/ Respond(r) \/ DeadlineInRollback(r)
    \/ (Proceed(r) \/ Server(r) \/ Failure(r)) /\ UNCHANGED <<reading, exchange>>

ExchangedRead(d) ==
    \/ \E m \in Messages : /\ m.route \notin Commanding
                           /\ Receive(d, m) \/ ReceiveQuery(d, m)
    \/ RespondRead(d) \/ Ping(d)
    \/ (ReadProceeds(d) \/ ReadFails(d)) /\ UNCHANGED exchange

HttpTerminating ==
    /\ \A x \in Requests \cup Readers : Answered(x)
    /\ \A r \in Requests : ~ Live(r)
    /\ UNCHANGED httpVars

HttpNext ==
    \/ \E r \in Requests : Exchanged(r)
    \/ \E d \in Readers : ExchangedRead(d)
    \/ HttpTerminating

HttpSpec == HttpInit /\ [][HttpNext]_httpVars

-----------------------------------------------------------------------------
(* Properties                                                              *)

\* The statuses openapi.yaml:35-397 lists for the operations of a path.
Documented(route) ==
    CASE route = "live"    -> {200, 405}
      [] route = "ready"   -> {200, 405, 503}
      [] route = "wallets" -> {200, 201, 400, 405, 409, 413, 415, 422, 500, 503}
      [] route \in {"deposits", "withdrawals", "transfers"} ->
           {200, 201, 400, 403, 404, 405, 409, 413, 415, 422, 500, 503}
      [] route \in Querying -> {200, 400, 403, 404, 405, 500, 503}
      [] route = "docs"     -> {307, 404, 405}
      [] route \in Documentation \ {"docs"} -> {200, 404, 405}
      [] OTHER -> {404}

\* Every status the service answers with is one openapi.yaml lists for the
\* operation: POST /v1/wallets, for one, is never answered with 403 or 404,
\* though the replay of its key looks a wallet up and checks its owner.
DocumentedStatus ==
    \A x \in Requests \cup Readers : Answered(x) =>
        exchange[x].status \in Documented(exchange[x].message.route)

\* The client's fault and nobody else's: a 4xx means that the request has
\* changed nothing and never will, so that it may be put right and sent again
\* with the same key.
ClientErrorLeavesNoTrace ==
    \A r \in Requests : exchange[r].status \in 400 .. 499 =>
        /\ tx[r].state \notin {"committing", "committed"}
        /\ \A t \in transactions : t.id # r
        /\ \A rec \in idempotency : rec.resource # r

Location(r) == IF command[r].kind = "CREATE" THEN newID[r] ELSE result[r].transaction

\* README.md:392: "Mutation responses return `201 Created`; a successful
\* idempotent replay returns `200 OK` with the original resource".  Of the
\* successful answers to one key at most one is a 201, and all lead to one place.
CreatedOncePerKey ==
    \A r, q \in Requests :
        /\ r # q /\ SameRequest(r, q)
        /\ exchange[r].status \in {200, 201} /\ exchange[q].status \in {200, 201}
        => /\ {exchange[r].status, exchange[q].status} # {201}
           /\ Location(r) = Location(q)

\* Of all that clients can get wrong, in a message or in the order of messages,
\* only a key PostgreSQL cannot store is answered with 500 or 503 while nothing
\* fails: everything else has a status of its own.
ServerErrorsNeedAFault ==
    \A x \in Requests \cup Readers : exchange[x].status >= 500 =>
        \/ faults > 0 \/ \E d \in Readers : reading[d].losses > 0 \/ exchange[d].late
        \/ x \in Requests /\ command[x].key \in NonUTF8Keys
=============================================================================
