----------------------------- MODULE HttpHandlers -----------------------------
(***************************************************************************)
(* internal/interfaces/httpapi without its state: which handler a message  *)
(* reaches, the checks it makes in their order, the command or query it    *)
(* hands to the use cases, and the status an outcome is answered with.     *)
(*                                                                         *)
(* A message is described by what the checks tell apart.  Statuses are     *)
(* numbers; the codes, titles and details of a problem are left out.       *)
(***************************************************************************)
EXTENDS WalletReads

CONSTANTS
    Messages,             \* the messages clients send
    maxRequestBodyBytes,
    swaggerEnabled

Passes == 0  \* of a check: nothing to answer yet

-----------------------------------------------------------------------------
(* Messages                                                                *)

Commanding == {"wallets", "deposits", "withdrawals", "transfers"}
Querying   == {"wallet", "history", "transaction"}
Health     == {"live", "ready"}

Documentation == {"openapi.yaml", "openapi.json", "docs", "docs/"}

\* A body is as many bytes as it has, its first JSON value ends somewhere among
\* them or (end > size) nowhere, and behind it there is white space or more.
\* The value is what the request type asks for, or is refused by the decoder:
\* malformed, mistyped, with a field nobody knows, missing.
Body == [value : {"fits", "refused"}, end : Nat, size : Nat, blank : BOOLEAN]

Message ==
    [route   : Commanding \cup Querying \cup Health \cup Documentation \cup {"other"},
     method  : {"GET", "POST", "DELETE"},
     path    : BOOLEAN,  \* the ID in the path is a UUID
     json    : BOOLEAN,  \* Content-Type is application/json
     body    : Body,
     ids     : BOOLEAN,  \* the IDs in the body are UUIDs
     command : Command,  \* what headers, path and body ask for
     cursor  : BOOLEAN,  \* the cursor is absent or was issued
     filter  : BOOLEAN,  \* the type is absent or known
     query   : Query]    \* what headers, path and parameters ask for

\* What the handler of a route asks of the use cases.
KindOf(route) ==
    CASE route = "wallets"     -> "CREATE"
      [] route = "deposits"    -> "DEPOSIT"
      [] route = "withdrawals" -> "WITHDRAWAL"
      [] route = "transfers"   -> "TRANSFER"
      [] route = "wallet"      -> "WALLET"
      [] route = "history"     -> "HISTORY"
      [] route = "transaction" -> "TRANSACTION"

ASSUME HandlersAssumption ==
    /\ Messages \subseteq Message
    /\ \A m \in Messages :
         /\ m.route \in Commanding => m.command.kind = KindOf(m.route)
         /\ m.route \in Querying => m.query.kind = KindOf(m.route)
    /\ maxRequestBodyBytes \in Nat \ {0} /\ swaggerEnabled \in BOOLEAN

-----------------------------------------------------------------------------
(* Routes                                                                  *)

registerDocumentationRoutes == IF swaggerEnabled THEN Documentation ELSE {}

Routes == Commanding \cup Querying \cup Health \cup registerDocumentationRoutes

allowedMethod(route) == IF route \in Commanding THEN "POST" ELSE "GET"

Routed(m) ==
    IF m.route \notin Routes THEN 404
    ELSE IF m.method # allowedMethod(m.route) THEN 405
    ELSE Passes

-----------------------------------------------------------------------------
(* The checks of the handlers                                              *)

Check(passes, status) == IF passes THEN Passes ELSE status

\* decodeJSON and writeDecodeProblem.  The first Decode reads as far as its
\* value goes, at most to the end of the body; the second looks for that end: an
\* error of the second one, too many bytes included, is a bad request.
decodeJSON(m) ==
    IF ~ m.json THEN 415
    ELSE IF m.body.end > maxRequestBodyBytes /\ m.body.size > maxRequestBodyBytes THEN 413
    ELSE IF m.body.end > m.body.size \/ m.body.value = "refused" THEN 400
    ELSE Check(m.body.blank /\ m.body.size <= maxRequestBodyBytes, 400)

pathID(m) == Check(m.path, 400)

bodyIDs(m) == Check(m.ids, 400)

\* What becomes of the error of ParseMoney (MoneyText).
ParseMoney(m) ==
    Check(m.command.currency \in SupportedCurrencies /\ m.command.amount > 0, 422)

ownerIDFromRequest(m) ==
    Check(NoName # IF m.route \in Commanding THEN m.command.owner ELSE m.query.owner, 400)

\* Any bytes will do for a key, if they are few enough and not blank.
idempotencyFromRequest(m) == Check(m.command.key # NoName, 400)

\* Mutant: nobody asks for an Idempotency-Key.
transferWithoutKey(m) ==
    <<decodeJSON(m), bodyIDs(m), ParseMoney(m), ownerIDFromRequest(m)>>

\* The checks of each handler, in its order.
createWallet(m) ==
    <<decodeJSON(m), ownerIDFromRequest(m), idempotencyFromRequest(m)>>

changeBalance(m) ==
    <<pathID(m), decodeJSON(m), ParseMoney(m), ownerIDFromRequest(m),
      idempotencyFromRequest(m)>>

transfer(m) ==
    <<decodeJSON(m), bodyIDs(m), ParseMoney(m), ownerIDFromRequest(m),
      idempotencyFromRequest(m)>>

getWallet(m) == <<pathID(m), ownerIDFromRequest(m)>>

getTransaction(m) == <<pathID(m), ownerIDFromRequest(m)>>

listHistory(m) ==
    <<pathID(m), Check(m.cursor, 400), Check(m.query.limit \in 1 .. MaxLimit, 400),
      Check(m.filter, 400), ownerIDFromRequest(m)>>

Checks(m) ==
    CASE m.route = "wallets"                    -> createWallet(m)
      [] m.route \in {"deposits", "withdrawals"} -> changeBalance(m)
      [] m.route = "transfers"                  -> transfer(m)
      [] m.route = "wallet"                     -> getWallet(m)
      [] m.route = "transaction"                -> getTransaction(m)
      [] m.route = "history"                    -> listHistory(m)
      [] OTHER                                  -> <<>>

\* The status of a message that goes no further than its handler.
Immediate(m) ==
    LET failed == {i \in DOMAIN Checks(m) : Checks(m)[i] # Passes}
    IN  IF Routed(m) # Passes THEN Routed(m)
        ELSE IF failed # {} THEN Checks(m)[Min(failed)]
        ELSE CASE m.route = "docs" -> 307
               [] m.route \in (Documentation \ {"docs"}) \cup {"live"} -> 200
               [] OTHER -> Passes

-----------------------------------------------------------------------------
(* The status of an outcome                                                *)

\* Mutant: an owner who has a wallet is denied another.
problemDenied(e) ==
    CASE e \in {"ErrWalletNotFound", "ErrTransactionNotFound"} -> {404}
      [] e \in {"ErrWalletAccessDenied", "ErrOwnerHasWallet"} -> {403}
      [] e \in {"ErrWalletNotActive", "ErrIdempotencyConflict"} -> {409}
      [] e \in {"ErrInvalidAmount", "ErrInvalidCurrency", "ErrCurrencyMismatch",
                "ErrInsufficientFunds", "ErrSameWallet", "ErrAmountOverflow"} -> {422}
      [] OTHER -> {500}

\* Mutant: an outcome nobody knows is a conflict with what may have happened.
problemConflict(e) ==
    CASE e \in {"ErrWalletNotFound", "ErrTransactionNotFound"} -> {404}
      [] e = "ErrWalletAccessDenied" -> {403}
      [] e \in {"ErrOwnerHasWallet", "ErrWalletNotActive", "ErrIdempotencyConflict",
                "ErrUnavailable"} -> {409}
      [] e \in {"ErrInvalidAmount", "ErrInvalidCurrency", "ErrCurrencyMismatch",
                "ErrInsufficientFunds", "ErrSameWallet", "ErrAmountOverflow"} -> {422}
      [] OTHER -> {500}

\* No answer in time is an error of the context (503) or of a connection (500).
problemForError(e) ==
    CASE e = "ErrUnavailable" -> {500, 503}
      [] e \in {"ErrWalletNotFound", "ErrTransactionNotFound"} -> {404}
      [] e = "ErrWalletAccessDenied" -> {403}
      [] e = "ErrInvalidOwner" -> {400}
      [] e \in {"ErrOwnerHasWallet", "ErrWalletNotActive", "ErrIdempotencyConflict"} ->
           {409}
      [] e \in {"ErrInvalidAmount", "ErrInvalidCurrency", "ErrCurrencyMismatch",
                "ErrInsufficientFunds", "ErrSameWallet", "ErrAmountOverflow"} -> {422}
      [] OTHER -> {500}

\* Mutant: a replay is answered like the first request.
MutationStatusAlwaysCreated(e, replayed) ==
    IF e = NoError THEN {201} ELSE problemForError(e)

MutationStatus(e, replayed) ==
    IF e # NoError THEN problemForError(e)
    ELSE IF replayed THEN {200} ELSE {201}
=============================================================================
