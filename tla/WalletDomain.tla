---------------------------- MODULE WalletDomain ----------------------------
(***************************************************************************)
(* The rules of internal/domain and the checks and keys of                 *)
(* internal/application that touch no database: what a command is, when it *)
(* is refused, and what it does to the wallet rows it was given.           *)
(*                                                                         *)
(* Times, formatting and the text of errors are left out.  A SHA-256       *)
(* request hash is modelled by the values it is computed from.             *)
(***************************************************************************)
EXTENDS Integers

CONSTANTS
    Requests,             \* HTTP requests; also the transaction UUID each one generates
    WalletIDs,            \* wallet UUIDs, as numbers in the order of their strings
    Owners,               \* normalized values of X-User-ID
    Keys,                 \* values of Idempotency-Key
    NonUTF8Keys,          \* those whose bytes are no text in UTF-8
    SupportedCurrencies,  \* the keys of currencyExponents
    MaxMinor              \* math.MaxInt64

NoID       == 0           \* a nil *string, or the zero value of a Wallet's ID
NoName     == ""          \* an empty owner, key or currency
NoError    == "nil"

\* internal/domain/errors.go; the SQLSTATE of a deadlock or a serialization
\* failure; any other database error; and no answer in time.
Errors ==
    {NoError, "ErrWalletNotFound", "ErrTransactionNotFound", "ErrInvalidOwner",
     "ErrInvalidAmount", "ErrInvalidCurrency", "ErrAmountOverflow",
     "ErrCurrencyMismatch", "ErrInsufficientFunds", "ErrWalletNotActive",
     "ErrSameWallet", "ErrIdempotencyConflict", "ErrOwnerHasWallet",
     "ErrWalletAccessDenied", "ErrKeyRequired", "40P01", "ErrDatabase",
     "ErrUnavailable"}

ASSUME DomainAssumption ==
    /\ WalletIDs \subseteq Nat \ {NoID}
    /\ Requests \cap (WalletIDs \cup {NoID}) = {}
    /\ NoName \notin Owners \cup Keys \cup SupportedCurrencies
    /\ NonUTF8Keys \subseteq Keys
    /\ MaxMinor \in Nat

-----------------------------------------------------------------------------
(* Commands                                                                *)

\* CreateWalletCommand, MoneyCommand and TransferCommand in one shape: a field
\* the original lacks is empty.
Command ==
    {c \in [kind        : {"CREATE", "DEPOSIT", "WITHDRAWAL", "TRANSFER"},
            owner       : Owners \cup {NoName},
            key         : Keys \cup {NoName},
            source      : WalletIDs \cup {NoID},
            destination : WalletIDs \cup {NoID},
            currency    : SupportedCurrencies \cup {NoName},
            amount      : 0 .. MaxMinor] :
        /\ c.kind \in {"CREATE", "DEPOSIT"}    => c.source = NoID
        /\ c.kind \in {"CREATE", "WITHDRAWAL"} => c.destination = NoID
        /\ c.kind = "CREATE"                   => c.amount = 0}

NoCommand ==
    [kind |-> "CREATE", owner |-> NoName, key |-> NoName, source |-> NoID,
     destination |-> NoID, currency |-> NoName, amount |-> 0]

Participants(c) == {c.source, c.destination} \ {NoID}

Wallet ==
    [id : WalletIDs, owner : Owners, currency : SupportedCurrencies,
     balance : Int, status : {"ACTIVE", "FROZEN", "CLOSED"}, version : Int]

\* Mutant: a status the schema does not know.
NewWalletPending(id, c) ==
    [id |-> id, owner |-> c.owner, currency |-> c.currency,
     balance |-> 0, status |-> "PENDING", version |-> 1]

NewWallet(id, c) ==
    [id |-> id, owner |-> c.owner, currency |-> c.currency,
     balance |-> 0, status |-> "ACTIVE", version |-> 1]

requestHash(c) == [c EXCEPT !.key = NoName]

\* Mutant: CreateWallet reserves its key for a transaction.
resourceAlwaysTransaction(c) == "TRANSACTION"

resourceType(c) == IF c.kind = "CREATE" THEN "WALLET" ELSE "TRANSACTION"

LacksWallet(c) ==
    \/ c.kind \in {"DEPOSIT", "TRANSFER"}    /\ c.destination = NoID
    \/ c.kind \in {"WITHDRAWAL", "TRANSFER"} /\ c.source = NoID

\* The first check a use case fails before it opens a transaction.
ValidationError(c) ==
    IF c.owner = NoName
      THEN "ErrInvalidOwner"
    ELSE IF c.kind = "CREATE" /\ c.currency \notin SupportedCurrencies
      THEN "ErrInvalidCurrency"
    ELSE IF c.kind = "TRANSFER" /\ c.source = c.destination
      THEN "ErrSameWallet"
    ELSE IF c.kind # "CREATE" /\ (c.amount <= 0 \/ LacksWallet(c))
      THEN "ErrInvalidAmount"
    ELSE IF c.key = NoName
      THEN "ErrKeyRequired"
    ELSE NoError

-----------------------------------------------------------------------------
(* What a money command does to a wallet                                   *)

validateMutation(w, c) ==
    IF w.status # "ACTIVE"          THEN "ErrWalletNotActive"
    ELSE IF c.amount <= 0           THEN "ErrInvalidAmount"
    ELSE IF w.currency # c.currency THEN "ErrCurrencyMismatch"
    ELSE NoError

\* Mutant: int64 overflow goes unnoticed.
AddMinorUnchecked(balance, amount) ==
    IF amount <= 0 THEN "ErrInvalidAmount" ELSE NoError

AddMinorError(balance, amount) ==
    IF amount <= 0 THEN "ErrInvalidAmount"
    ELSE IF balance > MaxMinor - amount THEN "ErrAmountOverflow"
    ELSE NoError

CreditError(w, c) ==
    IF validateMutation(w, c) # NoError
      THEN validateMutation(w, c)
      ELSE AddMinorError(w.balance, c.amount)

\* Mutant: nobody looks whether the money is there.
DebitUnchecked(w, c) == validateMutation(w, c)

DebitError(w, c) ==
    IF validateMutation(w, c) # NoError THEN validateMutation(w, c)
    ELSE IF w.balance < c.amount        THEN "ErrInsufficientFunds"
    ELSE NoError

\* Mutant: Credit forgets w.Version++.
CreditSameVersion(w, c) == [w EXCEPT !.balance = @ + c.amount]

Credit(w, c) == [w EXCEPT !.balance = @ + c.amount, !.version = @ + 1]
Debit(w, c)  == [w EXCEPT !.balance = @ - c.amount, !.version = @ + 1]

Mutated(w, c)   == IF w.id = c.source THEN Debit(w, c) ELSE Credit(w, c)

\* Mutant: direction stays at its initial EntryCredit.
directionCredit(w, c) == "CREDIT"

direction(w, c) == IF w.id = c.source THEN "DEBIT" ELSE "CREDIT"

\* Only the wallet a command starts from must belong to the caller: anybody
\* may be paid by a transfer.
authorizeWallet(held, c) ==
    LET authorizing == IF c.source # NoID THEN c.source ELSE c.destination
    IN  \A w \in held : w.id = authorizing => w.owner = c.owner

DebitsPass(held, c) ==
    \A w \in held : w.id = c.source => DebitError(w, c) = NoError

CreditsPass(held, c) ==
    \A w \in held : w.id = c.destination => CreditError(w, c) = NoError

Accepted(held, c) ==
    authorizeWallet(held, c) /\ DebitsPass(held, c) /\ CreditsPass(held, c)

\* e is the error the use case returns for the rows it holds: ownership is
\* checked first, then the debit, then the credit.
Refused(held, c, e) ==
    \/ ~ authorizeWallet(held, c) /\ e = "ErrWalletAccessDenied"
    \/ /\ authorizeWallet(held, c) /\ ~ DebitsPass(held, c)
       /\ \E w \in held : w.id = c.source /\ e = DebitError(w, c)
    \/ /\ authorizeWallet(held, c) /\ DebitsPass(held, c) /\ ~ CreditsPass(held, c)
       /\ \E w \in held : w.id = c.destination /\ e = CreditError(w, c)
=============================================================================
