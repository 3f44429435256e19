-------------------------- MODULE WalletRefinement --------------------------
(***************************************************************************)
(* WalletService implements WalletLedger: a command takes effect when the  *)
(* server applies its COMMIT, and a request is answered when its goroutine *)
(* returns.  Every other statement is a stuttering step.                   *)
(***************************************************************************)
EXTENDS WalletProperties

CONSTANT Numbers  \* the numbers the sequence of ledger_entries may give

ASSUME NumbersAssumption == Numbers \subseteq Int

AnswerGiven(r) ==
    [given    |-> pc[r] = "done",
     resource |-> IF ~ Acknowledged(r) THEN NoID
                  ELSE IF command[r].kind = "CREATE" THEN newID[r]
                  ELSE result[r].transaction]

Promise == INSTANCE WalletLedger WITH
    accounts <- wallets,
    journal  <- transactions,
    history  <- ledger,
    applied  <- idempotency,
    answer   <- [r \in Requests |-> AnswerGiven(r)]

\* Every behaviour of the goroutines, the server and the failures is one a
\* client of the atomic ledger could see.
ImplementsLedger == Promise!Spec
=============================================================================
