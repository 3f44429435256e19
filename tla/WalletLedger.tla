---------------------------- MODULE WalletLedger ----------------------------
(***************************************************************************)
(* What the wallet service promises a client, without transactions, locks, *)
(* retries or failures: a command takes effect at one moment, wholly or    *)
(* not at all, once for its key, on the wallets as they are at that moment.*)
(* A positive answer names a resource a command has already made.          *)
(***************************************************************************)
EXTENDS WalletDomain

CONSTANTS
    Commands, OpenedWallets, OperatorStatuses,
    Numbers    \* the numbers history may give its entries

VARIABLES
    accounts,  \* the wallets
    journal,   \* the transactions that have taken effect
    history,   \* their entries
    applied,   \* the keys used up, with the command and its resource
    answer     \* whether each request has been answered, and with which resource;
               \* none means no, or not known

abstractVars == <<accounts, journal, history, applied, answer>>

Waiting == [given |-> FALSE, resource |-> NoID]

Init ==
    /\ accounts = OpenedWallets
    /\ journal = {} /\ history = {} /\ applied = {}
    /\ answer = [r \in Requests |-> Waiting]

UseKey(c, id) ==
    /\ \A a \in applied : ~ (a.scope = c.owner /\ a.key = c.key)
    /\ applied' = applied \cup {[scope |-> c.owner, key |-> c.key,
                                 hash |-> requestHash(c), type |-> resourceType(c),
                                 resource |-> id]}

Open(c, id) ==
    /\ c.kind = "CREATE" /\ ValidationError(c) = NoError
    /\ UseKey(c, id)
    /\ \A w \in accounts : w.id # id /\ w.owner # c.owner
    /\ accounts' = accounts \cup {NewWallet(id, c)}
    /\ UNCHANGED <<journal, history, answer>>

Posting(w, c, id, number) ==
    [sequence |-> number, transaction |-> id, wallet |-> w.id,
     direction |-> direction(w, c), amount |-> c.amount,
     before |-> w.balance, after |-> Mutated(w, c).balance]

Post(c, id) ==
    LET held == {w \in accounts : w.id \in Participants(c)} IN
    /\ c.kind # "CREATE" /\ ValidationError(c) = NoError
    /\ UseKey(c, id)
    /\ \A t \in journal : t.id # id
    /\ Participants(c) = {w.id : w \in held}
    /\ Accepted(held, c)
    /\ accounts' = (accounts \ held) \cup {Mutated(w, c) : w \in held}
    /\ journal' = journal \cup
         {[id |-> id, type |-> c.kind, amount |-> c.amount, currency |-> c.currency,
           source |-> c.source, destination |-> c.destination]}
    /\ \E number \in [Participants(c) -> Numbers] :
         /\ \A e \in history : e.wallet \in Participants(c) =>
                                 e.sequence < number[e.wallet]
         /\ history' = history \cup {Posting(w, c, id, number[w.id]) : w \in held}
    /\ UNCHANGED answer

SetStatus(w, status) ==
    /\ accounts' = (accounts \ {w}) \cup {[w EXCEPT !.status = status]}
    /\ UNCHANGED <<journal, history, applied, answer>>

Answer(r) ==
    /\ answer[r] = Waiting
    /\ \E id \in {NoID} \cup {a.resource : a \in applied} :
         answer' = [answer EXCEPT ![r] = [given |-> TRUE, resource |-> id]]
    /\ UNCHANGED <<accounts, journal, history, applied>>

Next ==
    \/ \E c \in Commands, id \in WalletIDs : Open(c, id)
    \/ \E c \in Commands, id \in Requests : Post(c, id)
    \/ \E w \in accounts, status \in OperatorStatuses : SetStatus(w, status)
    \/ \E r \in Requests : Answer(r)

Spec == Init /\ [][Next]_abstractVars
=============================================================================
