----------------------------- MODULE Migrations -----------------------------
(***************************************************************************)
(* postgres.Migrate, called by every server and by cmd/migrate: each       *)
(* caller runs, on one connection and under an advisory lock, the embedded *)
(* files the table schema_migrations does not name, each in a transaction  *)
(* that also names it there.                                               *)
(*                                                                         *)
(* A caller may lose its connection or be stopped at any point.  Its       *)
(* session on the server lives on for a while, still waiting for the lock  *)
(* or holding it, and may still commit.  A caller that is started again is *)
(* another member of Migrators.  PostgreSQL itself is external.            *)
(***************************************************************************)
EXTENDS Integers, FiniteSets

CONSTANTS
    Migrators,   \* the calls
    NoMigrator,  \* nobody
    NFiles,      \* migration files in the order of their names
    Embedded,    \* how many of them are in each caller's binary
    Rerunnable   \* files that may run on a schema that has them (001, not 002)

Files == 1 .. NFiles

ASSUME MigrationsAssumption ==
    /\ NoMigrator \notin Migrators
    /\ NFiles \in Nat
    /\ Embedded \in [Migrators -> Files]
    /\ Rerunnable \subseteq Files

VARIABLES
    pc,         \* the statement the caller runs next
    file,       \* the loop variable: the file it is at
    outcome,    \* what the call has returned
    session,    \* the caller's session on the server
    holder,     \* the session that has the advisory lock
    versioned,  \* the table schema_migrations is there
    schema,     \* the files whose effect is committed
    recorded,   \* the committed rows of schema_migrations
    tx,         \* the open transaction of each session
    hit         \* the calls something has gone wrong for

callVars == <<pc, file, outcome>>
vars == <<callVars, session, holder, versioned, schema, recorded, tx, hit>>

NoTx == [state |-> "none", scripts |-> {}, rows |-> {}]

Live(p) == tx[p].state \in {"open", "committing"}

\* A new database, or one an earlier version of the program has migrated.
Init ==
    /\ pc        = [p \in Migrators |-> "idle"]
    /\ file      = [p \in Migrators |-> 1]
    /\ outcome   = [p \in Migrators |-> "none"]
    /\ session   = [p \in Migrators |-> "none"]
    /\ holder    = NoMigrator
    /\ \E version \in 0 .. NFiles : schema = 1 .. version /\ versioned = (version > 0)
    /\ recorded  = schema
    /\ tx        = [p \in Migrators |-> NoTx]
    /\ hit       = {}

Goto(p, label) == pc' = [pc EXCEPT ![p] = label]

Return(p, result) == Goto(p, "done") /\ outcome' = [outcome EXCEPT ![p] = result]

\* Mutant: a deferred function overwrites the error.
FailQuietly(p) ==
    /\ tx' = [tx EXCEPT ![p] = NoTx]
    /\ Goto(p, "unlock")
    /\ outcome' = [outcome EXCEPT ![p] = "nil"]

\* return fmt.Errorf(...), with the deferred unlock before it.
Fail(p) ==
    /\ tx' = [tx EXCEPT ![p] = NoTx]
    /\ Goto(p, "unlock")
    /\ outcome' = [outcome EXCEPT ![p] = "error"]

-----------------------------------------------------------------------------
(* The call                                                                *)

\* pool.Acquire; pg_advisory_lock is sent.
Call(p) ==
    /\ pc[p] = "idle"
    /\ Goto(p, "lock")
    /\ session' = [session EXCEPT ![p] = "waiting"]
    /\ UNCHANGED <<file, outcome, holder, versioned, schema, recorded, tx, hit>>

\* Mutant: there is no advisory lock.
GrantWithoutLock(p) ==
    /\ session[p] = "waiting"
    /\ holder' = p
    /\ session' = [session EXCEPT ![p] = "locked"]
    /\ pc' = IF pc[p] = "lock" THEN [pc EXCEPT ![p] = "table"] ELSE pc
    /\ UNCHANGED <<file, outcome, versioned, schema, recorded, tx, hit>>

\* The server gives the lock to a session that waits, its client there or not.
Grant(p) ==
    /\ session[p] = "waiting" /\ holder = NoMigrator
    /\ holder' = p
    /\ session' = [session EXCEPT ![p] = "locked"]
    /\ pc' = IF pc[p] = "lock" THEN [pc EXCEPT ![p] = "table"] ELSE pc
    /\ UNCHANGED <<file, outcome, versioned, schema, recorded, tx, hit>>

CreateTable(p) ==
    /\ pc[p] = "table"
    /\ versioned' = TRUE
    /\ Goto(p, "check")
    /\ UNCHANGED <<file, outcome, session, holder, schema, recorded, tx, hit>>

\* The head of the loop over the sorted files.
Check(p) ==
    /\ pc[p] = "check" /\ versioned
    /\ IF file[p] > Embedded[p]
         THEN /\ Goto(p, "unlock")
              /\ outcome' = [outcome EXCEPT ![p] = "nil"]
              /\ UNCHANGED file
         ELSE /\ IF file[p] \in recorded
                   THEN file' = [file EXCEPT ![p] = @ + 1] /\ UNCHANGED pc
                   ELSE Goto(p, "begin") /\ UNCHANGED file
              /\ UNCHANGED outcome
    /\ UNCHANGED <<session, holder, versioned, schema, recorded, tx, hit>>

Begin(p) ==
    /\ pc[p] = "begin"
    /\ tx' = [tx EXCEPT ![p] = [NoTx EXCEPT !.state = "open"]]
    /\ Goto(p, "script")
    /\ UNCHANGED <<file, outcome, session, holder, versioned, schema, recorded, hit>>

\* Mutant: the script runs on the connection and not in the transaction.
RunScriptOutside(p) ==
    /\ pc[p] = "script"
    /\ IF file[p] \in schema \ Rerunnable
         THEN Fail(p) /\ UNCHANGED schema
         ELSE schema' = schema \cup {file[p]} /\ Goto(p, "record") /\ UNCHANGED <<tx, outcome>>
    /\ UNCHANGED <<file, session, holder, versioned, recorded, hit>>

\* The script takes table locks: it waits for another transaction that has run
\* one.  ALTER TABLE ADD COLUMN fails when the column is there.
RunScript(p) ==
    /\ pc[p] = "script"
    /\ \A q \in Migrators \ {p} : tx[q].scripts = {}
    /\ IF file[p] \in schema \ Rerunnable
         THEN Fail(p)
         ELSE /\ tx' = [tx EXCEPT ![p].scripts = {file[p]}]
              /\ Goto(p, "record")
              /\ UNCHANGED outcome
    /\ UNCHANGED <<file, session, holder, versioned, schema, recorded, hit>>

\* Mutant: the version is recorded on the connection and not in the transaction.
RecordOutside(p) ==
    /\ pc[p] = "record"
    /\ recorded' = recorded \cup {file[p]}
    /\ Goto(p, "commit")
    /\ UNCHANGED <<file, outcome, tx, session, holder, versioned, schema, hit>>

\* INSERT INTO schema_migrations: a primary key, for which it would wait.
Record(p) ==
    /\ pc[p] = "record"
    /\ \A q \in Migrators \ {p} : file[p] \notin tx[q].rows
    /\ IF file[p] \in recorded
         THEN Fail(p)
         ELSE /\ tx' = [tx EXCEPT ![p].rows = {file[p]}]
              /\ Goto(p, "commit")
              /\ UNCHANGED outcome
    /\ UNCHANGED <<file, session, holder, versioned, schema, recorded, hit>>

Commit(p) ==
    /\ pc[p] = "commit"
    /\ tx' = [tx EXCEPT ![p].state = "committing"]
    /\ Goto(p, "committing")
    /\ UNCHANGED <<file, outcome, session, holder, versioned, schema, recorded, hit>>

CommitAcknowledged(p) ==
    /\ pc[p] = "committing" /\ tx[p].state = "committed"
    /\ tx' = [tx EXCEPT ![p] = NoTx]
    /\ file' = [file EXCEPT ![p] = @ + 1]
    /\ Goto(p, "check")
    /\ UNCHANGED <<outcome, session, holder, versioned, schema, recorded, hit>>

\* Mutant: the connection goes back to the pool with the lock.
UnlockForgotten(p) ==
    /\ pc[p] = "unlock"
    /\ Goto(p, "done")
    /\ session' = [session EXCEPT ![p] = "none"]
    /\ UNCHANGED <<file, outcome, holder, versioned, schema, recorded, tx, hit>>

\* The deferred functions: pg_advisory_unlock, then Release.
Unlock(p) ==
    /\ pc[p] = "unlock"
    /\ Goto(p, "done")
    /\ holder' = NoMigrator
    /\ session' = [session EXCEPT ![p] = "none"]
    /\ UNCHANGED <<file, outcome, versioned, schema, recorded, tx, hit>>

-----------------------------------------------------------------------------
(* The server                                                              *)

ServerCommits(p) ==
    /\ tx[p].state = "committing"
    /\ schema' = schema \cup tx[p].scripts
    /\ recorded' = recorded \cup tx[p].rows
    /\ tx' = [tx EXCEPT ![p] = [NoTx EXCEPT !.state = "committed"]]
    /\ UNCHANGED <<callVars, session, holder, versioned, hit>>

\* The session notices that its client has left: its transaction is aborted and
\* its advisory lock, held or waited for, is given up.
SessionEnds(p) ==
    /\ pc[p] = "done" /\ session[p] # "none"
    /\ tx' = [tx EXCEPT ![p] = NoTx]
    /\ session' = [session EXCEPT ![p] = "none"]
    /\ holder' = IF holder = p THEN NoMigrator ELSE holder
    /\ UNCHANGED <<callVars, versioned, schema, recorded, hit>>

-----------------------------------------------------------------------------
(* What may go wrong                                                       *)

InStatement(p) ==
    \/ pc[p] \in {"table", "begin", "script", "record"}
    \/ pc[p] = "check" /\ file[p] <= Embedded[p]
    \/ pc[p] = "committing" /\ tx[p].state = "committing"

\* PostgreSQL reports an error, and the transaction is rolled back.
StatementFails(p) ==
    /\ InStatement(p)
    /\ Fail(p)
    /\ hit' = hit \cup {p}
    /\ UNCHANGED <<file, session, holder, versioned, schema, recorded>>

\* No connection, or pg_advisory_lock reports an error: nothing is deferred yet.
LockFails(p) ==
    /\ pc[p] = "lock"
    /\ Return(p, "error")
    /\ session' = [session EXCEPT ![p] = "none"]
    /\ hit' = hit \cup {p}
    /\ UNCHANGED <<file, holder, versioned, schema, recorded, tx>>

\* The connection breaks, the context is cancelled, which closes it, or the
\* process ends.  The result of the unlock is ignored.
Leave(p) ==
    /\ pc[p] \notin {"idle", "done"}
    /\ Return(p, IF pc[p] = "unlock" THEN outcome[p] ELSE "error")
    /\ hit' = hit \cup {p}
    /\ UNCHANGED <<file, session, holder, versioned, schema, recorded, tx>>

-----------------------------------------------------------------------------

Proceed(p) ==
    \/ CreateTable(p) \/ Check(p) \/ Begin(p) \/ RunScript(p) \/ Record(p)
    \/ Commit(p) \/ CommitAcknowledged(p) \/ Unlock(p)

Server(p) == Grant(p) \/ ServerCommits(p) \/ SessionEnds(p)

Terminating ==
    /\ \A p \in Migrators : pc[p] = "done" /\ session[p] = "none"
    /\ UNCHANGED vars

Next ==
    \/ \E p \in Migrators : \/ Call(p) \/ Proceed(p) \/ Server(p)
                            \/ StatementFails(p) \/ LockFails(p) \/ Leave(p)
    \/ Terminating

Spec == Init /\ [][Next]_vars

\* Callers that can go on do; the server commits what it has received, ends the
\* sessions of clients that are gone, and gives a lock that stays free to a
\* session that waits for it.
FairSpec ==
    /\ Spec
    /\ \A p \in Migrators : WF_vars(Proceed(p)) /\ WF_vars(Server(p))

-----------------------------------------------------------------------------
(* Properties                                                              *)

TypeOK ==
    /\ pc \in [Migrators -> {"idle", "lock", "table", "check", "begin", "script",
                             "record", "commit", "committing", "unlock", "done"}]
    /\ file \in [Migrators -> 1 .. NFiles + 1]
    /\ outcome \in [Migrators -> {"none", "nil", "error"}]
    /\ session \in [Migrators -> {"none", "waiting", "locked"}]
    /\ holder \in Migrators \cup {NoMigrator}
    /\ versioned \in BOOLEAN
    /\ schema \subseteq Files /\ recorded \subseteq Files
    /\ tx \in [Migrators -> [state : {"none", "open", "committing", "committed"},
                             scripts : SUBSET Files, rows : SUBSET Files]]
    /\ hit \subseteq Migrators

\* schema_migrations names the files whose effect is in the database, no more
\* and no fewer, whatever was interrupted.
RecordedIsApplied == recorded = schema

\* Files are applied in the order of their names, without gaps, also by callers
\* that embed different numbers of them.
AppliedInOrder == \A f \in schema : 1 .. f \subseteq schema

\* A file is about to be run only by one caller, on a schema that does not have
\* it: what 002_wallet_ownership.sql, which cannot run twice, relies on.
ScriptRunsOnce ==
    \A p \in Migrators : pc[p] = "script" =>
        /\ file[p] \notin schema
        /\ \A q \in Migrators \ {p} : ~ Live(q)

\* A migration that is interrupted, at any point and in any number of callers,
\* never makes another one fail: a call fails only when something has gone
\* wrong for that call.
FailureIsOnesOwn == \A p \in Migrators : outcome[p] = "error" => p \in hit

\* A call that was started ends, though its predecessor has left a session that
\* holds the lock.
EveryCallEnds == \A p \in Migrators : pc[p] # "idle" ~> pc[p] = "done"

Schema == INSTANCE SchemaVersion
            WITH version <- Cardinality(schema),
                 outcome <- [p \in Migrators |->
                               IF pc[p] = "done" THEN outcome[p] ELSE "none"]

\* README.md:528: "Migration advisory lock and version table".  Any number of
\* callers behave as if the version of the schema were one number, raised in
\* single steps, which a successful call has seen reach its own.
ImplementsSchemaVersion == Schema!Spec
=============================================================================
