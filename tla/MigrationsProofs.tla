-------------------------- MODULE MigrationsProofs --------------------------
(***************************************************************************)
(* Proofs about Migrations for any number of callers and of files, any     *)
(* mixture of versions, and any failures.                                  *)
(***************************************************************************)
EXTENDS Migrations, FiniteSetTheorems, TLAPS

InLoop == {"begin", "script", "record", "commit", "committing"}

\* A session that does anything but wait has the lock, and a caller that is past
\* the lock has such a session.
LockOf(p) ==
    /\ pc[p] \in InLoop \cup {"table", "check", "unlock"} => session[p] = "locked"
    /\ pc[p] = "idle" => session[p] = "none"
    /\ tx[p].state # "none" => session[p] = "locked"
    /\ session[p] = "locked" => holder = p

Tx(state, scripts, rows) == [state |-> state, scripts |-> scripts, rows |-> rows]

\* The transaction of a caller belongs to the statement the caller is at.
TxOf(p) ==
    /\ pc[p] \notin InLoop \ {"begin"} /\ pc[p] # "done" => tx[p] = NoTx
    /\ pc[p] = "script" => tx[p] = Tx("open", {}, {})
    /\ pc[p] = "record" => tx[p] = Tx("open", {file[p]}, {})
    /\ pc[p] = "commit" => tx[p] = Tx("open", {file[p]}, {file[p]})
    /\ pc[p] = "committing" =>
         tx[p] \in {Tx("committing", {file[p]}, {file[p]}), Tx("committed", {}, {})}
    /\ tx[p].state = "committing" => tx[p] = Tx("committing", {file[p]}, {file[p]})

\* What a caller may conclude, between its check and its commit, from having
\* read schema_migrations under the lock.
ProgressOf(p) ==
    /\ pc[p] \in {"idle", "lock", "table"} => file[p] = 1
    /\ pc[p] \in InLoop \cup {"check"} => 1 .. file[p] - 1 \subseteq schema
    /\ pc[p] \in InLoop => file[p] <= Embedded[p]
    /\ pc[p] \in InLoop \ {"committing"} => file[p] \notin schema
    /\ tx[p].state = "committing" =>
         file[p] \in Files \ schema /\ 1 .. file[p] - 1 \subseteq schema
    /\ pc[p] = "committing" /\ tx[p].state = "committed" => file[p] \in schema

OutcomeOf(p) ==
    /\ outcome[p] # "none" <=> pc[p] \in {"unlock", "done"}
    /\ outcome[p] = "nil" => 1 .. Embedded[p] \subseteq schema
    /\ outcome[p] = "error" => p \in hit

Gapless == \E version \in 0 .. NFiles : schema = 1 .. version

IInv ==
    /\ TypeOK
    /\ RecordedIsApplied
    /\ Gapless
    /\ \A p \in Migrators : LockOf(p)
    /\ \A p \in Migrators : TxOf(p)
    /\ \A p \in Migrators : ProgressOf(p)
    /\ \A p \in Migrators : OutcomeOf(p)

-----------------------------------------------------------------------------
LEMMA InitIInv == Init => IInv
<1> SUFFICES ASSUME Init PROVE IInv
  OBVIOUS
<1> USE MigrationsAssumption DEF Init, Files
<1>1. PICK version \in 0 .. NFiles : schema = 1 .. version
  OBVIOUS
<1>2. TypeOK
  BY <1>1 DEF TypeOK, NoTx
<1>3. RecordedIsApplied /\ Gapless
  BY DEF RecordedIsApplied, Gapless
<1>4. \A p \in Migrators : LockOf(p) /\ TxOf(p) /\ ProgressOf(p) /\ OutcomeOf(p)
  BY DEF LockOf, TxOf, ProgressOf, OutcomeOf, InLoop, NoTx
<1> QED
  BY <1>2, <1>3, <1>4 DEF IInv

-----------------------------------------------------------------------------
(* One step of one caller or of its session                                *)

\* The facts about p that the steps below start from.
LEMMA Unfold ==
    ASSUME IInv, NEW p \in Migrators
    PROVE  /\ LockOf(p) /\ TxOf(p) /\ ProgressOf(p) /\ OutcomeOf(p)
           /\ Embedded[p] \in Files /\ file[p] \in 1 .. NFiles + 1
           /\ NFiles \in Nat /\ p # NoMigrator
BY MigrationsAssumption DEF IInv, TypeOK

\* The lock is one session's.
LEMMA OneHolder ==
    ASSUME IInv, NEW p \in Migrators, NEW q \in Migrators, p # q,
           session[p] = "locked"
    PROVE  /\ session[q] # "locked" /\ tx[q].state = "none"
           /\ pc[q] \notin InLoop \cup {"table", "check", "unlock"}
BY DEF IInv, LockOf

LEMMA CallStep ==
    ASSUME IInv, NEW p \in Migrators, Call(p)
    PROVE  IInv'
<1> USE DEF Call, Goto, InLoop
<1>0. /\ LockOf(p) /\ TxOf(p) /\ ProgressOf(p) /\ OutcomeOf(p)
      /\ Embedded[p] \in Files /\ file[p] \in 1 .. NFiles + 1
      /\ NFiles \in Nat /\ p # NoMigrator
  BY Unfold
<1>1. TypeOK'
  BY <1>0, MigrationsAssumption DEF IInv, TypeOK, NoTx, Tx, TxOf, ProgressOf, Files
<1>2. RecordedIsApplied' /\ Gapless'
  BY DEF IInv, RecordedIsApplied, Gapless
<1> SUFFICES ASSUME NEW q \in Migrators
             PROVE  (LockOf(q) /\ TxOf(q) /\ ProgressOf(q) /\ OutcomeOf(q))'
  BY <1>1, <1>2 DEF IInv
<1>3. LockOf(q)'
  BY <1>0 DEF IInv, LockOf, TypeOK, NoTx
<1>4. TxOf(q)'
  BY <1>0 DEF IInv, TxOf, TypeOK, NoTx, Tx
<1>5. ProgressOf(q)'
  BY <1>0 DEF IInv, ProgressOf, TypeOK, NoTx
<1>6. OutcomeOf(q)'
  BY <1>0 DEF IInv, OutcomeOf, TypeOK
<1> QED
  BY <1>3, <1>4, <1>5, <1>6

LEMMA GrantStep ==
    ASSUME IInv, NEW p \in Migrators, Grant(p)
    PROVE  IInv'
<1> USE DEF Grant, InLoop
<1>0. /\ LockOf(p) /\ TxOf(p) /\ ProgressOf(p) /\ OutcomeOf(p)
      /\ Embedded[p] \in Files /\ file[p] \in 1 .. NFiles + 1
      /\ NFiles \in Nat /\ p # NoMigrator
  BY Unfold
<1>1. TypeOK'
  BY <1>0, MigrationsAssumption DEF IInv, TypeOK, NoTx, Tx, TxOf, ProgressOf, Files
<1>2. RecordedIsApplied' /\ Gapless'
  BY DEF IInv, RecordedIsApplied, Gapless
<1> SUFFICES ASSUME NEW q \in Migrators
             PROVE  (LockOf(q) /\ TxOf(q) /\ ProgressOf(q) /\ OutcomeOf(q))'
  BY <1>1, <1>2 DEF IInv
<1>3. LockOf(q)'
  BY <1>0, Unfold DEF IInv, LockOf, TypeOK
<1>4. TxOf(q)'
  BY <1>0 DEF IInv, TxOf, TypeOK, NoTx, Tx
<1>5. ProgressOf(q)'
  BY <1>0 DEF IInv, ProgressOf, TypeOK, NoTx
<1>6. OutcomeOf(q)'
  BY <1>0 DEF IInv, OutcomeOf, TypeOK
<1> QED
  BY <1>3, <1>4, <1>5, <1>6

LEMMA CreateTableStep ==
    ASSUME IInv, NEW p \in Migrators, CreateTable(p)
    PROVE  IInv'
<1> USE DEF CreateTable, Goto, InLoop
<1>0. /\ LockOf(p) /\ TxOf(p) /\ ProgressOf(p) /\ OutcomeOf(p)
      /\ Embedded[p] \in Files /\ file[p] \in 1 .. NFiles + 1
      /\ NFiles \in Nat /\ p # NoMigrator
  BY Unfold
<1>1. TypeOK'
  BY <1>0, MigrationsAssumption DEF IInv, TypeOK, NoTx, Tx, TxOf, ProgressOf, Files
<1>2. RecordedIsApplied' /\ Gapless'
  BY DEF IInv, RecordedIsApplied, Gapless
<1> SUFFICES ASSUME NEW q \in Migrators
             PROVE  (LockOf(q) /\ TxOf(q) /\ ProgressOf(q) /\ OutcomeOf(q))'
  BY <1>1, <1>2 DEF IInv
<1>3. LockOf(q)'
  BY <1>0 DEF IInv, LockOf, TypeOK, NoTx
<1>4. TxOf(q)'
  BY <1>0 DEF IInv, TxOf, TypeOK, NoTx, Tx
<1>5. ProgressOf(q)'
  BY <1>0 DEF IInv, ProgressOf, TypeOK, NoTx
<1>6. OutcomeOf(q)'
  BY <1>0 DEF IInv, OutcomeOf, TypeOK
<1> QED
  BY <1>3, <1>4, <1>5, <1>6

LEMMA CheckStep ==
    ASSUME IInv, NEW p \in Migrators, Check(p)
    PROVE  IInv'
<1> USE DEF Check, Goto, InLoop
<1>0. /\ LockOf(p) /\ TxOf(p) /\ ProgressOf(p) /\ OutcomeOf(p)
      /\ Embedded[p] \in Files /\ file[p] \in 1 .. NFiles + 1
      /\ NFiles \in Nat /\ p # NoMigrator
  BY Unfold
<1>1. TypeOK'
  <2>1. CASE file[p] > Embedded[p]
    BY <2>1 DEF IInv, TypeOK
  <2>2. CASE ~ (file[p] > Embedded[p])
    <3>1. file[p] + 1 \in 1 .. NFiles + 1
      BY <2>2, <1>0 DEF Files
    <3> QED
      BY <2>2, <3>1 DEF IInv, TypeOK
  <2> QED
    BY <2>1, <2>2
<1>2. RecordedIsApplied' /\ Gapless'
  BY DEF IInv, RecordedIsApplied, Gapless
<1> SUFFICES ASSUME NEW q \in Migrators
             PROVE  (LockOf(q) /\ TxOf(q) /\ ProgressOf(q) /\ OutcomeOf(q))'
  BY <1>1, <1>2 DEF IInv
<1>3. LockOf(q)'
  BY <1>0 DEF IInv, LockOf, TypeOK, NoTx
<1>4. TxOf(q)'
  BY <1>0 DEF IInv, TxOf, TypeOK, NoTx, Tx
<1>5. ProgressOf(q)'
  <2>1. CASE q # p
    BY <2>1 DEF IInv, ProgressOf, TypeOK
  <2>2. CASE q = p /\ file[p] > Embedded[p]
    BY <2>2, <1>0 DEF IInv, ProgressOf, TxOf, TypeOK, NoTx
  <2>3. CASE q = p /\ file[p] <= Embedded[p] /\ file[p] \in recorded
    <3>1. 1 .. file[p] \subseteq schema
      BY <2>3, <1>0 DEF IInv, ProgressOf, RecordedIsApplied
    <3>2. pc'[p] = "check" /\ file'[p] = file[p] + 1 /\ tx'[p] = NoTx /\ schema' = schema
      <4>1. tx[p] = NoTx
        BY <1>0 DEF TxOf
      <4> QED
        BY <1>0, <2>3, <4>1 DEF IInv, TypeOK, Files
    <3> QED
      BY <2>3, <3>1, <3>2, <1>0 DEF ProgressOf, NoTx
  <2>4. CASE q = p /\ file[p] <= Embedded[p] /\ file[p] \notin recorded
    BY <2>4, <1>0 DEF IInv, ProgressOf, TypeOK, TxOf, NoTx, RecordedIsApplied
  <2> QED
    BY <2>1, <2>2, <2>3, <2>4, <1>0 DEF Files
<1>6. OutcomeOf(q)'
  <2>1. CASE q # p
    BY <2>1 DEF IInv, OutcomeOf, TypeOK
  <2>2. CASE q = p /\ file[p] > Embedded[p]
    <3>1. 1 .. Embedded[p] \subseteq schema
      BY <2>2, <1>0 DEF ProgressOf, Files
    <3> QED
      BY <2>2, <3>1 DEF IInv, OutcomeOf, TypeOK
  <2>3. CASE q = p /\ ~ (file[p] > Embedded[p])
    BY <2>3 DEF IInv, OutcomeOf, TypeOK
  <2> QED
    BY <2>1, <2>2, <2>3
<1> QED
  BY <1>3, <1>4, <1>5, <1>6

LEMMA BeginStep ==
    ASSUME IInv, NEW p \in Migrators, Begin(p)
    PROVE  IInv'
<1> USE DEF Begin, Goto, InLoop
<1>0. /\ LockOf(p) /\ TxOf(p) /\ ProgressOf(p) /\ OutcomeOf(p)
      /\ Embedded[p] \in Files /\ file[p] \in 1 .. NFiles + 1
      /\ NFiles \in Nat /\ p # NoMigrator
  BY Unfold
<1>1. TypeOK'
  BY <1>0, MigrationsAssumption DEF IInv, TypeOK, NoTx, Tx, TxOf, ProgressOf, Files
<1>2. RecordedIsApplied' /\ Gapless'
  BY DEF IInv, RecordedIsApplied, Gapless
<1> SUFFICES ASSUME NEW q \in Migrators
             PROVE  (LockOf(q) /\ TxOf(q) /\ ProgressOf(q) /\ OutcomeOf(q))'
  BY <1>1, <1>2 DEF IInv
<1>3. LockOf(q)'
  BY <1>0 DEF IInv, LockOf, TypeOK, NoTx
<1>4. TxOf(q)'
  BY <1>0 DEF IInv, TxOf, TypeOK, NoTx, Tx
<1>5. ProgressOf(q)'
  BY <1>0 DEF IInv, ProgressOf, TypeOK, NoTx
<1>6. OutcomeOf(q)'
  BY <1>0 DEF IInv, OutcomeOf, TypeOK
<1> QED
  BY <1>3, <1>4, <1>5, <1>6

LEMMA RunScriptStep ==
    ASSUME IInv, NEW p \in Migrators, RunScript(p)
    PROVE  IInv'
<1> USE DEF RunScript, Goto, Fail, InLoop
<1>0. /\ LockOf(p) /\ TxOf(p) /\ ProgressOf(p) /\ OutcomeOf(p)
      /\ Embedded[p] \in Files /\ file[p] \in 1 .. NFiles + 1
      /\ NFiles \in Nat /\ p # NoMigrator
  BY Unfold
<1>1. TypeOK'
  <2>1. ~ (file[p] \in schema \ Rerunnable)
    BY <1>0 DEF IInv, ProgressOf, RecordedIsApplied
  <2>2. file[p] \in Files
    BY <1>0 DEF ProgressOf, Files
  <2>3. tx' \in [Migrators -> [state : {"none", "open", "committing", "committed"},
                             scripts : SUBSET Files, rows : SUBSET Files]]
    BY <2>1, <2>2 DEF IInv, TypeOK
  <2> QED
    BY <2>1, <2>3 DEF IInv, TypeOK
<1>2. RecordedIsApplied' /\ Gapless'
  BY DEF IInv, RecordedIsApplied, Gapless
<1> SUFFICES ASSUME NEW q \in Migrators
             PROVE  (LockOf(q) /\ TxOf(q) /\ ProgressOf(q) /\ OutcomeOf(q))'
  BY <1>1, <1>2 DEF IInv
<1>3. LockOf(q)'
  BY <1>0 DEF IInv, LockOf, TypeOK, NoTx
<1>4. TxOf(q)'
  <2>1. ~ (file[p] \in schema \ Rerunnable)
    BY <1>0 DEF IInv, ProgressOf, RecordedIsApplied
  <2>2. CASE q # p
    BY <2>1, <2>2 DEF IInv, TxOf, TypeOK
  <2>3. CASE q = p
    <3>1. tx[p] = Tx("open", {}, {})
      BY <1>0 DEF TxOf
    <3>2. tx'[p] = Tx("open", {file[p]}, {})
      <4>1. tx'[p] = [tx[p] EXCEPT !.scripts = {file[p]}]
        BY <2>1, MigrationsAssumption DEF IInv, TypeOK
      <4>2. [Tx("open", {}, {}) EXCEPT !.scripts = {file[p]}] = Tx("open", {file[p]}, {})
        BY DEF Tx
      <4> QED
        BY <3>1, <4>1, <4>2
    <3>3. pc'[p] = "record" /\ file' = file
      BY <2>1, MigrationsAssumption DEF IInv, TypeOK
    <3> QED
      BY <2>3, <3>2, <3>3 DEF TxOf, Tx
  <2> QED
    BY <2>2, <2>3
<1>5. ProgressOf(q)'
  BY <1>0 DEF IInv, ProgressOf, TypeOK, NoTx
<1>6. OutcomeOf(q)'
  <2>1. ~ (file[p] \in schema \ Rerunnable)
    BY <1>0 DEF IInv, ProgressOf, RecordedIsApplied
  <2> QED
    BY <2>1 DEF IInv, OutcomeOf, TypeOK
<1> QED
  BY <1>3, <1>4, <1>5, <1>6

LEMMA RecordStep ==
    ASSUME IInv, NEW p \in Migrators, Record(p)
    PROVE  IInv'
<1> USE DEF Record, Goto, Fail, InLoop
<1>0. /\ LockOf(p) /\ TxOf(p) /\ ProgressOf(p) /\ OutcomeOf(p)
      /\ Embedded[p] \in Files /\ file[p] \in 1 .. NFiles + 1
      /\ NFiles \in Nat /\ p # NoMigrator
  BY Unfold
<1>1. TypeOK'
  <2>1. ~ (file[p] \in recorded)
    BY <1>0 DEF IInv, ProgressOf, RecordedIsApplied
  <2>2. file[p] \in Files
    BY <1>0 DEF ProgressOf, Files
  <2>3. tx'[p] = [state |-> "open", scripts |-> {file[p]}, rows |-> {file[p]}]
    BY <1>0, <2>1 DEF IInv, TypeOK, TxOf, Tx
  <2>4. tx' \in [Migrators -> [state : {"none", "open", "committing", "committed"},
                             scripts : SUBSET Files, rows : SUBSET Files]]
    BY <2>1, <2>2, <2>3 DEF IInv, TypeOK
  <2> QED
    BY <2>1, <2>4 DEF IInv, TypeOK
<1>2. RecordedIsApplied' /\ Gapless'
  BY DEF IInv, RecordedIsApplied, Gapless
<1> SUFFICES ASSUME NEW q \in Migrators
             PROVE  (LockOf(q) /\ TxOf(q) /\ ProgressOf(q) /\ OutcomeOf(q))'
  BY <1>1, <1>2 DEF IInv
<1>3. LockOf(q)'
  BY <1>0 DEF IInv, LockOf, TypeOK, NoTx
<1>4. TxOf(q)'
  <2>1. ~ (file[p] \in recorded)
    BY <1>0 DEF IInv, ProgressOf, RecordedIsApplied
  <2>2. CASE q # p
    BY <2>1, <2>2 DEF IInv, TxOf, TypeOK
  <2>3. CASE q = p
    <3>1. tx[p] = Tx("open", {file[p]}, {})
      BY <1>0 DEF TxOf
    <3>2. tx'[p] = Tx("open", {file[p]}, {file[p]})
      <4>1. tx'[p] = [tx[p] EXCEPT !.rows = {file[p]}]
        BY <2>1, MigrationsAssumption DEF IInv, TypeOK
      <4>2. /\ tx'[p].state = "open" /\ tx'[p].scripts = {file[p]}
            /\ tx'[p].rows = {file[p]}
            /\ tx'[p] \in [state : {"open"}, scripts : SUBSET {file[p]}, rows : SUBSET {file[p]}]
        BY <3>1, <4>1 DEF Tx
      <4> QED
        BY <4>2 DEF Tx
    <3>3. pc'[p] = "commit" /\ file' = file
      BY <2>1, MigrationsAssumption DEF IInv, TypeOK
    <3> QED
      BY <2>3, <3>2, <3>3 DEF TxOf, Tx
  <2> QED
    BY <2>2, <2>3
<1>5. ProgressOf(q)'
  BY <1>0 DEF IInv, ProgressOf, TypeOK, NoTx
<1>6. OutcomeOf(q)'
  <2>1. ~ (file[p] \in recorded)
    BY <1>0 DEF IInv, ProgressOf, RecordedIsApplied
  <2> QED
    BY <2>1 DEF IInv, OutcomeOf, TypeOK
<1> QED
  BY <1>3, <1>4, <1>5, <1>6

LEMMA CommitStep ==
    ASSUME IInv, NEW p \in Migrators, Commit(p)
    PROVE  IInv'
<1> USE DEF Commit, Goto, InLoop
<1>0. /\ LockOf(p) /\ TxOf(p) /\ ProgressOf(p) /\ OutcomeOf(p)
      /\ Embedded[p] \in Files /\ file[p] \in 1 .. NFiles + 1
      /\ NFiles \in Nat /\ p # NoMigrator
  BY Unfold
<1>1. TypeOK'
  <2>1. tx' \in [Migrators -> [state : {"none", "open", "committing", "committed"},
                             scripts : SUBSET Files, rows : SUBSET Files]]
    BY DEF IInv, TypeOK
  <2> QED
    BY <2>1 DEF IInv, TypeOK
<1>2. RecordedIsApplied' /\ Gapless'
  BY DEF IInv, RecordedIsApplied, Gapless
<1> SUFFICES ASSUME NEW q \in Migrators
             PROVE  (LockOf(q) /\ TxOf(q) /\ ProgressOf(q) /\ OutcomeOf(q))'
  BY <1>1, <1>2 DEF IInv
<1>3. LockOf(q)'
  BY <1>0 DEF IInv, LockOf, TypeOK, NoTx
<1>4. TxOf(q)'
  <2>2. CASE q # p
    BY <2>2 DEF IInv, TxOf, TypeOK
  <2>3. CASE q = p
    <3>1. tx[p] = Tx("open", {file[p]}, {file[p]})
      BY <1>0 DEF TxOf
    <3>2. tx'[p] = Tx("committing", {file[p]}, {file[p]})
      <4>1. tx'[p] = [tx[p] EXCEPT !.state = "committing"]
        BY MigrationsAssumption DEF IInv, TypeOK
      <4>2. [Tx("open", {file[p]}, {file[p]}) EXCEPT !.state = "committing"]
              = Tx("committing", {file[p]}, {file[p]})
        BY DEF Tx
      <4> QED
        BY <3>1, <4>1, <4>2
    <3>3. pc'[p] = "committing" /\ file' = file
      BY MigrationsAssumption DEF IInv, TypeOK
    <3> QED
      BY <2>3, <3>2, <3>3 DEF TxOf, Tx
  <2> QED
    BY <2>2, <2>3
<1>5. ProgressOf(q)'
  <2>1. CASE q # p
    BY <2>1 DEF IInv, ProgressOf, TypeOK
  <2>2. CASE q = p
    BY <2>2, <1>0 DEF ProgressOf, IInv, TypeOK, Files
  <2> QED
    BY <2>1, <2>2
<1>6. OutcomeOf(q)'
  BY <1>0 DEF IInv, OutcomeOf, TypeOK
<1> QED
  BY <1>3, <1>4, <1>5, <1>6

LEMMA CommitAcknowledgedStep ==
    ASSUME IInv, NEW p \in Migrators, CommitAcknowledged(p)
    PROVE  IInv'
<1> USE DEF CommitAcknowledged, Goto, InLoop
<1>0. /\ LockOf(p) /\ TxOf(p) /\ ProgressOf(p) /\ OutcomeOf(p)
      /\ Embedded[p] \in Files /\ file[p] \in 1 .. NFiles + 1
      /\ NFiles \in Nat /\ p # NoMigrator
  BY Unfold
<1>1. TypeOK'
  BY <1>0, MigrationsAssumption DEF IInv, TypeOK, NoTx, Tx, TxOf, ProgressOf, Files
<1>2. RecordedIsApplied' /\ Gapless'
  BY DEF IInv, RecordedIsApplied, Gapless
<1> SUFFICES ASSUME NEW q \in Migrators
             PROVE  (LockOf(q) /\ TxOf(q) /\ ProgressOf(q) /\ OutcomeOf(q))'
  BY <1>1, <1>2 DEF IInv
<1>3. LockOf(q)'
  BY <1>0 DEF IInv, LockOf, TypeOK, NoTx
<1>4. TxOf(q)'
  BY <1>0 DEF IInv, TxOf, TypeOK, NoTx, Tx
<1>5. ProgressOf(q)'
  BY <1>0 DEF IInv, ProgressOf, TypeOK, NoTx
<1>6. OutcomeOf(q)'
  BY <1>0 DEF IInv, OutcomeOf, TypeOK
<1> QED
  BY <1>3, <1>4, <1>5, <1>6

LEMMA UnlockStep ==
    ASSUME IInv, NEW p \in Migrators, Unlock(p)
    PROVE  IInv'
<1> USE DEF Unlock, Goto, InLoop
<1>0. /\ LockOf(p) /\ TxOf(p) /\ ProgressOf(p) /\ OutcomeOf(p)
      /\ Embedded[p] \in Files /\ file[p] \in 1 .. NFiles + 1
      /\ NFiles \in Nat /\ p # NoMigrator
  BY Unfold
<1>1. TypeOK'
  BY <1>0, MigrationsAssumption DEF IInv, TypeOK, NoTx, Tx, TxOf, ProgressOf, Files
<1>2. RecordedIsApplied' /\ Gapless'
  BY DEF IInv, RecordedIsApplied, Gapless
<1> SUFFICES ASSUME NEW q \in Migrators
             PROVE  (LockOf(q) /\ TxOf(q) /\ ProgressOf(q) /\ OutcomeOf(q))'
  BY <1>1, <1>2 DEF IInv
<1>3. LockOf(q)'
  <2>1. CASE q # p
    BY <2>1, <1>0, OneHolder DEF IInv, LockOf, TypeOK
  <2>2. CASE q = p
    BY <2>2, <1>0 DEF LockOf, TxOf, NoTx, IInv, TypeOK
  <2> QED
    BY <2>1, <2>2
<1>4. TxOf(q)'
  BY <1>0 DEF IInv, TxOf, TypeOK, NoTx, Tx
<1>5. ProgressOf(q)'
  BY <1>0 DEF IInv, ProgressOf, TypeOK, NoTx
<1>6. OutcomeOf(q)'
  BY <1>0 DEF IInv, OutcomeOf, TypeOK
<1> QED
  BY <1>3, <1>4, <1>5, <1>6

LEMMA ServerCommitsStep ==
    ASSUME IInv, NEW p \in Migrators, ServerCommits(p)
    PROVE  IInv'
<1> USE DEF ServerCommits, callVars, InLoop
<1>0. /\ LockOf(p) /\ TxOf(p) /\ ProgressOf(p) /\ OutcomeOf(p)
      /\ Embedded[p] \in Files /\ file[p] \in 1 .. NFiles + 1
      /\ NFiles \in Nat /\ p # NoMigrator
  BY Unfold
<1>1. TypeOK'
  BY <1>0, MigrationsAssumption DEF IInv, TypeOK, NoTx, Tx, TxOf, ProgressOf, Files
<1>2. RecordedIsApplied' /\ Gapless'
  <2>1. schema' = schema \cup {file[p]} /\ recorded' = recorded \cup {file[p]}
    BY <1>0 DEF TxOf, Tx
  <2>2. RecordedIsApplied'
    BY <2>1 DEF IInv, RecordedIsApplied
  <2>3. PICK k \in 0 .. NFiles : schema = 1 .. k
    BY DEF IInv, Gapless
  <2>4. file[p] = k + 1 /\ k + 1 <= NFiles
    <3>1. file[p] \in 1 .. NFiles /\ file[p] \notin 1 .. k /\ 1 .. file[p] - 1 \subseteq 1 .. k
      BY <1>0, <2>3 DEF ProgressOf, Files
    <3>2. file[p] > 1 => file[p] - 1 \in 1 .. file[p] - 1
      BY <3>1
    <3> QED
      BY <3>1, <3>2
  <2>5. schema' = 1 .. k + 1
    BY <1>0, <2>1, <2>3, <2>4
  <2> QED
    BY <1>0, <2>2, <2>4, <2>5 DEF Gapless
<1> SUFFICES ASSUME NEW q \in Migrators
             PROVE  (LockOf(q) /\ TxOf(q) /\ ProgressOf(q) /\ OutcomeOf(q))'
  BY <1>1, <1>2 DEF IInv
<1>3. LockOf(q)'
  BY <1>0 DEF IInv, LockOf, TypeOK, NoTx
<1>4. TxOf(q)'
  <2>1. CASE q # p
    BY <2>1 DEF IInv, TxOf, TypeOK
  <2>2. CASE q = p
    <3>1. tx'[p] = Tx("committed", {}, {})
      BY DEF IInv, TypeOK, Tx, NoTx
    <3>2. pc[p] \in {"committing", "done"}
      BY <1>0 DEF TxOf, Tx, NoTx, IInv, TypeOK
    <3> QED
      BY <2>2, <3>1, <3>2 DEF TxOf, Tx
  <2> QED
    BY <2>1, <2>2
<1>5. ProgressOf(q)'
  <2>1. schema' = schema \cup {file[p]}
    BY <1>0 DEF TxOf, Tx
  <2>2. CASE q # p
    <3>1. pc[q] \notin InLoop \cup {"table", "check", "unlock"} /\ tx[q].state = "none"
      BY <2>2, <1>0, OneHolder DEF LockOf
    <3> QED
      BY <2>2, <3>1, <1>0 DEF IInv, ProgressOf, TypeOK
  <2>3. CASE q = p
    <3>1. pc[p] \in {"committing", "done"}
      BY <1>0 DEF TxOf, Tx, NoTx, IInv, TypeOK
    <3>2. tx'[p].state = "committed"
      BY DEF IInv, TypeOK, NoTx
    <3> QED
      BY <2>1, <2>3, <3>1, <3>2, <1>0 DEF ProgressOf, Files
  <2> QED
    BY <2>2, <2>3
<1>6. OutcomeOf(q)'
  BY <1>0 DEF IInv, OutcomeOf, TypeOK
<1> QED
  BY <1>3, <1>4, <1>5, <1>6

LEMMA SessionEndsStep ==
    ASSUME IInv, NEW p \in Migrators, SessionEnds(p)
    PROVE  IInv'
<1> USE DEF SessionEnds, callVars, InLoop
<1>0. /\ LockOf(p) /\ TxOf(p) /\ ProgressOf(p) /\ OutcomeOf(p)
      /\ Embedded[p] \in Files /\ file[p] \in 1 .. NFiles + 1
      /\ NFiles \in Nat /\ p # NoMigrator
  BY Unfold
<1>1. TypeOK'
  BY <1>0, MigrationsAssumption DEF IInv, TypeOK, NoTx, Tx, TxOf, ProgressOf, Files
<1>2. RecordedIsApplied' /\ Gapless'
  BY DEF IInv, RecordedIsApplied, Gapless
<1> SUFFICES ASSUME NEW q \in Migrators
             PROVE  (LockOf(q) /\ TxOf(q) /\ ProgressOf(q) /\ OutcomeOf(q))'
  BY <1>1, <1>2 DEF IInv
<1>3. LockOf(q)'
  BY <1>0 DEF IInv, LockOf, TypeOK, NoTx
<1>4. TxOf(q)'
  BY <1>0 DEF IInv, TxOf, TypeOK, NoTx, Tx
<1>5. ProgressOf(q)'
  BY <1>0 DEF IInv, ProgressOf, TypeOK, NoTx
<1>6. OutcomeOf(q)'
  BY <1>0 DEF IInv, OutcomeOf, TypeOK
<1> QED
  BY <1>3, <1>4, <1>5, <1>6

LEMMA StatementFailsStep ==
    ASSUME IInv, NEW p \in Migrators, StatementFails(p)
    PROVE  IInv'
<1> USE DEF StatementFails, InStatement, Fail, Goto, InLoop
<1>0. /\ LockOf(p) /\ TxOf(p) /\ ProgressOf(p) /\ OutcomeOf(p)
      /\ Embedded[p] \in Files /\ file[p] \in 1 .. NFiles + 1
      /\ NFiles \in Nat /\ p # NoMigrator
  BY Unfold
<1>1. TypeOK'
  BY <1>0, MigrationsAssumption DEF IInv, TypeOK, NoTx, Tx, TxOf, ProgressOf, Files
<1>2. RecordedIsApplied' /\ Gapless'
  BY DEF IInv, RecordedIsApplied, Gapless
<1> SUFFICES ASSUME NEW q \in Migrators
             PROVE  (LockOf(q) /\ TxOf(q) /\ ProgressOf(q) /\ OutcomeOf(q))'
  BY <1>1, <1>2 DEF IInv
<1>3. LockOf(q)'
  BY <1>0 DEF IInv, LockOf, TypeOK, NoTx
<1>4. TxOf(q)'
  BY <1>0 DEF IInv, TxOf, TypeOK, NoTx, Tx
<1>5. ProgressOf(q)'
  BY <1>0 DEF IInv, ProgressOf, TypeOK, NoTx
<1>6. OutcomeOf(q)'
  BY <1>0 DEF IInv, OutcomeOf, TypeOK
<1> QED
  BY <1>3, <1>4, <1>5, <1>6

LEMMA LockFailsStep ==
    ASSUME IInv, NEW p \in Migrators, LockFails(p)
    PROVE  IInv'
<1> USE DEF LockFails, Return, Goto, InLoop
<1>0. /\ LockOf(p) /\ TxOf(p) /\ ProgressOf(p) /\ OutcomeOf(p)
      /\ Embedded[p] \in Files /\ file[p] \in 1 .. NFiles + 1
      /\ NFiles \in Nat /\ p # NoMigrator
  BY Unfold
<1>1. TypeOK'
  BY <1>0, MigrationsAssumption DEF IInv, TypeOK, NoTx, Tx, TxOf, ProgressOf, Files
<1>2. RecordedIsApplied' /\ Gapless'
  BY DEF IInv, RecordedIsApplied, Gapless
<1> SUFFICES ASSUME NEW q \in Migrators
             PROVE  (LockOf(q) /\ TxOf(q) /\ ProgressOf(q) /\ OutcomeOf(q))'
  BY <1>1, <1>2 DEF IInv
<1>3. LockOf(q)'
  <2>1. CASE q # p
    BY <2>1 DEF IInv, LockOf, TypeOK
  <2>2. CASE q = p
    BY <2>2, <1>0 DEF LockOf, TxOf, NoTx, IInv, TypeOK
  <2> QED
    BY <2>1, <2>2
<1>4. TxOf(q)'
  BY <1>0 DEF IInv, TxOf, TypeOK, NoTx, Tx
<1>5. ProgressOf(q)'
  BY <1>0 DEF IInv, ProgressOf, TypeOK, NoTx
<1>6. OutcomeOf(q)'
  BY <1>0 DEF IInv, OutcomeOf, TypeOK
<1> QED
  BY <1>3, <1>4, <1>5, <1>6

LEMMA LeaveStep ==
    ASSUME IInv, NEW p \in Migrators, Leave(p)
    PROVE  IInv'
<1> USE DEF Leave, Return, Goto, InLoop
<1>0. /\ LockOf(p) /\ TxOf(p) /\ ProgressOf(p) /\ OutcomeOf(p)
      /\ Embedded[p] \in Files /\ file[p] \in 1 .. NFiles + 1
      /\ NFiles \in Nat /\ p # NoMigrator
  BY Unfold
<1>1. TypeOK'
  BY <1>0, MigrationsAssumption DEF IInv, TypeOK, NoTx, Tx, TxOf, ProgressOf, Files
<1>2. RecordedIsApplied' /\ Gapless'
  BY DEF IInv, RecordedIsApplied, Gapless
<1> SUFFICES ASSUME NEW q \in Migrators
             PROVE  (LockOf(q) /\ TxOf(q) /\ ProgressOf(q) /\ OutcomeOf(q))'
  BY <1>1, <1>2 DEF IInv
<1>3. LockOf(q)'
  BY <1>0 DEF IInv, LockOf, TypeOK, NoTx
<1>4. TxOf(q)'
  BY <1>0 DEF IInv, TxOf, TypeOK, NoTx, Tx
<1>5. ProgressOf(q)'
  BY <1>0 DEF IInv, ProgressOf, TypeOK, NoTx
<1>6. OutcomeOf(q)'
  BY <1>0 DEF IInv, OutcomeOf, TypeOK
<1> QED
  BY <1>3, <1>4, <1>5, <1>6

-----------------------------------------------------------------------------
(* The theorems                                                            *)

LEMMA StutterIInv == ASSUME IInv, UNCHANGED vars PROVE IInv'
<1> USE DEF vars, callVars
<1>1. (TypeOK /\ RecordedIsApplied /\ Gapless)'
  BY DEF IInv, TypeOK, RecordedIsApplied, Gapless
<1>2. ASSUME NEW q \in Migrators
      PROVE  (LockOf(q) /\ TxOf(q) /\ ProgressOf(q) /\ OutcomeOf(q))'
  BY DEF IInv, LockOf, TxOf, ProgressOf, OutcomeOf
<1> QED
  BY <1>1, <1>2 DEF IInv

LEMMA StepIInv == IInv /\ [Next]_vars => IInv'
<1> SUFFICES ASSUME IInv, [Next]_vars PROVE IInv'
  OBVIOUS
<1>1. ASSUME NEW p \in Migrators, Call(p) \/ LockFails(p) \/ Leave(p) PROVE IInv'
  BY <1>1, CallStep, LockFailsStep, LeaveStep
<1>2. ASSUME NEW p \in Migrators, Proceed(p) PROVE IInv'
  BY <1>2, CreateTableStep, CheckStep, BeginStep, RunScriptStep, RecordStep,
     CommitStep, CommitAcknowledgedStep, UnlockStep DEF Proceed
<1>3. ASSUME NEW p \in Migrators, Server(p) \/ StatementFails(p) PROVE IInv'
  BY <1>3, GrantStep, ServerCommitsStep, SessionEndsStep, StatementFailsStep DEF Server
<1> QED
  BY <1>1, <1>2, <1>3, StutterIInv DEF Next, Terminating

LEMMA Inductive == Spec => []IInv
BY InitIInv, StepIInv, PTL DEF Spec

\* The variables have their types, at every point of Migrate in every caller.
THEOREM TypeCorrect == Spec => []TypeOK
<1>1. IInv => TypeOK
  BY DEF IInv
<1> QED
  BY <1>1, Inductive, PTL

\* schema_migrations and the schema never disagree, and files are applied
\* in order: the transaction of migrations.go:60 does what it is there for.
THEOREM VersionsAreTrue == Spec => [](RecordedIsApplied /\ AppliedInOrder)
<1>1. IInv => RecordedIsApplied /\ AppliedInOrder
  BY DEF IInv, Gapless, AppliedInOrder
<1> QED
  BY <1>1, Inductive, PTL

\* The advisory lock keeps every file from being run on a schema that has it.
THEOREM NoScriptTwice == Spec => []ScriptRunsOnce
<1>1. IInv => ScriptRunsOnce
  <2> SUFFICES ASSUME IInv, NEW p \in Migrators, pc[p] = "script"
               PROVE  /\ file[p] \notin schema
                      /\ \A q \in Migrators \ {p} : ~ Live(q)
    BY DEF ScriptRunsOnce
  <2>1. file[p] \notin schema
    BY Unfold DEF ProgressOf, InLoop
  <2>2. session[p] = "locked"
    BY Unfold DEF LockOf, InLoop
  <2> QED
    BY <2>1, <2>2, OneHolder DEF Live
<1> QED
  BY <1>1, Inductive, PTL

\* No caller fails because of what has happened to another one.
THEOREM FailuresStayApart == Spec => []FailureIsOnesOwn
<1>1. IInv => FailureIsOnesOwn
  BY DEF IInv, OutcomeOf, FailureIsOnesOwn
<1> QED
  BY <1>1, Inductive, PTL

-----------------------------------------------------------------------------
(* Migrations implements SchemaVersion                                     *)

schemaVersion == Cardinality(schema)
returned == [p \in Migrators |-> IF pc[p] = "done" THEN outcome[p] ELSE "none"]

\* A schema without gaps is its version.
LEMMA VersionOfInterval == \A k \in 0 .. NFiles : Cardinality(1 .. k) = k
BY FS_Interval, MigrationsAssumption

LEMMA SchemaIsVersion ==
    ASSUME IInv
    PROVE  schemaVersion \in 0 .. NFiles /\ schema = 1 .. schemaVersion
BY VersionOfInterval DEF IInv, Gapless, schemaVersion

\* p goes on without an effect on the schema.
LEMMA StepInside ==
    ASSUME IInv, NEW p \in Migrators, UNCHANGED schema,
           \E l : pc' = [pc EXCEPT ![p] = l] /\ l # "done",
           \E x : outcome' = [outcome EXCEPT ![p] = x], pc[p] # "done"
    PROVE  UNCHANGED <<schemaVersion, returned>>
<1>1. \A q \in Migrators : returned[q]' = returned[q]
  BY DEF returned, IInv, TypeOK
<1> QED
  BY <1>1 DEF schemaVersion, returned

\* p returns.
LEMMA StepReturns ==
    ASSUME IInv, IInv', NEW p \in Migrators, UNCHANGED schema, pc[p] # "done",
           NEW x, Return(p, x)
    PROVE  Schema!Return(p)
<1>1. pc' = [pc EXCEPT ![p] = "done"] /\ outcome' = [outcome EXCEPT ![p] = x]
  BY DEF Return, Goto
<1>2. returned[p] = "none" /\ returned' = [returned EXCEPT ![p] = x]
  BY <1>1 DEF returned, IInv, TypeOK
<1>3. x = "error" \/ (x = "nil" /\ 1 .. Embedded[p] \subseteq schema)
  <2>1. outcome'[p] = x /\ pc'[p] = "done"
    BY <1>1 DEF IInv, TypeOK
  <2>2. OutcomeOf(p)' /\ outcome'[p] \in {"none", "nil", "error"}
    BY DEF IInv, TypeOK
  <2>3. x # "none" /\ (x = "nil" => 1 .. Embedded[p] \subseteq schema')
    BY <2>1, <2>2 DEF OutcomeOf
  <2> QED
    BY <2>1, <2>2, <2>3
<1>4. x = "nil" => schemaVersion >= Embedded[p]
  <2> SUFFICES ASSUME x = "nil" PROVE schemaVersion >= Embedded[p]
    OBVIOUS
  <2>1. Embedded[p] \in 1 .. NFiles
    BY MigrationsAssumption DEF Files
  <2>2. Embedded[p] \in 1 .. schemaVersion /\ schemaVersion \in 0 .. NFiles
    BY <1>3, <2>1, SchemaIsVersion
  <2> QED
    BY <2>2
<1>5. UNCHANGED schemaVersion
  BY DEF schemaVersion
<1> QED
  BY <1>2, <1>3, <1>4, <1>5 DEF Schema!Return, schemaVersion, returned

LEMMA StepUpgrades ==
    ASSUME IInv, IInv', NEW p \in Migrators, ServerCommits(p)
    PROVE  Schema!Upgrade
<1>1. schema' = schema \cup {file[p]} /\ file[p] \in Files \ schema
  <2>1. TxOf(p) /\ ProgressOf(p) /\ tx[p].state = "committing"
    BY DEF IInv, ServerCommits
  <2>2. tx[p].scripts = {file[p]} /\ file[p] \in Files \ schema
    BY <2>1 DEF TxOf, Tx, ProgressOf
  <2> QED
    BY <2>2 DEF ServerCommits
<1>2. /\ schemaVersion \in 0 .. NFiles /\ schema = 1 .. schemaVersion
      /\ schemaVersion' \in 0 .. NFiles /\ schema' = 1 .. schemaVersion'
  <2>1. schemaVersion' \in 0 .. NFiles /\ schema' = 1 .. schemaVersion'
    BY VersionOfInterval DEF IInv, Gapless, schemaVersion
  <2> QED
    BY <2>1, SchemaIsVersion
<1>3. schemaVersion' = schemaVersion + 1
  <2> DEFINE v == schemaVersion  w == schemaVersion'  f == file[p]
  <2> HIDE DEF v, w, f
  <2>1. v \in Nat /\ w \in Nat /\ f \in Nat /\ 1 .. w = (1 .. v) \cup {f} /\ f \notin 1 .. v
        /\ f > 0
    BY <1>1, <1>2, MigrationsAssumption DEF v, w, f, Files
  <2>2. f > v /\ f \in 1 .. w
    BY <2>1
  <2>3. v + 1 \in 1 .. w
    BY <2>1, <2>2
  <2>4. f = v + 1
    <3>1. v + 1 \in (1 .. v) \cup {f}
      BY <2>1, <2>3
    <3>2. v + 1 \notin 1 .. v
      BY <2>1
    <3> QED
      BY <3>1, <3>2
  <2>5. w \in 1 .. w /\ w <= v + 1
    BY <2>1, <2>2, <2>4
  <2>6. w = v + 1
    BY <2>1, <2>2, <2>4, <2>5
  <2> QED
    BY <2>6 DEF v, w
<1>4. UNCHANGED returned
  BY DEF ServerCommits, callVars, returned
<1> QED
  BY <1>2, <1>3, <1>4, MigrationsAssumption DEF Schema!Upgrade, schemaVersion, returned

\* A step applies the next file, returns from one call, or changes nothing that
\* the abstract specification sees.
LEMMA StepImplements ==
    ASSUME IInv, IInv', [Next]_vars
    PROVE  [Schema!Next]_<<schemaVersion, returned>>
<1>1. ASSUME NEW p \in Migrators, Unlock(p) \/ LockFails(p) \/ Leave(p)
      PROVE  Schema!Return(p)
  <2>1. ASSUME Unlock(p) PROVE Return(p, outcome[p])
    BY <2>1 DEF Unlock, Return, IInv, TypeOK
  <2>2. ASSUME LockFails(p) \/ Leave(p) PROVE \E x : Return(p, x)
    BY <2>2 DEF LockFails, Leave
  <2>3. UNCHANGED schema /\ pc[p] # "done"
    BY <1>1 DEF Unlock, LockFails, Leave
  <2> QED
    BY <1>1, <2>1, <2>2, <2>3, StepReturns
<1>2. ASSUME NEW p \in Migrators, ServerCommits(p) PROVE Schema!Upgrade
  BY <1>2, StepUpgrades
<1>3. ASSUME NEW p \in Migrators,
             \/ Call(p) \/ CreateTable(p) \/ Check(p) \/ Begin(p) \/ RunScript(p)
             \/ Record(p) \/ Commit(p) \/ CommitAcknowledged(p) \/ StatementFails(p)
      PROVE  UNCHANGED <<schemaVersion, returned>>
  <2>1. UNCHANGED schema /\ pc[p] # "done"
    BY <1>3 DEF Call, CreateTable, Check, Begin, RunScript, Record, Commit,
                CommitAcknowledged, StatementFails, InStatement
  <2>2. \E l : pc' = [pc EXCEPT ![p] = l] /\ l # "done"
    BY <1>3 DEF Call, CreateTable, Check, Begin, RunScript, Record, Commit,
                CommitAcknowledged, StatementFails, Goto, Fail, IInv, TypeOK
  <2>3. \E x : outcome' = [outcome EXCEPT ![p] = x]
    BY <1>3 DEF Call, CreateTable, Check, Begin, RunScript, Record, Commit,
                CommitAcknowledged, StatementFails, Fail, IInv, TypeOK
  <2> QED
    BY <2>1, <2>2, <2>3, StepInside
<1>4. ASSUME NEW p \in Migrators, Grant(p) \/ SessionEnds(p)
      PROVE  UNCHANGED <<schemaVersion, returned>>
  BY <1>4 DEF Grant, SessionEnds, callVars, schemaVersion, returned, IInv, TypeOK
<1>5. ASSUME UNCHANGED vars PROVE UNCHANGED <<schemaVersion, returned>>
  BY <1>5 DEF vars, callVars, schemaVersion, returned
<1> QED
  BY <1>1, <1>2, <1>3, <1>4, <1>5
  DEF Next, Proceed, Server, Terminating, Schema!Next

\* However many callers there are and whatever becomes of them, the schema
\* behaves as one version number.
THEOREM ImplementsVersion == Spec => ImplementsSchemaVersion
<1>1. Init => Schema!Init
  <2> SUFFICES ASSUME Init PROVE Schema!Init
    OBVIOUS
  <2>1. Cardinality(schema) \in 0 .. NFiles
    BY InitIInv, SchemaIsVersion DEF schemaVersion
  <2> QED
    BY <2>1 DEF Init, Schema!Init
<1>2. IInv /\ IInv' /\ [Next]_vars => [Schema!Next]_<<schemaVersion, returned>>
  BY StepImplements
<1>3. [Schema!Next]_<<schemaVersion, returned>>
      <=> [Schema!Next]_<<Cardinality(schema),
            [p \in Migrators |-> IF pc[p] = "done" THEN outcome[p] ELSE "none"]>>
  BY DEF schemaVersion, returned
<1> QED
  BY <1>1, <1>2, <1>3, Inductive, PTL DEF Spec, Schema!Spec, ImplementsSchemaVersion
=============================================================================
