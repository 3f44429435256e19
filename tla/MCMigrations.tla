---------------------------- MODULE MCMigrations ----------------------------
(***************************************************************************)
(* A rolling deployment: one caller of an older version, two of a newer.   *)
(***************************************************************************)
EXTENDS Migrations

CONSTANTS old, new1, new2

MCEmbedded == [p \in Migrators |-> IF p = old THEN 2 ELSE 3]
=============================================================================
