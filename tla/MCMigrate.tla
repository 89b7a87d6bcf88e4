----------------------------- MODULE MCMigrate -----------------------------
(***************************************************************************)
(* The three files of migrations/: tables and indexes, more indexes, and a *)
(* column (ALTER TABLE) with an index and an UPDATE that needs it.         *)
(***************************************************************************)
EXTENDS Migrate, TLC

CONSTANTS server, setpassword

MCStatementsOf ==
  "001_init" :> <<"tables", "indexes">>
  @@ "002_perf" :> <<"perf indexes">>
  @@ "003_sentence_extract" :> <<"add column", "column index", "backfill">>

AllFiles == <<"001_init", "002_perf", "003_sentence_extract">>
=============================================================================
