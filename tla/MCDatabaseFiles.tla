-------------------------- MODULE MCDatabaseFiles --------------------------
(* Model values and mutated definitions for checking DatabaseFiles. *)
EXTENDS DatabaseFiles
=============================================================================
