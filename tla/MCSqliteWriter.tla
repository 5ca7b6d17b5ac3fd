--------------------------- MODULE MCSqliteWriter ---------------------------
(* Instances of SqliteWriter for TLC.                                       *)
EXTENDS SqliteWriter
MCAgents == 1 .. 2
=============================================================================
