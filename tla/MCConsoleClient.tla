-------------------------- MODULE MCConsoleClient --------------------------
(* Every page, two rows, two handlers at a time.                           *)
EXTENDS ConsoleClient
=============================================================================
