---------------------------- MODULE MCFileBatch ------------------------------
(* Instances of FileBatch for TLC.                                         *)
EXTENDS FileBatch

CONSTANTS x, y, bad

MCThread == 1 .. 3

MCByte == {x, y, bad, Nul}

MCPacks(s) == bad \notin {s[i] : i \in DOMAIN s}

(* A string that ends before the file does, and what is no UTF-8.          *)
MCInitialFile == {<<x, Nul, y>>, <<bad>>}

(* More than one block replaces the file, or one byte is added to it.      *)
MCRequest ==
  {NoRequest,
   [type |-> "WRITE_REQUEST", mode |-> "w", content |-> <<x, x, x>>],
   [type |-> "WRITE_REQUEST", mode |-> "a", content |-> <<y>>]}
=============================================================================
