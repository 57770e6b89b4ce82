--------------------------- MODULE MCThreadedServer ---------------------------
(* Small instances of ThreadedServer for TLC. *)
EXTENDS ThreadedServer, TLC

\* Handles and thread ids are interchangeable, each among its own.
Symmetry == Permutations(Sockets) \cup Permutations(Tids)

=============================================================================
