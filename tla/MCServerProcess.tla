--------------------------- MODULE MCServerProcess ---------------------------
(* Small instances of ServerProcess for TLC. *)
EXTENDS ServerProcess, TLC

Symmetry == Permutations(Sockets) \cup Permutations(Tids)

=============================================================================
