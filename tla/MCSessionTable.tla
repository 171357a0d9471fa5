--------------------------- MODULE MCSessionTable ---------------------------
(* SessionTable for TLC: threads are interchangeable, and so are ids. *)
EXTENDS SessionTable

Interchangeable == Permutations(Threads) \cup Permutations(Ids)

=============================================================================
