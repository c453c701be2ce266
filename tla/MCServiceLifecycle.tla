------------------------- MODULE MCServiceLifecycle -------------------------
(***************************************************************************)
(* Instances of ServiceLifecycle for TLC.                                  *)
(***************************************************************************)
EXTENDS ServiceLifecycle, TLC

CONSTANTS u1, u2, h1, h2, j1, j2

Interchangeable == Permutations(Urls) \union Permutations(Handshakes) \union Permutations(Jobs)

=============================================================================
