--------------------------- MODULE MCOwnedStorage ---------------------------
(***************************************************************************)
(* OwnedStorage with interchangeable callers and names.                    *)
(***************************************************************************)
EXTENDS OwnedStorage, TLC

Symmetry == Permutations(Users) \cup Permutations(Names)
=============================================================================
