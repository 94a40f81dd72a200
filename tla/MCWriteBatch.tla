--------------------------- MODULE MCWriteBatch ---------------------------
(***************************************************************************)
(* One user key is a prefix of the other.  A varint's byte carries one     *)
(* bit, so that lengths of one, two and three bytes occur.                 *)
(***************************************************************************)
EXTENDS WriteBatch, TLC

MCUserKeys == {<<1>>, <<1, 3>>}
MCValues == {<<3>>}
MCDeleted == {<<1, 3>>}

Symmetry == Permutations(Batches)

=============================================================================
