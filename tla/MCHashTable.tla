---------------------------- MODULE MCHashTable -----------------------------
(* Instances of HashTable and HashIter for TLC.                            *)
EXTENDS HashIter, TLC

MCKeys == 1 .. 3

(* The hashes of the keys: all at the end of the table, so that they wrap  *)
(* around; two clusters that touch; one that doubling takes apart.         *)
MCHashes == {<<7, 7, 7>>, <<3, 0, 4>>, <<2, 6, 3>>, <<5, 1, 1>>}

ValSymmetry == Permutations(Vals)

=============================================================================
