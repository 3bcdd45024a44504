---------------------------- MODULE MCAssetPacks ----------------------------
(* One companion, three row ids: p1 and p2 for the same manifest, p3 for    *)
(* another one. At most MaxRows of them are used in a behaviour: one pack   *)
(* may supersede another, or be deleted and created again.                  *)
EXTENDS AssetPacks, TLC

CONSTANTS p1, p2, p3, m1, m2, MaxRows

MCManifestOf == [i \in Ids |-> IF i = p3 THEN m2 ELSE m1]

Used == {i \in Ids : row[i].status # "unused"}

MCSpec == Init /\ [][Next /\ Cardinality(Used') <= MaxRows]_vars

Symmetry == Permutations({p1, p2})
=============================================================================
