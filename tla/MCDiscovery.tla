---------------------------- MODULE MCDiscovery ----------------------------
(* One registry and one discovery.                                         *)
EXTENDS Discovery, TLC

CONSTANTS s1, s2, s3, u1, u2

SortDef == [S \in SUBSET Servers |-> SelectSeq(<<s1, s2, s3>>, LAMBDA s : s \in S)]
SomeLists == {<<s1, s2, s3>>, <<s2, s3>>}
UserSymmetry == Permutations(Users)
=============================================================================
