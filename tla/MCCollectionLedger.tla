------------------------- MODULE MCCollectionLedger -------------------------
(* CollectionLedger with small constants; the collectors are symmetric.    *)
EXTENDS CollectionLedger, TLC

CollectorSymmetry == Permutations(Collectors)
=============================================================================
