----------------------- MODULE MCCollectionSubmission -----------------------
(* CollectionSubmission with small constants; the collectors are symmetric *)
(* where only safety is checked.                                           *)
EXTENDS CollectionSubmission, TLC

CollectorSymmetry == Permutations(Collectors)
=============================================================================
