--------------------------- MODULE MCQueueManager ---------------------------
(* QueueManager for TLC: the items are model values, interchangeable where    *)
(* only safety is checked.                                                    *)
EXTENDS QueueManager, TLC

Symmetry == Permutations(Messages)
=============================================================================
