---------------------------- MODULE MC_Batching ----------------------------
(* Item lists of up to MaxItems items whose sizes are drawn from Sizes, and *)
(* a PDU that holds two or three of the small ones.                        *)
EXTENDS Batching, SequencesExt

CONSTANTS MaxItems, Sizes

EndOffsets(sizes) == [k \in DOMAIN sizes |-> FoldLeft(+, 0, SubSeq(sizes, 1, k))]

MCLayouts == {EndOffsets(s) : s \in BoundedSeq(Sizes, MaxItems)}
=============================================================================
