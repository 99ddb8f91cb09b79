---------------------------- MODULE MCCollector ----------------------------
(* Small heaps for the collector: cells 1 to 4 in a row.                   *)
EXTENDS Collector

Layout(vectors, free, roots) ==
  [vectors |-> DOMAIN vectors, free |-> free, roots |-> roots,
   len |-> [c \in Cell |-> IF c \in DOMAIN vectors THEN vectors[c] ELSE 0]]

NoVectors == [v \in {} |-> 0]

(* Three pairs; two pairs and an atom; with a free cell among them.        *)
Pairs ==
  {Layout(NoVectors, {2}, 1),
   Layout([v \in {2} |-> 0], {4}, 2)}

(* Vectors among pairs: two of one cell, one of two cells, and a pair      *)
(* before a free cell.                                                     *)
Vectors ==
  {Layout([v \in {1, 3} |-> 1], {}, 2),
   Layout([v \in {1} |-> 2], {}, 2),
   Layout([v \in {1, 3} |-> IF v = 1 THEN 1 ELSE 0], {4}, 2)}

PairsAndVectors == Pairs \cup Vectors
===========================================================================
