----------------------------- MODULE MCIngestion -----------------------------
(* Ingestion for TLC. Pages of one item make every page boundary a case. The  *)
(* first watch takes the whole budget of a cycle when both of its listings    *)
(* are new; the three of the second are one more than its pages hold, and the *)
(* two watches share a listing. The budget never gets to the third watch.     *)
EXTENDS Ingestion, TLC

CONSTANTS w1, w2, w3

ThreeWatches == <<w1, w2, w3>>
SharedFinds == w1 :> {2} @@ w2 :> 1..3 @@ w3 :> {3}
=============================================================================
