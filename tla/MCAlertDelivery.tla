--------------------------- MODULE MCAlertDelivery ---------------------------
(* BatchThreshold 2 and ChunkSize 1 make both paths of sendAlerts, and batches *)
(* that are cut short between two chunks, happen with two or three alerts.     *)
EXTENDS AlertDelivery, TLC

Symmetry == Permutations(Watches) \cup Permutations(Listings)
            \cup Permutations(Processors)
=============================================================================
