-------------------------- MODULE MCExtractionQueue --------------------------
(* Two pods with one worker each: every interleaving of two workers, with the *)
(* crash of one of them, is an interleaving of two processes.                 *)
EXTENDS ExtractionQueue, TLC

CONSTANTS w1, w2, p1, p2

MCPodOf == w1 :> p1 @@ w2 :> p2
=============================================================================
