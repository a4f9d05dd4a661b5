----------------------------- MODULE MCOutbound -----------------------------
(* What leaves the server: notifications to Discord and telemetry to        *)
(* Langfuse. The two clients share no state and run one beside the other.   *)
EXTENDS DiscordNotifier, BufferedClient

VARIABLE part  \* which of the two runs

mcVars == <<vars, bufferVars, part>>

\* What Discord has left of its window is nothing to the Langfuse client.
MCInit ==
  /\ part \in {"discord", "langfuse"} /\ Init /\ InitBuffer
  /\ part = "langfuse" => cap = 0

Notifying == part = "discord" /\ Next /\ UNCHANGED <<bufferVars, part>>
Logging == part = "langfuse" /\ NextBuffer /\ UNCHANGED <<vars, part>>
Exited == part = "langfuse" /\ ~up /\ UNCHANGED mcVars

MCNext == Notifying \/ Logging \/ Exited

(* The fairness of the two modules, of the part that runs.                  *)
Ticking == part = "discord" /\ Tick /\ UNCHANGED <<bufferVars, part>>
Sending(s) == part = "discord" /\ OwnStep(s) /\ UNCHANGED <<bufferVars, part>>
Draining == part = "langfuse" /\ (Start \/ Drain) /\ UNCHANGED <<vars, part>>

MCFairness ==
  /\ WF_mcVars(Ticking) /\ \A s \in Senders : WF_mcVars(Sending(s))
  /\ WF_mcVars(Draining)

MCSpec == MCInit /\ [][MCNext]_mcVars /\ MCFairness
=============================================================================
