--------------------------- MODULE MCAgentInference ---------------------------
(* A small instance of AgentInference for TLC. *)
EXTENDS AgentInferenceProps

MCFee == [p \in Posts |-> 2]
MCStoreFee == [p \in Posts |-> 1]
=============================================================================
