--------------------------- MODULE MCAgentSession ---------------------------
(* Two writers under one request ID with different payloads.               *)
EXTENDS AgentSession, TLC

MCIdOf == "c1" :> "r1" @@ "c2" :> "r1"
MCPayloadOf == "c1" :> "p1" @@ "c2" :> "p2"

=============================================================================
