--------------------------- MODULE MCAgentNotify ---------------------------
(* What TLC needs beside AgentNotify: the connections of a node are        *)
(* interchangeable (used where no liveness is checked).                    *)
EXTENDS AgentNotify, TLC

Symmetric == Permutations(Conns)
=============================================================================
