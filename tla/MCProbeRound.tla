---------------------------- MODULE MCProbeRound ----------------------------
(* What TLC needs beside ProbeRound: the nodes are interchangeable.        *)
EXTENDS ProbeRound, TLC

Symmetric == Permutations(Agents)
=============================================================================
