------------------------------ MODULE MCStreamer ------------------------------
(* Instances of Streamer for TLC: two clients, an HTTP connection for each. *)
EXTENDS Streamer, TLC

CONSTANTS c1, c2, h1, h2

MCClients == {c1, c2}
MCStreams == {h1, h2}
MCSymmetry == Permutations(MCClients) \cup Permutations(MCStreams)
=============================================================================
