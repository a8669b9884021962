---------------------------- MODULE MCVoiceAgent ----------------------------
(* VoiceAgent for TLC: which connections belong to which session. *)
EXTENDS VoiceAgent, TLC

CONSTANTS s1, s2, c1, c2, c3

\* One client, one connection.
OneClient == [c \in {c1} |-> s1]

\* Two clients, of which the first may come back under its session id.
TwoClients == [c \in {c1, c2, c3} |-> IF c = c3 THEN s2 ELSE s1]

\* The connections of the first client are interchangeable.
Interchangeable == Permutations({c1, c2})
=============================================================================
