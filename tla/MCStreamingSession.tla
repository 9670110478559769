-------------------------- MODULE MCStreamingSession --------------------------
(* Small instances of StreamingSession for TLC.                            *)
EXTENDS StreamingSession, TLC

\* Sessions, pool rows and executions of the callback are interchangeable.
StreamSymmetry ==
    Permutations(Sessions) \cup Permutations(Pools) \cup Permutations(Workers)
=============================================================================
