--------------------------- MODULE MCPullDownload ---------------------------
(* Small instances of the pull of one model.                               *)
EXTENDS PullDownload, TLC

CONSTANTS a, b, c, weights, config

\* The callers, and the files that are treated alike, are interchangeable.
AnyCaller == Permutations(Callers)
=============================================================================
