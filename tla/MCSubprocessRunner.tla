------------------------- MODULE MCSubprocessRunner -------------------------
(* Small instances of the subprocess runner.                               *)
EXTENDS SubprocessRunner, TLC

CONSTANTS r1, r2, r3, c1, c2

Interchangeable == Permutations(Runs) \cup Permutations(Cancels)
=============================================================================
