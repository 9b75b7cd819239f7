----------------------------- MODULE MCStudioHost -----------------------------
(* A request, a run of the command line, two long clips, two voice calls. *)
EXTENDS StudioHost

CONSTANTS a, k, x, y, u, v, server_dir

OneDir == [p \in Productions |-> server_dir]

\* A clip from an uploaded image.
Shorts == {<<"i2v">>}
=============================================================================
