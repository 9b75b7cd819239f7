------------------------- MODULE MCStudioProduction -------------------------
(* Small instances of the production agent.                                *)
EXTENDS StudioProduction

CONSTANTS a, b, k, server_dir, other_dir

OneDir == [p \in Productions |-> server_dir]

\* A run of the command line with its own --productions-dir.
TwoDirs == [p \in Productions |-> IF p \in Clis THEN other_dir ELSE server_dir]

\* A keyframe and a clip from it; a narration.
Films == {<<"image", "i2v">>, <<"tts">>}
=============================================================================
