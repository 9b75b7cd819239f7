---------------------------- MODULE MCPullPipeline ----------------------------
(* Two pulls of one model that boot what they have downloaded.                *)
EXTENDS PullPipeline

CONSTANTS a, b, weights, config
=============================================================================
