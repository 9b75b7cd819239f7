--------------------------- MODULE MCModelSwitch ---------------------------
(* Two requests and a shell over two slugs that share a port, as most of   *)
(* the registry's do, or do not.                                           *)
EXTENDS ModelSwitch, TLC

CONSTANTS q, r, sh, a, b

Wanted == (q :> a) @@ (r :> b) @@ (sh :> b)
Ports == (a :> 8010) @@ (b :> 8020)
=============================================================================
