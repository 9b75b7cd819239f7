--------------------------- MODULE MCDownloadDesk ---------------------------
(* Two slugs, one of which may be tried twice.                             *)
EXTENDS DownloadDesk, TLC

CONSTANTS r1, r2, r3, c1, c2, a, b

SlugOf == (r1 :> a) @@ (r2 :> b) @@ (r3 :> a)
SlugOfTwo == (r1 :> a) @@ (r2 :> b)

\* The two attempts at one slug are alike.
Alike == Permutations({r1, r3})

\* No command leaves children behind.
NoOrphans == \A r \in Runs : os[r] # "orphans"
=============================================================================
