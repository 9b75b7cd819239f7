---------------------------- MODULE MCBudgetLedger ----------------------------
(* Two requests, two boots of the engine and one updater.  With two requests  *)
(* and a buffer of two, one flush can overlap the appends of the next.        *)
EXTENDS BudgetLedger

CONSTANTS a, b, timer

MCRequests == {a, b}
MCUpdaters == {timer}
MCDiesAt == {"read"}
MCNowhere == {}

\* The requests are alike: a is the one that is scored first.
AFirst == req[a] = "new" => req[b] = "new"

\* One line is read in two pieces, in all.
OneTorn == \A u \in Updaters : Cardinality(lost \cup pass[u].torn) <= 1

\* Only the first of the two boots is killed or fails to write.
LastBootWorks == boot = MaxBoots => sink
=============================================================================
