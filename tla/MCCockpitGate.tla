--------------------------- MODULE MCCockpitGate ---------------------------
(* Small instances of the cockpit's write gate.                            *)
EXTENDS CockpitGate, TLC

CONSTANTS w1, w2

Of(kinds, forces) == [kind : kinds, force : forces, skip : {FALSE}]

AllPlans == Plan
GatedPlans == Of({"serve", "generated"}, BOOLEAN)
ServeAndPinPlans == Of({"serve", "ungated"}, BOOLEAN)

Interchangeable == Permutations(Writes)
=============================================================================
