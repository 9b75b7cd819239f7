---------------------------- MODULE SingleFlight ----------------------------
(***************************************************************************)
(* What the four single-flight mechanisms of club-3090 promise: of all     *)
(* the clients that may ask for one resource, at most one is in flight at  *)
(* a time, and the next one starts only after it has landed.               *)
(*                                                                         *)
(* CockpitGate (the serve cockpit's reconcile gate and pending claims),    *)
(* StudioProduction (the production agent's flock), PullDownload (the lock *)
(* directory of a model) and ModelSwitch (the switch service's lock) are   *)
(* each compared with this specification.                                  *)
(***************************************************************************)
CONSTANT Clients        \* whoever may hold the lease

VARIABLE flying         \* the clients in flight

Init == flying = {}

Start(c) == /\ flying = {}
            /\ flying' = {c}

Land(c) == /\ c \in flying
           /\ flying' = flying \ {c}

Next == \E c \in Clients : Start(c) \/ Land(c)

Spec == Init /\ [][Next]_flying

\* No two clients are ever in flight together.
Alone == \A a, b \in flying : a = b
=============================================================================
