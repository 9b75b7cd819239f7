---------------------------- MODULE CockpitGate ----------------------------
(***************************************************************************)
(* The serve cockpit's write gate: CockpitData.execute_action and          *)
(* reconcile_before_write (tools/serve-cockpit/club3090_cockpit/           *)
(* services.py), the worker that calls them (app.py, dispatch_action), and *)
(* the subprocess and containers a write leaves on the host.               *)
(*                                                                         *)
(* Everything in the cockpit runs on one asyncio loop, so an action here   *)
(* is the code between two awaits.  The reconcile gate reads the GPUs,     *)
(* docker and the estate at three different awaits, and only then looks at *)
(* the claims; the subprocesses, the containers and estate_cli move in     *)
(* between.  The gate always wants both cards: the only caller passes no   *)
(* pending_gpus, and docker ps never fills in a container's GPU set.       *)
(***************************************************************************)
EXTENDS Naturals, FiniteSets

CONSTANTS
  Writes,        \* the ActionPlans dispatched, each once
  Plans,         \* the plans that may be dispatched
  Estate,        \* the container of the instance estate_cli boots on its own
  NoWrite,       \* the write lock's value when nobody holds it
  Exclusive,     \* plans come through dispatch_action, which cancels its predecessor
  CallsFail,     \* a docker, nvidia-smi or estate_cli call may fail or time out
  TtlElapses,    \* a claim may outlive _claim_ttl
  BootTimesOut   \* switch.sh may give up (READY_TIMEOUT) on a container still booting

(***************************************************************************)
(* serve: switch.sh <slug>, which exits once the engine answers.           *)
(* generated: docker compose up -d, which exits once the container exists. *)
(* ungated: requires_reconcile=False (a default pin, a validation run).    *)
(***************************************************************************)
Kinds == {"serve", "generated", "ungated"}

\* A forced plan carries its reason; only a forced one may skip the gate.
Plan == {p \in [kind : Kinds, force : BOOLEAN, skip : BOOLEAN] : p.skip => p.force}

Holders == Writes \cup {Estate}

ASSUME ConstantsAssumption ==
  /\ Plans \subseteq Plan
  /\ Estate \notin Writes
  /\ NoWrite \notin Writes
  /\ {Exclusive, CallsFail, TtlElapses, BootTimesOut} \subseteq BOOLEAN

VARIABLES
  pc,         \* where each execute_action coroutine is suspended
  plan,       \* its ActionPlan
  lock,       \* who holds CockpitData._write_lock
  cancelling, \* coroutines whose worker has been cancelled, not yet unwound
  seen,       \* the ReconcileResult each one has collected
  claims,     \* CockpitData._pending_claims
  expired,    \* claims that reached their expiry
  proc,       \* the subprocess of each write
  engine      \* the container each holder has on the cards

cockpit == <<pc, plan, lock, cancelling, seen>>
host == <<proc, engine>>
vars == <<cockpit, claims, expired, host>>

Waiting == {"queued", "detect", "docker", "estate", "report", "teardown", "spawn"}
Settled == {"executed", "refused", "cancelled"}

\* The part of ReconcileResult the verdict depends on.
Observation == [busy : BOOLEAN, conflicts : SUBSET Holders, estate : BOOLEAN, failed : BOOLEAN]

Nothing == [busy |-> FALSE, conflicts |-> {}, estate |-> FALSE, failed |-> FALSE]

TypeOK ==
  /\ pc \in [Writes -> {"idle"} \cup Waiting \cup Settled]
  /\ plan \in [Writes -> Plan]
  /\ lock \in Writes \cup {NoWrite}
  /\ cancelling \subseteq Writes
  /\ seen \in [Writes -> Observation]
  /\ claims \subseteq Writes
  /\ expired \subseteq Writes
  /\ proc \in [Writes -> {"none", "started", "cleared", "up", "exited"}]
  /\ engine \in [Holders -> {"none", "idle", "loaded"}]

Gated(w) == plan[w].kind # "ungated"

\* The write's subprocess is running and still on its way to the cards.
InFlight(w) == Gated(w) /\ proc[w] \in {"started", "cleared", "up"}

Init ==
  /\ pc = [w \in Writes |-> "idle"]
  /\ plan = [w \in Writes |-> [kind |-> "ungated", force |-> FALSE, skip |-> FALSE]]
  /\ lock = NoWrite
  /\ cancelling = {}
  /\ seen = [w \in Writes |-> Nothing]
  /\ claims = {}
  /\ expired = {}
  /\ proc = [w \in Writes |-> "none"]
  /\ engine = [h \in Holders |-> "none"]

----------------------------------------------------------------------------
(* The cockpit's coroutines.                                               *)

\* A confirmed plan: the worker group is exclusive, so the coroutines of the
\* plans dispatched before it are cancelled at the await they are in.
Dispatch(w) ==
  /\ pc[w] = "idle"
  /\ \E p \in Plans : plan' = [plan EXCEPT ![w] = p]
  /\ pc' = [pc EXCEPT ![w] = "queued"]
  /\ cancelling' = IF Exclusive THEN cancelling \cup {v \in Writes : pc[v] \in Waiting}
                                ELSE cancelling
  /\ UNCHANGED <<lock, seen, claims, expired, host>>

Resumes(w, at) == pc[w] = at /\ w \notin cancelling

\* async with self._write_lock; a plan that skips the gate claims the cards at once.
AcquireLock(w) ==
  /\ Resumes(w, "queued")
  /\ lock = NoWrite
  /\ lock' = w
  /\ pc' = [pc EXCEPT ![w] = IF Gated(w) /\ ~plan[w].skip THEN "detect" ELSE "spawn"]
  /\ claims' = IF Gated(w) /\ plan[w].skip THEN claims \cup {w} ELSE claims
  /\ UNCHANGED <<plan, cancelling, seen, expired, host>>

\* The end of reconcile_before_write and what execute_action does with it, with
\* no await in between: a live claim refuses even a forced plan, a conflict
\* refuses an unforced one, and a plan that may go on registers its own claim
\* (after it has stopped the conflicts, if it forced).
Verdict(w, obs, kept, claimed) ==
  LET safe == ~(obs.failed \/ obs.busy \/ obs.estate \/ claimed)
  IN  /\ seen' = [seen EXCEPT ![w] = obs]
      /\ \/ /\ ~safe
            /\ claimed \/ ~plan[w].force
            /\ pc' = [pc EXCEPT ![w] = "refused"]
            /\ lock' = NoWrite
            /\ claims' = kept
         \/ /\ ~safe /\ ~claimed /\ plan[w].force
            /\ obs.conflicts # {}
            /\ pc' = [pc EXCEPT ![w] = "teardown"]
            /\ claims' = kept
            /\ UNCHANGED lock
         \/ /\ safe \/ (~claimed /\ plan[w].force /\ obs.conflicts = {})
            /\ pc' = [pc EXCEPT ![w] = "spawn"]
            /\ claims' = kept \cup {w}
            /\ UNCHANGED lock

\* The claims are looked at last, after the expired ones have been pruned; a read
\* that failed has returned before that.
Conclude(w, obs) ==
  LET kept == IF obs.failed THEN claims ELSE claims \ expired
  IN  Verdict(w, obs, kept, ~obs.failed /\ kept # {})

\* A card holds more than 512 MiB.
CardBusy == \E h \in Holders : engine[h] = "loaded"

\* detect_endpoint (or nvidia-smi) reads the cards.
ReadGpus(w) ==
  /\ Resumes(w, "detect")
  /\ seen' = [seen EXCEPT ![w].busy = CardBusy]
  /\ pc' = [pc EXCEPT ![w] = "docker"]
  /\ UNCHANGED <<plan, lock, cancelling, claims, expired, host>>

\* docker ps: a container with an unknown GPU set conflicts only if a wanted
\* card was busy in the earlier read.
ReadDocker(w) ==
  /\ Resumes(w, "docker")
  /\ seen' = [seen EXCEPT ![w].conflicts =
                IF seen[w].busy THEN {h \in Holders : engine[h] # "none"} ELSE {}]
  /\ pc' = [pc EXCEPT ![w] = "estate"]
  /\ UNCHANGED <<plan, lock, cancelling, claims, expired, host>>

\* estate_cli.py report-state looks at docker; its answer is still on the way.
ReadEstate(w) ==
  /\ Resumes(w, "estate")
  /\ seen' = [seen EXCEPT ![w].estate = engine[Estate] # "none"]
  /\ pc' = [pc EXCEPT ![w] = "report"]
  /\ UNCHANGED <<plan, lock, cancelling, claims, expired, host>>

Reconcile(w) ==
  /\ Resumes(w, "report")
  /\ Conclude(w, seen[w])
  /\ UNCHANGED <<plan, cancelling, expired, host>>

\* detect, docker ps or report-state failed: the gate returns unsafe at once.
ReconcileFails(w) ==
  /\ CallsFail
  /\ \E at \in {"detect", "docker", "report"} : Resumes(w, at)
  /\ Conclude(w, [seen[w] EXCEPT !.failed = TRUE])
  /\ UNCHANGED <<plan, cancelling, expired, host>>

\* One docker stop of _teardown_conflicts; after the last one the claim is
\* registered and the spawn begins.  A docker stop that fails is passed over.
StopConflict(w) ==
  /\ Resumes(w, "teardown")
  /\ \E h \in seen[w].conflicts :
       LET rest == seen[w].conflicts \ {h}
       IN  /\ \/ engine' = [engine EXCEPT ![h] = "none"]
              \/ CallsFail /\ UNCHANGED engine
           /\ seen' = [seen EXCEPT ![w].conflicts = rest]
           /\ IF rest = {} THEN /\ pc' = [pc EXCEPT ![w] = "spawn"]
                                /\ claims' = claims \cup {w}
                           ELSE UNCHANGED <<pc, claims>>
  /\ UNCHANGED <<plan, lock, cancelling, expired, proc>>

Spawn_DropsClaim(w) ==
  /\ Resumes(w, "spawn")
  /\ proc' = [proc EXCEPT ![w] = "started"]
  /\ pc' = [pc EXCEPT ![w] = "executed"]
  /\ lock' = NoWrite
  /\ claims' = claims \ {w}
  /\ UNCHANGED <<plan, cancelling, seen, expired, engine>>

\* start_raw has spawned the command; execute_action returns and leaves the
\* claim to _release_claim_when_done.
Spawn(w) ==
  /\ Resumes(w, "spawn")
  /\ proc' = [proc EXCEPT ![w] = "started"]
  /\ pc' = [pc EXCEPT ![w] = "executed"]
  /\ lock' = NoWrite
  /\ UNCHANGED <<plan, cancelling, seen, claims, expired, engine>>

\* start_raw returns a run that is already finished: the claim is dropped.
SpawnFails(w) ==
  /\ Resumes(w, "spawn")
  /\ pc' = [pc EXCEPT ![w] = "executed"]
  /\ lock' = NoWrite
  /\ claims' = claims \ {w}
  /\ UNCHANGED <<plan, cancelling, seen, expired, host>>

Unwind_KeepsLock(w) ==
  /\ w \in cancelling /\ pc[w] \in Waiting
  /\ pc' = [pc EXCEPT ![w] = "cancelled"]
  /\ cancelling' = cancelling \ {w}
  /\ UNCHANGED <<plan, lock, seen, claims, expired, host>>

\* CancelledError unwinds the coroutine: the lock is released by async with, but
\* "except Exception" does not see it, so a claim already registered stays.
\* The docker stop it may have been waiting for can still take effect.
Unwind(w) ==
  /\ w \in cancelling /\ pc[w] \in Waiting
  /\ pc' = [pc EXCEPT ![w] = "cancelled"]
  /\ lock' = IF lock = w THEN NoWrite ELSE lock
  /\ cancelling' = cancelling \ {w}
  /\ \/ UNCHANGED engine
     \/ /\ pc[w] = "teardown"
        /\ \E h \in seen[w].conflicts : engine' = [engine EXCEPT ![h] = "none"]
  /\ UNCHANGED <<plan, seen, claims, expired, proc>>

ReleaseWhen(w, over) ==
  /\ w \in claims /\ pc[w] = "executed"
  /\ over
  /\ claims' = claims \ {w}
  /\ UNCHANGED <<cockpit, expired, host>>

ReleaseClaim_OnReturn(w) == ReleaseWhen(w, TRUE)
ReleaseClaim_OnSuccess(w) == ReleaseWhen(w, proc[w] = "exited" /\ engine[w] = "loaded")

\* _release_claim_when_done: the run's done event, or the wait's own timeout.
ReleaseClaim(w) == ReleaseWhen(w, proc[w] = "exited" \/ w \in expired)

ClaimExpires(w) ==
  /\ TtlElapses
  /\ w \in claims
  /\ expired' = expired \cup {w}
  /\ UNCHANGED <<cockpit, claims, host>>

----------------------------------------------------------------------------
(* The host: the spawned commands and the containers they leave behind.    *)

\* switch.sh first brings down every engine container it manages.
DownRunning(w) ==
  /\ plan[w].kind = "serve" /\ proc[w] = "started"
  /\ proc' = [proc EXCEPT ![w] = "cleared"]
  /\ engine' = [h \in Holders |-> IF h \in Writes /\ plan[h].kind = "serve"
                                  THEN "none" ELSE engine[h]]
  /\ UNCHANGED <<cockpit, claims, expired>>

\* docker compose up -d: the container exists, its VRAM is not allocated yet.
ComposeUp(w) ==
  /\ \/ plan[w].kind = "serve" /\ proc[w] = "cleared"
     \/ plan[w].kind = "generated" /\ proc[w] = "started"
  /\ proc' = [proc EXCEPT ![w] = "up"]
  /\ engine' = [engine EXCEPT ![w] = "idle"]
  /\ UNCHANGED <<cockpit, claims, expired>>

\* The engine fills its cards and starts to answer.
Load(h) ==
  /\ engine[h] = "idle"
  /\ engine' = [engine EXCEPT ![h] = "loaded"]
  /\ UNCHANGED <<cockpit, claims, expired, proc>>

Die(h) ==
  /\ engine[h] # "none"
  /\ engine' = [engine EXCEPT ![h] = "none"]
  /\ UNCHANGED <<cockpit, claims, expired, proc>>

\* A preflight failure ends the command early; after compose up, switch.sh waits
\* for the engine to answer or to die (or for READY_TIMEOUT), compose does not.
Exit(w) ==
  /\ \/ proc[w] \in {"started", "cleared"}
     \/ proc[w] = "up" /\ (plan[w].kind = "serve" => engine[w] # "idle" \/ BootTimesOut)
  /\ proc' = [proc EXCEPT ![w] = "exited"]
  /\ UNCHANGED <<cockpit, claims, expired, engine>>

\* estate_cli boots its instance without asking the cockpit.
EstateBoot ==
  /\ engine[Estate] = "none"
  /\ engine' = [engine EXCEPT ![Estate] = "idle"]
  /\ UNCHANGED <<cockpit, claims, expired, proc>>

----------------------------------------------------------------------------
Coroutine(w) ==
  \/ AcquireLock(w) \/ ReadGpus(w) \/ ReadDocker(w) \/ ReadEstate(w)
  \/ Reconcile(w) \/ ReconcileFails(w) \/ StopConflict(w)
  \/ Spawn(w) \/ SpawnFails(w) \/ Unwind(w)

Command(w) == DownRunning(w) \/ ComposeUp(w) \/ Exit(w)

Next ==
  \/ \E w \in Writes : \/ Dispatch(w) \/ Coroutine(w) \/ ReleaseClaim(w)
                       \/ ClaimExpires(w) \/ Command(w)
  \/ \E h \in Holders : Load(h) \/ Die(h)
  \/ EstateBoot

Spec == Init /\ [][Next]_vars

\* The loop resumes every coroutine whose await is over, the release task runs
\* once the run is done, and a command on the host ends.
FairSpec ==
  /\ Spec
  /\ \A w \in Writes : /\ WF_vars(Coroutine(w))
                       /\ WF_vars(ReleaseClaim(w))
                       /\ WF_vars(Command(w))
  /\ \A h \in Holders : WF_vars(Load(h))

----------------------------------------------------------------------------
(* Safety.                                                                 *)

\* A forced plan that skipped the gate, or whose reconcile failed before it
\* reached the claims.
Blind(w) == plan[w].force /\ (plan[w].skip \/ seen[w].failed)

\* A claim bridges the whole time a gated write needs to reach the cards: as long
\* as the TTL has not cut it off, no gated command runs without its claim.
ClaimCoversFlight == \A w \in Writes : InFlight(w) => w \in claims \cup expired

\* Past the gate a write is alone: from the verdict through every docker stop to
\* the spawn, no other write is in flight (so the containers it stops belong to
\* nobody's boot), unless it was forced past the claims or a TTL ran out.
AlonePastGate ==
  \A w \in Writes : pc[w] \in {"teardown", "spawn"} /\ Gated(w) /\ ~Blind(w)
    => \A v \in Writes : InFlight(v) => v \in expired

\* Two gated writes are in flight together only after a forced blind write or an
\* elapsed TTL; unforced writes never overlap, whatever fails.
NoOverlap ==
  \A v, w \in Writes : v # w /\ InFlight(v) /\ InFlight(w)
    => Blind(v) \/ Blind(w) \/ v \in expired \/ w \in expired

\* A coroutine between the lock and its release is the lock's owner: two gates
\* never interleave their reads, whoever is cancelled in the middle.
GateIsSerial ==
  \A w \in Writes : pc[w] \in Waiting \ {"queued"} <=> lock = w

(* Liveness.                                                               *)

\* Every dispatched plan is executed, refused or cancelled.
EveryPlanSettles == \A w \in Writes : pc[w] = "queued" ~> pc[w] \in Settled

\* The claim of a write that was spawned does not stay for ever.
ClaimOfExecutedReleased ==
  \A w \in Writes : (pc[w] = "executed" /\ w \in claims) ~> w \notin claims

----------------------------------------------------------------------------
(* What comments and tests of the repository claim, and the code does not  *)
(* keep in every case.                                                     *)

\* "An in-flight write's pending claim is a HARD block -- force CANNOT override it"
HardBlock == \A v, w \in Writes : InFlight(v) /\ InFlight(w) => v = w

\* "by the time the process exits ... docker ps / nvidia-smi see it, so the next
\* reconcile is covered with no gap": an unforced write never spawns while the
\* container of an earlier write is up.
NoGap ==
  \A w \in Writes : pc[w] = "spawn" /\ Gated(w) /\ ~plan[w].force
    => \A v \in Writes \ {w} : engine[v] = "none"

\* Claims are "cleared when the write subprocess exits": a claim always has a
\* spawn ahead of it or a release task behind it.
NoLeakedClaim == \A w \in claims : pc[w] \in {"spawn", "executed"}

----------------------------------------------------------------------------
(* The gate as a single-flight lease.                                      *)

Lease == INSTANCE SingleFlight WITH Clients <- Writes,
                                    flying <- {w \in Writes : InFlight(w)}
LeaseSpec == Lease!Spec
=============================================================================
