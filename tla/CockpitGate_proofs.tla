------------------------- MODULE CockpitGate_proofs -------------------------
(***************************************************************************)
(* The gate's invariants for any number of writes, any set of plans, and   *)
(* whatever fails, expires or is cancelled.                                *)
(*                                                                         *)
(* The inductive invariant adds two facts about one write to the checked   *)
(* properties: a subprocess exists only behind an execute_action that has  *)
(* returned, and a gated write that is about to spawn has its claim.       *)
(***************************************************************************)
EXTENDS CockpitGate, TLAPS

\* A subprocess exists only once execute_action has spawned it and returned.
ProcBehindReturn == \A w \in Writes : proc[w] # "none" => pc[w] = "executed"

\* A gated write that is about to spawn has registered its claim.
ClaimBeforeSpawn ==
  \A w \in Writes : pc[w] = "spawn" /\ Gated(w) => w \in claims \cup expired

IInv == /\ TypeOK
        /\ GateIsSerial
        /\ ProcBehindReturn
        /\ ClaimBeforeSpawn
        /\ ClaimCoversFlight
        /\ AlonePastGate
        /\ NoOverlap

\* The initial state satisfies the inductive invariant.
LEMMA InitInv == Init => IInv
BY ConstantsAssumption
   DEF Init, IInv, TypeOK, GateIsSerial, ProcBehindReturn, ClaimBeforeSpawn,
       ClaimCoversFlight, AlonePastGate, NoOverlap, InFlight, Gated, Plan, Kinds,
       Nothing, Observation, Waiting, Settled, Holders

-----------------------------------------------------------------------------
(* Type correctness, action by action.                                     *)

\* What the gate decides keeps the types, whatever it has read.
LEMMA VerdictType ==
  ASSUME TypeOK, NEW w \in Writes,
         NEW obs \in Observation,
         Conclude(w, obs), UNCHANGED <<plan, cancelling, expired, host>>
  PROVE  TypeOK'
BY DEF TypeOK, Conclude, Verdict, host, Waiting, Settled

\* Every step of the system keeps the types.
LEMMA TypeStep == TypeOK /\ [Next]_vars => TypeOK'
<1> SUFFICES ASSUME TypeOK, [Next]_vars PROVE TypeOK'
  OBVIOUS
<1> USE ConstantsAssumption DEF host, cockpit, Waiting, Settled
<1>1. ASSUME NEW w \in Writes, Dispatch(w) PROVE TypeOK'
  BY <1>1 DEF Dispatch, TypeOK
<1>2. ASSUME NEW w \in Writes, AcquireLock(w) PROVE TypeOK'
  BY <1>2 DEF AcquireLock, TypeOK, Resumes
<1>3. ASSUME NEW w \in Writes, ReadGpus(w) PROVE TypeOK'
  <2>1. CardBusy \in BOOLEAN
    BY DEF CardBusy
  <2>2. seen' \in [Writes -> Observation]
    BY <1>3, <2>1, ZenonT(60) DEF ReadGpus, TypeOK, Observation
  <2> QED BY <1>3, <2>2 DEF ReadGpus, TypeOK
<1>4. ASSUME NEW w \in Writes, ReadDocker(w) PROVE TypeOK'
  <2>1. seen' \in [Writes -> Observation]
    BY <1>4 DEF ReadDocker, TypeOK, Observation
  <2> QED BY <1>4, <2>1 DEF ReadDocker, TypeOK
<1>5. ASSUME NEW w \in Writes, ReadEstate(w) PROVE TypeOK'
  <2> DEFINE up == engine[Estate] # "none"
  <2>1. up \in BOOLEAN
    OBVIOUS
  <2>2. seen' = [seen EXCEPT ![w].estate = up]
    BY <1>5 DEF ReadEstate
  <2> HIDE DEF up
  <2>3. seen' \in [Writes -> Observation]
    BY <2>1, <2>2 DEF TypeOK, Observation
  <2> QED BY <1>5, <2>3 DEF ReadEstate, TypeOK
<1>6. ASSUME NEW w \in Writes, Reconcile(w) PROVE TypeOK'
  <2>1. seen[w] \in Observation
    BY DEF TypeOK
  <2> QED BY <1>6, <2>1, VerdictType DEF Reconcile
<1>7. ASSUME NEW w \in Writes, ReconcileFails(w) PROVE TypeOK'
  <2>1. [seen[w] EXCEPT !.failed = TRUE] \in Observation
    BY ZenonT(60) DEF TypeOK, Observation
  <2> QED BY <1>7, <2>1, VerdictType DEF ReconcileFails
<1>8. ASSUME NEW w \in Writes, StopConflict(w) PROVE TypeOK'
  <2>1. seen' \in [Writes -> Observation]
    BY <1>8 DEF StopConflict, TypeOK, Observation
  <2> QED BY <1>8, <2>1 DEF StopConflict, TypeOK
<1>9. ASSUME NEW w \in Writes, Spawn(w) PROVE TypeOK'
  BY <1>9 DEF Spawn, TypeOK, Resumes
<1>10. ASSUME NEW w \in Writes, SpawnFails(w) PROVE TypeOK'
  BY <1>10 DEF SpawnFails, TypeOK, Resumes
<1>11. ASSUME NEW w \in Writes, Unwind(w) PROVE TypeOK'
  BY <1>11 DEF Unwind, TypeOK
<1>12. ASSUME NEW w \in Writes, ReleaseClaim(w) \/ ClaimExpires(w) PROVE TypeOK'
  BY <1>12 DEF ReleaseClaim, ReleaseWhen, ClaimExpires, TypeOK
<1>13. ASSUME NEW w \in Writes, Command(w) PROVE TypeOK'
  BY <1>13 DEF Command, DownRunning, ComposeUp, Exit, TypeOK, Holders
<1>14. ASSUME NEW h \in Holders, Load(h) \/ Die(h) PROVE TypeOK'
  BY <1>14 DEF Load, Die, TypeOK
<1>15. CASE EstateBoot
  BY <1>15 DEF EstateBoot, TypeOK
<1>16. CASE UNCHANGED vars
  BY <1>16 DEF vars, TypeOK
<1> QED
  BY <1>1, <1>2, <1>3, <1>4, <1>5, <1>6, <1>7, <1>8, <1>9, <1>10, <1>11, <1>12,
     <1>13, <1>14, <1>15, <1>16 DEF Next, Coroutine

-----------------------------------------------------------------------------
(* The inductive step.                                                     *)

\* A step that leaves the coroutines alone and launches nothing, releases only
\* claims of writes that are neither spawning nor in flight, and forgets no
\* expired claim.
LEMMA QuietStep ==
  ASSUME IInv, TypeOK',
         UNCHANGED <<pc, plan, lock, seen>>,
         expired \subseteq expired',
         \A w \in Writes : /\ proc'[w] # "none" => proc[w] # "none"
                           /\ InFlight(w)' => InFlight(w)
                           /\ w \in claims /\ (pc[w] = "spawn" \/ InFlight(w)')
                                => w \in claims' \cup expired'
  PROVE  IInv'
<1> USE DEF IInv
<1>1. GateIsSerial' /\ ProcBehindReturn'
  BY DEF GateIsSerial, ProcBehindReturn
<1>2. ClaimBeforeSpawn'
  BY DEF ClaimBeforeSpawn, Gated
<1>3. ClaimCoversFlight'
  BY DEF ClaimCoversFlight
<1>4. AlonePastGate'
  BY DEF AlonePastGate, Blind, Gated
<1>5. NoOverlap'
  BY DEF NoOverlap, Blind
<1> QED BY <1>1, <1>2, <1>3, <1>4, <1>5

\* A coroutine that owns the lock is the only one past the queue.
LEMMA OwnerAlone ==
  ASSUME TypeOK, GateIsSerial, NEW w \in Writes, pc[w] \in Waiting \ {"queued"}
  PROVE  /\ lock = w
         /\ \A v \in Writes \ {w} : pc[v] \notin Waiting \ {"queued"}
BY DEF GateIsSerial, TypeOK

\* A step of the coroutine w that launches nothing and stops short of the claims:
\* its own pc may change, to anything but a claim-holding state.
LEMMA LocalStep ==
  ASSUME IInv, TypeOK', NEW w \in Writes, NEW to,
         pc[w] \notin {"executed"},
         to \notin {"teardown", "spawn"},
         pc' = [pc EXCEPT ![w] = to],
         \A v \in Writes \ {w} : plan'[v] = plan[v] /\ seen'[v] = seen[v],
         UNCHANGED <<expired, proc>>,
         claims \ expired \subseteq claims',
         GateIsSerial'
  PROVE  IInv'
<1> USE DEF IInv
<1>1. pc \in [Writes -> {"idle"} \cup Waiting \cup Settled]
  BY DEF TypeOK
<1>2. proc[w] = "none" /\ ~InFlight(w) /\ ~InFlight(w)'
  BY DEF ProcBehindReturn, InFlight
<1>3. \A v \in Writes \ {w} : (InFlight(v)' <=> InFlight(v)) /\ (Blind(v)' <=> Blind(v))
  BY DEF InFlight, Gated, Blind
<1>4. ProcBehindReturn'
  BY <1>1, <1>2 DEF ProcBehindReturn
<1>5. ClaimBeforeSpawn'
  BY <1>1 DEF ClaimBeforeSpawn, Gated
<1>6. ClaimCoversFlight'
  BY <1>2, <1>3 DEF ClaimCoversFlight
<1>7. AlonePastGate'
  <2> SUFFICES ASSUME NEW u \in Writes, pc'[u] \in {"teardown", "spawn"}, Gated(u)',
                      ~Blind(u)', NEW v \in Writes, InFlight(v)'
               PROVE  v \in expired'
    BY DEF AlonePastGate
  <2>1. u # w /\ pc'[u] = pc[u]
    BY <1>1
  <2>2. Gated(u) /\ ~Blind(u) /\ InFlight(v)
    BY <1>2, <1>3, <2>1 DEF Gated
  <2> QED BY <2>1, <2>2 DEF AlonePastGate
<1>8. NoOverlap'
  BY <1>2, <1>3 DEF NoOverlap
<1> QED BY <1>4, <1>5, <1>6, <1>7, <1>8

\* The verdict preserves the invariant: it lets a plan pass to the spawn only when
\* no unexpired claim is left, and every write in flight has one.
LEMMA VerdictInv ==
  ASSUME IInv, TypeOK', NEW w \in Writes, NEW obs \in Observation,
         pc[w] \in {"detect", "docker", "report"}, Conclude(w, obs),
         UNCHANGED <<plan, cancelling, expired, host>>
  PROVE  IInv'
<1> DEFINE kept == IF obs.failed THEN claims ELSE claims \ expired
<1>0. /\ pc \in [Writes -> {"idle"} \cup Waiting \cup Settled]
      /\ seen \in [Writes -> Observation]
      /\ claims \subseteq Writes
      /\ lock = w
      /\ \A v \in Writes \ {w} : pc[v] \notin Waiting \ {"queued"}
  BY OwnerAlone DEF IInv, TypeOK, Waiting
<1>1. /\ seen' = [seen EXCEPT ![w] = obs]
      /\ UNCHANGED <<plan, expired, proc>>
      /\ kept \subseteq claims'
      /\ claims \ expired \subseteq kept
  BY DEF Conclude, Verdict, host
<1>2. GateIsSerial'
  BY <1>0, ConstantsAssumption DEF Conclude, Verdict, IInv, GateIsSerial, Waiting
<1>3. CASE pc' = [pc EXCEPT ![w] = "refused"]
  BY <1>0, <1>1, <1>2, <1>3, LocalStep DEF IInv
<1>4. CASE \E to \in {"teardown", "spawn"} : pc' = [pc EXCEPT ![w] = to]
  <2>1. PICK to \in {"teardown", "spawn"} : pc' = [pc EXCEPT ![w] = to]
    BY <1>4
  <2>2. to = "spawn" => w \in claims'
    BY <2>1, <1>0 DEF Conclude, Verdict
  <2>3. obs.failed => plan[w].force
    BY <1>0, <2>1 DEF Conclude, Verdict
  <2>4. ~obs.failed => claims \ expired = {}
    BY <1>0, <2>1 DEF Conclude, Verdict
  <2>5. proc[w] = "none" /\ ~InFlight(w)
    BY <1>0 DEF IInv, ProcBehindReturn, InFlight
  <2>6. \A v \in Writes : InFlight(v)' = InFlight(v) /\ Gated(v)' = Gated(v)
    BY <1>1 DEF InFlight, Gated
  <2>7. \A v \in Writes \ {w} : Blind(v)' = Blind(v)
    BY <1>0, <1>1 DEF Blind
  <2>8. ProcBehindReturn'
    BY <1>0, <1>1, <2>1, <2>5 DEF IInv, ProcBehindReturn
  <2>9. ClaimBeforeSpawn'
    BY <1>0, <1>1, <2>1, <2>2 DEF IInv, ClaimBeforeSpawn, Waiting
  <2>10. ClaimCoversFlight'
    BY <1>1, <2>6 DEF IInv, ClaimCoversFlight
  <2>11. NoOverlap'
    BY <1>1, <2>5, <2>6, <2>7 DEF IInv, NoOverlap
  <2>12. ~Blind(w)' => \A v \in Writes : InFlight(v) => v \in expired
    BY <1>0, <1>1, <2>3, <2>4 DEF Blind, IInv, ClaimCoversFlight
  <2>13. AlonePastGate'
    BY <1>0, <1>1, <2>1, <2>6, <2>12 DEF AlonePastGate, Waiting
  <2> QED BY <1>2, <2>8, <2>9, <2>10, <2>11, <2>13 DEF IInv
<1> QED BY <1>3, <1>4 DEF Conclude, Verdict

\* A forced teardown ends in a registered claim and lets nobody else past the gate.
LEMMA StopConflictInv ==
  ASSUME IInv, TypeOK', NEW w \in Writes, StopConflict(w)
  PROVE  IInv'
<1>0. /\ pc \in [Writes -> {"idle"} \cup Waiting \cup Settled]
      /\ seen \in [Writes -> Observation]
      /\ pc[w] = "teardown"
      /\ proc[w] = "none"
  BY DEF IInv, TypeOK, StopConflict, Resumes, ProcBehindReturn
<1>1. /\ UNCHANGED <<plan, lock, expired, proc>>
      /\ claims \subseteq claims'
      /\ \A v \in Writes : seen'[v].failed = seen[v].failed
      /\ \A v \in Writes : pc'[v] # pc[v] => v = w /\ pc'[w] = "spawn" /\ w \in claims'
  BY <1>0 DEF StopConflict, Observation
<1>2. \A v \in Writes : InFlight(v)' = InFlight(v) /\ Gated(v)' = Gated(v) /\ Blind(v)' = Blind(v)
  BY <1>1 DEF InFlight, Gated, Blind
<1>3. GateIsSerial'
  BY <1>0, <1>1 DEF IInv, GateIsSerial, Waiting
<1>4. ProcBehindReturn' /\ ClaimBeforeSpawn'
  BY <1>0, <1>1, <1>2 DEF IInv, ProcBehindReturn, ClaimBeforeSpawn
<1>5. ClaimCoversFlight' /\ NoOverlap'
  BY <1>1, <1>2 DEF IInv, ClaimCoversFlight, NoOverlap
<1>6. AlonePastGate'
  BY <1>0, <1>1, <1>2 DEF IInv, AlonePastGate
<1> QED BY <1>3, <1>4, <1>5, <1>6 DEF IInv

\* A spawn adds one write in flight: its claim is there, and the others in flight
\* are the ones that AlonePastGate allows.
LEMMA SpawnInv ==
  ASSUME IInv, TypeOK', NEW w \in Writes, Spawn(w)
  PROVE  IInv'
<1>0. /\ pc \in [Writes -> {"idle"} \cup Waiting \cup Settled]
      /\ proc \in [Writes -> {"none", "started", "cleared", "up", "exited"}]
      /\ pc[w] = "spawn" /\ lock = w
      /\ \A v \in Writes \ {w} : pc[v] \notin Waiting \ {"queued"}
  BY OwnerAlone DEF IInv, TypeOK, Spawn, Resumes, Waiting
<1>1. /\ UNCHANGED <<plan, seen, claims, expired>>
      /\ pc' = [pc EXCEPT ![w] = "executed"]
      /\ proc' = [proc EXCEPT ![w] = "started"]
      /\ lock' = NoWrite
  BY DEF Spawn
<1>2. /\ \A v \in Writes : Gated(v)' = Gated(v) /\ Blind(v)' = Blind(v)
      /\ \A v \in Writes \ {w} : InFlight(v)' = InFlight(v)
      /\ InFlight(w)' => Gated(w)
  BY <1>0, <1>1 DEF Gated, Blind, InFlight
<1>3. GateIsSerial'
  BY <1>0, <1>1, ConstantsAssumption DEF IInv, GateIsSerial, Waiting
<1>4. ProcBehindReturn' /\ ClaimBeforeSpawn'
  BY <1>0, <1>1, <1>2 DEF IInv, ProcBehindReturn, ClaimBeforeSpawn, Waiting
<1>5. ClaimCoversFlight'
  BY <1>0, <1>1, <1>2 DEF IInv, ClaimCoversFlight, ClaimBeforeSpawn
<1>6. AlonePastGate'
  BY <1>0, <1>1 DEF AlonePastGate, Waiting
<1>7. NoOverlap'
  BY <1>0, <1>1, <1>2 DEF IInv, NoOverlap, AlonePastGate
<1> QED BY <1>3, <1>4, <1>5, <1>6, <1>7 DEF IInv

\* Every step of the system preserves the inductive invariant.
LEMMA InvStep == IInv /\ [Next]_vars => IInv'
<1> SUFFICES ASSUME IInv, [Next]_vars PROVE IInv'
  OBVIOUS
<1>0. TypeOK /\ TypeOK' /\ GateIsSerial
  BY TypeStep DEF IInv
<1>t. /\ pc \in [Writes -> {"idle"} \cup Waiting \cup Settled]
      /\ proc \in [Writes -> {"none", "started", "cleared", "up", "exited"}]
      /\ plan \in [Writes -> Plan]
      /\ seen \in [Writes -> Observation]
      /\ lock \in Writes \cup {NoWrite}
  BY <1>0 DEF TypeOK
<1> USE ConstantsAssumption DEF host, cockpit
<1>1. ASSUME NEW w \in Writes, Dispatch(w) PROVE IInv'
  <2>1. GateIsSerial'
    BY <1>0, <1>t, <1>1 DEF Dispatch, GateIsSerial, Waiting
  <2>2. \A v \in Writes \ {w} : plan'[v] = plan[v] /\ seen'[v] = seen[v]
    BY <1>t, <1>1 DEF Dispatch
  <2> QED BY <1>0, <1>1, <2>1, <2>2, LocalStep DEF Dispatch
<1>2. ASSUME NEW w \in Writes, AcquireLock(w) PROVE IInv'
  <2>1. GateIsSerial'
    BY <1>0, <1>t, <1>2 DEF AcquireLock, Resumes, GateIsSerial, Waiting
  <2>2. CASE Gated(w) /\ ~plan[w].skip
    BY <1>0, <1>2, <2>1, <2>2, LocalStep DEF AcquireLock, Resumes
  <2>3. CASE ~(Gated(w) /\ ~plan[w].skip)
    <3>1. /\ pc' = [pc EXCEPT ![w] = "spawn"]
          /\ Gated(w) => w \in claims'
          /\ claims \subseteq claims'
          /\ UNCHANGED <<plan, seen, expired, proc>>
      BY <1>2, <2>3 DEF AcquireLock
    <3>2. pc[w] = "queued"
      BY <1>2 DEF AcquireLock, Resumes
    <3>3. Gated(w) => Blind(w)
      BY <1>t, <2>3 DEF Blind, Plan
    <3>4. \A v \in Writes : InFlight(v)' = InFlight(v) /\ Blind(v)' = Blind(v) /\ Gated(v)' = Gated(v)
      BY <3>1 DEF InFlight, Blind, Gated
    <3>5. ProcBehindReturn'
      BY <1>t, <3>1, <3>2 DEF IInv, ProcBehindReturn
    <3>6. ClaimBeforeSpawn'
      BY <1>t, <3>1, <3>4 DEF IInv, ClaimBeforeSpawn
    <3>7. ClaimCoversFlight' /\ NoOverlap'
      BY <3>1, <3>4 DEF IInv, ClaimCoversFlight, NoOverlap
    <3>8. AlonePastGate'
      BY <1>t, <3>1, <3>3, <3>4 DEF IInv, AlonePastGate
    <3> QED BY <1>0, <2>1, <3>5, <3>6, <3>7, <3>8 DEF IInv
  <2> QED BY <2>2, <2>3
<1>3. ASSUME NEW w \in Writes, ReadGpus(w) \/ ReadDocker(w) \/ ReadEstate(w) PROVE IInv'
  <2>1. GateIsSerial'
    BY <1>0, <1>t, <1>3 DEF ReadGpus, ReadDocker, ReadEstate, Resumes, GateIsSerial, Waiting
  <2>2. \A v \in Writes \ {w} : plan'[v] = plan[v] /\ seen'[v] = seen[v]
    BY <1>t, <1>3 DEF ReadGpus, ReadDocker, ReadEstate
  <2>3. CASE ReadGpus(w)
    BY <1>0, <2>1, <2>2, <2>3, LocalStep DEF ReadGpus, Resumes
  <2>4. CASE ReadDocker(w)
    BY <1>0, <2>1, <2>2, <2>4, LocalStep DEF ReadDocker, Resumes
  <2>5. CASE ReadEstate(w)
    BY <1>0, <2>1, <2>2, <2>5, LocalStep DEF ReadEstate, Resumes
  <2> QED BY <1>3, <2>3, <2>4, <2>5
<1>4. ASSUME NEW w \in Writes, Reconcile(w) PROVE IInv'
  <2>1. seen[w] \in Observation /\ pc[w] = "report"
    BY <1>t, <1>4 DEF Reconcile, Resumes
  <2> QED BY <1>0, <1>4, <2>1, VerdictInv DEF Reconcile
<1>5. ASSUME NEW w \in Writes, ReconcileFails(w) PROVE IInv'
  <2>1. /\ [seen[w] EXCEPT !.failed = TRUE] \in Observation
        /\ pc[w] \in {"detect", "docker", "report"}
    BY <1>t, <1>5 DEF ReconcileFails, Resumes, Observation
  <2> QED BY <1>0, <1>5, <2>1, VerdictInv DEF ReconcileFails
<1>6. ASSUME NEW w \in Writes, StopConflict(w) PROVE IInv'
  BY <1>0, <1>6, StopConflictInv
<1>7. ASSUME NEW w \in Writes, Spawn(w) PROVE IInv'
  BY <1>0, <1>7, SpawnInv
<1>8. ASSUME NEW w \in Writes, SpawnFails(w) PROVE IInv'
  <2>1. GateIsSerial'
    BY <1>0, <1>t, <1>8 DEF SpawnFails, Resumes, GateIsSerial, Waiting
  <2>2. pc[w] = "spawn" /\ proc[w] = "none"
    BY <1>8 DEF SpawnFails, Resumes, IInv, ProcBehindReturn
  <2>3. /\ \A v \in Writes : v # w => pc'[v] = pc[v] /\ (v \in claims => v \in claims')
        /\ pc'[w] = "executed"
        /\ UNCHANGED <<plan, seen, expired, proc>>
    BY <1>t, <1>8 DEF SpawnFails
  <2>4. \A v \in Writes : InFlight(v)' = InFlight(v) /\ Blind(v)' = Blind(v) /\ Gated(v)' = Gated(v)
    BY <2>3 DEF InFlight, Blind, Gated
  <2>5. ~InFlight(w)
    BY <2>2 DEF InFlight
  <2>6. ProcBehindReturn' /\ ClaimBeforeSpawn'
    BY <2>2, <2>3, <2>4 DEF IInv, ProcBehindReturn, ClaimBeforeSpawn
  <2>7. ClaimCoversFlight' /\ NoOverlap'
    BY <2>3, <2>4, <2>5 DEF IInv, ClaimCoversFlight, NoOverlap
  <2>8. AlonePastGate'
    BY <2>3, <2>4 DEF IInv, AlonePastGate
  <2> QED BY <1>0, <2>1, <2>6, <2>7, <2>8 DEF IInv
<1>9. ASSUME NEW w \in Writes, Unwind(w) PROVE IInv'
  <2>1. GateIsSerial'
    BY <1>0, <1>t, <1>9 DEF Unwind, GateIsSerial, Waiting
  <2> QED BY <1>0, <1>9, <2>1, LocalStep DEF Unwind, Waiting
<1>10. ASSUME NEW w \in Writes, ReleaseClaim(w) PROVE IInv'
  <2>1. /\ UNCHANGED <<pc, plan, lock, seen, expired, proc>>
        /\ pc[w] = "executed" /\ (proc[w] = "exited" \/ w \in expired)
        /\ claims' = claims \ {w}
    BY <1>10 DEF ReleaseClaim, ReleaseWhen
  <2>2. \A v \in Writes : InFlight(v)' = InFlight(v)
    BY <2>1 DEF InFlight, Gated
  <2>3. InFlight(w) => w \in expired
    BY <2>1 DEF InFlight
  <2> QED BY <1>0, <2>1, <2>2, <2>3, QuietStep
<1>11. ASSUME NEW w \in Writes, ClaimExpires(w) PROVE IInv'
  <2>1. \A v \in Writes : InFlight(v)' = InFlight(v)
    BY <1>11 DEF ClaimExpires, InFlight, Gated
  <2> QED BY <1>0, <1>11, <2>1, QuietStep DEF ClaimExpires
<1>12. ASSUME NEW w \in Writes, Command(w) PROVE IInv'
  <2>1. /\ UNCHANGED <<pc, plan, lock, seen, claims, expired>>
        /\ proc[w] # "none"
        /\ \A v \in Writes \ {w} : proc'[v] = proc[v]
        /\ proc'[w] \in {"started", "cleared", "up", "exited"}
        /\ proc'[w] # "exited" => proc[w] \in {"started", "cleared", "up"}
    BY <1>t, <1>12 DEF Command, DownRunning, ComposeUp, Exit
  <2>2. \A v \in Writes : InFlight(v)' => InFlight(v)
    BY <2>1 DEF InFlight, Gated
  <2> QED BY <1>0, <2>1, <2>2, QuietStep
<1>13. ASSUME UNCHANGED <<cockpit, claims, expired, proc>> PROVE IInv'
  <2>1. \A v \in Writes : InFlight(v)' = InFlight(v)
    BY <1>13 DEF InFlight, Gated
  <2> QED BY <1>0, <1>13, <2>1, QuietStep
<1>14. ASSUME NEW h \in Holders, Load(h) \/ Die(h) PROVE IInv'
  BY <1>13, <1>14 DEF Load, Die
<1>15. CASE EstateBoot
  BY <1>13, <1>15 DEF EstateBoot
<1>16. CASE UNCHANGED vars
  BY <1>13, <1>16 DEF vars
<1> QED
  BY <1>1, <1>2, <1>3, <1>4, <1>5, <1>6, <1>7, <1>8, <1>9, <1>10, <1>11, <1>12,
     <1>14, <1>15, <1>16 DEF Next, Coroutine

-----------------------------------------------------------------------------
(* The theorems.                                                           *)

\* The inductive invariant holds in every behaviour.
THEOREM Invariance == Spec => []IInv
BY InitInv, InvStep, PTL DEF Spec

\* The state of the gate, its claims and the host keeps its types.
THEOREM TypeCorrect == Spec => []TypeOK
BY Invariance, PTL DEF IInv

\* No gated command ever runs without its claim, except past the TTL.
THEOREM ClaimsCover == Spec => []ClaimCoversFlight
BY Invariance, PTL DEF IInv

\* Whoever has passed the gate finds no other write in flight: what it stops and
\* what it starts collide with no boot that the cockpit itself has under way.
THEOREM PastGateAlone == Spec => []AlonePastGate
BY Invariance, PTL DEF IInv

\* Overlapping writes are always the work of a forced blind plan or of the TTL.
THEOREM OverlapExplained == Spec => []NoOverlap
BY Invariance, PTL DEF IInv

\* The gates never interleave, whatever is cancelled.
THEOREM SerialGate == Spec => []GateIsSerial
BY Invariance, PTL DEF IInv

-----------------------------------------------------------------------------
(* The gate implements the single-flight lease when no call fails, no TTL  *)
(* runs out and no plan skips the gate.                                    *)

Calm == ~CallsFail /\ ~TtlElapses /\ \A p \in Plans : ~p.skip

\* Under those conditions nothing is ever blind and no claim expires.
CalmInv == /\ expired = {}
           /\ \A w \in Writes : ~seen[w].failed /\ ~plan[w].skip

LEMMA CalmInit == Init => CalmInv
BY DEF Init, CalmInv, Nothing

\* A calm step keeps it so: no reconcile fails and every new plan goes through the gate.
LEMMA CalmStep ==
  ASSUME Calm, TypeOK, CalmInv, [Next]_vars
  PROVE  CalmInv'
<1>0. /\ seen \in [Writes -> Observation]
      /\ plan \in [Writes -> Plan]
  BY DEF TypeOK
<1>1. ASSUME NEW w \in Writes, Dispatch(w) PROVE CalmInv'
  BY <1>0, <1>1 DEF Dispatch, CalmInv, Calm
<1>2. ASSUME NEW w \in Writes, Reconcile(w) PROVE CalmInv'
  BY <1>0, <1>2 DEF Reconcile, Conclude, Verdict, CalmInv
<1>3. ASSUME NEW w \in Writes, ReadGpus(w) \/ ReadDocker(w) \/ ReadEstate(w) \/ StopConflict(w)
      PROVE  CalmInv'
  <2>1. \A v \in Writes : seen'[v].failed = seen[v].failed
    BY <1>0, <1>3 DEF ReadGpus, ReadDocker, ReadEstate, StopConflict, Observation
  <2> QED BY <1>3, <2>1 DEF ReadGpus, ReadDocker, ReadEstate, StopConflict, CalmInv
<1>4. ASSUME UNCHANGED <<plan, seen, expired>> PROVE CalmInv'
  BY <1>4 DEF CalmInv
<1>5. ASSUME NEW w \in Writes,
             AcquireLock(w) \/ Spawn(w) \/ SpawnFails(w) \/ Unwind(w) \/ ReleaseClaim(w) \/ Command(w)
      PROVE  UNCHANGED <<plan, seen, expired>>
  BY <1>5 DEF AcquireLock, Spawn, SpawnFails, Unwind, ReleaseClaim, ReleaseWhen, Command,
              DownRunning, ComposeUp, Exit, cockpit
<1>6. ASSUME \/ \E h \in Holders : Load(h) \/ Die(h)
             \/ EstateBoot \/ UNCHANGED vars
      PROVE  UNCHANGED <<plan, seen, expired>>
  BY <1>6 DEF Load, Die, EstateBoot, vars, cockpit
<1>7. \A w \in Writes : ~ReconcileFails(w) /\ ~ClaimExpires(w)
  BY DEF Calm, ReconcileFails, ClaimExpires
<1> QED BY <1>1, <1>2, <1>3, <1>4, <1>5, <1>6, <1>7 DEF Next, Coroutine

Flying == {w \in Writes : InFlight(w)}

\* Every calm step starts a write when none is in flight, lands one, or leaves the
\* set of writes in flight alone.
LEMMA LeaseStep ==
  ASSUME Calm, IInv, CalmInv, [Next]_vars
  PROVE  [Lease!Next]_Flying
<1>0. /\ proc \in [Writes -> {"none", "started", "cleared", "up", "exited"}]
      /\ plan \in [Writes -> Plan]
  BY DEF IInv, TypeOK
<1> USE DEF Flying
<1>1. ASSUME NEW w \in Writes, Spawn(w) PROVE [Lease!Next]_Flying
  <2>1. /\ \A v \in Writes \ {w} : InFlight(v)' = InFlight(v)
        /\ InFlight(w)' = Gated(w)
        /\ ~InFlight(w)
    BY <1>0, <1>1 DEF Spawn, Resumes, InFlight, Gated, IInv, ProcBehindReturn
  <2>2. CASE Gated(w)
    <3>1. \A v \in Writes : ~InFlight(v)
      BY <1>1, <2>2 DEF Spawn, Resumes, IInv, AlonePastGate, Blind, CalmInv
    <3>2. Flying = {} /\ Flying' = {w}
      BY <2>1, <2>2, <3>1
    <3> QED BY <3>2 DEF Lease!Next, Lease!Start
  <2>3. CASE ~Gated(w)
    BY <2>1, <2>3
  <2> QED BY <2>2, <2>3
<1>2. ASSUME NEW w \in Writes, Exit(w) PROVE [Lease!Next]_Flying
  <2>1. /\ \A v \in Writes \ {w} : InFlight(v)' = InFlight(v)
        /\ ~InFlight(w)'
    BY <1>0, <1>2 DEF Exit, InFlight, Gated, cockpit
  <2>2. CASE InFlight(w)
    <3>1. w \in Flying /\ Flying' = Flying \ {w}
      BY <2>1, <2>2
    <3> QED BY <3>1 DEF Lease!Next, Lease!Land
  <2>3. CASE ~InFlight(w)
    BY <2>1, <2>3
  <2> QED BY <2>2, <2>3
<1>3. ASSUME \A w \in Writes : InFlight(w)' = InFlight(w) PROVE [Lease!Next]_Flying
  BY <1>3
<1>4. ASSUME NEW w \in Writes, Dispatch(w) PROVE [Lease!Next]_Flying
  BY <1>0, <1>3, <1>4 DEF Dispatch, InFlight, Gated, host, IInv, ProcBehindReturn
<1>5. ASSUME NEW w \in Writes, DownRunning(w) \/ ComposeUp(w) PROVE [Lease!Next]_Flying
  <2>1. \A v \in Writes : InFlight(v)' = InFlight(v)
    BY <1>0, <1>5 DEF DownRunning, ComposeUp, InFlight, Gated, cockpit
  <2> QED BY <1>3, <2>1
<1>6. ASSUME UNCHANGED <<plan, proc>> PROVE [Lease!Next]_Flying
  BY <1>3, <1>6 DEF InFlight, Gated
<1>7. ASSUME NEW w \in Writes,
             \/ AcquireLock(w) \/ ReadGpus(w) \/ ReadDocker(w) \/ ReadEstate(w) \/ Reconcile(w)
             \/ ReconcileFails(w) \/ StopConflict(w) \/ SpawnFails(w) \/ Unwind(w)
             \/ ReleaseClaim(w) \/ ClaimExpires(w)
      PROVE  UNCHANGED <<plan, proc>>
  BY <1>7 DEF AcquireLock, ReadGpus, ReadDocker, ReadEstate, Reconcile, ReconcileFails, StopConflict,
              SpawnFails, Unwind, ReleaseClaim, ReleaseWhen, ClaimExpires, cockpit, host
<1>8. ASSUME \/ \E h \in Holders : Load(h) \/ Die(h)
             \/ EstateBoot \/ UNCHANGED vars
      PROVE  UNCHANGED <<plan, proc>>
  BY <1>8 DEF Load, Die, EstateBoot, vars, cockpit, host
<1> QED BY <1>1, <1>2, <1>4, <1>5, <1>6, <1>7, <1>8 DEF Next, Coroutine, Command

\* When every call answers, no TTL elapses and no plan skips the gate, the cockpit's
\* writes are a single-flight lease: each one starts only when none is in flight.
THEOREM ImplementsLease == ASSUME Calm PROVE Spec => LeaseSpec
<1>1. Init => Lease!Init
  BY DEF Init, Lease!Init, InFlight
<1>2. IInv /\ CalmInv /\ [Next]_vars => CalmInv'
  BY CalmStep DEF IInv
<1>3. IInv /\ CalmInv /\ [Next]_vars => [Lease!Next]_Flying
  BY LeaseStep
<1> QED BY <1>1, <1>2, <1>3, CalmInit, Invariance, PTL DEF Spec, LeaseSpec, Lease!Spec, Flying

\* Under the same conditions the claim is the hard block its comment says it is.
THEOREM CalmHardBlock == ASSUME Calm PROVE Spec => []HardBlock
<1>1. IInv /\ CalmInv => HardBlock
  BY DEF IInv, NoOverlap, CalmInv, Blind, HardBlock
<1>2. IInv /\ CalmInv /\ [Next]_vars => CalmInv'
  BY CalmStep DEF IInv
<1> QED BY <1>1, <1>2, CalmInit, Invariance, PTL DEF Spec
=============================================================================
