------------------------- MODULE ModelSwitch_proofs -------------------------
(***************************************************************************)
(* The model switch's invariants for any number of requests, shells and    *)
(* slugs.                                                                  *)
(*                                                                         *)
(* What the lock promises holds whatever fails.  What down_running keeps   *)
(* off the cards needs a docker ps that answers.                           *)
(***************************************************************************)
EXTENDS ModelSwitch, TLAPS

\* Whatever runs for a request runs under the lock, or was given up on.
Locked ==
  /\ \A r \in Requests :
       /\ handler[r] = "switching" => lock = r
       /\ script[r] \in Bash => handler[r] = "switching"
       /\ handler[r] \in {"new", "probing", "acquiring"} => script[r] = "none"
  /\ \A c \in Runs : child[c].does # "nothing" => script[c] = "killed"

LockInv == TypeOK /\ Locked

-----------------------------------------------------------------------------
(* Type correctness and the lock.                                          *)

LEMMA BringsUpType ==
  ASSUME TypeOK, NEW c \in Runs, BringsUp(c)
  PROVE  /\ box' \in [Slugs -> {"none", "booting", "ready"}]
         /\ maker' \in [Slugs -> Runs \cup {Nobody}]
<1>1. box' \in [Slugs -> {"none", "booting", "ready"}]
  <2> DEFINE new == IF box[Want[c]] = "none" THEN "booting" ELSE box[Want[c]]
  <2>1. new \in {"none", "booting", "ready"} /\ box' = [box EXCEPT ![Want[c]] = new]
    BY ConstantsAssumption DEF BringsUp, TypeOK
  <2> QED BY <2>1 DEF TypeOK
<1> QED BY <1>1 DEF BringsUp, TypeOK

LEMMA TypeStep == TypeOK /\ [Next]_vars => TypeOK'
<1> SUFFICES ASSUME TypeOK, [Next]_vars PROVE TypeOK'
  OBVIOUS
<1> USE ConstantsAssumption DEF Runs
<1>0. \A c \in Runs : Idle(c) \in [does : {"nothing", "down", "up"}, to : Slugs]
  BY DEF Idle
<1>1. ASSUME NEW r \in Requests, ReadContainer(r) \/ Probe(r) PROVE TypeOK'
  <2>1. handler' \in [Requests -> {"new", "probing", "acquiring", "switching"} \cup Answers]
    BY <1>1 DEF ReadContainer, Probe, Respond, TypeOK, Answers
  <2>2. saw' \in [Requests -> Slugs \cup {Nobody}]
    BY <1>1 DEF ReadContainer, Probe, TypeOK
  <2> QED BY <1>1, <2>1, <2>2 DEF ReadContainer, Probe, TypeOK, host
<1>2. ASSUME NEW r \in Requests, Acquire(r) PROVE TypeOK'
  BY <1>2 DEF Acquire, Respond, Launch, TypeOK, Answers, Bash, host
<1>3. ASSUME NEW r \in Requests, Refuse(r) \/ Finish(r) PROVE TypeOK'
  <2>1. CASE Refuse(r)
    BY <2>1 DEF Refuse, Respond, TypeOK, Answers, host
  <2>2. CASE Finish(r)
    BY <2>2 DEF Finish, Respond, TypeOK, Answers, Bash, host
  <2> QED BY <1>3, <2>1, <2>2
<1>4. ASSUME NEW r \in Requests, TimeOut(r) PROVE TypeOK'
  <2>1. child' \in [Runs -> [does : {"nothing", "down", "up"}, to : Slugs]]
    BY <1>4 DEF TimeOut, TypeOK
  <2> QED BY <1>4, <2>1 DEF TimeOut, TypeOK, service, host
<1>5. ASSUME NEW c \in Shells, FromShell(c) PROVE TypeOK'
  BY <1>5 DEF FromShell, Launch, TypeOK, Bash, service, host
<1>6. ASSUME NEW c \in Runs, List(c) \/ DownRunning(c) PROVE TypeOK'
  <2>1. CASE List(c)
    BY <2>1 DEF List, Goes, TypeOK, Bash, service, host
  <2>2. CASE DownRunning(c)
    <3>1. box' \in [Slugs -> {"none", "booting", "ready"}] /\ maker' = maker
      BY <2>2 DEF DownRunning, TakesDown, TypeOK, host
    <3>2. script' \in [Runs -> {"none", "ready", "failed", "killed"} \cup Bash]
      BY <2>2 DEF DownRunning, Goes, TypeOK, Bash
    <3>3. toDown' \in [Runs -> SUBSET Slugs]
      BY <2>2 DEF DownRunning, TypeOK
    <3> QED BY <2>2, <3>1, <3>2, <3>3 DEF DownRunning, TypeOK, service
  <2> QED BY <1>6, <2>1, <2>2
<1>7. ASSUME NEW c \in Runs, Preflight(c) \/ FindContainer(c) \/ WaitReady(c) PROVE TypeOK'
  BY <1>7, SMTT(30) DEF Preflight, FindContainer, WaitReady, Goes, TypeOK, Bash, service, host
<1>8. ASSUME NEW c \in Runs, UpVariant(c) PROVE TypeOK'
  <2>1. script' \in [Runs -> {"none", "ready", "failed", "killed"} \cup Bash]
    BY <1>8 DEF UpVariant, Goes, TypeOK, Bash
  <2>2. UNCHANGED host \/ BringsUp(c)
    BY <1>8 DEF UpVariant
  <2> QED BY <1>8, <2>1, <2>2, BringsUpType DEF UpVariant, TypeOK, service, host
<1>9. ASSUME NEW c \in Runs, LeftBehind(c) PROVE TypeOK'
  <2>1. child' \in [Runs -> [does : {"nothing", "down", "up"}, to : Slugs]]
    BY <1>9, <1>0 DEF LeftBehind, TypeOK
  <2>2. /\ box' \in [Slugs -> {"none", "booting", "ready"}]
        /\ maker' \in [Slugs -> Runs \cup {Nobody}]
    <3>1. CASE BringsUp(c)
      BY <3>1, BringsUpType
    <3>2. CASE TakesDown(child[c].to)
      BY <3>2 DEF TakesDown, TypeOK
    <3>3. CASE UNCHANGED host
      BY <3>3 DEF host, TypeOK
    <3> QED BY <1>9, <3>1, <3>2, <3>3 DEF LeftBehind
  <2> QED BY <1>9, <2>1, <2>2 DEF LeftBehind, TypeOK, service
<1>10. ASSUME NEW s \in Slugs, Boot(s) \/ Die(s) PROVE TypeOK'
  BY <1>10 DEF Boot, Die, TypeOK, service
<1>11. CASE ServiceCrash
  <2>1. child' \in [Runs -> [does : {"nothing", "down", "up"}, to : Slugs]]
    BY <1>11, <1>0 DEF ServiceCrash, TypeOK
  <2> QED BY <1>11, <2>1 DEF ServiceCrash, TypeOK, Answers, Bash, host
<1>12. CASE UNCHANGED vars
  BY <1>12 DEF vars, service, host, TypeOK
<1> QED
  BY <1>1, <1>2, <1>3, <1>4, <1>5, <1>6, <1>7, <1>8, <1>9, <1>10, <1>11, <1>12
     DEF Next, Handler, Script

LEMMA LockedStep == LockInv /\ [Next]_vars => Locked'
<1> SUFFICES ASSUME LockInv, [Next]_vars PROVE Locked'
  OBVIOUS
<1> USE ConstantsAssumption DEF Runs, LockInv
<1>1. ASSUME NEW r \in Requests, ReadContainer(r) \/ Probe(r) \/ Refuse(r) PROVE Locked'
  BY <1>1 DEF ReadContainer, Probe, Refuse, Respond, TypeOK, Locked, Answers, Bash, host
<1>2. ASSUME NEW r \in Requests, Acquire(r) PROVE Locked'
  BY <1>2 DEF Acquire, Respond, Launch, TypeOK, Locked, Bash, host
<1>3. ASSUME NEW r \in Requests, Finish(r) PROVE Locked'
  BY <1>3 DEF Finish, Respond, TypeOK, Locked, Bash, host
<1>4. ASSUME NEW r \in Requests, TimeOut(r) PROVE Locked'
  BY <1>4 DEF TimeOut, TypeOK, Locked, Bash, service, host
<1>5. ASSUME NEW c \in Shells, FromShell(c) PROVE Locked'
  BY <1>5 DEF FromShell, Launch, TypeOK, Locked, Bash, service, host
<1>6. ASSUME NEW c \in Runs, List(c) \/ DownRunning(c) PROVE Locked'
  BY <1>6 DEF List, DownRunning, TakesDown, Goes, TypeOK, Locked, Bash, service, host
<1>7. ASSUME NEW c \in Runs, Preflight(c) \/ FindContainer(c) \/ WaitReady(c) PROVE Locked'
  BY <1>7 DEF Preflight, FindContainer, WaitReady, Goes, TypeOK, Locked, Bash, service, host
<1>8. ASSUME NEW c \in Runs, UpVariant(c) PROVE Locked'
  BY <1>8 DEF UpVariant, BringsUp, Goes, TypeOK, Locked, Bash, service, host
<1>9. ASSUME NEW c \in Runs, LeftBehind(c) PROVE Locked'
  BY <1>9 DEF LeftBehind, TypeOK, Locked, Idle, service, host
<1>10. ASSUME NEW s \in Slugs, Boot(s) \/ Die(s) PROVE Locked'
  BY <1>10 DEF Boot, Die, Locked, service
<1>11. CASE ServiceCrash
  BY <1>11 DEF ServiceCrash, TypeOK, Locked, Answers, Bash, Idle, host
<1>12. CASE UNCHANGED vars
  BY <1>12 DEF vars, service, host, Locked
<1> QED
  BY <1>1, <1>2, <1>3, <1>4, <1>5, <1>6, <1>7, <1>8, <1>9, <1>10, <1>11, <1>12
     DEF Next, Handler, Script

\* The invariant of the lock, which the other theorems use.
THEOREM LockHeld == Spec => []LockInv
<1>1. Init => LockInv
  BY ConstantsAssumption DEF Init, LockInv, TypeOK, Locked, Runs, Answers, Bash, Idle
<1>2. LockInv /\ [Next]_vars => LockInv'
  BY TypeStep, LockedStep DEF LockInv
<1> QED BY <1>1, <1>2, PTL DEF Spec

\* The variables of the switch keep their types.
THEOREM TypeCorrect == Spec => []TypeOK
BY LockHeld, PTL DEF LockInv

-----------------------------------------------------------------------------
(* The requests' switches.                                                 *)

\* What becomes of a run of switch.sh in a step: a killed one stays killed and
\* no run is started but by a shell or by the request that takes the lock.
LEMMA Started ==
  ASSUME LockInv, [Next]_vars,
         NEW c \in Runs, NEW d \in Runs, {c, d} \in met', {c, d} \notin met
  PROVE  \/ script[c] = "none" /\ Alive(d) /\ (c \in Requests => lock = Nobody)
         \/ script[d] = "none" /\ Alive(c) /\ (d \in Requests => lock = Nobody)
<1> USE ConstantsAssumption DEF Runs
<1>1. ASSUME NEW e \in Runs, Launch(e), script[e] = "none" PROVE (c = e /\ Alive(d)) \/ (d = e /\ Alive(c))
  <2>1. PICK x \in Runs \ {e} : Alive(x) /\ {c, d} = {e, x}
    BY <1>1 DEF Launch
  <2>2. c \in {e, x} /\ d \in {e, x} /\ e \in {c, d} /\ x \in {c, d}
    BY <2>1
  <2>3. (c = e /\ d = x) \/ (d = e /\ c = x)
    BY <2>2
  <2> QED BY <2>1, <2>3
<1>2. ASSUME NEW e \in Requests, Acquire(e) PROVE lock = Nobody /\ Launch(e) /\ script[e] = "none"
  BY <1>2 DEF Acquire, LockInv, Locked
<1>3. ASSUME NEW e \in Shells, FromShell(e) PROVE Launch(e) /\ script[e] = "none" /\ e \notin Requests
  BY <1>3 DEF FromShell
<1>4. CASE UNCHANGED met
  BY <1>4
<1> QED
  BY <1>1, <1>2, <1>3, <1>4
     DEF Next, Handler, Script, ReadContainer, Probe, Refuse, Finish, TimeOut, List, DownRunning,
         Preflight, UpVariant, FindContainer, WaitReady, LeftBehind, Boot, Die, ServiceCrash, vars

LEMMA KilledStays ==
  ASSUME LockInv, [Next]_vars, NEW c \in Runs, script[c] = "killed"
  PROVE  script'[c] = "killed"
BY ConstantsAssumption
   DEF LockInv, TypeOK, Locked, Next, Handler, Script, ReadContainer, Probe, Acquire, Refuse, Finish,
       TimeOut, FromShell, Launch, List, DownRunning, Preflight, UpVariant, FindContainer, WaitReady,
       LeftBehind, Boot, Die, ServiceCrash, Goes, vars, service, host, Runs, Bash

\* Two requests' switches are at work together only if one was given up on.
THEOREM RequestsMeet == Spec => []RequestsMeetAfterTimeOut
<1>1. Init => RequestsMeetAfterTimeOut
  BY DEF Init, RequestsMeetAfterTimeOut
<1>2. LockInv /\ RequestsMeetAfterTimeOut /\ [Next]_vars => RequestsMeetAfterTimeOut'
  <2> SUFFICES ASSUME LockInv, RequestsMeetAfterTimeOut, [Next]_vars,
                      NEW r \in Requests, NEW q \in Requests, r # q, {r, q} \in met'
               PROVE  "killed" \in {script'[r], script'[q]}
    BY DEF RequestsMeetAfterTimeOut
  <2> USE DEF Runs
  <2>1. CASE {r, q} \in met
    BY <2>1, KilledStays DEF RequestsMeetAfterTimeOut
  <2>2. CASE {r, q} \notin met
    <3>1. \A p \in Requests : Alive(p) /\ lock = Nobody => script[p] = "killed"
      BY ConstantsAssumption DEF Alive, LockInv, Locked
    <3> QED BY <2>2, <3>1, Started, KilledStays
  <2> QED BY <2>1, <2>2
<1> QED BY <1>1, <1>2, LockHeld, PTL DEF Spec

\* The requests whose switch.sh runs.
Flying == {r \in Requests : script[r] \in Bash}

LEMMA LeaseStep == LockInv /\ [Next]_vars => [Lease!Next]_Flying
<1> SUFFICES ASSUME LockInv, [Next]_vars PROVE [Lease!Next]_Flying
  OBVIOUS
<1> USE ConstantsAssumption DEF Runs
<1>o. \A r, q \in Flying : r = q
  BY DEF Flying, LockInv, Locked
<1>f. Flying \subseteq Requests
  BY DEF Flying
<1>1. ASSUME Flying' \subseteq Flying PROVE [Lease!Next]_Flying
  <2>1. CASE Flying' # Flying
    <3>1. PICK r \in Flying : r \notin Flying'
      BY <1>1, <2>1
    <3>2. Flying' = Flying \ {r}
      BY <1>1, <1>o, <3>1
    <3> QED BY <1>f, <3>1, <3>2 DEF Lease!Next, Lease!Land, Flying
  <2> QED BY <2>1
<1>2. ASSUME NEW r \in Requests, Acquire(r) PROVE [Lease!Next]_Flying
  <2>1. Flying = {}
    BY <1>2 DEF Acquire, Flying, LockInv, Locked
  <2>2. script' = [script EXCEPT ![r] = "listing"]
    BY <1>2 DEF Acquire, Launch
  <2>3. Flying' = {r}
    BY <2>1, <2>2 DEF Flying, LockInv, TypeOK, Bash
  <2> QED BY <2>1, <2>3 DEF Lease!Next, Lease!Start, Flying
<1>3. ASSUME NEW c \in Runs, NEW to, script' = [script EXCEPT ![c] = to],
             script[c] \in Bash \/ to \notin Bash \/ c \notin Requests
      PROVE  [Lease!Next]_Flying
  BY <1>1, <1>3 DEF Flying, LockInv, TypeOK
<1>4. CASE UNCHANGED script
  BY <1>1, <1>4 DEF Flying
<1>5. ASSUME NEW c \in Shells, FromShell(c) PROVE [Lease!Next]_Flying
  BY <1>3, <1>5 DEF FromShell, Launch
<1>6. ASSUME NEW r \in Requests, TimeOut(r) PROVE [Lease!Next]_Flying
  BY <1>3, <1>6 DEF TimeOut
<1>7. ASSUME NEW c \in Runs, Script(c) PROVE [Lease!Next]_Flying
  <2>1. CASE List(c)
    BY <1>3, <2>1 DEF List, Goes, Bash
  <2>2. CASE DownRunning(c)
    BY <1>3, <1>4, <2>2 DEF DownRunning, Goes, Bash
  <2>3. CASE Preflight(c) \/ UpVariant(c)
    BY <1>3, <2>3 DEF Preflight, UpVariant, Goes, Bash
  <2>4. CASE FindContainer(c) \/ WaitReady(c)
    BY <1>3, <2>4 DEF FindContainer, WaitReady, Goes, Bash
  <2>5. CASE LeftBehind(c)
    BY <1>4, <2>5 DEF LeftBehind
  <2> QED BY <1>7, <2>1, <2>2, <2>3, <2>4, <2>5 DEF Script
<1>8. CASE ServiceCrash
  <2>1. Flying' \subseteq Flying
    BY <1>8 DEF ServiceCrash, Flying, Bash
  <2> QED BY <1>1, <2>1
<1> QED
  BY <1>2, <1>4, <1>5, <1>6, <1>7, <1>8
     DEF Next, Handler, ReadContainer, Probe, Refuse, Finish, Boot, Die, vars

\* The handlers that run switch.sh take turns, as the lease asks.
THEOREM ImplementsLease == Spec => LeaseSpec
<1>1. Init => Lease!Init
  BY DEF Init, Lease!Init, Bash, Runs
<1>2. LockInv /\ [Next]_vars => [Lease!Next]_Flying
  BY LeaseStep
<1> QED BY <1>1, <1>2, LockHeld, PTL DEF Spec, LeaseSpec, Lease!Spec, Flying

-----------------------------------------------------------------------------
(* The containers.                                                         *)

\* Runs that are at work at one time are known to have met.
AliveMet == \A c, d \in Runs : c # d /\ Alive(c) /\ Alive(d) => {c, d} \in met

\* What is still up was started by a run that c has met ...
Known(c, s) == Up(s) => {maker[s], c} \in met

\* ... or c is going to take it down; once it is past that, there is nothing else.
DownMet == \A c \in Runs : script[c] = "downing" => \A s \in Slugs : s \in toDown[c] \/ Known(c, s)
PastMet ==
  \A c \in Runs : script[c] \in {"checking", "upping"} \/ child[c].does = "up"
                    => \A s \in Slugs : Known(c, s)

EngineInv == AliveMet /\ DownMet /\ PastMet /\ TwoEnginesMet

\* No step but compose up's puts a container up, and none forgets a meeting.
LEMMA OnlyUpAdds ==
  ASSUME LockInv, [Next]_vars
  PROVE  /\ met \subseteq met'
         /\ \/ \E c \in Runs : /\ script[c] = "upping" \/ child[c].does = "up"
                               /\ BringsUp(c)
                               /\ UpVariant(c) \/ LeftBehind(c)
            \/ \A s \in Slugs : Up(s)' => Up(s) /\ maker'[s] = maker[s]
<1> USE ConstantsAssumption DEF Runs, LockInv, TypeOK
<1>1. CASE UNCHANGED host
  BY <1>1 DEF host, Up, Next, Handler, Script, ReadContainer, Probe, Acquire, Refuse, Finish, TimeOut,
              FromShell, Launch, List, DownRunning, Preflight, UpVariant, FindContainer, WaitReady,
              LeftBehind, Boot, Die, ServiceCrash, vars
<1>2. ASSUME NEW s \in Slugs, TakesDown(s) PROVE \A t \in Slugs : Up(t)' => Up(t) /\ maker'[t] = maker[t]
  BY <1>2 DEF TakesDown, Up
<1>3. ASSUME NEW c \in Runs, DownRunning(c) PROVE \A t \in Slugs : Up(t)' => Up(t) /\ maker'[t] = maker[t]
  BY <1>2, <1>3 DEF DownRunning, host, Up
<1>4. ASSUME NEW s \in Slugs, Boot(s) \/ Die(s) PROVE \A t \in Slugs : Up(t)' => Up(t) /\ maker'[t] = maker[t]
  BY <1>4 DEF Boot, Die, Up
<1>5. ASSUME NEW c \in Runs, UpVariant(c) PROVE (script[c] = "upping" /\ BringsUp(c)) \/ UNCHANGED host
  BY <1>5 DEF UpVariant
<1>6. ASSUME NEW c \in Runs, LeftBehind(c)
      PROVE  \/ child[c].does = "up" /\ BringsUp(c)
             \/ UNCHANGED host
             \/ \A t \in Slugs : Up(t)' => Up(t) /\ maker'[t] = maker[t]
  <2>1. child[c].to \in Slugs
    OBVIOUS
  <2> QED BY <1>2, <1>6, <2>1 DEF LeftBehind
<1>7. met \subseteq met'
  BY DEF Next, Handler, Script, ReadContainer, Probe, Acquire, Refuse, Finish, TimeOut, FromShell, Launch,
         List, DownRunning, Preflight, UpVariant, FindContainer, WaitReady, LeftBehind, Boot, Die,
         ServiceCrash, vars
<1>8. UNCHANGED host \/ (\E c \in Runs : DownRunning(c) \/ UpVariant(c) \/ LeftBehind(c)) \/ (\E s \in Slugs : Boot(s) \/ Die(s))
  BY DEF Next, Handler, Script, ReadContainer, Probe, Acquire, Refuse, Finish, TimeOut, FromShell, Launch,
         List, Preflight, FindContainer, WaitReady, ServiceCrash, vars, host
<1> QED BY <1>1, <1>3, <1>4, <1>5, <1>6, <1>7, <1>8

LEMMA AliveStep == LockInv /\ AliveMet /\ [Next]_vars => AliveMet'
<1> SUFFICES ASSUME LockInv, AliveMet, [Next]_vars PROVE AliveMet'
  OBVIOUS
<1> USE ConstantsAssumption DEF Runs
<1>1. ASSUME NEW e \in Runs, Launch(e), script[e] = "none" PROVE AliveMet'
  <2>1. \A c \in Runs \ {e} : Alive(c)' => Alive(c)
    BY <1>1 DEF Launch, Alive, LockInv, TypeOK
  <2> QED BY <1>1, <2>1 DEF Launch, AliveMet
<1>2. ASSUME UNCHANGED met, \A c \in Runs : Alive(c)' => Alive(c) PROVE AliveMet'
  BY <1>2 DEF AliveMet
<1>3. ASSUME NEW r \in Requests, Handler(r) PROVE AliveMet'
  <2>1. CASE Acquire(r)
    BY <1>1, <2>1 DEF Acquire, LockInv, Locked
  <2>2. CASE ~Acquire(r)
    BY <1>2, <1>3, <2>2 DEF Handler, ReadContainer, Probe, Refuse, Finish, Alive
  <2> QED BY <2>1, <2>2
<1>4. ASSUME NEW r \in Requests, TimeOut(r) PROVE AliveMet'
  <2>1. \A c \in Runs : Alive(c)' => Alive(c)
    BY <1>4 DEF TimeOut, Alive, LockInv, TypeOK
  <2> QED BY <1>2, <1>4, <2>1 DEF TimeOut
<1>5. ASSUME NEW c \in Shells, FromShell(c) PROVE AliveMet'
  BY <1>1, <1>5 DEF FromShell
<1>6. ASSUME NEW c \in Runs, Script(c) PROVE AliveMet'
  <2>1. CASE LeftBehind(c)
    <3>1. \A d \in Runs : Alive(d)' => Alive(d)
      BY <2>1 DEF LeftBehind, Alive, Idle, LockInv, TypeOK
    <3> QED BY <1>2, <2>1, <3>1 DEF LeftBehind
  <2>2. CASE ~LeftBehind(c)
    <3>1. script[c] \in Bash /\ UNCHANGED <<child, met>>
      BY <1>6, <2>2 DEF Script, List, DownRunning, Preflight, UpVariant, FindContainer, WaitReady, Bash
    <3>2. \A d \in Runs \ {c} : script'[d] = script[d]
      BY <1>6, <2>2 DEF Script, List, DownRunning, Preflight, UpVariant, FindContainer, WaitReady, Goes,
                        LockInv, TypeOK
    <3> QED BY <1>2, <3>1, <3>2 DEF Alive
  <2> QED BY <2>1, <2>2
<1>7. CASE ServiceCrash
  <2>1. \A c \in Runs : Alive(c)' => Alive(c)
    BY <1>7 DEF ServiceCrash, Alive, Idle, Bash
  <2> QED BY <1>2, <1>7, <2>1 DEF ServiceCrash
<1>8. ASSUME UNCHANGED <<script, child, met>> PROVE AliveMet'
  BY <1>2, <1>8 DEF Alive
<1> QED
  BY <1>3, <1>4, <1>5, <1>6, <1>7, <1>8 DEF Next, Boot, Die, vars

\* A run that has still to bring its own container up.
Before(c) == script[c] \in {"downing", "checking", "upping"} \/ child[c].does = "up"

\* What such a run knows of a container it knows after the step, whoever has
\* brought it up meanwhile.
LEMMA KnownStays ==
  ASSUME LockInv, AliveMet, [Next]_vars,
         NEW c \in Runs, Before(c), Before(c)', NEW s \in Slugs, Known(c, s)
  PROVE  Known(c, s)'
<1>1. CASE \A t \in Slugs : Up(t)' => Up(t) /\ maker'[t] = maker[t]
  BY <1>1, OnlyUpAdds DEF Known
<1>2. ASSUME NEW d \in Runs, script[d] = "upping" \/ child[d].does = "up", BringsUp(d),
             UpVariant(d) \/ LeftBehind(d)
      PROVE  Known(c, s)'
  <2>1. d # c
    <3>1. CASE UpVariant(c)
      BY <3>1 DEF UpVariant, Goes, Before, LockInv, TypeOK, Locked
    <3>2. CASE LeftBehind(c)
      BY <3>2 DEF LeftBehind, Idle, Before, LockInv, TypeOK, Locked
    <3> QED BY <1>2, <3>1, <3>2
  <2>2. {d, c} \in met
    BY <1>2, <2>1 DEF AliveMet, Alive, Bash, Before
  <2>3. CASE s = Want[d]
    BY <1>2, <2>2, <2>3, OnlyUpAdds DEF BringsUp, Known, LockInv, TypeOK
  <2>4. CASE s # Want[d]
    BY <1>2, <2>4, OnlyUpAdds DEF BringsUp, Known, Up, LockInv, TypeOK
  <2> QED BY <2>3, <2>4
<1> QED BY <1>1, <1>2, OnlyUpAdds

\* Where a run that has still to bring its container up comes from.
LEMMA Advances ==
  ASSUME LockInv, [Next]_vars, NEW c \in Runs
  PROVE  /\ script'[c] = "downing" => script[c] = "downing" \/ (script[c] = "listing" /\ List(c))
         /\ script'[c] = "checking" => script[c] = "checking" \/ (script[c] = "downing" /\ toDown[c] = {})
         /\ script'[c] = "upping" => script[c] \in {"checking", "upping"}
         /\ child'[c].does = "up" => child[c].does = "up" \/ script[c] = "upping"
<1> USE ConstantsAssumption DEF Runs, LockInv, TypeOK
<1>1. ASSUME NEW r \in Requests, Handler(r) \/ TimeOut(r)
      PROVE  /\ script'[c] \in {"downing", "checking", "upping"} => script'[c] = script[c]
             /\ child'[c].does = "up" => child[c].does = "up" \/ script[c] = "upping"
  BY <1>1 DEF Handler, ReadContainer, Probe, Acquire, Refuse, Finish, TimeOut, Launch, Bash
<1>2. ASSUME NEW d \in Shells, FromShell(d)
      PROVE  UNCHANGED child /\ (script'[c] \in {"downing", "checking", "upping"} => script'[c] = script[c])
  BY <1>2 DEF FromShell, Launch
<1>3. ASSUME NEW d \in Runs, LeftBehind(d)
      PROVE  UNCHANGED script /\ (child'[c].does = "up" => child[c].does = "up")
  BY <1>3 DEF LeftBehind, Idle
<1>4. ASSUME NEW d \in Runs, Script(d), ~LeftBehind(d), d # c PROVE script'[c] = script[c] /\ UNCHANGED child
  BY <1>4 DEF Script, List, DownRunning, Preflight, UpVariant, FindContainer, WaitReady, Goes
<1>5. ASSUME Script(c), ~LeftBehind(c)
      PROVE  /\ UNCHANGED child
             /\ script'[c] = "downing" => script[c] = "downing" \/ (script[c] = "listing" /\ List(c))
             /\ script'[c] = "checking" => script[c] = "downing" /\ toDown[c] = {}
             /\ script'[c] = "upping" => script[c] = "checking"
  <2>1. CASE DownRunning(c)
    <3>1. UNCHANGED child /\ script[c] = "downing"
      BY <2>1 DEF DownRunning
    <3>2. \/ script'[c] = "downing"
          \/ script'[c] = "failed"
          \/ script'[c] = "checking" /\ toDown[c] = {}
      BY <2>1, <3>1 DEF DownRunning, Goes
    <3> QED BY <3>1, <3>2
  <2>2. CASE ~DownRunning(c)
    BY <1>5, <2>2 DEF Script, List, Preflight, UpVariant, FindContainer, WaitReady, Goes
  <2> QED BY <2>1, <2>2
<1>6. ASSUME ServiceCrash
      PROVE  /\ script'[c] \in {"killed", script[c]}
             /\ child'[c].does = "up" => child[c].does = "up"
  <2>1. script'[c] \in {"killed", script[c]}
    BY <1>6 DEF ServiceCrash
  <2>2. child'[c] \in {Idle(c), child[c]}
    BY <1>6 DEF ServiceCrash
  <2> QED BY <2>1, <2>2 DEF Idle
<1>7. ASSUME UNCHANGED <<script, child>> PROVE script'[c] = script[c] /\ child'[c] = child[c]
  BY <1>7
<1>8. ASSUME NEW d \in Runs, Script(d), ~LeftBehind(d)
      PROVE  /\ UNCHANGED child
             /\ script'[c] = "downing" => script[c] = "downing" \/ (script[c] = "listing" /\ List(c))
             /\ script'[c] = "checking" => script[c] = "checking" \/ (script[c] = "downing" /\ toDown[c] = {})
             /\ script'[c] = "upping" => script[c] \in {"checking", "upping"}
  <2>1. CASE d = c
    BY <1>5, <1>8, <2>1
  <2>2. CASE d # c
    BY <1>4, <1>8, <2>2
  <2> QED BY <2>1, <2>2
<1>9. \/ \E r \in Requests : Handler(r) \/ TimeOut(r)
      \/ \E d \in Shells : FromShell(d)
      \/ \E d \in Runs : Script(d)
      \/ ServiceCrash
      \/ UNCHANGED <<script, child>>
  BY DEF Next, Boot, Die, vars
<1> QED
  BY <1>1, <1>2, <1>3, <1>6, <1>7, <1>8, <1>9

LEMMA DownStep == LockInv /\ ~PsFails /\ EngineInv /\ [Next]_vars => DownMet'
<1> SUFFICES ASSUME LockInv, ~PsFails, EngineInv, [Next]_vars,
                    NEW c \in Runs, script'[c] = "downing", NEW s \in Slugs
             PROVE  s \in toDown'[c] \/ Known(c, s)'
  BY DEF DownMet
<1>1. CASE script[c] = "listing" /\ List(c)
  BY <1>1 DEF List, Known, Up, host, LockInv, TypeOK
<1>2. CASE script[c] = "downing"
  <2>1. CASE Known(c, s)
    BY <1>2, <2>1, KnownStays DEF EngineInv, Before
  <2>2. CASE s \in toDown[c]
    <3>1. CASE DownRunning(c)
      BY <1>2, <2>2, <3>1 DEF DownRunning, TakesDown, Goes, Known, Up, LockInv, TypeOK
    <3>2. CASE ~DownRunning(c)
      <4>1. UNCHANGED toDown \/ \E d \in Runs : List(d) \/ DownRunning(d)
                             \/ (d \in Requests /\ TimeOut(d)) \/ ServiceCrash
        BY DEF Next, Handler, Script, ReadContainer, Probe, Acquire, Refuse, Finish, FromShell, Launch,
               Preflight, UpVariant, FindContainer, WaitReady, LeftBehind, Boot, Die, vars, Runs
      <4>2. toDown'[c] = toDown[c]
        BY <1>2, <3>2, <4>1 DEF List, DownRunning, TimeOut, ServiceCrash, Bash, LockInv, TypeOK
      <4> QED BY <2>2, <4>2
    <3> QED BY <3>1, <3>2
  <2> QED BY <1>2, <2>1, <2>2 DEF EngineInv, DownMet
<1> QED BY <1>1, <1>2, Advances

LEMMA PastStep == LockInv /\ EngineInv /\ [Next]_vars => PastMet'
<1> SUFFICES ASSUME LockInv, EngineInv, [Next]_vars, NEW c \in Runs, NEW s \in Slugs,
                    script'[c] \in {"checking", "upping"} \/ child'[c].does = "up"
             PROVE  Known(c, s)'
  BY DEF PastMet
<1>1. Before(c) /\ Before(c)'
  BY Advances DEF Before
<1>2. Known(c, s)
  BY Advances DEF EngineInv, DownMet, PastMet
<1> QED BY <1>1, <1>2, KnownStays DEF EngineInv

LEMMA TwoStep == LockInv /\ EngineInv /\ [Next]_vars => TwoEnginesMet'
<1> SUFFICES ASSUME LockInv, EngineInv, [Next]_vars,
                    NEW s \in Slugs, NEW t \in Slugs, s # t, Up(s)', Up(t)'
             PROVE  {maker'[s], maker'[t]} \in met'
  BY DEF TwoEnginesMet
<1>1. CASE \A u \in Slugs : Up(u)' => Up(u) /\ maker'[u] = maker[u]
  BY <1>1, OnlyUpAdds DEF EngineInv, TwoEnginesMet
<1>2. ASSUME NEW c \in Runs, script[c] = "upping" \/ child[c].does = "up", BringsUp(c)
      PROVE  {maker'[s], maker'[t]} \in met'
  <2>0. \A u \in Slugs : Known(c, u)
    BY <1>2 DEF EngineInv, PastMet
  <2>1. \A u \in Slugs : u # Want[c] => (Up(u)' <=> Up(u)) /\ maker'[u] = maker[u]
    BY <1>2 DEF BringsUp, Up, LockInv, TypeOK
  <2>2. \A u \in Slugs : u = Want[c] => maker'[u] = c
    BY <1>2 DEF BringsUp, LockInv, TypeOK
  <2>3. CASE s = Want[c]
    <3>1. {maker[t], c} \in met /\ maker'[t] = maker[t]
      BY <2>0, <2>1, <2>3 DEF Known
    <3>2. {maker'[s], maker'[t]} = {maker[t], c}
      BY <2>2, <2>3, <3>1
    <3> QED BY <3>1, <3>2, OnlyUpAdds
  <2>4. CASE t = Want[c]
    <3>1. {maker[s], c} \in met /\ maker'[s] = maker[s]
      BY <2>0, <2>1, <2>4 DEF Known
    <3> QED BY <2>2, <2>4, <3>1, OnlyUpAdds
  <2>5. CASE s # Want[c] /\ t # Want[c]
    BY <2>1, <2>5, OnlyUpAdds DEF EngineInv, TwoEnginesMet
  <2> QED BY <2>3, <2>4, <2>5
<1> QED BY <1>1, <1>2, OnlyUpAdds

\* While docker ps answers, two engine containers are up together only if the
\* runs of switch.sh that started them were at work at one time.
THEOREM EnginesMet == ASSUME ~PsFails PROVE Spec => []TwoEnginesMet
<1>1. Init => EngineInv
  <2> SUFFICES ASSUME Init PROVE EngineInv
    OBVIOUS
  <2>1. \A c \in Runs : script[c] = "none" /\ child[c].does = "nothing"
    BY DEF Init, Idle
  <2>2. AliveMet /\ DownMet /\ PastMet
    BY <2>1 DEF AliveMet, DownMet, PastMet, Alive, Bash
  <2>3. TwoEnginesMet
    BY DEF Init, TwoEnginesMet, Up
  <2> QED BY <2>2, <2>3 DEF EngineInv
<1>2. LockInv /\ EngineInv /\ [Next]_vars => EngineInv'
  BY AliveStep, DownStep, PastStep, TwoStep DEF EngineInv
<1> QED BY <1>1, <1>2, LockHeld, PTL DEF Spec, EngineInv
=============================================================================
