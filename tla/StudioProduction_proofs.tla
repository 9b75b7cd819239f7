----------------------- MODULE StudioProduction_proofs -----------------------
(***************************************************************************)
(* The production agent's invariants for any number of requests, runs of   *)
(* the command line, directories and plans.                                *)
(*                                                                         *)
(* The lock invariant holds with any directories: a production at work     *)
(* holds the lock of its own.  What the lock is for (one production at a   *)
(* time, a lease, the right start image) needs all of them in one          *)
(* directory.                                                              *)
(***************************************************************************)
EXTENDS StudioProduction, TLAPS

\* The command line is not given another --productions-dir.
OneDirectory == \A p, q \in Productions : Dir[p] = Dir[q]

\* A request that has not been accepted has no job thread.
NoThreadYet == \A r \in Requests : req[r] \in {"new", "free", "busy"} => stage[r] = "idle"

\* A production at work holds the lock of its directory.
HoldsItsLock == \A p \in Productions : InProduction(p) => flock[Dir[p]] = p

\* What a job's status says of its thread.
Reported ==
  \A r \in Requests : /\ status[r] = "rendering" => stage[r] \in {"working", "uploaded", "waiting"}
                      /\ status[r] = "done" => pos[r] > Len(plan[r])

LockInv == TypeOK /\ NoThreadYet /\ HoldsItsLock /\ Reported

-----------------------------------------------------------------------------
(* Type correctness.                                                       *)

LEMMA TypeStep == TypeOK /\ [Next]_vars => TypeOK'
<1> SUFFICES ASSUME TypeOK, [Next]_vars PROVE TypeOK'
  OBVIOUS
<1> USE DEF Rendering
<1>a. \A p \in Productions : Current(p) \in Prompt
  BY DEF TypeOK, Current, Prompt
<1>b. \A p \in Productions : Requesting(p) \subseteq [to : {"input", "queue"}, prompt : Prompt]
  BY <1>a DEF Requesting
<1>1. ASSUME NEW r \in Requests, CheckActive(r) \/ Refuse(r) PROVE TypeOK'
  BY <1>1 DEF CheckActive, Refuse, comfy, TypeOK
<1>2. ASSUME NEW r \in Requests, Accept(r) PROVE TypeOK'
  BY <1>2 DEF Accept, Goes, comfy, TypeOK, Productions
<1>3. ASSUME NEW c \in Clis, StartCli(c) \/ CliCrash(c) PROVE TypeOK'
  <2>1. CASE StartCli(c)
    BY <2>1 DEF StartCli, Goes, jobs, comfy, TypeOK
  <2>2. CASE CliCrash(c)
    <3>1. late' \subseteq [to : {"input", "queue"}, prompt : Prompt]
      BY <1>b, <2>2 DEF CliCrash, TypeOK, Productions
    <3> QED BY <2>2, <3>1 DEF CliCrash, Goes, jobs, TypeOK
  <2> QED BY <1>3, <2>1, <2>2
<1>4. ASSUME NEW p \in Productions, Acquire(p) \/ FindLocked(p) \/ LockBreaks(p) \/ Release(p)
      PROVE TypeOK'
  <2>1. CASE Acquire(p)
    BY <2>1 DEF Acquire, Goes, Reports, comfy, TypeOK, Dirs
  <2>2. CASE FindLocked(p)
    BY <2>2 DEF FindLocked, Goes, Reports, comfy, TypeOK
  <2>3. CASE LockBreaks(p)
    BY <2>3 DEF LockBreaks, Goes, jobs, comfy, TypeOK
  <2>4. CASE Release(p)
    BY <2>4 DEF Release, Goes, jobs, comfy, TypeOK
  <2> QED BY <1>4, <2>1, <2>2, <2>3, <2>4
<1>5. ASSUME NEW p \in Productions, PlanBrief(p) PROVE TypeOK'
  BY <1>5, ConstantsAssumption DEF PlanBrief, Goes, Reports, comfy, TypeOK
<1>6. ASSUME NEW p \in Productions, Upload(p) \/ Submit(p) PROVE TypeOK'
  <2>1. CASE Upload(p)
    BY <2>1, <1>a DEF Upload, Goes, jobs, TypeOK
  <2>2. CASE Submit(p)
    <3>1. queue' \in Seq(Prompt)
      BY <2>2, <1>a DEF Submit, TypeOK
    <3> QED BY <2>2, <3>1 DEF Submit, Goes, jobs, TypeOK
  <2> QED BY <1>6, <2>1, <2>2
<1>7. ASSUME NEW p \in Productions, Speak(p) \/ Collect(p) PROVE TypeOK'
  <2>1. pos[p] + 1 \in Nat
    BY DEF TypeOK
  <2>2. CASE Speak(p)
    BY <2>1, <2>2 DEF Speak, jobs, comfy, TypeOK
  <2>3. CASE Collect(p)
    <3>1. /\ stage' = [stage EXCEPT ![p] = "working"]
          /\ pos' = [pos EXCEPT ![p] = @ + 1]
          /\ UNCHANGED <<req, status, plan, flock, image, queue, rendered, late, strays>>
      BY <2>3 DEF Collect, Goes, jobs, comfy
    <3> QED BY <2>1, <3>1 DEF TypeOK
  <2> QED BY <1>7, <2>2, <2>3
<1>8. ASSUME NEW p \in Productions, Assemble(p) \/ Breaks(p) PROVE TypeOK'
  BY <1>8, ZenonT(60) DEF Assemble, Breaks, Goes, Reports, comfy, TypeOK
<1>9. ASSUME NEW p \in Productions, GiveUp(p) PROVE TypeOK'
  <2>1. late' \subseteq [to : {"input", "queue"}, prompt : Prompt]
    BY <1>b, <1>9 DEF GiveUp, TypeOK
  <2> QED BY <1>9, <2>1 DEF GiveUp, Goes, Reports, TypeOK
<1>10. CASE Render \/ Arrives
  <2>1. CASE Render
    BY <2>1 DEF Render, jobs, TypeOK
  <2>2. ASSUME NEW q \in late, Arrives,
               \/ image' = q.prompt /\ strays' = strays \cup {q.prompt} /\ UNCHANGED queue
               \/ queue' = Append(queue, q.prompt) /\ UNCHANGED <<image, strays>>
        PROVE  TypeOK'
    <3>1. q.prompt \in Prompt
      BY DEF TypeOK
    <3>2. late' \subseteq late
      BY <2>2 DEF Arrives
    <3>3. queue \in Seq(Prompt) /\ Append(queue, q.prompt) \in Seq(Prompt)
      BY <3>1 DEF TypeOK
    <3>4. queue' \in Seq(Prompt) /\ image' \in Prompt \cup {NoOne} /\ strays' \subseteq Prompt
      BY <2>2, <3>1, <3>3 DEF TypeOK
    <3> QED BY <2>2, <3>2, <3>4 DEF Arrives, jobs, TypeOK
  <2> QED BY <1>10, <2>1, <2>2 DEF Arrives
<1>11. CASE ServerCrash
  <2>1. late' \subseteq [to : {"input", "queue"}, prompt : Prompt]
    BY <1>b, <1>11 DEF ServerCrash, TypeOK, Productions
  <2> QED BY <1>11, <2>1 DEF ServerCrash, TypeOK
<1>12. CASE UNCHANGED vars
  BY <1>12 DEF vars, jobs, comfy, TypeOK
<1> QED
  BY <1>1, <1>2, <1>3, <1>4, <1>5, <1>6, <1>7, <1>8, <1>9, <1>10, <1>11, <1>12
     DEF Next, Handler, Work

\* The variables keep their types.
THEOREM TypeCorrect == Spec => []TypeOK
<1>1. Init => TypeOK
  BY DEF Init, TypeOK, Rendering
<1> QED BY <1>1, TypeStep, PTL DEF Spec

-----------------------------------------------------------------------------
(* The lock.                                                               *)

LEMMA LockInit == Init => LockInv
<1> SUFFICES ASSUME Init PROVE LockInv
  OBVIOUS
<1>1. TypeOK
  BY DEF Init, TypeOK, Rendering
<1> QED
  BY <1>1 DEF Init, LockInv, NoThreadYet, HoldsItsLock, InProduction, Rendering, Reported,
              Productions

\* A production has a request under way only while it is at work.
LEMMA RequestingAt ==
  ASSUME NEW p \in Productions
  PROVE  /\ Requesting(p) # {} => stage[p] \in {"working", "uploaded"}
         /\ \A q \in Requesting(p) : /\ q.prompt = Current(p) /\ q.to \in {"input", "queue"}
                                     /\ q.to = "queue" => Submits(p)
BY DEF Requesting, Uploads, Submits

LEMMA GivesUpAt ==
  ASSUME NEW p \in Productions, GiveUp(p)
  PROVE  stage[p] \in {"working", "uploaded", "waiting"}
BY RequestingAt DEF GiveUp

LEMMA LockStep == LockInv /\ [Next]_vars => LockInv'
<1> SUFFICES ASSUME LockInv, [Next]_vars PROVE LockInv'
  OBVIOUS
<1> USE DEF LockInv, NoThreadYet, HoldsItsLock, InProduction, Rendering, Reported
<1>t. TypeOK'
  BY TypeStep
<1>d. \A p \in Productions : Dir[p] \in Dirs
  BY DEF Dirs
<1>c. Requests \subseteq Productions /\ Clis \subseteq Productions /\ NoOne \notin Productions
      /\ Requests \cap Clis = {}
  BY ConstantsAssumption DEF Productions
<1>1. ASSUME NEW r \in Requests, CheckActive(r) \/ Refuse(r) PROVE LockInv'
  BY <1>1, <1>t DEF CheckActive, Refuse, comfy, TypeOK
<1>2. ASSUME NEW r \in Requests, Accept(r) PROVE LockInv'
  BY <1>2, <1>t, <1>c DEF Accept, Goes, comfy, TypeOK
<1>3. ASSUME NEW c \in Clis, StartCli(c) PROVE LockInv'
  BY <1>3, <1>t, <1>c DEF StartCli, Goes, jobs, comfy, TypeOK
<1>4. ASSUME NEW c \in Clis, CliCrash(c) PROVE LockInv'
  BY <1>4, <1>t, <1>c, <1>d DEF CliCrash, Goes, jobs, TypeOK
<1>5. ASSUME NEW p \in Productions, Acquire(p) PROVE LockInv'
  BY <1>5, <1>t, <1>c, <1>d DEF Acquire, Goes, Reports, comfy, TypeOK
<1>6. ASSUME NEW p \in Productions, FindLocked(p) PROVE LockInv'
  BY <1>6, <1>t, <1>c DEF FindLocked, Goes, Reports, comfy, TypeOK
<1>7. ASSUME NEW p \in Productions, LockBreaks(p) PROVE LockInv'
  BY <1>7, <1>t, <1>c, <1>d DEF LockBreaks, Goes, jobs, comfy, TypeOK
<1>8. ASSUME NEW p \in Productions, Release(p) PROVE LockInv'
  BY <1>8, <1>t, <1>c, <1>d DEF Release, Goes, jobs, comfy, TypeOK
<1>9. ASSUME NEW p \in Productions, PlanBrief(p) PROVE LockInv'
  BY <1>9, <1>t, <1>c DEF PlanBrief, Goes, Reports, comfy, TypeOK
<1>10. ASSUME NEW p \in Productions, Upload(p) \/ Submit(p) PROVE LockInv'
  <2>1. CASE Upload(p)
    BY <1>t, <1>c, <2>1 DEF Upload, Uploads, Goes, jobs, TypeOK
  <2>2. CASE Submit(p)
    BY <1>t, <1>c, <2>2 DEF Submit, Submits, Goes, jobs, TypeOK
  <2> QED BY <1>10, <2>1, <2>2
<1>11. ASSUME NEW p \in Productions, Speak(p) \/ Collect(p) PROVE LockInv'
  <2>1. CASE Speak(p)
    BY <1>t, <1>c, <2>1 DEF Speak, jobs, comfy, TypeOK
  <2>2. CASE Collect(p)
    <3>1. /\ stage[p] = "waiting" /\ stage' = [stage EXCEPT ![p] = "working"]
          /\ pos' = [pos EXCEPT ![p] = @ + 1] /\ UNCHANGED <<req, status, plan, flock>>
      BY <2>2 DEF Collect, Goes, jobs
    <3> QED BY <1>t, <1>c, <3>1 DEF TypeOK
  <2> QED BY <1>11, <2>1, <2>2
<1>12. ASSUME NEW p \in Productions, Assemble(p) PROVE LockInv'
  BY <1>12, <1>t, <1>c DEF Assemble, Goes, Reports, comfy, TypeOK
<1>13. ASSUME NEW p \in Productions, Breaks(p) \/ GiveUp(p) PROVE LockInv'
  <2>1. CASE Breaks(p)
    BY <1>t, <1>c, <2>1 DEF Breaks, Goes, Reports, comfy, TypeOK
  <2>2. CASE GiveUp(p)
    <3>1. /\ stage[p] \in Rendering /\ stage' = [stage EXCEPT ![p] = "closing"]
          /\ status' = IF p \in Requests THEN [status EXCEPT ![p] = "error"] ELSE status
          /\ UNCHANGED <<req, plan, pos, flock>>
      BY <2>2, GivesUpAt DEF GiveUp, Goes, Reports
    <3> QED BY <1>t, <1>c, <3>1 DEF TypeOK
  <2> QED BY <1>13, <2>1, <2>2
<1>14. CASE Render \/ Arrives
  BY <1>14, <1>t DEF Render, Arrives, jobs
<1>15. CASE ServerCrash
  BY <1>15, <1>t, <1>c, <1>d DEF ServerCrash, TypeOK
<1>16. CASE UNCHANGED vars
  BY <1>16, <1>t DEF vars, jobs, comfy
<1> QED
  BY <1>1, <1>2, <1>3, <1>4, <1>5, <1>6, <1>7, <1>8, <1>9, <1>10, <1>11, <1>12, <1>13,
     <1>14, <1>15, <1>16 DEF Next, Handler, Work

\* A production at work holds the lock of its directory, through every failure,
\* time-out and crash of the others.
THEOREM Locked == Spec => []LockInv
BY LockInit, LockStep, PTL DEF Spec

\* A job that reports it is rendering holds the lock, and one that reports it is
\* done has rendered every task of its plan.
THEOREM HonestStatus == Spec => []StatusIsHonest
<1>1. LockInv => StatusIsHonest
  BY DEF LockInv, HoldsItsLock, Reported, InProduction, Rendering, StatusIsHonest, Productions
<1> QED BY <1>1, Locked, PTL

\* With one productions directory there is one production at a time: a lock file
\* is enough, as its comment says.
LEMMA Mutex ==
  ASSUME OneDirectory, LockInv,
         NEW p \in Productions, InProduction(p), NEW q \in Productions, InProduction(q)
  PROVE  p = q
BY DEF OneDirectory, LockInv, HoldsItsLock

THEOREM OneAtATime == ASSUME OneDirectory PROVE Spec => []OneProduction
<1>1. LockInv => OneProduction
  BY Mutex DEF OneProduction
<1> QED BY <1>1, Locked, PTL

-----------------------------------------------------------------------------
(* The lock is never left behind, unless writing the lock file has failed. *)

\* Whoever holds a lock file is at work in its directory, or has died over it.
HolderWorks ==
  /\ \A r \in Requests : stage[r] = "starting" => status[r] = "planning"
  /\ \A d \in Dirs :
       flock[d] # NoOne => /\ InProduction(flock[d]) \/ LeftAtPlanning(flock[d])
                           /\ Dir[flock[d]] = d

LEMMA HolderStep ==
  ASSUME LockInv, HolderWorks, [Next]_vars
  PROVE  HolderWorks'
<1> USE DEF HolderWorks, InProduction, Rendering, LeftAtPlanning
<1>t. TypeOK
  BY DEF LockInv
<1>c. /\ Requests \subseteq Productions /\ Clis \subseteq Productions /\ NoOne \notin Productions
      /\ Requests \cap Clis = {}
      /\ \A p \in Productions : Dir[p] \in Dirs
      /\ \A d \in Dirs : flock[d] \in Productions \cup {NoOne}
  BY <1>t, ConstantsAssumption DEF Productions, Dirs, TypeOK
<1>1. ASSUME NEW r \in Requests, Accept(r) PROVE HolderWorks'
  <2>1. stage[r] = "idle"
    BY <1>1 DEF Accept, LockInv, NoThreadYet
  <2>2. /\ stage'[r] = "starting" /\ status'[r] = "planning" /\ UNCHANGED flock
        /\ \A p \in Productions \ {r} : stage'[p] = stage[p]
        /\ \A q \in Requests \ {r} : status'[q] = status[q]
    BY <1>1, <1>t, <1>c DEF Accept, Goes, TypeOK
  <2>3. \A d \in Dirs : flock[d] # r
    BY <2>1, <1>c
  <2> QED BY <2>2, <2>3, <1>c
<1>2. ASSUME NEW c \in Clis, StartCli(c) \/ CliCrash(c) PROVE HolderWorks'
  <2>1. /\ UNCHANGED status
        /\ \A p \in Productions \ {c} : stage'[p] = stage[p]
        /\ stage'[c] = "starting" \/ stage'[c] = "over"
        /\ \A q \in Requests : q # c
    BY <1>2, <1>t, <1>c DEF StartCli, CliCrash, Goes, TypeOK, jobs
  <2>2. CASE StartCli(c)
    <3>1. \A d \in Dirs : flock[d] # c
      BY <2>2, <1>c DEF StartCli
    <3> QED BY <2>1, <2>2, <3>1, <1>c DEF StartCli
  <2>3. CASE CliCrash(c)
    <3>1. \A d \in Dirs : flock'[d] = NoOne \/ (flock'[d] = flock[d] /\ flock[d] # c)
      BY <2>3, <1>t DEF CliCrash, TypeOK
    <3> QED BY <2>1, <3>1, <1>c
  <2> QED BY <1>2, <2>2, <2>3
<1>3. ASSUME NEW p \in Productions, Acquire(p) PROVE HolderWorks'
  BY <1>3, <1>t, <1>c DEF Acquire, Goes, Reports, TypeOK
<1>4. ASSUME NEW p \in Productions, Release(p) PROVE HolderWorks'
  BY <1>4, <1>t, <1>c DEF Release, Goes, TypeOK, jobs
<1>5. ASSUME NEW p \in Productions, LockBreaks(p) PROVE HolderWorks'
  BY <1>5, <1>t, <1>c DEF LockBreaks, Goes, TypeOK, jobs
<1>6. ASSUME NEW p \in Productions,
             UNCHANGED flock,
             stage[p] # "over", stage'[p] # "starting",
             stage[p] \notin Rendering \/ stage'[p] \in Rendering,
             \A q \in Productions \ {p} : stage'[q] = stage[q],
             \A r \in Requests \ {p} : status'[r] = status[r]
      PROVE  HolderWorks'
  BY <1>6, <1>c
<1>7. ASSUME NEW p \in Productions, Work(p) PROVE HolderWorks'
  <2>1. CASE FindLocked(p)
    BY <1>6, <1>t, <2>1 DEF FindLocked, Goes, Reports, TypeOK, jobs
  <2>2. CASE PlanBrief(p)
    BY <1>6, <1>t, <2>2 DEF PlanBrief, Goes, Reports, TypeOK, jobs
  <2>3. CASE Upload(p)
    BY <1>6, <1>t, <2>3 DEF Upload, Uploads, Goes, Reports, TypeOK, jobs
  <2>4. CASE Submit(p)
    BY <1>6, <1>t, <2>4 DEF Submit, Submits, Goes, Reports, TypeOK, jobs
  <2>5. CASE Speak(p)
    BY <1>6, <1>t, <2>5 DEF Speak, TypeOK, jobs
  <2>6. CASE Collect(p)
    BY <1>6, <1>t, <2>6 DEF Collect, Goes, Reports, TypeOK, jobs
  <2>7. CASE Assemble(p)
    BY <1>6, <1>t, <2>7 DEF Assemble, Goes, Reports, TypeOK, jobs
  <2>8. CASE Breaks(p)
    BY <1>6, <1>t, <2>8 DEF Breaks, Goes, Reports, TypeOK, jobs
  <2>9. CASE GiveUp(p)
    BY <1>6, <1>t, <2>9, GivesUpAt DEF GiveUp, Goes, Reports, TypeOK, jobs
  <2> QED BY <1>3, <1>4, <1>5, <1>7, <2>1, <2>2, <2>3, <2>4, <2>5, <2>6, <2>7, <2>8, <2>9 DEF Work
<1>8. CASE ServerCrash
  BY <1>8, <1>t, <1>c DEF ServerCrash, TypeOK
<1>9. ASSUME UNCHANGED <<stage, flock, status>> PROVE HolderWorks'
  BY <1>9
<1> QED
  BY <1>1, <1>2, <1>7, <1>8, <1>9
     DEF Next, Handler, CheckActive, Refuse, Render, Arrives, vars, jobs

\* A refused, failed or killed production leaves the lock file free.
THEOREM NoLeakedLock == Spec => []LockIsInUse
<1>1. Init => HolderWorks
  BY ConstantsAssumption DEF Init, HolderWorks, Productions
<1>2. LockInv /\ HolderWorks /\ [Next]_vars => HolderWorks'
  BY HolderStep
<1>3. HolderWorks => LockIsInUse
  BY DEF HolderWorks, LockIsInUse
<1> QED BY <1>1, <1>2, <1>3, Locked, PTL DEF Spec

-----------------------------------------------------------------------------
(* The lock as a lease.                                                    *)

Flying == {p \in Productions : InProduction(p)}

LEMMA LeaseStep ==
  ASSUME OneDirectory, LockInv, [Next]_vars
  PROVE  [Lease!Next]_Flying
<1> USE DEF Flying, InProduction, Rendering
<1>t. TypeOK
  BY DEF LockInv
<1>c. /\ Requests \subseteq Productions /\ Clis \subseteq Productions /\ Requests \cap Clis = {}
      /\ NoOne \notin Productions
  BY ConstantsAssumption DEF Productions
<1>m. \A p, q \in Flying : p = q
  BY Mutex
<1>1. ASSUME NEW p \in Productions, Acquire(p) PROVE [Lease!Next]_Flying
  <2>1. Flying = {}
    BY <1>1, <1>c DEF Acquire, LockInv, HoldsItsLock, OneDirectory
  <2>2. Flying' = {p}
    BY <1>1, <1>t, <2>1 DEF Acquire, Goes, TypeOK
  <2> QED BY <2>1, <2>2 DEF Lease!Next, Lease!Start
\* A step after which nobody new is at work lets the one at work land, or nothing.
<1>2. ASSUME Flying' \subseteq Flying PROVE [Lease!Next]_Flying
  <2>1. CASE Flying' = Flying
    BY <2>1
  <2>2. CASE Flying' # Flying
    <3>1. PICK p \in Flying : p \notin Flying'
      BY <1>2, <2>2
    <3>2. Flying' = Flying \ {p}
      BY <1>2, <1>m, <3>1
    <3> QED BY <3>1, <3>2 DEF Lease!Next, Lease!Land
  <2> QED BY <2>1, <2>2
<1>3. ASSUME NEW p \in Productions, stage'[p] \in Rendering => stage[p] \in Rendering,
             \A q \in Productions \ {p} : stage'[q] = stage[q]
      PROVE  [Lease!Next]_Flying
  BY <1>2, <1>3
<1>4. ASSUME NEW r \in Requests, Accept(r) PROVE [Lease!Next]_Flying
  BY <1>3, <1>4, <1>t, <1>c DEF Accept, Goes, TypeOK
<1>5. ASSUME NEW c \in Clis, StartCli(c) \/ CliCrash(c) PROVE [Lease!Next]_Flying
  <2>1. CASE StartCli(c)
    BY <1>3, <1>t, <1>c, <2>1 DEF StartCli, Goes, TypeOK
  <2>2. CASE CliCrash(c)
    BY <1>3, <1>t, <1>c, <2>2 DEF CliCrash, Goes, TypeOK
  <2> QED BY <1>5, <2>1, <2>2
<1>6. ASSUME NEW p \in Productions, Work(p) PROVE [Lease!Next]_Flying
  <2>1. CASE FindLocked(p) \/ LockBreaks(p) \/ Release(p) \/ Assemble(p) \/ Breaks(p) \/ GiveUp(p)
    BY <1>3, <1>t, <2>1, GivesUpAt
       DEF FindLocked, LockBreaks, Release, Assemble, Breaks, GiveUp, Goes, TypeOK
  <2>2. CASE PlanBrief(p)
    BY <1>3, <1>t, <2>2 DEF PlanBrief, Goes, Reports, TypeOK, jobs
  <2>3. CASE Upload(p)
    BY <1>3, <1>t, <2>3 DEF Upload, Uploads, Goes, Reports, TypeOK, jobs
  <2>4. CASE Submit(p)
    BY <1>3, <1>t, <2>4 DEF Submit, Submits, Goes, TypeOK
  <2>5. CASE Speak(p)
    BY <1>3, <1>t, <2>5 DEF Speak, TypeOK
  <2>6. CASE Collect(p)
    BY <1>3, <1>t, <2>6 DEF Collect, Goes, Reports, TypeOK, jobs
  <2> QED BY <1>1, <1>6, <2>1, <2>2, <2>3, <2>4, <2>5, <2>6 DEF Work
<1>7. CASE ServerCrash
  BY <1>2, <1>7, <1>t DEF ServerCrash, TypeOK
<1>8. ASSUME UNCHANGED stage PROVE [Lease!Next]_Flying
  BY <1>2, <1>8
<1> QED
  BY <1>4, <1>5, <1>6, <1>7, <1>8
     DEF Next, Handler, CheckActive, Refuse, Render, Arrives, vars

\* With one productions directory the agent implements the single-flight lease,
\* through time-outs, crashes and lock files that cannot be written.
THEOREM ImplementsLease == ASSUME OneDirectory PROVE Spec => LeaseSpec
<1>1. Init => Lease!Init
  BY DEF Init, Lease!Init, InProduction, Rendering
<1>2. LockInv /\ [Next]_vars => [Lease!Next]_Flying
  BY LeaseStep
<1> QED BY <1>1, <1>2, Locked, PTL DEF Spec, LeaseSpec, Lease!Spec, Flying

-----------------------------------------------------------------------------
(* The start image and the prompts.                                        *)

\* A prompt in the queue is the one its production is at, sent and not answered.
Queued ==
  \A i \in 1..Len(queue) :
    LET p == queue[i].owner
    IN  queue[i].task = pos[p] /\ stage[p] \in {"waiting", "closing", "over"}

\* A rendered prompt is one its production is at, in the same sense, or is past.
Answered ==
  \A e \in rendered :
    LET p == e.prompt.owner
    IN  /\ stage[p] \notin {"idle", "starting", "planning"}
        /\ \/ e.prompt.task < pos[p]
           \/ e.prompt.task = pos[p] /\ stage[p] \in {"waiting", "closing", "over"}

\* ComfyUI renders each prompt once.
Once ==
  /\ \A i, j \in 1..Len(queue) : queue[i] = queue[j] => i = j
  /\ \A i \in 1..Len(queue), e \in rendered : e.prompt # queue[i]

\* Who sent a late request is past its end; a prompt comes late instead of in time.
LateIsLeft ==
  \A q \in late :
    /\ stage[q.prompt.owner] \in {"closing", "over"}
    /\ q.prompt.task = pos[q.prompt.owner]
    /\ q.to = "queue" => /\ \A i \in 1..Len(queue) : queue[i] # q.prompt
                         /\ \A e \in rendered : e.prompt # q.prompt

\* The input file is the start image of the i2v task a production is at, from the
\* upload until the answer, unless a stray one has come since.
FileIsMine ==
  \A p \in Productions :
    stage[p] = "uploaded" \/ (stage[p] = "waiting" /\ plan[p][pos[p]] = "i2v")
      => image = Current(p) \/ image \in strays

\* What a production goes on with, or will when it sees the answer, has its image, or
\* a stray one.
GoodClips ==
  \A e \in rendered :
    LET p == e.prompt.owner
        n == e.prompt.task
    IN  (n < pos[p] \/ (n = pos[p] /\ stage[p] = "waiting")) /\ plan[p][n] = "i2v"
          => e.image = e.prompt \/ e.image \in strays

PromptInv == Queued /\ Answered /\ Once /\ LateIsLeft /\ FileIsMine /\ GoodClips

\* Facts about the queue that its steps use.
LEMMA AppendFacts ==
  ASSUME NEW S, NEW q \in Seq(S), NEW x \in S
  PROVE  /\ Len(Append(q, x)) = Len(q) + 1
         /\ \A i \in 1..Len(q) : Append(q, x)[i] = q[i]
         /\ Append(q, x)[Len(q) + 1] = x
OBVIOUS

LEMMA TailFacts ==
  ASSUME NEW S, NEW q \in Seq(S), q # <<>>
  PROVE  /\ Len(Tail(q)) = Len(q) - 1
         /\ Len(q) \in Nat /\ Len(q) >= 1
         /\ \A i \in 1..Len(Tail(q)) : Tail(q)[i] = q[i + 1]
         /\ Head(q) = q[1]
OBVIOUS

LEMMA PromptInit == Init => PromptInv
BY DEF Init, PromptInv, Queued, Answered, Once, LateIsLeft, FileIsMine, GoodClips

\* A prompt is known by its production and task.
LEMMA PromptNamed ==
  ASSUME TypeOK
  PROVE  /\ \A i \in 1..Len(queue) : /\ queue[i] \in Prompt
                                     /\ queue[i].owner \in Productions /\ queue[i].task \in Nat
         /\ \A e \in rendered : /\ e.prompt \in Prompt
                                /\ e.prompt.owner \in Productions /\ e.prompt.task \in Nat
         /\ \A q \in late : /\ q.prompt \in Prompt
                            /\ q.prompt.owner \in Productions /\ q.prompt.task \in Nat
         /\ \A s \in Prompt, p \in Productions :
              s.owner = p /\ s.task = pos[p] => s = Current(p)
         /\ \A p \in Productions : /\ Current(p) \in Prompt /\ pos[p] \in Nat
                                   /\ Current(p).owner = p /\ Current(p).task = pos[p]
<1>1. \A s \in Prompt : s = [owner |-> s.owner, task |-> s.task]
  BY DEF Prompt
<1>2. \A i \in 1..Len(queue) : queue[i] \in Prompt
  BY DEF TypeOK
<1>3. \A e \in rendered : e.prompt \in Prompt
  BY DEF TypeOK
<1>4. \A s \in Prompt : s.owner \in Productions /\ s.task \in Nat
  BY DEF Prompt
<1>5. \A s \in Prompt, p \in Productions : s.owner = p /\ s.task = pos[p] => s = Current(p)
  BY <1>1 DEF Current
<1>6. \A p \in Productions : /\ Current(p) \in Prompt /\ pos[p] \in Nat
                              /\ Current(p).owner = p /\ Current(p).task = pos[p]
  BY DEF TypeOK, Prompt, Current
<1>7. \A q \in late : q.prompt \in Prompt
  BY DEF TypeOK
<1> QED BY <1>2, <1>3, <1>4, <1>5, <1>6, <1>7

\* A step that only starts or ends productions.
LEMMA StagesOnly ==
  ASSUME TypeOK, PromptInv,
         UNCHANGED <<plan, pos, image, queue, rendered, late, strays>>,
         \A p \in Productions :
            \/ stage'[p] = stage[p]
            \/ stage[p] # "idle" /\ stage'[p] \in {"closing", "over"}
            \/ stage[p] \in {"idle", "starting"} /\ stage'[p] \in {"starting", "planning", "over"}
  PROVE  PromptInv'
<1>1. Queued' /\ Answered'
  BY PromptNamed DEF PromptInv, Queued, Answered
<1>2. Once' /\ FileIsMine'
  BY DEF PromptInv, Once, FileIsMine, Current
<1>3. GoodClips'
  BY PromptNamed DEF PromptInv, GoodClips
<1>4. LateIsLeft'
  BY PromptNamed DEF PromptInv, LateIsLeft
<1> QED BY <1>1, <1>2, <1>3, <1>4 DEF PromptInv

\* A step that ends productions and leaves requests of theirs behind.
LEMMA LeavesLate ==
  ASSUME TypeOK, PromptInv,
         UNCHANGED <<plan, pos, image, queue, rendered, strays>>,
         NEW E \in SUBSET Productions,
         \A p \in E : stage[p] # "idle" /\ stage'[p] \in {"closing", "over"},
         \A p \in Productions \ E : stage'[p] = stage[p],
         NEW sent \in SUBSET UNION {Requesting(p) : p \in E}, late' = late \cup sent
  PROVE  PromptInv'
<1>1. Queued' /\ Answered'
  BY PromptNamed DEF PromptInv, Queued, Answered
<1>2. Once' /\ FileIsMine'
  BY DEF PromptInv, Once, FileIsMine, Current
<1>3. GoodClips'
  BY PromptNamed DEF PromptInv, GoodClips
<1>4. LateIsLeft'
  <2> SUFFICES ASSUME NEW q \in late'
               PROVE  /\ stage'[q.prompt.owner] \in {"closing", "over"}
                      /\ q.prompt.task = pos[q.prompt.owner]
                      /\ q.to = "queue" => /\ \A i \in 1..Len(queue) : queue[i] # q.prompt
                                           /\ \A e \in rendered : e.prompt # q.prompt
    BY DEF LateIsLeft
  <2>1. CASE q \in late
    BY <2>1, PromptNamed DEF PromptInv, LateIsLeft
  <2>2. CASE q \notin late
    <3>1. PICK p \in E : q \in Requesting(p)
      BY <2>2
    <3>2. /\ q.prompt = Current(p) /\ q.prompt.owner = p /\ q.prompt.task = pos[p]
          /\ q.to = "queue" => stage[p] \in {"working", "uploaded"}
      BY <3>1, RequestingAt, PromptNamed
    <3>3. ASSUME q.to = "queue"
          PROVE  /\ \A i \in 1..Len(queue) : queue[i] # q.prompt
                 /\ \A e \in rendered : e.prompt # q.prompt
      <4>1. stage[p] \in {"working", "uploaded"} /\ pos[p] \in Nat
        BY <3>2, <3>3, PromptNamed
      <4> QED BY <3>2, <4>1 DEF PromptInv, Queued, Answered
    <3> QED BY <3>2, <3>3
  <2> QED BY <2>1, <2>2
<1> QED BY <1>1, <1>2, <1>3, <1>4 DEF PromptInv

\* The director's plan comes before any prompt.
LEMMA PlanStep ==
  ASSUME TypeOK, PromptInv, NEW p \in Productions, PlanBrief(p)
  PROVE  PromptInv'
<1>1. /\ stage[p] = "planning" /\ stage' = [stage EXCEPT ![p] = "working"]
      /\ \A q \in Productions \ {p} : plan'[q] = plan[q]
      /\ UNCHANGED <<pos, image, queue, rendered, late, strays>>
  BY DEF PlanBrief, Goes, comfy, TypeOK
<1>2. /\ \A i \in 1..Len(queue) : queue[i].owner # p
      /\ \A e \in rendered : e.prompt.owner # p
  BY <1>1 DEF PromptInv, Queued, Answered
<1>s. \A q \in Productions \ {p} : stage'[q] = stage[q]
  BY <1>1 DEF TypeOK
<1>3. Queued' /\ Answered'
  <2>1. Queued'
    BY <1>1, <1>2, <1>s, PromptNamed DEF PromptInv, Queued
  <2>2. Answered'
    BY <1>1, <1>2, <1>s, PromptNamed DEF PromptInv, Answered
  <2> QED BY <2>1, <2>2
<1>4. Once' /\ FileIsMine'
  BY <1>1 DEF PromptInv, Once, FileIsMine, Current, TypeOK
<1>5. GoodClips'
  BY <1>1, <1>2, PromptNamed DEF PromptInv, GoodClips, TypeOK
<1>6. LateIsLeft'
  BY <1>1, <1>s, PromptNamed DEF PromptInv, LateIsLeft
<1> QED BY <1>3, <1>4, <1>5, <1>6 DEF PromptInv

\* The upload is safe because nobody else is between an upload and its answer.
LEMMA UploadStep ==
  ASSUME OneDirectory, LockInv, PromptInv, NEW p \in Productions, Upload(p)
  PROVE  PromptInv'
<1>t. TypeOK
  BY DEF LockInv
<1>1. /\ stage[p] = "working" /\ stage' = [stage EXCEPT ![p] = "uploaded"]
      /\ image' = Current(p) /\ UNCHANGED <<plan, pos, queue, rendered, late, strays>>
  BY DEF Upload, Uploads, Goes
<1>2. Queued' /\ Answered'
  BY <1>1, <1>t, PromptNamed DEF PromptInv, Queued, Answered, TypeOK
<1>3. \A q \in Productions \ {p} : stage[q] \notin {"uploaded", "waiting"}
  BY <1>1, Mutex DEF InProduction, Rendering
<1>4. Once' /\ FileIsMine'
  BY <1>1, <1>3, <1>t DEF PromptInv, Once, FileIsMine, Current, TypeOK
<1>5. GoodClips'
  BY <1>1, <1>t, PromptNamed DEF PromptInv, GoodClips, TypeOK
<1>6. LateIsLeft'
  BY <1>1, <1>t, PromptNamed DEF PromptInv, LateIsLeft, TypeOK
<1> QED BY <1>2, <1>4, <1>5, <1>6 DEF PromptInv

\* A prompt is sent once, with the image its production uploaded for it.
LEMMA SubmitStep ==
  ASSUME TypeOK, PromptInv, NEW p \in Productions, Submits(p),
         queue' = Append(queue, Current(p)),
         stage' = [stage EXCEPT ![p] = "waiting"],
         UNCHANGED <<plan, pos, image, rendered, late, strays>>
  PROVE  PromptInv'
<1>1. stage[p] \in {"working", "uploaded"}
  BY DEF Submits
<1>2. /\ Len(queue') = Len(queue) + 1
      /\ \A i \in 1..Len(queue) : queue'[i] = queue[i]
      /\ queue'[Len(queue) + 1] = Current(p)
      /\ Len(queue) \in Nat
      /\ \A i \in 1..Len(queue') : i \in 1..Len(queue) \/ i = Len(queue) + 1
  BY PromptNamed, AppendFacts DEF TypeOK
<1>3. \A i \in 1..Len(queue) : queue[i].owner # p
  BY <1>1 DEF PromptInv, Queued
<1>4. \A e \in rendered : e.prompt.owner = p => e.prompt.task < pos[p]
  BY <1>1 DEF PromptInv, Answered
<1>5. Queued'
  <2> SUFFICES ASSUME NEW i \in 1..Len(queue')
               PROVE  /\ queue'[i].task = pos[queue'[i].owner]
                      /\ stage'[queue'[i].owner] \in {"waiting", "closing", "over"}
    BY DEF Queued
  <2>1. CASE i \in 1..Len(queue)
    BY <2>1, <1>2, <1>3, PromptNamed DEF PromptInv, Queued, TypeOK
  <2>2. CASE i = Len(queue) + 1
    BY <2>2, <1>2, PromptNamed DEF TypeOK
  <2> QED BY <1>2, <2>1, <2>2
<1>6. Answered'
  BY <1>4, PromptNamed DEF PromptInv, Answered, TypeOK
<1>7. Once'
  <2>1. \A i \in 1..Len(queue) : queue[i] # Current(p)
    BY <1>3, PromptNamed
  <2>2. \A e \in rendered : e.prompt # Current(p)
    BY <1>4, PromptNamed
  <2> QED BY <1>2, <2>1, <2>2 DEF PromptInv, Once
<1>8. FileIsMine'
  <2>1. stage[p] = "working" => plan[p][pos[p]] # "i2v"
    BY DEF Submits, HasTask, Task
  <2> QED BY <1>1, <2>1 DEF PromptInv, FileIsMine, Current, TypeOK
<1>9. GoodClips'
  BY <1>1, <1>4, PromptNamed DEF PromptInv, GoodClips, TypeOK
<1>10. LateIsLeft'
  <2>1. \A q \in late : q.prompt.owner # p
    BY <1>1 DEF PromptInv, LateIsLeft
  <2> QED BY <1>2, <2>1, PromptNamed DEF PromptInv, LateIsLeft, TypeOK
<1> QED BY <1>5, <1>6, <1>7, <1>8, <1>9, <1>10 DEF PromptInv

\* A production goes on when it has no prompt in the queue.
LEMMA AdvanceStep ==
  ASSUME TypeOK, PromptInv, NEW p \in Productions,
         stage[p] \in {"working", "waiting"}, stage' = [stage EXCEPT ![p] = "working"],
         pos' = [pos EXCEPT ![p] = @ + 1],
         \A i \in 1..Len(queue) : queue[i].owner # p,
         UNCHANGED <<plan, image, queue, rendered, late, strays>>
  PROVE  PromptInv'
<1>s. /\ \A q \in Productions \ {p} : stage'[q] = stage[q] /\ pos'[q] = pos[q]
      /\ stage'[p] = "working" /\ pos'[p] = pos[p] + 1 /\ pos[p] \in Nat
  BY DEF TypeOK
<1>1. Queued' /\ Answered'
  <2>1. Queued'
    BY <1>s, PromptNamed DEF PromptInv, Queued
  <2>2. Answered'
    <3> SUFFICES ASSUME NEW e \in rendered, NEW q \in Productions, q = e.prompt.owner
                 PROVE  /\ stage'[q] \notin {"idle", "starting", "planning"}
                        /\ \/ e.prompt.task < pos'[q]
                           \/ e.prompt.task = pos'[q] /\ stage'[q] \in {"waiting", "closing", "over"}
      BY PromptNamed DEF Answered
    <3>1. /\ stage[q] \notin {"idle", "starting", "planning"}
          /\ \/ e.prompt.task < pos[q]
             \/ e.prompt.task = pos[q] /\ stage[q] \in {"waiting", "closing", "over"}
      BY DEF PromptInv, Answered
    <3>2. e.prompt.task \in Nat
      BY PromptNamed
    <3> QED BY <1>s, <3>1, <3>2
  <2> QED BY <2>1, <2>2
<1>2. Once' /\ FileIsMine'
  BY DEF PromptInv, Once, FileIsMine, Current, TypeOK
<1>3. GoodClips'
  <2> SUFFICES ASSUME NEW e \in rendered,
                      LET q == e.prompt.owner
                          n == e.prompt.task
                      IN  (n < pos'[q] \/ (n = pos'[q] /\ stage'[q] = "waiting")) /\ plan[q][n] = "i2v"
               PROVE  e.image = e.prompt \/ e.image \in strays
    BY DEF GoodClips
  <2>1. CASE e.prompt.owner # p
    BY <2>1, PromptNamed DEF PromptInv, GoodClips, TypeOK
  <2>2. CASE e.prompt.owner = p
    <3>1. e.prompt.task \in Nat /\ pos[p] \in Nat /\ pos'[p] = pos[p] + 1 /\ stage'[p] = "working"
      BY PromptNamed, <2>2 DEF TypeOK
    <3>2. e.prompt.task < pos[p] \/ (e.prompt.task = pos[p] /\ stage[p] = "waiting")
      BY <2>2, <3>1 DEF PromptInv, Answered
    <3> QED BY <2>2, <3>2 DEF PromptInv, GoodClips
  <2> QED BY <2>1, <2>2
<1>4. LateIsLeft'
  <2>1. \A q \in late : q.prompt.owner # p
    BY DEF PromptInv, LateIsLeft
  <2> QED BY <1>s, <2>1, PromptNamed DEF PromptInv, LateIsLeft
<1> QED BY <1>1, <1>2, <1>3, <1>4 DEF PromptInv

\* ComfyUI takes the oldest prompt, and the input file as it is.
LEMMA RenderStep ==
  ASSUME TypeOK, PromptInv, Render
  PROVE  PromptInv'
<1>1. /\ queue # <<>> /\ queue' = Tail(queue)
      /\ UNCHANGED <<stage, plan, pos, image, late, strays>>
  BY DEF Render
<1>2. PICK good \in BOOLEAN :
        rendered' = rendered \cup {[prompt |-> Head(queue), image |-> image, ok |-> good]}
  BY DEF Render
<1> DEFINE e == [prompt |-> Head(queue), image |-> image, ok |-> good]
<1>3. /\ Len(queue) \in Nat /\ 1 \in 1..Len(queue)
      /\ Len(queue') = Len(queue) - 1
      /\ \A i \in 1..Len(queue') : queue'[i] = queue[i + 1] /\ i + 1 \in 1..Len(queue) /\ i + 1 # 1
      /\ e.prompt = queue[1] /\ e.image = image
  BY <1>1, TailFacts DEF TypeOK
<1> HIDE DEF e
<1>4. Queued'
  BY <1>1, <1>3 DEF PromptInv, Queued
<1>5. Answered'
  BY <1>1, <1>2, <1>3 DEF PromptInv, Queued, Answered, e
<1>6. Once'
  <2>1. \A i, j \in 1..Len(queue') : queue'[i] = queue'[j] => i = j
    BY <1>3 DEF PromptInv, Once
  <2>2. \A i \in 1..Len(queue') : queue'[i] # e.prompt /\ \A f \in rendered : f.prompt # queue'[i]
    BY <1>3 DEF PromptInv, Once
  <2> QED BY <1>2, <2>1, <2>2 DEF Once, e
<1>7. FileIsMine'
  BY <1>1 DEF PromptInv, FileIsMine, Current
<1>8. GoodClips'
  <2> DEFINE p == queue[1].owner
             n == queue[1].task
  <2>1. n = pos[p] /\ p \in Productions /\ pos[p] \in Nat /\ queue[1] = Current(p)
    BY <1>3, PromptNamed DEF PromptInv, Queued
  <2>2. stage[p] = "waiting" /\ plan[p][n] = "i2v" => image = queue[1] \/ image \in strays
    BY <2>1 DEF PromptInv, FileIsMine
  <2>3. (n < pos[p] \/ (n = pos[p] /\ stage[p] = "waiting")) /\ plan[p][n] = "i2v"
          => e.image = e.prompt \/ e.image \in strays
    BY <1>3, <2>1, <2>2
  <2>4. \A f \in rendered' : f \in rendered \/ f = e
    BY <1>2 DEF e
  <2> HIDE DEF p, n
  <2> QED BY <1>1, <1>3, <2>3, <2>4 DEF PromptInv, GoodClips, p, n
<1>9. LateIsLeft'
  BY <1>1, <1>2, <1>3 DEF PromptInv, LateIsLeft, e
<1> QED BY <1>4, <1>5, <1>6, <1>7, <1>8, <1>9 DEF PromptInv

\* A late prompt is its production's first that is not answered; a late image is a
\* stray one.
LEMMA ArrivesStep ==
  ASSUME TypeOK, PromptInv, Arrives
  PROVE  PromptInv'
<1>1. PICK q \in late :
        /\ late' = late \ {q}
        /\ \/ q.to = "input" /\ image' = q.prompt /\ strays' = strays \cup {q.prompt} /\ UNCHANGED queue
           \/ q.to = "queue" /\ queue' = Append(queue, q.prompt) /\ UNCHANGED <<image, strays>>
  BY DEF Arrives
<1>2. UNCHANGED <<stage, plan, pos, rendered>>
  BY DEF Arrives, jobs
<1>3. /\ q.prompt \in Prompt /\ q.prompt.owner \in Productions /\ q.prompt.task = pos[q.prompt.owner]
      /\ stage[q.prompt.owner] \in {"closing", "over"}
  BY PromptNamed DEF PromptInv, LateIsLeft
<1>4. Answered'
  BY <1>2 DEF PromptInv, Answered
<1>5. CASE q.to = "input"
  <2>1. image' = q.prompt /\ strays' = strays \cup {q.prompt} /\ UNCHANGED queue
    BY <1>1, <1>5
  <2>2. Queued' /\ Once' /\ LateIsLeft'
    BY <1>1, <1>2, <2>1 DEF PromptInv, Queued, Once, LateIsLeft
  <2>3. FileIsMine' /\ GoodClips'
    BY <1>2, <2>1 DEF PromptInv, FileIsMine, GoodClips
  <2> QED BY <1>4, <2>2, <2>3 DEF PromptInv
<1>6. CASE q.to = "queue"
  <2>1. queue' = Append(queue, q.prompt) /\ UNCHANGED <<image, strays>>
    BY <1>1, <1>6
  <2>2. /\ Len(queue') = Len(queue) + 1
        /\ \A i \in 1..Len(queue) : queue'[i] = queue[i]
        /\ queue'[Len(queue) + 1] = q.prompt
        /\ Len(queue) \in Nat
        /\ \A i \in 1..Len(queue') : i \in 1..Len(queue) \/ i = Len(queue) + 1
    BY <1>3, <2>1, AppendFacts DEF TypeOK
  <2>3. Queued'
    BY <1>2, <1>3, <2>2 DEF PromptInv, Queued
  <2>4. /\ \A i \in 1..Len(queue) : queue[i] # q.prompt
        /\ \A e \in rendered : e.prompt # q.prompt
    BY <1>6 DEF PromptInv, LateIsLeft
  <2>5. Once'
    BY <1>2, <2>2, <2>4 DEF PromptInv, Once
  <2>6. \A r \in late' : r \in late /\ (r.to = "queue" => r.prompt # q.prompt)
    <3>1. \A r \in late : r = [to |-> r.to, prompt |-> r.prompt]
      BY DEF TypeOK
    <3> QED BY <1>1, <1>6, <3>1
  <2>7. LateIsLeft'
    BY <1>2, <2>2, <2>6 DEF PromptInv, LateIsLeft
  <2>8. FileIsMine' /\ GoodClips'
    BY <1>2, <2>1 DEF PromptInv, FileIsMine, GoodClips, Current
  <2> QED BY <1>4, <2>3, <2>5, <2>7, <2>8 DEF PromptInv
<1>7. q.to \in {"input", "queue"}
  BY DEF TypeOK
<1> QED BY <1>5, <1>6, <1>7

\* An answered prompt is not in the queue, so its production has none there.
LEMMA AnsweredIsOut ==
  ASSUME TypeOK, PromptInv, NEW p \in Productions, NEW e \in rendered, e.prompt = Current(p)
  PROVE  \A i \in 1..Len(queue) : queue[i].owner # p
BY PromptNamed DEF PromptInv, Queued, Once

LEMMA PromptStep ==
  ASSUME OneDirectory, LockInv, PromptInv, [Next]_vars
  PROVE  PromptInv'
<1>t. TypeOK
  BY DEF LockInv
<1>c. Requests \subseteq Productions /\ Clis \subseteq Productions
  BY DEF Productions
<1>1. ASSUME NEW r \in Requests, Handler(r) PROVE PromptInv'
  <2>1. CASE CheckActive(r) \/ Refuse(r)
    BY <1>t, <2>1, StagesOnly DEF CheckActive, Refuse, comfy
  <2>2. CASE Accept(r)
    <3>1. stage[r] = "idle"
      BY <2>2 DEF Accept, LockInv, NoThreadYet
    <3> QED BY <1>t, <1>c, <2>2, <3>1, StagesOnly DEF Accept, Goes, comfy, TypeOK
  <2> QED BY <1>1, <2>1, <2>2 DEF Handler
<1>2. ASSUME NEW c \in Clis, StartCli(c) PROVE PromptInv'
  BY <1>t, <1>c, <1>2, StagesOnly DEF StartCli, Goes, comfy, TypeOK
<1>3. ASSUME NEW c \in Clis, CliCrash(c) PROVE PromptInv'
  <2>1. PICK sent \in SUBSET Requesting(c) : late' = late \cup sent
    BY <1>3 DEF CliCrash
  <2>2. /\ stage[c] # "idle" /\ stage'[c] = "over" /\ \A p \in Productions \ {c} : stage'[p] = stage[p]
        /\ UNCHANGED <<plan, pos, image, queue, rendered, strays>>
    BY <1>t, <1>c, <1>3 DEF CliCrash, Goes, TypeOK
  <2>3. {c} \in SUBSET Productions /\ sent \in SUBSET UNION {Requesting(p) : p \in {c}}
    BY <1>c
  <2> QED BY <1>t, <2>1, <2>2, <2>3, LeavesLate
<1>4. ASSUME NEW p \in Productions, Acquire(p) PROVE PromptInv'
  BY <1>t, <1>4, StagesOnly DEF Acquire, Goes, comfy, TypeOK
<1>5. ASSUME NEW p \in Productions, FindLocked(p) PROVE PromptInv'
  BY <1>t, <1>5, StagesOnly DEF FindLocked, Goes, comfy, TypeOK
<1>6. ASSUME NEW p \in Productions, LockBreaks(p) PROVE PromptInv'
  BY <1>t, <1>6, StagesOnly DEF LockBreaks, Goes, comfy, TypeOK
<1>7. ASSUME NEW p \in Productions, Release(p) \/ Assemble(p) PROVE PromptInv'
  <2>1. CASE Release(p)
    BY <1>t, <2>1, StagesOnly DEF Release, Goes, comfy, TypeOK
  <2>2. CASE Assemble(p)
    BY <1>t, <2>2, StagesOnly DEF Assemble, Goes, comfy, TypeOK
  <2> QED BY <1>7, <2>1, <2>2
<1>8. ASSUME NEW p \in Productions, Breaks(p) PROVE PromptInv'
  <2>1. /\ stage[p] # "idle" /\ stage' = [stage EXCEPT ![p] = "closing"]
        /\ UNCHANGED <<plan, pos, image, queue, rendered, late, strays>>
    BY <1>8 DEF Breaks, Goes, comfy
  <2> QED BY <1>t, <2>1, StagesOnly DEF TypeOK
<1>9. ASSUME NEW p \in Productions, GiveUp(p) PROVE PromptInv'
  <2>1. stage[p] # "idle"
    BY <1>9, GivesUpAt
  <2>2. /\ stage'[p] = "closing" /\ \A q \in Productions \ {p} : stage'[q] = stage[q]
        /\ UNCHANGED <<plan, pos, image, queue, rendered, strays>>
        /\ late' = late \cup Requesting(p)
    BY <1>9, <1>t DEF GiveUp, Goes, TypeOK
  <2>3. {p} \in SUBSET Productions /\ Requesting(p) \in SUBSET UNION {Requesting(q) : q \in {p}}
    OBVIOUS
  <2> QED BY <1>t, <2>1, <2>2, <2>3, LeavesLate
<1>10. ASSUME NEW p \in Productions, Submit(p) PROVE PromptInv'
  BY <1>t, <1>10, SubmitStep DEF Submit, Goes
<1>11. ASSUME NEW p \in Productions, Speak(p) PROVE PromptInv'
  <2>1. /\ stage[p] = "working" /\ pos' = [pos EXCEPT ![p] = @ + 1]
        /\ UNCHANGED <<stage, plan, image, queue, rendered, late, strays>>
    BY <1>11 DEF Speak, comfy
  <2>2. \A i \in 1..Len(queue) : queue[i].owner # p
    BY <2>1 DEF PromptInv, Queued
  <2>3. stage' = [stage EXCEPT ![p] = "working"]
    BY <1>t, <2>1 DEF TypeOK
  <2> QED BY <1>t, <2>1, <2>2, <2>3, AdvanceStep
<1>12. ASSUME NEW p \in Productions, Collect(p) PROVE PromptInv'
  <2>1. \A i \in 1..Len(queue) : queue[i].owner # p
    BY <1>t, <1>12, AnsweredIsOut DEF Collect
  <2> QED BY <1>t, <1>12, <2>1, AdvanceStep DEF Collect, Goes, comfy
<1>13. CASE Render \/ Arrives
  BY <1>t, <1>13, RenderStep, ArrivesStep
<1>14. CASE ServerCrash
  <2> DEFINE E == {r \in Requests : stage[r] # "idle"}
  <2>1. PICK sent \in SUBSET UNION {Requesting(r) : r \in Requests} : late' = late \cup sent
    BY <1>14 DEF ServerCrash
  <2>2. sent \in SUBSET UNION {Requesting(r) : r \in E}
    BY <1>c, RequestingAt
  <2>3. /\ \A r \in E : stage[r] # "idle" /\ stage'[r] = "over"
        /\ \A p \in Productions \ E : stage'[p] = stage[p]
        /\ UNCHANGED <<plan, pos, image, queue, rendered, strays>>
    BY <1>t, <1>c, <1>14 DEF ServerCrash, TypeOK
  <2>4. E \in SUBSET Productions
    BY <1>c
  <2> HIDE DEF E
  <2> QED BY <1>t, <2>1, <2>2, <2>3, <2>4, LeavesLate
<1>15. CASE UNCHANGED vars
  BY <1>t, <1>15, StagesOnly DEF vars, comfy
<1> QED
  BY <1>1, <1>2, <1>3, <1>4, <1>5, <1>6, <1>7, <1>8, <1>9, <1>10, <1>11, <1>12, <1>13, <1>14,
     <1>15, PlanStep, UploadStep, <1>t DEF Next, Work

\* With one productions directory, a clip that a production goes on with was rendered
\* from the image uploaded for it, whatever prompts its predecessors left behind, unless
\* ComfyUI has served an upload that one of them was not waiting for any more.
THEOREM ClipsFromOwnImage == ASSUME OneDirectory PROVE Spec => []OwnOrStrayImage
<1>1. LockInv /\ PromptInv /\ [Next]_vars => PromptInv'
  BY PromptStep
<1>2. PromptInv => OwnOrStrayImage
  BY DEF PromptInv, GoodClips, OwnOrStrayImage, ClipsHaveTheirImages
<1> QED BY <1>1, <1>2, PromptInit, Locked, PTL DEF Spec

-----------------------------------------------------------------------------
(* While nothing times out or is killed.                                   *)

\* No request is late, and a prompt in the queue is waited for.
Awaited ==
  /\ late = {} /\ strays = {}
  /\ \A i \in 1..Len(queue) : stage[queue[i].owner] = "waiting"

LEMMA AwaitedStep ==
  ASSUME OneDirectory, ~TimesOut, ~Crashes, LockInv, PromptInv, Awaited, [Next]_vars
  PROVE  Awaited'
<1>t. TypeOK
  BY DEF LockInv
<1>c. Requests \subseteq Productions /\ Clis \subseteq Productions
  BY DEF Productions
\* A production with a prompt in the queue only waits.
<1>1. ASSUME UNCHANGED <<queue, late, strays>>,
             NEW p \in Productions, \A i \in 1..Len(queue) : queue[i].owner # p,
             \A q \in Productions \ {p} : stage'[q] = stage[q]
      PROVE  Awaited'
  BY <1>1, <1>t, PromptNamed DEF Awaited
<1>2. ASSUME UNCHANGED <<queue, late, strays>>, NEW p \in Productions, stage[p] # "waiting",
             \A q \in Productions \ {p} : stage'[q] = stage[q]
      PROVE  Awaited'
  BY <1>1, <1>2 DEF Awaited
<1>3. ASSUME NEW r \in Requests, Accept(r) PROVE Awaited'
  BY <1>2, <1>3, <1>c, <1>t DEF Accept, Goes, comfy, TypeOK, LockInv, NoThreadYet
<1>4. ASSUME NEW c \in Clis, StartCli(c) PROVE Awaited'
  BY <1>2, <1>4, <1>c, <1>t DEF StartCli, Goes, comfy, TypeOK
<1>5. ASSUME NEW p \in Productions, Acquire(p) \/ FindLocked(p) PROVE Awaited'
  BY <1>2, <1>5, <1>t DEF Acquire, FindLocked, Goes, comfy, TypeOK
<1>6. ASSUME NEW p \in Productions, LockBreaks(p) \/ Release(p) PROVE Awaited'
  BY <1>2, <1>6, <1>t DEF LockBreaks, Release, Goes, comfy, TypeOK
<1>7. ASSUME NEW p \in Productions, PlanBrief(p) \/ Assemble(p) PROVE Awaited'
  <2>1. CASE PlanBrief(p)
    BY <1>2, <1>t, <2>1 DEF PlanBrief, Goes, comfy, TypeOK
  <2>2. CASE Assemble(p)
    BY <1>2, <1>t, <2>2 DEF Assemble, Goes, comfy, TypeOK
  <2> QED BY <1>7, <2>1, <2>2
<1>8. ASSUME NEW p \in Productions, Upload(p) \/ Speak(p) PROVE Awaited'
  <2>1. CASE Upload(p)
    BY <1>2, <1>t, <2>1 DEF Upload, Uploads, Goes, TypeOK
  <2>2. CASE Speak(p)
    BY <1>2, <1>t, <2>2 DEF Speak, comfy
  <2> QED BY <1>8, <2>1, <2>2
<1>9. ASSUME NEW p \in Productions, Collect(p) PROVE Awaited'
  <2>1. \A i \in 1..Len(queue) : queue[i].owner # p
    BY <1>9, <1>t, AnsweredIsOut DEF Collect
  <2> QED BY <1>1, <1>9, <1>t, <2>1 DEF Collect, Goes, comfy, TypeOK
<1>10. ASSUME NEW p \in Productions, Breaks(p) PROVE Awaited'
  <2>1. \A i \in 1..Len(queue) : queue[i].owner # p
    BY <1>10, <1>t, AnsweredIsOut DEF Breaks, Awaited
  <2>2. UNCHANGED <<queue, late, strays>> /\ stage' = [stage EXCEPT ![p] = "closing"]
    BY <1>10 DEF Breaks, Goes, comfy
  <2> QED BY <1>1, <1>t, <2>1, <2>2 DEF TypeOK
<1>11. ASSUME NEW p \in Productions, Submit(p) PROVE Awaited'
  <2>1. /\ queue' = Append(queue, Current(p)) /\ stage' = [stage EXCEPT ![p] = "waiting"]
        /\ UNCHANGED <<late, strays>>
    BY <1>11 DEF Submit, Goes
  <2>2. /\ Len(queue') = Len(queue) + 1
        /\ \A i \in 1..Len(queue) : queue'[i] = queue[i]
        /\ queue'[Len(queue) + 1] = Current(p)
        /\ \A i \in 1..Len(queue') : i \in 1..Len(queue) \/ i = Len(queue) + 1
    BY <1>t, <2>1, PromptNamed, AppendFacts DEF TypeOK
  <2>3. \A q \in Productions : stage[q] = "waiting" => stage'[q] = "waiting"
    BY <1>t, <2>1 DEF TypeOK
  <2>4. stage'[p] = "waiting"
    BY <1>t, <2>1 DEF TypeOK
  <2> QED BY <1>t, <2>1, <2>2, <2>3, <2>4, PromptNamed DEF Awaited
<1>12. CASE Render
  <2>1. \A i \in 1..Len(queue') : queue'[i] = queue[i + 1] /\ i + 1 \in 1..Len(queue)
    BY <1>12, <1>t, TailFacts DEF Render, TypeOK
  <2> QED BY <1>12, <2>1 DEF Render, Awaited
<1>13. ASSUME UNCHANGED <<stage, queue, late, strays>> PROVE Awaited'
  BY <1>13 DEF Awaited
<1>14. ASSUME NEW p \in Productions, Work(p) PROVE Awaited'
  BY <1>5, <1>6, <1>7, <1>8, <1>9, <1>10, <1>11, <1>14 DEF Work, GiveUp
<1>15. ASSUME NEW r \in Requests, Handler(r) PROVE Awaited'
  BY <1>3, <1>13, <1>15 DEF Handler, CheckActive, Refuse, comfy
<1> QED
  BY <1>4, <1>12, <1>13, <1>14, <1>15 DEF Next, Arrives, CliCrash, ServerCrash, vars, comfy, Awaited

\* While ComfyUI answers in time and nobody is killed, its queue holds prompts of
\* one production only.
THEOREM OneProductionsPrompts ==
  ASSUME OneDirectory, ~TimesOut, ~Crashes PROVE Spec => []AloneInComfy
<1>1. LockInv /\ PromptInv /\ Awaited => AloneInComfy
  BY Mutex, PromptNamed DEF LockInv, Awaited, AloneInComfy, InProduction, Rendering
<1>2. LockInv /\ PromptInv /\ Awaited /\ [Next]_vars => Awaited'
  BY AwaitedStep
<1>3. Init => Awaited
  BY DEF Init, Awaited
<1>4. LockInv /\ PromptInv /\ [Next]_vars => PromptInv'
  BY PromptStep
<1> QED BY <1>1, <1>2, <1>3, <1>4, PromptInit, Locked, PTL DEF Spec

\* ... and every clip that a production goes on with was rendered from its own image.
THEOREM OwnImageInTime ==
  ASSUME OneDirectory, ~TimesOut, ~Crashes PROVE Spec => []OwnImage
<1>1. Awaited => strays = {}
  BY DEF Awaited
<1>2. OwnOrStrayImage /\ strays = {} => OwnImage
  BY DEF OwnOrStrayImage, OwnImage, ClipsHaveTheirImages
<1>3. LockInv /\ PromptInv /\ Awaited /\ [Next]_vars => Awaited'
  BY AwaitedStep
<1>4. LockInv /\ PromptInv /\ [Next]_vars => PromptInv'
  BY PromptStep
<1>5. Init => Awaited
  BY DEF Init, Awaited
<1> QED BY <1>1, <1>2, <1>3, <1>4, <1>5, PromptInit, Locked, ClipsFromOwnImage, PTL DEF Spec
=============================================================================
