------------------------- MODULE PullPipeline_proofs -------------------------
(***************************************************************************)
(* The pull of one model from the download to the teardown, for any number *)
(* of callers and any set of files.                                        *)
(*                                                                         *)
(* First the download by itself (PullDownload).  What the lock protects is *)
(* proved for callers that may overlap, fail and be killed, but do not     *)
(* look at the lock while it changes hands, and can write their pid into   *)
(* it: LockInv says who owns the lock at each of a caller's phases,        *)
(* FilesInv what its files are while it does.                              *)
(*                                                                         *)
(* Then the pipeline.  Whose the container is needs nothing of the lock:   *)
(* its name is taken by one docker compose up and given back by its own    *)
(* docker compose down.  What its server has loaded is what was published  *)
(* at the time, so what a capture may say of the weights rests on the      *)
(* proofs of the download.                                                 *)
(***************************************************************************)
EXTENDS PullPipeline, TLAPS

\* What the lock needs to be one.
Orderly == ~Overlapping /\ "pid" \notin Faults

-----------------------------------------------------------------------------
(* Type correctness.                                                       *)

\* What it is to be a tree.
LEMMA TreeFacts ==
  /\ \A t \in Trees : DOMAIN t \subseteq Files /\ \A f \in DOMAIN t : t[f] \in Contents
  /\ \A S \in SUBSET Files : \A t \in [S -> Contents] : t \in Trees
  /\ Nothing \in Trees /\ DOMAIN Nothing = {}
  /\ NoTree \notin Trees
<1>1. ASSUME NEW t \in Trees
      PROVE  DOMAIN t \subseteq Files /\ \A f \in DOMAIN t : t[f] \in Contents
  <2>1. PICK S \in SUBSET Files : t \in [S -> Contents]
    BY DEF Trees
  <2> QED BY <2>1
<1>2. ASSUME NEW S \in SUBSET Files, NEW t \in [S -> Contents] PROVE t \in Trees
  BY DEF Trees
<1>3. Nothing \in [{} -> Contents] /\ DOMAIN Nothing = {}
  BY DEF Nothing, Contents
<1>4. Nothing \in Trees
  BY <1>2, <1>3
<1> QED BY <1>1, <1>2, <1>3, <1>4, TreesAssumption

\* The lock as mkdir makes it.
LEMMA NewLock == [pid |-> NoPid, fresh |-> TRUE] \in Locks
BY DEF Locks

LEMMA TypeInit == Init => TypeOK
<1> SUFFICES ASSUME Init PROVE TypeOK
  OBVIOUS
<1>1. [f \in Files |-> "good"] \in [Files -> Contents]
  BY DEF Contents
<1>2. [f \in Files |-> "good"] \in Trees /\ Nothing \in Trees
  BY <1>1, TreeFacts
<1>3. published \in Trees
  BY <1>2 DEF Init
<1> QED BY <1>3 DEF Init, TypeOK, Results, Holding, Window

LEMMA TypeStep == TypeOK /\ [Next]_vars => TypeOK'
<1> SUFFICES ASSUME TypeOK, [Next]_vars PROVE TypeOK'
  OBVIOUS
<1> USE DEF Results, Holding, Window
<1>1. ASSUME NEW c \in Callers, Call(c) \/ End(c) \/ Crash(c) PROVE TypeOK'
  BY <1>1 DEF Call, End, Crash, Goes, local, trees, TypeOK
<1>2. ASSUME NEW c \in Callers, Acquire(c) PROVE TypeOK'
  <2>1. CASE Mkdir(c)
    <3>1. lock' \in Locks \cup {NoLock}
      BY <2>1, NewLock DEF Mkdir, TypeOK
    <3>2. at' = [at EXCEPT ![c] = "pid"] \/ at' = [at EXCEPT ![c] = "look"]
      BY <2>1 DEF Mkdir, Goes
    <3> QED BY <2>1, <3>1, <3>2 DEF Mkdir, local, trees, TypeOK
  <2>2. CASE MkdirFails(c)
    BY <2>2 DEF MkdirFails, Goes, Gives, local, trees, TypeOK
  <2>3. CASE Look(c)
    BY <2>3 DEF Look, Goes, Gives, local, trees, TypeOK
  <2>4. CASE Probe(c)
    BY <2>4 DEF Probe, Goes, Gives, local, trees, TypeOK
  <2>5. CASE Steal(c)
    BY <2>5 DEF Steal, Goes, Gives, trees, TypeOK
  <2> QED BY <1>2, <2>1, <2>2, <2>3, <2>4, <2>5 DEF Acquire
<1>3. ASSUME NEW c \in Callers, WritePid(c) \/ Unlock(c) PROVE TypeOK'
  BY <1>3 DEF WritePid, Unlock, Goes, local, trees, TypeOK, Locks
<1>4. CASE Age
  BY <1>4 DEF Age, MidAcquire, local, trees, TypeOK, Locks
<1>5. ASSUME NEW c \in Callers, Stage(c) \/ StageFails(c) \/ FetchFails(c) \/ VerifyFails(c)
      PROVE TypeOK'
  <2>1. CASE Stage(c)
    BY <2>1, TreeFacts DEF Stage, Goes, TypeOK
  <2>2. CASE StageFails(c)
    BY <2>2 DEF StageFails, Fails, Goes, Gives, local, TypeOK
  <2>3. CASE FetchFails(c)
    BY <2>3 DEF FetchFails, Fails, Goes, Gives, local, TypeOK
  <2>4. CASE VerifyFails(c)
    BY <2>4 DEF VerifyFails, Fails, Goes, Gives, local, TypeOK
  <2> QED BY <1>5, <2>1, <2>2, <2>3, <2>4
<1>6. ASSUME NEW c \in Callers, Fetch(c) PROVE TypeOK'
  <2> DEFINE tree == IF staging = NoTree THEN Nothing ELSE staging
  <2>1. PICK f \in todo[c], b \in Contents :
          /\ todo' = [todo EXCEPT ![c] = @ \ {f}]
          /\ staging' = [x \in DOMAIN tree \cup {f} |-> IF x = f THEN b ELSE tree[x]]
    BY <1>6 DEF Fetch, Contents
  <2>2. tree \in Trees /\ f \in Files
    BY TreeFacts DEF TypeOK
  <2>3. DOMAIN tree \cup {f} \in SUBSET Files
    BY <2>2, TreeFacts
  <2>4. staging' \in [DOMAIN tree \cup {f} -> Contents]
    BY <2>1, <2>2, TreeFacts
  <2>5. staging' \in Trees
    BY <2>3, <2>4, TreeFacts
  <2> QED BY <1>6, <2>1, <2>5 DEF Fetch, TypeOK
<1>7. ASSUME NEW c \in Callers, Fetched(c) PROVE TypeOK'
  <2>1. (IF staging = NoTree THEN {} ELSE DOMAIN staging) \subseteq Files
    BY TreeFacts DEF TypeOK
  <2> QED BY <1>7, <2>1 DEF Fetched, Goes, trees, TypeOK
<1>8. ASSUME NEW c \in Callers, Verify(c) \/ VerifyRaises(c) \/ Verified(c) PROVE TypeOK'
  BY <1>8 DEF Verify, VerifyRaises, Verified, Goes, Gives, local, trees, TypeOK
<1>9. ASSUME NEW c \in Callers, Move(c) PROVE TypeOK'
  <2>1. staged' \in [written[c] -> Contents]
    BY <1>9, TreeFacts DEF Move, Present, TypeOK
  <2>2. staged' \in Trees
    BY <2>1, TreeFacts DEF TypeOK
  <2> QED BY <1>9, <2>2 DEF Move, Goes, local, TypeOK
<1>10. ASSUME NEW c \in Callers, MoveFails(c) \/ RenameFails(c) PROVE TypeOK'
  BY <1>10 DEF MoveFails, RenameFails, Fails, Goes, Gives, local, TypeOK
<1>11. ASSUME NEW c \in Callers, RemoveSome(c) PROVE TypeOK'
  <2>1. PICK S \in SUBSET DOMAIN published : published' = [f \in S |-> published[f]]
    BY <1>11 DEF RemoveSome, Restrict
  <2>2. S \in SUBSET Files /\ published' \in [S -> Contents]
    BY <2>1, TreeFacts DEF TypeOK
  <2>3. published' \in Trees
    BY <2>2, TreeFacts
  <2> QED BY <1>11, <2>3 DEF RemoveSome, local, TypeOK
<1>12. ASSUME NEW c \in Callers, Remove(c) \/ Rename(c) PROVE TypeOK'
  BY <1>12, TreeFacts DEF Remove, Rename, Goes, Gives, local, TypeOK
<1>13. CASE UNCHANGED vars
  BY <1>13 DEF vars, local, trees, TypeOK
<1> QED
  BY <1>1, <1>2, <1>3, <1>4, <1>5, <1>6, <1>7, <1>8, <1>9, <1>10, <1>11, <1>12, <1>13
     DEF Next, Download, Publish

\* The variables keep their types.
THEOREM TypeCorrect == Spec => []TypeOK
BY TypeInit, TypeStep, PTL DEF Spec
-----------------------------------------------------------------------------
(* The lock.                                                               *)

Held(c) == lock # NoLock /\ lock.pid = c

\* A caller leaves the window of the unlock without Clear.
Brief == Window \ {"unlock"}

\* At most one caller is in a window, and nobody takes over from a live holder.
Spaced ==
  /\ \A c, d \in Callers : at[c] \in Brief /\ at[d] \in Brief => c = d
  /\ \A c, d \in Callers : at[d] \in {"probe", "steal"} => at[c] \notin Holding

\* Whose the lock is, at each phase of its holder.
Owned ==
  \A c \in Callers :
    /\ at[c] = "pid" => lock # NoLock /\ lock.pid = NoPid
    /\ at[c] \in {"stage", "fetch", "verify", "move"} => Held(c)
    /\ at[c] = "remove" => lock = NoLock \/ Held(c)
    /\ at[c] = "rename" => lock = NoLock
    /\ at[c] = "unlock" => Held(c) \/ \A d \in Callers \ {c} : at[d] \notin Window

\* A pid in the lock is its holder's, or that of a caller that was killed.
PidIsHolders == lock # NoLock /\ lock.pid # NoPid => at[lock.pid] \in Holding \cup {"gone"}

LockInv == TypeOK /\ OneInside /\ Spaced /\ Owned /\ PidIsHolders

LEMMA LockInit == Init => LockInv
BY TypeInit DEF Init, LockInv, OneInside, Spaced, Owned, PidIsHolders, Brief, Window, Holding

LEMMA LockStep == Orderly /\ LockInv /\ [Next]_vars => LockInv'
<1> SUFFICES ASSUME Orderly, LockInv, [Next]_vars PROVE LockInv'
  OBVIOUS
<1> USE DEF LockInv, OneInside, Spaced, Owned, PidIsHolders, Held, Brief, Window, Holding
<1>t. TypeOK'
  BY TypeStep
<1>p. NoPid \notin Callers /\ NoLock \notin Locks
  BY ConstantsAssumption, LocksAssumption
<1>1. ASSUME NEW c \in Callers, Call(c) PROVE LockInv'
  BY <1>1, <1>t DEF Call, Goes, Clear, Orderly, TypeOK, Locks
<1>2. ASSUME NEW c \in Callers, Mkdir(c) PROVE LockInv'
  <2>1. CASE lock = NoLock
    <3>1. lock' = [pid |-> NoPid, fresh |-> TRUE] /\ lock' # NoLock
      BY <1>2, <1>p, <2>1, NewLock DEF Mkdir
    <3>2. \A d \in Callers \ {c} : at[d] \notin Holding
      BY <1>2, <2>1 DEF Mkdir, Goes
    <3> QED BY <1>2, <1>t, <1>p, <2>1, <3>1, <3>2 DEF Mkdir, Goes, TypeOK
  <2>2. CASE lock # NoLock
    BY <1>2, <1>t, <2>2 DEF Mkdir, Goes, TypeOK, Locks
  <2> QED BY <2>1, <2>2
<1>3. ASSUME NEW c \in Callers, MkdirFails(c) \/ End(c) PROVE LockInv'
  BY <1>3, <1>t DEF MkdirFails, End, Goes, TypeOK, Locks
<1>4. ASSUME NEW c \in Callers, Look(c) PROVE LockInv'
  <2>1. CASE Active
    BY <1>4, <1>t, <2>1 DEF Look, Goes, TypeOK, Locks
  <2>2. CASE ~Active
    <3>1. \A d \in Callers \ {c} : at[d] \notin Holding
      BY <1>4, <1>p, <2>2 DEF Look, Goes, Active, Alive, TypeOK
    <3> QED BY <1>4, <1>t, <2>2, <3>1 DEF Look, Goes, TypeOK, Locks
  <2> QED BY <2>1, <2>2
<1>5. ASSUME NEW c \in Callers, Probe(c) PROVE LockInv'
  BY <1>5, <1>t DEF Probe, Goes, TypeOK, Locks
<1>6. ASSUME NEW c \in Callers, Steal(c) PROVE LockInv'
  BY <1>6, <1>t DEF Steal, Goes, TypeOK, Locks
<1>7. ASSUME NEW c \in Callers, WritePid(c) PROVE LockInv'
  <2>1. lock # NoLock /\ lock' = [lock EXCEPT !.pid = c] /\ lock \in Locks
    BY <1>7 DEF WritePid, Goes, Orderly, TypeOK
  <2>2. lock' \in Locks /\ lock'.pid = c
    BY <2>1 DEF Locks
  <2> QED BY <1>7, <1>t, <1>p, <2>1, <2>2 DEF WritePid, Goes, TypeOK
<1>8. CASE Age
  <2>1. lock' # NoLock /\ lock \in Locks /\ lock'.pid = lock.pid
    BY <1>8, <1>p DEF Age, MidAcquire, TypeOK, Locks
  <2> QED BY <1>8, <1>t, <2>1 DEF Age, MidAcquire
<1>9. ASSUME NEW c \in Callers, Unlock(c) PROVE LockInv'
  BY <1>9, <1>t DEF Unlock, Goes, TypeOK
<1>10. ASSUME NEW c \in Callers, NEW from \in {"stage", "fetch", "verify", "move", "rename"},
              NEW to \in {"fetch", "verify", "move", "unlock"},
              Goes(c, from, to), UNCHANGED lock, from = "rename" => to = "unlock"
       PROVE  LockInv'
  BY <1>10, <1>t DEF Goes, TypeOK, Locks
<1>11. ASSUME NEW c \in Callers, Move(c) PROVE LockInv'
  BY <1>11, <1>t DEF Move, Goes, Clear, Orderly, TypeOK, Locks
<1>12. ASSUME NEW c \in Callers, RemoveSome(c) PROVE LockInv'
  BY <1>12, <1>t DEF RemoveSome
<1>13. ASSUME NEW c \in Callers, Remove(c) PROVE LockInv'
  BY <1>13, <1>t DEF Remove, Goes, TypeOK
<1>14. ASSUME NEW c \in Callers, Crash(c) PROVE LockInv'
  BY <1>14, <1>t DEF Crash, TypeOK, Locks
<1>15. ASSUME UNCHANGED <<at, lock>> PROVE LockInv'
  BY <1>15, <1>t
<1>16. ASSUME NEW c \in Callers, Download(c) PROVE LockInv'
  <2>1. CASE Stage(c) \/ Fetched(c) \/ Verified(c)
    BY <1>10, <2>1 DEF Stage, Fetched, Verified
  <2>2. CASE StageFails(c) \/ FetchFails(c) \/ VerifyFails(c) \/ VerifyRaises(c)
    BY <1>10, <2>2 DEF StageFails, FetchFails, VerifyFails, VerifyRaises, Fails
  <2>3. CASE Fetch(c) \/ Verify(c)
    BY <1>15, <2>3 DEF Fetch, Verify
  <2> QED BY <1>16, <2>1, <2>2, <2>3 DEF Download
<1>17. ASSUME NEW c \in Callers, MoveFails(c) \/ Rename(c) \/ RenameFails(c) PROVE LockInv'
  BY <1>10, <1>17 DEF MoveFails, Rename, RenameFails, Fails
<1> QED
  BY <1>1, <1>2, <1>3, <1>4, <1>5, <1>6, <1>7, <1>8, <1>9, <1>11, <1>12, <1>13, <1>14,
     <1>15, <1>16, <1>17 DEF Next, Acquire, Publish, vars

\* The lock's invariant.
THEOREM Locked == ASSUME Orderly PROVE Spec => []LockInv
BY LockInit, LockStep, PTL DEF Spec

\* One pull at a time: while the lock does not change hands under a caller's eyes,
\* no failure and no kill lets a second one in.
THEOREM OnePull == ASSUME Orderly PROVE Spec => []OneInside
<1>1. LockInv => OneInside
  BY DEF LockInv
<1> QED BY <1>1, Locked, PTL

\* A call is turned away only for a pull under way or a young lock.
THEOREM StaleLocksGo == ASSUME Orderly PROVE Spec => StaleIsReclaimed
<1>1. ASSUME LockInv, [Next]_vars, NEW c \in Callers,
             result[c] = "none", result'[c] = "in-progress"
      PROVE  \/ lock.pid # NoPid /\ at[lock.pid] \in Holding
             \/ lock.pid = NoPid /\ lock.fresh
  <2>1. ASSUME NEW d \in Callers, NEW what \in Results \ {"in-progress"}
        PROVE  ~Gives(d, what)
    BY <1>1, <2>1 DEF Gives, LockInv, TypeOK
  <2>2. result' # result
    BY <1>1
  <2>3. PICK d \in Callers : (Look(d) /\ Active) \/ (Probe(d) /\ MidAcquire)
    <3>1. ASSUME NEW d \in Callers PROVE ~(Download(d) \/ Publish(d))
      BY <2>1, <2>2 DEF Download, Publish, Stage, StageFails, Fetch, Fetched, FetchFails, Verify,
            VerifyFails, VerifyRaises, Verified, Move, MoveFails, RemoveSome, Remove, Rename,
            RenameFails, Fails, Results
    <3>2. ASSUME NEW d \in Callers
          PROVE  ~(Call(d) \/ Mkdir(d) \/ MkdirFails(d) \/ Steal(d) \/ WritePid(d) \/ Unlock(d)
                   \/ End(d) \/ Crash(d))
      BY <2>1, <2>2 DEF Call, Mkdir, MkdirFails, Steal, WritePid, Unlock, End, Crash, Results
    <3> QED BY <1>1, <2>2, <3>1, <3>2 DEF Next, Acquire, Age, Look, Probe, vars
  <2>4. CASE Active
    BY <1>1, <2>4 DEF Active, Alive, LockInv, PidIsHolders
  <2>5. CASE MidAcquire
    BY <2>5 DEF MidAcquire
  <2> QED BY <2>3, <2>4, <2>5
<1>2. LockInv /\ [Next]_vars =>
        [ \A c \in Callers :
            result[c] = "none" /\ result'[c] = "in-progress"
              => \/ lock.pid # NoPid /\ at[lock.pid] \in Holding
                 \/ lock.pid = NoPid /\ lock.fresh ]_vars
  BY <1>1
<1> QED BY <1>2, Locked, PTL DEF Spec, StaleIsReclaimed

-----------------------------------------------------------------------------
(* The lease.                                                              *)

Inside == {c \in Callers : at[c] \in Holding}

LEMMA LeaseStep == LockInv /\ [Next]_vars /\ Orderly => [Lease!Next]_Inside
<1> SUFFICES ASSUME LockInv, [Next]_vars, Orderly PROVE [Lease!Next]_Inside
  OBVIOUS
<1>t. TypeOK /\ TypeOK'
  BY TypeStep DEF LockInv
<1>1. ASSUME NEW c \in Callers, \A d \in Callers \ {c} : at'[d] = at[d],
             at'[c] \in Holding <=> at[c] \in Holding
      PROVE  UNCHANGED Inside
  BY <1>1 DEF Inside
<1>2. ASSUME NEW c \in Callers, \A d \in Callers \ {c} : at'[d] = at[d],
             at[c] \in Holding, at'[c] \notin Holding
      PROVE  Lease!Next
  <2>1. c \in Inside /\ Inside' = Inside \ {c}
    BY <1>2 DEF Inside
  <2> QED BY <2>1 DEF Lease!Next, Lease!Land, Inside
<1>3. ASSUME NEW c \in Callers, Mkdir(c), lock = NoLock PROVE Lease!Next
  <2>1. Inside = {}
    BY <1>3 DEF Inside, Mkdir, Goes, LockInv, Spaced, Owned, Held, Brief, Window, Holding
  <2>2. at' = [at EXCEPT ![c] = "pid"]
    BY <1>3 DEF Mkdir, Goes
  <2>3. Inside' = {c}
    BY <1>t, <2>1, <2>2 DEF Inside, TypeOK, Holding
  <2> QED BY <2>1, <2>3 DEF Lease!Next, Lease!Start, Inside
<1>4. ASSUME NEW c \in Callers, NEW from, NEW to, Goes(c, from, to)
      PROVE  at[c] = from /\ at'[c] = to /\ \A d \in Callers \ {c} : at'[d] = at[d]
  BY <1>4, <1>t DEF Goes, TypeOK
<1>5. ASSUME UNCHANGED at PROVE UNCHANGED Inside
  BY <1>5 DEF Inside
<1>6. ASSUME NEW c \in Callers, Acquire(c) \/ Call(c) \/ End(c) PROVE [Lease!Next]_Inside
  <2>1. CASE Mkdir(c) /\ lock = NoLock
    BY <1>3, <2>1
  <2>2. CASE ~(Mkdir(c) /\ lock = NoLock)
    <3>1. \E from, to \in {"idle", "mkdir", "look", "probe", "steal", "over", "gone"} :
            Goes(c, from, to)
      BY <1>6, <2>2 DEF Acquire, Call, End, Mkdir, MkdirFails, Look, Probe, Steal
    <3> QED BY <1>1, <1>4, <3>1 DEF Holding
  <2> QED BY <2>1, <2>2
<1>7. ASSUME NEW c \in Callers, WritePid(c) \/ Download(c) \/ Publish(c)
      PROVE  [Lease!Next]_Inside
  <2>1. \/ UNCHANGED at
        \/ \E from, to \in Holding : Goes(c, from, to)
    BY <1>7 DEF WritePid, Download, Publish, Stage, StageFails, Fetch, Fetched, FetchFails, Verify,
          VerifyFails, VerifyRaises, Verified, Move, MoveFails, RemoveSome, Remove, Rename,
          RenameFails, Fails, Holding
  <2> QED BY <1>1, <1>4, <1>5, <2>1
<1>8. ASSUME NEW c \in Callers, Unlock(c) PROVE [Lease!Next]_Inside
  BY <1>2, <1>4, <1>8 DEF Unlock, Holding
<1>9. ASSUME NEW c \in Callers, Crash(c) PROVE [Lease!Next]_Inside
  <2>1. at'[c] = "gone" /\ \A d \in Callers \ {c} : at'[d] = at[d]
    BY <1>9, <1>t DEF Crash, TypeOK
  <2> QED BY <1>1, <1>2, <2>1 DEF Holding
<1> QED BY <1>5, <1>6, <1>7, <1>8, <1>9 DEF Next, Age, vars

\* The pulls of one model implement the single-flight lease.
THEOREM ImplementsLease == ASSUME Orderly PROVE Spec => LeaseSpec
<1>1. Init => Lease!Init
  BY DEF Init, Lease!Init, Holding
<1>2. LockInv /\ [Next]_vars => [Lease!Next]_Inside
  BY LeaseStep
<1> QED BY <1>1, <1>2, Locked, PTL DEF Spec, LeaseSpec, Lease!Spec, Inside

-----------------------------------------------------------------------------
(* The files.                                                              *)

\* Every file is there, and every hash has been checked.
Complete(t) ==
  t # NoTree /\ DOMAIN t = Files /\ \A f \in Safetensors : t[f] = "good"

\* What the trees are while a caller is inside.
Progress ==
  \A c \in Callers :
    /\ at[c] = "fetch" => staging # NoTree /\ Files \subseteq DOMAIN staging \cup todo[c]
    /\ at[c] = "verify" => /\ staging # NoTree /\ DOMAIN staging = Files
                           /\ written[c] = Files /\ todo[c] \subseteq Safetensors
                           /\ \A f \in Safetensors \ todo[c] : staging[f] = "good"
    /\ at[c] = "move" => Complete(staging) /\ written[c] = Files
    /\ at[c] \in {"remove", "rename"} => Complete(staged) /\ staging = NoTree
    /\ at[c] = "rename" => DOMAIN published = {}
    /\ at[c] = "unlock" /\ result[c] # "raised" => staging = NoTree

FilesInv == LockInv /\ Progress /\ NothingUnverified

LEMMA FilesInit == Init => FilesInv
<1> SUFFICES ASSUME Init PROVE FilesInv
  OBVIOUS
<1>1. Progress
  BY DEF Init, Progress
<1>2. NothingUnverified
  BY TreeFacts DEF Init, NothingUnverified
<1> QED BY <1>1, <1>2, LockInit DEF FilesInv

\* A step of one caller that changes no tree another one is at work on.
LEMMA OthersProgress ==
  ASSUME FilesInv, LockInv', NEW c \in Callers, at[c] \in Holding,
         \A d \in Callers \ {c} : at'[d] = at[d]
  PROVE  \A d \in Callers \ {c} : at'[d] \notin Holding
BY DEF FilesInv, LockInv, OneInside

LEMMA FilesStep == Orderly /\ FilesInv /\ [Next]_vars => FilesInv'
<1> SUFFICES ASSUME Orderly, FilesInv, [Next]_vars PROVE FilesInv'
  OBVIOUS
<1>l. LockInv'
  BY LockStep DEF FilesInv
<1>t. TypeOK /\ TypeOK'
  BY <1>l DEF FilesInv, LockInv
<1>s. Safetensors \subseteq Files
  BY ConstantsAssumption
<1>1. ASSUME NEW c \in Callers, at[c] \in Holding, \A d \in Callers \ {c} : at'[d] = at[d],
             NothingUnverified',
             at'[c] = "fetch" => staging' # NoTree /\ Files \subseteq DOMAIN staging' \cup todo'[c],
             at'[c] = "verify" => /\ staging' # NoTree /\ DOMAIN staging' = Files
                                  /\ written'[c] = Files /\ todo'[c] \subseteq Safetensors
                                  /\ \A f \in Safetensors \ todo'[c] : staging'[f] = "good",
             at'[c] = "move" => Complete(staging') /\ written'[c] = Files,
             at'[c] \in {"remove", "rename"} => Complete(staged') /\ staging' = NoTree,
             at'[c] = "rename" => DOMAIN published' = {},
             at'[c] = "unlock" /\ result'[c] # "raised" => staging' = NoTree
      PROVE  FilesInv'
  <2>1. \A d \in Callers \ {c} : at'[d] \notin Holding
    BY <1>1, <1>l, OthersProgress
  <2> QED BY <1>1, <1>l, <2>1 DEF FilesInv, Progress, Complete, Holding
<1>2. ASSUME NEW c \in Callers, NEW from, NEW to, Goes(c, from, to)
      PROVE  at[c] = from /\ at'[c] = to /\ \A d \in Callers \ {c} : at'[d] = at[d]
  BY <1>2, <1>t DEF Goes, TypeOK
<1>3. ASSUME NEW c \in Callers, NEW to, to \notin Holding \ {"pid"},
             at'[c] = to, UNCHANGED <<todo, written, trees>>,
             \A d \in Callers \ {c} : at'[d] = at[d] /\ result'[d] = result[d]
      PROVE  FilesInv'
  <2>1. Progress'
    BY <1>3 DEF FilesInv, Progress, Complete, trees, Holding
  <2>2. NothingUnverified'
    BY <1>3 DEF FilesInv, NothingUnverified, trees
  <2> QED BY <1>l, <2>1, <2>2 DEF FilesInv
<1>4. ASSUME NEW c \in Callers, NEW from \in Holding, NEW what, Fails(c, from, what)
      PROVE  FilesInv'
  <2>1. NothingUnverified'
    BY <1>4 DEF Fails, FilesInv, NothingUnverified
  <2>2. at[c] = from /\ at'[c] = "unlock" /\ \A d \in Callers \ {c} : at'[d] = at[d]
    BY <1>2, <1>4 DEF Fails
  <2> QED BY <1>1, <1>4, <2>1, <2>2 DEF Fails
<1>5. ASSUME NEW c \in Callers, Call(c) \/ Acquire(c) \/ Unlock(c) \/ End(c) PROVE FilesInv'
  <2>1. \E from, to : Goes(c, from, to) /\ to \notin Holding \ {"pid"}
    BY <1>5 DEF Call, Acquire, Mkdir, MkdirFails, Look, Probe, Steal, Unlock, End, Holding
  <2>2. UNCHANGED <<todo, written, trees>>
    BY <1>5 DEF Call, Acquire, Mkdir, MkdirFails, Look, Probe, Steal, Unlock, End, local
  <2>3. \A d \in Callers \ {c} : result'[d] = result[d]
    BY <1>5, <1>t DEF Call, Acquire, Mkdir, MkdirFails, Look, Probe, Steal, Unlock, End, Gives, TypeOK
  <2> QED BY <1>2, <1>3, <2>1, <2>2, <2>3
<1>6. ASSUME NEW c \in Callers, Crash(c) PROVE FilesInv'
  BY <1>3, <1>6, <1>t DEF Crash, local, TypeOK, Holding
<1>7. ASSUME UNCHANGED <<at, todo, written, result, trees>> PROVE FilesInv'
  BY <1>7, <1>l DEF FilesInv, Progress, Complete, NothingUnverified, trees
<1>8. ASSUME NEW c \in Callers, WritePid(c) PROVE FilesInv'
  <2>1. at[c] = "pid" /\ at'[c] = "stage" /\ \A d \in Callers \ {c} : at'[d] = at[d]
    BY <1>2, <1>8 DEF WritePid
  <2>2. NothingUnverified'
    BY <1>8 DEF WritePid, FilesInv, NothingUnverified, trees
  <2> QED BY <1>1, <2>1, <2>2 DEF Holding
<1>9. ASSUME NEW c \in Callers, Stage(c) PROVE FilesInv'
  <2>1. at[c] = "stage" /\ at'[c] = "fetch" /\ \A d \in Callers \ {c} : at'[d] = at[d]
    BY <1>2, <1>9 DEF Stage
  <2>2. NothingUnverified' /\ staging' # NoTree /\ todo'[c] = Files
    BY <1>9, <1>t, TreeFacts DEF Stage, FilesInv, NothingUnverified, TypeOK
  <2> QED BY <1>1, <2>1, <2>2 DEF Holding
<1>10. ASSUME NEW c \in Callers, Fetch(c) PROVE FilesInv'
  <2>1. at[c] = "fetch" /\ at'[c] = at[c] /\ \A d \in Callers \ {c} : at'[d] = at[d]
    BY <1>10 DEF Fetch
  <2>2. staging # NoTree /\ Files \subseteq DOMAIN staging \cup todo[c]
    BY <2>1 DEF FilesInv, Progress
  <2>3. PICK f \in todo[c] : /\ todo' = [todo EXCEPT ![c] = @ \ {f}]
                              /\ DOMAIN staging' = DOMAIN staging \cup {f}
    BY <1>10, <2>2 DEF Fetch
  <2>4. Files \subseteq DOMAIN staging' \cup todo'[c]
    BY <1>t, <2>2, <2>3 DEF TypeOK
  <2>5. NothingUnverified'
    BY <1>10 DEF Fetch, FilesInv, NothingUnverified
  <2>6. staging' # NoTree
    <3>1. PICK b \in Contents :
            staging' = [x \in DOMAIN staging \cup {f} |-> IF x = f THEN b ELSE staging[x]]
      BY <1>10, <2>2, <2>3, <1>t DEF Fetch, Contents, TypeOK
    <3>2. staging \in Trees /\ f \in Files
      BY <1>t, <2>2 DEF TypeOK
    <3>3. DOMAIN staging \cup {f} \in SUBSET Files
      BY <3>2, TreeFacts
    <3>4. staging' \in [DOMAIN staging \cup {f} -> Contents]
      BY <3>1, <3>2, TreeFacts
    <3>5. staging' \in Trees
      BY <3>3, <3>4, TreeFacts
    <3> QED BY <3>5, TreeFacts
  <2> QED BY <1>1, <2>1, <2>4, <2>5, <2>6 DEF Holding
<1>11. ASSUME NEW c \in Callers, Fetched(c) PROVE FilesInv'
  <2>1. at[c] = "fetch" /\ at'[c] = "verify" /\ \A d \in Callers \ {c} : at'[d] = at[d]
    BY <1>2, <1>11 DEF Fetched
  <2>2. staging # NoTree /\ Files \subseteq DOMAIN staging
    BY <1>11, <2>1 DEF FilesInv, Progress, Fetched
  <2>3. DOMAIN staging = Files
    BY <1>t, <2>2, TreeFacts DEF TypeOK
  <2>4. UNCHANGED <<staging, published>> /\ written'[c] = Files /\ todo'[c] = Safetensors
    BY <1>11, <1>t, <1>s, <2>2, <2>3 DEF Fetched, trees, TypeOK
  <2>5. NothingUnverified'
    BY <2>4 DEF FilesInv, NothingUnverified
  <2> QED BY <1>1, <2>1, <2>2, <2>3, <2>4, <2>5 DEF Holding
<1>12. ASSUME NEW c \in Callers, Verify(c) PROVE FilesInv'
  <2>1. at[c] = "verify" /\ at'[c] = at[c] /\ \A d \in Callers \ {c} : at'[d] = at[d]
    BY <1>12 DEF Verify
  <2>2. /\ staging # NoTree /\ DOMAIN staging = Files
        /\ written[c] = Files /\ todo[c] \subseteq Safetensors
        /\ \A f \in Safetensors \ todo[c] : staging[f] = "good"
    BY <2>1 DEF FilesInv, Progress
  <2>3. PICK f \in todo[c] : staging[f] = "good" /\ todo' = [todo EXCEPT ![c] = @ \ {f}]
    BY <1>12 DEF Verify
  <2>4. todo'[c] = todo[c] \ {f} /\ UNCHANGED <<written, staging, published>>
    BY <1>12, <1>t, <2>3 DEF Verify, trees, TypeOK
  <2>5. NothingUnverified'
    BY <2>4 DEF FilesInv, NothingUnverified
  <2> QED BY <1>1, <2>1, <2>2, <2>3, <2>4, <2>5 DEF Holding
<1>13. ASSUME NEW c \in Callers, VerifyRaises(c) PROVE FilesInv'
  <2>1. at[c] = "verify" /\ at'[c] = "unlock" /\ \A d \in Callers \ {c} : at'[d] = at[d]
    BY <1>2, <1>13 DEF VerifyRaises
  <2>2. staging # NoTree /\ DOMAIN staging = Files /\ todo[c] \subseteq Files
    BY <1>t, <2>1 DEF FilesInv, Progress, TypeOK
  <2>3. result'[c] = "raised"
    BY <1>13, <1>t DEF VerifyRaises, Gives, TypeOK
  <2>4. NothingUnverified'
    BY <1>13 DEF VerifyRaises, FilesInv, NothingUnverified, trees
  <2> QED BY <1>1, <2>1, <2>3, <2>4 DEF Holding
<1>14. ASSUME NEW c \in Callers, Verified(c) PROVE FilesInv'
  <2>1. at[c] = "verify" /\ at'[c] = "move" /\ \A d \in Callers \ {c} : at'[d] = at[d]
    BY <1>2, <1>14 DEF Verified
  <2>2. Complete(staging) /\ written[c] = Files
    BY <1>14, <2>1 DEF Verified, FilesInv, Progress, Complete
  <2>3. NothingUnverified' /\ UNCHANGED <<staging, written>>
    BY <1>14 DEF Verified, FilesInv, NothingUnverified, local, trees
  <2> QED BY <1>1, <2>1, <2>2, <2>3 DEF Holding
<1>15. ASSUME NEW c \in Callers, Move(c) PROVE FilesInv'
  <2>1. at[c] = "move" /\ at'[c] = "remove" /\ \A d \in Callers \ {c} : at'[d] = at[d]
    BY <1>2, <1>15 DEF Move
  <2>2. Complete(staging) /\ written[c] = Files
    BY <2>1 DEF FilesInv, Progress
  <2>3. staged' = [f \in Files |-> staging[f]] /\ staging' = NoTree
    BY <1>15, <2>2 DEF Move
  <2>4. staged' # NoTree
    <3>1. staged' \in [Files -> Contents]
      BY <1>t, <2>2, <2>3, TreeFacts DEF Complete, TypeOK
    <3> QED BY <3>1, TreeFacts
  <2>5. Complete(staged')
    BY <1>s, <2>2, <2>3, <2>4 DEF Complete
  <2>6. NothingUnverified'
    BY <1>15 DEF Move, FilesInv, NothingUnverified
  <2> QED BY <1>1, <2>1, <2>3, <2>5, <2>6 DEF Holding
<1>16. ASSUME NEW c \in Callers, RemoveSome(c) PROVE FilesInv'
  <2>1. at[c] = "remove" /\ at'[c] = at[c] /\ \A d \in Callers \ {c} : at'[d] = at[d]
    BY <1>16 DEF RemoveSome
  <2>2. Complete(staged) /\ staging = NoTree
    BY <2>1 DEF FilesInv, Progress
  <2>3. UNCHANGED staged /\ staging' = NoTree
    BY <1>16, <2>2 DEF RemoveSome
  <2>4. NothingUnverified'
    BY <1>16 DEF RemoveSome, Restrict, FilesInv, NothingUnverified
  <2> QED BY <1>1, <2>1, <2>2, <2>3, <2>4 DEF Holding
<1>17. ASSUME NEW c \in Callers, Remove(c) PROVE FilesInv'
  <2>1. at[c] = "remove" /\ at'[c] = "rename" /\ \A d \in Callers \ {c} : at'[d] = at[d]
    BY <1>2, <1>17 DEF Remove
  <2>2. Complete(staged)
    BY <2>1 DEF FilesInv, Progress
  <2>3. UNCHANGED staged /\ staging' = NoTree /\ DOMAIN published' = {}
    BY <1>17, TreeFacts DEF Remove
  <2>4. NothingUnverified'
    BY <2>3 DEF NothingUnverified
  <2> QED BY <1>1, <2>1, <2>2, <2>3, <2>4 DEF Holding
<1>18. ASSUME NEW c \in Callers, Rename(c) PROVE FilesInv'
  <2>1. at[c] = "rename" /\ at'[c] = "unlock" /\ \A d \in Callers \ {c} : at'[d] = at[d]
    BY <1>2, <1>18 DEF Rename
  <2>2. Complete(staged) /\ staging' = NoTree /\ published' = staged
    BY <1>18, <2>1 DEF Rename, FilesInv, Progress
  <2>3. NothingUnverified'
    BY <2>2 DEF NothingUnverified, Complete
  <2> QED BY <1>1, <2>1, <2>2, <2>3 DEF Holding
<1>19. ASSUME NEW c \in Callers, StageFails(c) \/ FetchFails(c) \/ VerifyFails(c)
                                  \/ MoveFails(c) \/ RenameFails(c)
       PROVE  FilesInv'
  BY <1>4, <1>19 DEF StageFails, FetchFails, VerifyFails, MoveFails, RenameFails, Holding
<1>20. CASE Age \/ UNCHANGED vars
  BY <1>7, <1>20 DEF Age, vars, local
<1> QED
  BY <1>5, <1>6, <1>8, <1>9, <1>10, <1>11, <1>12, <1>13, <1>14, <1>15, <1>16, <1>17, <1>18,
     <1>19, <1>20 DEF Next, Download, Publish

\* What the trees are at each phase.
THEOREM FilesKept == ASSUME Orderly PROVE Spec => []FilesInv
BY FilesInit, FilesStep, PTL DEF Spec

\* Whatever arrives, fails or is killed, no file with a hash is published unchecked.
THEOREM PublishedIsVerified == ASSUME Orderly PROVE Spec => []NothingUnverified
<1>1. FilesInv => NothingUnverified
  BY DEF FilesInv
<1> QED BY <1>1, FilesKept, PTL

\* As long as the disk does not fail, a pull that has checked everything publishes
\* everything.
THEOREM AllIsPublished == ASSUME Orderly, "disk" \notin Faults PROVE Spec => VerifiedIsPublished
<1>1. ASSUME FilesInv, [Next]_vars, NEW c \in Callers,
             at[c] = "rename", at'[c] \notin {"rename", "gone"}
      PROVE  result'[c] = "ok" /\ DOMAIN published' = Files
  <2>1. Complete(staged) /\ staging = NoTree /\ DOMAIN published = {} /\ lock = NoLock
    BY <1>1 DEF FilesInv, Progress, LockInv, Owned
  <2>2. Rename(c) \/ RenameFails(c)
    BY <1>1 DEF FilesInv, LockInv, TypeOK, Next, Acquire, Download, Publish, Call, Mkdir, MkdirFails,
          Look, Probe, Steal, WritePid, Unlock, End, Crash, Stage, StageFails, Fetch, Fetched,
          FetchFails, Verify, VerifyFails, VerifyRaises, Verified, Move, MoveFails, RemoveSome,
          Remove, Rename, RenameFails, Fails, Goes, Age, vars
  <2>3. Rename(c)
    BY <2>1, <2>2 DEF RenameFails, Gone, Complete
  <2> QED BY <1>1, <2>1, <2>3 DEF Rename, Gives, Complete, FilesInv, LockInv, TypeOK
<1>2. FilesInv /\ [Next]_vars =>
        [ \A c \in Callers :
            at[c] = "rename" /\ at'[c] \notin {"rename", "gone"}
              => result'[c] = "ok" /\ DOMAIN published' = Files ]_vars
  BY <1>1
<1> QED BY <1>2, FilesKept, PTL DEF Spec, VerifiedIsPublished

\* A pull that held the lock leaves neither it nor, unless it ends in an exception,
\* .incomplete behind.
THEOREM NothingLeft == ASSUME Orderly PROVE Spec => NoResidue
<1>1. ASSUME FilesInv, [Next]_vars, NEW c \in Callers, at[c] = "unlock", at'[c] = "over"
      PROVE  lock' = NoLock /\ (result[c] # "raised" => staging' = NoTree)
  <2>1. result[c] # "raised" => staging = NoTree
    BY <1>1 DEF FilesInv, Progress
  <2>2. Unlock(c)
    BY <1>1 DEF FilesInv, LockInv, TypeOK, Next, Acquire, Download, Publish, Call, Mkdir, MkdirFails,
          Look, Probe, Steal, WritePid, Unlock, End, Crash, Stage, StageFails, Fetch, Fetched,
          FetchFails, Verify, VerifyFails, VerifyRaises, Verified, Move, MoveFails, RemoveSome,
          Remove, Rename, RenameFails, Fails, Goes, Age, vars
  <2> QED BY <2>1, <2>2 DEF Unlock, trees
<1>2. FilesInv /\ [Next]_vars =>
        [ \A c \in Callers :
            at[c] = "unlock" /\ at'[c] = "over"
              => lock' = NoLock /\ (result[c] # "raised" => staging' = NoTree) ]_vars
  BY <1>1
<1> QED BY <1>2, FilesKept, PTL DEF Spec, NoResidue

-----------------------------------------------------------------------------
(* The published files are whole.                                          *)

\* The phases of a call that has still to return.
Busy == {"idle", "mkdir", "look", "probe", "steal"} \cup (Holding \ {"unlock"})

\* Only a call that returns, or is about to, has a result: a killed one has none.
Unreturned == \A c \in Callers : at[c] \in Busy => result[c] = "none"

\* A caller's result changes only as its call ends.
LEMMA ResultStep ==
  ASSUME TypeOK, [Next]_vars, NEW c \in Callers
  PROVE  /\ result'[c] = result[c] \/ (at[c] # "gone" /\ at'[c] \in {"over", "unlock"})
         /\ at'[c] \in Busy => at[c] \in Busy
         /\ at[c] = "gone" => at'[c] = "gone"
         /\ at[c] = "remove" /\ at'[c] # "remove" => Remove(c) \/ Crash(c)
BY DEF TypeOK, Busy, Holding, Next, Acquire, Download, Publish, Call, Mkdir, MkdirFails, Look,
       Probe, Steal, WritePid, Unlock, End, Crash, Stage, StageFails, Fetch, Fetched, FetchFails,
       Verify, VerifyFails, VerifyRaises, Verified, Move, MoveFails, RemoveSome, Remove, Rename,
       RenameFails, Fails, Goes, Gives, Age, vars, local

\* The published files change only while some pull replaces them.
LEMMA PublishedStep ==
  ASSUME [Next]_vars
  PROVE  \/ published' = published
         \/ \E c \in Callers : RemoveSome(c) \/ Remove(c) \/ Rename(c)
BY DEF Next, Acquire, Download, Publish, Call, Mkdir, MkdirFails, Look, Probe, Steal, WritePid,
       Unlock, End, Crash, Stage, StageFails, Fetch, Fetched, FetchFails, Verify, VerifyFails,
       VerifyRaises, Verified, Move, MoveFails, RenameFails, Fails, Age, vars, local, trees

WholeInv == FilesInv /\ Unreturned /\ WholeUnlessKilled

LEMMA WholeStep == Orderly /\ WholeInv /\ [Next]_vars => WholeInv'
<1> SUFFICES ASSUME Orderly, WholeInv, [Next]_vars PROVE WholeInv'
  OBVIOUS
<1>1. TypeOK /\ FilesInv'
  BY FilesStep DEF WholeInv, FilesInv, LockInv
<1>2. Unreturned'
  BY <1>1, ResultStep DEF WholeInv, Unreturned, Busy, Holding
<1>3. WholeUnlessKilled'
  <2> SUFFICES ASSUME \A c \in Callers : /\ at'[c] # "remove"
                                         /\ ~(at'[c] = "gone" /\ result'[c] = "none")
               PROVE  DOMAIN published' \in {{}, Files}
    BY DEF WholeUnlessKilled
  <2>1. \A c \in Callers : ~(at[c] = "gone" /\ result[c] = "none")
    BY <1>1, ResultStep
  <2>2. CASE \E c \in Callers : at[c] = "remove"
    <3>1. PICK c \in Callers : at[c] = "remove"
      BY <2>2
    <3>2. Remove(c) \/ Crash(c)
      BY <1>1, <3>1, ResultStep
    <3>3. ~Crash(c)
      BY <1>1, <3>1 DEF Crash, WholeInv, Unreturned, Busy, Holding, TypeOK
    <3> QED BY <3>2, <3>3, TreeFacts DEF Remove
  <2>3. CASE \A c \in Callers : at[c] # "remove"
    <3>1. DOMAIN published \in {{}, Files}
      BY <2>1, <2>3 DEF WholeInv, WholeUnlessKilled
    <3>2. published' = published \/ \E c \in Callers : Rename(c)
      BY <2>3, PublishedStep DEF RemoveSome, Remove, Goes
    <3>3. ASSUME NEW c \in Callers, Rename(c) PROVE DOMAIN published' = Files
      BY <3>3 DEF Rename, Goes, WholeInv, FilesInv, Progress, Complete
    <3> QED BY <3>1, <3>2, <3>3
  <2> QED BY <2>2, <2>3
<1> QED BY <1>1, <1>2, <1>3 DEF WholeInv

\* No failure leaves a part of the files published; only a kill in the middle of the
\* replacement can.
THEOREM PublishedIsWhole == ASSUME Orderly PROVE Spec => []WholeUnlessKilled
<1>1. Init => WholeInv
  BY FilesInit, TreeFacts DEF Init, WholeInv, Unreturned, WholeUnlessKilled
<1>2. WholeInv => WholeUnlessKilled
  BY DEF WholeInv
<1> QED BY <1>1, <1>2, WholeStep, PTL DEF Spec

-----------------------------------------------------------------------------
(* The pipeline.                                                           *)

\* Every step of the pipeline is a step of the download, or none for it.
LEMMA PipeStepPulls == [PipeNext]_pipeline => [Next]_vars
<1> SUFFICES ASSUME [PipeNext]_pipeline PROVE [Next]_vars
  OBVIOUS
<1>1. ASSUME NEW c \in Callers, Downloads(c) \/ Ends(c) PROVE Next
  BY <1>1 DEF Downloads, Ends, Next
<1>2. ASSUME NEW c \in Callers, Boots(c) \/ Raises(c) PROVE UNCHANGED vars
  BY <1>2 DEF Boots, BootStep, NoBoot, Up, UpFails, Ready, ReadyTimesOut, Smoke, Capture, Down,
              Raises, Steps
<1>3. CASE Age
  BY <1>3 DEF Next
<1>4. CASE Load \/ Die
  BY <1>4 DEF Load, Die
<1>5. CASE UNCHANGED pipeline
  BY <1>5 DEF pipeline
<1> QED BY <1>1, <1>2, <1>3, <1>4, <1>5 DEF PipeNext

\* What the pipeline does to the download is what the download may do by itself.
THEOREM PipelineRunsPull == PipeSpec => Spec
<1>1. PipeInit => Init
  BY DEF PipeInit
<1> QED BY <1>1, PipeStepPulls, PTL DEF PipeSpec, Spec

\* Making a container, and changing what is known of it.
LEMMA ContainerFacts ==
  /\ \A x \in Containers :
       /\ x # NoContainer
       /\ LET y == [x EXCEPT !.mounted = FALSE]
          IN  y \in Containers /\ y # NoContainer /\ y.of = x.of /\ y.serves = x.serves
       /\ \A t \in Trees \cup {NoTree} :
            LET y == [x EXCEPT !.serves = t]
            IN  y \in Containers /\ y # NoContainer /\ y.of = x.of /\ y.serves = t
  /\ \A c \in Callers :
       LET y == [of |-> c, mounted |-> TRUE, serves |-> NoTree]
       IN  y \in Containers /\ y # NoContainer /\ y.of = c /\ y.serves = NoTree
<1>0. NoContainer \notin Containers
  BY ContainerAssumption
<1>1. ASSUME NEW x \in Containers
      PROVE  /\ [x EXCEPT !.mounted = FALSE] \in Containers
             /\ [x EXCEPT !.mounted = FALSE].of = x.of
             /\ [x EXCEPT !.mounted = FALSE].serves = x.serves
  BY DEF Containers
<1>2. ASSUME NEW x \in Containers, NEW t \in Trees \cup {NoTree}
      PROVE  /\ [x EXCEPT !.serves = t] \in Containers
             /\ [x EXCEPT !.serves = t].of = x.of
             /\ [x EXCEPT !.serves = t].serves = t
  BY DEF Containers
<1>3. ASSUME NEW c \in Callers
      PROVE  [of |-> c, mounted |-> TRUE, serves |-> NoTree] \in Containers
  BY DEF Containers
<1> QED BY <1>0, <1>1, <1>2, <1>3

-----------------------------------------------------------------------------
(* Type correctness.                                                       *)

LEMMA PipeTypeInit == PipeInit => PipeTypeOK
BY TypeInit DEF PipeInit, PipeTypeOK, Booted

\* Once a call of download_model has returned, its caller's process may only end.
LEMMA ReturnedStays ==
  ASSUME NEW c \in Callers, NEW d \in Callers, TypeOK,
         Downloads(d) \/ Ends(d), at[c] \in {"over", "gone"}
  PROVE  at'[c] \in {"over", "gone"}
<1>1. CASE d # c
  BY <1>1 DEF Downloads, Ends, End, Call, Acquire, Mkdir, MkdirFails, Look, Probe, Steal, WritePid,
     Download, Publish, Unlock, Crash, Stage, StageFails, Fetch, Fetched, FetchFails, Verify,
     VerifyFails, VerifyRaises, Verified, Move, MoveFails, RemoveSome, Remove, Rename, RenameFails,
     Fails, Goes, TypeOK
<1>2. CASE d = c
  BY <1>2 DEF Downloads, Ends, End, Call, Acquire, Mkdir, MkdirFails, Look, Probe, Steal, WritePid,
     Download, Publish, Unlock, Crash, Stage, StageFails, Fetch, Fetched, FetchFails, Verify,
     VerifyFails, VerifyRaises, Verified, Move, MoveFails, RemoveSome, Remove, Rename, RenameFails,
     Fails, Goes, TypeOK
<1> QED BY <1>1, <1>2

LEMMA PipeTypeStep == PipeTypeOK /\ [PipeNext]_pipeline => PipeTypeOK'
<1> SUFFICES ASSUME PipeTypeOK, [PipeNext]_pipeline PROVE PipeTypeOK'
  OBVIOUS
<1>1. TypeOK'
  BY TypeStep, PipeStepPulls DEF PipeTypeOK
<1>2. ASSUME NEW c \in Callers, Downloads(c) \/ Ends(c) PROVE PipeTypeOK'
  <2>1. container' \in Containers \cup {NoContainer}
    BY <1>2, ContainerFacts DEF Downloads, Ends, PipeTypeOK
  <2>2. \A d \in Callers : stage'[d] # "download" => at'[d] \in {"over", "gone"}
    BY <1>2, ReturnedStays DEF Downloads, Ends, pipe, PipeTypeOK
  <2> QED BY <1>1, <1>2, <2>1, <2>2 DEF Downloads, Ends, pipe, PipeTypeOK
<1>3. ASSUME NEW c \in Callers, Boots(c) \/ Raises(c) PROVE PipeTypeOK'
  <2>1. at' = at /\ at[c] = "over"
    BY <1>3 DEF Boots, BootStep, NoBoot, Up, UpFails, Ready, ReadyTimesOut, Smoke, Capture, Down,
                Raises, Steps, vars
  <2>2. /\ stage' \in [Callers -> {"download", "done"} \cup Booted]
        /\ \A d \in Callers : stage'[d] # "download" => at'[d] \in {"over", "gone"}
    BY <1>3, <2>1 DEF Boots, BootStep, NoBoot, Up, UpFails, Ready, ReadyTimesOut, Smoke, Capture,
                Down, Raises, Steps, Booted, PipeTypeOK
  <2>3. {boot_ok', smoke'} \subseteq [Callers -> BOOLEAN]
    BY <1>3, ZenonT(60) DEF Boots, BootStep, NoBoot, Up, UpFails, Ready, ReadyTimesOut, Smoke, Capture,
                Down, Raises, Answers, PipeTypeOK
  <2>4. outcome' \in [Callers -> {"none", "failed", "passed"}]
    BY <1>3 DEF Boots, BootStep, NoBoot, Up, UpFails, Ready, ReadyTimesOut, Smoke, Capture,
                Down, Raises, PipeTypeOK
  <2>5. container' \in Containers \cup {NoContainer}
    BY <1>3, ContainerFacts DEF Boots, BootStep, NoBoot, Up, UpFails, Ready, ReadyTimesOut, Smoke, Capture,
                Down, Raises, PipeTypeOK
  <2> QED BY <1>1, <2>2, <2>3, <2>4, <2>5 DEF PipeTypeOK
<1>4. CASE Load \/ Die
  <2>1. container' \in Containers
    <3>1. container \in Containers /\ {published, NoTree} \subseteq Trees \cup {NoTree}
      BY <1>4 DEF Load, Die, PipeTypeOK, TypeOK
    <3>2. PICK t \in Trees \cup {NoTree} : container' = [container EXCEPT !.serves = t]
      BY <1>4, <3>1 DEF Load, Die
    <3> QED BY <3>1, <3>2, ContainerFacts
  <2>2. UNCHANGED <<at, pipe>>
    BY <1>4 DEF Load, Die, vars
  <2> QED BY <1>1, <2>1, <2>2 DEF pipe, PipeTypeOK
<1>5. CASE Age /\ UNCHANGED <<pipe, container>>
  BY <1>1, <1>5 DEF Age, pipe, PipeTypeOK
<1>6. CASE UNCHANGED pipeline
  BY <1>1, <1>6 DEF pipeline, pipe, vars, PipeTypeOK
<1> QED BY <1>2, <1>3, <1>4, <1>5, <1>6 DEF PipeNext

\* The pipeline's variables keep their types, and what follows a download begins
\* when the download has returned (_run_derived_e_stage).
THEOREM PipelineTypes == PipeSpec => []PipeTypeOK
BY PipeTypeInit, PipeTypeStep, PTL DEF PipeSpec

-----------------------------------------------------------------------------
(* Whose the container is.                                                 *)

\* A pull that has not booted yet has no container and has found none ready; one
\* that waits for its server, or has found it ready, has the container.
OwnInv ==
  /\ PipeTypeOK
  /\ \A c \in Callers :
       /\ stage[c] = "download" => ~Owns(c) /\ ~boot_ok[c]
       /\ stage[c] = "ready" => Owns(c)
  /\ AliveForTheBody

LEMMA OwnInit == PipeInit => OwnInv
BY PipeTypeInit DEF PipeInit, OwnInv, Owns, AliveForTheBody

\* The download's steps, docker's time and the end of a caller leave the owner.
LEMMA OwnerStays ==
  ASSUME PipeTypeOK,
         \/ \E d \in Callers : Downloads(d) \/ Ends(d) \/ Raises(d)
         \/ Age /\ UNCHANGED <<pipe, container>>
         \/ Load \/ Die
         \/ UNCHANGED pipeline,
         NEW c \in Callers
  PROVE  Owns(c)' <=> Owns(c)
<1>1. ASSUME NEW d \in Callers, Downloads(d) PROVE Owns(c)' <=> Owns(c)
  <2>1. CASE container' = container
    BY <2>1 DEF Owns
  <2>2. CASE container # NoContainer /\ container' = [container EXCEPT !.mounted = FALSE]
    <3>1. container' # NoContainer /\ container'.of = container.of
      BY <2>2, ContainerFacts DEF PipeTypeOK
    <3> QED BY <2>2, <3>1 DEF Owns
  <2> QED BY <1>1, <2>1, <2>2 DEF Downloads
<1>2. CASE Load \/ Die
  <2>1. container # NoContainer /\ container' # NoContainer /\ container'.of = container.of
    <3>1. container \in Containers /\ {published, NoTree} \subseteq Trees \cup {NoTree}
      BY <1>2 DEF Load, Die, PipeTypeOK, TypeOK
    <3>2. PICK t \in Trees \cup {NoTree} : container' = [container EXCEPT !.serves = t]
      BY <1>2, <3>1 DEF Load, Die
    <3> QED BY <3>1, <3>2, ContainerFacts
  <2> QED BY <2>1 DEF Owns
<1> QED BY <1>1, <1>2 DEF Ends, Raises, Owns, pipeline

LEMMA OwnStep == OwnInv /\ [PipeNext]_pipeline => OwnInv'
<1> SUFFICES ASSUME OwnInv, [PipeNext]_pipeline PROVE OwnInv'
  OBVIOUS
<1>1. PipeTypeOK'
  BY PipeTypeStep DEF OwnInv
<1>2. ASSUME \/ \E d \in Callers : Downloads(d) \/ Ends(d)
             \/ Age /\ UNCHANGED <<pipe, container>>
             \/ Load \/ Die
             \/ UNCHANGED pipeline
      PROVE  OwnInv'
  <2>1. stage' = stage /\ boot_ok' = boot_ok
    BY <1>2 DEF Downloads, Ends, Load, Die, pipeline, pipe
  <2>2. \A c \in Callers : Owns(c)' <=> Owns(c)
    BY <1>2, OwnerStays DEF OwnInv
  <2> QED BY <1>1, <2>1, <2>2 DEF OwnInv, AliveForTheBody
<1>3. ASSUME NEW d \in Callers, Raises(d) PROVE OwnInv'
  <2>1. boot_ok' = boot_ok /\ stage' = [stage EXCEPT ![d] = "down"] /\ stage[d] # "download"
    BY <1>3 DEF Raises, Booted
  <2>2. \A c \in Callers : Owns(c)' <=> Owns(c)
    BY <1>3, OwnerStays DEF OwnInv
  <2> QED BY <1>1, <2>1, <2>2 DEF OwnInv, AliveForTheBody, PipeTypeOK
<1>4. ASSUME NEW d \in Callers, Boots(d) PROVE OwnInv'
  <2> SUFFICES /\ \A c \in Callers :
                    /\ stage'[c] = "download" => ~Owns(c)' /\ ~boot_ok'[c]
                    /\ stage'[c] = "ready" => Owns(c)'
               /\ AliveForTheBody'
    BY <1>1 DEF OwnInv
  <2> USE DEF Steps, Owns, AliveForTheBody, PipeTypeOK, OwnInv
  <2>1. CASE NoBoot(d)
    BY <2>1 DEF NoBoot
  <2>2. CASE Up(d)
    <3>1. container' # NoContainer /\ container'.of = d
      BY <2>2, ContainerFacts DEF Up
    <3> QED BY <2>2, <3>1 DEF Up
  <2>3. CASE UpFails(d)
    <3>1. \/ container' = container
          \/ container = NoContainer /\ container' # NoContainer /\ container'.of = d
      BY <2>3, ContainerFacts DEF UpFails
    <3> QED BY <2>3, <3>1 DEF UpFails
  <2>4. CASE Ready(d)
    BY <2>4 DEF Ready
  <2>5. CASE ReadyTimesOut(d)
    BY <2>5 DEF ReadyTimesOut
  <2>6. CASE Smoke(d)
    BY <2>6 DEF Smoke
  <2>7. CASE Capture(d)
    BY <2>7 DEF Capture
  <2>8. CASE Down(d)
    BY <2>8 DEF Down
  <2> QED BY <1>4, <2>1, <2>2, <2>3, <2>4, <2>5, <2>6, <2>7, <2>8 DEF Boots, BootStep
<1> QED BY <1>2, <1>3, <1>4 DEF PipeNext

\* The server that a pull found ready stays its own until its own teardown, for
\* any number of pulls of the model at once (booted_derived).
THEOREM OwnServer == PipeSpec => []AliveForTheBody
<1>1. OwnInv => AliveForTheBody
  BY DEF OwnInv
<1> QED BY <1>1, OwnInit, OwnStep, PTL DEF PipeSpec

\* A pull whose stage is over has no container, as long as docker compose down
\* takes it down (booted_derived).
THEOREM NothingOrphaned == ASSUME "down" \notin BootFaults PROVE PipeSpec => []NoOrphan
<1>1. PipeInit => NoOrphan
  BY DEF PipeInit, NoOrphan
<1>2. OwnInv /\ NoOrphan /\ [PipeNext]_pipeline => NoOrphan'
  <2> SUFFICES ASSUME OwnInv, NoOrphan, [PipeNext]_pipeline PROVE NoOrphan'
    OBVIOUS
  <2>t. PipeTypeOK
    BY DEF OwnInv
  <2>1. ASSUME \/ \E d \in Callers : Downloads(d) \/ Ends(d)
               \/ Age /\ UNCHANGED <<pipe, container>>
               \/ Load \/ Die
               \/ UNCHANGED pipeline
        PROVE  NoOrphan'
    <3>1. stage' = stage
      BY <2>1 DEF Downloads, Ends, Load, Die, pipeline, pipe
    <3>2. \A c \in Callers : Owns(c)' <=> Owns(c)
      BY <2>1, <2>t, OwnerStays
    <3> QED BY <3>1, <3>2 DEF NoOrphan
  <2>2. ASSUME NEW d \in Callers, Raises(d) PROVE NoOrphan'
    BY <2>2, <2>t DEF Raises, NoOrphan, Owns, PipeTypeOK
  <2>3. ASSUME NEW d \in Callers, Boots(d) PROVE NoOrphan'
    <3> USE DEF Steps, Owns, PipeTypeOK, NoOrphan
    <3>1. CASE NoBoot(d)
      BY <3>1, <2>t DEF NoBoot, OwnInv
    <3>2. CASE Up(d)
      <4>1. container'.of = d /\ stage'[d] = "ready"
        BY <3>2, <2>t, ContainerFacts DEF Up
      <4> QED BY <3>2, <2>t, <4>1 DEF Up
    <3>3. CASE UpFails(d)
      <4>1. container' = container \/ container'.of = d
        BY <3>3, ContainerFacts DEF UpFails
      <4>2. stage'[d] = "capture"
        BY <3>3, <2>t DEF UpFails
      <4> QED BY <3>3, <2>t, <4>1, <4>2 DEF UpFails
    <3>4. CASE Ready(d) \/ ReadyTimesOut(d) \/ Smoke(d) \/ Capture(d)
      BY <3>4, <2>t DEF Ready, ReadyTimesOut, Smoke, Capture
    <3>5. CASE Down(d)
      BY <3>5, <2>t DEF Down
    <3> QED BY <2>3, <3>1, <3>2, <3>3, <3>4, <3>5 DEF Boots, BootStep
  <2> QED BY <2>1, <2>2, <2>3 DEF PipeNext
<1> QED BY <1>1, <1>2, OwnInit, OwnStep, PTL DEF PipeSpec

-----------------------------------------------------------------------------
(* What its server has loaded.                                             *)

\* Every file, those with a hash with the right bytes.
LoadedWhole ==
  container # NoContainer /\ container.serves # NoTree =>
    /\ DOMAIN container.serves = Files
    /\ \A f \in Safetensors : container.serves[f] = "good"

LEMMA LoadedStep ==
  ASSUME PipeTypeOK, NothingUnverified, LoadedWhole, [PipeNext]_pipeline
  PROVE  LoadedWhole'
<1>1. CASE Load
  <2>1. container \in Containers /\ published \in Trees \cup {NoTree} /\ DOMAIN published = Files
    BY <1>1 DEF Load, PipeTypeOK, TypeOK
  <2>2. container'.serves = published
    BY <1>1, <2>1, ContainerFacts DEF Load
  <2>3. \A f \in Safetensors : published[f] = "good"
    BY <2>1, ConstantsAssumption DEF NothingUnverified
  <2> QED BY <2>1, <2>2, <2>3 DEF LoadedWhole
<1>2. CASE Die
  <2>1. container'.serves = NoTree
    BY <1>2, ContainerFacts DEF Die, PipeTypeOK
  <2> QED BY <2>1 DEF LoadedWhole
<1>3. ASSUME NEW c \in Callers, Downloads(c) PROVE LoadedWhole'
  <2>1. \/ container' = container
        \/ container # NoContainer /\ container'.serves = container.serves
    BY <1>3, ContainerFacts DEF Downloads, PipeTypeOK
  <2> QED BY <2>1 DEF LoadedWhole
<1>4. ASSUME NEW c \in Callers, Boots(c) PROVE LoadedWhole'
  <2>1. container' = container \/ container' = NoContainer \/ container'.serves = NoTree
    BY <1>4, ContainerFacts DEF Boots, BootStep, NoBoot, Up, UpFails, Ready, ReadyTimesOut, Smoke,
       Capture, Down
  <2> QED BY <2>1 DEF LoadedWhole
<1>5. ASSUME UNCHANGED container PROVE LoadedWhole'
  BY <1>5 DEF LoadedWhole
<1> QED BY <1>1, <1>2, <1>3, <1>4, <1>5 DEF PipeNext, Raises, Ends, pipeline

\* A capture says passed only of a pull that went through, of its own server, and
\* of complete and checked weights (emit_capture), while the lock does not change
\* hands under a caller's eyes.
THEOREM OnlyVerifiedPass == ASSUME Orderly PROVE PipeSpec => PassedIsVerified
<1> DEFINE Inv == FilesInv /\ OwnInv /\ LoadedWhole
<1>1. PipeInit => Inv
  BY FilesInit, OwnInit DEF PipeInit, LoadedWhole
<1>2. Inv /\ [PipeNext]_pipeline => Inv'
  BY FilesStep, OwnStep, LoadedStep, PipeStepPulls DEF FilesInv, OwnInv
<1>3. ASSUME Inv, [PipeNext]_pipeline, NEW c \in Callers,
             outcome[c] # "passed", outcome'[c] = "passed"
      PROVE  result[c] = "ok" /\ Owns(c)
  <2>1. PICK d \in Callers : Capture(d)
    BY <1>3 DEF PipeNext, Downloads, Boots, BootStep, NoBoot, Up, UpFails, Ready, ReadyTimesOut,
       Smoke, Down, Raises, Ends, Load, Die, pipe, pipeline
  <2>2. stage[d] = "capture" /\ outcome' = [outcome EXCEPT ![d] = IF Failed(d) THEN "failed" ELSE "passed"]
    BY <2>1 DEF Capture, Steps
  <2>3. c = d /\ ~Failed(c)
    BY <1>3, <2>2 DEF OwnInv, PipeTypeOK
  <2> QED BY <1>3, <2>2, <2>3 DEF Failed, OwnInv, AliveForTheBody
<1>4. Inv /\ [PipeNext]_pipeline =>
        [ \A c \in Callers :
            outcome[c] # "passed" /\ outcome'[c] = "passed" =>
              /\ result[c] = "ok"
              /\ Owns(c)
              /\ container.serves # NoTree =>
                   /\ DOMAIN container.serves = Files
                   /\ \A f \in Safetensors : container.serves[f] = "good" ]_pipeline
  BY <1>3 DEF LoadedWhole, Owns
<1> QED BY <1>1, <1>2, <1>4, PTL DEF PipeSpec, PassedIsVerified
=============================================================================
