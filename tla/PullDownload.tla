---------------------------- MODULE PullDownload ----------------------------
(***************************************************************************)
(* Pulling the weights of one model (scripts/lib/profiles/downloader.py):  *)
(* the directory used as a lock between the processes that pull the same   *)
(* model, and the fetch, the SHA check and the publication of the files    *)
(* that it protects.                                                       *)
(*                                                                         *)
(* The lock, .incomplete and what was published before lie in one          *)
(* directory, <pulls>/<model>; .staged is its sibling.  A tree is a        *)
(* function from the files it holds to their contents.  A removal of a     *)
(* tree is one step and succeeds, except that of the whole directory,      *)
(* which is long and takes the lock with it.                               *)
(***************************************************************************)
EXTENDS Functions

CONSTANTS
  Callers,      \* the processes that call download_model, once each
  Files,        \* the files of deriver.download_set
  Safetensors,  \* those that are checked against their hash
  NoPid,        \* a lock without a pid file
  NoLock,       \* the directory .download.lock does not exist
  NoTree,       \* nor does .incomplete, or .staged
  Faults,       \* what may go wrong
  Overlapping   \* callers may be in the lock's short windows together

ASSUME ConstantsAssumption ==
  /\ Safetensors \subseteq Files
  /\ NoPid \notin Callers
  /\ Faults \subseteq {"crash", "disk", "pid", "hub", "bytes", "read"}
  /\ Overlapping \in BOOLEAN

VARIABLES
  at,         \* where each caller is
  tries,      \* its attempts at the lock that failed
  todo,       \* the files it has still to fetch or to check
  written,    \* what its fetch reported
  result,     \* what its call returned or is going to return
  lock,       \* .download.lock: the pid in it, and whether it is young
  staging,    \* .incomplete
  staged,     \* <model>.staged
  published   \* the model's files themselves

local == <<tries, todo, written>>
trees == <<staging, staged, published>>
vars == <<at, local, result, lock, trees>>

Contents == {"good", "bad"}
Trees == UNION {[S -> Contents] : S \in SUBSET Files}
Nothing == [f \in {} |-> "good"]

ASSUME TreesAssumption == NoTree \notin Trees

\* From the mkdir of the lock to its removal.
Holding == {"pid", "stage", "fetch", "verify", "move", "remove", "rename", "unlock"}

\* The moments at which the lock is looked at or changes hands.
Window == {"mkdir", "look", "probe", "steal", "pid", "remove", "rename", "unlock"}

Results ==
  {"none", "ok", "in-progress", "disk", "gated-401", "no-etag", "sha-mismatch", "raised"}

Locks == [pid : Callers \cup {NoPid}, fresh : BOOLEAN]

ASSUME LocksAssumption == NoLock \notin Locks

TypeOK ==
  /\ at \in [Callers -> {"idle", "over", "gone"} \cup Window \cup Holding]
  /\ tries \in [Callers -> 0..2]
  /\ todo \in [Callers -> SUBSET Files]
  /\ written \in [Callers -> SUBSET Files]
  /\ result \in [Callers -> Results]
  /\ lock \in Locks \cup {NoLock}
  /\ {staging, staged} \subseteq Trees \cup {NoTree}
  /\ published \in Trees

\* _pid_alive: the process lives on for a while after its call.
Alive(c) == at[c] \notin {"idle", "gone"}

\* How separate the windows are without Overlapping.
Clear(c) == Overlapping \/ \A d \in Callers \ {c} : at[d] \notin Window

Init ==
  /\ at = [c \in Callers |-> "idle"]
  /\ tries = [c \in Callers |-> 0]
  /\ todo = [c \in Callers |-> {}]
  /\ written = [c \in Callers |-> {}]
  /\ result = [c \in Callers |-> "none"]
  /\ lock = NoLock
  /\ staging = NoTree
  /\ staged = NoTree
  /\ published \in {Nothing, [f \in Files |-> "good"]}

Goes(c, from, to) == at[c] = from /\ at' = [at EXCEPT ![c] = to]
Gives(c, what) == result' = [result EXCEPT ![c] = what]

----------------------------------------------------------------------------
(* The lock.                                                               *)

Call(c) ==
  /\ Goes(c, "idle", "mkdir")
  /\ Clear(c)
  /\ UNCHANGED <<local, result, lock, trees>>

\* mkdir with exist_ok=True.
Mkdir_ExistOk(c) ==
  /\ Goes(c, "mkdir", "pid")
  /\ lock' = [pid |-> NoPid, fresh |-> TRUE]
  /\ UNCHANGED <<local, result, trees>>

Mkdir(c) ==
  /\ \/ lock = NoLock /\ Goes(c, "mkdir", "pid")
        /\ lock' = [pid |-> NoPid, fresh |-> TRUE]
     \/ lock # NoLock /\ Goes(c, "mkdir", "look") /\ UNCHANGED lock
  /\ UNCHANGED <<local, result, trees>>

MkdirFails(c) ==
  /\ "disk" \in Faults
  /\ Goes(c, "mkdir", "over")
  /\ Gives(c, "disk")
  /\ UNCHANGED <<local, lock, trees>>

\* read_active_download: is there a pid in the lock, and does its process live?
Active == lock # NoLock /\ lock.pid # NoPid /\ Alive(lock.pid)

Look(c) ==
  /\ \/ Active /\ Goes(c, "look", "over") /\ Gives(c, "in-progress")
     \/ ~Active /\ Goes(c, "look", "probe") /\ UNCHANGED result
  /\ UNCHANGED <<local, lock, trees>>

\* The second look: a lock without a pid file is left alone while it is young.
MidAcquire == lock # NoLock /\ lock.pid = NoPid /\ lock.fresh

Probe(c) ==
  /\ \/ MidAcquire /\ Goes(c, "probe", "over") /\ Gives(c, "in-progress")
     \/ ~MidAcquire /\ Goes(c, "probe", "steal") /\ UNCHANGED result
  /\ UNCHANGED <<local, lock, trees>>

\* Whatever lock is there by now is removed; there are two attempts.
Steal(c) ==
  /\ lock' = NoLock
  /\ tries' = [tries EXCEPT ![c] = 1]
  /\ \/ tries[c] = 0 /\ Goes(c, "steal", "mkdir") /\ UNCHANGED result
     \/ tries[c] # 0 /\ Goes(c, "steal", "over") /\ Gives(c, "disk")
  /\ UNCHANGED <<todo, written, trees>>

\* An OSError is passed over: the lock is then one without a pid.
WritePid(c) ==
  /\ Goes(c, "pid", "stage")
  /\ \/ lock # NoLock /\ lock' = [lock EXCEPT !.pid = c]
     \/ (lock = NoLock \/ "pid" \in Faults) /\ UNCHANGED lock
  /\ UNCHANGED <<local, result, trees>>

\* A lock without a pid is no longer young after _LOCK_ACQUIRE_GRACE_S, which is
\* far longer than its maker takes to write the pid.
Age ==
  /\ MidAcquire
  /\ \A c \in Callers : at[c] # "pid"
  /\ lock' = [lock EXCEPT !.fresh = FALSE]
  /\ UNCHANGED <<at, local, result, trees>>

\* finally: whosever lock it is.
Unlock(c) ==
  /\ Goes(c, "unlock", "over")
  /\ lock' = NoLock
  /\ UNCHANGED <<local, result, trees>>

----------------------------------------------------------------------------
(* _download_model_impl.                                                   *)

\* Every failure that is caught removes .incomplete.
Fails(c, from, what) ==
  /\ Goes(c, from, "unlock")
  /\ Gives(c, what)
  /\ staging' = NoTree
  /\ UNCHANGED <<local, lock, published>>

Stage(c) ==
  /\ Goes(c, "stage", "fetch")
  /\ staging' = Nothing
  /\ todo' = [todo EXCEPT ![c] = Files]
  /\ UNCHANGED <<tries, written, result, lock, staged, published>>

StageFails(c) == "disk" \in Faults /\ Fails(c, "stage", "disk") /\ UNCHANGED staged

\* The hf command writes a file into .incomplete, which it makes if need be.
Fetch(c) ==
  /\ at[c] = "fetch"
  /\ \E f \in todo[c], b \in IF "bytes" \in Faults THEN Contents ELSE {"good"} :
       LET tree == IF staging = NoTree THEN Nothing ELSE staging
       IN  /\ todo' = [todo EXCEPT ![c] = @ \ {f}]
           /\ staging' = [x \in DOMAIN tree \cup {f} |-> IF x = f THEN b ELSE tree[x]]
  /\ UNCHANGED <<at, tries, written, result, lock, staged, published>>

\* Nothing is left to check.
Fetched_Unchecked(c) ==
  /\ Goes(c, "fetch", "verify")
  /\ todo[c] = {}
  /\ written' = [written EXCEPT ![c] = Files]
  /\ UNCHANGED <<tries, todo, result, lock, trees>>

\* snapshot reports what it finds in .incomplete when the command has ended.
Fetched(c) ==
  /\ Goes(c, "fetch", "verify")
  /\ todo[c] = {}
  /\ LET found == IF staging = NoTree THEN {} ELSE DOMAIN staging
     IN  /\ written' = [written EXCEPT ![c] = found]
         /\ todo' = [todo EXCEPT ![c] = found \cap Safetensors]
  /\ UNCHANGED <<tries, result, lock, trees>>

\* The partial tree is kept, to be resumed.
FetchFails_LeavesStaging(c) ==
  /\ Goes(c, "fetch", "unlock")
  /\ Gives(c, "gated-401")
  /\ UNCHANGED <<local, lock, trees>>

\* The lock is not removed in a finally.
FetchFails_KeepsLock(c) ==
  /\ Goes(c, "fetch", "over")
  /\ Gives(c, "gated-401")
  /\ staging' = NoTree
  /\ UNCHANGED <<local, lock, staged, published>>

FetchFails(c) ==
  /\ \/ "hub" \in Faults /\ Fails(c, "fetch", "gated-401")
     \/ "disk" \in Faults /\ Fails(c, "fetch", "disk")
  /\ UNCHANGED staged

Present(f) == staging # NoTree /\ f \in DOMAIN staging

Verify(c) ==
  /\ at[c] = "verify"
  /\ \E f \in todo[c] : /\ Present(f)
                        /\ staging[f] = "good"
                        /\ todo' = [todo EXCEPT ![c] = @ \ {f}]
  /\ UNCHANGED <<at, tries, written, result, lock, trees>>

VerifyFails(c) ==
  /\ \E f \in todo[c] :
       \/ Present(f) /\ staging[f] = "bad" /\ Fails(c, "verify", "sha-mismatch")
       \/ "hub" \in Faults /\ Fails(c, "verify", "gated-401")
       \/ "hub" \in Faults /\ Fails(c, "verify", "no-etag")
  /\ UNCHANGED staged

\* An OSError of _sha256_file is nobody's: only the lock is taken away.
VerifyRaises(c) ==
  /\ \E f \in todo[c] : ~Present(f) \/ "read" \in Faults
  /\ Goes(c, "verify", "unlock")
  /\ Gives(c, "raised")
  /\ UNCHANGED <<local, lock, trees>>

Verified(c) ==
  /\ Goes(c, "verify", "move")
  /\ todo[c] = {}
  /\ UNCHANGED <<local, result, lock, trees>>

\* The files that carry no hash are left behind.
Move_Weights(c) ==
  /\ Goes(c, "move", "remove")
  /\ Clear(c)
  /\ staged' = [f \in written[c] \cap Safetensors |-> staging[f]]
  /\ staging' = NoTree
  /\ UNCHANGED <<local, result, lock, published>>

\* The files go to .staged, and .incomplete is removed.
Move(c) ==
  /\ Goes(c, "move", "remove")
  /\ Clear(c)
  /\ \A f \in written[c] : Present(f)
  /\ staged' = [f \in written[c] |-> staging[f]]
  /\ staging' = NoTree
  /\ UNCHANGED <<local, result, lock, published>>

MoveFails(c) ==
  /\ "disk" \in Faults \/ \E f \in written[c] : ~Present(f)
  /\ Fails(c, "move", "disk")
  /\ staged' = NoTree

\* The model's directory goes, entry by entry in any order, and the lock with it.
RemoveSome(c) ==
  /\ at[c] = "remove"
  /\ \E S \in SUBSET DOMAIN published : published' = Restrict(published, S)
  /\ lock' \in {lock, NoLock}
  /\ staging' \in {staging, NoTree}
  /\ UNCHANGED <<at, local, result, staged>>

\* The lock survives the removal of its directory.
Remove_KeepsLock(c) ==
  /\ Goes(c, "remove", "rename")
  /\ published' = Nothing
  /\ staging' = NoTree
  /\ UNCHANGED <<local, result, lock, staged>>

Remove(c) ==
  /\ Goes(c, "remove", "rename")
  /\ published' = Nothing
  /\ lock' = NoLock
  /\ staging' = NoTree
  /\ UNCHANGED <<local, result, staged>>

\* The directory is no longer there, or there is nothing in it.
Gone == lock = NoLock /\ staging = NoTree /\ DOMAIN published = {}

Rename(c) ==
  /\ Goes(c, "rename", "unlock")
  /\ staged # NoTree /\ Gone
  /\ published' = staged
  /\ staged' = NoTree
  /\ Gives(c, "ok")
  /\ UNCHANGED <<local, lock, staging>>

RenameFails(c) ==
  /\ "disk" \in Faults \/ staged = NoTree \/ ~Gone
  /\ Fails(c, "rename", "disk")
  /\ staged' = NoTree

----------------------------------------------------------------------------
\* The caller goes on to boot the model, and ends.
End(c) ==
  /\ Goes(c, "over", "gone")
  /\ UNCHANGED <<local, result, lock, trees>>

\* SIGKILL: no finally.
Crash(c) ==
  /\ "crash" \in Faults
  /\ Alive(c)
  /\ at' = [at EXCEPT ![c] = "gone"]
  /\ UNCHANGED <<local, result, lock, trees>>

Acquire(c) == Mkdir(c) \/ MkdirFails(c) \/ Look(c) \/ Probe(c) \/ Steal(c)

Publish(c) ==
  Move(c) \/ MoveFails(c) \/ RemoveSome(c) \/ Remove(c) \/ Rename(c) \/ RenameFails(c)

Download(c) ==
  \/ Stage(c) \/ StageFails(c) \/ Fetch(c) \/ Fetched(c) \/ FetchFails(c)
  \/ Verify(c) \/ VerifyFails(c) \/ VerifyRaises(c) \/ Verified(c)

Next ==
  \/ \E c \in Callers :
       \/ Call(c) \/ Acquire(c) \/ WritePid(c)
       \/ Download(c) \/ Publish(c)
       \/ Unlock(c) \/ End(c) \/ Crash(c)
  \/ Age

Spec == Init /\ [][Next]_vars

\* Nothing is assumed of the hf command, which has no time-out.
FairSpec == Spec /\ \A c \in Callers : WF_vars(Acquire(c))

----------------------------------------------------------------------------
(* Safety.                                                                 *)

\* No file that carries a hash is ever published without the contents it stands for.
NothingUnverified ==
  \A f \in DOMAIN published \cap Safetensors : published[f] = "good"

\* A pull that has checked every file publishes them all, unless it is killed, or
\* the disk fails it.
VerifiedIsPublished ==
  [][ \A c \in Callers :
        at[c] = "rename" /\ at'[c] \notin {"rename", "gone"}
          => result'[c] = "ok" /\ DOMAIN published' = Files ]_vars

\* "each deletes the .incomplete tree": a pull that held the lock leaves neither it
\* nor .incomplete behind, whatever failed.  Not so the files if it ends in an
\* exception of its own, over a file that cannot be read back.
NoResidue ==
  [][ \A c \in Callers :
        at[c] = "unlock" /\ at'[c] = "over"
          => lock' = NoLock /\ (result[c] # "raised" => staging' = NoTree) ]_vars

\* "a leaked lock self-heals": a call is turned away only for the sake of a pull
\* under way, or of a lock not yet old enough to be given up.
StaleIsReclaimed ==
  [][ \A c \in Callers :
        result[c] = "none" /\ result'[c] = "in-progress"
          => \/ lock.pid # NoPid /\ at[lock.pid] \in Holding
             \/ lock.pid = NoPid /\ lock.fresh ]_vars

\* "ONLY on full success": the model's files are all there or not there, except
\* while a pull replaces them and after one was killed.
WholeUnlessKilled ==
  (\A c \in Callers : at[c] # "remove" /\ ~(at[c] = "gone" /\ result[c] = "none"))
    => DOMAIN published \in {{}, Files}

\* "a 2nd concurrent download_model for the SAME slug is REFUSED": one pull at a time.
OneInside == \A c, d \in Callers : at[c] \in Holding /\ at[d] \in Holding => c = d

(* Liveness.                                                               *)

\* No call waits for another one's download: it gets the lock or returns.
NobodyWaits ==
  \A c \in Callers : at[c] = "mkdir" ~> at[c] \in Holding \cup {"over", "gone"}

----------------------------------------------------------------------------
(* The pulls of one model as a single-flight lease.                        *)

Lease == INSTANCE SingleFlight WITH Clients <- Callers,
                                    flying <- {c \in Callers : at[c] \in Holding}
LeaseSpec == Lease!Spec
=============================================================================
