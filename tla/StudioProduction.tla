-------------------------- MODULE StudioProduction --------------------------
(***************************************************************************)
(* The studio's production agent (services/studio/production): the HTTP    *)
(* service that turns a POST /produce into a job (server.py), the command  *)
(* line that renders without it (run.py), the file lock between them       *)
(* (lock.py), the executor's sequence of renders (executor.py, lanes.py,   *)
(* ensure.py) and the ComfyUI queue they are sent to (comfy.py).           *)
(*                                                                         *)
(* Handlers and jobs are threads of one server, a run of the command line  *)
(* is a process of its own, and ComfyUI keeps what was sent to it whatever *)
(* becomes of the sender: a request whose sender has given up or was       *)
(* killed may still be served, at any time.  A plan is the sequence of its *)
(* tasks; what they look like does not matter, except that an i2v task     *)
(* begins with the upload of its start image, always under one name.       *)
(***************************************************************************)
EXTENDS Naturals, Sequences, FiniteSets

CONSTANTS
  Requests,     \* the calls of POST /produce; an accepted one names its job
  Clis,         \* the runs of the command line
  Dir,          \* the productions directory, with the lock file, of each of them
  Scripts,      \* the plans the director may come up with
  NoOne,        \* nobody holds a lock file; nothing has been uploaded
  TimesOut,     \* an answer of ComfyUI may be lost, or not come in time
  LockIoFails,  \* creating or writing the lock file may fail (a full disk)
  Crashes       \* the server and the command line may be killed

Productions == Requests \cup Clis
Dirs == {Dir[p] : p \in Productions}

\* generate_image, render_video from an image or from nothing, make_music, tts.
Tasks == {"image", "i2v", "t2v", "music", "tts"}

ASSUME ConstantsAssumption ==
  /\ Requests \cap Clis = {}
  /\ NoOne \notin Productions
  /\ DOMAIN Dir = Productions
  /\ \A r, s \in Requests : Dir[r] = Dir[s]
  /\ Scripts \subseteq Seq(Tasks)
  /\ {TimesOut, LockIoFails, Crashes} \subseteq BOOLEAN

VARIABLES
  req,       \* where each POST handler is, or what it answered
  status,    \* the status of each job in _JOBS
  stage,     \* where the job thread or the command line is
  plan,      \* its plan's tasks
  pos,       \* the task it is at
  flock,     \* who holds each directory's .run.lock
  image,     \* the task whose start image the file studio_prod_input is
  queue,     \* ComfyUI's queue of prompts
  rendered,  \* ComfyUI's history: each prompt with the image it was rendered from
  late,      \* the requests to ComfyUI that nobody waits for any more
  strays     \* history: the start images that were uploaded by such a request

jobs == <<req, status>>
comfy == <<image, queue, rendered, late, strays>>
vars == <<jobs, stage, plan, pos, flock, comfy>>

Rendering == {"planning", "working", "uploaded", "waiting", "closing"}
Prompt == [owner : Productions, task : Nat]

TypeOK ==
  /\ req \in [Requests -> {"new", "free", "busy", "accepted", "refused", "dropped"}]
  /\ status \in [Requests -> {"none", "planning", "rendering", "done", "error"}]
  /\ stage \in [Productions -> {"idle", "starting", "over"} \cup Rendering]
  /\ plan \in [Productions -> Seq(Tasks)]
  /\ pos \in [Productions -> Nat]
  /\ flock \in [Dirs -> Productions \cup {NoOne}]
  /\ image \in Prompt \cup {NoOne}
  /\ queue \in Seq(Prompt)
  /\ rendered \subseteq [prompt : Prompt, image : Prompt \cup {NoOne}, ok : BOOLEAN]
  /\ late \subseteq [to : {"input", "queue"}, prompt : Prompt]
  /\ strays \subseteq Prompt

\* Between the lock and its release.
InProduction(p) == stage[p] \in Rendering

Active == {r \in Requests : status[r] \in {"planning", "rendering"}}

Task(p) == plan[p][pos[p]]
Current(p) == [owner |-> p, task |-> pos[p]]

Init ==
  /\ req = [r \in Requests |-> "new"]
  /\ status = [r \in Requests |-> "none"]
  /\ stage = [p \in Productions |-> "idle"]
  /\ plan = [p \in Productions |-> <<>>]
  /\ pos = [p \in Productions |-> 1]
  /\ flock = [d \in Dirs |-> NoOne]
  /\ image = NoOne
  /\ queue = <<>>
  /\ rendered = {}
  /\ late = {}
  /\ strays = {}

Goes(p, to) == stage' = [stage EXCEPT ![p] = to]

\* Only the server's jobs have a status; the command line prints.
Reports(p, what) ==
  status' = IF p \in Requests THEN [status EXCEPT ![p] = what] ELSE status

----------------------------------------------------------------------------
(* do_POST.                                                                *)

CheckActive(r) ==
  /\ req[r] = "new"
  /\ req' = [req EXCEPT ![r] = IF Active = {} THEN "free" ELSE "busy"]
  /\ UNCHANGED <<status, stage, plan, pos, flock, comfy>>

\* The 409 names the first active job, which it looks up again: if there is
\* none any more the handler dies without an answer.
Refuse(r) ==
  /\ req[r] = "busy"
  /\ req' = [req EXCEPT ![r] = IF Active = {} THEN "dropped" ELSE "refused"]
  /\ UNCHANGED <<status, stage, plan, pos, flock, comfy>>

\* The job is registered and its thread started.
Accept(r) ==
  /\ req[r] = "free"
  /\ req' = [req EXCEPT ![r] = "accepted"]
  /\ status' = [status EXCEPT ![r] = "planning"]
  /\ Goes(r, "starting")
  /\ UNCHANGED <<plan, pos, flock, comfy>>

StartCli(c) ==
  /\ stage[c] = "idle"
  /\ Goes(c, "starting")
  /\ UNCHANGED <<jobs, plan, pos, flock, comfy>>

----------------------------------------------------------------------------
(* _run_job and run.main: the lock.                                        *)

Acquire_Unlocked(p) ==
  /\ stage[p] = "starting"
  /\ flock' = [flock EXCEPT ![Dir[p]] = p]
  /\ Goes(p, "planning")
  /\ Reports(p, "planning")
  /\ UNCHANGED <<req, plan, pos, comfy>>

Acquire(p) ==
  /\ stage[p] = "starting"
  /\ flock[Dir[p]] = NoOne
  /\ flock' = [flock EXCEPT ![Dir[p]] = p]
  /\ Goes(p, "planning")
  /\ Reports(p, "planning")
  /\ UNCHANGED <<req, plan, pos, comfy>>

\* ProductionLockHeld.
FindLocked(p) ==
  /\ stage[p] = "starting"
  /\ flock[Dir[p]] # NoOne
  /\ Goes(p, "over")
  /\ Reports(p, "error")
  /\ UNCHANGED <<req, plan, pos, flock, comfy>>

\* Any other OSError is caught nowhere: the job keeps its status.  If it comes
\* after the flock (ftruncate, write) the server keeps the descriptor, and with
\* it the lock; the command line exits.
LockBreaks(p) ==
  /\ LockIoFails
  /\ stage[p] = "starting"
  /\ Goes(p, "over")
  /\ \/ UNCHANGED flock
     \/ /\ p \in Requests /\ flock[Dir[p]] = NoOne
        /\ flock' = [flock EXCEPT ![Dir[p]] = p]
  /\ UNCHANGED <<jobs, plan, pos, comfy>>

Release_OnlyIfDone(p) ==
  /\ stage[p] = "closing"
  /\ Goes(p, "over")
  /\ flock' = IF pos[p] > Len(plan[p]) THEN [flock EXCEPT ![Dir[p]] = NoOne] ELSE flock
  /\ UNCHANGED <<jobs, plan, pos, comfy>>

Release(p) ==
  /\ stage[p] = "closing"
  /\ Goes(p, "over")
  /\ flock' = [flock EXCEPT ![Dir[p]] = NoOne]
  /\ UNCHANGED <<jobs, plan, pos, comfy>>

----------------------------------------------------------------------------
(* run_production.                                                         *)

\* The director's plan; the executor begins with its first task.
PlanBrief(p) ==
  /\ stage[p] = "planning"
  /\ \E s \in Scripts : plan' = [plan EXCEPT ![p] = s]
  /\ Goes(p, "working")
  /\ Reports(p, "rendering")
  /\ UNCHANGED <<req, pos, flock, comfy>>

HasTask(p, kinds) == pos[p] <= Len(plan[p]) /\ Task(p) \in kinds

Uploads(p) == stage[p] = "working" /\ HasTask(p, {"i2v"})

\* _upload_image, answered within the minute.
Upload(p) ==
  /\ Uploads(p)
  /\ image' = Current(p)
  /\ Goes(p, "uploaded")
  /\ UNCHANGED <<jobs, plan, pos, flock, queue, rendered, late, strays>>

Submits(p) ==
  \/ stage[p] = "working" /\ HasTask(p, {"image", "t2v", "music"})
  \/ stage[p] = "uploaded"

Submit_Async(p) ==
  /\ Submits(p)
  /\ queue' = Append(queue, Current(p))
  /\ pos' = [pos EXCEPT ![p] = @ + 1]
  /\ Goes(p, "working")
  /\ UNCHANGED <<jobs, plan, flock, image, rendered, late, strays>>

Submit(p) ==
  /\ Submits(p)
  /\ queue' = Append(queue, Current(p))
  /\ Goes(p, "waiting")
  /\ UNCHANGED <<jobs, plan, pos, flock, image, rendered, late, strays>>

\* The request to ComfyUI that a production is making: at most one.
Requesting(p) ==
  {q \in [to : {"input", "queue"}, prompt : {Current(p)}] :
     IF q.to = "input" THEN Uploads(p) ELSE Submits(p)}

\* The narration does not go through ComfyUI.
Speak(p) ==
  /\ stage[p] = "working" /\ HasTask(p, {"tts"})
  /\ pos' = [pos EXCEPT ![p] = @ + 1]
  /\ UNCHANGED <<jobs, stage, plan, flock, comfy>>

Collect(p) ==
  /\ stage[p] = "waiting"
  /\ \E e \in rendered : e.prompt = Current(p) /\ e.ok
  /\ pos' = [pos EXCEPT ![p] = @ + 1]
  /\ Goes(p, "working")
  /\ UNCHANGED <<jobs, plan, flock, comfy>>

\* The last artifact is there: assemble, write the manifest, report.
Assemble(p) ==
  /\ stage[p] = "working" /\ pos[p] > Len(plan[p])
  /\ Reports(p, "done")
  /\ Goes(p, "closing")
  /\ UNCHANGED <<req, plan, pos, flock, comfy>>

Breaks_ReleasesFirst(p) ==
  /\ stage[p] \in {"planning", "working", "uploaded"}
  /\ Reports(p, "error")
  /\ Goes(p, "closing")
  /\ flock' = [flock EXCEPT ![Dir[p]] = NoOne]
  /\ UNCHANGED <<req, plan, pos, comfy>>

\* Any exception ends the production: no plan, a service that is down, a prompt
\* ComfyUI rejects or fails, a file that cannot be read.
Breaks(p) ==
  /\ \/ stage[p] \in {"planning", "working", "uploaded"}
     \/ stage[p] = "waiting" /\ \E e \in rendered : e.prompt = Current(p) /\ ~e.ok
  /\ Reports(p, "error")
  /\ Goes(p, "closing")
  /\ UNCHANGED <<req, plan, pos, flock, comfy>>

GiveUp_RequestsOnly(p) ==
  /\ TimesOut
  /\ Requesting(p) # {}
  /\ late' = late \cup Requesting(p)
  /\ Reports(p, "error")
  /\ Goes(p, "closing")
  /\ UNCHANGED <<req, plan, pos, flock, image, queue, rendered, strays>>

\* The minute of an upload passes, SUBMIT_TIMEOUT or RENDER_TIMEOUT.  ComfyUI may
\* serve the request all the same, and it keeps a prompt that it has queued.
GiveUp(p) ==
  /\ TimesOut
  /\ stage[p] = "waiting" \/ Requesting(p) # {}
  /\ late' = late \cup Requesting(p)
  /\ Reports(p, "error")
  /\ Goes(p, "closing")
  /\ UNCHANGED <<req, plan, pos, flock, image, queue, rendered, strays>>

----------------------------------------------------------------------------
(* ComfyUI: it renders the oldest prompt, from the input file as it is now. *)

Render ==
  /\ queue # <<>>
  /\ \E good \in BOOLEAN :
       rendered' = rendered \cup {[prompt |-> Head(queue), image |-> image, ok |-> good]}
  /\ queue' = Tail(queue)
  /\ UNCHANGED <<jobs, stage, plan, pos, flock, image, late, strays>>

\* It serves a request whose sender is gone.
Arrives ==
  /\ \E q \in late :
       /\ late' = late \ {q}
       /\ \/ /\ q.to = "input"
             /\ image' = q.prompt
             /\ strays' = strays \cup {q.prompt}
             /\ UNCHANGED queue
          \/ /\ q.to = "queue"
             /\ queue' = Append(queue, q.prompt)
             /\ UNCHANGED <<image, strays>>
  /\ UNCHANGED <<jobs, stage, plan, pos, flock, rendered>>

----------------------------------------------------------------------------
(* Crashes: the threads, _JOBS and the locks go; ComfyUI stays, with what  *)
(* has reached it of their requests.                                       *)

ServerCrash ==
  /\ Crashes
  /\ req' = [r \in Requests |-> IF req[r] \in {"free", "busy"} THEN "dropped" ELSE req[r]]
  /\ status' = [r \in Requests |-> "none"]
  /\ stage' = [p \in Productions |->
                 IF p \in Requests /\ stage[p] # "idle" THEN "over" ELSE stage[p]]
  /\ flock' = [d \in Dirs |-> IF flock[d] \in Requests THEN NoOne ELSE flock[d]]
  /\ \E sent \in SUBSET UNION {Requesting(r) : r \in Requests} : late' = late \cup sent
  /\ UNCHANGED <<plan, pos, image, queue, rendered, strays>>

CliCrash(c) ==
  /\ Crashes
  /\ stage[c] # "idle"
  /\ Goes(c, "over")
  /\ flock' = [d \in Dirs |-> IF flock[d] = c THEN NoOne ELSE flock[d]]
  /\ \E sent \in SUBSET Requesting(c) : late' = late \cup sent
  /\ UNCHANGED <<jobs, plan, pos, image, queue, rendered, strays>>

----------------------------------------------------------------------------
Handler(r) == CheckActive(r) \/ Refuse(r) \/ Accept(r)

Work(p) ==
  \/ Acquire(p) \/ FindLocked(p) \/ LockBreaks(p) \/ PlanBrief(p)
  \/ Upload(p) \/ Submit(p) \/ Speak(p) \/ Collect(p) \/ Assemble(p)
  \/ Breaks(p) \/ GiveUp(p) \/ Release(p)

Next ==
  \/ \E r \in Requests : Handler(r)
  \/ \E c \in Clis : StartCli(c) \/ CliCrash(c)
  \/ \E p \in Productions : Work(p)
  \/ Render \/ Arrives
  \/ ServerCrash

Spec == Init /\ [][Next]_vars

\* Handler and job threads run; every call to the director and to ComfyUI has a
\* timeout.  Nothing is assumed of ComfyUI.
FairSpec ==
  /\ Spec
  /\ \A r \in Requests : WF_vars(Handler(r))
  /\ \A p \in Productions : WF_vars(Work(p))

----------------------------------------------------------------------------
(* Safety.                                                                 *)

\* A job whose status is rendering holds the lock, and one whose status is done
\* has had every task of its plan rendered.
StatusIsHonest ==
  \A r \in Requests : /\ status[r] = "rendering" => flock[Dir[r]] = r /\ InProduction(r)
                      /\ status[r] = "done" => pos[r] > Len(plan[r])

\* A job whose thread died over the lock file before it could say anything of it.
LeftAtPlanning(p) == p \in Requests /\ stage[p] = "over" /\ status[p] = "planning"

\* The lock belongs to a production at work: a refused, failed or killed one
\* leaves it free, and only one that writing the lock file has failed keeps it.
LockIsInUse ==
  \A d \in Dirs : flock[d] # NoOne => InProduction(flock[d]) \/ LeftAtPlanning(flock[d])

\* An i2v clip that a production goes on with and its start image: they belong
\* together, or the image is in `but`.
ClipsHaveTheirImages(but) ==
  \A e \in rendered :
    LET p == e.prompt.owner
        n == e.prompt.task
    IN  p \in Productions /\ n < pos[p] /\ plan[p][n] = "i2v"
          => e.image = e.prompt \/ e.image \in but

\* Every upload overwrites the same file, and prompts of productions that gave up are
\* still rendered.  Yet an i2v clip that a production goes on with was rendered from
\* the image uploaded for it, unless the upload of a production that had given up or
\* was killed was served late.
OwnOrStrayImage == ClipsHaveTheirImages(strays)

\* ComfyUI holds prompts of at most one production at a time.
AloneInComfy ==
  \A i, j \in 1..Len(queue) :
    {queue[i].owner, queue[j].owner} \subseteq Productions => queue[i].owner = queue[j].owner

(* Liveness.                                                               *)

\* An accepted job is done or fails, or the server is killed, or else the lock file
\* could not be written; whatever ComfyUI does.
EveryJobEnds ==
  \A r \in Requests :
    status[r] = "planning" ~> status[r] \in {"done", "error", "none"} \/ LeftAtPlanning(r)

----------------------------------------------------------------------------
(* What the repository claims, and the code does not keep in every case.   *)

\* "raises ProductionLockHeld immediately if another run holds it", and not if
\* there is no other run any more.
HolderIsARun == \A d \in Dirs : flock[d] # NoOne => InProduction(flock[d])

\* "a 2nd /produce 409s": the lock turns no job away that do_POST has accepted,
\* unless a run of the command line holds it.
SecondProduceRefused ==
  [][ \A r \in Requests : stage[r] = "starting" /\ status'[r] = "error"
        => flock[Dir[r]] \in Clis ]_vars

\* "a 2nd /produce 409s": a server that stays up answers every request.
EveryProduceAnswered == \A r \in Requests : req[r] # "dropped"

\* "conditioning the base video latent on the start image (the keyframe/continuity
\* anchor)": a production's own, even if ComfyUI serves an upload after its minute.
OwnImage == ClipsHaveTheirImages({})

\* "a host file-lock is enough to guarantee one production job at a time"
OneProduction == \A p, q \in Productions : InProduction(p) /\ InProduction(q) => p = q

----------------------------------------------------------------------------
(* The productions of one directory as a single-flight lease.              *)

Lease == INSTANCE SingleFlight WITH Clients <- Productions,
                                    flying <- {p \in Productions : InProduction(p)}
LeaseSpec == Lease!Spec
=============================================================================
