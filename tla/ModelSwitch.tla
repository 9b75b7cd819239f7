---------------------------- MODULE ModelSwitch ----------------------------
(***************************************************************************)
(* The HTTP service that swaps the served model (tools/model-switch/       *)
(* server.py), the switch.sh it runs for that (scripts/switch.sh) and the  *)
(* containers of docker.                                                   *)
(*                                                                         *)
(* A handler is a thread of the service.  switch.sh is a process, run by a *)
(* handler or from a shell that knows nothing of the service's lock.       *)
(* Docker's commands are its children: when a handler gives up on          *)
(* switch.sh only bash is killed, and the child it was waiting for goes on.*)
(***************************************************************************)
EXTENDS Naturals, FiniteSets

CONSTANTS
  Requests,   \* the calls of POST /switch whose body names a slug
  Shells,     \* runs of switch.sh from elsewhere: an operator, the cockpit
  Slugs,      \* registry entries; each has a compose file and a container
  Want,       \* the slug each of them asks for
  Port,       \* the host port of each slug's container
  Nobody,     \* no request holds the lock, no container, no run has made it
  PsFails,    \* docker ps may fail, which both programs take for an empty host
  Unseen,     \* FORCE=1, no nvidia-smi, or the engine is on GPUs not selected
  TimesOut,   \* switch.sh may outlast the handler's timeout
  Crashes     \* the service may be killed (systemd takes its children along)

Runs == Requests \cup Shells

ASSUME ConstantsAssumption ==
  /\ Requests \cap Shells = {}
  /\ Nobody \notin Runs \cup Slugs
  /\ Want \in [Runs -> Slugs]
  /\ DOMAIN Port = Slugs
  /\ {PsFails, Unseen, TimesOut, Crashes} \subseteq BOOLEAN

VARIABLES
  handler,  \* where each request's thread is, or what it answered
  saw,      \* the container status() found for it
  lock,     \* _switch_lock
  script,   \* where each run of switch.sh is
  toDown,   \* the containers it has found and not yet brought down
  child,    \* the docker command that a killed switch.sh has left behind
  box,      \* the container of each slug
  maker,    \* history: the run whose compose up has started the container
  met       \* history: the pairs of runs that were alive at one time

service == <<handler, saw, lock>>
host == <<box, maker>>
vars == <<service, script, toDown, child, host, met>>

Answers == {"already", "refused", "ok", "failed", "dropped"}
Bash == {"listing", "downing", "checking", "upping", "upped", "waiting"}
Up(s) == box[s] # "none"

TypeOK ==
  /\ handler \in [Requests -> {"new", "probing", "acquiring", "switching"} \cup Answers]
  /\ saw \in [Requests -> Slugs \cup {Nobody}]
  /\ lock \in Requests \cup {Nobody}
  /\ script \in [Runs -> {"none", "ready", "failed", "killed"} \cup Bash]
  /\ toDown \in [Runs -> SUBSET Slugs]
  /\ child \in [Runs -> [does : {"nothing", "down", "up"}, to : Slugs]]
  /\ box \in [Slugs -> {"none", "booting", "ready"}]
  /\ maker \in [Slugs -> Runs \cup {Nobody}]
  /\ met \subseteq SUBSET Runs

Idle(c) == [does |-> "nothing", to |-> Want[c]]

\* Whatever of a run of switch.sh is still at work: bash, or a child it left.
Alive(c) == script[c] \in Bash \/ child[c].does # "nothing"

Init ==
  /\ handler = [r \in Requests |-> "new"]
  /\ saw = [r \in Requests |-> Nobody]
  /\ lock = Nobody
  /\ script = [c \in Runs |-> "none"]
  /\ toDown = [c \in Runs |-> {}]
  /\ child = [c \in Runs |-> Idle(c)]
  /\ \E old \in {{}} \cup {{s} : s \in Slugs} :
       box = [s \in Slugs |-> IF s \in old THEN "ready" ELSE "none"]
  /\ maker = [s \in Slugs |-> Nobody]
  /\ met = {}

\* Something answers /health on the port of s.
Serving(s) == \E t \in Slugs : box[t] = "ready" /\ Port[t] = Port[s]

Launch(c) ==
  /\ script' = [script EXCEPT ![c] = "listing"]
  /\ met' = met \cup {{c, d} : d \in {e \in Runs \ {c} : Alive(e)}}
  /\ UNCHANGED <<toDown, child, host>>

----------------------------------------------------------------------------
(* do_POST.                                                                *)

Respond(r, what) == handler' = [handler EXCEPT ![r] = what]

\* status(): docker ps, one container of an engine if there is any.
ReadContainer(r) ==
  /\ handler[r] = "new"
  /\ \/ /\ PsFails \/ \A s \in Slugs : ~Up(s)
        /\ Respond(r, "acquiring")
        /\ UNCHANGED saw
     \/ \E s \in Slugs :
          /\ Up(s)
          /\ saw' = [saw EXCEPT ![r] = s]
          /\ Respond(r, "probing")
  /\ UNCHANGED <<lock, script, toDown, child, host, met>>

\* status() again: /health on that container's port, then the no-op check.
Probe(r) ==
  /\ handler[r] = "probing"
  /\ Respond(r, IF Serving(saw[r]) /\ saw[r] = Want[r] THEN "already" ELSE "acquiring")
  /\ saw' = [saw EXCEPT ![r] = Nobody]
  /\ UNCHANGED <<lock, script, toDown, child, host, met>>

Acquire_Unlocked(r) ==
  /\ handler[r] = "acquiring"
  /\ lock' = r
  /\ Respond(r, "switching")
  /\ Launch(r)
  /\ UNCHANGED saw

Acquire(r) ==
  /\ handler[r] = "acquiring"
  /\ lock = Nobody
  /\ lock' = r
  /\ Respond(r, "switching")
  /\ Launch(r)
  /\ UNCHANGED saw

\* The lock is not waited for.
Refuse(r) ==
  /\ handler[r] = "acquiring"
  /\ lock # Nobody
  /\ Respond(r, "refused")
  /\ UNCHANGED <<saw, lock, script, toDown, child, host, met>>

\* subprocess.run gives up: it kills bash, and bash only.
TimeOut(r) ==
  /\ TimesOut
  /\ handler[r] = "switching" /\ script[r] \in Bash
  /\ script' = [script EXCEPT ![r] = "killed"]
  /\ \/ UNCHANGED child
     \/ \E s \in toDown[r] :
          /\ script[r] = "downing"
          /\ child' = [child EXCEPT ![r] = [does |-> "down", to |-> s]]
     \/ /\ script[r] = "upping"
        /\ child' = [child EXCEPT ![r] = [does |-> "up", to |-> Want[r]]]
  /\ toDown' = [toDown EXCEPT ![r] = {}]
  /\ UNCHANGED <<service, host, met>>

\* finally: the lock is released however switch.sh ended.
Finish(r) ==
  /\ handler[r] = "switching" /\ script[r] \in {"ready", "failed", "killed"}
  /\ Respond(r, IF script[r] = "ready" THEN "ok" ELSE "failed")
  /\ lock' = Nobody
  /\ UNCHANGED <<saw, script, toDown, child, host, met>>

\* systemd kills the service's whole control group.
ServiceCrash ==
  /\ Crashes
  /\ handler' = [r \in Requests |-> IF handler[r] \in {"new"} \cup Answers
                                    THEN handler[r] ELSE "dropped"]
  /\ lock' = Nobody
  /\ script' = [c \in Runs |-> IF c \in Requests /\ script[c] \in Bash
                               THEN "killed" ELSE script[c]]
  /\ child' = [c \in Runs |-> IF c \in Requests THEN Idle(c) ELSE child[c]]
  /\ toDown' = [c \in Runs |-> IF c \in Requests THEN {} ELSE toDown[c]]
  /\ saw' = [r \in Requests |-> Nobody]
  /\ UNCHANGED <<host, met>>

----------------------------------------------------------------------------
(* switch.sh.                                                              *)

FromShell(c) ==
  /\ script[c] = "none"
  /\ Launch(c)
  /\ UNCHANGED service

Goes(c, to) == script' = [script EXCEPT ![c] = to]

List_OwnPortOnly(c) ==
  /\ script[c] = "listing"
  /\ toDown' = [toDown EXCEPT ![c] = {s \in Slugs : Up(s) /\ Port[s] = Port[Want[c]]}]
  /\ Goes(c, "downing")
  /\ UNCHANGED <<service, child, host, met>>

\* down_running: the managed containers that docker ps shows; "|| true".
List(c) ==
  /\ script[c] = "listing"
  /\ \/ toDown' = [toDown EXCEPT ![c] = {s \in Slugs : Up(s)}]
     \/ PsFails /\ toDown' = [toDown EXCEPT ![c] = {}]
  /\ Goes(c, "downing")
  /\ UNCHANGED <<service, child, host, met>>

TakesDown(s) == box' = [box EXCEPT ![s] = "none"] /\ UNCHANGED maker

\* One after the other, each through its own compose file; a failure of both
\* compose down and docker stop ends the script (set -e).
DownRunning(c) ==
  /\ script[c] = "downing"
  /\ \/ \E s \in toDown[c] :
          \/ /\ TakesDown(s)
             /\ toDown' = [toDown EXCEPT ![c] = @ \ {s}]
             /\ UNCHANGED script
          \/ /\ Goes(c, "failed")
             /\ toDown' = [toDown EXCEPT ![c] = {}]
             /\ UNCHANGED host
     \/ toDown[c] = {} /\ Goes(c, "checking") /\ UNCHANGED <<toDown, host>>
  /\ UNCHANGED <<service, child, met>>

\* gpu_preflight and the other checks before compose up.  An engine that still
\* boots may not have taken its memory yet, and the memory may not be looked at.
Preflight(c) ==
  /\ script[c] = "checking"
  /\ \/ Goes(c, "failed")
     \/ /\ Unseen \/ \A s \in Slugs : box[s] # "ready"
        /\ Goes(c, "upping")
  /\ UNCHANGED <<service, toDown, child, host, met>>

\* docker compose up -d: it leaves a container of the slug that is already up.
BringsUp(c) ==
  /\ \A s \in Slugs \ {Want[c]} : Up(s) => Port[s] # Port[Want[c]]
  /\ box' = [box EXCEPT ![Want[c]] = IF @ = "none" THEN "booting" ELSE @]
  /\ maker' = [maker EXCEPT ![Want[c]] = c]

UpVariant(c) ==
  /\ script[c] = "upping"
  /\ \/ BringsUp(c) /\ Goes(c, "upped")
     \/ Goes(c, "failed") /\ UNCHANGED host
  /\ UNCHANGED <<service, toDown, child, met>>

\* wait_ready looks for the container once ...
FindContainer(c) ==
  /\ script[c] = "upped"
  /\ Goes(c, IF Up(Want[c]) THEN "waiting" ELSE "failed")
  /\ UNCHANGED <<service, toDown, child, host, met>>

\* ... and then waits for an answer on the port, for the container's death or
\* for READY_TIMEOUT.
WaitReady(c) ==
  /\ script[c] = "waiting"
  /\ \/ Serving(Want[c]) /\ Goes(c, "ready")
     \/ ~Serving(Want[c]) /\ Goes(c, "failed")
  /\ UNCHANGED <<service, toDown, child, host, met>>

\* The child of a killed switch.sh comes to its end.
LeftBehind(c) ==
  /\ child[c].does # "nothing"
  /\ child' = [child EXCEPT ![c] = Idle(c)]
  /\ \/ child[c].does = "down" /\ TakesDown(child[c].to)
     \/ child[c].does = "up" /\ BringsUp(c)
     \/ UNCHANGED host
  /\ UNCHANGED <<service, script, toDown, met>>

----------------------------------------------------------------------------
(* The engines: only one fits on the cards.                                *)

Boot(s) ==
  /\ box[s] = "booting"
  /\ \A t \in Slugs : box[t] # "ready"
  /\ box' = [box EXCEPT ![s] = "ready"]
  /\ UNCHANGED <<service, script, toDown, child, maker, met>>

\* An engine's process ends: docker starts it again (restart: unless-stopped)
\* or somebody has taken the container away.
Die(s) ==
  /\ Up(s)
  /\ \E after \in {"none", "booting"} : box' = [box EXCEPT ![s] = after]
  /\ UNCHANGED <<service, script, toDown, child, maker, met>>

----------------------------------------------------------------------------
Handler(r) ==
  ReadContainer(r) \/ Probe(r) \/ Acquire(r) \/ Refuse(r) \/ Finish(r)

Script(c) ==
  \/ List(c) \/ DownRunning(c) \/ Preflight(c) \/ UpVariant(c)
  \/ FindContainer(c) \/ WaitReady(c) \/ LeftBehind(c)

Next ==
  \/ \E r \in Requests : Handler(r) \/ TimeOut(r)
  \/ \E c \in Shells : FromShell(c)
  \/ \E c \in Runs : Script(c)
  \/ \E s \in Slugs : Boot(s) \/ Die(s)
  \/ ServiceCrash

Spec == Init /\ [][Next]_vars

\* Handler threads run, and every step of switch.sh comes to its end; wait_ready
\* has a timeout.  Engines need never boot.
FairSpec ==
  /\ Spec
  /\ \A r \in Requests : WF_vars(Handler(r))
  /\ \A c \in Runs : WF_vars(Script(c))

----------------------------------------------------------------------------
(* Safety.                                                                 *)

\* "Only one model fits in VRAM": two engine containers are up together only if
\* the two runs of switch.sh that started them were at work at one time.  No run
\* leaves a container of an earlier one up beside its own.
TwoEnginesMet ==
  \A s, t \in Slugs : s # t /\ Up(s) /\ Up(t) => {maker[s], maker[t]} \in met

\* Two requests' switches are at work at one time only if the handler of one
\* has given up on it: a killed service leaves nothing behind, a refused or
\* failed request neither.
RequestsMeetAfterTimeOut ==
  \A r, q \in Requests : r # q /\ {r, q} \in met => "killed" \in {script[r], script[q]}

(* Liveness.                                                               *)

\* A switch ends and gives the lock back, whether the engine boots or not.
LockIsFreed == \A r \in Requests : lock = r ~> lock # r

----------------------------------------------------------------------------
(* What the repository says, and the code does not keep in every case.     *)

\* "Only one switch may run at a time (a switch tears down + boots a model)."
OneSwitch == \A r, q \in Requests : Alive(r) /\ Alive(q) => r = q

\* "409 a switch is already in progress": no request is told that its model is
\* already running while the switch of another is at work.
NoNoOpDuringSwitch ==
  [][ \A r \in Requests : handler[r] = "probing" /\ handler'[r] = "already"
        => lock = Nobody ]_vars

----------------------------------------------------------------------------
(* The handlers that run switch.sh, as a single-flight lease.              *)

Lease == INSTANCE SingleFlight WITH Clients <- Requests,
                                    flying <- {r \in Requests : script[r] \in Bash}
LeaseSpec == Lease!Spec
=============================================================================
