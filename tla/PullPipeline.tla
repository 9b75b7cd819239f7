----------------------------- MODULE PullPipeline -----------------------------
(***************************************************************************)
(* What a pull does with the model once its download has returned          *)
(* (scripts/lib/profiles/pull.py: _run_derived_e_stage): it boots the      *)
(* weights in a container (booter.py: booted_derived), probes the server,  *)
(* writes down what it saw (capture.py: emit_capture) and takes the        *)
(* container down.  A download that failed is noted, and the boot goes on. *)
(*                                                                         *)
(* The pulls are those of PullDownload.  Each has a compose project of its *)
(* own; the container's name and the mounted directory are the model's.    *)
(***************************************************************************)
EXTENDS PullDownload

CONSTANTS
  NoContainer,  \* there is no container of that name
  BootFaults    \* what may go wrong from the boot on

Containers == [of : Callers, mounted : BOOLEAN, serves : Trees \cup {NoTree}]

ASSUME ContainerAssumption ==
  /\ NoContainer \notin Containers
  /\ BootFaults \subseteq {"docker", "engine", "raise", "down"}

VARIABLES
  stage,      \* where the stage after the download is
  boot_ok,    \* the BootResult
  smoke,      \* the SmokeResult is there and no probe in it is red
  outcome,    \* the outcome in the manifest
  container   \* whose it is, whether its mount is still the model's directory,
              \* and what its server has loaded

pipe == <<stage, boot_ok, smoke, outcome>>
pipeline == <<vars, pipe, container>>

Booted == {"ready", "smoke", "capture", "down"}

\* The types of the pipeline; a container that is named belongs to a caller.
PipeTypeOK ==
  /\ TypeOK
  /\ stage \in [Callers -> {"download", "done"} \cup Booted]
  /\ {boot_ok, smoke} \subseteq [Callers -> BOOLEAN]
  /\ outcome \in [Callers -> {"none", "failed", "passed"}]
  /\ container \in Containers \cup {NoContainer}
  /\ \A c \in Callers : stage[c] # "download" => at[c] \in {"over", "gone"}

PipeInit ==
  /\ Init
  /\ stage = [c \in Callers |-> "download"]
  /\ boot_ok = [c \in Callers |-> FALSE]
  /\ smoke = [c \in Callers |-> FALSE]
  /\ outcome = [c \in Callers |-> "none"]
  /\ container = NoContainer

Steps(c, from, to) == stage[c] = from /\ stage' = [stage EXCEPT ![c] = to]
Owns(c) == container # NoContainer /\ container.of = c

----------------------------------------------------------------------------
(* The download, as before.  Whoever removes or renames the directory      *)
(* leaves a container on the old one, which is empty.                      *)

Downloads(c) ==
  /\ Call(c) \/ Acquire(c) \/ WritePid(c) \/ Download(c) \/ Publish(c) \/ Unlock(c) \/ Crash(c)
  /\ container' = IF container # NoContainer /\ at[c] \in {"remove", "rename"}
                    /\ at'[c] \notin {at[c], "gone"}
                  THEN [container EXCEPT !.mounted = FALSE] ELSE container
  /\ UNCHANGED pipe

----------------------------------------------------------------------------
(* The boot.                                                               *)

\* Only an exception of the download ends the stage.
NoBoot(c) ==
  /\ result[c] = "raised"
  /\ Steps(c, "download", "done")
  /\ UNCHANGED <<vars, boot_ok, smoke, outcome, container>>

\* docker compose up -d.
Up(c) ==
  /\ result[c] # "raised"
  /\ container = NoContainer
  /\ Steps(c, "download", "ready")
  /\ container' = [of |-> c, mounted |-> TRUE, serves |-> NoTree]
  /\ UNCHANGED <<vars, boot_ok, smoke, outcome>>

\* The name is taken, or docker fails and leaves a container or not.
UpFails(c) ==
  /\ result[c] # "raised"
  /\ Steps(c, "download", "capture")
  /\ \/ (container # NoContainer \/ "docker" \in BootFaults) /\ UNCHANGED container
     \/ /\ container = NoContainer /\ "docker" \in BootFaults
        /\ container' = [of |-> c, mounted |-> TRUE, serves |-> NoTree]
  /\ UNCHANGED <<vars, boot_ok, smoke, outcome>>

\* vLLM reads the mounted directory; docker starts it again until it can.
Load ==
  /\ container # NoContainer /\ container.serves = NoTree
  /\ container.mounted /\ DOMAIN published = Files
  /\ container' = [container EXCEPT !.serves = published]
  /\ UNCHANGED <<vars, pipe>>

\* The server dies and is started again.
Die ==
  /\ "engine" \in BootFaults
  /\ container # NoContainer /\ container.serves # NoTree
  /\ container' = [container EXCEPT !.serves = NoTree]
  /\ UNCHANGED <<vars, pipe>>

Answers == container # NoContainer /\ container.serves # NoTree

\* wait_ready: somebody answers at the port.
Ready(c) ==
  /\ Answers
  /\ Steps(c, "ready", "smoke")
  /\ boot_ok' = [boot_ok EXCEPT ![c] = TRUE]
  /\ UNCHANGED <<vars, smoke, outcome, container>>

\* It is waited for as long as it takes.
ReadyTimesOut_Answered(c) ==
  /\ Answers
  /\ Steps(c, "ready", "capture")
  /\ UNCHANGED <<vars, boot_ok, smoke, outcome, container>>

ReadyTimesOut(c) ==
  /\ Steps(c, "ready", "capture")
  /\ UNCHANGED <<vars, boot_ok, smoke, outcome, container>>

\* smoke_derived: a probe may fail although the server is there.  If it raises, the
\* SmokeResult stays empty, and no probe in it is red.
Smoke(c) ==
  /\ Steps(c, "smoke", "capture")
  /\ \E green \in BOOLEAN :
       /\ green => Answers \/ "raise" \in BootFaults
       /\ smoke' = [smoke EXCEPT ![c] = green]
  /\ UNCHANGED <<vars, boot_ok, outcome, container>>

\* The download's part in the outcome is left out.
Failed_DownloadAside(c) == ~boot_ok[c] \/ ~smoke[c]

Failed(c) == result[c] # "ok" \/ ~boot_ok[c] \/ ~smoke[c]

\* emit_capture.
Capture(c) ==
  /\ Steps(c, "capture", "down")
  /\ outcome' = [outcome EXCEPT ![c] = IF Failed(c) THEN "failed" ELSE "passed"]
  /\ UNCHANGED <<vars, boot_ok, smoke, container>>

\* Without the finally.
Raises_Out(c) ==
  /\ "raise" \in BootFaults /\ at[c] = "over"
  /\ stage[c] \in Booted \ {"down"}
  /\ stage' = [stage EXCEPT ![c] = "done"]
  /\ UNCHANGED <<vars, boot_ok, smoke, outcome, container>>

\* An exception in the with body, Ctrl-C for one: the finally is next.
Raises(c) ==
  /\ "raise" \in BootFaults /\ at[c] = "over"
  /\ stage[c] \in Booted \ {"down"}
  /\ stage' = [stage EXCEPT ![c] = "down"]
  /\ UNCHANGED <<vars, boot_ok, smoke, outcome, container>>

\* docker rm -f by the container's name.
Down_ByName(c) ==
  /\ Steps(c, "down", "done")
  /\ container' = NoContainer
  /\ UNCHANGED <<vars, boot_ok, smoke, outcome>>

\* docker compose down, of the pull's own project; a failure is passed over.
Down(c) ==
  /\ Steps(c, "down", "done")
  /\ \/ container' = IF Owns(c) THEN NoContainer ELSE container
     \/ "down" \in BootFaults /\ UNCHANGED container
  /\ UNCHANGED <<vars, boot_ok, smoke, outcome>>

Ends(c) ==
  /\ stage[c] = "done"
  /\ End(c)
  /\ UNCHANGED <<pipe, container>>

----------------------------------------------------------------------------
BootStep(c) ==
  \/ NoBoot(c) \/ Up(c) \/ UpFails(c)
  \/ Ready(c) \/ ReadyTimesOut(c) \/ Smoke(c) \/ Capture(c)
  \/ Down(c)

Boots(c) == at[c] = "over" /\ BootStep(c)

PipeNext ==
  \/ \E c \in Callers : Downloads(c) \/ Boots(c) \/ Raises(c) \/ Ends(c)
  \/ Age /\ UNCHANGED <<pipe, container>>
  \/ Load \/ Die

PipeSpec == PipeInit /\ [][PipeNext]_pipeline

\* docker's commands end, and everything after the download has a time-out.
FairPipeSpec ==
  /\ PipeSpec
  /\ \A c \in Callers :
       /\ WF_pipeline(Acquire(c) /\ Downloads(c))
       /\ WF_pipeline(Boots(c))

----------------------------------------------------------------------------
(* Properties.                                                             *)

\* "never leaves an orphaned container" (booted_derived): when the stage of a pull
\* is over the container is not its own, however its boot, its probes and its
\* captures went.
NoOrphan == \A c \in Callers : stage[c] = "done" => ~Owns(c)

\* A server that a pull found ready is its own until its own teardown, whatever
\* other pulls of the model do meanwhile: the probes and the capture are of that
\* server ("the server stays alive for the ENTIRE with-body").
AliveForTheBody ==
  \A c \in Callers :
    boot_ok[c] /\ stage[c] \in {"smoke", "capture"} => Owns(c)

\* A capture that counts as a success is one of complete and checked weights: the
\* pull's own download went through, and what its server had loaded was every
\* file, those with a hash with the right bytes (emit_capture's outcome).
PassedIsVerified ==
  [][ \A c \in Callers :
        outcome[c] # "passed" /\ outcome'[c] = "passed" =>
          /\ result[c] = "ok"
          /\ Owns(c)
          /\ container.serves # NoTree =>
               /\ DOMAIN container.serves = Files
               /\ \A f \in Safetensors : container.serves[f] = "good" ]_pipeline

\* A pull whose download has returned tears down and ends, whatever the others do.
BootedIsTornDown ==
  \A c \in Callers : stage[c] \in Booted ~> stage[c] = "done" \/ at[c] = "gone"

\* The weights stay where the container has mounted them.  The lock ends with the
\* download, so another pull of the model may replace them during the boot.
MountIsStable ==
  \A c \in Callers : stage[c] \in Booted /\ Owns(c) => container.mounted
=============================================================================
