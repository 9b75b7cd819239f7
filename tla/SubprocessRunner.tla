------------------------- MODULE SubprocessRunner -------------------------
(***************************************************************************)
(* The streaming subprocess runner both terminal apps share:               *)
(* SubprocessRunner.start_raw, _read_output and cancel                     *)
(* (tools/tui-core/club3090_tui_core/runner.py).                           *)
(*                                                                         *)
(* One asyncio loop runs everything, so an action is the code between two  *)
(* awaits.  The runner keeps one current_run, one _process and one cancel  *)
(* event for whatever run comes next, while every run has a reader task of *)
(* its own, which picks up _process only when the loop first runs it.      *)
(* The test console never starts a run before the last one is done; the    *)
(* cockpit's write and download runners do.                                *)
(***************************************************************************)
EXTENDS Naturals

CONSTANTS
  Runs,          \* the calls of start_raw, each once
  Cancels,       \* the calls of cancel, each once
  NoRun,         \* None
  Unreadable,    \* the runs a line of which may raise in the reader's loop: parser=None
                 \* (the cockpit's downloads), a line beyond the stream's limit, a callback
  Overlapping,   \* a caller may start a run before the last one is done
  CallersCancel  \* the worker that awaits start_raw may be cancelled

ASSUME ConstantsAssumption ==
  /\ NoRun \notin Runs
  /\ Unreadable \subseteq Runs
  /\ {Overlapping, CallersCancel} \subseteq BOOLEAN

VARIABLES
  run,          \* where start_raw and then the reader task of each run is
  current_run,  \* SubprocessRunner.current_run
  process,      \* SubprocessRunner._process, named by the run it was spawned for
  cancelEvent,  \* SubprocessRunner._cancel_event
  handle,       \* the reader task's own proc
  os,           \* the process group of each run's command
  cancel,       \* where each call of cancel is
  target        \* the cancel call's own proc

vars == <<run, current_run, process, cancelEvent, handle, os, cancel, target>>

Streaming == {"scheduled", "reading", "reaping"}
Phases == {"new", "spawning", "abandoned", "done", "lost"} \cup Streaming

Signalled == {"int", "term", "kill"}

\* orphans: the group's leader has exited, children of it have not.
Groups == {"none", "running", "orphans", "gone"}

TypeOK ==
  /\ run \in [Runs -> Phases]
  /\ current_run \in Runs \cup {NoRun}
  /\ process \in Runs \cup {NoRun}
  /\ cancelEvent \in BOOLEAN
  /\ handle \in [Runs -> Runs \cup {NoRun}]
  /\ os \in [Runs -> Groups]
  /\ cancel \in [Cancels -> {"idle", "over"} \cup Signalled]
  /\ target \in [Cancels -> Runs \cup {NoRun}]
  /\ \A c \in Cancels : cancel[c] \in Signalled => target[c] \in Runs
  /\ \A r \in Runs : run[r] \in {"reading", "reaping"} => handle[r] \in Runs

Init ==
  /\ run = [r \in Runs |-> "new"]
  /\ current_run = NoRun
  /\ process = NoRun
  /\ cancelEvent = FALSE
  /\ handle = [r \in Runs |-> NoRun]
  /\ os = [r \in Runs |-> "none"]
  /\ cancel = [c \in Cancels |-> "idle"]
  /\ target = [c \in Cancels |-> NoRun]

Goes(r, phase) == run' = [run EXCEPT ![r] = phase]

----------------------------------------------------------------------------
(* start_raw.                                                              *)

\* A caller that does not overlap waits for the last run's completion callback.
Start(r) ==
  /\ run[r] = "new"
  /\ Overlapping \/ \A q \in Runs : run[q] \in {"new", "done"}
  /\ Goes(r, "spawning")
  /\ current_run' = r
  /\ cancelEvent' = FALSE
  /\ UNCHANGED <<process, handle, os, cancel, target>>

\* The command runs; the reader task is created but has not run yet.
Spawned(r) ==
  /\ run[r] = "spawning"
  /\ Goes(r, "scheduled")
  /\ process' = r
  /\ os' = [os EXCEPT ![r] = "running"]
  /\ UNCHANGED <<current_run, cancelEvent, handle, cancel, target>>

\* The exception handler finishes the run; current_run and _process stay.
SpawnFails(r) ==
  /\ run[r] = "spawning"
  /\ Goes(r, "done")
  /\ UNCHANGED <<current_run, process, cancelEvent, handle, os, cancel, target>>

\* CancelledError passes the handler: no reader, no done event; asyncio takes
\* the half-made subprocess down.
Abandon(r) ==
  /\ CallersCancel
  /\ run[r] = "spawning"
  /\ Goes(r, "abandoned")
  /\ UNCHANGED <<current_run, process, cancelEvent, handle, os, cancel, target>>

----------------------------------------------------------------------------
(* _read_output.                                                           *)

ReaderBegins_ClearsEvent(r) ==
  /\ run[r] = "scheduled"
  /\ handle' = [handle EXCEPT ![r] = process]
  /\ cancelEvent' = FALSE
  /\ Goes(r, IF process = NoRun THEN "lost" ELSE "reading")
  /\ UNCHANGED <<current_run, process, os, cancel, target>>

\* The task takes whatever _process is now.  None has no wait method: the task
\* dies and the run is never done.
ReaderBegins(r) ==
  /\ run[r] = "scheduled"
  /\ handle' = [handle EXCEPT ![r] = process]
  /\ Goes(r, IF process = NoRun THEN "lost" ELSE IF cancelEvent THEN "reaping" ELSE "reading")
  /\ UNCHANGED <<current_run, process, cancelEvent, os, cancel, target>>

StopsReading(r) ==
  /\ run[r] = "reading"
  /\ Goes(r, "reaping")
  /\ UNCHANGED <<current_run, process, cancelEvent, handle, os, cancel, target>>

SeesCancel_AfterEof(r) == StopsReading(r) /\ cancelEvent /\ os[handle[r]] = "gone"

SeesCancel_DropsHandle(r) ==
  /\ cancelEvent
  /\ run[r] = "reading"
  /\ Goes(r, "reaping")
  /\ process' = NoRun
  /\ UNCHANGED <<current_run, cancelEvent, handle, os, cancel, target>>

\* The event is looked at before every line, at least once a second.
SeesCancel(r) == StopsReading(r) /\ cancelEvent

Eof_AfterCancel(r) == StopsReading(r) /\ cancelEvent /\ os[handle[r]] = "gone"

\* Nobody holds the write end of the pipe any more.
Eof(r) == StopsReading(r) /\ os[handle[r]] = "gone"

\* A line raises, or two readers wait on one stream: the exception ends the loop.
ReadFails(r) ==
  /\ StopsReading(r)
  /\ \/ r \in Unreadable /\ os[handle[r]] \in {"running", "orphans"}
     \/ \E q \in Runs \ {r} : run[q] = "reading" /\ handle[q] = handle[r]

\* After ten seconds the reader kills the leader, and the leader only.
ReapTimesOut(r) ==
  /\ run[r] = "reaping"
  /\ os[handle[r]] = "running"
  /\ \E left \in {"orphans", "gone"} : os' = [os EXCEPT ![handle[r]] = left]
  /\ UNCHANGED <<run, current_run, process, cancelEvent, handle, cancel, target>>

Reap_SetsDoneFirst(r) ==
  /\ run[r] = "reaping"
  /\ Goes(r, "done")
  /\ current_run' = NoRun
  /\ process' = NoRun
  /\ UNCHANGED <<cancelEvent, handle, os, cancel, target>>

\* proc.wait() returns: the run is done, and the runner is cleared, whoever's
\* run it holds by now.
Reap(r) ==
  /\ run[r] = "reaping"
  /\ os[handle[r]] \in {"orphans", "gone"}
  /\ Goes(r, "done")
  /\ current_run' = NoRun
  /\ process' = NoRun
  /\ UNCHANGED <<cancelEvent, handle, os, cancel, target>>

----------------------------------------------------------------------------
(* cancel.                                                                 *)

\* A signal to a group whose leader is alive: it may end all of it, some of it
\* or nothing.  A group whose leader is gone is not found and not signalled.
Struck(r, left) == IF os[r] = "running" THEN os' = [os EXCEPT ![r] = left] ELSE UNCHANGED os

CancelBegins(c) ==
  /\ cancel[c] = "idle"
  /\ process # NoRun
  /\ cancelEvent' = TRUE
  /\ target' = [target EXCEPT ![c] = process]
  /\ cancel' = [cancel EXCEPT ![c] = "int"]
  /\ \E left \in {"running", "orphans", "gone"} : Struck(process, left)
  /\ UNCHANGED <<run, current_run, process, handle>>

CancelFindsNothing(c) ==
  /\ cancel[c] = "idle"
  /\ process = NoRun
  /\ cancel' = [cancel EXCEPT ![c] = "over"]
  /\ UNCHANGED <<run, current_run, process, cancelEvent, handle, os, target>>

\* Five seconds after SIGINT comes SIGTERM, five seconds later SIGKILL.
Escalate(c) ==
  /\ cancel[c] \in {"int", "term"}
  /\ os[target[c]] = "running"
  /\ \/ /\ cancel[c] = "int"
        /\ cancel' = [cancel EXCEPT ![c] = "term"]
        /\ \E left \in {"running", "orphans", "gone"} : Struck(target[c], left)
     \/ /\ cancel[c] = "term"
        /\ cancel' = [cancel EXCEPT ![c] = "kill"]
        /\ Struck(target[c], "gone")
  /\ UNCHANGED <<run, current_run, process, cancelEvent, handle, target>>

\* proc.wait() returns as soon as the leader has exited.
CancelReturns(c) ==
  /\ cancel[c] \in Signalled
  /\ os[target[c]] # "running"
  /\ cancel' = [cancel EXCEPT ![c] = "over"]
  /\ UNCHANGED <<run, current_run, process, cancelEvent, handle, os, target>>

----------------------------------------------------------------------------
(* The command.                                                            *)

CommandEnds(r) ==
  /\ \/ os[r] = "running" /\ \E left \in {"orphans", "gone"} : os' = [os EXCEPT ![r] = left]
     \/ os[r] = "orphans" /\ os' = [os EXCEPT ![r] = "gone"]
  /\ UNCHANGED <<run, current_run, process, cancelEvent, handle, cancel, target>>

----------------------------------------------------------------------------
Starter(r) == Spawned(r) \/ SpawnFails(r) \/ Abandon(r)

Reader(r) ==
  \/ ReaderBegins(r) \/ SeesCancel(r) \/ Eof(r) \/ ReadFails(r)
  \/ ReapTimesOut(r) \/ Reap(r)

Canceller(c) == Escalate(c) \/ CancelReturns(c)

Next ==
  \/ \E r \in Runs : Start(r) \/ Starter(r) \/ Reader(r) \/ CommandEnds(r)
  \/ \E c \in Cancels : CancelBegins(c) \/ CancelFindsNothing(c) \/ Canceller(c)

Spec == Init /\ [][Next]_vars

\* The loop runs every task whose await is over, and every timeout elapses.
\* Nothing is assumed of the commands: they may run for ever.
FairSpec ==
  /\ Spec
  /\ \A r \in Runs : WF_vars(Starter(r)) /\ WF_vars(Reader(r))
  /\ \A c \in Cancels : WF_vars(Canceller(c))

----------------------------------------------------------------------------
(* Safety.                                                                 *)

\* A reader reads the output and the exit code of its own run's command, and
\* none dies without having set the done event.
OwnProcess == \A r \in Runs : run[r] # "lost" /\ handle[r] \in {NoRun, r}

\* When a run is done its command's leader has exited.  The cockpit releases a
\* write's claim on the cards, and reads a validation's verdict, on that event.
DoneMeansExited == \A r \in Runs : run[r] = "done" => os[r] # "running"

\* Also when runs overlap and a reader or a cancel holds another run's command: a
\* run is reported done and a cancel returns only after the leader of the command
\* that it holds has exited.
WaitsForWhatItHolds ==
  /\ \A r \in Runs : run[r] = "done" /\ handle[r] # NoRun => os[handle[r]] # "running"
  /\ \A c \in Cancels : cancel[c] = "over" /\ target[c] # NoRun => os[target[c]] # "running"

\* A cancel under way stays visible to the reader of the run it is meant for.
CancelIsHeard ==
  \A c \in Cancels : cancel[c] \in Signalled /\ run[target[c]] \in {"scheduled", "reading"}
    => cancelEvent

\* A reader gives up on a command that still runs only because of a cancel.
ReadsToTheEnd ==
  \A r \in Runs : run[r] = "reaping" /\ os[handle[r]] = "running" => cancelEvent

\* A cancel finds nothing to do only when no run with a reader has its command
\* still running.
NoIdleCancel ==
  [][ \A c \in Cancels : cancel[c] = "idle" /\ cancel'[c] = "over"
        => \A r \in Runs : run[r] \in Streaming => os[r] # "running" ]_vars

(* Liveness, with commands that ignore every signal but SIGKILL.           *)

\* A run that a cancel was meant for ends.
CancelEndsRun ==
  \A r \in Runs : (\E c \in Cancels : target[c] = r) ~> run[r] = "done"

\* A run whose command is gone is reported done, even if the reader holds the wrong
\* command, or another reader reads beside it.
GoneIsNoticed ==
  \A r \in Runs :
    (run[r] \in {"reading", "reaping"} /\ os[handle[r]] = "gone") ~> run[r] = "done"

\* Every cancel that signalled a command returns.
CancelTerminates == \A c \in Cancels : cancel[c] = "int" ~> cancel[c] = "over"

----------------------------------------------------------------------------
(* A claim of the repository that the code does not keep in every case.    *)

\* cancel "kills the setup.sh/hf process group via the download runner's
\* SIGINT->TERM->KILL": sooner or later nothing of the group is left.
CancelKillsGroup ==
  \A r \in Runs : (\E c \in Cancels : target[c] = r) ~> os[r] = "gone"
=============================================================================
