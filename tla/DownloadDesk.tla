---------------------------- MODULE DownloadDesk ----------------------------
(***************************************************************************)
(* The cockpit's download desk (tools/serve-cockpit, app.py and            *)
(* services.py): start_download, run_download and cancel_download, over    *)
(* the one SubprocessRunner that all downloads share.                      *)
(*                                                                         *)
(* Every run of the runner is one attempt to download the weights of a     *)
(* slug; a cancel of the runner is what one cancel_download leads to.      *)
(* A step is the code between two awaits.  weights_index is cached by the  *)
(* time there is something to download, so enrich_weights does not wait.   *)
(*                                                                         *)
(* load_catalog builds new entries and puts them on the screen long before *)
(* it looks at the disk for them, and then stamps what is being downloaded *)
(* on them again.  A dialog or a worker that has an old entry by then goes *)
(* on with that one, which nobody sees any more.                           *)
(***************************************************************************)
EXTENDS SubprocessRunner, FiniteSets

CONSTANTS
  Slugs,   \* the catalog's variants
  Slug,    \* which one each attempt is for
  NoSlug   \* none

ASSUME DeskAssumption ==
  /\ Slug \in [Runs -> Slugs]
  /\ NoSlug \notin Slugs
  /\ Overlapping /\ CallersCancel

VARIABLES
  tracked,  \* _active_downloads: per slug the attempt that put it there, or NoRun
  worker,   \* the run_download worker of each attempt
  shown,    \* the slugs whose entry on screen is at downloading; the others are at
            \* what the disk has of them or, before they are stamped, at unknown
  stamped,  \* whether the entries on screen have been looked up and stamped
  dialog,   \* the slug that a dialog from before a refresh still offers to download
  restat,   \* the slugs that a _restat_after_cancel worker is yet to look up
  aim,      \* the slug each cancel is asked for
  struck,   \* history: workers that were cancelled with another slug's download
  stray     \* history: slugs whose last news went to an entry that has left the screen

runner == <<run, current_run, process, cancelEvent, handle, os, cancel, target>>
desk == <<tracked, worker, shown, stamped, dialog, restat, aim, struck, stray>>
deskVars == <<runner, desk>>

\* overtaken: scheduled, with an entry that has left the screen.
Unlaunched == {"scheduled", "overtaken"}
Live == Unlaunched \cup {"starting", "watching"}

DeskTypeOK ==
  /\ TypeOK
  /\ tracked \in [Slugs -> Runs \cup {NoRun}]
  /\ worker \in [Runs -> {"none", "over", "cancelled"} \cup Live]
  /\ shown \subseteq Slugs
  /\ stamped \in BOOLEAN
  /\ dialog \in Slugs \cup {NoSlug}
  /\ restat \subseteq Slugs
  /\ aim \in [Cancels -> Slugs \cup {NoSlug}]
  /\ struck \subseteq Runs /\ stray \subseteq Slugs

DeskInit ==
  /\ Init
  /\ tracked = [s \in Slugs |-> NoRun]
  /\ worker = [r \in Runs |-> "none"]
  /\ shown = {}
  /\ stamped = FALSE
  /\ dialog = NoSlug
  /\ restat = {}
  /\ aim = [c \in Cancels |-> NoSlug]
  /\ struck = {}
  /\ stray = {}

Tracked(s) == tracked[s] # NoRun
Turns(r, phase) == worker' = [worker EXCEPT ![r] = phase]
Drops(s) == tracked' = [tracked EXCEPT ![s] = NoRun]

\* weights_state_for: whatever a look at the disk finds, it is not downloading.
LookUp(s) == shown' = shown \ {s}

----------------------------------------------------------------------------
(* Starting.                                                               *)

\* start_download does nothing for a slug that is tracked.
StartsOn(r) ==
  /\ worker[r] = "none"
  /\ ~Tracked(Slug[r])
  /\ tracked' = [tracked EXCEPT ![Slug[r]] = r]
  /\ dialog' = NoSlug
  /\ UNCHANGED <<runner, stamped, restat, aim, struck>>

\* The dialog offers a download of what is shown as absent or partial ...
StartDownload(r) ==
  /\ StartsOn(r)
  /\ stamped /\ dialog = NoSlug
  /\ Slug[r] \notin shown
  /\ shown' = shown \cup {Slug[r]}
  /\ stray' = stray \ {Slug[r]}
  /\ Turns(r, "scheduled")

\* ... or was, before a refresh: the entry that is set to downloading is the old one.
StartStale(r) ==
  /\ StartsOn(r)
  /\ dialog = Slug[r]
  /\ stray' = stray \cup {Slug[r]}
  /\ Turns(r, "overtaken")
  /\ UNCHANGED shown

\* The worker's first step: run_weights_download calls start_raw ...
Launch(r) ==
  /\ worker[r] \in Unlaunched
  /\ Start(r)
  /\ Turns(r, "starting")
  /\ UNCHANGED <<tracked, shown, stamped, dialog, restat, aim, struck, stray>>

\* What the worker was started with is set to absent.  If that is no longer on
\* the screen, what is there keeps the state it was stamped with.
ReportsAbsent(r) ==
  IF worker[r] = "scheduled"
  THEN shown' = shown \ {Slug[r]} /\ UNCHANGED stray
  ELSE stray' = stray \cup {Slug[r]} /\ UNCHANGED shown

LaunchFails_StaysTracked(r) ==
  /\ worker[r] \in Unlaunched
  /\ ReportsAbsent(r)
  /\ Turns(r, "over")
  /\ UNCHANGED <<runner, tracked, stamped, dialog, restat, aim, struck>>

\* ... or raises before that.
LaunchFails(r) ==
  /\ worker[r] \in Unlaunched
  /\ Drops(Slug[r])
  /\ ReportsAbsent(r)
  /\ Turns(r, "over")
  /\ UNCHANGED <<runner, stamped, dialog, restat, aim, struck>>

\* start_raw returns a run, which may have failed already.
Launched(r) ==
  /\ worker[r] = "starting"
  /\ Spawned(r) \/ SpawnFails(r)
  /\ Turns(r, "watching")
  /\ UNCHANGED <<tracked, shown, stamped, dialog, restat, aim, struck, stray>>

\* The worker was cancelled while it waited for the spawn.
Abandons(r) ==
  /\ worker[r] = "cancelled"
  /\ Abandon(r)
  /\ UNCHANGED desk

----------------------------------------------------------------------------
(* Watching.                                                               *)

Finishes_NoLookUp(r) ==
  /\ worker[r] = "watching"
  /\ run[r] = "done"
  /\ Tracked(Slug[r])
  /\ Drops(Slug[r])
  /\ Turns(r, "over")
  /\ UNCHANGED <<runner, shown, stamped, dialog, restat, aim, struck, stray>>

\* Either run.done is set, and the disk says what has become of it, not the exit
\* code; or somebody has taken the slug off the list.  The entry is the tracker's;
\* where that is an old one, the one on screen is not at downloading.
Finishes(r) ==
  /\ worker[r] = "watching"
  /\ run[r] = "done" \/ ~Tracked(Slug[r])
  /\ IF Tracked(Slug[r]) THEN Drops(Slug[r]) /\ LookUp(Slug[r]) ELSE UNCHANGED <<tracked, shown>>
  /\ Turns(r, "over")
  /\ UNCHANGED <<runner, stamped, dialog, restat, aim, struck, stray>>

----------------------------------------------------------------------------
(* Refreshing.                                                             *)

\* load_catalog puts new entries on the screen.  What had the old ones keeps
\* them: a look-up that is still to come, a worker that has not begun, a dialog
\* (one that is closed again unused is as none).
Populate ==
  /\ shown' = {}
  /\ stamped' = FALSE
  /\ restat' = {}
  /\ worker' = [r \in Runs |-> IF worker[r] = "scheduled" THEN "overtaken" ELSE worker[r]]
  /\ \/ UNCHANGED dialog
     \/ /\ dialog = NoSlug /\ stamped
        /\ dialog' \in {s \in Slugs : s \notin shown /\ ~Tracked(s)}
  /\ stray' = {}
  /\ UNCHANGED <<runner, tracked, aim, struck>>

\* Fits and measurements later they are looked up on the disk, what is tracked is
\* stamped on them, and the tracker is re-pointed at them.  It may never come to
\* this: the load fails, or another takes its place.
Stamp ==
  /\ ~stamped
  /\ stamped' = TRUE
  /\ shown' = {s \in Slugs : Tracked(s)}
  /\ stray' = {}
  /\ UNCHANGED <<runner, tracked, worker, dialog, restat, aim, struck>>

----------------------------------------------------------------------------
(* Cancelling.                                                             *)

CancelDownload_KeepsWorkers(c, s) ==
  /\ cancel[c] = "idle" /\ aim[c] = NoSlug
  /\ Tracked(s) /\ dialog = NoSlug
  /\ Drops(s)
  /\ aim' = [aim EXCEPT ![c] = s]
  /\ restat' = restat \cup ({s} \cap shown)
  /\ UNCHANGED <<runner, worker, shown, stamped, dialog, struck, stray>>

\* The slug leaves the list, and the whole worker group is cancelled.  The entry
\* to look up is the tracker's.
CancelDownload(c, s) ==
  /\ cancel[c] = "idle" /\ aim[c] = NoSlug
  /\ Tracked(s) /\ dialog = NoSlug
  /\ Drops(s)
  /\ worker' = [r \in Runs |-> IF worker[r] \in Live THEN "cancelled" ELSE worker[r]]
  /\ struck' = struck \cup {r \in Runs : worker[r] \in Live /\ Slug[r] # s}
  /\ aim' = [aim EXCEPT ![c] = s]
  /\ restat' = restat \cup ({s} \cap shown)
  /\ UNCHANGED <<runner, shown, stamped, dialog, stray>>

\* The worker it starts: the runner's cancel, whatever runs there by now.
KillDownload(c) ==
  /\ aim[c] # NoSlug
  /\ CancelBegins(c) \/ CancelFindsNothing(c)
  /\ UNCHANGED desk

\* And the other one.
RestatAfterCancel(s) ==
  /\ s \in restat
  /\ LookUp(s)
  /\ restat' = restat \ {s}
  /\ UNCHANGED <<runner, tracked, worker, stamped, dialog, aim, struck, stray>>

----------------------------------------------------------------------------
Worker(r) == Launch(r) \/ LaunchFails(r) \/ Launched(r) \/ Abandons(r) \/ Finishes(r)

\* The rest of the runner.
Streams(r) == (Reader(r) \/ CommandEnds(r)) /\ UNCHANGED desk
Escalates(c) == Canceller(c) /\ UNCHANGED desk

DeskNext ==
  \/ \E r \in Runs : StartDownload(r) \/ StartStale(r) \/ Worker(r) \/ Streams(r)
  \/ \E c \in Cancels, s \in Slugs : CancelDownload(c, s)
  \/ \E c \in Cancels : KillDownload(c) \/ Escalates(c)
  \/ \E s \in Slugs : RestatAfterCancel(s)
  \/ Populate \/ Stamp

DeskSpec == DeskInit /\ [][DeskNext]_deskVars

\* The loop runs the workers and the runner's tasks.  Users and commands may
\* never do anything.
FairDeskSpec ==
  /\ DeskSpec
  /\ \A r \in Runs : WF_deskVars(Worker(r)) /\ WF_deskVars(Reader(r) /\ UNCHANGED desk)
  /\ \A c \in Cancels : WF_deskVars(KillDownload(c)) /\ WF_deskVars(Escalates(c))
  /\ \A s \in Slugs : WF_deskVars(RestatAfterCancel(s))

----------------------------------------------------------------------------
(* Safety.                                                                 *)

\* The attempt that put a slug on the list still has its worker, which is to
\* take it off again, unless that was cancelled together with another slug's.
TrackedIsWatched ==
  \A s \in Slugs : Tracked(s) => worker[tracked[s]] \in Live \/ tracked[s] \in struck

\* A slug has one worker at most: the second would show progress for, and take
\* off the list, what the first is downloading.
OneWorkerPerSlug ==
  \A q, r \in Runs : worker[q] \in Live /\ worker[r] \in Live /\ Slug[q] = Slug[r] => q = r

\* What is on the list is shown as downloading once a refresh has stamped its
\* entries, unless it was started from a dialog older than that.
ShownIsTracked ==
  stamped => \A s \in Slugs : Tracked(s) => s \in shown \cup stray

(* Liveness.                                                               *)

\* What is not on the list does not go on being shown as downloading, unless its
\* worker failed to launch with an entry older than the one on screen.
LeftIsLookedUp ==
  \A s \in Slugs :
    s \in shown /\ ~Tracked(s)
      ~> s \notin shown \/ Tracked(s) \/ s \in stray

----------------------------------------------------------------------------
(* What the repository says, and the code does not keep in every case.     *)

\* "In-flight downloads must survive a refresh": not between the first paint and
\* the stamp.
ShownThroughRefreshes == \A s \in Slugs : Tracked(s) => s \in shown

\* "so updates always land on what's on screen (not the orphan)": not that of a
\* launch that fails.
NothingStaysAtDownloading ==
  \A s \in Slugs : s \in shown /\ ~Tracked(s) ~> s \notin shown \/ Tracked(s)

\* "Cancel an in-flight download: stop the poll worker, kill the process group":
\* the process group that is signalled is one of the cancelled slug's.
CancelsItsOwn ==
  [][ \A c \in Cancels : cancel[c] = "idle" /\ cancel'[c] = "int"
        => Slug[target'[c]] = aim[c] ]_deskVars
=============================================================================
