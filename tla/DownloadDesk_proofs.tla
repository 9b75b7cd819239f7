------------------------ MODULE DownloadDesk_proofs ------------------------
(***************************************************************************)
(* The download desk's invariants for any number of slugs, attempts and    *)
(* cancels.                                                                *)
(*                                                                         *)
(* What the list is promised does not depend on what the runner does with  *)
(* its runs; it rests on this, that a slug on the list and its live worker *)
(* belong to each other (WatchedIsTracked), which every step of the three  *)
(* handlers keeps.                                                         *)
(*                                                                         *)
(* The desk is one of the callers the runner's specification allows.  What *)
(* is proved of the runner whoever calls it comes with that; most of what  *)
(* is proved of it does not, for the desk's runs overlap.                  *)
(***************************************************************************)
EXTENDS DownloadDesk, SubprocessRunner_proofs

\* A live worker's slug is on the list, and it is this worker that put it there.
WatchedIsTracked == \A r \in Runs : worker[r] \in Live => tracked[Slug[r]] = r

\* On the list there are attempts at the slug itself.
TracksItsOwn == \A s \in Slugs : Tracked(s) => tracked[s] \in Runs /\ Slug[tracked[s]] = s

\* What is still to be looked up after a cancel cannot have been started again.
RestatPending == \A s \in restat : s \in shown /\ ~Tracked(s)

DeskTypes ==
  /\ tracked \in [Slugs -> Runs \cup {NoRun}]
  /\ worker \in [Runs -> {"none", "over", "cancelled"} \cup Live]
  /\ shown \subseteq Slugs
  /\ stamped \in BOOLEAN
  /\ dialog \in Slugs \cup {NoSlug}
  /\ restat \subseteq Slugs
  /\ aim \in [Cancels -> Slugs \cup {NoSlug}]
  /\ struck \subseteq Runs /\ stray \subseteq Slugs

\* Nothing is left to look up while a dialog from before a refresh is open, and
\* nothing is shown as downloading before a refresh has stamped it.
RefreshedSince == /\ dialog # NoSlug => restat = {}
                  /\ ~stamped => shown = {}

DeskInv ==
  /\ DeskTypes /\ WatchedIsTracked /\ TracksItsOwn /\ TrackedIsWatched /\ ShownIsTracked
  /\ RestatPending /\ RefreshedSince

-----------------------------------------------------------------------------
\* Every step keeps the whole of it.
LEMMA DeskStep == DeskInv /\ [DeskNext]_deskVars => DeskInv'
<1> SUFFICES ASSUME DeskInv, [DeskNext]_deskVars PROVE DeskInv'
  OBVIOUS
<1> USE ConstantsAssumption, DeskAssumption DEF DeskInv, Tracked
<1>u. ASSUME UNCHANGED desk PROVE DeskInv'
  BY <1>u DEF desk, DeskTypes, WatchedIsTracked, TracksItsOwn, TrackedIsWatched, ShownIsTracked,
              RestatPending, RefreshedSince
<1>1. ASSUME NEW r \in Runs, StartDownload(r) \/ StartStale(r) PROVE DeskInv'
  <2>1. /\ worker[r] = "none" /\ ~Tracked(Slug[r])
        /\ tracked' = [tracked EXCEPT ![Slug[r]] = r]
        /\ \E phase \in Unlaunched : Turns(r, phase)
        /\ dialog' = NoSlug
        /\ UNCHANGED <<stamped, restat, aim, struck>>
    BY <1>1 DEF StartDownload, StartStale, StartsOn, Unlaunched
  <2>2. DeskTypes'
    BY <1>1, <2>1 DEF StartDownload, StartStale, Turns, DeskTypes, Live, Unlaunched
  <2>3. WatchedIsTracked' /\ TracksItsOwn'
    BY <2>1 DEF Turns, DeskTypes, Live, Unlaunched, WatchedIsTracked, TracksItsOwn
  <2>4. TrackedIsWatched'
    BY <2>1 DEF Turns, DeskTypes, Live, Unlaunched, TrackedIsWatched
  <2>5. ShownIsTracked'
    BY <1>1, <2>1 DEF StartDownload, StartStale, DeskTypes, ShownIsTracked
  <2>6. RestatPending' /\ RefreshedSince'
    BY <1>1, <2>1 DEF StartDownload, StartStale, DeskTypes, RestatPending, RefreshedSince
  <2> QED BY <2>2, <2>3, <2>4, <2>5, <2>6
<1>2. ASSUME NEW r \in Runs, NEW from \in Live, NEW to \in Live, worker[r] = from, Turns(r, to),
             UNCHANGED <<tracked, shown, stamped, dialog, restat, aim, struck, stray>>
      PROVE  DeskInv'
  <2>1. /\ DeskTypes' /\ TracksItsOwn' /\ ShownIsTracked'
        /\ RestatPending' /\ RefreshedSince'
    BY <1>2 DEF Turns, DeskTypes, TracksItsOwn, ShownIsTracked, RestatPending, RefreshedSince
  <2>2. WatchedIsTracked'
    BY <1>2 DEF Turns, DeskTypes, WatchedIsTracked
  <2>3. TrackedIsWatched'
    BY <1>2 DEF Turns, DeskTypes, TrackedIsWatched
  <2> QED BY <2>1, <2>2, <2>3
\* A worker ends: its slug leaves the list.
<1>3. ASSUME NEW r \in Runs, worker[r] \in Live, Turns(r, "over"), Drops(Slug[r]),
             shown' \in {shown, shown \ {Slug[r]}}, stray' \in {stray, stray \cup {Slug[r]}},
             UNCHANGED <<stamped, dialog, restat, aim, struck>>
      PROVE  DeskInv'
  <2>1. DeskTypes' /\ TracksItsOwn' /\ RefreshedSince'
    BY <1>3 DEF Turns, Drops, DeskTypes, TracksItsOwn, RefreshedSince
  <2>2. WatchedIsTracked'
    BY <1>3 DEF Turns, Drops, DeskTypes, WatchedIsTracked, Live, Unlaunched
  <2>3. TrackedIsWatched'
    <3> SUFFICES ASSUME NEW t \in Slugs, tracked'[t] # NoRun
                 PROVE  worker'[tracked'[t]] \in Live \/ tracked'[t] \in struck'
      BY DEF TrackedIsWatched
    <3>1. t # Slug[r] /\ tracked'[t] = tracked[t] /\ tracked[t] \in Runs \ {r}
      BY <1>3 DEF Drops, DeskTypes, TracksItsOwn
    <3>2. worker'[tracked[t]] = worker[tracked[t]]
      BY <1>3, <3>1 DEF Turns, DeskTypes
    <3> QED BY <1>3, <3>1, <3>2 DEF TrackedIsWatched
  <2>4. ShownIsTracked'
    BY <1>3 DEF Turns, Drops, DeskTypes, ShownIsTracked
  <2>5. Tracked(Slug[r])
    BY <1>3 DEF WatchedIsTracked
  <2>6. RestatPending'
    BY <1>3, <2>5 DEF Drops, DeskTypes, RestatPending
  <2> QED BY <2>1, <2>2, <2>3, <2>4, <2>6
<1>4. ASSUME NEW r \in Runs, Worker(r) PROVE DeskInv'
  <2>1. CASE Launch(r) \/ Launched(r)
    BY <1>2, <2>1 DEF Launch, Launched, Live, Unlaunched
  <2>2. CASE LaunchFails(r)
    BY <1>3, <2>2 DEF LaunchFails, ReportsAbsent, Live
  <2>3. CASE Abandons(r)
    BY <1>u, <2>3 DEF Abandons
  <2>4. CASE Finishes(r)
    <3>1. Tracked(Slug[r])
      BY <2>4 DEF Finishes, Live, WatchedIsTracked
    <3> QED BY <1>3, <2>4, <3>1 DEF Finishes, LookUp, Live
  <2> QED BY <1>4, <2>1, <2>2, <2>3, <2>4 DEF Worker
<1>5. ASSUME NEW c \in Cancels, NEW s \in Slugs, CancelDownload(c, s) PROVE DeskInv'
  <2>1. DeskTypes' /\ TracksItsOwn' /\ RefreshedSince'
    BY <1>5 DEF CancelDownload, Drops, DeskTypes, TracksItsOwn, RefreshedSince, Live, Unlaunched
  <2>2. WatchedIsTracked'
    BY <1>5 DEF CancelDownload, WatchedIsTracked, Live, Unlaunched
  <2>3. TrackedIsWatched'
    <3> SUFFICES ASSUME NEW t \in Slugs, tracked'[t] # NoRun
                 PROVE  worker'[tracked'[t]] \in Live \/ tracked'[t] \in struck'
      BY DEF TrackedIsWatched
    <3>1. t # s /\ tracked'[t] = tracked[t] /\ tracked[t] \in Runs /\ Slug[tracked[t]] = t
      BY <1>5 DEF CancelDownload, Drops, DeskTypes, TracksItsOwn
    <3> QED BY <1>5, <3>1 DEF CancelDownload, TrackedIsWatched
  <2>4. ShownIsTracked'
    BY <1>5 DEF CancelDownload, Drops, DeskTypes, ShownIsTracked
  <2>5. RestatPending'
    BY <1>5 DEF CancelDownload, Drops, DeskTypes, RestatPending
  <2> QED BY <2>1, <2>2, <2>3, <2>4, <2>5
<1>6. ASSUME NEW s \in Slugs, RestatAfterCancel(s) PROVE DeskInv'
  BY <1>6 DEF RestatAfterCancel, LookUp, DeskTypes, WatchedIsTracked, TracksItsOwn, TrackedIsWatched,
              ShownIsTracked, RestatPending, RefreshedSince
<1>7. CASE Populate
  <2>1. DeskTypes' /\ TracksItsOwn' /\ ShownIsTracked' /\ RestatPending' /\ RefreshedSince'
    BY <1>7 DEF Populate, DeskTypes, TracksItsOwn, ShownIsTracked, RestatPending, RefreshedSince, Live,
                Unlaunched
  <2>2. \A r \in Runs : worker'[r] \in Live <=> worker[r] \in Live
    BY <1>7 DEF Populate, DeskTypes, Live, Unlaunched
  <2>3. WatchedIsTracked' /\ TrackedIsWatched'
    BY <1>7, <2>2 DEF Populate, WatchedIsTracked, TrackedIsWatched, TracksItsOwn
  <2> QED BY <2>1, <2>3
<1>8. CASE Stamp
  <2>1. DeskTypes' /\ ShownIsTracked'
    BY <1>8 DEF Stamp, DeskTypes, ShownIsTracked
  <2>2. WatchedIsTracked' /\ TracksItsOwn' /\ TrackedIsWatched'
    BY <1>8 DEF Stamp, WatchedIsTracked, TracksItsOwn, TrackedIsWatched
  <2>3. RestatPending' /\ RefreshedSince'
    BY <1>8 DEF Stamp, DeskTypes, RestatPending, RefreshedSince
  <2> QED BY <2>1, <2>2, <2>3
<1>9. ASSUME NEW c \in Cancels, KillDownload(c) \/ Escalates(c) PROVE UNCHANGED desk
  BY <1>9 DEF KillDownload, Escalates
<1>10. ASSUME NEW r \in Runs, Streams(r) PROVE UNCHANGED desk
  BY <1>10 DEF Streams
<1> QED
  BY <1>u, <1>1, <1>4, <1>5, <1>6, <1>7, <1>8, <1>9, <1>10 DEF DeskNext, deskVars

LEMMA DeskHolds == DeskSpec => []DeskInv
<1>1. DeskInit => DeskInv
  <2>1. DeskInit => DeskTypes
    BY DEF DeskInit, DeskTypes, Live, Unlaunched
  <2>2. DeskInit => WatchedIsTracked /\ TracksItsOwn /\ TrackedIsWatched
    BY ConstantsAssumption, DeskAssumption
       DEF DeskInit, WatchedIsTracked, TracksItsOwn, TrackedIsWatched, Tracked, Live, Unlaunched
  <2>3. DeskInit => ShownIsTracked /\ RestatPending /\ RefreshedSince
    BY DEF DeskInit, ShownIsTracked, RestatPending, RefreshedSince
  <2> QED BY <2>1, <2>2, <2>3 DEF DeskInv
<1>2. DeskInv /\ [DeskNext]_deskVars => DeskInv'
  BY DeskStep
<1> QED BY <1>1, <1>2, PTL DEF DeskSpec

-----------------------------------------------------------------------------
\* A slug on the list is watched by the worker of the attempt that put it there,
\* unless that worker was cancelled with another slug's.
THEOREM ListedAreWatched == DeskSpec => []TrackedIsWatched
BY DeskHolds, PTL DEF DeskInv

\* What is on the list is shown as downloading on every screen that a refresh has
\* finished, but for what was started from an older dialog.
THEOREM ListedAreShown == DeskSpec => []ShownIsTracked
BY DeskHolds, PTL DEF DeskInv

\* No slug has two live workers.
THEOREM OneWorker == DeskSpec => []OneWorkerPerSlug
<1>1. DeskInv => OneWorkerPerSlug
  BY DEF DeskInv, WatchedIsTracked, OneWorkerPerSlug
<1> QED BY <1>1, DeskHolds, PTL

-----------------------------------------------------------------------------
(* The desk over its runner.                                               *)

\* A step of the desk is a step of the runner or none for it.
LEMMA DeskStepRuns == [DeskNext]_deskVars => [Next]_vars
<1> SUFFICES ASSUME [DeskNext]_deskVars PROVE [Next]_vars
  OBVIOUS
<1>1. ASSUME NEW r \in Runs, Launch(r) \/ Launched(r) \/ Abandons(r) \/ Streams(r) PROVE Next
  BY <1>1 DEF Launch, Launched, Abandons, Streams, Starter, Next
<1>2. ASSUME NEW c \in Cancels, KillDownload(c) \/ Escalates(c) PROVE Next
  BY <1>2 DEF KillDownload, Escalates, Next
<1>3. ASSUME UNCHANGED runner PROVE UNCHANGED vars
  BY <1>3 DEF runner, vars
<1>4. ASSUME NEW r \in Runs, StartDownload(r) \/ StartStale(r) \/ LaunchFails(r) \/ Finishes(r)
      PROVE  UNCHANGED runner
  BY <1>4 DEF StartDownload, StartStale, StartsOn, LaunchFails, Finishes
<1> QED
  BY <1>1, <1>2, <1>3, <1>4
     DEF DeskNext, Worker, CancelDownload, RestatAfterCancel, Populate, Stamp, deskVars

\* Whatever is started, cancelled and refreshed, the runner under the desk is the
\* runner, with callers that overlap.
THEOREM DeskRunsRunner == DeskSpec => Spec
<1>1. DeskInit => Init
  BY DEF DeskInit
<1> QED BY <1>1, DeskStepRuns, PTL DEF DeskSpec, Spec

\* So no download is looked up on the disk while the command its reader waited for
\* still runs, and no cancel returns before what it signalled has exited.
THEOREM DownloadsReturnLate == DeskSpec => []WaitsForWhatItHolds
BY DeskRunsRunner, NothingReturnsEarly, PTL

\* The variables of both keep their types.
THEOREM DeskTypesHold == DeskSpec => []DeskTypeOK
<1>1. DeskInv /\ TypeOK => DeskTypeOK
  BY DEF DeskInv, DeskTypes, DeskTypeOK
<1> QED BY <1>1, TypeCorrect, DeskRunsRunner, DeskHolds, PTL

\* Where a worker and its run are together: a run is started by a live worker, a
\* worker that watches has a run that got past its spawn, and only a cancelled one
\* leaves a spawn.
WorkersInStep ==
  \A r \in Runs :
    /\ worker[r] \in {"none"} \cup Unlaunched => run[r] = "new"
    /\ worker[r] = "starting" => run[r] = "spawning"
    /\ worker[r] = "watching" => run[r] \notin {"new", "spawning", "abandoned"}
    /\ run[r] \in {"spawning", "abandoned"} => worker[r] \in {"starting", "cancelled"}

LEMMA InStepStep ==
  ASSUME DeskTypeOK, WorkersInStep, [DeskNext]_deskVars
  PROVE  WorkersInStep'
<1>t. run \in [Runs -> Phases] /\ worker \in [Runs -> {"none", "over", "cancelled"} \cup Live]
  BY DEF DeskTypeOK, TypeOK
<1> USE DEF WorkersInStep, Goes, Turns, Live, Unlaunched
<1>1. ASSUME NEW r \in Runs, StartDownload(r) \/ StartStale(r) \/ LaunchFails(r) PROVE WorkersInStep'
  BY <1>1, <1>t DEF StartDownload, StartStale, StartsOn, LaunchFails, runner
<1>l. ASSUME NEW r \in Runs, Launch(r) PROVE WorkersInStep'
  BY <1>l, <1>t DEF Launch, Start
<1>2. ASSUME NEW r \in Runs, Launched(r) \/ Abandons(r) PROVE WorkersInStep'
  BY <1>2, <1>t DEF Launched, Abandons, Spawned, SpawnFails, Abandon, desk
<1>3. ASSUME NEW r \in Runs, Finishes(r) PROVE WorkersInStep'
  BY <1>3, <1>t DEF Finishes, runner
\* A run that has a reader keeps one or is done.
<1>4. ASSUME NEW r \in Runs, UNCHANGED worker, run[r] \in Streaming,
             \E to \in {"reading", "reaping", "done", "lost"} : run' = [run EXCEPT ![r] = to]
      PROVE  WorkersInStep'
  BY <1>4, <1>t DEF Streaming
<1>5. ASSUME UNCHANGED <<run, worker>> PROVE WorkersInStep'
  BY <1>5
<1>6. ASSUME NEW r \in Runs, Streams(r) PROVE WorkersInStep'
  <2>1. CASE CommandEnds(r) \/ ReapTimesOut(r)
    BY <1>5, <1>6, <2>1 DEF Streams, CommandEnds, ReapTimesOut, desk
  <2>2. CASE ReaderBegins(r) \/ SeesCancel(r) \/ Eof(r) \/ ReadFails(r) \/ Reap(r)
    BY <1>4, <1>6, <2>2
       DEF Streams, ReaderBegins, SeesCancel, Eof, ReadFails, StopsReading, Reap, desk, Streaming
  <2> QED BY <1>6, <2>1, <2>2 DEF Streams, Reader
<1>7. ASSUME NEW c \in Cancels, KillDownload(c) \/ Escalates(c) PROVE WorkersInStep'
  BY <1>5, <1>7 DEF KillDownload, Escalates, CancelBegins, CancelFindsNothing, Canceller, Escalate,
                    CancelReturns, desk
<1>8. ASSUME NEW c \in Cancels, NEW s \in Slugs, CancelDownload(c, s) PROVE WorkersInStep'
  BY <1>8, <1>t DEF CancelDownload, runner
<1>9. CASE Populate
  BY <1>9, <1>t DEF Populate, runner
<1> QED
  BY <1>1, <1>l, <1>2, <1>3, <1>5, <1>6, <1>7, <1>8, <1>9
     DEF DeskNext, Worker, RestatAfterCancel, Stamp, deskVars, runner, desk

\* Workers keep in step with the runs they watch, however the group is cancelled.
THEOREM WorkersFollowTheirRuns == DeskSpec => []WorkersInStep
<1>1. DeskInit => WorkersInStep
  BY DEF DeskInit, Init, WorkersInStep, Unlaunched
<1>2. DeskTypeOK /\ WorkersInStep /\ [DeskNext]_deskVars => WorkersInStep'
  BY InStepStep
<1> QED BY <1>1, <1>2, DeskTypesHold, PTL DEF DeskSpec

=============================================================================
