----------------------- MODULE SubprocessRunner_proofs -----------------------
(***************************************************************************)
(* The runner's invariants for any number of runs and cancels.             *)
(*                                                                         *)
(* Type correctness holds whatever the callers do, and so does this much,  *)
(* that nothing is reported before the command that was waited for has     *)
(* exited.  That it is the run's own command, and the rest, needs callers  *)
(* that start one run at a time: the invariant says that at most one run   *)
(* is under way and that _process is that run's, from the spawn to the end *)
(* of its reader.  Lines that raise cost no more than ReadsToTheEnd.       *)
(***************************************************************************)
EXTENDS SubprocessRunner, TLAPS

\* The callers the runner is written for.
Serial == ~Overlapping

\* Only a cancel makes a reader leave a command whose every line it can read.
Stays == Unreadable = {} => ReadsToTheEnd

\* At most one run is neither new nor done.
Sole ==
  \A q, r \in Runs : run[q] \notin {"new", "done"} /\ run[r] \notin {"new", "done"} => q = r

\* _process is set exactly while the run it was spawned for has a reader.
ProcessIsStreaming == \A r \in Runs : process = r <=> run[r] \in Streaming

\* A reader that has begun holds its own run's process; before that it holds none.
Handles ==
  \A r \in Runs : /\ run[r] # "lost"
                  /\ run[r] \in {"new", "spawning", "abandoned", "scheduled"} => handle[r] = NoRun
                  /\ run[r] \in {"reading", "reaping"} => handle[r] = r
                  /\ handle[r] \in {NoRun, r}

\* A command is under way only while its run has a reader or is done.
Commands ==
  \A r \in Runs : /\ run[r] \in {"new", "spawning", "abandoned"} => os[r] = "none"
                  /\ run[r] = "done" => os[r] # "running"

\* A cancel was aimed at a run with a reader.
Targets ==
  \A c \in Cancels : target[c] # NoRun => run[target[c]] \in Streaming \cup {"done"}

IInv == /\ TypeOK
        /\ Sole
        /\ ProcessIsStreaming
        /\ Handles
        /\ Commands
        /\ Targets
        /\ CancelIsHeard
        /\ Stays

-----------------------------------------------------------------------------
(* Type correctness.                                                       *)

\* Every step keeps the types, overlapping runs or not.
LEMMA TypeStep == TypeOK /\ [Next]_vars => TypeOK'
<1> SUFFICES ASSUME TypeOK, [Next]_vars PROVE TypeOK'
  OBVIOUS
<1> USE DEF Phases, Streaming, Signalled, Groups
<1>1. ASSUME NEW r \in Runs, Start(r) PROVE TypeOK'
  BY <1>1 DEF Start, Goes, TypeOK
<1>2. ASSUME NEW r \in Runs, ReaderBegins(r) PROVE TypeOK'
  BY <1>2 DEF ReaderBegins, Goes, TypeOK
<1>3. ASSUME NEW r \in Runs, StopsReading(r) PROVE TypeOK'
  BY <1>3 DEF StopsReading, Goes, TypeOK
<1>4. ASSUME NEW r \in Runs, ReapTimesOut(r) PROVE TypeOK'
  BY <1>4 DEF ReapTimesOut, TypeOK
<1>5. ASSUME NEW r \in Runs, Reap(r) PROVE TypeOK'
  BY <1>5 DEF Reap, Goes, TypeOK
<1>6. ASSUME NEW r \in Runs, CommandEnds(r) PROVE TypeOK'
  BY <1>6 DEF CommandEnds, TypeOK
<1>7. ASSUME NEW c \in Cancels, CancelBegins(c) PROVE TypeOK'
  BY <1>7 DEF CancelBegins, Struck, TypeOK
<1>8. ASSUME NEW c \in Cancels, CancelFindsNothing(c) \/ CancelReturns(c) PROVE TypeOK'
  BY <1>8 DEF CancelFindsNothing, CancelReturns, TypeOK
<1>9. ASSUME NEW c \in Cancels, Escalate(c) PROVE TypeOK'
  BY <1>9 DEF Escalate, Struck, TypeOK
<1>10. CASE UNCHANGED vars
  BY <1>10 DEF vars, TypeOK
<1>11. ASSUME NEW r \in Runs, Starter(r) PROVE TypeOK'
  <2>1. CASE Spawned(r)
    BY <2>1 DEF Spawned, Goes, TypeOK
  <2>2. CASE SpawnFails(r) \/ Abandon(r)
    BY <2>2 DEF SpawnFails, Abandon, Goes, TypeOK
  <2> QED BY <1>11, <2>1, <2>2 DEF Starter
<1> QED
  BY <1>1, <1>2, <1>3, <1>4, <1>5, <1>6, <1>7, <1>8, <1>9, <1>10, <1>11
     DEF Next, Reader, Canceller, SeesCancel, Eof, ReadFails

\* The variables keep their types, however the callers overlap and cancel.
THEOREM TypeCorrect == Spec => []TypeOK
<1>1. Init => TypeOK
  BY ZenonT(60) DEF Init, TypeOK, Phases, Groups, Signalled
<1> QED BY <1>1, TypeStep, PTL DEF Spec

-----------------------------------------------------------------------------
(* Whoever calls.                                                          *)

\* What the runner, a reader or a cancel holds has been spawned; no run is spawned
\* twice.
HeldIsSpawned ==
  /\ \A r \in Runs : run[r] \in {"new", "spawning"} => os[r] = "none"
  /\ process # NoRun => os[process] # "none"
  /\ \A r \in Runs : handle[r] # NoRun => os[handle[r]] # "none"
  /\ \A c \in Cancels : target[c] # NoRun => os[target[c]] # "none"

\* A cancel that has not begun holds nothing, nor does a run before its reader.
HoldsNothingYet ==
  /\ \A c \in Cancels : cancel[c] = "idle" => target[c] = NoRun
  /\ \A r \in Runs : run[r] \in {"new", "spawning"} => handle[r] = NoRun

WInv == TypeOK /\ HeldIsSpawned /\ HoldsNothingYet /\ WaitsForWhatItHolds

LEMMA WaitsStep == WInv /\ [Next]_vars => WInv'
<1> SUFFICES ASSUME WInv, [Next]_vars PROVE WInv'
  OBVIOUS
<1>0. TypeOK /\ TypeOK'
  BY TypeStep DEF WInv
<1> USE ConstantsAssumption DEF WInv, Signalled, Groups, Goes
\* Groups only move onwards, once spawned.
<1>1. ASSUME \A q \in Runs : /\ os[q] # "running" => os'[q] # "running"
                             /\ os[q] = "none" <=> os'[q] = "none",
             UNCHANGED <<run, process, handle, cancel, target>>
      PROVE  WInv'
  BY <1>0, <1>1 DEF TypeOK, HeldIsSpawned, HoldsNothingYet, WaitsForWhatItHolds
<1>2. ASSUME NEW r \in Runs, Start(r) \/ SpawnFails(r) \/ Abandon(r) PROVE WInv'
  BY <1>0, <1>2
     DEF Start, SpawnFails, Abandon, TypeOK, HeldIsSpawned, HoldsNothingYet, WaitsForWhatItHolds
<1>3. ASSUME NEW r \in Runs, Spawned(r) PROVE WInv'
  <2>1. os[r] = "none"
    BY <1>3 DEF Spawned, HeldIsSpawned
  <2> QED BY <1>0, <1>3, <2>1 DEF Spawned, TypeOK, HeldIsSpawned, HoldsNothingYet, WaitsForWhatItHolds
<1>4. ASSUME NEW r \in Runs, ReaderBegins(r) PROVE WInv'
  BY <1>0, <1>4 DEF ReaderBegins, TypeOK, HeldIsSpawned, HoldsNothingYet, WaitsForWhatItHolds
<1>5. ASSUME NEW r \in Runs, StopsReading(r) \/ Reap(r) PROVE WInv'
  BY <1>0, <1>5 DEF StopsReading, Reap, TypeOK, HeldIsSpawned, HoldsNothingYet, WaitsForWhatItHolds
<1>6. ASSUME NEW r \in Runs, ReapTimesOut(r) \/ CommandEnds(r) PROVE WInv'
  BY <1>0, <1>1, <1>6 DEF ReapTimesOut, CommandEnds, TypeOK
<1>7. ASSUME NEW c \in Cancels, CancelBegins(c) PROVE WInv'
  <2>1. \A q \in Runs : /\ os[q] # "running" => os'[q] # "running"
                        /\ os[q] = "none" <=> os'[q] = "none"
    BY <1>0, <1>7 DEF CancelBegins, Struck, TypeOK
  <2> QED BY <1>0, <1>7, <2>1
          DEF CancelBegins, TypeOK, HeldIsSpawned, HoldsNothingYet, WaitsForWhatItHolds
<1>8. ASSUME NEW c \in Cancels, Escalate(c) PROVE WInv'
  <2>1. \A q \in Runs : /\ os[q] # "running" => os'[q] # "running"
                        /\ os[q] = "none" <=> os'[q] = "none"
    BY <1>0, <1>8 DEF Escalate, Struck, TypeOK
  <2> QED BY <1>0, <1>8, <2>1 DEF Escalate, TypeOK, HeldIsSpawned, HoldsNothingYet, WaitsForWhatItHolds
<1>9. ASSUME NEW c \in Cancels, CancelFindsNothing(c) \/ CancelReturns(c) PROVE WInv'
  BY <1>0, <1>9 DEF CancelFindsNothing, CancelReturns, TypeOK, HeldIsSpawned, HoldsNothingYet,
                    WaitsForWhatItHolds
<1>10. CASE UNCHANGED vars
  BY <1>1, <1>10 DEF vars
<1> QED
  BY <1>2, <1>3, <1>4, <1>5, <1>6, <1>7, <1>8, <1>9, <1>10
     DEF Next, Starter, Reader, Canceller, SeesCancel, Eof, ReadFails

\* However runs overlap: no done event, and no cancel's return, before the leader of
\* the command it waited for has exited.
THEOREM NothingReturnsEarly == Spec => []WaitsForWhatItHolds
<1>1. Init => WInv
  <2>1. Init => TypeOK
    BY ZenonT(60) DEF Init, TypeOK, Phases, Groups, Signalled
  <2>2. Init => HeldIsSpawned /\ HoldsNothingYet /\ WaitsForWhatItHolds
    BY DEF Init, HeldIsSpawned, HoldsNothingYet, WaitsForWhatItHolds
  <2> QED BY <2>1, <2>2 DEF WInv
<1>2. WInv => WaitsForWhatItHolds
  BY DEF WInv
<1> QED BY <1>1, <1>2, WaitsStep, PTL DEF Spec

-----------------------------------------------------------------------------
(* One run at a time.                                                      *)

LEMMA InitInv == Init => IInv
<1> SUFFICES ASSUME Init PROVE IInv
  OBVIOUS
<1>1. TypeOK
  BY DEF Init, TypeOK, Phases, Groups, Signalled
<1>2. Sole /\ Handles /\ Commands /\ Targets /\ CancelIsHeard /\ Stays
  BY DEF Init, Sole, Handles, Commands, Targets, CancelIsHeard, ReadsToTheEnd, Stays, Signalled
<1>3. ProcessIsStreaming
  BY ConstantsAssumption DEF Init, ProcessIsStreaming, Streaming
<1> QED BY <1>1, <1>2, <1>3 DEF IInv

\* The signal of a cancel, like the end of a command, only moves a group onwards.
LEMMA OnlyOs ==
  ASSUME IInv, TypeOK',
         UNCHANGED <<run, current_run, process, cancelEvent, handle>>,
         \A r \in Runs : os[r] # "running" => os'[r] # "running",
         \A r \in Runs : os[r] = "none" => os'[r] = "none",
         \A c \in Cancels : cancel'[c] \in Signalled => cancel[c] \in Signalled,
         UNCHANGED target
  PROVE  IInv'
<1> USE DEF IInv
<1>1. Sole' /\ ProcessIsStreaming' /\ Handles' /\ Targets'
  BY DEF Sole, ProcessIsStreaming, Handles, Targets
<1>2. Commands'
  BY DEF Commands
<1>3. CancelIsHeard'
  BY DEF CancelIsHeard
<1>4. Stays'
  BY DEF ReadsToTheEnd, Stays, TypeOK
<1> QED BY <1>1, <1>2, <1>3, <1>4

LEMMA Step == Serial /\ IInv /\ [Next]_vars => IInv'
<1> SUFFICES ASSUME Serial, IInv, [Next]_vars PROVE IInv'
  OBVIOUS
<1>0. TypeOK /\ TypeOK'
  BY TypeStep DEF IInv
<1> USE ConstantsAssumption DEF Streaming, Signalled, Goes
<1>1. ASSUME NEW r \in Runs, Start(r) PROVE IInv'
  <2>1. /\ \A q \in Runs : run[q] \in {"new", "done"}
        /\ run'[r] = "spawning"
        /\ \A q \in Runs \ {r} : run'[q] = run[q]
    BY <1>0, <1>1 DEF Start, Serial, TypeOK
  <2>2. Sole' /\ ProcessIsStreaming' /\ Handles' /\ Commands'
    BY <1>0, <1>1, <2>1 DEF Start, IInv, Sole, ProcessIsStreaming, Handles, Commands, TypeOK
  <2>3. Targets' /\ CancelIsHeard'
    BY <1>0, <1>1, <2>1 DEF Start, IInv, Targets, CancelIsHeard, TypeOK
  <2>4. Stays'
    BY <1>0, <1>1, <2>1 DEF Start, IInv, ReadsToTheEnd, Stays, TypeOK
  <2> QED BY <1>0, <2>2, <2>3, <2>4 DEF IInv
<1>2. ASSUME NEW r \in Runs, Spawned(r) PROVE IInv'
  <2>1. /\ run[r] = "spawning" /\ run'[r] = "scheduled"
        /\ \A q \in Runs \ {r} : run'[q] = run[q] /\ run[q] \in {"new", "done"}
    BY <1>0, <1>2 DEF Spawned, IInv, Sole, TypeOK
  <2>2. Sole' /\ ProcessIsStreaming' /\ Handles' /\ Commands'
    BY <1>0, <1>2, <2>1 DEF Spawned, IInv, Sole, ProcessIsStreaming, Handles, Commands, TypeOK
  <2>3. Targets' /\ CancelIsHeard'
    BY <1>0, <1>2, <2>1 DEF Spawned, IInv, Targets, CancelIsHeard, TypeOK
  <2>4. Stays'
    BY <1>0, <1>2, <2>1 DEF Spawned, IInv, ReadsToTheEnd, Stays, TypeOK
  <2> QED BY <1>0, <2>2, <2>3, <2>4 DEF IInv
<1>3. ASSUME NEW r \in Runs, SpawnFails(r) \/ Abandon(r) PROVE IInv'
  <2>1. /\ run[r] = "spawning" /\ run'[r] \in {"done", "abandoned"}
        /\ \A q \in Runs \ {r} : run'[q] = run[q]
    BY <1>0, <1>3 DEF SpawnFails, Abandon, TypeOK
  <2>2. Sole' /\ ProcessIsStreaming' /\ Handles' /\ Commands'
    BY <1>0, <1>3, <2>1
       DEF SpawnFails, Abandon, IInv, Sole, ProcessIsStreaming, Handles, Commands, TypeOK
  <2>3. Targets' /\ CancelIsHeard'
    BY <1>0, <1>3, <2>1 DEF SpawnFails, Abandon, IInv, Targets, CancelIsHeard, TypeOK
  <2>4. Stays'
    BY <1>0, <1>3, <2>1 DEF SpawnFails, Abandon, IInv, ReadsToTheEnd, Stays, TypeOK
  <2> QED BY <1>0, <2>2, <2>3, <2>4 DEF IInv
<1>4. ASSUME NEW r \in Runs, ReaderBegins(r) PROVE IInv'
  <2>1. process = r
    BY <1>4 DEF ReaderBegins, IInv, ProcessIsStreaming
  <2>2. /\ run[r] = "scheduled"
        /\ run'[r] = IF cancelEvent THEN "reaping" ELSE "reading"
        /\ handle'[r] = r
        /\ \A q \in Runs \ {r} : run'[q] = run[q] /\ handle'[q] = handle[q]
    BY <1>0, <1>4, <2>1 DEF ReaderBegins, TypeOK
  <2>3. Sole' /\ ProcessIsStreaming' /\ Handles' /\ Commands'
    BY <1>0, <1>4, <2>2 DEF ReaderBegins, IInv, Sole, ProcessIsStreaming, Handles, Commands, TypeOK
  <2>4. Targets' /\ CancelIsHeard'
    BY <1>0, <1>4, <2>2 DEF ReaderBegins, IInv, Targets, CancelIsHeard, TypeOK
  <2>5. Stays'
    BY <1>0, <1>4, <2>2 DEF ReaderBegins, IInv, ReadsToTheEnd, Stays, TypeOK
  <2> QED BY <1>0, <2>3, <2>4, <2>5 DEF IInv
<1>5. ASSUME NEW r \in Runs, SeesCancel(r) \/ Eof(r) \/ ReadFails(r) PROVE IInv'
  <2>1. /\ run[r] = "reading" /\ run'[r] = "reaping"
        /\ \A q \in Runs \ {r} : run'[q] = run[q]
        /\ UNCHANGED <<current_run, process, cancelEvent, handle, os, cancel, target>>
    BY <1>0, <1>5 DEF SeesCancel, Eof, ReadFails, StopsReading, TypeOK
  <2>2. handle[r] = r /\ \A q \in Runs \ {r} : run[q] \in {"new", "done"}
    BY <2>1 DEF IInv, Handles, Sole
  <2>3. Unreadable = {} => cancelEvent \/ os[r] = "gone"
    BY <1>5, <2>2 DEF SeesCancel, Eof, ReadFails
  <2>4. Sole' /\ ProcessIsStreaming' /\ Handles' /\ Commands'
    BY <1>0, <2>1 DEF IInv, Sole, ProcessIsStreaming, Handles, Commands, TypeOK
  <2>5. Targets' /\ CancelIsHeard'
    BY <1>0, <2>1 DEF IInv, Targets, CancelIsHeard, TypeOK
  <2>6. Stays'
    BY <1>0, <2>1, <2>2, <2>3 DEF IInv, ReadsToTheEnd, Stays, TypeOK
  <2> QED BY <1>0, <2>4, <2>5, <2>6 DEF IInv
<1>6. ASSUME NEW r \in Runs, Reap(r) PROVE IInv'
  <2>1. /\ run[r] = "reaping" /\ run'[r] = "done"
        /\ \A q \in Runs \ {r} : run'[q] = run[q] /\ run[q] \in {"new", "done"}
        /\ handle[r] = r
    BY <1>0, <1>6 DEF Reap, IInv, Sole, Handles, TypeOK
  <2>2. Sole' /\ ProcessIsStreaming' /\ Handles' /\ Commands'
    BY <1>0, <1>6, <2>1 DEF Reap, IInv, Sole, ProcessIsStreaming, Handles, Commands, TypeOK
  <2>3. Targets' /\ CancelIsHeard'
    BY <1>0, <1>6, <2>1 DEF Reap, IInv, Targets, CancelIsHeard, TypeOK
  <2>4. Stays'
    BY <1>0, <1>6, <2>1 DEF Reap, IInv, ReadsToTheEnd, Stays, TypeOK
  <2> QED BY <1>0, <2>2, <2>3, <2>4 DEF IInv
<1>7. ASSUME NEW r \in Runs, ReapTimesOut(r) \/ CommandEnds(r) PROVE IInv'
  <2>1. /\ \A q \in Runs : os[q] # "running" => os'[q] # "running"
        /\ \A q \in Runs : os[q] = "none" => os'[q] = "none"
    BY <1>0, <1>7 DEF ReapTimesOut, CommandEnds, TypeOK
  <2> QED BY <1>0, <1>7, <2>1, OnlyOs DEF ReapTimesOut, CommandEnds
<1>8. ASSUME NEW c \in Cancels, CancelBegins(c) PROVE IInv'
  <2>1. /\ process \in Runs /\ run[process] \in {"scheduled", "reading", "reaping"}
        /\ cancelEvent'
        /\ target'[c] = process
        /\ \A d \in Cancels \ {c} : target'[d] = target[d]
        /\ \A q \in Runs : os[q] # "running" => os'[q] = os[q]
    BY <1>0, <1>8 DEF CancelBegins, Struck, IInv, ProcessIsStreaming, TypeOK
  <2>2. Sole' /\ ProcessIsStreaming' /\ Handles' /\ Commands'
    BY <1>8, <2>1 DEF CancelBegins, IInv, Sole, ProcessIsStreaming, Handles, Commands
  <2>3. Targets'
    BY <1>8, <2>1 DEF CancelBegins, IInv, Targets
  <2>4. CancelIsHeard' /\ Stays'
    BY <2>1 DEF CancelIsHeard, ReadsToTheEnd, Stays
  <2> QED BY <1>0, <2>2, <2>3, <2>4 DEF IInv
<1>9. ASSUME NEW c \in Cancels, CancelFindsNothing(c) \/ Canceller(c) PROVE IInv'
  <2>1. /\ \A q \in Runs : os[q] # "running" => os'[q] # "running"
        /\ \A q \in Runs : os[q] = "none" => os'[q] = "none"
    BY <1>0, <1>9 DEF CancelFindsNothing, Canceller, Escalate, Struck, CancelReturns, TypeOK
  <2>2. \A d \in Cancels : cancel'[d] \in Signalled => cancel[d] \in Signalled
    BY <1>0, <1>9 DEF CancelFindsNothing, Canceller, Escalate, CancelReturns, TypeOK
  <2> QED
    BY <1>0, <1>9, <2>1, <2>2, OnlyOs DEF CancelFindsNothing, Canceller, Escalate, CancelReturns
<1>10. CASE UNCHANGED vars
  BY <1>0, <1>10, OnlyOs DEF vars
<1> QED
  BY <1>1, <1>2, <1>3, <1>4, <1>5, <1>6, <1>7, <1>8, <1>9, <1>10 DEF Next, Starter, Reader

\* With serial callers the inductive invariant holds in every reachable state.
THEOREM Invariance == ASSUME Serial PROVE Spec => []IInv
BY InitInv, Step, PTL DEF Spec

\* With serial callers every reader reads its own run's command, and no reader
\* finds the process gone.
THEOREM ReadersKeepTheirOwn == ASSUME Serial PROVE Spec => []OwnProcess
<1>1. IInv => OwnProcess
  BY DEF IInv, Handles, OwnProcess
<1> QED BY <1>1, Invariance, PTL

\* With serial callers the done event means that the command has exited, which is
\* what the cockpit's claim release waits for.
THEOREM DoneAfterExit == ASSUME Serial PROVE Spec => []DoneMeansExited
<1>1. IInv => DoneMeansExited
  BY DEF IInv, Commands, DoneMeansExited
<1> QED BY <1>1, Invariance, PTL

\* With serial callers no start clears a cancel before its reader has seen it.
THEOREM CancelsAreHeard == ASSUME Serial PROVE Spec => []CancelIsHeard
<1>1. IInv => CancelIsHeard
  BY DEF IInv
<1> QED BY <1>1, Invariance, PTL

\* With serial callers and readable lines only a cancel makes a reader leave a running command.
THEOREM ReadersStay == ASSUME Serial, Unreadable = {} PROVE Spec => []ReadsToTheEnd
<1>1. IInv => ReadsToTheEnd
  BY DEF IInv, Stays
<1> QED BY <1>1, Invariance, PTL

\* With serial callers a cancel that finds nothing to do has nothing to do.
THEOREM CancelsFindTheirRun == ASSUME Serial PROVE Spec => NoIdleCancel
<1> DEFINE A == \A c \in Cancels : cancel[c] = "idle" /\ cancel'[c] = "over"
                   => \A r \in Runs : run[r] \in Streaming => os[r] # "running"
<1>1. IInv /\ [Next]_vars => [A]_vars
  <2> SUFFICES ASSUME IInv, Next, NEW c \in Cancels, cancel[c] = "idle", cancel'[c] = "over",
                      NEW r \in Runs, run[r] \in Streaming
               PROVE  FALSE
    OBVIOUS
  <2>0. TypeOK
    BY DEF IInv
  <2>1. process = NoRun
    BY <2>0 DEF Next, Start, Starter, Spawned, SpawnFails, Abandon, Reader, ReaderBegins, SeesCancel,
                Eof, ReadFails, StopsReading, ReapTimesOut, Reap, CommandEnds, CancelBegins,
                CancelFindsNothing, Canceller, Escalate, CancelReturns, TypeOK, Signalled
  <2> QED BY <2>1, ConstantsAssumption DEF IInv, ProcessIsStreaming
<1> QED BY <1>1, Invariance, PTL DEF Spec, NoIdleCancel
=============================================================================
