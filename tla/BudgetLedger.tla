------------------------------ MODULE BudgetLedger ------------------------------
(***************************************************************************)
(* The closed loop of the thinking budget: the router in the engine        *)
(* appends a score and a finish line per request to its boot's meta file   *)
(* (fixes/pn119_router.py: _publish, on_finish, _sink_append, _sink_flush, *)
(* _sink_close), and a pass of the ledger updater, every minute, reads     *)
(* what is new there, pairs the lines and credits each pair once           *)
(* (fixes/pn162_ledger_update.py: read_sink_since, run_pass).              *)
(*                                                                         *)
(* The engine's thread appends to a buffer in memory that a flusher thread *)
(* writes out, or the engine itself at the hard cap and when it closes.    *)
(* A reader may see a line without its end, and go on to the rest of it in *)
(* the same pass.  A byte offset is the number of whole lines before it;   *)
(* what a credit does to the buckets is left out, and so are rows that are *)
(* classified away.                                                        *)
(***************************************************************************)
EXTENDS Naturals, Sequences, FiniteSetsExt

CONSTANTS
  Requests,       \* the engine's requests
  Updaters,       \* the processes that run passes
  NoLine,         \* a file does not end in the middle of a line
  MaxBoots,       \* a bound: how often the engine is started
  BufMax,         \* PN119_SINK_BUF_MAX
  Crashes,        \* the engine may be killed, and its writes may fail
  Torn,           \* a file may be read while it ends in the middle of a line
  DiesAt          \* where a pass may be killed

Boots == 1..MaxBoots

ASSUME ConstantsAssumption ==
  /\ MaxBoots \in Nat \ {0} /\ BufMax \in Nat \ {0}
  /\ {Crashes, Torn} \subseteq BOOLEAN
  /\ DiesAt \subseteq {"read", "credited"}

VARIABLES
  req,      \* where each request is
  boot,     \* the engine's boot
  engine,   \* what its thread does
  sink,     \* _sink_meta is open
  rows,     \* _sink_rows
  buf,      \* _sbuf_meta
  fbuf,     \* _sbuf_feat: a feature row is the request it was computed for
  out,      \* the lines _sink_flush has taken and not yet written
  fout,     \* the feature rows it has taken
  flush,    \* where the _sink_flush under _sink_io_lock is, and who runs it
  feats,    \* the feats file of each boot
  meta,     \* the whole lines of the meta file of each boot
  tail,     \* the line it ends in the middle of
  given_up, \* the requests whose score line is past one of the orphan bounds
  credits,  \* the ledger: how often each request has been credited
  cursor,   \* the cursor file
  pass,     \* each updater's pass: what it has read and will write
  lost      \* history: lines that a pass read in two pieces and left behind its cursor

writer == <<req, boot, engine, sink, rows, buf, fbuf, out, fout, flush, feats>>
files == <<meta, tail>>
reader == <<credits, cursor, pass, lost>>
vars == <<writer, files, given_up, reader>>

Line == [req : Requests, kind : {"score", "finish"}, row : Nat]

\* A pass: the files it has not come to the end of, the line of the first of them
\* that it has the beginning of (0: none), and the lines that it has in two pieces.
Passes ==
  [at : {"idle", "reading", "read", "credited"}, credits : [Requests -> Nat],
   rows : SUBSET Requests, offsets : [Boots -> Nat],
   unread : SUBSET Boots, half : Nat, torn : SUBSET (Boots \X Nat)]

NoPass ==
  [at |-> "idle", credits |-> [r \in Requests |-> 0], rows |-> {}, offsets |-> [b \in Boots |-> 0],
   unread |-> {}, half |-> 0, torn |-> {}]

\* Every variable has its type; out is what a writer holds under the io lock, and
\* backpressure keeps the buffer within its hard cap (pn119_router.py: _sink_append).
TypeOK ==
  /\ req \in [Requests -> {"new", "scored", "finished", "lost"}]
  /\ boot \in Boots
  /\ engine \in {"free", "flushing", "closing", "closed", "dead"}
  /\ sink \in BOOLEAN
  /\ rows \in Nat
  /\ buf \in Seq(Line) /\ Len(buf) <= BufMax
  /\ out \in Seq(Line) /\ (out = <<>> <=> flush.at = "none")
  /\ fbuf \in Seq(Requests) /\ fout \in Seq(Requests)
  /\ flush \in [at : {"none", "feats", "lines"}, by : {"engine", "flusher"}]
  /\ feats \in [Boots -> Seq(Requests)]
  /\ meta \in [Boots -> Seq(Line)]
  /\ tail \in [Boots -> [line : Line, bare : BOOLEAN] \cup {NoLine}]
  /\ given_up \subseteq Requests
  /\ credits \in [Requests -> Nat]
  /\ cursor \in [Boots -> Nat]
  /\ pass \in [Updaters -> Passes]
  /\ lost \subseteq Boots \X Nat

Init ==
  /\ req = [r \in Requests |-> "new"]
  /\ boot = 1 /\ engine = "free" /\ sink = TRUE /\ rows = 0
  /\ buf = <<>> /\ fbuf = <<>> /\ out = <<>> /\ fout = <<>>
  /\ flush = [at |-> "none", by |-> "flusher"]
  /\ feats = [b \in Boots |-> <<>>]
  /\ meta = [b \in Boots |-> <<>>]
  /\ tail = [b \in Boots |-> NoLine]
  /\ given_up = {}
  /\ credits = [r \in Requests |-> 0]
  /\ cursor = [b \in Boots |-> 0]
  /\ pass = [u \in Updaters |-> NoPass]
  /\ lost = {}

----------------------------------------------------------------------------
(* The engine's thread.                                                    *)

\* _sink_append: at the hard cap this request waits for the disk.
Appends(feat, line) ==
  /\ engine = "free" /\ sink
  /\ fbuf' = fbuf \o feat
  /\ buf' = Append(buf, line)
  /\ engine' = IF Len(buf) + 1 >= BufMax THEN "flushing" ELSE "free"
  /\ UNCHANGED <<boot, sink, out, fout, flush, feats, files, given_up, reader>>

\* _publish: the line names the feature row that goes with it.
Score(r) ==
  /\ req[r] = "new"
  /\ Appends(<<r>>, [req |-> r, kind |-> "score", row |-> rows])
  /\ rows' = rows + 1
  /\ req' = [req EXCEPT ![r] = "scored"]

\* on_finish.
Finish(r) ==
  /\ req[r] = "scored"
  /\ Appends(<<>>, [req |-> r, kind |-> "finish", row |-> 0])
  /\ req' = [req EXCEPT ![r] = "finished"]
  /\ UNCHANGED rows

\* _sink_close, when the interpreter exits.
Close ==
  /\ engine = "free"
  /\ engine' = "closing"
  /\ UNCHANGED <<req, boot, sink, rows, buf, fbuf, out, fout, flush, feats, files, given_up, reader>>

\* Killed: what is not on the disk is gone, and a line may stay torn.
Crash ==
  /\ Crashes
  /\ engine \notin {"closed", "dead"}
  /\ engine' = "dead" /\ sink' = FALSE
  /\ buf' = <<>> /\ fbuf' = <<>> /\ out' = <<>> /\ fout' = <<>>
  /\ flush' = [flush EXCEPT !.at = "none"]
  /\ UNCHANGED <<req, boot, rows, feats, files, given_up, reader>>

\* The engine is started again, with files of its own and none of its requests.
Restart ==
  /\ engine \in {"closed", "dead"} /\ boot < MaxBoots
  /\ boot' = boot + 1 /\ engine' = "free" /\ sink' = TRUE /\ rows' = 0
  /\ req' = [r \in Requests |-> IF req[r] = "scored" THEN "lost" ELSE req[r]]
  /\ UNCHANGED <<buf, fbuf, out, fout, flush, feats, files, given_up, reader>>

----------------------------------------------------------------------------
(* _sink_flush.                                                            *)

\* The snapshot is taken inside the io lock; the flusher wakes up when it likes.
BeginFlush(who) ==
  /\ flush.at = "none" /\ buf # <<>>
  /\ who = "engine" => engine \in {"flushing", "closing"}
  /\ who = "flusher" => engine \notin {"closed", "dead"}
  /\ out' = IF sink THEN buf ELSE <<>>
  /\ fout' = IF sink THEN fbuf ELSE <<>>
  /\ buf' = <<>> /\ fbuf' = <<>>
  /\ flush' = [at |-> IF sink THEN "feats" ELSE "none", by |-> who]
  /\ UNCHANGED <<req, boot, engine, sink, rows, feats, files, given_up, reader>>

FlushReturns_Unlocked ==
  /\ buf = <<>>
  /\ engine \in {"flushing", "closing"}
  /\ engine' = IF engine = "flushing" THEN "free" ELSE "closed"
  /\ UNCHANGED <<req, boot, sink, rows, buf, fbuf, out, fout, flush, feats, files, given_up, reader>>

\* The engine finds nothing left to write, once nobody else is writing.
FlushReturns ==
  /\ flush.at = "none" /\ buf = <<>>
  /\ engine \in {"flushing", "closing"}
  /\ engine' = IF engine = "flushing" THEN "free" ELSE "closed"
  /\ UNCHANGED <<req, boot, sink, rows, buf, fbuf, out, fout, flush, feats, files, given_up, reader>>

\* Feature rows first.
WriteFeats ==
  /\ flush.at = "feats"
  /\ feats' = [feats EXCEPT ![boot] = @ \o fout]
  /\ fout' = <<>>
  /\ flush' = [flush EXCEPT !.at = "lines"]
  /\ UNCHANGED <<req, boot, engine, sink, rows, buf, fbuf, out, files, given_up, reader>>

\* The beginning of a line is on the disk before the rest of it.
WritePart ==
  /\ Torn
  /\ flush.at = "lines" /\ out # <<>> /\ tail[boot] = NoLine
  /\ \E bare \in BOOLEAN :
       tail' = [tail EXCEPT ![boot] = [line |-> Head(out), bare |-> bare]]
  /\ UNCHANGED <<writer, meta, given_up, reader>>

WriteLine ==
  /\ flush.at = "lines" /\ out # <<>>
  /\ meta' = [meta EXCEPT ![boot] = Append(@, Head(out))]
  /\ tail' = [tail EXCEPT ![boot] = NoLine]
  /\ out' = Tail(out)
  /\ flush' = IF Len(out) = 1 THEN [flush EXCEPT !.at = "none"] ELSE flush
  /\ UNCHANGED <<req, boot, engine, sink, rows, buf, fbuf, fout, feats, given_up, reader>>

WriteFails_GoesOn ==
  /\ Crashes
  /\ flush.at \in {"feats", "lines"}
  /\ flush' = [flush EXCEPT !.at = "lines"]
  /\ UNCHANGED <<req, boot, engine, sink, rows, buf, fbuf, out, fout, feats, files, given_up, reader>>

\* Any failure disables the sink; what was taken is dropped.
WriteFails ==
  /\ Crashes
  /\ flush.at \in {"feats", "lines"}
  /\ flush' = [flush EXCEPT !.at = "none"]
  /\ out' = <<>> /\ fout' = <<>>
  /\ sink' = FALSE
  /\ UNCHANGED <<req, boot, engine, rows, buf, fbuf, feats, files, given_up, reader>>

----------------------------------------------------------------------------
(* read_sink_since: what a pass makes of one file, from the offset on, but *)
(* for the lines it has in two pieces.                                     *)

OnDisk(b, i, r, kind) == meta[b][i].req = r /\ meta[b][i].kind = kind

Parsed(b, start, torn) == {i \in (start + 1)..Len(meta[b]) : <<b, i>> \notin torn}

\* A tail that is all there but for its newline is parsed as well.
Finishes(b, start, torn) ==
  {r \in Requests :
     \/ \E i \in Parsed(b, start, torn) : OnDisk(b, i, r, "finish")
     \/ tail[b] # NoLine /\ tail[b].bare /\ tail[b].line.req = r /\ tail[b].line.kind = "finish"}

Pins_Forever(b, start, torn) ==
  {i \in Parsed(b, start, torn) :
     meta[b][i].kind = "score" /\ meta[b][i].req \notin Finishes(b, start, torn)}

\* The score lines without a finish that have not been given up.
Pins(b, start, torn) ==
  {i \in Parsed(b, start, torn) :
     meta[b][i].kind = "score" /\ meta[b][i].req \notin Finishes(b, start, torn) \cup given_up}

CompleteEnd_LastPair(b, start, torn) ==
  Max({start} \cup
      {j \in Parsed(b, start, torn) :
         \E i \in Parsed(b, start, torn), r \in Requests :
           i < j /\ OnDisk(b, i, r, "score") /\ OnDisk(b, j, r, "finish")})

CompleteEnd(b, start, torn) ==
  IF Pins(b, start, torn) = {} THEN Len(meta[b]) ELSE Min(Pins(b, start, torn)) - 1

Pairs_AnywhereNew(b, start, torn) ==
  {r \in Requests :
     \E i, j \in Parsed(b, start, torn) : OnDisk(b, i, r, "score") /\ OnDisk(b, j, r, "finish")}

\* Only pairs that lie behind the first of them are emitted.
Pairs(b, start, torn) ==
  {r \in Requests :
     \E i, j \in Parsed(b, start, torn) :
       /\ OnDisk(b, i, r, "score") /\ OnDisk(b, j, r, "finish")
       /\ i <= CompleteEnd(b, start, torn) /\ j <= CompleteEnd(b, start, torn)}

----------------------------------------------------------------------------
(* run_pass.                                                               *)

\* The ledger and the cursor are read, and the files that there are are listed.
BeginPass(u) ==
  /\ pass[u].at = "idle"
  /\ pass' = [pass EXCEPT ![u] =
                [NoPass EXCEPT !.at = "reading", !.credits = credits, !.offsets = cursor,
                               !.unread = 1..boot]]
  /\ UNCHANGED <<writer, files, given_up, credits, cursor, lost>>

\* The oldest file first.
Reads(u, b) ==
  /\ pass[u].at = "reading"
  /\ b \in pass[u].unread /\ \A d \in pass[u].unread : b <= d

\* If the line whose beginning was read has its end by now, that is read as a line
\* of its own.  Neither piece parses.
InPieces(u, b) ==
  pass[u].torn \cup {<<b, i>> : i \in {pass[u].half} \cap 1..Len(meta[b])}

\* A file that is being appended to is read line by line, and the loop goes on
\* behind a tail.  One that lacks no more than its newline leaves a blank line.
ReadTail(u) ==
  \E b \in Boots :
    /\ Reads(u, b)
    /\ tail[b] # NoLine /\ ~tail[b].bare
    /\ pass[u].half # Len(meta[b]) + 1
    /\ pass' = [pass EXCEPT ![u] =
                  [@ EXCEPT !.torn = InPieces(u, b), !.half = Len(meta[b]) + 1]]
    /\ UNCHANGED <<writer, files, given_up, credits, cursor, lost>>

\* The end of a file: what has been read of it is paired.  What lies beyond the new
\* offset will be read again.
ReadFile(u) ==
  \E b \in Boots :
    /\ Reads(u, b)
    /\ LET start == pass[u].offsets[b]
           torn == InPieces(u, b)
           end == CompleteEnd(b, start, torn)
       IN  pass' = [pass EXCEPT ![u] =
             [at |-> IF pass[u].unread = {b} THEN "read" ELSE "reading",
              credits |-> pass[u].credits,
              rows |-> pass[u].rows \cup Pairs(b, start, torn),
              offsets |-> [pass[u].offsets EXCEPT ![b] = end],
              unread |-> pass[u].unread \ {b}, half |-> 0,
              torn |-> {line \in torn : line[1] = b => line[2] <= end}]]
    /\ UNCHANGED <<writer, files, given_up, credits, cursor, lost>>

\* The ledger is replaced first ...
WriteLedger(u) ==
  /\ pass[u].at = "read"
  /\ credits' = [r \in Requests |->
                   pass[u].credits[r] + (IF r \in pass[u].rows THEN 1 ELSE 0)]
  /\ pass' = [pass EXCEPT ![u].at = "credited"]
  /\ UNCHANGED <<writer, files, given_up, cursor, lost>>

\* ... and the cursor after it.
WriteCursor(u) ==
  /\ pass[u].at = "credited"
  /\ cursor' = pass[u].offsets
  /\ lost' = lost \cup pass[u].torn
  /\ pass' = [pass EXCEPT ![u] = NoPass]
  /\ UNCHANGED <<writer, files, given_up, credits>>

\* A pass that dies while it reads is like one that dies when it has read.
PassDies(u) ==
  /\ pass[u].at \in DiesAt
  /\ pass' = [pass EXCEPT ![u] = NoPass]
  /\ UNCHANGED <<writer, files, given_up, credits, cursor, lost>>

\* _orphaned: enough bytes behind the line, a later time in the file, or a file
\* that has not grown for long.
Ages(r) ==
  /\ r \notin given_up
  /\ \E b \in Boots : \E i \in 1..Len(meta[b]) : OnDisk(b, i, r, "score")
  /\ given_up' = given_up \cup {r}
  /\ UNCHANGED <<writer, files, reader>>

----------------------------------------------------------------------------
Writes == WriteFeats \/ WritePart \/ WriteLine \/ WriteFails

Pass(u) == BeginPass(u) \/ ReadTail(u) \/ ReadFile(u) \/ WriteLedger(u) \/ WriteCursor(u)

Next ==
  \/ \E r \in Requests : Score(r) \/ Finish(r) \/ Ages(r)
  \/ Close \/ Restart \/ Crash
  \/ \E who \in {"engine", "flusher"} : BeginFlush(who)
  \/ FlushReturns \/ Writes
  \/ \E u \in Updaters : Pass(u) \/ PassDies(u)

Spec == Init /\ [][Next]_vars

\* The timer starts pass after pass and not every one of them is killed, and
\* time passes; nothing is assumed of the engine.
FairSpec ==
  /\ Spec
  /\ \A u \in Updaters :
       /\ WF_vars(BeginPass(u)) /\ WF_vars(ReadFile(u))
       /\ SF_vars(WriteLedger(u)) /\ SF_vars(WriteCursor(u))
  /\ \A r \in Requests : WF_vars(Ages(r))

----------------------------------------------------------------------------
(* Properties.                                                             *)

\* No pair is counted twice, whatever was in flight when a pass ended ("re-reading
\* can never double-credit a row", read_sink_since): the cursor and the pairs that
\* are emitted agree.
CreditedOnce == \A r \in Requests : credits[r] <= 1

IsScore(line) == line.kind = "score"

\* The cursor leaves no score line behind whose finish may still come, unless the
\* line was given up or read in two pieces (read_sink_since, BUG-169).
PinHolds ==
  \A b \in Boots : \A i \in 1..cursor[b] :
    IsScore(meta[b][i]) =>
      \/ meta[b][i].req \in given_up \cup Finishes(b, 0, {})
      \/ <<b, i>> \in lost

\* The row a score line names is on the disk already and is that request's own,
\* through concurrent flushers, failed writes and crashes (_sink_flush).
RowsAligned ==
  \A b \in Boots : \A i \in 1..Len(meta[b]) :
    IsScore(meta[b][i]) =>
      /\ meta[b][i].row < Len(feats[b])
      /\ feats[b][meta[b][i].row + 1] = meta[b][i].req

\* "A clean shutdown loses NOTHING" (_sink_close): unless the sink was disabled,
\* every score and finish of the boot is in its file.
CleanLosesNothing ==
  engine = "closed" /\ sink =>
    LET scores == {i \in 1..Len(meta[boot]) : IsScore(meta[boot][i])}
    IN  /\ Cardinality(scores) = rows
        /\ \A i \in scores :
             req[meta[boot][i].req] = "finished" =>
               \E j \in i..Len(meta[boot]) : OnDisk(boot, j, meta[boot][i].req, "finish")

\* A score line whose finish never comes does not pin the cursor for ever, and
\* neither does a killed pass: the updater catches up with every boot's file again
\* and again (_orphaned, run_pass).
CatchesUp == \A b \in Boots : []<>(cursor[b] = Len(meta[b]))

----------------------------------------------------------------------------
(* What the repository says, and the code does not keep.                   *)

\* "A torn tail must stay UNCONSUMED -- the next append concatenates onto it, and a
\* cursor past it would lose both rows" (read_sink_since).
TornStaysUnconsumed == lost = {}

\* The docstring of read_sink_since: "A request in flight at a pass boundary is
\* therefore DELAYED to the next pass, never skipped."  A pair the cursor has
\* passed has been credited, unless its score line was given up.
NeverSkipped ==
  \A b \in Boots : \A i, j \in 1..cursor[b] : \A r \in Requests \ given_up :
    OnDisk(b, i, r, "score") /\ OnDisk(b, j, r, "finish") => credits[r] >= 1
=============================================================================
