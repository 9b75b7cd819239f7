------------------------- MODULE BudgetLedger_proofs -------------------------
(***************************************************************************)
(* The ledger for any number of requests and boots.                        *)
(*                                                                         *)
(* The types and the room in the buffer need nothing, and neither do the   *)
(* two promises of the sink: a score line names its own feature row, which *)
(* is on the disk before it, and a clean shutdown loses nothing.  Nor does *)
(* it need anything that the cursor leaves no open score line behind but   *)
(* those that were read in two pieces.  That no pair is credited twice     *)
(* needs one updater that is not killed between its two writes.  Both the  *)
(* last and the shutdown rest on the uniqueness of a request's score line  *)
(* on its way from the buffer to the file.                                 *)
(***************************************************************************)
EXTENDS BudgetLedger, FiniteSetTheorems, SequenceTheorems, TLAPS

\* The engine goes on, or is started again, only with room for another line.
Room == engine \in {"free", "closed", "dead"} => Len(buf) < BufMax

TInv == TypeOK /\ Room

\* No offset points beyond its file.
Bounded == \A b \in Boots : /\ cursor[b] <= Len(meta[b])
                            /\ \A u \in Updaters : pass[u].offsets[b] <= Len(meta[b])

\* A request has one score line at most, in the buffer, on its way or in one file.
Has(s, r) == \E i \in 1..Len(s) : IsScore(s[i]) /\ s[i].req = r
Single(s) ==
  \A i, j \in 1..Len(s) : IsScore(s[i]) /\ IsScore(s[j]) /\ s[i].req = s[j].req => i = j

Unique ==
  /\ Single(buf) /\ Single(out) /\ \A b \in Boots : Single(meta[b])
  /\ \A r \in Requests :
       /\ req[r] = "new" => ~ Has(buf, r) /\ ~ Has(out, r) /\ \A b \in Boots : ~ Has(meta[b], r)
       /\ Has(buf, r) => ~ Has(out, r) /\ \A b \in Boots : ~ Has(meta[b], r)
       /\ Has(out, r) => \A b \in Boots : ~ Has(meta[b], r)
       /\ \A b, d \in Boots : Has(meta[b], r) /\ Has(meta[d], r) => b = d

BInv == TInv /\ Bounded /\ Unique

\* The row a score line names holds that request's features in f.
Aligned(lines, f) ==
  \A i \in 1..Len(lines) :
    IsScore(lines[i]) => lines[i].row < Len(f) /\ f[lines[i].row + 1] = lines[i].req

\* The feature rows of the boot that are on the disk once the running flush has
\* written its own, and with those that are still buffered.
Taken == feats[boot] \o fout
Queued == Taken \o fbuf

AInv ==
  /\ \A b \in Boots : Aligned(meta[b], feats[b])
  /\ Aligned(out, Taken)
  /\ sink => Aligned(buf, Queued) /\ Len(Queued) = rows
  /\ ~ sink => out = <<>>
  /\ flush.at # "feats" => fout = <<>>
  /\ buf = <<>> => fbuf = <<>>
  /\ engine \in {"closed", "dead"} => buf = <<>> /\ out = <<>>
  /\ \A b \in Boots : b > boot => feats[b] = <<>> /\ meta[b] = <<>>

\* While the sink is open, every row of the boot has its score line somewhere, and
\* a finished request's finish line is somewhere behind its score line.
Names(lines, n) == \E i \in 1..Len(lines) : IsScore(lines[i]) /\ lines[i].row = n
FinishAt(lines, i, r) == i \in 1..Len(lines) /\ lines[i].kind = "finish" /\ lines[i].req = r
Ends(lines, r) == \E i \in 1..Len(lines) : FinishAt(lines, i, r)
EndsHere(lines, i, r) == \E j \in i..Len(lines) : FinishAt(lines, j, r)

ScoreAt(lines, i, r) == IsScore(lines[i]) /\ lines[i].req = r

RowsNamed == \A n \in 0..(rows - 1) : Names(meta[boot], n) \/ Names(out, n) \/ Names(buf, n)

Followed(r) ==
  /\ \A i \in 1..Len(buf) : ScoreAt(buf, i, r) => EndsHere(buf, i, r)
  /\ \A i \in 1..Len(out) : ScoreAt(out, i, r) => EndsHere(out, i, r) \/ Ends(buf, r)
  /\ \A i \in 1..Len(meta[boot]) :
       ScoreAt(meta[boot], i, r) => EndsHere(meta[boot], i, r) \/ Ends(out, r) \/ Ends(buf, r)

LInv == sink => RowsNamed /\ \A r \in Requests : req[r] = "finished" => Followed(r)

\* A score line that is given up, or whose finish has come, if only its newline is
\* yet to.
SettledLine(b, i) == IsScore(meta[b][i]) => meta[b][i].req \in given_up \cup Finishes(b, 0, {})

\* No pin is behind the cursor or behind what will be it, but for torn lines.
Settled(off, torn) == \A b \in Boots : \A i \in 1..off[b] : SettledLine(b, i) \/ <<b, i>> \in torn

\* A file that is still written to ends with the beginning of the line that comes
\* next there.
TailIsNext ==
  /\ tail[boot] # NoLine => IF out = <<>> THEN ~ sink ELSE tail[boot].line = Head(out)
  /\ \A b \in Boots : b > boot => tail[b] = NoLine

PInv == /\ TailIsNext
        /\ ~ sink => out = <<>>
        /\ Settled(cursor, lost)
        /\ \A u \in Updaters : Settled(pass[u].offsets, lost \cup pass[u].torn)

\* One updater, which is not killed between its two writes.
Careful == (\A u, v \in Updaters : u = v) /\ DiesAt \subseteq {"read"}

\* A request that has been credited has its score line behind the cursor, or
\* behind what the pass that has just credited it will write there.
Behind(r, off) == \E b \in Boots : \E i \in 1..off[b] : OnDisk(b, i, r, "score")

CInv ==
  /\ CreditedOnce
  /\ (\A u \in Updaters : pass[u].at # "credited") =>
       \A r \in Requests : credits[r] >= 1 => Behind(r, cursor)
  /\ \A u \in Updaters :
       /\ pass[u].at \in {"reading", "read"} =>
            /\ pass[u].credits = credits
            /\ \A b \in Boots : cursor[b] <= pass[u].offsets[b]
            /\ \A b \in pass[u].unread : cursor[b] = pass[u].offsets[b]
            /\ \A r \in pass[u].rows : Behind(r, pass[u].offsets) /\ ~ Behind(r, cursor)
       /\ pass[u].at = "credited" =>
            \A r \in Requests : credits[r] >= 1 => Behind(r, pass[u].offsets)

\* A set of natural numbers has a least one: inclusion of the intervals up to its
\* members is well founded.
LEMMA LeastNatural ==
  ASSUME NEW S, S \subseteq Nat, S # {}
  PROVE  \E n \in S : \A m \in S : n <= m
<1> DEFINE T == {1..n : n \in S}
           R == StrictSubsetOrdering(Nat)
<1>1. IsWellFoundedOn(R, FiniteSubsetsOf(Nat))
  BY FS_StrictSubsetOrderingWellFounded
<1>2. T \subseteq FiniteSubsetsOf(Nat)
  <2>1. \A n \in Nat : 1..n \subseteq Nat /\ IsFiniteSet(1..n)
    BY FS_Interval
  <2> QED BY <2>1 DEF FiniteSubsetsOf
<1>3. T # {}
  OBVIOUS
<1>4. \A n, m \in Nat : m < n => <<1..m, 1..n>> \in R
  <2> TAKE n, m \in Nat
  <2> HAVE m < n
  <2>1. 1..m \subseteq 1..n /\ n \in 1..n /\ n \notin 1..m
    OBVIOUS
  <2>2. 1..m \in SUBSET Nat /\ 1..n \in SUBSET Nat
    OBVIOUS
  <2> QED BY <2>1, <2>2 DEF StrictSubsetOrdering
<1> HIDE DEF R
<1>5. \E X \in T : \A Y \in T : ~ (<<Y, X>> \in R)
  <2> HIDE DEF T
  <2> QED BY <1>1, <1>2, <1>3, WFMin, Zenon
<1>6. PICK n \in S : \A m \in S : ~ (<<1..m, 1..n>> \in R)
  BY <1>5
<1>7. n \in Nat /\ \A m \in S : m \in Nat /\ ~ (m < n)
  BY <1>4, <1>6
<1>8. \A m \in S : n <= m
  BY <1>7
<1> QED BY <1>8

-----------------------------------------------------------------------------
(* What a pass makes of a file.                                            *)

\* The new cursor is not before the old one nor beyond the file, and no pin is
\* behind it.
LEMMA CompleteEndFacts ==
  ASSUME TypeOK, NEW b \in Boots, NEW start \in Nat, start <= Len(meta[b]), NEW torn
  PROVE  /\ CompleteEnd(b, start, torn) \in Nat
         /\ start <= CompleteEnd(b, start, torn) /\ CompleteEnd(b, start, torn) <= Len(meta[b])
         /\ \A i \in (start + 1)..CompleteEnd(b, start, torn) : i \notin Pins(b, start, torn)
<1>0. meta[b] \in Seq(Line) /\ Len(meta[b]) \in Nat
  BY DEF TypeOK
<1>1. Pins(b, start, torn) \subseteq (start + 1)..Len(meta[b])
  BY DEF Pins, Parsed
<1>2. CASE Pins(b, start, torn) = {}
  BY <1>0, <1>2 DEF CompleteEnd
<1>3. CASE Pins(b, start, torn) # {}
  <2>1. Pins(b, start, torn) \subseteq Nat
    BY <1>0, <1>1
  <2>2. \E n \in Pins(b, start, torn) : \A m \in Pins(b, start, torn) : n <= m
    BY <1>3, <2>1, LeastNatural
  <2>3. /\ Min(Pins(b, start, torn)) \in Pins(b, start, torn)
        /\ \A m \in Pins(b, start, torn) : Min(Pins(b, start, torn)) <= m
    BY <2>2 DEF Min
  <2>4. CompleteEnd(b, start, torn) = Min(Pins(b, start, torn)) - 1
    BY <1>3 DEF CompleteEnd
  <2> DEFINE least == Min(Pins(b, start, torn))
  <2>5. least \in (start + 1)..Len(meta[b]) /\ least \in Nat
    BY <1>1, <2>1, <2>3
  <2> HIDE DEF least
  <2>6. CompleteEnd(b, start, torn) = least - 1
    BY <2>4 DEF least
  <2>7. \A m \in Pins(b, start, torn) : least <= m
    BY <2>3 DEF least
  <2> QED BY <1>0, <2>5, <2>6, <2>7
<1> QED BY <1>2, <1>3

-----------------------------------------------------------------------------
(* Types, and the room in the buffer.                                      *)

LEMMA TypeInit == Init => TInv
BY ConstantsAssumption DEF Init, TInv, TypeOK, Room, NoPass, Passes, Boots, Line

LEMMA TypeAppends ==
  ASSUME TInv, NEW feat \in Seq(Requests), NEW line \in Line, Appends(feat, line), rows' \in Nat,
         req' \in [Requests -> {"new", "scored", "finished", "lost"}]
  PROVE  TInv'
<1>1. /\ Append(buf, line) \in Seq(Line)
      /\ Len(Append(buf, line)) = Len(buf) + 1
      /\ Len(buf) \in Nat
  BY AppendProperties DEF TInv, TypeOK
<1>2. Len(buf) + 1 <= BufMax
  BY <1>1, ConstantsAssumption DEF TInv, Room, Appends
<1>3. /\ buf' \in Seq(Line) /\ Len(buf') <= BufMax
      /\ engine' \in {"free", "flushing"}
      /\ engine' = "free" => Len(buf') < BufMax
  BY <1>1, <1>2, ConstantsAssumption DEF Appends
<1>4. fbuf' \in Seq(Requests)
  BY ConcatProperties DEF Appends, TInv, TypeOK
<1> QED BY <1>3, <1>4 DEF Appends, files, reader, TInv, TypeOK, Room

LEMMA TypeEngine ==
  ASSUME TInv, Close \/ Crash \/ Restart \/ FlushReturns
  PROVE  TInv'
<1> USE ConstantsAssumption DEF TInv, TypeOK, Room, files, reader, Boots
<1>1. CASE Close
  BY <1>1 DEF Close
<1>2. CASE Crash
  <2>1. flush' \in [at : {"none", "feats", "lines"}, by : {"engine", "flusher"}] /\ flush'.at = "none"
    BY <1>2 DEF Crash
  <2>2. <<>> \in Seq(Line) /\ Len(<<>>) = 0
    OBVIOUS
  <2>3. /\ buf' \in Seq(Line) /\ Len(buf') <= BufMax /\ Len(buf') < BufMax
        /\ out' \in Seq(Line) /\ (out' = <<>> <=> flush'.at = "none")
        /\ fbuf' \in Seq(Requests) /\ fout' \in Seq(Requests)
    BY <1>2, <2>1, <2>2 DEF Crash
  <2> QED BY <1>2, <2>1, <2>3 DEF Crash
<1>3. CASE Restart
  <2>1. boot' \in Boots /\ Len(buf) < BufMax
    BY <1>3 DEF Restart
  <2>2. req' \in [Requests -> {"new", "scored", "finished", "lost"}]
    BY <1>3 DEF Restart
  <2>3. UNCHANGED <<buf, fbuf, out, fout, flush, feats, meta, tail, given_up, credits, cursor, pass, lost>>
    BY <1>3 DEF Restart
  <2>4. engine' = "free" /\ sink' = TRUE /\ rows' = 0
    BY <1>3 DEF Restart
  <2> QED BY <2>1, <2>2, <2>3, <2>4
<1>4. CASE FlushReturns
  <2>1. Len(buf) < BufMax /\ engine' \in {"free", "closed"}
    BY <1>4 DEF FlushReturns
  <2>2. UNCHANGED <<req, boot, sink, rows, buf, fbuf, out, fout, flush, feats, meta, tail,
                    given_up, credits, cursor, pass, lost>>
    BY <1>4 DEF FlushReturns
  <2> QED BY <2>1, <2>2
<1> QED BY <1>1, <1>2, <1>3, <1>4

LEMMA TypeWrites ==
  ASSUME TInv, Writes \/ \E who \in {"engine", "flusher"} : BeginFlush(who)
  PROVE  TInv'
<1> USE DEF TInv, TypeOK, Room, files, reader, writer
<1>1. ASSUME NEW who \in {"engine", "flusher"}, BeginFlush(who) PROVE TInv'
  BY <1>1, ConstantsAssumption DEF BeginFlush
<1>2. CASE WriteFeats
  <2>1. feats[boot] \o fout \in Seq(Requests)
    BY ConcatProperties
  <2>2. feats' \in [Boots -> Seq(Requests)] /\ fout' \in Seq(Requests)
    BY <1>2, <2>1 DEF WriteFeats
  <2> QED BY <1>2, <2>2 DEF WriteFeats
<1>3. CASE WriteFails
  <2>1. flush' \in [at : {"none", "feats", "lines"}, by : {"engine", "flusher"}] /\ flush'.at = "none"
    BY <1>3 DEF WriteFails
  <2>2. out' \in Seq(Line) /\ out' = <<>> /\ fout' \in Seq(Requests)
    BY <1>3 DEF WriteFails
  <2> QED BY <1>3, <2>1, <2>2 DEF WriteFails
<1>4. CASE WritePart
  <2>1. Head(out) \in Line
    BY <1>4, HeadTailProperties DEF WritePart
  <2>2. PICK bare \in BOOLEAN : tail' = [tail EXCEPT ![boot] = [line |-> Head(out), bare |-> bare]]
    BY <1>4 DEF WritePart
  <2>3. [line |-> Head(out), bare |-> bare] \in [line : Line, bare : BOOLEAN]
    BY <2>1
  <2>4. tail' \in [Boots -> [line : Line, bare : BOOLEAN] \cup {NoLine}]
    BY <2>2, <2>3
  <2> QED BY <1>4, <2>4 DEF WritePart
<1>5. CASE WriteLine
  <2>1. /\ Head(out) \in Line
        /\ Tail(out) \in Seq(Line)
        /\ Len(Tail(out)) = Len(out) - 1
    BY <1>5, HeadTailProperties DEF WriteLine
  <2>2. Tail(out) = <<>> <=> Len(out) = 1
    <3>1. Len(out) \in Nat /\ Tail(out) \in Seq(Line) /\ Len(Tail(out)) = Len(out) - 1
      BY <2>1
    <3>2. Tail(out) = <<>> <=> Len(Tail(out)) = 0
      BY <2>1, EmptySeq, Zenon
    <3> QED BY <3>1, <3>2, SMTT(30)
  <2>3. meta' \in [Boots -> Seq(Line)]
    BY <1>5, <2>1, AppendProperties DEF WriteLine
  <2>4. tail' \in [Boots -> [line : Line, bare : BOOLEAN] \cup {NoLine}]
    BY <1>5 DEF WriteLine
  <2>5. out' \in Seq(Line) /\ (out' = <<>> <=> flush'.at = "none")
    BY <1>5, <2>1, <2>2 DEF WriteLine
  <2> QED BY <1>5, <2>3, <2>4, <2>5 DEF WriteLine
<1> QED BY <1>1, <1>2, <1>3, <1>4, <1>5 DEF Writes

\* What the steps of a pass leave alone, and what the two that read change.
LEMMA PassKeeps ==
  ASSUME NEW u \in Updaters, Pass(u) \/ PassDies(u)
  PROVE  UNCHANGED <<writer, files, given_up>>
<1>1. CASE BeginPass(u)
  BY <1>1 DEF BeginPass
<1>2. CASE ReadTail(u)
  BY <1>2 DEF ReadTail
<1>3. CASE ReadFile(u)
  BY <1>3 DEF ReadFile
<1>4. CASE WriteLedger(u) \/ WriteCursor(u) \/ PassDies(u)
  BY <1>4 DEF WriteLedger, WriteCursor, PassDies
<1> QED BY <1>1, <1>2, <1>3, <1>4 DEF Pass

LEMMA Credited == \A p \in Passes : [p EXCEPT !.at = "credited"] \in Passes
BY DEF Passes

LEMMA TailRead ==
  ASSUME pass \in [Updaters -> Passes], NEW u \in Updaters, ReadTail(u)
  PROVE  \E b \in Boots :
           /\ Reads(u, b)
           /\ pass'[u] = [pass[u] EXCEPT !.torn = InPieces(u, b), !.half = Len(meta[b]) + 1]
           /\ pass' = [pass EXCEPT ![u] = pass'[u]]
           /\ UNCHANGED <<credits, cursor, lost>>
<1>1. PICK b \in Boots :
        /\ Reads(u, b)
        /\ pass' = [pass EXCEPT ![u] = [@ EXCEPT !.torn = InPieces(u, b), !.half = Len(meta[b]) + 1]]
        /\ UNCHANGED <<credits, cursor, lost>>
  BY DEF ReadTail
<1> QED BY <1>1

LEMMA FileRead ==
  ASSUME pass \in [Updaters -> Passes], NEW u \in Updaters, ReadFile(u)
  PROVE  \E b \in Boots :
           LET start == pass[u].offsets[b]
               torn == InPieces(u, b)
               end == CompleteEnd(b, start, torn)
           IN  /\ Reads(u, b)
               /\ pass'[u].at \in {"reading", "read"} /\ pass'[u].credits = pass[u].credits
               /\ pass'[u].rows = pass[u].rows \cup Pairs(b, start, torn)
               /\ pass'[u].offsets = [pass[u].offsets EXCEPT ![b] = end]
               /\ pass'[u].unread = pass[u].unread \ {b} /\ pass'[u].half = 0
               /\ pass'[u].torn = {line \in torn : line[1] = b => line[2] <= end}
               /\ pass'[u] = [at |-> pass'[u].at, credits |-> pass'[u].credits, rows |-> pass'[u].rows,
                              offsets |-> pass'[u].offsets, unread |-> pass'[u].unread,
                              half |-> pass'[u].half, torn |-> pass'[u].torn]
               /\ pass' = [pass EXCEPT ![u] = pass'[u]]
               /\ UNCHANGED <<credits, cursor, lost>>
<1>1. PICK b \in Boots :
        LET start == pass[u].offsets[b]
            torn == InPieces(u, b)
            end == CompleteEnd(b, start, torn)
        IN  /\ Reads(u, b)
            /\ pass' = [pass EXCEPT ![u] =
                 [at |-> IF pass[u].unread = {b} THEN "read" ELSE "reading",
                  credits |-> pass[u].credits,
                  rows |-> pass[u].rows \cup Pairs(b, start, torn),
                  offsets |-> [pass[u].offsets EXCEPT ![b] = end],
                  unread |-> pass[u].unread \ {b}, half |-> 0,
                  torn |-> {line \in torn : line[1] = b => line[2] <= end}]]
            /\ UNCHANGED <<credits, cursor, lost>>
  BY DEF ReadFile
<1> DEFINE torn == InPieces(u, b)
           end == CompleteEnd(b, pass[u].offsets[b], torn)
           new == Pairs(b, pass[u].offsets[b], torn)
           kept == {line \in torn : line[1] = b => line[2] <= end}
           at == IF pass[u].unread = {b} THEN "read" ELSE "reading"
<1>2. /\ Reads(u, b) /\ UNCHANGED <<credits, cursor, lost>>
      /\ pass' = [pass EXCEPT ![u] =
           [at |-> at, credits |-> pass[u].credits, rows |-> pass[u].rows \cup new,
            offsets |-> [pass[u].offsets EXCEPT ![b] = end], unread |-> pass[u].unread \ {b},
            half |-> 0, torn |-> kept]]
  BY <1>1
<1>3. at \in {"reading", "read"}
  OBVIOUS
<1> HIDE DEF at, kept, new, end, torn
<1>4. /\ pass'[u] = [at |-> at, credits |-> pass[u].credits, rows |-> pass[u].rows \cup new,
                     offsets |-> [pass[u].offsets EXCEPT ![b] = end], unread |-> pass[u].unread \ {b},
                     half |-> 0, torn |-> kept]
      /\ pass' = [pass EXCEPT ![u] = pass'[u]]
  BY <1>2
<1>5. /\ pass'[u].at \in {"reading", "read"} /\ pass'[u].credits = pass[u].credits
      /\ pass'[u].rows = pass[u].rows \cup new
      /\ pass'[u].offsets = [pass[u].offsets EXCEPT ![b] = end]
      /\ pass'[u].unread = pass[u].unread \ {b} /\ pass'[u].half = 0
      /\ pass'[u].torn = kept
      /\ pass'[u] = [at |-> pass'[u].at, credits |-> pass'[u].credits, rows |-> pass'[u].rows,
                     offsets |-> pass'[u].offsets, unread |-> pass'[u].unread,
                     half |-> pass'[u].half, torn |-> pass'[u].torn]
  BY <1>3, <1>4
<1> QED BY <1>2, <1>4, <1>5 DEF at, kept, new, end, torn

\* A pass reads a file from the offset it has for it.
LEMMA TypePass ==
  ASSUME TInv, NEW u \in Updaters, Pass(u) \/ PassDies(u),
         \A b \in Boots : pass[u].offsets[b] <= Len(meta[b])
  PROVE  TInv'
<1> USE DEF TInv, TypeOK, Room, files, writer
<1>0. NoPass \in Passes /\ boot \in Boots
  BY DEF NoPass, Passes
<1>1. CASE BeginPass(u)
  <2>1. 1..boot \subseteq Boots
    BY <1>0, ConstantsAssumption DEF Boots
  <2>2. [NoPass EXCEPT !.at = "reading", !.credits = credits, !.offsets = cursor, !.unread = 1..boot]
          \in Passes
    BY <1>0, <2>1 DEF Passes
  <2> QED BY <1>1, <2>2 DEF BeginPass
<1>2. CASE ReadTail(u)
  <2>1. PICK b \in Boots :
          /\ pass'[u] = [pass[u] EXCEPT !.torn = InPieces(u, b), !.half = Len(meta[b]) + 1]
          /\ pass' = [pass EXCEPT ![u] = pass'[u]]
    BY <1>2, TailRead
  <2>2. InPieces(u, b) \in SUBSET (Boots \X Nat)
    BY DEF InPieces, Passes
  <2>3. meta[b] \in Seq(Line) /\ Len(meta[b]) + 1 \in Nat
    OBVIOUS
  <2>4. pass'[u] \in Passes
    BY <2>1, <2>2, <2>3, ZenonT(60) DEF Passes
  <2>5. pass' = [pass EXCEPT ![u] = pass'[u]]
    BY <2>1
  <2>6. UNCHANGED <<writer, files, given_up, credits, cursor, lost>>
    BY <1>2 DEF ReadTail
  <2> QED BY <2>4, <2>5, <2>6
<1>3. CASE ReadFile(u)
  <2>1. PICK b \in Boots :
          LET start == pass[u].offsets[b]
              torn == InPieces(u, b)
              end == CompleteEnd(b, start, torn)
          IN  /\ pass'[u].at \in {"reading", "read"} /\ pass'[u].credits = pass[u].credits
              /\ pass'[u].rows = pass[u].rows \cup Pairs(b, start, torn)
              /\ pass'[u].offsets = [pass[u].offsets EXCEPT ![b] = end]
              /\ pass'[u].unread = pass[u].unread \ {b} /\ pass'[u].half = 0
              /\ pass'[u].torn = {line \in torn : line[1] = b => line[2] <= end}
              /\ pass'[u] = [at |-> pass'[u].at, credits |-> pass'[u].credits, rows |-> pass'[u].rows,
                             offsets |-> pass'[u].offsets, unread |-> pass'[u].unread,
                             half |-> pass'[u].half, torn |-> pass'[u].torn]
              /\ pass' = [pass EXCEPT ![u] = pass'[u]]
    BY <1>3, FileRead
  <2> DEFINE start == pass[u].offsets[b]
             torn == InPieces(u, b)
             end == CompleteEnd(b, start, torn)
  <2>2. start \in Nat /\ start <= Len(meta[b])
    BY DEF Passes
  <2>3. end \in Nat
    BY <2>2, CompleteEndFacts
  <2>4. pass'[u].torn \in SUBSET (Boots \X Nat)
    BY <2>1 DEF InPieces, Passes
  <2>5. pass'[u].rows \in SUBSET Requests
    BY <2>1 DEF Pairs, Passes
  <2>6. pass'[u].offsets \in [Boots -> Nat]
    <3>1. pass'[u].offsets = [pass[u].offsets EXCEPT ![b] = end]
      BY <2>1
    <3> HIDE DEF end
    <3> QED BY <2>3, <3>1 DEF Passes
  <2>7. /\ pass'[u].at \in {"reading", "read"} /\ pass'[u].credits = pass[u].credits
        /\ pass'[u].unread = pass[u].unread \ {b} /\ pass'[u].half = 0
        /\ pass'[u] = [at |-> pass'[u].at, credits |-> pass'[u].credits, rows |-> pass'[u].rows,
                       offsets |-> pass'[u].offsets, unread |-> pass'[u].unread,
                       half |-> pass'[u].half, torn |-> pass'[u].torn]
        /\ pass' = [pass EXCEPT ![u] = pass'[u]]
    BY <2>1
  <2>8. pass'[u].credits \in [Requests -> Nat] /\ pass'[u].unread \in SUBSET Boots
    BY <2>7 DEF Passes
  <2>9. pass'[u] \in Passes
    <3> DEFINE q == pass'[u]
    <3>1. /\ q.at \in {"idle", "reading", "read", "credited"} /\ q.half \in Nat
          /\ q.credits \in [Requests -> Nat] /\ q.rows \in SUBSET Requests
          /\ q.offsets \in [Boots -> Nat] /\ q.unread \in SUBSET Boots
          /\ q.torn \in SUBSET (Boots \X Nat)
          /\ q = [at |-> q.at, credits |-> q.credits, rows |-> q.rows, offsets |-> q.offsets,
                  unread |-> q.unread, half |-> q.half, torn |-> q.torn]
      BY <2>4, <2>5, <2>6, <2>7, <2>8
    <3> HIDE DEF q
    <3>2. q \in Passes
      BY <3>1 DEF Passes
    <3> QED BY <3>2 DEF q
  <2> QED BY <1>3, <2>7, <2>9, SMTT(30) DEF ReadFile
<1>4. CASE WriteLedger(u)
  <2>0. pass[u].credits \in [Requests -> Nat]
    BY DEF Passes
  <2>1. credits' \in [Requests -> Nat]
    BY <1>4, <2>0 DEF WriteLedger
  <2>2. [pass[u] EXCEPT !.at = "credited"] \in Passes
    BY Credited
  <2>3. pass' \in [Updaters -> Passes]
    BY <1>4, <2>2 DEF WriteLedger
  <2> QED BY <1>4, <2>1, <2>3 DEF WriteLedger
<1>5. CASE WriteCursor(u)
  <2>1. pass[u].offsets \in [Boots -> Nat] /\ pass[u].torn \subseteq Boots \X Nat
    BY DEF Passes
  <2> QED BY <1>0, <1>5, <2>1 DEF WriteCursor
<1>6. CASE PassDies(u)
  BY <1>0, <1>6 DEF PassDies
<1> QED BY <1>1, <1>2, <1>3, <1>4, <1>5, <1>6 DEF Pass

LEMMA TypeStep == TInv /\ Bounded /\ [Next]_vars => TInv'
<1> SUFFICES ASSUME TInv, Bounded, [Next]_vars PROVE TInv'
  OBVIOUS
<1>1. ASSUME NEW r \in Requests, Score(r) \/ Finish(r) PROVE TInv'
  <2>0. req \in [Requests -> {"new", "scored", "finished", "lost"}] /\ rows \in Nat
    BY DEF TInv, TypeOK
  <2>1. req' \in [Requests -> {"new", "scored", "finished", "lost"}] /\ rows' \in Nat
    <3>1. CASE Score(r)
      BY <2>0, <3>1 DEF Score
    <3>2. CASE Finish(r)
      BY <2>0, <3>2 DEF Finish
    <3> QED BY <1>1, <3>1, <3>2
  <2>2. CASE Score(r)
    <3>1. <<r>> \in Seq(Requests) /\ [req |-> r, kind |-> "score", row |-> rows] \in Line
      BY <2>0 DEF Line
    <3> QED BY <2>1, <2>2, <3>1, TypeAppends DEF Score
  <2>3. CASE Finish(r)
    <3>1. <<>> \in Seq(Requests) /\ [req |-> r, kind |-> "finish", row |-> 0] \in Line
      BY DEF Line
    <3> QED BY <2>1, <2>3, <3>1, TypeAppends DEF Finish
  <2> QED BY <1>1, <2>2, <2>3
<1>2. ASSUME NEW r \in Requests, Ages(r) PROVE TInv'
  BY <1>2 DEF Ages, writer, files, reader, TInv, TypeOK, Room
<1>3. CASE UNCHANGED vars
  BY <1>3 DEF vars, writer, files, reader, TInv, TypeOK, Room
<1>4. ASSUME NEW u \in Updaters, Pass(u) \/ PassDies(u) PROVE TInv'
  BY <1>4, TypePass DEF Bounded
<1> QED BY <1>1, <1>2, <1>3, <1>4, TypeEngine, TypeWrites DEF Next

-----------------------------------------------------------------------------
(* Files only grow.                                                        *)

LEMMA OnlyWriteLine == [Next]_vars => WriteLine \/ UNCHANGED meta
BY DEF Next, vars, files, Score, Finish, Appends, Ages, Close, Restart, Crash, BeginFlush, FlushReturns,
       Writes, WriteFeats, WritePart, WriteFails, Pass, BeginPass, ReadTail, ReadFile, WriteLedger,
       WriteCursor, PassDies

LEMMA MetaGrows ==
  ASSUME TInv, [Next]_vars, NEW b \in Boots
  PROVE  /\ Len(meta[b]) \in Nat /\ Len(meta'[b]) \in Nat
         /\ Len(meta[b]) <= Len(meta'[b])
         /\ \A i \in 1..Len(meta[b]) : meta'[b][i] = meta[b][i]
<1>0. meta[b] \in Seq(Line) /\ Len(meta[b]) \in Nat
  BY DEF TInv, TypeOK
<1>1. CASE UNCHANGED meta
  BY <1>0, <1>1
<1>2. CASE WriteLine
  <2>1. Head(out) \in Line
    BY <1>2, HeadTailProperties DEF WriteLine, TInv, TypeOK
  <2>2. meta'[b] = IF b = boot THEN Append(meta[b], Head(out)) ELSE meta[b]
    BY <1>2 DEF WriteLine, TInv, TypeOK
  <2>3. /\ Len(Append(meta[b], Head(out))) = Len(meta[b]) + 1
        /\ \A i \in 1..Len(meta[b]) : Append(meta[b], Head(out))[i] = meta[b][i]
    BY <1>0, <2>1, AppendProperties
  <2> QED BY <1>0, <2>2, <2>3
<1> QED BY <1>1, <1>2, OnlyWriteLine

LEMMA OnlyPass ==
  [Next]_vars => \/ UNCHANGED <<credits, cursor, pass, lost>>
                 \/ \E u \in Updaters : Pass(u) \/ PassDies(u)
BY DEF Next, vars, reader, Score, Finish, Appends, Ages, Close, Restart, Crash, BeginFlush, FlushReturns,
       Writes, WriteFeats, WritePart, WriteLine, WriteFails

LEMMA BoundedStep == BInv /\ [Next]_vars => Bounded'
<1> SUFFICES ASSUME BInv, [Next]_vars, NEW b \in Boots
             PROVE  /\ cursor'[b] <= Len(meta'[b])
                    /\ \A u \in Updaters : pass'[u].offsets[b] <= Len(meta'[b])
  BY DEF Bounded
<1>0. TInv /\ TInv' /\ Bounded
  BY TypeStep DEF BInv
<1>1. /\ Len(meta[b]) \in Nat /\ Len(meta'[b]) \in Nat
      /\ Len(meta[b]) <= Len(meta'[b])
  BY <1>0, MetaGrows
<1>2. /\ cursor[b] \in Nat /\ cursor[b] <= Len(meta[b])
      /\ \A u \in Updaters : pass[u].offsets[b] \in Nat /\ pass[u].offsets[b] <= Len(meta[b])
  <2>1. cursor[b] \in Nat /\ \A u \in Updaters : pass[u].offsets[b] \in Nat
    BY <1>0 DEF TInv, TypeOK, Passes
  <2> QED BY <1>0, <2>1 DEF Bounded
<1>3. CASE UNCHANGED <<credits, cursor, pass, lost>>
  BY <1>1, <1>2, <1>3
<1>4. ASSUME NEW u \in Updaters, Pass(u) \/ PassDies(u)
      PROVE  /\ cursor'[b] <= Len(meta[b])
             /\ pass'[u].offsets[b] <= Len(meta[b])
             /\ \A v \in Updaters \ {u} : pass'[v] = pass[v]
             /\ UNCHANGED meta
  <2>0. pass \in [Updaters -> Passes]
    BY <1>0 DEF TInv, TypeOK
  <2>1. CASE BeginPass(u)
    BY <1>2, <2>0, <2>1 DEF BeginPass, files, NoPass, Passes
  <2>2. CASE ReadTail(u)
    BY <1>2, <2>0, <2>2 DEF ReadTail, files, Passes
  <2>3. CASE ReadFile(u)
    <3>1. PICK d \in Boots :
            pass'[u].offsets = [pass[u].offsets EXCEPT ![d] =
                                  CompleteEnd(d, pass[u].offsets[d], InPieces(u, d))]
      BY <2>0, <2>3, FileRead
    <3>2. pass[u].offsets \in [Boots -> Nat] /\ pass[u].offsets[d] <= Len(meta[d])
      BY <1>0, <2>0 DEF Bounded, Passes
    <3>3. CompleteEnd(d, pass[u].offsets[d], InPieces(u, d)) <= Len(meta[d])
      BY <1>0, <3>2, CompleteEndFacts DEF TInv
    <3>4. pass'[u].offsets[b] <= Len(meta[b])
      BY <1>2, <3>1, <3>2, <3>3
    <3> QED BY <1>2, <2>0, <2>3, <3>4 DEF ReadFile, files
  <2>4. CASE WriteLedger(u)
    BY <1>2, <2>0, <2>4 DEF WriteLedger, files, Passes
  <2>5. CASE WriteCursor(u)
    BY <1>2, <2>0, <2>5 DEF WriteCursor, files, NoPass
  <2>6. CASE PassDies(u)
    BY <1>2, <2>0, <2>6 DEF PassDies, files, NoPass
  <2> QED BY <1>4, <2>1, <2>2, <2>3, <2>4, <2>5, <2>6 DEF Pass
<1>5. ASSUME NEW u \in Updaters, Pass(u) \/ PassDies(u)
      PROVE  /\ cursor'[b] <= Len(meta'[b])
             /\ \A v \in Updaters : pass'[v].offsets[b] <= Len(meta'[b])
  <2>1. ASSUME NEW v \in Updaters PROVE pass'[v].offsets[b] <= Len(meta[b])
    <3>1. CASE v = u
      BY <1>4, <1>5, <3>1
    <3>2. CASE v # u
      BY <1>2, <1>4, <1>5, <3>2
    <3> QED BY <3>1, <3>2
  <2> QED BY <1>4, <1>5, <2>1
<1> QED BY <1>3, <1>5, OnlyPass

-----------------------------------------------------------------------------
(* A request has one score line.                                           *)

LEMMA HasEmpty == \A r : ~ Has(<<>>, r)
BY DEF Has

LEMMA AppendFacts ==
  ASSUME NEW s \in Seq(Line), NEW line \in Line
  PROVE  /\ \A r \in Requests : Has(Append(s, line), r) <=> Has(s, r) \/ (IsScore(line) /\ line.req = r)
         /\ Single(s) /\ (IsScore(line) => ~ Has(s, line.req)) => Single(Append(s, line))
<1> DEFINE t == Append(s, line)
<1>1. /\ Len(s) \in Nat /\ Len(t) = Len(s) + 1
      /\ \A i \in 1..Len(s) : t[i] = s[i]
      /\ t[Len(s) + 1] = line
  BY AppendProperties
<1> HIDE DEF t
<1>2. \A i \in 1..Len(t) : i \in 1..Len(s) \/ i = Len(s) + 1
  BY <1>1
<1>3. 1..Len(s) \subseteq 1..Len(t) /\ Len(s) + 1 \in 1..Len(t)
  BY <1>1
<1>4. \A r \in Requests : Has(t, r) <=> Has(s, r) \/ (IsScore(line) /\ line.req = r)
  BY <1>1, <1>2, <1>3 DEF Has
<1>5. Single(s) /\ (IsScore(line) => ~ Has(s, line.req)) => Single(t)
  BY <1>1, <1>2 DEF Single, Has
<1> QED BY <1>4, <1>5 DEF t

LEMMA TailFacts ==
  ASSUME NEW s \in Seq(Line), s # <<>>
  PROVE  /\ \A r \in Requests : Has(Tail(s), r) => Has(s, r)
         /\ IsScore(Head(s)) => Has(s, Head(s).req)
         /\ Single(s) => /\ Single(Tail(s))
                         /\ IsScore(Head(s)) => ~ Has(Tail(s), Head(s).req)
<1> DEFINE t == Tail(s)
<1>1. /\ Len(s) \in Nat /\ Len(s) # 0 /\ Len(t) = Len(s) - 1
      /\ \A i \in 1..Len(t) : t[i] = s[i + 1]
      /\ Head(s) = s[1]
  BY HeadTailProperties, EmptySeq
<1> HIDE DEF t
<1>2. 1 \in 1..Len(s) /\ \A i \in 1..Len(t) : i + 1 \in 1..Len(s) /\ i + 1 # 1
  BY <1>1
<1>3. \A i, j \in 1..Len(t) : i + 1 = j + 1 => i = j
  BY <1>1
<1>4. \A r \in Requests : Has(t, r) => Has(s, r)
  BY <1>1, <1>2 DEF Has
<1>5. IsScore(Head(s)) => Has(s, Head(s).req)
  BY <1>1, <1>2 DEF Has
<1>6. Single(s) => Single(t)
  BY <1>1, <1>2, <1>3 DEF Single
<1>7. Single(s) /\ IsScore(Head(s)) => ~ Has(t, Head(s).req)
  BY <1>1, <1>2 DEF Single, Has
<1> QED BY <1>4, <1>5, <1>6, <1>7 DEF t

\* Lines that are lost, and requests that go on, leave the others unique.
LEMMA UniqueSame ==
  ASSUME Unique, UNCHANGED meta,
         buf' \in {buf, <<>>}, out' \in {out, <<>>},
         \A r \in Requests : req'[r] = "new" => req[r] = "new"
  PROVE  Unique'
<1>1. Single(<<>>)
  BY DEF Single
<1>2. Single(buf') /\ Single(out')
  BY <1>1 DEF Unique
<1>3. \A r \in Requests : (Has(buf', r) => Has(buf, r)) /\ (Has(out', r) => Has(out, r))
  BY HasEmpty
<1> QED BY <1>2, <1>3 DEF Unique

LEMMA UniqueStep == BInv /\ [Next]_vars => Unique'
<1> SUFFICES ASSUME BInv, [Next]_vars PROVE Unique'
  OBVIOUS
<1>0. /\ Unique
      /\ flush.at = "none" => out = <<>>
      /\ buf \in Seq(Line) /\ out \in Seq(Line) /\ boot \in Boots /\ rows \in Nat
      /\ meta \in [Boots -> Seq(Line)]
      /\ req \in [Requests -> {"new", "scored", "finished", "lost"}]
  BY DEF BInv, TInv, TypeOK
<1>1. ASSUME NEW r \in Requests, Score(r) PROVE Unique'
  <2> DEFINE line == [req |-> r, kind |-> "score", row |-> rows]
  <2>1. line \in Line /\ IsScore(line) /\ line.req = r
    BY <1>0 DEF Line, IsScore
  <2>2. buf' = Append(buf, line) /\ UNCHANGED <<out, meta>>
    BY <1>1 DEF Score, Appends, files
  <2>3. req[r] = "new" /\ req' = [req EXCEPT ![r] = "scored"]
    BY <1>1 DEF Score
  <2>4. req'[r] # "new" /\ \A q \in Requests \ {r} : req'[q] = req[q]
    BY <1>0, <2>3
  <2> HIDE DEF line
  <2>5. ~ Has(buf, r) /\ ~ Has(out, r) /\ \A b \in Boots : ~ Has(meta[b], r)
    BY <1>0, <2>3 DEF Unique
  <2>6. \A q \in Requests : Has(buf', q) <=> Has(buf, q) \/ q = r
    BY <1>0, <2>1, <2>2, AppendFacts
  <2>7. Single(buf')
    BY <1>0, <2>1, <2>2, <2>5, AppendFacts DEF Unique
  <2> QED BY <1>0, <2>2, <2>4, <2>5, <2>6, <2>7 DEF Unique
<1>2. ASSUME NEW r \in Requests, Finish(r) PROVE Unique'
  <2> DEFINE line == [req |-> r, kind |-> "finish", row |-> 0]
  <2>1. line \in Line /\ ~ IsScore(line)
    BY DEF Line, IsScore
  <2>2. buf' = Append(buf, line) /\ UNCHANGED <<out, meta>>
    BY <1>2 DEF Finish, Appends, files
  <2>3. \A q \in Requests : req'[q] = "new" => req[q] = "new"
    BY <1>0, <1>2 DEF Finish
  <2> HIDE DEF line
  <2>4. \A q \in Requests : Has(buf', q) <=> Has(buf, q)
    BY <1>0, <2>1, <2>2, AppendFacts
  <2>5. Single(buf')
    BY <1>0, <2>1, <2>2, AppendFacts DEF Unique
  <2> QED BY <1>0, <2>2, <2>3, <2>4, <2>5 DEF Unique
<1>3. ASSUME NEW who \in {"engine", "flusher"}, BeginFlush(who) PROVE Unique'
  <2>1. /\ out' \in {buf, <<>>} /\ buf' = <<>> /\ UNCHANGED <<meta, req>>
    BY <1>3 DEF BeginFlush, files
  <2> Single(<<>>)
    BY DEF Single
  <2>2. Single(buf') /\ Single(out')
    BY <1>0, <2>1 DEF Unique
  <2>3. \A r \in Requests : ~ Has(buf', r) /\ (Has(out', r) => Has(buf, r))
    BY <2>1, HasEmpty
  <2> QED BY <1>0, <2>1, <2>2, <2>3 DEF Unique
<1>4. CASE WriteLine
  <2>1. /\ out # <<>> /\ out' = Tail(out) /\ UNCHANGED <<buf, req>>
        /\ \A b \in Boots : meta'[b] = IF b = boot THEN Append(meta[b], Head(out)) ELSE meta[b]
    BY <1>0, <1>4 DEF WriteLine
  <2> DEFINE line == Head(out)
  <2>2. line \in Line /\ line.req \in Requests
    <3>1. Head(out) \in Line
      BY <1>0, <2>1, HeadTailProperties
    <3> QED BY <3>1 DEF Line
  <2>3. /\ \A r \in Requests : Has(out', r) => Has(out, r)
        /\ IsScore(line) => Has(out, line.req) /\ ~ Has(out', line.req)
        /\ Single(out')
    BY <1>0, <2>1, TailFacts DEF Unique
  <2> HIDE DEF line
  <2>4. \A b \in Boots, r \in Requests :
          Has(meta'[b], r) <=> Has(meta[b], r) \/ (b = boot /\ IsScore(line) /\ line.req = r)
    BY <1>0, <2>1, <2>2, AppendFacts DEF line
  <2>5. \A b \in Boots : IsScore(line) => ~ Has(meta[b], line.req)
    BY <1>0, <2>2, <2>3 DEF Unique
  <2>6. \A b \in Boots : Single(meta'[b])
    <3> TAKE b \in Boots
    <3>1. meta[b] \in Seq(Line) /\ Single(meta[b]) /\ (IsScore(line) => ~ Has(meta[b], line.req))
      BY <1>0, <2>5 DEF Unique
    <3>2. Single(Append(meta[b], line))
      BY <2>2, <3>1, AppendFacts
    <3> QED BY <2>1, <3>1, <3>2 DEF line
  <2> QED BY <1>0, <2>1, <2>2, <2>3, <2>4, <2>5, <2>6 DEF Unique
<1>5. CASE Close \/ Crash \/ Restart \/ FlushReturns
  <2>1. UNCHANGED meta /\ buf' \in {buf, <<>>} /\ out' \in {out, <<>>}
    BY <1>5 DEF Close, Crash, Restart, FlushReturns, files
  <2>2. \A r \in Requests : req'[r] = "new" => req[r] = "new"
    BY <1>0, <1>5 DEF Close, Crash, Restart, FlushReturns
  <2> QED BY <1>0, <2>1, <2>2, UniqueSame
<1>6. CASE WriteFeats \/ WritePart \/ WriteFails
  BY <1>0, <1>6, UniqueSame DEF WriteFeats, WritePart, WriteFails, files, writer
<1>7. ASSUME NEW u \in Updaters, Pass(u) \/ PassDies(u) PROVE Unique'
  BY <1>0, <1>7, UniqueSame, PassKeeps DEF writer, files
<1>8. ASSUME NEW r \in Requests, Ages(r) PROVE Unique'
  BY <1>0, <1>8, UniqueSame DEF Ages, writer, files
<1>9. CASE UNCHANGED vars
  BY <1>0, <1>9, UniqueSame DEF vars, writer, files
<1> QED BY <1>1, <1>2, <1>3, <1>4, <1>5, <1>6, <1>7, <1>8, <1>9 DEF Next, Writes

LEMMA BInit == Init => BInv
<1> SUFFICES ASSUME Init PROVE BInv
  OBVIOUS
<1>1. TInv
  BY TypeInit
<1>2. Bounded
  BY DEF Init, Bounded, NoPass
<1>3. Unique
  <2>1. Single(<<>>)
    BY DEF Single
  <2> QED BY <2>1, HasEmpty DEF Init, Unique
<1> QED BY <1>1, <1>2, <1>3 DEF BInv

LEMMA BStep == BInv /\ [Next]_vars => BInv'
BY TypeStep, BoundedStep, UniqueStep DEF BInv

\* The variables keep their types, and backpressure keeps the buffer within its
\* cap, however the flushes of the engine and of the flusher overlap.
THEOREM LedgerTypes == Spec => []TypeOK
<1>1. BInv => TypeOK
  BY DEF BInv, TInv
<1> QED BY <1>1, BInit, BStep, PTL DEF Spec

\* What the two properties rest on.
THEOREM Bases == Spec => []BInv
BY BInit, BStep, PTL DEF Spec

-----------------------------------------------------------------------------
(* The cursor leaves no pin behind.                                        *)

\* Offsets are within their files.
LEMMA Within ==
  ASSUME BInv, NEW b \in Boots
  PROVE  /\ Len(meta[b]) \in Nat /\ cursor[b] \in Nat
         /\ \A i \in 1..cursor[b] : i \in 1..Len(meta[b])
         /\ \A u \in Updaters : \A i \in 1..pass[u].offsets[b] : i \in 1..Len(meta[b])
<1>1. /\ meta[b] \in Seq(Line) /\ cursor[b] \in Nat
      /\ \A u \in Updaters : pass[u].offsets[b] \in Nat
  BY DEF BInv, TInv, TypeOK, Passes
<1>2. Len(meta[b]) \in Nat
  BY <1>1
<1> QED BY <1>1, <1>2 DEF BInv, Bounded

LEMMA OnlyTail ==
  [Next]_vars => WritePart \/ WriteLine \/ UNCHANGED tail
BY DEF Next, vars, files, Score, Finish, Appends, Ages, Close, Restart, Crash, BeginFlush, FlushReturns,
       Writes, WriteFeats, WriteFails, Pass, BeginPass, ReadTail, ReadFile, WriteLedger, WriteCursor,
       PassDies

\* What a file ends in stays the beginning of the line that will be written there.
LEMMA TailStep ==
  ASSUME TInv, TailIsNext, ~ sink => out = <<>>, [Next]_vars
  PROVE  TailIsNext' /\ (~ sink' => out' = <<>>)
<1>00. /\ tail \in [Boots -> [line : Line, bare : BOOLEAN] \cup {NoLine}]
       /\ boot \in Boots /\ out \in Seq(Line) /\ (out = <<>> <=> flush.at = "none")
  BY DEF TInv, TypeOK
<1>01. Boots \subseteq Nat
  BY ConstantsAssumption DEF Boots
<1>0. /\ tail \in [Boots -> [line : Line, bare : BOOLEAN] \cup {NoLine}]
      /\ boot \in Boots /\ boot \in Nat /\ Boots \subseteq Nat
      /\ out \in Seq(Line) /\ (out = <<>> <=> flush.at = "none")
  BY <1>00, <1>01
<1>1. ASSUME NEW r \in Requests, Score(r) \/ Finish(r) \/ Ages(r) PROVE UNCHANGED <<tail, boot, out, sink>>
  BY <1>1 DEF Score, Finish, Appends, Ages, files, writer
<1>2. ASSUME NEW u \in Updaters, Pass(u) \/ PassDies(u) PROVE UNCHANGED <<tail, boot, out, sink>>
  BY <1>2, PassKeeps DEF files, writer
<1>3. CASE Close \/ FlushReturns \/ WriteFeats \/ UNCHANGED vars
  BY <1>3 DEF Close, FlushReturns, WriteFeats, vars, files, writer, TailIsNext
<1>4. CASE Restart
  <2>1. /\ boot' = boot + 1 /\ sink' = TRUE /\ UNCHANGED <<tail, out>> /\ boot' \in Boots
    BY <1>0, <1>4, ConstantsAssumption DEF Restart, files, Boots
  <2>2. boot' > boot /\ \A b \in Boots : b > boot' => b > boot
    BY <1>0, <2>1
  <2> QED BY <1>0, <2>1, <2>2 DEF TailIsNext
<1>5. CASE Crash \/ WriteFails
  BY <1>5 DEF Crash, WriteFails, files, TailIsNext
<1>6. ASSUME NEW who \in {"engine", "flusher"}, BeginFlush(who) PROVE TailIsNext' /\ (~ sink' => out' = <<>>)
  <2>1. /\ out = <<>> /\ UNCHANGED <<tail, boot, sink>>
        /\ out' = (IF sink THEN buf ELSE <<>>)
    BY <1>0, <1>6 DEF BeginFlush, files
  <2> QED BY <2>1 DEF TailIsNext
<1>7. CASE WritePart
  <2>1. PICK bare \in BOOLEAN : tail' = [tail EXCEPT ![boot] = [line |-> Head(out), bare |-> bare]]
    BY <1>7 DEF WritePart
  <2>2. out # <<>> /\ UNCHANGED <<boot, out, sink>>
    BY <1>7 DEF WritePart, writer
  <2>3. tail'[boot].line = Head(out) /\ \A b \in Boots : b # boot => tail'[b] = tail[b]
    BY <1>0, <2>1
  <2> QED BY <1>0, <2>2, <2>3 DEF TailIsNext
<1>8. CASE WriteLine
  <2>1. out # <<>> /\ tail' = [tail EXCEPT ![boot] = NoLine] /\ UNCHANGED <<boot, sink>>
    BY <1>8 DEF WriteLine
  <2>2. tail'[boot] = NoLine /\ \A b \in Boots : b # boot => tail'[b] = tail[b]
    BY <1>0, <2>1
  <2> QED BY <1>0, <2>1, <2>2 DEF TailIsNext
<1> QED BY <1>1, <1>2, <1>3, <1>4, <1>5, <1>6, <1>7, <1>8 DEF Next, Writes, TailIsNext

\* A finish that was seen stays to be seen: a tail becomes the line it begins.
LEMMA FinishesStay ==
  ASSUME TInv, TailIsNext, ~ sink => out = <<>>, [Next]_vars,
         NEW b \in Boots, NEW r \in Finishes(b, 0, {})
  PROVE  r \in Finishes(b, 0, {})'
<1>1. /\ Len(meta[b]) \in Nat /\ Len(meta'[b]) \in Nat
      /\ Len(meta[b]) <= Len(meta'[b])
      /\ \A j \in 1..Len(meta[b]) : meta'[b][j] = meta[b][j] /\ j \in 1..Len(meta'[b])
  BY MetaGrows
<1>2. CASE \E i \in Parsed(b, 0, {}) : OnDisk(b, i, r, "finish")
  BY <1>1, <1>2 DEF Finishes, Parsed, OnDisk
<1>3. CASE tail[b] # NoLine /\ tail[b].bare /\ tail[b].line.req = r /\ tail[b].line.kind = "finish"
  <2>1. CASE UNCHANGED tail
    BY <1>3, <2>1 DEF Finishes
  <2>2. CASE WritePart
    <3>1. b # boot
      BY <1>3, <2>2 DEF WritePart
    <3>2. tail'[b] = tail[b]
      BY <2>2, <3>1 DEF WritePart, TInv, TypeOK
    <3> QED BY <1>3, <3>2 DEF Finishes
  <2>3. CASE WriteLine
    <3>1. CASE b # boot
      <4>1. tail'[b] = tail[b]
        BY <2>3, <3>1 DEF WriteLine, TInv, TypeOK
      <4> QED BY <1>3, <4>1 DEF Finishes
    <3>2. CASE b = boot
      <4>1. out # <<>> /\ tail[b].line = Head(out)
        BY <1>3, <2>3, <3>2 DEF WriteLine, TailIsNext
      <4>2. meta'[b] = Append(meta[b], Head(out)) /\ meta[b] \in Seq(Line) /\ Head(out) \in Line
        BY <2>3, <3>2, <4>1, HeadTailProperties DEF WriteLine, TInv, TypeOK
      <4>3. Len(meta'[b]) = Len(meta[b]) + 1 /\ meta'[b][Len(meta[b]) + 1] = Head(out)
        BY <4>2, AppendProperties
      <4>4. Len(meta[b]) + 1 \in 1..Len(meta'[b])
        BY <1>1, <4>3
      <4> QED BY <1>3, <4>1, <4>3, <4>4 DEF Finishes, Parsed, OnDisk
    <3> QED BY <3>1, <3>2
  <2> QED BY <2>1, <2>2, <2>3, OnlyTail
<1> QED BY <1>2, <1>3 DEF Finishes

LEMMA StaysSettled ==
  ASSUME TInv, PInv, [Next]_vars, NEW b \in Boots, NEW i \in 1..Len(meta[b]), SettledLine(b, i)
  PROVE  SettledLine(b, i)'
<1>1. meta'[b][i] = meta[b][i]
  BY MetaGrows
<1>2. given_up \subseteq given_up'
  BY DEF Next, vars, reader, files, writer, Score, Finish, Appends, Ages, Close, Restart, Crash, BeginFlush,
         FlushReturns, Writes, WriteFeats, WritePart, WriteLine, WriteFails, Pass, BeginPass, ReadTail,
         ReadFile, WriteLedger, WriteCursor, PassDies
<1>3. \A r \in Finishes(b, 0, {}) : r \in Finishes(b, 0, {})'
  BY FinishesStay DEF PInv
<1> QED BY <1>1, <1>2, <1>3 DEF SettledLine, IsScore

\* What a pass makes the new offset of a file is settled, but for the torn lines.
LEMMA ReadSettles ==
  ASSUME TInv, NEW b \in Boots, NEW start \in Nat, start <= Len(meta[b]), NEW torn,
         NEW i \in (start + 1)..CompleteEnd(b, start, torn), <<b, i>> \notin torn
  PROVE  SettledLine(b, i)
<1>0. meta[b] \in Seq(Line) /\ Len(meta[b]) \in Nat
  BY DEF TInv, TypeOK
<1>1. /\ CompleteEnd(b, start, torn) \in Nat /\ CompleteEnd(b, start, torn) <= Len(meta[b])
      /\ i \notin Pins(b, start, torn)
  BY CompleteEndFacts DEF TInv
<1>2. i \in Parsed(b, start, torn)
  BY <1>0, <1>1 DEF Parsed
<1>3. IsScore(meta[b][i]) => meta[b][i].req \in given_up \cup Finishes(b, start, torn)
  BY <1>1, <1>2 DEF Pins, IsScore
<1>4. Parsed(b, start, torn) \subseteq Parsed(b, 0, {})
  BY <1>0 DEF Parsed
<1>5. Finishes(b, start, torn) \subseteq Finishes(b, 0, {})
  BY <1>4 DEF Finishes
<1> QED BY <1>3, <1>5 DEF SettledLine

\* Nothing but a pass's own step moves it, and lines that are lost stay so.
LEMMA PassSettles ==
  ASSUME BInv, PInv, NEW u \in Updaters, Pass(u) \/ PassDies(u),
         NEW b \in Boots, NEW i \in 1..pass'[u].offsets[b]
  PROVE  SettledLine(b, i) \/ <<b, i>> \in lost' \cup pass'[u].torn
<1>0. /\ pass \in [Updaters -> Passes] /\ cursor \in [Boots -> Nat]
      /\ TInv /\ Bounded
  BY DEF BInv, TInv, TypeOK
<1>1. \A k \in 1..cursor[b] : SettledLine(b, k) \/ <<b, k>> \in lost
  BY DEF PInv, Settled
<1>2. \A k \in 1..pass[u].offsets[b] : SettledLine(b, k) \/ <<b, k>> \in lost \cup pass[u].torn
  BY DEF PInv, Settled
<1>3. CASE BeginPass(u)
  BY <1>0, <1>1, <1>3 DEF BeginPass, NoPass
<1>4. CASE ReadTail(u)
  <2>1. PICK d \in Boots :
          pass'[u] = [pass[u] EXCEPT !.torn = InPieces(u, d), !.half = Len(meta[d]) + 1]
    BY <1>0, <1>4, TailRead
  <2>2. pass'[u].offsets = pass[u].offsets /\ pass'[u].torn = InPieces(u, d)
    BY <1>0, <2>1 DEF Passes
  <2>3. pass[u].torn \subseteq pass'[u].torn /\ lost' = lost
    BY <1>4, <2>2 DEF InPieces, ReadTail
  <2> QED BY <1>2, <2>2, <2>3
<1>5. CASE ReadFile(u)
  <2>1. PICK d \in Boots :
          LET start == pass[u].offsets[d]
              torn == InPieces(u, d)
              end == CompleteEnd(d, start, torn)
          IN  /\ pass'[u].offsets = [pass[u].offsets EXCEPT ![d] = end]
              /\ pass'[u].torn = {line \in torn : line[1] = d => line[2] <= end}
    BY <1>0, <1>5, FileRead
  <2> DEFINE start == pass[u].offsets[d]
             torn == InPieces(u, d)
             end == CompleteEnd(d, start, torn)
  <2>2. /\ start \in Nat /\ start <= Len(meta[d]) /\ pass[u].offsets \in [Boots -> Nat]
        /\ pass[u].torn \subseteq torn /\ lost' = lost
    BY <1>0, <1>5 DEF InPieces, ReadFile, Passes, Bounded
  <2>3. end \in Nat /\ start <= end
    BY <1>0, <2>2, CompleteEndFacts DEF TInv
  <2>4. \A k : k \in (start + 1)..end /\ <<d, k>> \notin torn => SettledLine(d, k)
    BY <1>0, <2>2, ReadSettles
  <2>5. /\ pass'[u].offsets = [pass[u].offsets EXCEPT ![d] = end]
        /\ pass'[u].torn = {line \in torn : line[1] = d => line[2] <= end}
    BY <2>1
  <2>6. <<b, i>>[1] = b /\ <<b, i>>[2] = i
    OBVIOUS
  <2>7. \A k \in 1..start : d = b => SettledLine(d, k) \/ <<d, k>> \in lost \cup pass[u].torn
    BY <1>2
  <2> HIDE DEF start, torn, end
  <2>8. CASE b # d
    <3>1. pass'[u].offsets[b] = pass[u].offsets[b]
      BY <2>2, <2>5, <2>8
    <3> QED BY <1>2, <2>2, <2>5, <2>6, <2>8, <3>1
  <2>9. CASE b = d
    <3>1. pass'[u].offsets[b] = end
      BY <2>2, <2>5, <2>9
    <3>2. i \in 1..start \/ i \in (start + 1)..end
      BY <2>2, <2>3, <3>1
    <3>3. i \in 1..end /\ i <= end
      BY <2>3, <3>1
    <3>4. <<b, i>> \in torn => <<b, i>> \in pass'[u].torn
      BY <2>5, <2>6, <3>3
    <3>5. SettledLine(b, i) \/ <<b, i>> \in lost \cup torn
      BY <2>2, <2>4, <2>7, <2>9, <3>2
    <3> QED BY <2>2, <3>4, <3>5
  <2> QED BY <2>8, <2>9
<1>6. CASE WriteLedger(u)
  BY <1>0, <1>2, <1>6 DEF WriteLedger, Passes
<1>7. CASE WriteCursor(u)
  BY <1>0, <1>7 DEF WriteCursor, NoPass
<1>8. CASE PassDies(u)
  BY <1>0, <1>8 DEF PassDies, NoPass
<1> QED BY <1>3, <1>4, <1>5, <1>6, <1>7, <1>8 DEF Pass

LEMMA OthersKeep ==
  ASSUME TypeOK, [Next]_vars
  PROVE  /\ lost \subseteq lost'
         /\ \A b \in Boots : \/ cursor'[b] = cursor[b]
                             \/ \E u \in Updaters : /\ cursor' = pass[u].offsets
                                                    /\ lost' = lost \cup pass[u].torn
         /\ \A v \in Updaters : pass'[v] = pass[v] \/ Pass(v) \/ PassDies(v)
<1>1. CASE UNCHANGED <<credits, cursor, pass, lost>>
  BY <1>1
<1>2. ASSUME NEW u \in Updaters, Pass(u) \/ PassDies(u)
      PROVE  /\ lost \subseteq lost'
             /\ UNCHANGED cursor \/ (cursor' = pass[u].offsets /\ lost' = lost \cup pass[u].torn)
             /\ \A v \in Updaters : v # u => pass'[v] = pass[v]
  BY <1>2 DEF TypeOK, Pass, BeginPass, ReadTail, ReadFile, WriteLedger, WriteCursor, PassDies
<1> QED BY <1>1, <1>2, OnlyPass

LEMMA PStep == BInv /\ PInv /\ [Next]_vars => PInv'
<1> SUFFICES ASSUME BInv, PInv, [Next]_vars PROVE PInv'
  OBVIOUS
<1>0. TInv /\ TInv' /\ Bounded'
  BY BStep DEF BInv
<1>1. TailIsNext' /\ (~ sink' => out' = <<>>)
  BY <1>0, TailStep DEF PInv
<1>2. /\ lost \subseteq lost'
      /\ \A b \in Boots : \/ cursor'[b] = cursor[b]
                          \/ \E u \in Updaters : /\ cursor' = pass[u].offsets
                                                 /\ lost' = lost \cup pass[u].torn
      /\ \A v \in Updaters : pass'[v] = pass[v] \/ Pass(v) \/ PassDies(v)
  BY <1>0, OthersKeep DEF TInv
<1>3. ASSUME NEW b \in Boots, NEW i \in 1..cursor'[b] PROVE SettledLine(b, i)' \/ <<b, i>> \in lost'
  <2>1. SettledLine(b, i) \/ <<b, i>> \in lost'
    <3>1. CASE cursor'[b] = cursor[b]
      BY <1>2, <3>1 DEF PInv, Settled
    <3>2. CASE \E u \in Updaters : cursor' = pass[u].offsets /\ lost' = lost \cup pass[u].torn
      BY <3>2 DEF PInv, Settled
    <3> QED BY <1>2, <3>1, <3>2
  <2>2. i \in 1..Len(meta[b])
    <3>1. CASE cursor'[b] = cursor[b]
      BY <3>1, Within
    <3>2. CASE \E u \in Updaters : cursor' = pass[u].offsets /\ lost' = lost \cup pass[u].torn
      BY <3>2, Within
    <3> QED BY <1>2, <3>1, <3>2
  <2> QED BY <1>0, <2>1, <2>2, StaysSettled
<1>4. ASSUME NEW v \in Updaters, NEW b \in Boots, NEW i \in 1..pass'[v].offsets[b]
      PROVE  SettledLine(b, i)' \/ <<b, i>> \in lost' \cup pass'[v].torn
  <2>1. CASE pass'[v] = pass[v]
    <3>1. SettledLine(b, i) \/ <<b, i>> \in lost' \cup pass'[v].torn
      BY <1>2, <2>1 DEF PInv, Settled
    <3>2. i \in 1..Len(meta[b])
      BY <2>1, Within
    <3> QED BY <1>0, <3>1, <3>2, StaysSettled
  <2>2. CASE Pass(v) \/ PassDies(v)
    <3>1. SettledLine(b, i) \/ <<b, i>> \in lost' \cup pass'[v].torn
      BY <2>2, PassSettles
    <3>2. UNCHANGED meta
      BY <2>2, PassKeeps DEF files
    <3>3. i \in 1..Len(meta[b])
      <4>1. /\ Len(meta[b]) \in Nat /\ pass'[v].offsets[b] \in Nat
            /\ pass'[v].offsets[b] <= Len(meta[b])
        <5>1. meta[b] \in Seq(Line) /\ pass'[v].offsets[b] \in Nat
          BY <1>0 DEF TInv, TypeOK, Passes
        <5> QED BY <1>0, <3>2, <5>1 DEF Bounded
      <4> QED BY <4>1
    <3> QED BY <1>0, <3>1, <3>3, StaysSettled
  <2> QED BY <1>2, <2>1, <2>2
<1>5. Settled(cursor, lost)'
  BY <1>3 DEF Settled
<1>6. \A v \in Updaters : Settled(pass[v].offsets, lost \cup pass[v].torn)'
  BY <1>4 DEF Settled
<1> QED BY <1>1, <1>5, <1>6 DEF PInv

\* For any number of requests, boots and updaters, through crashes, failed writes,
\* killed passes and files that grow while they are read: the cursor leaves no
\* score line behind whose finish may still come, unless the line was given up or
\* was read in two pieces, neither of which parsed.
THEOREM PinsHold == Spec => []PinHolds
<1>1. ASSUME Init PROVE PInv
  <2>1. /\ \A b \in Boots : tail[b] = NoLine /\ cursor[b] = 0
        /\ boot \in Boots /\ out = <<>>
        /\ \A u \in Updaters : \A b \in Boots : pass[u].offsets[b] = 0
    BY <1>1, ConstantsAssumption DEF Init, NoPass, Boots
  <2> QED BY <2>1 DEF PInv, TailIsNext, Settled
<1>2. PInv => PinHolds
  BY DEF PInv, Settled, SettledLine, PinHolds
<1> QED BY <1>1, <1>2, Bases, PStep, PTL DEF Spec

-----------------------------------------------------------------------------
(* A pair is credited once.                                                *)

\* What lies behind an offset stays the same while the files grow.
LEMMA ScoresStay ==
  ASSUME BInv, [Next]_vars, NEW b \in Boots, NEW i \in 1..Len(meta[b]), NEW r \in Requests
  PROVE  OnDisk(b, i, r, "score")' <=> OnDisk(b, i, r, "score")
<1>1. meta'[b][i] = meta[b][i]
  BY MetaGrows DEF BInv
<1> QED BY <1>1 DEF OnDisk

\* A score line beyond the cursor is the only one of its request.
LEMMA NotBehind ==
  ASSUME BInv, NEW b \in Boots, NEW i \in (cursor[b] + 1)..Len(meta[b]), NEW r \in Requests,
         OnDisk(b, i, r, "score")
  PROVE  ~ Behind(r, cursor)
<1> SUFFICES ASSUME NEW d \in Boots, NEW k \in 1..cursor[d], OnDisk(d, k, r, "score")
             PROVE  FALSE
  BY DEF Behind
<1>1. k \in 1..Len(meta[d]) /\ i \in 1..Len(meta[b]) /\ cursor[b] \in Nat
  BY Within
<1>2. Has(meta[d], r) /\ Has(meta[b], r)
  BY <1>1 DEF Has, OnDisk, IsScore
<1>3. d = b
  BY <1>2 DEF BInv, Unique
<1>4. Single(meta[b])
  BY DEF BInv, Unique
<1>5. k = i
  BY <1>1, <1>3, <1>4 DEF Single, OnDisk, IsScore
<1> QED BY <1>1, <1>3, <1>5

\* Steps that are none of a pass.
LEMMA CEngine ==
  ASSUME BInv, CInv, [Next]_vars, UNCHANGED <<credits, cursor, pass, lost>>
  PROVE  CInv'
<1>1. \A r \in Requests : Behind(r, cursor)' <=> Behind(r, cursor)
  BY Within, ScoresStay DEF Behind
<1>2. \A u \in Updaters, r \in Requests :
        Behind(r, pass[u].offsets)' <=> Behind(r, pass[u].offsets)
  BY Within, ScoresStay DEF Behind
<1>3. \A u \in Updaters : pass[u].rows \subseteq Requests
  BY DEF BInv, TInv, TypeOK, Passes
<1> QED BY <1>1, <1>2, <1>3 DEF CInv, CreditedOnce

LEMMA CPass ==
  ASSUME Careful, BInv, CInv, NEW u \in Updaters, Pass(u) \/ PassDies(u)
  PROVE  CInv'
<1>0. \A v \in Updaters : v = u
  BY DEF Careful
<1>1. /\ pass \in [Updaters -> Passes]
      /\ credits \in [Requests -> Nat] /\ cursor \in [Boots -> Nat]
      /\ \A r \in Requests : credits[r] <= 1
  BY DEF BInv, TInv, TypeOK, CInv, CreditedOnce
<1>2. UNCHANGED meta
  BY PassKeeps DEF files
<1>3. CASE BeginPass(u)
  <2>1. /\ pass[u].at = "idle" /\ UNCHANGED <<credits, cursor>>
        /\ pass'[u].at = "reading" /\ pass'[u].credits = credits
        /\ pass'[u].offsets = cursor /\ pass'[u].rows = {}
    BY <1>1, <1>3 DEF BeginPass, NoPass
  <2>2. \A r \in Requests : credits[r] >= 1 => Behind(r, cursor)
    BY <1>0, <2>1 DEF CInv
  <2>3. \A r \in Requests : credits'[r] >= 1 => Behind(r, cursor)'
    BY <1>2, <2>1, <2>2 DEF Behind, OnDisk
  <2>4. \A b \in Boots : cursor'[b] <= pass'[u].offsets[b] /\ cursor'[b] = pass'[u].offsets[b]
    BY <1>1, <2>1
  <2>5. pass'[u].unread \subseteq Boots
    BY <1>1, <1>3, <2>1, TypePass DEF BInv, TInv, TypeOK, Bounded, Passes
  <2>6. \A r \in Requests : credits'[r] <= 1
    BY <1>1, <2>1
  <2> QED BY <1>0, <2>1, <2>3, <2>4, <2>5, <2>6 DEF CInv, CreditedOnce
<1>7. CASE ReadTail(u)
  <2>1. PICK b \in Boots :
          /\ pass'[u] = [pass[u] EXCEPT !.torn = InPieces(u, b), !.half = Len(meta[b]) + 1]
          /\ UNCHANGED <<credits, cursor, lost>>
    BY <1>1, <1>7, TailRead
  <2>2. /\ pass'[u].at = pass[u].at /\ pass'[u].credits = pass[u].credits
        /\ pass'[u].offsets = pass[u].offsets /\ pass'[u].rows = pass[u].rows
        /\ pass'[u].unread = pass[u].unread
        /\ UNCHANGED <<credits, cursor>>
    BY <1>1, <2>1 DEF Passes
  <2>3. pass[u].at = "reading"
    BY <1>7 DEF ReadTail, Reads
  <2>4. \A r \in Requests : credits[r] >= 1 => Behind(r, cursor)
    BY <1>0, <2>3 DEF CInv
  <2>5. \A r : (Behind(r, cursor)' <=> Behind(r, cursor))
               /\ (Behind(r, pass[u].offsets)' <=> Behind(r, pass[u].offsets))
    BY <1>2, <2>2 DEF Behind, OnDisk
  <2>6. /\ pass[u].credits = credits
        /\ \A d \in Boots : cursor[d] <= pass[u].offsets[d]
        /\ \A d \in pass[u].unread : cursor[d] = pass[u].offsets[d]
        /\ \A r \in pass[u].rows : Behind(r, pass[u].offsets) /\ ~ Behind(r, cursor)
    BY <2>3 DEF CInv
  <2>7. /\ pass'[u].credits = credits'
        /\ \A d \in Boots : cursor'[d] <= pass'[u].offsets[d]
        /\ \A d \in pass'[u].unread : cursor'[d] = pass'[u].offsets[d]
        /\ \A r \in pass'[u].rows : Behind(r, pass[u].offsets)' /\ ~ Behind(r, cursor)'
    BY <2>2, <2>5, <2>6
  <2>8. \A r \in Requests : credits'[r] <= 1 /\ (credits'[r] >= 1 => Behind(r, cursor)')
    BY <1>1, <2>2, <2>4, <2>5
  <2> QED BY <1>0, <2>2, <2>3, <2>7, <2>8 DEF CInv, CreditedOnce
<1>8. CASE ReadFile(u)
  <2>1. PICK b \in Boots :
          LET start == pass[u].offsets[b]
              torn == InPieces(u, b)
              end == CompleteEnd(b, start, torn)
          IN  /\ Reads(u, b)
              /\ pass'[u].at \in {"reading", "read"} /\ pass'[u].credits = pass[u].credits
              /\ pass'[u].rows = pass[u].rows \cup Pairs(b, start, torn)
              /\ pass'[u].offsets = [pass[u].offsets EXCEPT ![b] = end]
              /\ pass'[u].unread = pass[u].unread \ {b}
              /\ UNCHANGED <<credits, cursor>>
    BY <1>1, <1>8, FileRead
  <2> DEFINE start == pass[u].offsets[b]
             torn == InPieces(u, b)
             end == CompleteEnd(b, start, torn)
  <2>2. /\ pass[u].at = "reading" /\ b \in pass[u].unread
        /\ pass[u].offsets \in [Boots -> Nat] /\ pass[u].unread \subseteq Boots
    BY <1>1, <2>1 DEF Reads, Passes
  <2>3. /\ pass[u].credits = credits
        /\ \A d \in Boots : cursor[d] <= pass[u].offsets[d]
        /\ \A d \in pass[u].unread : cursor[d] = pass[u].offsets[d]
        /\ \A r \in pass[u].rows : Behind(r, pass[u].offsets) /\ ~ Behind(r, cursor)
    BY <2>2 DEF CInv
  <2>4. /\ start \in Nat /\ start <= Len(meta[b]) /\ start = cursor[b] /\ Len(meta[b]) \in Nat
    BY <2>2, <2>3, Within DEF BInv, Bounded
  <2>5. end \in Nat /\ start <= end /\ end <= Len(meta[b])
    BY <2>4, CompleteEndFacts DEF BInv, TInv
  <2>6. \A r \in Pairs(b, start, torn) : \E i \in (start + 1)..end : OnDisk(b, i, r, "score")
    <3> TAKE r \in Pairs(b, start, torn)
    <3>1. PICK i \in Parsed(b, start, torn) : OnDisk(b, i, r, "score") /\ i <= end
      BY DEF Pairs
    <3>2. i \in (start + 1)..end
      BY <2>4, <2>5, <3>1 DEF Parsed
    <3> QED BY <3>1, <3>2
  <2>7. Pairs(b, start, torn) \subseteq Requests
    BY DEF Pairs
  <2> DEFINE new == Pairs(b, start, torn)
  <2>8. /\ pass'[u].at \in {"reading", "read"} /\ pass'[u].credits = pass[u].credits
        /\ pass'[u].rows = pass[u].rows \cup new
        /\ pass'[u].offsets = [pass[u].offsets EXCEPT ![b] = end]
        /\ pass'[u].unread = pass[u].unread \ {b}
        /\ UNCHANGED <<credits, cursor>>
    BY <2>1
  <2>9. \A r \in new : \E i \in (start + 1)..end : OnDisk(b, i, r, "score")
    BY <2>6
  <2>10. new \subseteq Requests
    BY <2>7
  <2> HIDE DEF new, end, torn
  <2>11. /\ pass'[u].offsets[b] = end
         /\ \A d \in Boots : d # b => pass'[u].offsets[d] = pass[u].offsets[d]
    BY <2>2, <2>8
  <2>12. \A d \in Boots : /\ cursor[d] <= pass'[u].offsets[d]
                          /\ pass[u].offsets[d] <= pass'[u].offsets[d]
    <3> TAKE d \in Boots
    <3>1. pass[u].offsets[d] \in Nat /\ cursor[d] \in Nat /\ cursor[d] <= pass[u].offsets[d]
      BY <1>1, <2>2, <2>3
    <3>2. CASE d = b
      BY <2>4, <2>5, <2>11, <3>2
    <3>3. CASE d # b
      BY <2>11, <3>1, <3>3
    <3> QED BY <3>2, <3>3
  <2>13. \A d \in pass'[u].unread : cursor'[d] = pass'[u].offsets[d]
    BY <2>2, <2>3, <2>8, <2>11
  <2>14. ASSUME NEW r \in new
         PROVE  /\ \E d \in Boots : \E i \in 1..pass'[u].offsets[d] : OnDisk(d, i, r, "score")
                /\ ~ Behind(r, cursor)
    <3>1. PICK i \in (start + 1)..end : OnDisk(b, i, r, "score")
      BY <2>9
    <3>2. i \in (cursor[b] + 1)..Len(meta[b]) /\ i \in 1..pass'[u].offsets[b]
      BY <2>4, <2>5, <2>11, <3>1
    <3>3. r \in Requests
      BY <2>10
    <3>4. ~ Behind(r, cursor)
      BY <3>1, <3>2, <3>3, NotBehind
    <3> QED BY <3>1, <3>2, <3>4
  <2>15. ASSUME NEW r \in pass[u].rows
         PROVE  /\ \E d \in Boots : \E i \in 1..pass'[u].offsets[d] : OnDisk(d, i, r, "score")
                /\ ~ Behind(r, cursor)
    <3>0. PICK d \in Boots : \E i \in 1..pass[u].offsets[d] : OnDisk(d, i, r, "score")
      BY <2>3 DEF Behind
    <3>1. PICK i \in 1..pass[u].offsets[d] : OnDisk(d, i, r, "score")
      BY <3>0
    <3>2. pass[u].offsets[d] \in Nat /\ pass'[u].offsets[d] \in Nat
      BY <2>2, <2>5, <2>11
    <3>3. i \in 1..pass'[u].offsets[d]
      BY <2>12, <3>1, <3>2
    <3> QED BY <2>3, <3>1, <3>3
  <2>16. \A r \in pass'[u].rows : Behind(r, pass[u].offsets)' /\ ~ Behind(r, cursor)'
    BY <1>2, <2>8, <2>14, <2>15 DEF Behind, OnDisk
  <2>17. \A r \in Requests : credits[r] >= 1 => Behind(r, cursor)
    BY <1>0, <2>2 DEF CInv
  <2>18. \A r \in Requests : credits'[r] <= 1 /\ (credits'[r] >= 1 => Behind(r, cursor)')
    BY <1>1, <1>2, <2>8, <2>17 DEF Behind, OnDisk
  <2>19. pass'[u].credits = credits' /\ \A d \in Boots : cursor'[d] <= pass'[u].offsets[d]
    BY <2>3, <2>8, <2>12
  <2> QED BY <1>0, <2>8, <2>13, <2>16, <2>18, <2>19 DEF CInv, CreditedOnce
<1>4. CASE WriteLedger(u)
  <2>1. /\ pass[u].at = "read" /\ pass'[u].at = "credited"
        /\ pass'[u].offsets = pass[u].offsets
        /\ UNCHANGED cursor
    BY <1>1, <1>4 DEF WriteLedger, Passes
  <2>2. /\ pass[u].credits = credits
        /\ \A b \in Boots : cursor[b] <= pass[u].offsets[b]
        /\ \A r \in pass[u].rows : Behind(r, pass[u].offsets) /\ ~ Behind(r, cursor)
    BY <2>1 DEF CInv
  <2>3. \A r \in Requests : credits'[r] = credits[r] + (IF r \in pass[u].rows THEN 1 ELSE 0)
    BY <1>4, <2>2 DEF WriteLedger
  <2>4. \A r \in Requests : credits[r] >= 1 => Behind(r, cursor)
    BY <1>0, <2>1 DEF CInv
  <2>5. \A r \in Requests : Behind(r, cursor) => Behind(r, pass[u].offsets)
    <3>1. pass[u].offsets \in [Boots -> Nat]
      BY <1>1 DEF Passes
    <3>2. \A b \in Boots : \A i \in 1..cursor[b] : i \in 1..pass[u].offsets[b]
      BY <1>1, <2>2, <3>1
    <3> QED BY <3>2 DEF Behind
  <2>6. \A r \in Requests : credits'[r] <= 1 /\ (credits'[r] >= 1 => Behind(r, pass[u].offsets))
    BY <1>1, <2>2, <2>3, <2>4, <2>5
  <2>7. \A r \in Requests : credits'[r] >= 1 => Behind(r, pass[u].offsets)'
    BY <1>2, <2>1, <2>6 DEF Behind, OnDisk
  <2> QED BY <1>0, <2>1, <2>6, <2>7 DEF CInv, CreditedOnce
<1>5. CASE WriteCursor(u)
  <2>1. /\ pass[u].at = "credited" /\ pass'[u].at = "idle"
        /\ cursor' = pass[u].offsets
        /\ UNCHANGED credits
    BY <1>1, <1>5 DEF WriteCursor, NoPass
  <2>2. \A r \in Requests : credits[r] >= 1 => Behind(r, pass[u].offsets)
    BY <2>1 DEF CInv
  <2>3. \A r \in Requests : credits'[r] >= 1 => Behind(r, cursor)'
    BY <1>2, <2>1, <2>2 DEF Behind, OnDisk
  <2>4. \A r \in Requests : credits'[r] <= 1
    BY <1>1, <2>1
  <2>5. \A v \in Updaters : pass'[v].at = "idle"
    BY <1>0, <2>1
  <2> QED BY <2>3, <2>4, <2>5 DEF CInv, CreditedOnce
<1>6. CASE PassDies(u)
  <2>1. /\ pass[u].at = "read" /\ pass'[u].at = "idle" /\ UNCHANGED <<credits, cursor>>
    BY <1>1, <1>6 DEF PassDies, NoPass, Careful
  <2>2. \A r \in Requests : credits[r] >= 1 => Behind(r, cursor)
    BY <1>0, <2>1 DEF CInv
  <2>3. \A r \in Requests : credits'[r] >= 1 => Behind(r, cursor)'
    BY <1>2, <2>1, <2>2 DEF Behind, OnDisk
  <2>4. \A r \in Requests : credits'[r] <= 1
    BY <1>1, <2>1
  <2>5. \A v \in Updaters : pass'[v].at = "idle"
    BY <1>0, <2>1
  <2> QED BY <2>3, <2>4, <2>5 DEF CInv, CreditedOnce
<1> QED BY <1>3, <1>4, <1>5, <1>6, <1>7, <1>8 DEF Pass

\* For any number of requests and boots, through crashes, failed writes and open
\* pairs at the end of a pass: one updater that is not killed between the ledger
\* and the cursor credits no pair twice.
THEOREM CreditsOnce == ASSUME Careful PROVE Spec => []CreditedOnce
<1>1. Init => CInv
  BY DEF Init, CInv, CreditedOnce, NoPass
<1>2. BInv /\ CInv /\ [Next]_vars => CInv'
  BY CEngine, CPass, OnlyPass
<1>3. CInv => CreditedOnce
  BY DEF CInv
<1> QED BY <1>1, <1>2, <1>3, Bases, PTL DEF Spec

-----------------------------------------------------------------------------
(* The rows that the score lines name.                                     *)

LEMMA AlignedEmpty == \A f : Aligned(<<>>, f)
BY DEF Aligned

LEMMA AlignedMore ==
  ASSUME NEW lines \in Seq(Line), NEW f \in Seq(Requests), NEW g \in Seq(Requests),
         Aligned(lines, f)
  PROVE  Aligned(lines, f \o g)
<1> SUFFICES ASSUME NEW i \in 1..Len(lines), IsScore(lines[i])
             PROVE  lines[i].row < Len(f \o g) /\ (f \o g)[lines[i].row + 1] = lines[i].req
  BY DEF Aligned
<1>1. lines[i] \in Line
  BY ElementOfSeq
<1>2. lines[i].row \in Nat
  BY <1>1 DEF Line
<1>3. lines[i].row < Len(f) /\ f[lines[i].row + 1] = lines[i].req
  BY DEF Aligned
<1>4. /\ Len(f) \in Nat /\ Len(g) \in Nat /\ Len(f \o g) = Len(f) + Len(g)
      /\ \A k \in 1..(Len(f) + Len(g)) : k <= Len(f) => (f \o g)[k] = f[k]
  BY ConcatProperties
<1>5. lines[i].row + 1 \in 1..(Len(f) + Len(g)) /\ lines[i].row + 1 <= Len(f)
  BY <1>2, <1>3, <1>4
<1> QED BY <1>2, <1>3, <1>4, <1>5

LEMMA AlignedAppend ==
  ASSUME NEW lines \in Seq(Line), NEW f \in Seq(Requests), NEW line \in Line, Aligned(lines, f),
         IsScore(line) => line.row < Len(f) /\ f[line.row + 1] = line.req
  PROVE  Aligned(Append(lines, line), f)
<1> DEFINE t == Append(lines, line)
<1>1. /\ Len(lines) \in Nat /\ Len(t) = Len(lines) + 1
      /\ \A i \in 1..Len(lines) : t[i] = lines[i]
      /\ t[Len(lines) + 1] = line
  BY AppendProperties
<1> HIDE DEF t
<1>2. \A i \in 1..Len(t) : i \in 1..Len(lines) \/ i = Len(lines) + 1
  BY <1>1
<1>3. Aligned(t, f)
  BY <1>1, <1>2 DEF Aligned
<1> QED BY <1>3 DEF t

LEMMA AlignedTail ==
  ASSUME NEW lines \in Seq(Line), NEW f \in Seq(Requests), Aligned(lines, f), lines # <<>>
  PROVE  /\ Aligned(Tail(lines), f)
         /\ IsScore(Head(lines)) => /\ Head(lines).row < Len(f)
                                    /\ f[Head(lines).row + 1] = Head(lines).req
<1> DEFINE t == Tail(lines)
<1>1. /\ Len(lines) \in Nat /\ Len(lines) # 0 /\ Len(t) = Len(lines) - 1
      /\ \A i \in 1..Len(t) : t[i] = lines[i + 1]
      /\ Head(lines) = lines[1]
  BY HeadTailProperties, EmptySeq
<1> HIDE DEF t
<1>2. 1 \in 1..Len(lines) /\ \A i \in 1..Len(t) : i + 1 \in 1..Len(lines)
  BY <1>1
<1>3. Aligned(t, f)
  BY <1>1, <1>2 DEF Aligned
<1>4. IsScore(Head(lines)) => Head(lines).row < Len(f) /\ f[Head(lines).row + 1] = Head(lines).req
  BY <1>1, <1>2 DEF Aligned
<1> QED BY <1>3, <1>4 DEF t

\* The types the steps below use.
LEMMA Sequences ==
  ASSUME TInv
  PROVE  /\ buf \in Seq(Line) /\ out \in Seq(Line) /\ fbuf \in Seq(Requests) /\ fout \in Seq(Requests)
         /\ meta \in [Boots -> Seq(Line)] /\ feats \in [Boots -> Seq(Requests)]
         /\ boot \in Boots /\ rows \in Nat /\ boot \in Nat /\ Boots \subseteq Nat
         /\ Taken \in Seq(Requests) /\ Queued \in Seq(Requests)
         /\ out = <<>> <=> flush.at = "none"
         /\ sink \in BOOLEAN
         /\ req \in [Requests -> {"new", "scored", "finished", "lost"}]
<1>1. /\ buf \in Seq(Line) /\ out \in Seq(Line) /\ fbuf \in Seq(Requests) /\ fout \in Seq(Requests)
      /\ meta \in [Boots -> Seq(Line)] /\ feats \in [Boots -> Seq(Requests)]
      /\ boot \in Boots /\ rows \in Nat
      /\ out = <<>> <=> flush.at = "none"
      /\ sink \in BOOLEAN
      /\ req \in [Requests -> {"new", "scored", "finished", "lost"}]
  BY DEF TInv, TypeOK
<1>2. Boots \subseteq Nat
  BY ConstantsAssumption DEF Boots
<1>3. feats[boot] \in Seq(Requests)
  BY <1>1
<1>4. Taken \in Seq(Requests)
  BY <1>1, <1>3, ConcatProperties DEF Taken
<1>5. Queued \in Seq(Requests)
  BY <1>1, <1>4, ConcatProperties DEF Queued
<1> QED BY <1>1, <1>2, <1>4, <1>5

LEMMA AlignedAppends ==
  ASSUME TInv, AInv, NEW feat \in Seq(Requests), NEW line \in Line, Appends(feat, line),
         rows' = rows + Len(feat),
         IsScore(line) => line.row = rows /\ feat = <<line.req>>
  PROVE  AInv'
<1>0. /\ engine = "free" /\ sink /\ engine' # "closed" /\ engine' # "dead"
      /\ fbuf' = fbuf \o feat /\ buf' = Append(buf, line)
      /\ UNCHANGED <<boot, sink, out, fout, flush, feats, meta>>
  BY DEF Appends, files
<1>1. Taken' = Taken /\ Queued' = Queued \o feat
  <2>1. Taken' = Taken
    BY <1>0 DEF Taken
  <2>2. Queued' = Taken \o (fbuf \o feat)
    BY <1>0, <2>1 DEF Queued
  <2>3. (Taken \o fbuf) \o feat = Taken \o (fbuf \o feat)
    <3>1. Taken \in Seq(Requests) /\ fbuf \in Seq(Requests)
      BY Sequences
    <3> QED BY <3>1, ConcatAssociative, SMTT(30)
  <2> QED BY <2>1, <2>2, <2>3 DEF Queued
<1>2. /\ Len(Queued) = rows /\ Len(Queued') = rows + Len(feat)
      /\ Queued' \in Seq(Requests)
      /\ \A k \in 1..(rows + Len(feat)) : k > rows => Queued'[k] = feat[k - rows]
  <2>1. Len(Queued) = rows /\ Queued \in Seq(Requests)
    BY <1>0, Sequences DEF AInv
  <2>2. /\ Queued \o feat \in Seq(Requests)
        /\ Len(Queued \o feat) = Len(Queued) + Len(feat)
        /\ \A k \in 1..(Len(Queued) + Len(feat)) :
             k > Len(Queued) => (Queued \o feat)[k] = feat[k - Len(Queued)]
    <3> DEFINE q == Queued
    <3>1. q \in Seq(Requests)
      BY <2>1
    <3> HIDE DEF q
    <3>2. Len(q) \in Nat /\ Len(feat) \in Nat
      BY <3>1
    <3>3. /\ q \o feat \in Seq(Requests) /\ Len(q \o feat) = Len(q) + Len(feat)
          /\ \A k \in 1..(Len(q) + Len(feat)) : k > Len(q) => (q \o feat)[k] = feat[k - Len(q)]
      BY <3>1, <3>2, ConcatProperties
    <3> QED BY <3>3 DEF q
  <2>3. rows \in Nat /\ Len(feat) \in Nat
    BY Sequences
  <2> QED BY <1>1, <2>1, <2>2, <2>3
<1>3. Aligned(buf, Queued')
  BY <1>0, <1>1, Sequences, AlignedMore DEF AInv
<1>4. IsScore(line) => line.row < Len(Queued') /\ Queued'[line.row + 1] = line.req
  <2> SUFFICES ASSUME IsScore(line) PROVE line.row < Len(Queued') /\ Queued'[line.row + 1] = line.req
    OBVIOUS
  <2>1. line.row = rows /\ Len(feat) = 1 /\ feat[1] = line.req /\ rows \in Nat
    BY Sequences
  <2> QED BY <1>2, <2>1
<1>5. Aligned(buf', Queued')
  BY <1>0, <1>2, <1>3, <1>4, Sequences, AlignedAppend
<1>6. buf' # <<>>
  BY <1>0, Sequences, AppendProperties, SMTT(30)
<1> QED BY <1>0, <1>1, <1>2, <1>5, <1>6 DEF AInv

LEMMA AlignedEngine ==
  ASSUME TInv, AInv, Close \/ Crash \/ Restart \/ FlushReturns
  PROVE  AInv'
<1>1. CASE Close
  BY <1>1 DEF Close, files, AInv, Taken, Queued
<1>2. CASE FlushReturns
  BY <1>2, Sequences DEF FlushReturns, files, AInv, Taken, Queued
<1>3. CASE Crash
  <2>1. /\ buf' = <<>> /\ fbuf' = <<>> /\ out' = <<>> /\ fout' = <<>> /\ sink' = FALSE
        /\ UNCHANGED <<boot, feats, meta>>
    BY <1>3 DEF Crash, files
  <2>2. Aligned(out', Taken')
    BY <2>1, AlignedEmpty
  <2> QED BY <2>1, <2>2 DEF AInv
<1>4. CASE Restart
  <2>1. /\ boot' = boot + 1 /\ boot < MaxBoots /\ sink' = TRUE /\ rows' = 0 /\ engine' = "free"
        /\ buf = <<>> /\ out = <<>>
        /\ UNCHANGED <<buf, fbuf, out, fout, flush, feats, meta>>
    BY <1>4 DEF Restart, files, AInv
  <2>2. flush.at = "none" /\ fbuf = <<>> /\ fout = <<>>
    BY <2>1, Sequences DEF AInv
  <2>3. boot' \in Boots /\ boot' > boot /\ \A b \in Boots : b > boot' => b > boot
    BY <2>1, Sequences, ConstantsAssumption, SMTT(30) DEF Boots
  <2>4. feats'[boot'] = <<>>
    BY <2>1, <2>3 DEF AInv
  <2>5. Taken' = <<>> /\ Queued' = <<>>
    BY <2>1, <2>2, <2>4 DEF Taken, Queued
  <2>6. Aligned(out', Taken') /\ Aligned(buf', Queued') /\ Len(Queued') = rows'
    BY <2>1, <2>5, AlignedEmpty
  <2> QED BY <2>1, <2>2, <2>3, <2>6 DEF AInv
<1> QED BY <1>1, <1>2, <1>3, <1>4

LEMMA AlignedWrites ==
  ASSUME TInv, AInv, Writes \/ \E who \in {"engine", "flusher"} : BeginFlush(who)
  PROVE  AInv'
<1>1. ASSUME NEW who \in {"engine", "flusher"}, BeginFlush(who) PROVE AInv'
  <2>1. /\ flush.at = "none" /\ buf # <<>> /\ buf' = <<>> /\ fbuf' = <<>>
        /\ out' = (IF sink THEN buf ELSE <<>>)
        /\ fout' = (IF sink THEN fbuf ELSE <<>>)
        /\ flush'.at = (IF sink THEN "feats" ELSE "none")
        /\ UNCHANGED <<boot, engine, sink, rows, feats, meta>>
    BY <1>1 DEF BeginFlush, files
  <2>2. fout = <<>> /\ Taken = feats[boot]
    <3>1. fout = <<>>
      BY <2>1 DEF AInv
    <3> QED BY <3>1, Sequences, ConcatEmptySeq DEF Taken
  <2>3. CASE sink
    <3>1. Taken' = Queued /\ Queued' = Queued
      <4>1. Taken' = Queued
        BY <2>1, <2>2, <2>3 DEF Taken, Queued
      <4> QED BY <2>1, <4>1, Sequences, ConcatEmptySeq DEF Queued
    <3>2. Aligned(out', Taken') /\ Aligned(buf', Queued') /\ Len(Queued') = rows'
      BY <2>1, <2>3, <3>1, AlignedEmpty DEF AInv
    <3> QED BY <2>1, <2>3, <3>2 DEF AInv
  <2>4. CASE ~ sink
    BY <2>1, <2>4, AlignedEmpty DEF AInv
  <2> QED BY <2>3, <2>4
<1>2. CASE WriteFeats
  <2>1. /\ flush'.at = "lines" /\ fout' = <<>>
        /\ feats' = [feats EXCEPT ![boot] = @ \o fout]
        /\ UNCHANGED <<boot, engine, sink, rows, buf, fbuf, out, meta>>
    BY <1>2 DEF WriteFeats, files
  <2>2. feats'[boot] = Taken /\ \A b \in Boots : b # boot => feats'[b] = feats[b]
    BY <2>1, Sequences DEF Taken
  <2>3. Taken' = Taken /\ Queued' = Queued
    BY <2>1, <2>2, Sequences, ConcatEmptySeq DEF Taken, Queued
  <2>4. ASSUME NEW b \in Boots PROVE Aligned(meta'[b], feats'[b])
    <3>1. meta[b] \in Seq(Line) /\ feats[b] \in Seq(Requests) /\ Aligned(meta[b], feats[b])
      BY Sequences DEF AInv
    <3>2. CASE b = boot
      BY <2>1, <2>2, <3>1, <3>2, Sequences, AlignedMore DEF Taken
    <3>3. CASE b # boot
      BY <2>1, <2>2, <3>1, <3>3
    <3> QED BY <3>2, <3>3
  <2>5. \A b \in Boots : b > boot' => feats'[b] = <<>> /\ meta'[b] = <<>>
    BY <2>1, <2>2, Sequences DEF AInv
  <2> QED BY <2>1, <2>3, <2>4, <2>5 DEF AInv
<1>3. CASE WritePart
  BY <1>3 DEF WritePart, writer, AInv, Taken, Queued
<1>4. CASE WriteLine
  <2>1. /\ flush.at = "lines" /\ out # <<>> /\ out' = Tail(out)
        /\ meta' = [meta EXCEPT ![boot] = Append(@, Head(out))]
        /\ flush'.at \in {"lines", "none"}
        /\ UNCHANGED <<boot, engine, sink, rows, buf, fbuf, fout, feats>>
    BY <1>4 DEF WriteLine
  <2>2. Taken' = Taken /\ Queued' = Queued /\ fout = <<>> /\ Taken = feats[boot]
    <3>1. fout = <<>>
      BY <2>1 DEF AInv
    <3> QED BY <2>1, <3>1, Sequences, ConcatEmptySeq DEF Taken, Queued
  <2>3. /\ Aligned(out', Taken)
        /\ IsScore(Head(out)) => /\ Head(out).row < Len(Taken)
                                 /\ Taken[Head(out).row + 1] = Head(out).req
    BY <2>1, Sequences, AlignedTail DEF AInv
  <2>4. Head(out) \in Line
    BY <2>1, Sequences, HeadTailProperties
  <2>5. ASSUME NEW b \in Boots PROVE Aligned(meta'[b], feats'[b])
    <3>1. meta[b] \in Seq(Line) /\ feats[b] \in Seq(Requests) /\ Aligned(meta[b], feats[b])
      BY Sequences DEF AInv
    <3>2. CASE b = boot
      <4>1. meta'[b] = Append(meta[b], Head(out)) /\ feats'[b] = Taken
        BY <2>1, <2>2, <3>2, Sequences
      <4> QED BY <2>2, <2>3, <2>4, <3>1, <3>2, <4>1, AlignedAppend
    <3>3. CASE b # boot
      BY <2>1, <3>1, <3>3, Sequences
    <3> QED BY <3>2, <3>3
  <2>6. \A b \in Boots : b > boot' => feats'[b] = <<>> /\ meta'[b] = <<>>
    BY <2>1, Sequences DEF AInv
  <2>7. sink /\ engine \notin {"closed", "dead"}
    BY <2>1, Sequences DEF AInv
  <2> QED BY <2>1, <2>2, <2>3, <2>5, <2>6, <2>7 DEF AInv
<1>5. CASE WriteFails
  <2>1. /\ out' = <<>> /\ fout' = <<>> /\ sink' = FALSE
        /\ UNCHANGED <<boot, engine, buf, fbuf, feats, meta>>
    BY <1>5 DEF WriteFails, files
  <2> QED BY <2>1, AlignedEmpty DEF AInv
<1> QED BY <1>1, <1>2, <1>3, <1>4, <1>5 DEF Writes

LEMMA AStep == TInv /\ AInv /\ [Next]_vars => AInv'
<1> SUFFICES ASSUME TInv, AInv, [Next]_vars PROVE AInv'
  OBVIOUS
<1>1. ASSUME NEW r \in Requests, Score(r) PROVE AInv'
  <2> DEFINE line == [req |-> r, kind |-> "score", row |-> rows]
  <2>1. line \in Line /\ line.row = rows /\ <<r>> = <<line.req>> /\ <<r>> \in Seq(Requests)
    BY Sequences DEF Line
  <2>2. Appends(<<r>>, line) /\ rows' = rows + Len(<<r>>)
    BY <1>1 DEF Score
  <2> HIDE DEF line
  <2> QED BY <2>1, <2>2, AlignedAppends
<1>2. ASSUME NEW r \in Requests, Finish(r) PROVE AInv'
  <2> DEFINE line == [req |-> r, kind |-> "finish", row |-> 0]
  <2>1. line \in Line /\ ~ IsScore(line) /\ <<>> \in Seq(Requests)
    BY DEF Line, IsScore
  <2>2. Appends(<<>>, line) /\ rows' = rows + Len(<<>>)
    BY <1>2, Sequences DEF Finish
  <2> HIDE DEF line
  <2> QED BY <2>1, <2>2, AlignedAppends
<1>3. ASSUME NEW r \in Requests, Ages(r) PROVE AInv'
  BY <1>3 DEF Ages, writer, files, AInv, Taken, Queued
<1>4. ASSUME NEW u \in Updaters, Pass(u) \/ PassDies(u) PROVE AInv'
  BY <1>4, PassKeeps DEF writer, files, AInv, Taken, Queued
<1>5. CASE UNCHANGED vars
  BY <1>5 DEF vars, writer, files, AInv, Taken, Queued
<1> QED BY <1>1, <1>2, <1>3, <1>4, <1>5, AlignedEngine, AlignedWrites DEF Next

LEMMA AInit == Init => AInv
<1> SUFFICES ASSUME Init PROVE AInv
  OBVIOUS
<1>1. TInv
  BY TypeInit
<1>2. /\ buf = <<>> /\ out = <<>> /\ fbuf = <<>> /\ fout = <<>> /\ rows = 0
      /\ \A b \in Boots : feats[b] = <<>> /\ meta[b] = <<>>
  BY DEF Init
<1>3. Taken = <<>> /\ Queued = <<>>
  BY <1>1, <1>2, Sequences DEF Taken, Queued
<1> QED BY <1>2, <1>3, AlignedEmpty DEF AInv

LEMMA Alignment == Spec => []AInv
BY AInit, AStep, LedgerTypes, Bases, PTL DEF Spec, BInv

\* For any number of requests and boots and any size of the buffer, through flushes
\* that overlap appends, failed writes and crashes: the feature row a score line in
\* the meta file names is on the disk and is that request's own (_sink_flush: rows
\* first, the snapshot inside the io lock).
THEOREM RowsStayAligned == Spec => []RowsAligned
<1>1. AInv => RowsAligned
  BY DEF AInv, Aligned, RowsAligned
<1> QED BY <1>1, Alignment, PTL

-----------------------------------------------------------------------------
(* A clean shutdown.                                                       *)

LEMMA LinesEmpty == \A n, r : ~ Names(<<>>, n) /\ ~ Ends(<<>>, r)
BY DEF Names, Ends

LEMMA LinesAppend ==
  ASSUME NEW s \in Seq(Line), NEW line \in Line
  PROVE  LET t == Append(s, line)
         IN  /\ \A n : Names(t, n) <=> Names(s, n) \/ (IsScore(line) /\ line.row = n)
             /\ \A r : Ends(t, r) <=> Ends(s, r) \/ (line.kind = "finish" /\ line.req = r)
             /\ \A i \in 1..Len(s) : i \in 1..Len(t) /\ t[i] = s[i]
             /\ \A i \in 1..Len(t) : i \in 1..Len(s) \/ t[i] = line
             /\ \A i \in 1..Len(s) : \A r : EndsHere(s, i, r) => EndsHere(t, i, r)
             /\ line.kind = "finish" => \A i \in 1..Len(t) : EndsHere(t, i, line.req)
<1> DEFINE t == Append(s, line)
<1>1. /\ Len(s) \in Nat /\ Len(t) = Len(s) + 1
      /\ \A i \in 1..Len(s) : t[i] = s[i]
      /\ t[Len(s) + 1] = line
  BY AppendProperties
<1> HIDE DEF t
<1>2. /\ \A i \in 1..Len(s) : i \in 1..Len(t)
      /\ \A i \in 1..Len(t) : i \in 1..Len(s) \/ i = Len(s) + 1
      /\ Len(s) + 1 \in 1..Len(t)
      /\ \A i \in 1..Len(s) : \A j \in i..Len(s) : j \in i..Len(t) /\ j \in 1..Len(s)
      /\ \A i \in 1..Len(t) : Len(s) + 1 \in i..Len(t)
  BY <1>1
<1>3. \A n : Names(t, n) <=> Names(s, n) \/ (IsScore(line) /\ line.row = n)
  BY <1>1, <1>2 DEF Names
<1>4. \A r : Ends(t, r) <=> Ends(s, r) \/ (line.kind = "finish" /\ line.req = r)
  BY <1>1, <1>2 DEF Ends, FinishAt
<1>5. \A i \in 1..Len(s) : \A r : EndsHere(s, i, r) => EndsHere(t, i, r)
  BY <1>1, <1>2 DEF EndsHere, FinishAt
<1>6. line.kind = "finish" => \A i \in 1..Len(t) : EndsHere(t, i, line.req)
  BY <1>1, <1>2 DEF EndsHere, FinishAt
<1> QED BY <1>1, <1>2, <1>3, <1>4, <1>5, <1>6 DEF t

LEMMA LinesTail ==
  ASSUME NEW s \in Seq(Line), s # <<>>
  PROVE  LET t == Tail(s)
             line == Head(s)
         IN  /\ \A n : Names(s, n) => Names(t, n) \/ (IsScore(line) /\ line.row = n)
             /\ \A r : Ends(s, r) => Ends(t, r) \/ (line.kind = "finish" /\ line.req = r)
             /\ \A i \in 1..Len(t) : i + 1 \in 1..Len(s) /\ t[i] = s[i + 1]
             /\ \A i \in 1..Len(t) : \A r : EndsHere(s, i + 1, r) => EndsHere(t, i, r)
             /\ 1 \in 1..Len(s) /\ s[1] = line
             /\ IsScore(line) => \A r : EndsHere(s, 1, r) => Ends(t, r)
<1> DEFINE t == Tail(s)
           line == Head(s)
<1>1. /\ Len(s) \in Nat /\ Len(s) # 0 /\ Len(t) = Len(s) - 1
      /\ \A i \in 1..Len(t) : t[i] = s[i + 1]
      /\ line = s[1]
  BY HeadTailProperties, EmptySeq
<1> HIDE DEF t, line
<1>2. /\ \A i \in 1..Len(t) : i + 1 \in 1..Len(s)
      /\ 1 \in 1..Len(s)
      /\ \A i \in 1..Len(s) : i = 1 \/ (i - 1 \in 1..Len(t) /\ t[i - 1] = s[i])
      /\ \A i \in 1..Len(t) : \A j \in (i + 1)..Len(s) : j \in 1..Len(s) /\ j # 1 /\ j - 1 \in i..Len(t)
  BY <1>1
<1>3. \A n : Names(s, n) => Names(t, n) \/ (IsScore(line) /\ line.row = n)
  BY <1>1, <1>2 DEF Names
<1>4. \A r : Ends(s, r) => Ends(t, r) \/ (line.kind = "finish" /\ line.req = r)
  BY <1>1, <1>2 DEF Ends, FinishAt
<1>5. \A i \in 1..Len(t) : \A r : EndsHere(s, i + 1, r) => EndsHere(t, i, r)
  BY <1>1, <1>2 DEF EndsHere, FinishAt
<1>6. \A r : EndsHere(s, 1, r) => Ends(s, r)
  BY DEF EndsHere, Ends
<1>7. IsScore(line) => line.kind # "finish"
  BY DEF IsScore
<1> QED BY <1>1, <1>2, <1>3, <1>4, <1>5, <1>6, <1>7 DEF t, line

LEMMA FollowedAppends ==
  ASSUME TInv, LInv, NEW feat, NEW line \in Line, Appends(feat, line),
         \/ IsScore(line) /\ line.row = rows /\ rows' = rows + 1
         \/ line.kind = "finish" /\ rows' = rows,
         \A r \in Requests : req'[r] = "finished" =>
           IF line.kind = "finish" /\ r = line.req THEN TRUE ELSE req[r] = "finished",
         IsScore(line) => req'[line.req] # "finished"
  PROVE  LInv'
<1>0. /\ sink /\ buf' = Append(buf, line) /\ UNCHANGED <<out, boot, meta>>
      /\ buf \in Seq(Line) /\ rows \in Nat
  BY Sequences DEF Appends, files
<1> DEFINE t == Append(buf, line)
<1>1. /\ \A n : Names(t, n) <=> Names(buf, n) \/ (IsScore(line) /\ line.row = n)
      /\ \A r : Ends(t, r) <=> Ends(buf, r) \/ (line.kind = "finish" /\ line.req = r)
      /\ \A i \in 1..Len(t) : i \in 1..Len(buf) \/ t[i] = line
      /\ \A i \in 1..Len(buf) : i \in 1..Len(t) /\ t[i] = buf[i]
      /\ \A i \in 1..Len(buf) : \A r : EndsHere(buf, i, r) => EndsHere(t, i, r)
      /\ line.kind = "finish" => \A i \in 1..Len(t) : EndsHere(t, i, line.req)
  BY <1>0, LinesAppend
<1> HIDE DEF t
<1>2. buf' = t
  BY <1>0 DEF t
<1>3. RowsNamed'
  <2> SUFFICES ASSUME NEW n \in 0..(rows' - 1)
               PROVE  Names(meta[boot], n) \/ Names(out, n) \/ Names(t, n)
    BY <1>0, <1>2 DEF RowsNamed
  <2>1. CASE n \in 0..(rows - 1)
    BY <1>0, <1>1, <2>1 DEF LInv, RowsNamed
  <2>2. CASE n \notin 0..(rows - 1)
    <3>1. IsScore(line) /\ line.row = rows /\ n = rows
      BY <1>0, <2>2
    <3> QED BY <1>1, <3>1
  <2> QED BY <2>1, <2>2
<1>4. ASSUME NEW r \in Requests, req'[r] = "finished" PROVE Followed(r)'
  <2>1. CASE line.kind = "finish" /\ r = line.req
    <3>1. Ends(t, r) /\ \A i \in 1..Len(t) : EndsHere(t, i, r)
      BY <1>1, <2>1
    <3> QED BY <1>0, <1>2, <3>1 DEF Followed
  <2>2. CASE ~ (line.kind = "finish" /\ r = line.req)
    <3>1. Followed(r) /\ ~ (IsScore(line) /\ line.req = r)
      BY <1>0, <1>4, <2>2 DEF LInv
    <3>2. \A i \in 1..Len(t) : ScoreAt(t, i, r) => EndsHere(t, i, r)
      BY <1>1, <3>1 DEF Followed, ScoreAt
    <3>3. Ends(buf, r) => Ends(t, r)
      BY <1>1
    <3> QED BY <1>0, <1>2, <3>1, <3>2, <3>3 DEF Followed
  <2> QED BY <2>1, <2>2
<1> QED BY <1>3, <1>4 DEF LInv

\* Nothing but a flush's own steps moves lines while the sink is open.
LEMMA FollowedSame ==
  ASSUME LInv, UNCHANGED <<boot, rows, buf, out, meta>>, sink' => sink,
         \A r \in Requests : req'[r] = "finished" => req[r] = "finished"
  PROVE  LInv'
BY DEF LInv, RowsNamed, Followed

LEMMA FollowedFlush ==
  ASSUME TInv, AInv, LInv, NEW who \in {"engine", "flusher"}, BeginFlush(who)
  PROVE  LInv'
<1> SUFFICES ASSUME sink' PROVE RowsNamed' /\ \A r \in Requests : req'[r] = "finished" => Followed(r)'
  BY DEF LInv
<1>1. /\ sink /\ out = <<>> /\ out' = buf /\ buf' = <<>>
      /\ UNCHANGED <<boot, rows, req, meta>>
  BY Sequences DEF BeginFlush, files
<1>2. RowsNamed'
  BY <1>1, LinesEmpty DEF LInv, RowsNamed
<1>3. ASSUME NEW r \in Requests, req'[r] = "finished" PROVE Followed(r)'
  <2>1. Followed(r)
    BY <1>1, <1>3 DEF LInv
  <2>2. \A i \in 1..Len(<<>>) : FALSE
    OBVIOUS
  <2> QED BY <1>1, <2>1, <2>2, LinesEmpty DEF Followed
<1> QED BY <1>2, <1>3

LEMMA FollowedLine ==
  ASSUME TInv, LInv, sink, WriteLine
  PROVE  LInv'
<1>0. /\ out # <<>> /\ out' = Tail(out) /\ meta'[boot] = Append(meta[boot], Head(out))
      /\ UNCHANGED <<boot, rows, req, sink, buf>>
      /\ out \in Seq(Line) /\ meta[boot] \in Seq(Line)
  BY Sequences DEF WriteLine
<1> DEFINE t == Tail(out)
           line == Head(out)
           m == meta[boot]
           n == Append(m, line)
<1>1. line \in Line /\ m \in Seq(Line)
  BY <1>0, HeadTailProperties
<1>2. /\ \A k : Names(out, k) => Names(t, k) \/ (IsScore(line) /\ line.row = k)
      /\ \A r : Ends(out, r) => Ends(t, r) \/ (line.kind = "finish" /\ line.req = r)
      /\ \A i \in 1..Len(t) : i + 1 \in 1..Len(out) /\ t[i] = out[i + 1]
      /\ \A i \in 1..Len(t) : \A r : EndsHere(out, i + 1, r) => EndsHere(t, i, r)
      /\ 1 \in 1..Len(out) /\ out[1] = line
      /\ IsScore(line) => \A r : EndsHere(out, 1, r) => Ends(t, r)
  BY <1>0, LinesTail
<1> HIDE DEF t, line, m
<1>3. /\ \A k : Names(n, k) <=> Names(m, k) \/ (IsScore(line) /\ line.row = k)
      /\ \A i \in 1..Len(n) : i \in 1..Len(m) \/ n[i] = line
      /\ \A i \in 1..Len(m) : i \in 1..Len(n) /\ n[i] = m[i]
      /\ \A i \in 1..Len(m) : \A r : EndsHere(m, i, r) => EndsHere(n, i, r)
      /\ line.kind = "finish" => \A i \in 1..Len(n) : EndsHere(n, i, line.req)
  BY <1>1, LinesAppend
<1> HIDE DEF n
<1>4. out' = t /\ meta'[boot'] = n
  BY <1>0 DEF t, n, m, line
<1>5. RowsNamed'
  BY <1>0, <1>2, <1>3, <1>4 DEF LInv, RowsNamed, m
<1>6. ASSUME NEW r \in Requests, req'[r] = "finished" PROVE Followed(r)'
  <2>1. Followed(r)
    BY <1>0, <1>6 DEF LInv
  <2>2. \A i \in 1..Len(t) : ScoreAt(t, i, r) => EndsHere(t, i, r) \/ Ends(buf, r)
    BY <1>2, <2>1 DEF Followed, ScoreAt
  <2>3. ASSUME NEW i \in 1..Len(n), ScoreAt(n, i, r)
        PROVE  EndsHere(n, i, r) \/ Ends(t, r) \/ Ends(buf, r)
    <3>1. CASE i \in 1..Len(m)
      <4>1. EndsHere(m, i, r) \/ Ends(out, r) \/ Ends(buf, r)
        BY <1>3, <2>1, <2>3, <3>1 DEF Followed, ScoreAt, m
      <4> QED BY <1>2, <1>3, <3>1, <4>1
    <3>2. CASE i \notin 1..Len(m)
      <4>1. n[i] = line /\ ScoreAt(out, 1, r)
        BY <1>2, <1>3, <2>3, <3>2 DEF ScoreAt
      <4>2. EndsHere(out, 1, r) \/ Ends(buf, r)
        BY <1>2, <2>1, <4>1 DEF Followed
      <4> QED BY <1>2, <2>3, <4>1, <4>2 DEF ScoreAt
    <3> QED BY <3>1, <3>2
  <2>4. buf' = buf /\ \A i \in 1..Len(buf) : ScoreAt(buf, i, r) => EndsHere(buf, i, r)
    BY <1>0, <2>1 DEF Followed
  <2> QED BY <1>4, <2>2, <2>3, <2>4 DEF Followed
<1> QED BY <1>5, <1>6 DEF LInv

LEMMA LStep == TInv /\ AInv /\ LInv /\ [Next]_vars => LInv'
<1> SUFFICES ASSUME TInv, AInv, LInv, [Next]_vars PROVE LInv'
  OBVIOUS
<1>0. req \in [Requests -> {"new", "scored", "finished", "lost"}] /\ rows \in Nat
  BY Sequences
<1>1. ASSUME NEW r \in Requests, Score(r) PROVE LInv'
  <2> DEFINE line == [req |-> r, kind |-> "score", row |-> rows]
  <2>1. line \in Line /\ IsScore(line) /\ line.row = rows /\ line.req = r
    BY <1>0 DEF Line, IsScore
  <2>2. Appends(<<r>>, line) /\ rows' = rows + 1 /\ req' = [req EXCEPT ![r] = "scored"]
    BY <1>1 DEF Score
  <2>3. req'[r] # "finished" /\ \A q \in Requests : req'[q] = "finished" => req[q] = "finished"
    BY <1>0, <2>2
  <2> HIDE DEF line
  <2> QED BY <2>1, <2>2, <2>3, FollowedAppends
<1>2. ASSUME NEW r \in Requests, Finish(r) PROVE LInv'
  <2> DEFINE line == [req |-> r, kind |-> "finish", row |-> 0]
  <2>1. line \in Line /\ ~ IsScore(line) /\ line.kind = "finish" /\ line.req = r
    BY DEF Line, IsScore
  <2>2. Appends(<<>>, line) /\ rows' = rows /\ req' = [req EXCEPT ![r] = "finished"]
    BY <1>2 DEF Finish
  <2>3. \A q \in Requests : req'[q] = "finished" => q = r \/ req[q] = "finished"
    BY <1>0, <2>2
  <2> HIDE DEF line
  <2> QED BY <2>1, <2>2, <2>3, FollowedAppends
<1>3. CASE Restart
  <2>1. /\ buf' = <<>> /\ out' = <<>> /\ rows' = 0 /\ boot' > boot /\ boot' \in Boots
        /\ UNCHANGED meta
    <3>1. /\ engine \in {"closed", "dead"} /\ boot < MaxBoots /\ boot' = boot + 1 /\ rows' = 0
          /\ UNCHANGED <<buf, out, meta>>
      BY <1>3 DEF Restart, files
    <3>2. boot' > boot /\ boot' \in Boots
      BY <3>1, Sequences, ConstantsAssumption, SMTT(30) DEF Boots
    <3> QED BY <3>1, <3>2 DEF AInv
  <2>2. meta'[boot'] = <<>>
    BY <2>1 DEF AInv
  <2>3. (\A i \in 1..Len(<<>>) : FALSE) /\ (\A i \in 0..(0 - 1) : FALSE)
    OBVIOUS
  <2> QED BY <2>1, <2>2, <2>3 DEF LInv, RowsNamed, Followed
<1>4. CASE Crash \/ WriteFails
  BY <1>4 DEF Crash, WriteFails, LInv
<1>5. CASE Close \/ FlushReturns \/ WriteFeats \/ WritePart
  BY <1>5, FollowedSame DEF Close, FlushReturns, WriteFeats, WritePart, writer, files
<1>6. CASE WriteLine
  <2>1. sink
    BY <1>6 DEF WriteLine, AInv, TInv, TypeOK
  <2> QED BY <1>6, <2>1, FollowedLine
<1>7. ASSUME NEW who \in {"engine", "flusher"}, BeginFlush(who) PROVE LInv'
  BY <1>7, FollowedFlush
<1>8. ASSUME NEW r \in Requests, Ages(r) PROVE LInv'
  BY <1>8, FollowedSame DEF Ages, writer, files
<1>9. ASSUME NEW u \in Updaters, Pass(u) \/ PassDies(u) PROVE LInv'
  BY <1>9, FollowedSame, PassKeeps DEF writer, files
<1>10. CASE UNCHANGED vars
  BY <1>10, FollowedSame DEF vars, writer, files
<1> QED BY <1>1, <1>2, <1>3, <1>4, <1>5, <1>6, <1>7, <1>8, <1>9, <1>10 DEF Next, Writes

\* The score lines of a boot that closed with its sink are as many as its rows: two
\* of them name different rows, and every row has one.
LEMMA AllThere ==
  ASSUME TInv, Unique, AInv, LInv, engine = "closed", sink
  PROVE  LET scores == {i \in 1..Len(meta[boot]) : IsScore(meta[boot][i])}
         IN  Cardinality(scores) = rows
<1> DEFINE m == meta[boot]
           scores == {i \in 1..Len(m) : IsScore(m[i])}
           f == [i \in scores |-> m[i].row]
<1>1. /\ buf = <<>> /\ out = <<>> /\ fbuf = <<>> /\ fout = <<>>
      /\ m \in Seq(Line) /\ feats[boot] \in Seq(Requests) /\ rows \in Nat
  BY Sequences DEF AInv
<1>2. Queued = feats[boot]
  BY <1>1, ConcatEmptySeq DEF Queued, Taken
<1>3. Aligned(m, feats[boot]) /\ Len(feats[boot]) = rows
  BY <1>2, Sequences DEF AInv
<1>4. \A n \in 0..(rows - 1) : Names(m, n)
  BY <1>1, LinesEmpty DEF LInv, RowsNamed
<1>5. Single(m)
  BY Sequences DEF Unique
<1> HIDE DEF m
<1>6. \A i \in scores : /\ i \in 1..Len(m) /\ IsScore(m[i]) /\ m[i].row \in Nat /\ m[i].row < rows
                        /\ feats[boot][m[i].row + 1] = m[i].req
  <2> TAKE i \in scores
  <2>1. m[i] \in Line
    BY <1>1, ElementOfSeq
  <2> QED BY <1>3, <2>1 DEF Aligned, Line
<1>7. f \in [scores -> 0..(rows - 1)]
  BY <1>1, <1>6
<1>8. \A i, j \in scores : f[i] = f[j] => i = j
  BY <1>5, <1>6 DEF Single
<1>9. \A n \in 0..(rows - 1) : \E i \in scores : f[i] = n
  BY <1>4 DEF Names
<1> HIDE DEF f
<1>10. f \in Bijection(scores, 0..(rows - 1))
  BY <1>7, <1>8, <1>9 DEF Bijection, Injection, Surjection, IsInjective
<1>11. IsFiniteSet(scores)
  <2>1. Len(m) \in Nat
    BY <1>1
  <2>2. IsFiniteSet(1..Len(m)) /\ scores \in SUBSET (1..Len(m))
    BY <2>1, FS_Interval
  <2> QED BY <2>2, FS_Subset
<1> HIDE DEF scores
<1>12. Cardinality(0..(rows - 1)) = Cardinality(scores)
  BY <1>10, <1>11, FS_Bijection DEF ExistsBijection
<1>13. Cardinality(0..(rows - 1)) = rows
  BY <1>1, FS_Interval
<1> QED BY <1>12, <1>13 DEF scores, m

LEMMA Followings == Spec => []LInv
<1>1. Init => LInv
  <2> SUFFICES ASSUME Init PROVE LInv
    OBVIOUS
  <2>1. rows = 0 /\ \A r \in Requests : req[r] # "finished"
    BY DEF Init
  <2> QED BY <2>1 DEF LInv, RowsNamed
<1> QED BY <1>1, LStep, Bases, Alignment, PTL DEF Spec, BInv

\* For any number of requests and boots and any size of the buffer: a boot that is
\* closed while its sink is open has every score line it made in its file, and
\* behind each of them that request's finish line, if it has one (_sink_close: "A
\* clean shutdown loses NOTHING").
THEOREM NothingIsLost == Spec => []CleanLosesNothing
<1>1. BInv /\ AInv /\ LInv => CleanLosesNothing
  <2> SUFFICES ASSUME BInv, AInv, LInv, engine = "closed", sink
               PROVE  LET scores == {i \in 1..Len(meta[boot]) : IsScore(meta[boot][i])}
                      IN  /\ Cardinality(scores) = rows
                          /\ \A i \in scores :
                               req[meta[boot][i].req] = "finished" =>
                                 \E j \in i..Len(meta[boot]) : OnDisk(boot, j, meta[boot][i].req, "finish")
    BY DEF CleanLosesNothing
  <2> DEFINE scores == {i \in 1..Len(meta[boot]) : IsScore(meta[boot][i])}
  <2>1. Cardinality(scores) = rows
    BY AllThere DEF BInv
  <2>2. ASSUME NEW i \in scores, req[meta[boot][i].req] = "finished"
        PROVE  \E j \in i..Len(meta[boot]) : OnDisk(boot, j, meta[boot][i].req, "finish")
    <3> DEFINE r == meta[boot][i].req
    <3>1. meta[boot] \in Seq(Line) /\ buf = <<>> /\ out = <<>>
      BY Sequences DEF BInv, AInv
    <3>2. meta[boot][i] \in Line
      BY <3>1, ElementOfSeq
    <3>3. r \in Requests
      BY <3>2 DEF Line
    <3>4. Followed(r) /\ ScoreAt(meta[boot], i, r)
      BY <2>2, <3>3 DEF LInv, ScoreAt
    <3> HIDE DEF r
    <3>5. EndsHere(meta[boot], i, r)
      BY <3>1, <3>4, LinesEmpty DEF Followed
    <3>6. \E j \in i..Len(meta[boot]) : OnDisk(boot, j, r, "finish")
      BY <3>5 DEF EndsHere, FinishAt, OnDisk
    <3> QED BY <3>6 DEF r
  <2> QED BY <2>1, <2>2
<1> QED BY <1>1, Bases, Alignment, Followings, PTL
=============================================================================
