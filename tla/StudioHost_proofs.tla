-------------------------- MODULE StudioHost_proofs --------------------------
(***************************************************************************)
(* The studio's services on one host, for any number of productions, long  *)
(* clips and voice calls.                                                  *)
(*                                                                         *)
(* What a production is promised when it has the host for itself it keeps  *)
(* beside the others: forget the long clips' prompts, and every step of    *)
(* the host is a step of the production agent by itself, or none for it.   *)
(* OwnQueue is what is left of ComfyUI's queue then.  So the theorems of   *)
(* StudioProduction_proofs hold of the host.  The voice and the long clips *)
(* have invariants of their own.                                           *)
(***************************************************************************)
EXTENDS StudioHost, FiniteSetTheorems, SequenceTheorems, TLAPS

\* A prompt of whoever it is.
Entry == [owner : Productions \cup Extends, task : Nat]

\* Where the productions' prompts are in a queue, and the how manieth of them is at i.
Places(s) == {i \in 1..Len(s) : s[i].owner \in Productions}
Rank(s, i) == Cardinality({j \in Places(s) : j <= i})

\* The productions' prompts of a queue, in their order.
OwnOf(s) == [k \in 1..Cardinality(Places(s)) |-> s[CHOOSE i \in Places(s) : Rank(s, i) = k]]

OwnQueue == OwnOf(queue)
OwnRendered == {e \in rendered : e.prompt.owner \in Productions}

\* The production agent by itself; nobody is killed on this host.
Own == INSTANCE StudioProduction_proofs
         WITH queue <- OwnQueue, rendered <- OwnRendered, Crashes <- FALSE

-----------------------------------------------------------------------------
(* The productions' part of a queue.                                       *)

LEMMA OwnEntry ==
  /\ \A e \in Entry : e.owner \in Productions \cup Extends /\ e.task \in Nat
  /\ \A e \in Entry : e.owner \in Productions => e \in Prompt
  /\ \A e \in Prompt : e \in Entry /\ e.owner \in Productions
  /\ \A p \in Productions \cup Extends, n \in Nat : [owner |-> p, task |-> n] \in Entry
  /\ Productions \cap Extends = {}
BY HostAssumption DEF Entry, Prompt

\* The places are counted from 1 without a gap.
LEMMA Counting ==
  ASSUME NEW s \in Seq(Entry)
  PROVE  /\ IsFiniteSet(Places(s)) /\ Cardinality(Places(s)) \in Nat
         /\ \A i \in Places(s) : Rank(s, i) \in 1..Cardinality(Places(s))
         /\ \A i, j \in Places(s) : Rank(s, i) = Rank(s, j) => i = j
         /\ \A k \in 1..Cardinality(Places(s)) : \E i \in Places(s) : Rank(s, i) = k
<1> DEFINE P == Places(s)
           Upto(i) == {j \in P : j <= i}
           R == [i \in P |-> Rank(s, i)]
<1>1. Len(s) \in Nat /\ P \subseteq 1..Len(s)
  <2>1. Len(s) \in Nat
    OBVIOUS
  <2> QED BY <2>1 DEF Places
<1>2. IsFiniteSet(P) /\ Cardinality(P) \in Nat
  <2>1. IsFiniteSet(1..Len(s))
    BY <1>1, FS_Interval
  <2> HIDE DEF P
  <2> QED BY <1>1, <2>1, FS_Subset, FS_CardinalityType
<1>3. \A i \in P : IsFiniteSet(Upto(i)) /\ Cardinality(Upto(i)) \in Nat
                   /\ Cardinality(Upto(i)) <= Cardinality(P)
  <2> SUFFICES ASSUME NEW i \in P
               PROVE  IsFiniteSet(Upto(i)) /\ Cardinality(Upto(i)) \in Nat
                      /\ Cardinality(Upto(i)) <= Cardinality(P)
    OBVIOUS
  <2>1. Upto(i) \in SUBSET P
    OBVIOUS
  <2> HIDE DEF P, Upto
  <2> QED BY <1>2, <2>1, FS_Subset, FS_CardinalityType
<1>4. \A i \in P : Rank(s, i) = Cardinality(Upto(i))
  BY DEF Rank
<1>5. \A i \in P : Rank(s, i) \in 1..Cardinality(P)
  <2> SUFFICES ASSUME NEW i \in P PROVE Rank(s, i) \in 1..Cardinality(P)
    OBVIOUS
  <2>1. i \in Upto(i)
    BY <1>1
  <2>2. Cardinality(Upto(i)) # 0
    BY <1>3, <2>1, FS_EmptySet
  <2> HIDE DEF P, Upto
  <2> QED BY <1>2, <1>3, <1>4, <2>2
<1>6. \A i, j \in P : Rank(s, i) = Rank(s, j) => i = j
  <2>1. ASSUME NEW i \in P, NEW j \in P, Rank(s, i) = Rank(s, j), i < j PROVE FALSE
    <3>1. Upto(i) \in SUBSET Upto(j)
      BY <1>1, <2>1
    <3>2. j \in Upto(j) /\ j \notin Upto(i)
      BY <1>1, <2>1
    <3> HIDE DEF P, Upto
    <3>3. Upto(i) = Upto(j)
      BY <1>3, <1>4, <2>1, <3>1, FS_Subset
    <3> QED BY <3>2, <3>3
  <2>2. \A i, j \in P : i = j \/ i < j \/ j < i
    BY <1>1
  <2> HIDE DEF P
  <2> QED BY <2>1, <2>2
<1>7. R \in Injection(P, 1..Cardinality(P))
  <2> HIDE DEF P
  <2> QED BY <1>5, <1>6 DEF Injection, IsInjective
<1>8. R \in Surjection(P, 1..Cardinality(P))
  <2>1. IsFiniteSet(1..Cardinality(P)) /\ Cardinality(1..Cardinality(P)) = Cardinality(P)
    BY <1>2, FS_Interval
  <2> HIDE DEF P, R
  <2> QED BY <1>7, <2>1, FS_Injection
<1>9. \A k \in 1..Cardinality(P) : \E i \in P : Rank(s, i) = k
  BY <1>8 DEF Surjection
<1> QED BY <1>2, <1>5, <1>6, <1>9

\* What is picked from a queue.
LEMMA OwnFacts ==
  ASSUME NEW s \in Seq(Entry)
  PROVE  /\ OwnOf(s) \in Seq(Prompt)
         /\ Len(OwnOf(s)) = Cardinality(Places(s))
         /\ \A i \in Places(s) : OwnOf(s)[Rank(s, i)] = s[i]
<1> DEFINE n == Cardinality(Places(s))
           at_(k) == CHOOSE i \in Places(s) : Rank(s, i) = k
<1>1. n \in Nat /\ \A k \in 1..n : at_(k) \in Places(s) /\ Rank(s, at_(k)) = k
  BY Counting
<1>2. \A i \in Places(s) : Rank(s, i) \in 1..n /\ at_(Rank(s, i)) = i
  BY Counting
<1>3. \A i \in Places(s) : s[i] \in Prompt
  <2>1. \A i \in 1..Len(s) : s[i] \in Entry
    OBVIOUS
  <2> QED BY <2>1, OwnEntry DEF Places
<1>4. OwnOf(s) = [k \in 1..n |-> s[at_(k)]]
  BY DEF OwnOf
<1> HIDE DEF n, at_
<1>5. OwnOf(s) \in [1..n -> Prompt]
  BY <1>1, <1>3, <1>4
<1>6. OwnOf(s) \in Seq(Prompt) /\ Len(OwnOf(s)) = n
  BY <1>1, <1>5
<1>7. \A i \in Places(s) : OwnOf(s)[Rank(s, i)] = s[i]
  BY <1>2, <1>4
<1> QED BY <1>6, <1>7 DEF n

\* ... and nothing else is.
LEMMA OwnIs ==
  ASSUME NEW s \in Seq(Entry), NEW m \in Seq(Prompt),
         Len(m) = Cardinality(Places(s)),
         \A i \in Places(s) : m[Rank(s, i)] = s[i]
  PROVE  OwnOf(s) = m
<1>1. \A k \in 1..Len(m) : m[k] = OwnOf(s)[k]
  <2> SUFFICES ASSUME NEW k \in 1..Len(m) PROVE m[k] = OwnOf(s)[k]
    OBVIOUS
  <2>1. PICK i \in Places(s) : Rank(s, i) = k
    BY Counting
  <2> QED BY <2>1, OwnFacts
<1>2. OwnOf(s) \in Seq(Prompt) /\ Len(OwnOf(s)) = Len(m)
  BY OwnFacts
<1> HIDE DEF OwnOf
<1> QED BY <1>1, <1>2, SeqEqual

\* The places of a queue to which a prompt is added.
LEMMA AppendPlaces ==
  ASSUME NEW s \in Seq(Entry), NEW e \in Entry
  PROVE  /\ Append(s, e) \in Seq(Entry) /\ Append(s, e)[Len(s) + 1] = e
         /\ \A i \in Places(s) : /\ i \in Nat /\ i <= Len(s)
                                 /\ Append(s, e)[i] = s[i]
                                 /\ Rank(Append(s, e), i) = Rank(s, i)
         /\ e.owner \in Productions => Places(Append(s, e)) = Places(s) \cup {Len(s) + 1}
         /\ e.owner \notin Productions => Places(Append(s, e)) = Places(s)
<1> DEFINE t == Append(s, e)
           n == Len(s) + 1
<1>1. /\ t \in Seq(Entry) /\ Len(s) \in Nat /\ Len(t) = n
      /\ \A i \in 1..Len(s) : t[i] = s[i]
      /\ t[n] = e
      /\ 1..n = (1..Len(s)) \cup {n} /\ n \notin 1..Len(s)
  OBVIOUS
<1> HIDE DEF t
<1>2. /\ e.owner \in Productions => Places(t) = Places(s) \cup {n}
      /\ e.owner \notin Productions => Places(t) = Places(s)
  BY <1>1 DEF Places
<1>3. \A i \in Places(s) : i \in Nat /\ i <= Len(s) /\ t[i] = s[i]
  BY <1>1 DEF Places
<1>4. ASSUME NEW i \in Places(s) PROVE Rank(t, i) = Rank(s, i)
  <2>1. {j \in Places(t) : j <= i} = {j \in Places(s) : j <= i}
    BY <1>1, <1>2 DEF Places
  <2> QED BY <2>1 DEF Rank
<1> QED BY <1>1, <1>2, <1>3, <1>4 DEF t

LEMMA AppendOther ==
  ASSUME NEW s \in Seq(Entry), NEW e \in Entry, e.owner \notin Productions
  PROVE  OwnOf(Append(s, e)) = OwnOf(s)
<1>1. /\ Append(s, e) \in Seq(Entry) /\ Places(Append(s, e)) = Places(s)
      /\ \A i \in Places(s) : Append(s, e)[i] = s[i] /\ Rank(Append(s, e), i) = Rank(s, i)
  BY AppendPlaces, ZenonT(60)
<1>2. /\ OwnOf(s) \in Seq(Prompt) /\ Len(OwnOf(s)) = Cardinality(Places(s))
      /\ \A i \in Places(s) : OwnOf(s)[Rank(s, i)] = s[i]
  BY OwnFacts
<1> DEFINE t == Append(s, e)
<1> HIDE DEF t
<1>3. /\ t \in Seq(Entry) /\ Len(OwnOf(s)) = Cardinality(Places(t))
      /\ \A i \in Places(t) : OwnOf(s)[Rank(t, i)] = t[i]
  BY <1>1, <1>2 DEF t
<1>4. OwnOf(t) = OwnOf(s)
  BY <1>2, <1>3, OwnIs
<1> QED BY <1>4 DEF t

LEMMA AppendOwn ==
  ASSUME NEW s \in Seq(Entry), NEW e \in Prompt
  PROVE  OwnOf(Append(s, e)) = Append(OwnOf(s), e)
<1> DEFINE t == Append(s, e)
           n == Len(s) + 1
           m == Append(OwnOf(s), e)
<1>1. /\ e \in Entry /\ e.owner \in Productions
  BY OwnEntry
<1>2. /\ t \in Seq(Entry) /\ Places(t) = Places(s) \cup {n} /\ t[n] = e
      /\ \A i \in Places(s) : i \in Nat /\ i < n /\ t[i] = s[i] /\ Rank(t, i) = Rank(s, i)
  <2>1. /\ t \in Seq(Entry) /\ t[n] = e
        /\ \A i \in Places(s) : i \in Nat /\ i <= Len(s) /\ t[i] = s[i] /\ Rank(t, i) = Rank(s, i)
    BY <1>1, AppendPlaces
  <2>2. Places(t) = Places(s) \cup {n}
    BY <1>1, AppendPlaces
  <2>3. Len(s) \in Nat
    OBVIOUS
  <2> HIDE DEF t
  <2> QED BY <2>1, <2>2, <2>3
<1> HIDE DEF t
<1>3. Cardinality(Places(t)) = Cardinality(Places(s)) + 1
  <2>1. n \notin Places(s) /\ IsFiniteSet(Places(s))
    BY <1>2, Counting
  <2> QED BY <1>2, <2>1, FS_AddElement
<1>4. Rank(t, n) = Cardinality(Places(t))
  <2>1. {j \in Places(t) : j <= n} = Places(t)
    BY <1>2
  <2> QED BY <2>1 DEF Rank
<1>5. /\ OwnOf(s) \in Seq(Prompt) /\ Len(OwnOf(s)) = Cardinality(Places(s))
      /\ \A i \in Places(s) : OwnOf(s)[Rank(s, i)] = s[i] /\ Rank(s, i) \in 1..Cardinality(Places(s))
  BY OwnFacts, Counting
<1>6. /\ m \in Seq(Prompt) /\ Len(m) = Cardinality(Places(s)) + 1
      /\ m[Cardinality(Places(s)) + 1] = e
      /\ \A k \in 1..Cardinality(Places(s)) : m[k] = OwnOf(s)[k]
  <2> HIDE DEF OwnOf
  <2> QED BY <1>5
<1>7. \A i \in Places(t) : m[Rank(t, i)] = t[i]
  <2> HIDE DEF m, n
  <2> QED BY <1>2, <1>3, <1>4, <1>5, <1>6
<1> HIDE DEF m
<1>8. OwnOf(t) = m
  BY <1>2, <1>3, <1>6, <1>7, OwnIs
<1> QED BY <1>8 DEF t, m

\* Moving every number up by one makes no set smaller or larger.
LEMMA Shifted ==
  ASSUME NEW A \in SUBSET Nat, NEW B, IsFiniteSet(A),
         \A b : b \in B <=> \E a \in A : b = a + 1
  PROVE  IsFiniteSet(B) /\ Cardinality(B) = Cardinality(A)
<1> DEFINE f == [a \in A |-> a + 1]
<1>1. f \in Bijection(A, B)
  BY DEF Bijection, Injection, Surjection, IsInjective
<1>2. ExistsBijection(A, B)
  BY <1>1 DEF ExistsBijection
<1> QED BY <1>2, FS_Bijection

\* The places of a queue whose oldest prompt is taken.
LEMMA TailPlaces ==
  ASSUME NEW s \in Seq(Entry), s # <<>>
  PROVE  LET t == Tail(s)
             mine == IF s[1].owner \in Productions THEN 1 ELSE 0
         IN  /\ t \in Seq(Entry) /\ Head(s) = s[1] /\ s[1] \in Entry
             /\ Cardinality(Places(s)) = Cardinality(Places(t)) + mine
             /\ \A i \in Places(t) : /\ i + 1 \in Places(s) /\ t[i] = s[i + 1]
                                     /\ Rank(s, i + 1) = Rank(t, i) + mine
             /\ mine = 1 => 1 \in Places(s) /\ Rank(s, 1) = 1
<1> DEFINE t == Tail(s)
           mine == IF s[1].owner \in Productions THEN 1 ELSE 0
<1>1. /\ t \in Seq(Entry) /\ Len(s) \in Nat /\ Len(s) >= 1 /\ Len(t) = Len(s) - 1
      /\ \A i \in 1..Len(t) : t[i] = s[i + 1]
      /\ Head(s) = s[1] /\ s[1] \in Entry
  OBVIOUS
<1> HIDE DEF t
<1>2. /\ Places(s) \in SUBSET Nat /\ Places(t) \in SUBSET Nat
      /\ \A i \in Places(t) : i + 1 \in Places(s) /\ i + 1 # 1 /\ t[i] = s[i + 1]
      /\ \A i \in Places(s) \ {1} : i - 1 \in Places(t)
      /\ 1 \in Places(s) <=> s[1].owner \in Productions
      /\ \A i \in Places(s) : i >= 1
  BY <1>1 DEF Places
<1>3. IsFiniteSet(Places(s)) /\ IsFiniteSet(Places(t))
  BY <1>1, Counting
\* Up to any place, the places of the tail are those of the queue without the first.
<1>4. ASSUME NEW A \in SUBSET Places(t), NEW B \in SUBSET Places(s),
             \A b \in Places(s) \ {1} : b \in B <=> b - 1 \in A,
             1 \in Places(s) => 1 \in B
      PROVE  Cardinality(B) = Cardinality(A) + mine
  <2>1. IsFiniteSet(A) /\ IsFiniteSet(B)
    BY <1>3, FS_Subset
  <2>2. A \in SUBSET Nat
    BY <1>2
  <2>3. \A b : b \in B \ {1} <=> \E a \in A : b = a + 1
    <3>1. ASSUME NEW b \in B \ {1} PROVE b - 1 \in A /\ b = (b - 1) + 1
      BY <1>2, <1>4, <3>1
    <3>2. ASSUME NEW a \in A PROVE a + 1 \in B \ {1}
      <4>1. a + 1 \in Places(s) \ {1} /\ (a + 1) - 1 = a
        BY <1>2, <2>2
      <4> QED BY <1>4, <4>1
    <3> QED BY <3>1, <3>2
  <2>4. Cardinality(B \ {1}) = Cardinality(A)
    <3>1. IsFiniteSet(B \ {1})
      BY <2>1, FS_RemoveElement
    <3> QED BY <2>1, <2>2, <2>3, Shifted
  <2>5. Cardinality(B \ {1}) = IF 1 \in B THEN Cardinality(B) - 1 ELSE Cardinality(B)
    BY <2>1, FS_RemoveElement
  <2>6. Cardinality(B) \in Nat
    BY <2>1, FS_CardinalityType
  <2>7. 1 \in B <=> s[1].owner \in Productions
    BY <1>2, <1>4
  <2> QED BY <2>4, <2>5, <2>6, <2>7
<1>5. Cardinality(Places(s)) = Cardinality(Places(t)) + mine
  BY <1>2, <1>4
<1>6. ASSUME NEW i \in Places(t) PROVE Rank(s, i + 1) = Rank(t, i) + mine
  <2> DEFINE A == {j \in Places(t) : j <= i}
             B == {j \in Places(s) : j <= i + 1}
  <2>1. ASSUME NEW b \in Places(s) \ {1} PROVE b \in B <=> b - 1 \in A
    <3>1. b \in Nat /\ i \in Nat /\ b - 1 \in Places(t)
      BY <1>2
    <3>2. b <= i + 1 <=> b - 1 <= i
      BY <3>1
    <3> QED BY <3>1, <3>2
  <2>2. 1 \in Places(s) => 1 \in B
    BY <1>2
  <2>3. A \in SUBSET Places(t) /\ B \in SUBSET Places(s)
    OBVIOUS
  <2> HIDE DEF A, B
  <2>4. Cardinality(B) = Cardinality(A) + mine
    BY <1>4, <2>1, <2>2, <2>3
  <2> QED BY <2>4 DEF Rank, A, B
<1>7. mine = 1 => 1 \in Places(s) /\ Rank(s, 1) = 1
  <2> SUFFICES ASSUME mine = 1 PROVE 1 \in Places(s) /\ Rank(s, 1) = 1
    OBVIOUS
  <2>1. 1 \in Places(s)
    BY <1>2
  <2>2. {j \in Places(s) : j <= 1} = {1}
    BY <1>2, <2>1
  <2> QED BY <2>1, <2>2, FS_Singleton DEF Rank
<1> QED BY <1>1, <1>2, <1>5, <1>6, <1>7 DEF t

LEMMA TailOther ==
  ASSUME NEW s \in Seq(Entry), s # <<>>, Head(s).owner \notin Productions
  PROVE  OwnOf(Tail(s)) = OwnOf(s)
<1> DEFINE t == Tail(s)
<1>1. /\ t \in Seq(Entry)
      /\ Cardinality(Places(s)) = Cardinality(Places(t)) + 0
      /\ \A i \in Places(t) : i + 1 \in Places(s) /\ t[i] = s[i + 1] /\ Rank(s, i + 1) = Rank(t, i) + 0
  BY TailPlaces
<1> HIDE DEF t
<1>2. /\ Cardinality(Places(s)) = Cardinality(Places(t))
      /\ \A i \in Places(t) : i + 1 \in Places(s) /\ t[i] = s[i + 1] /\ Rank(s, i + 1) = Rank(t, i)
  BY <1>1, Counting
<1>3. OwnOf(t) = OwnOf(s)
  BY <1>1, <1>2, OwnFacts, OwnIs
<1> QED BY <1>3 DEF t

LEMMA TailOwn ==
  ASSUME NEW s \in Seq(Entry), s # <<>>, Head(s).owner \in Productions
  PROVE  OwnOf(s) # <<>> /\ Head(OwnOf(s)) = Head(s) /\ OwnOf(Tail(s)) = Tail(OwnOf(s))
<1> DEFINE t == Tail(s)
           m == OwnOf(s)
<1>1. /\ t \in Seq(Entry) /\ Head(s) = s[1]
      /\ Cardinality(Places(s)) = Cardinality(Places(t)) + 1
      /\ \A i \in Places(t) : i + 1 \in Places(s) /\ t[i] = s[i + 1] /\ Rank(s, i + 1) = Rank(t, i) + 1
      /\ 1 \in Places(s) /\ Rank(s, 1) = 1
  BY TailPlaces
<1>2. /\ m \in Seq(Prompt) /\ Len(m) = Cardinality(Places(s))
      /\ \A i \in Places(s) : m[Rank(s, i)] = s[i]
  BY OwnFacts
<1>3. Cardinality(Places(t)) \in Nat
  BY <1>1, Counting
<1> HIDE DEF t, m
<1>4. m # <<>> /\ Head(m) = s[1]
  <2>1. Len(m) # 0 /\ m[1] = s[1]
    BY <1>1, <1>2, <1>3
  <2> QED BY <1>2, <2>1
<1>5. /\ Tail(m) \in Seq(Prompt) /\ Len(Tail(m)) = Cardinality(Places(t))
      /\ \A k \in 1..Len(Tail(m)) : Tail(m)[k] = m[k + 1]
  BY <1>1, <1>2, <1>3, <1>4
<1>6. \A i \in Places(t) : Tail(m)[Rank(t, i)] = t[i]
  <2>1. \A i \in Places(t) : Rank(t, i) \in 1..Cardinality(Places(t))
    BY <1>1, Counting
  <2> QED BY <1>1, <1>2, <1>5, <2>1
<1>7. OwnOf(t) = Tail(m)
  BY <1>1, <1>5, <1>6, OwnIs
<1> QED BY <1>1, <1>4, <1>7 DEF t, m

-----------------------------------------------------------------------------
(* Types, and the parts of a step.                                         *)

\* Only a segment of the clip is sent.
InRange == \A j \in Extends : at[j] \in {"uploaded", "waiting"} => seg[j] <= Segments

\* What ComfyUI may do for the productions.
RendersProduction == RendersOwn /\ UNCHANGED <<voice, chain, evictions>>
Arriving == Arrives /\ UNCHANGED <<voice, chain, evictions>>

LEMMA Serves == ServesProductions => RendersProduction \/ Arriving
BY DEF ServesProductions, RendersProduction, Arriving

BaseInv ==
  /\ HostTypeOK
  /\ InRange
  /\ late \subseteq [to : {"input", "queue"}, prompt : Prompt]
  /\ pos \in [Productions -> Nat]
  /\ queue \in Seq(Entry)
  /\ \A e \in rendered : e.prompt \in Entry

\* A step of the host is a step of the voice service or none for it.
LEMMA VoicePart == [HostNext]_hostVars => [Voice!VoiceNext]_voice
<1> SUFFICES ASSUME [HostNext]_hostVars PROVE [Voice!VoiceNext]_voice
  OBVIOUS
<1>1. ASSUME NEW c \in Calls, Speaking(c) PROVE Voice!VoiceNext
  BY <1>1 DEF Speaking, Voice!VoiceNext
<1>2. ASSUME NEW u \in unloads, Unload(u) PROVE Voice!VoiceNext
  BY <1>2 DEF Unload, Voice!VoiceNext
<1>3. ASSUME Watching PROVE Voice!VoiceNext
  BY <1>3 DEF Watching, Voice!VoiceNext
<1>4. ASSUME NEW j \in Extends, Extending(j) PROVE UNCHANGED voice
  BY <1>4 DEF Extending
<1>5. ASSUME NEW p \in Productions, EvictVoice(p) \/ Produces(p) PROVE UNCHANGED voice
  BY <1>5 DEF EvictVoice, Produces
<1> QED
  BY <1>1, <1>2, <1>3, <1>4, <1>5 DEF HostNext, Posts, StartsCli, ServesProductions, RendersClip, hostVars

\* ... and one of the job service or none for it.
LEMMA ChainPart ==
  [HostNext]_hostVars =>
    (\E j \in Extends : Clips!PostExtend(j) \/ Clips!Chain(j)) \/ UNCHANGED chain
<1> SUFFICES ASSUME [HostNext]_hostVars
             PROVE  (\E j \in Extends : Clips!PostExtend(j) \/ Clips!Chain(j)) \/ UNCHANGED chain
  OBVIOUS
<1>1. ASSUME NEW j \in Extends, Extending(j) PROVE Clips!PostExtend(j) \/ Clips!Chain(j)
  BY <1>1 DEF Extending
<1>2. ASSUME RendersClip PROVE UNCHANGED chain
  BY <1>2 DEF RendersClip, Clips!RenderSegment, Clips!chain, chain
<1>3. ASSUME NEW p \in Productions, EvictVoice(p) \/ Produces(p) PROVE UNCHANGED chain
  BY <1>3 DEF EvictVoice, Produces
<1>4. ASSUME NEW u \in unloads, Unload(u) PROVE UNCHANGED chain
  BY <1>4 DEF Unload
<1>5. ASSUME NEW c \in Calls, Speaking(c) PROVE UNCHANGED chain
  BY <1>5 DEF Speaking
<1> QED
  BY <1>1, <1>2, <1>3, <1>4, <1>5 DEF HostNext, Posts, StartsCli, ServesProductions, Watching, hostVars

LEMMA VoiceTypes == Voice!VoiceTypeOK /\ [Voice!VoiceNext]_voice => Voice!VoiceTypeOK'
<1> SUFFICES ASSUME Voice!VoiceTypeOK, [Voice!VoiceNext]_voice PROVE Voice!VoiceTypeOK'
  OBVIOUS
<1> USE DEF Voice!VoiceTypeOK, Voice!Moves, Voice!Using
<1>1. ASSUME NEW c \in Calls, Voice!FindsLoaded(c) \/ Voice!BeginsLoad(c) PROVE Voice!VoiceTypeOK'
  BY <1>1, ZenonT(60) DEF Voice!FindsLoaded, Voice!BeginsLoad
<1>2. ASSUME NEW c \in Calls, Voice!EncoderLoaded(c) \/ Voice!EngineLoaded(c)
      PROVE  Voice!VoiceTypeOK'
  BY <1>2, ZenonT(60) DEF Voice!EncoderLoaded, Voice!EngineLoaded
<1>3. ASSUME NEW c \in Calls, Voice!LoadFails(c) PROVE Voice!VoiceTypeOK'
  BY <1>3 DEF Voice!LoadFails
<1>4. ASSUME NEW c \in Calls, Voice!Stamp(c) \/ Voice!Ends(c) PROVE Voice!VoiceTypeOK'
  BY <1>4 DEF Voice!Stamp, Voice!Ends
<1>5. ASSUME Voice!IdleWatch \/ Voice!Unload PROVE Voice!VoiceTypeOK'
  BY <1>5 DEF Voice!IdleWatch, Voice!Ages, Voice!WatchDecides, Voice!WatchUnloads, Voice!Unload,
              Voice!Drop
<1>6. CASE UNCHANGED voice
  BY <1>6 DEF voice
<1> QED BY <1>1, <1>2, <1>3, <1>4, <1>5, <1>6 DEF Voice!VoiceNext, Voice!Call

\* The file name of a segment's frame, and what is in it.
LEMMA FrameFacts ==
  /\ \A j \in Extends, n \in 2..Segments :
       /\ Clips!FileName(j, n) \in Clips!Files
       /\ [owner |-> j, task |-> n - 1] \in [owner : Extends, task : 1..Segments]
  /\ Segments \in Nat /\ Segments >= 2
<1>1. Segments \in Nat /\ Segments >= 2
  BY HostAssumption
<1>2. \A j \in Extends, n \in 2..Segments : Clips!FileName(j, n) \in Clips!Files
  BY DEF Clips!Files
<1>3. \A j \in Extends, n \in 2..Segments :
        [owner |-> j, task |-> n - 1] \in [owner : Extends, task : 1..Segments]
  BY <1>1
<1> QED BY <1>1, <1>2, <1>3

LEMMA ChainTypes ==
  ASSUME Clips!ChainTypeOK, InRange,
         (\E j \in Extends : Clips!PostExtend(j) \/ Clips!Chain(j)) \/ UNCHANGED chain
  PROVE  Clips!ChainTypeOK' /\ InRange'
<1> USE DEF Clips!ChainTypeOK, InRange, Clips!To, Clips!Becomes
<1>1. ASSUME NEW j \in Extends, Clips!PostExtend(j) PROVE Clips!ChainTypeOK' /\ InRange'
  BY <1>1 DEF Clips!PostExtend
<1>2. ASSUME NEW j \in Extends, Clips!UploadFrame(j) PROVE Clips!ChainTypeOK' /\ InRange'
  BY <1>2, FrameFacts DEF Clips!UploadFrame
<1>3. ASSUME NEW j \in Extends, Clips!SendSegment(j) PROVE Clips!ChainTypeOK' /\ InRange'
  BY <1>3, FrameFacts DEF Clips!SendSegment, Clips!Sends
<1>4. ASSUME NEW j \in Extends, Clips!CollectSegment(j) PROVE Clips!ChainTypeOK' /\ InRange'
  <2>1. seg[j] + 1 \in 1..Segments + 1
    BY <1>4, FrameFacts DEF Clips!CollectSegment
  <2> QED BY <1>4, <2>1 DEF Clips!CollectSegment
<1>5. ASSUME NEW j \in Extends, Clips!JoinSegments(j) \/ Clips!ChainFails(j)
      PROVE  Clips!ChainTypeOK' /\ InRange'
  BY <1>5 DEF Clips!JoinSegments, Clips!ChainFails
<1>6. CASE UNCHANGED chain
  BY <1>6 DEF chain
<1> QED BY <1>1, <1>2, <1>3, <1>4, <1>5, <1>6 DEF Clips!Chain

\* What a production's step may do to ComfyUI's queue, and to its own position.
LEMMA WorkSends ==
  ASSUME pos \in [Productions -> Nat], NEW p \in Productions, Work(p)
  PROVE  /\ pos' \in [Productions -> Nat]
         /\ UNCHANGED rendered
         /\ UNCHANGED queue \/ queue' = Append(queue, Current(p))
         /\ \A q \in late' : q \in late \/ q \in [to : {"input", "queue"}, prompt : {Current(p)}]
<1>1. pos' \in [Productions -> Nat]
  <2>1. pos' = pos \/ pos' = [pos EXCEPT ![p] = @ + 1]
    BY DEF Work, Acquire, FindLocked, LockBreaks, PlanBrief, Upload, Submit, Speak, Collect,
           Assemble, Breaks, GiveUp, Release
  <2>2. pos[p] + 1 \in Nat
    OBVIOUS
  <2> QED BY <2>1, <2>2
<1>2. /\ UNCHANGED rendered
      /\ UNCHANGED queue \/ queue' = Append(queue, Current(p))
  BY DEF Work, Acquire, FindLocked, LockBreaks, PlanBrief, Upload, Submit, Speak, Collect,
         Assemble, Breaks, GiveUp, Release, comfy
<1>3. \A q \in late' : q \in late \/ q \in [to : {"input", "queue"}, prompt : {Current(p)}]
  <2>1. UNCHANGED late \/ late' = late \cup Requesting(p)
    BY DEF Work, Acquire, FindLocked, LockBreaks, PlanBrief, Upload, Submit, Speak, Collect,
           Assemble, Breaks, GiveUp, Release, comfy
  <2> QED BY <2>1 DEF Requesting
<1> QED BY <1>1, <1>2, <1>3

\* A late request is a production's, and adds at most its prompt to the queue.
LEMMA ArrivesAs ==
  ASSUME BaseInv, Arriving
  PROVE  /\ UNCHANGED <<stage, plan, pos, rendered>>
         /\ \A q \in late' : q \in late
         /\ \E s \in Prompt : UNCHANGED queue \/ queue' = Append(queue, s)
<1>1. PICK q \in late :
        /\ late' = late \ {q}
        /\ UNCHANGED queue \/ queue' = Append(queue, q.prompt)
  BY DEF Arriving, Arrives
<1>2. q.prompt \in Prompt
  BY DEF BaseInv
<1> QED BY <1>1, <1>2 DEF Arriving, Arrives

\* A long clip's may send the segment it is at.
LEMMA ChainSends ==
  ASSUME Clips!ChainTypeOK, NEW j \in Extends, Clips!PostExtend(j) \/ Clips!Chain(j)
  PROVE  /\ UNCHANGED rendered
         /\ UNCHANGED queue \/ queue' = Append(queue, Clips!Segment(j))
         /\ Clips!Segment(j) \in Entry /\ Clips!Segment(j).owner \notin Productions
<1>1. /\ UNCHANGED rendered
      /\ UNCHANGED queue \/ queue' = Append(queue, Clips!Segment(j))
  BY DEF Clips!PostExtend, Clips!Chain, Clips!UploadFrame, Clips!SendSegment, Clips!CollectSegment,
         Clips!JoinSegments, Clips!ChainFails, Clips!Sends
<1>2. seg[j] \in Nat
  BY FrameFacts DEF Clips!ChainTypeOK
<1>3. Clips!Segment(j) \in Entry /\ Clips!Segment(j).owner = j
  BY <1>2, OwnEntry DEF Clips!Segment
<1> QED BY <1>1, <1>3, OwnEntry

\* ComfyUI takes the oldest prompt, whosever it is.
LEMMA TakesOldest ==
  ASSUME BaseInv, RendersProduction \/ RendersClip
  PROVE  /\ queue # <<>> /\ queue' = Tail(queue)
         /\ Head(queue) \in Entry /\ Tail(queue) \in Seq(Entry)
         /\ \E e : /\ e.prompt = Head(queue)
                   /\ rendered' = rendered \cup {e}
<1>1. /\ queue # <<>> /\ queue' = Tail(queue)
      /\ \E e : /\ e.prompt = Head(queue)
                /\ rendered' = rendered \cup {e}
  <2>1. CASE RendersProduction
    BY <2>1 DEF RendersProduction, RendersOwn, Render
  <2>2. CASE RendersClip
    BY <2>2 DEF RendersClip, Clips!RenderSegment
  <2> QED BY <2>1, <2>2
<1>2. Head(queue) \in Entry /\ Tail(queue) \in Seq(Entry)
  BY <1>1 DEF BaseInv
<1> QED BY <1>1, <1>2

LEMMA BaseStep == BaseInv /\ [HostNext]_hostVars => BaseInv'
<1> SUFFICES ASSUME BaseInv, [HostNext]_hostVars PROVE BaseInv'
  OBVIOUS
<1>t. /\ pos \in [Productions -> Nat] /\ queue \in Seq(Entry)
      /\ \A e \in rendered : e.prompt \in Entry
      /\ late \subseteq [to : {"input", "queue"}, prompt : Prompt]
      /\ Voice!VoiceTypeOK /\ Clips!ChainTypeOK /\ InRange
      /\ asked \in [Productions -> Nat] /\ unloads \subseteq Prompt
      /\ unloaded \subseteq [video : Prompt, over : SUBSET Calls]
      /\ \A p \in Productions : Current(p) \in Prompt /\ Current(p) \in Entry
  BY OwnEntry DEF BaseInv, HostTypeOK, Current, Prompt
<1>1. Voice!VoiceTypeOK' /\ Clips!ChainTypeOK' /\ InRange'
  BY <1>t, VoicePart, VoiceTypes, ChainPart, ChainTypes
<1>2. /\ pos' \in [Productions -> Nat] /\ queue' \in Seq(Entry)
      /\ \A e \in rendered' : e.prompt \in Entry
  <2>1. ASSUME UNCHANGED <<pos, queue, rendered>>
        PROVE  /\ pos' \in [Productions -> Nat] /\ queue' \in Seq(Entry)
               /\ \A e \in rendered' : e.prompt \in Entry
    BY <1>t, <2>1
  <2>2. ASSUME NEW p \in Productions, Produces(p)
        PROVE  /\ pos' \in [Productions -> Nat] /\ queue' \in Seq(Entry)
               /\ \A e \in rendered' : e.prompt \in Entry
    <3>1. /\ pos' \in [Productions -> Nat] /\ UNCHANGED rendered
          /\ UNCHANGED queue \/ queue' = Append(queue, Current(p))
      BY <1>t, <2>2, WorkSends DEF Produces
    <3>2. Append(queue, Current(p)) \in Seq(Entry)
      BY <1>t
    <3> QED BY <1>t, <3>1, <3>2
  <2>3. ASSUME NEW j \in Extends, Extending(j)
        PROVE  /\ pos' \in [Productions -> Nat] /\ queue' \in Seq(Entry)
               /\ \A e \in rendered' : e.prompt \in Entry
    <3>1. /\ UNCHANGED pos /\ UNCHANGED rendered
          /\ UNCHANGED queue \/ queue' = Append(queue, Clips!Segment(j))
          /\ Clips!Segment(j) \in Entry
      BY <1>t, <2>3, ChainSends DEF Extending, studio
    <3>2. Append(queue, Clips!Segment(j)) \in Seq(Entry)
      BY <1>t, <3>1
    <3> QED BY <1>t, <3>1, <3>2
  <2>8. ASSUME Arriving
        PROVE  /\ pos' \in [Productions -> Nat] /\ queue' \in Seq(Entry)
               /\ \A e \in rendered' : e.prompt \in Entry
    <3>1. PICK s \in Prompt : UNCHANGED queue \/ queue' = Append(queue, s)
      BY <2>8, ArrivesAs
    <3>2. Append(queue, s) \in Seq(Entry)
      BY <1>t, OwnEntry
    <3> QED BY <1>t, <2>8, <3>1, <3>2, ArrivesAs
  <2>4. ASSUME RendersProduction \/ RendersClip
        PROVE  /\ pos' \in [Productions -> Nat] /\ queue' \in Seq(Entry)
               /\ \A e \in rendered' : e.prompt \in Entry
    <3>1. UNCHANGED pos
      BY <2>4 DEF RendersProduction, RendersOwn, RendersClip, Render, studio
    <3> QED BY <1>t, <2>4, <3>1, TakesOldest
  <2>5. ASSUME NEW r \in Requests, Handler(r) PROVE UNCHANGED <<pos, queue, rendered>>
    BY <2>5 DEF Handler, CheckActive, Refuse, Accept, comfy
  <2>6. ASSUME NEW k \in Clis, StartCli(k) PROVE UNCHANGED <<pos, queue, rendered>>
    BY <2>6 DEF StartCli, comfy
  <2>7. ASSUME UNCHANGED vars PROVE UNCHANGED <<pos, queue, rendered>>
    BY <2>7 DEF vars, comfy
  <2> QED
    BY <2>1, <2>2, <2>3, <2>4, <2>5, <2>6, <2>7, <2>8, Serves
       DEF HostNext, Posts, StartsCli, EvictVoice, Unload, Speaking, Watching, hostVars
<1>3. /\ asked' \in [Productions -> Nat] /\ unloads' \subseteq Prompt
      /\ unloaded' \subseteq [video : Prompt, over : SUBSET Calls]
  <2>1. ASSUME NEW p \in Productions, EvictVoice(p)
        PROVE  /\ asked' \in [Productions -> Nat] /\ unloads' \subseteq Prompt
               /\ unloaded' \subseteq [video : Prompt, over : SUBSET Calls]
    BY <1>t, <2>1 DEF EvictVoice
  <2>2. ASSUME NEW u \in unloads, Unload(u)
        PROVE  /\ asked' \in [Productions -> Nat] /\ unloads' \subseteq Prompt
               /\ unloaded' \subseteq [video : Prompt, over : SUBSET Calls]
    BY <1>t, <2>2 DEF Unload, OverCalls
  <2>3. ASSUME UNCHANGED evictions
        PROVE  /\ asked' \in [Productions -> Nat] /\ unloads' \subseteq Prompt
               /\ unloaded' \subseteq [video : Prompt, over : SUBSET Calls]
    BY <1>t, <2>3 DEF evictions
  <2> QED
    BY <2>1, <2>2, <2>3
       DEF HostNext, Posts, StartsCli, Produces, ServesProductions, RendersClip, Extending,
           Speaking, Watching, hostVars
<1>4. late' \subseteq [to : {"input", "queue"}, prompt : Prompt]
  <2>1. ASSUME NEW p \in Productions, Produces(p)
        PROVE  late' \subseteq [to : {"input", "queue"}, prompt : Prompt]
    <3>1. \A q \in late' : q \in late \/ q \in [to : {"input", "queue"}, prompt : {Current(p)}]
      BY <1>t, <2>1, WorkSends DEF Produces
    <3> QED BY <1>t, <3>1
  <2>2. ASSUME ServesProductions
        PROVE  late' \subseteq [to : {"input", "queue"}, prompt : Prompt]
    <3>1. CASE RendersProduction
      BY <1>t, <3>1 DEF RendersProduction, RendersOwn, Render
    <3>2. CASE Arriving
      BY <1>t, <3>2, ArrivesAs
    <3> QED BY <2>2, <3>1, <3>2, Serves
  <2>3. ASSUME UNCHANGED late PROVE late' \subseteq [to : {"input", "queue"}, prompt : Prompt]
    BY <1>t, <2>3
  <2>4. ASSUME NEW r \in Requests, Handler(r) PROVE UNCHANGED late
    BY <2>4 DEF Handler, CheckActive, Refuse, Accept, comfy
  <2>5. ASSUME NEW k \in Clis, StartCli(k) PROVE UNCHANGED late
    BY <2>5 DEF StartCli, comfy
  <2>6. ASSUME UNCHANGED vars \/ UNCHANGED studio PROVE UNCHANGED late
    BY <2>6 DEF vars, comfy, studio
  <2> QED
    BY <2>1, <2>2, <2>3, <2>4, <2>5, <2>6
       DEF HostNext, Posts, StartsCli, EvictVoice, Unload, RendersClip, Extending, Speaking,
           Watching, hostVars
<1> QED BY <1>1, <1>2, <1>3, <1>4 DEF BaseInv, HostTypeOK

LEMMA BaseInit == HostInit => BaseInv
<1> SUFFICES ASSUME HostInit PROVE BaseInv
  OBVIOUS
<1>1. Voice!VoiceTypeOK
  BY DEF HostInit, Voice!VoiceInit, Voice!VoiceTypeOK
<1>2. Clips!ChainTypeOK /\ InRange
  BY FrameFacts DEF HostInit, Clips!ChainInit, Clips!ChainTypeOK, InRange
<1>3. /\ pos \in [Productions -> Nat] /\ queue \in Seq(Entry)
      /\ \A e \in rendered : e.prompt \in Entry
      /\ late \subseteq [to : {"input", "queue"}, prompt : Prompt]
  BY DEF HostInit, Init
<1> QED BY <1>1, <1>2, <1>3 DEF HostInit, BaseInv, HostTypeOK

\* The variables keep their types.
THEOREM HostTypes == HostSpec => []HostTypeOK
<1>1. BaseInv => HostTypeOK
  BY DEF BaseInv
<1> QED BY <1>1, BaseInit, BaseStep, PTL DEF HostSpec

THEOREM Based == HostSpec => []BaseInv
BY BaseInit, BaseStep, PTL DEF HostSpec

-----------------------------------------------------------------------------
(* The productions' part of the host's behaviours is a behaviour of the    *)
(* production agent.                                                       *)

LEMMA OwnSame ==
  /\ Own!Productions = Productions
  /\ \A p \in Productions : /\ Own!Current(p) = Current(p)
                             /\ Own!Uploads(p) = Uploads(p) /\ Own!Submits(p) = Submits(p)
                             /\ Own!Requesting(p) = Requesting(p)
<1>1. /\ Own!Productions = Productions
      /\ \A p \in Productions : /\ Own!Current(p) = Current(p)
                                 /\ Own!Uploads(p) = Uploads(p) /\ Own!Submits(p) = Submits(p)
  BY DEF Own!Productions, Productions, Own!Current, Current, Own!Uploads, Uploads, Own!Submits,
         Submits, Own!HasTask, HasTask, Own!Task, Task
<1> QED BY <1>1 DEF Own!Requesting, Requesting

LEMMA OwnPart ==
  ASSUME BaseInv
  PROVE  /\ UNCHANGED <<queue, rendered>> => UNCHANGED <<OwnQueue, OwnRendered>>
         /\ \A e \in Entry : queue' = Append(queue, e) =>
              OwnQueue' = IF e.owner \in Productions THEN Append(OwnQueue, e) ELSE OwnQueue
         /\ queue # <<>> /\ queue' = Tail(queue) =>
              IF Head(queue).owner \in Productions
              THEN OwnQueue # <<>> /\ Head(OwnQueue) = Head(queue) /\ OwnQueue' = Tail(OwnQueue)
              ELSE OwnQueue' = OwnQueue
         /\ UNCHANGED rendered => UNCHANGED OwnRendered
         /\ \A e : rendered' = rendered \cup {e} =>
              OwnRendered' = IF e.prompt.owner \in Productions THEN OwnRendered \cup {e} ELSE OwnRendered
<1>1. queue \in Seq(Entry)
  BY DEF BaseInv
<1>2. OwnQueue = OwnOf(queue) /\ OwnQueue' = OwnOf(queue')
  BY DEF OwnQueue, OwnOf, Places, Rank
<1>3. UNCHANGED queue => UNCHANGED OwnQueue
  BY <1>2
<1>4. UNCHANGED rendered => UNCHANGED OwnRendered
  BY DEF OwnRendered
<1>5. ASSUME NEW e \in Entry, queue' = Append(queue, e)
      PROVE  OwnQueue' = IF e.owner \in Productions THEN Append(OwnQueue, e) ELSE OwnQueue
  <2>1. CASE e.owner \in Productions
    <3>1. e \in Prompt
      BY <2>1, OwnEntry
    <3> QED BY <1>1, <1>2, <1>5, <2>1, <3>1, AppendOwn
  <2>2. CASE e.owner \notin Productions
    BY <1>1, <1>2, <1>5, <2>2, AppendOther
  <2> QED BY <2>1, <2>2
<1>6. ASSUME queue # <<>>, queue' = Tail(queue)
      PROVE  IF Head(queue).owner \in Productions
             THEN OwnQueue # <<>> /\ Head(OwnQueue) = Head(queue) /\ OwnQueue' = Tail(OwnQueue)
             ELSE OwnQueue' = OwnQueue
  <2>1. CASE Head(queue).owner \in Productions
    BY <1>1, <1>2, <1>6, <2>1, TailOwn
  <2>2. CASE Head(queue).owner \notin Productions
    BY <1>1, <1>2, <1>6, <2>2, TailOther
  <2> QED BY <2>1, <2>2
<1>7. ASSUME NEW e, rendered' = rendered \cup {e}
      PROVE  OwnRendered' = IF e.prompt.owner \in Productions THEN OwnRendered \cup {e} ELSE OwnRendered
  BY <1>7 DEF OwnRendered
<1> QED BY <1>3, <1>4, <1>5, <1>6, <1>7

LEMMA OwnWork ==
  ASSUME BaseInv, NEW p \in Productions, Work(p)
  PROVE  Own!Work(p)
<1>a. Current(p) \in Entry /\ Current(p).owner = p /\ Own!Current(p) = Current(p)
  BY OwnEntry, OwnSame DEF Current, BaseInv
<1>b. /\ UNCHANGED <<queue, rendered>> => UNCHANGED <<OwnQueue, OwnRendered>>
      /\ queue' = Append(queue, Current(p)) => OwnQueue' = Append(OwnQueue, Current(p))
      /\ UNCHANGED rendered => UNCHANGED OwnRendered
  BY <1>a, OwnPart
<1>c. \A e \in rendered : e.prompt = Current(p) => e \in OwnRendered
  BY <1>a DEF OwnRendered
<1> USE DEF jobs, comfy, Own!jobs, Own!comfy, Goes, Own!Goes, Reports, Own!Reports
<1>1. CASE Acquire(p)
  BY <1>1, <1>b DEF Acquire, Own!Acquire, Own!Work
<1>2. CASE FindLocked(p)
  BY <1>2, <1>b DEF FindLocked, Own!FindLocked, Own!Work
<1>3. CASE LockBreaks(p)
  BY <1>3, <1>b DEF LockBreaks, Own!LockBreaks, Own!Work
<1>4. CASE Release(p)
  BY <1>4, <1>b DEF Release, Own!Release, Own!Work
<1>5. CASE PlanBrief(p)
  BY <1>5, <1>b DEF PlanBrief, Own!PlanBrief, Own!Work
<1>6. CASE Upload(p)
  BY <1>6, <1>a, <1>b, OwnSame DEF Upload, Own!Upload, Own!Work
<1>7. CASE Submit(p)
  BY <1>7, <1>a, <1>b, OwnSame DEF Submit, Own!Submit, Own!Work
<1>8. CASE Speak(p)
  BY <1>8, <1>b DEF Speak, Own!Speak, Own!Work, HasTask, Own!HasTask, Task, Own!Task
<1>9. CASE Collect(p)
  BY <1>9, <1>a, <1>b, <1>c DEF Collect, Own!Collect, Own!Work
<1>10. CASE Assemble(p)
  BY <1>10, <1>b DEF Assemble, Own!Assemble, Own!Work
<1>11. CASE Breaks(p)
  BY <1>11, <1>a, <1>b, <1>c DEF Breaks, Own!Breaks, Own!Work
<1>12. CASE GiveUp(p)
  BY <1>12, <1>b, OwnSame DEF GiveUp, Own!GiveUp, Own!Work
<1> QED
  BY <1>1, <1>2, <1>3, <1>4, <1>5, <1>6, <1>7, <1>8, <1>9, <1>10, <1>11, <1>12 DEF Work

LEMMA OwnRender ==
  ASSUME BaseInv, RendersProduction
  PROVE  Own!Render
<1>1. /\ queue # <<>> /\ Head(queue).owner \in Productions /\ queue' = Tail(queue)
      /\ UNCHANGED <<req, status, stage, plan, pos, flock, image, late, strays>>
  BY DEF RendersProduction, RendersOwn, Render, jobs
<1>2. PICK good \in BOOLEAN :
        rendered' = rendered \cup {[prompt |-> Head(queue), image |-> image, ok |-> good]}
  BY DEF RendersProduction, RendersOwn, Render
<1>3. OwnQueue # <<>> /\ Head(OwnQueue) = Head(queue) /\ OwnQueue' = Tail(OwnQueue)
  BY <1>1, OwnPart
<1>4. OwnRendered' = OwnRendered \cup {[prompt |-> Head(queue), image |-> image, ok |-> good]}
  <2> DEFINE e == [prompt |-> Head(queue), image |-> image, ok |-> good]
  <2>1. e.prompt.owner \in Productions /\ rendered' = rendered \cup {e}
    BY <1>1, <1>2
  <2> HIDE DEF e
  <2>2. OwnRendered' = OwnRendered \cup {e}
    BY <2>1, OwnPart
  <2> QED BY <2>2 DEF e
<1> QED BY <1>1, <1>3, <1>4 DEF Own!Render, Own!jobs

LEMMA OwnArrives ==
  ASSUME BaseInv, Arriving
  PROVE  Own!Arrives
<1>1. PICK q \in late :
        /\ late' = late \ {q}
        /\ \/ q.to = "input" /\ image' = q.prompt /\ strays' = strays \cup {q.prompt} /\ UNCHANGED queue
           \/ q.to = "queue" /\ queue' = Append(queue, q.prompt) /\ UNCHANGED <<image, strays>>
  BY DEF Arriving, Arrives
<1>2. UNCHANGED <<req, status, stage, plan, pos, flock, rendered>>
  BY DEF Arriving, Arrives, jobs
<1>3. q.prompt \in Entry /\ q.prompt.owner \in Productions
  BY OwnEntry DEF BaseInv
<1>4. /\ UNCHANGED queue => UNCHANGED OwnQueue
      /\ queue' = Append(queue, q.prompt) => OwnQueue' = Append(OwnQueue, q.prompt)
      /\ UNCHANGED OwnRendered
  BY <1>2, <1>3, OwnPart
<1> QED BY <1>1, <1>2, <1>4 DEF Own!Arrives, Own!jobs

\* A step of somebody else is none for the productions.
LEMMA OwnIdle ==
  ASSUME BaseInv, UNCHANGED studio,
         \/ UNCHANGED <<queue, rendered>>
         \/ \E j \in Extends : Clips!PostExtend(j) \/ Clips!Chain(j)
         \/ RendersClip
  PROVE  UNCHANGED Own!vars
<1>1. UNCHANGED <<OwnQueue, OwnRendered>>
  <2>1. CASE UNCHANGED <<queue, rendered>>
    BY <2>1, OwnPart
  <2>2. ASSUME NEW j \in Extends, Clips!PostExtend(j) \/ Clips!Chain(j)
        PROVE  UNCHANGED <<OwnQueue, OwnRendered>>
    BY <2>2, ChainSends, OwnPart DEF BaseInv, HostTypeOK
  <2>3. CASE RendersClip
    <3>1. Head(queue).owner \notin Productions
      BY <2>3, OwnEntry DEF RendersClip, Clips!RenderSegment
    <3> QED BY <2>3, <3>1, TakesOldest, OwnPart
  <2> QED BY <2>1, <2>2, <2>3
<1> QED BY <1>1 DEF studio, jobs, Own!vars, Own!jobs, Own!comfy

LEMMA OwnStep == BaseInv /\ [HostNext]_hostVars => [Own!Next]_(Own!vars)
<1> SUFFICES ASSUME BaseInv, [HostNext]_hostVars PROVE [Own!Next]_(Own!vars)
  OBVIOUS
<1>a. UNCHANGED <<queue, rendered>> => UNCHANGED <<OwnQueue, OwnRendered>>
  BY OwnPart
<1>1. ASSUME NEW r \in Requests, Posts(r) PROVE Own!Next
  <2>1. Handler(r)
    BY <1>1 DEF Posts
  <2>2. Own!Active = Active
    BY DEF Active, Own!Active
  <2>3. CASE CheckActive(r)
    BY <1>a, <2>2, <2>3 DEF CheckActive, Own!CheckActive, Own!Next, Own!Handler, comfy, Own!comfy
  <2>4. CASE Refuse(r)
    BY <1>a, <2>2, <2>4 DEF Refuse, Own!Refuse, Own!Next, Own!Handler, comfy, Own!comfy
  <2>5. CASE Accept(r)
    BY <1>a, <2>5 DEF Accept, Own!Accept, Own!Next, Own!Handler, Goes, Own!Goes, comfy, Own!comfy
  <2> QED BY <2>1, <2>3, <2>4, <2>5 DEF Handler
<1>2. ASSUME NEW k \in Clis, StartsCli(k) PROVE Own!Next
  <2>1. StartCli(k)
    BY <1>2 DEF StartsCli
  <2>2. Own!StartCli(k)
    BY <1>a, <2>1 DEF StartCli, Own!StartCli, Goes, Own!Goes, jobs, Own!jobs, comfy, Own!comfy
  <2> QED BY <2>2 DEF Own!Next
<1>3. ASSUME NEW p \in Productions, Produces(p) PROVE Own!Next
  <2>1. Own!Work(p)
    BY <1>3, OwnWork DEF Produces
  <2> QED BY <2>1, OwnSame DEF Own!Next
<1>4. ASSUME ServesProductions PROVE Own!Next
  BY <1>4, Serves, OwnRender, OwnArrives DEF Own!Next
<1>5. ASSUME UNCHANGED vars PROVE UNCHANGED Own!vars
  BY <1>5, OwnIdle DEF vars, jobs, comfy, studio
<1>6. ASSUME NEW j \in Extends, Extending(j) PROVE UNCHANGED Own!vars
  BY <1>6, OwnIdle DEF Extending
<1>7. ASSUME RendersClip PROVE UNCHANGED Own!vars
  BY <1>7, OwnIdle DEF RendersClip
<1> QED
  BY <1>1, <1>2, <1>3, <1>4, <1>5, <1>6, <1>7
     DEF HostNext, EvictVoice, Unload, Speaking, Watching, hostVars

LEMMA OwnInit == HostInit => Own!Init
<1> SUFFICES ASSUME HostInit PROVE Own!Init
  OBVIOUS
<1>1. queue = <<>> /\ rendered = {} /\ Init
  BY DEF HostInit, Init
<1>2. OwnQueue = <<>>
  <2>1. Places(queue) = {}
    BY <1>1 DEF Places
  <2>2. Cardinality(Places(queue)) = 0
    BY <2>1, FS_EmptySet
  <2> QED BY <2>2 DEF OwnQueue, OwnOf
<1>3. OwnRendered = {}
  BY <1>1 DEF OwnRendered
<1> QED BY <1>1, <1>2, <1>3, OwnSame DEF Init, Own!Init, Own!Dirs, Dirs

\* What the productions of a host do, and what ComfyUI does with their prompts, is
\* what they do on a host of their own.
THEOREM HostRunsProductions == HostSpec => Own!Spec
BY Based, OwnInit, OwnStep, PTL DEF HostSpec, Own!Spec

LEMMA OwnAssumption == Own!ConstantsAssumption
BY ConstantsAssumption DEF Own!ConstantsAssumption, Own!Tasks, Tasks, Own!Productions, Productions

\* The lock of the productions directory is a lock beside the other services too: a
\* job that says it renders holds it,
THEOREM HostStatusHonest == HostSpec => []StatusIsHonest
<1>1. Own!Spec => []Own!StatusIsHonest
  BY Own!HonestStatus, OwnAssumption
<1>2. Own!StatusIsHonest => StatusIsHonest
  BY DEF Own!StatusIsHonest, StatusIsHonest, Own!InProduction, InProduction, Own!Rendering, Rendering
<1> QED BY <1>1, <1>2, HostRunsProductions, PTL

\* ... whoever else holds it is a job that died over the lock file itself,
THEOREM HostNoLeakedLock == HostSpec => []LockIsInUse
<1>1. Own!Spec => []Own!LockIsInUse
  BY Own!NoLeakedLock, OwnAssumption
<1>2. Own!LockIsInUse => LockIsInUse
  BY DEF Own!LockIsInUse, LockIsInUse, Own!Dirs, Dirs, Own!Productions, Productions,
         Own!InProduction, InProduction, Own!Rendering, Rendering, Own!LeftAtPlanning, LeftAtPlanning
<1> QED BY <1>1, <1>2, HostRunsProductions, PTL

\* ... and with one directory the productions of the host have it as a lease,
THEOREM HostLease == ASSUME Own!OneDirectory PROVE HostSpec => LeaseSpec
<1>1. Own!Spec => Own!LeaseSpec
  BY Own!ImplementsLease, OwnAssumption
<1>2. Own!Lease!Init => Lease!Init
  BY OwnSame DEF Own!Lease!Init, Lease!Init, Own!InProduction, InProduction, Own!Rendering, Rendering
<1>3. [Own!Lease!Next]_{p \in Own!Productions : Own!InProduction(p)}
        => [Lease!Next]_{p \in Productions : InProduction(p)}
  BY OwnSame DEF Own!Lease!Next, Lease!Next, Own!Lease!Start, Lease!Start, Own!Lease!Land, Lease!Land,
                 Own!InProduction, InProduction, Own!Rendering, Rendering
<1> QED
  BY <1>1, <1>2, <1>3, HostRunsProductions, PTL DEF Own!LeaseSpec, LeaseSpec, Own!Lease!Spec, Lease!Spec

\* ... and while nothing times out ComfyUI holds one production's prompts at a time:
\* the long clips' come between them, but never another production's.
THEOREM HostAloneInComfy ==
  ASSUME Own!OneDirectory, ~TimesOut PROVE HostSpec => []AloneInComfy
<1>1. Own!Spec => []Own!AloneInComfy
  BY Own!OneProductionsPrompts, OwnAssumption
<1>2. BaseInv /\ Own!AloneInComfy => AloneInComfy
  <2> SUFFICES ASSUME BaseInv, Own!AloneInComfy,
                      NEW i \in 1..Len(queue), NEW j \in 1..Len(queue),
                      {queue[i].owner, queue[j].owner} \subseteq Productions
               PROVE  queue[i].owner = queue[j].owner
    BY DEF AloneInComfy
  <2>1. i \in Places(queue) /\ j \in Places(queue) /\ queue \in Seq(Entry)
    BY DEF Places, BaseInv
  <2>2. /\ OwnQueue[Rank(queue, i)] = queue[i] /\ Rank(queue, i) \in 1..Len(OwnQueue)
        /\ OwnQueue[Rank(queue, j)] = queue[j] /\ Rank(queue, j) \in 1..Len(OwnQueue)
    BY <2>1, OwnFacts, Counting DEF OwnQueue
  <2> QED BY <2>2, OwnSame DEF Own!AloneInComfy
<1> QED BY <1>1, <1>2, Based, HostRunsProductions, PTL

\* A production's clip is rendered from its own start image: no long clip writes the
\* file, and no other production does before the clip is rendered, unless it is with
\* an upload that it was not waiting for any more,
THEOREM HostOwnImage ==
  ASSUME Own!OneDirectory PROVE HostSpec => []OwnOrStrayImage
<1>1. Own!Spec => []Own!OwnOrStrayImage
  BY Own!ClipsFromOwnImage, OwnAssumption
<1>2. Own!OwnOrStrayImage => OwnOrStrayImage
  BY OwnSame DEF Own!OwnOrStrayImage, OwnOrStrayImage, Own!ClipsHaveTheirImages,
                 ClipsHaveTheirImages, OwnRendered
<1> QED BY <1>1, <1>2, HostRunsProductions, PTL

\* ... and never while nothing times out.
THEOREM HostOwnImageInTime ==
  ASSUME Own!OneDirectory, ~TimesOut PROVE HostSpec => []OwnImage
<1>1. Own!Spec => []Own!OwnImage
  BY Own!OwnImageInTime, OwnAssumption
<1>2. Own!OwnImage => OwnImage
  BY OwnSame DEF Own!OwnImage, OwnImage, Own!ClipsHaveTheirImages, ClipsHaveTheirImages, OwnRendered
<1> QED BY <1>1, <1>2, HostRunsProductions, PTL

-----------------------------------------------------------------------------
(* The voice service.                                                      *)

\* Whoever loads holds the lock, loads an engine only when there is none, and its
\* encoder first; a call has an engine from the end of _ensure_loaded to its own.
VoiceInv ==
  /\ Voice!VoiceTypeOK
  /\ \A c \in Calls : call[c] \in {"encoding", "loading"} <=> load_lock = c
  /\ \A c \in Calls : call[c] = "loading" => encoder = c
  /\ load_lock # NoCall => engine = NoCall
  /\ engine # NoCall => encoder = engine
  /\ \A c \in Calls : call[c] \in Voice!Using <=> eng[c] # NoCall

LEMMA VoiceInit == Voice!VoiceInit => VoiceInv
<1> SUFFICES ASSUME Voice!VoiceInit PROVE VoiceInv
  OBVIOUS
<1>1. Voice!VoiceTypeOK
  BY DEF Voice!VoiceInit, Voice!VoiceTypeOK
<1> QED BY <1>1, HostAssumption DEF Voice!VoiceInit, VoiceInv, Voice!Using

LEMMA VoiceStep == VoiceInv /\ [Voice!VoiceNext]_voice => VoiceInv'
<1> SUFFICES ASSUME VoiceInv, [Voice!VoiceNext]_voice PROVE VoiceInv'
  OBVIOUS
<1>t. Voice!VoiceTypeOK /\ Voice!VoiceTypeOK' /\ NoCall \notin Calls
  BY VoiceTypes, HostAssumption DEF VoiceInv
<1> USE DEF VoiceInv, Voice!Moves, Voice!Using
<1>1. ASSUME NEW c \in Calls, Voice!FindsLoaded(c) PROVE VoiceInv'
  BY <1>1, <1>t, ZenonT(60) DEF Voice!FindsLoaded, Voice!VoiceTypeOK
<1>2. ASSUME NEW c \in Calls, Voice!BeginsLoad(c) PROVE VoiceInv'
  BY <1>2, <1>t DEF Voice!BeginsLoad, Voice!VoiceTypeOK
<1>3. ASSUME NEW c \in Calls, Voice!EncoderLoaded(c) PROVE VoiceInv'
  BY <1>3, <1>t DEF Voice!EncoderLoaded, Voice!VoiceTypeOK
<1>4. ASSUME NEW c \in Calls, Voice!EngineLoaded(c) PROVE VoiceInv'
  BY <1>4, <1>t, ZenonT(60) DEF Voice!EngineLoaded, Voice!VoiceTypeOK
<1>5. ASSUME NEW c \in Calls, Voice!LoadFails(c) PROVE VoiceInv'
  BY <1>5, <1>t DEF Voice!LoadFails, Voice!VoiceTypeOK
<1>6. ASSUME NEW c \in Calls, Voice!Stamp(c) PROVE VoiceInv'
  BY <1>6, <1>t DEF Voice!Stamp, Voice!VoiceTypeOK
<1>7. ASSUME NEW c \in Calls, Voice!Ends(c) PROVE VoiceInv'
  BY <1>7, <1>t DEF Voice!Ends, Voice!VoiceTypeOK
\* Nobody loads while the globals are reset.
<1>8. ASSUME Voice!Drop PROVE VoiceInv'
  BY <1>8, <1>t DEF Voice!Drop
<1>9. ASSUME UNCHANGED <<engine, encoder, load_lock, call, eng>> PROVE VoiceInv'
  BY <1>9, <1>t
<1> QED
  BY <1>1, <1>2, <1>3, <1>4, <1>5, <1>6, <1>7, <1>8, <1>9
     DEF Voice!VoiceNext, Voice!Call, Voice!IdleWatch, Voice!Ages, Voice!WatchDecides,
         Voice!WatchUnloads, Voice!Unload, voice

\* The voice service of the host is the voice service.
THEOREM HostRunsVoice == HostSpec => Voice!VoiceSpec
<1>1. HostInit => Voice!VoiceInit
  BY DEF HostInit
<1>2. Voice!voice = voice
  BY DEF Voice!voice, voice
<1>3. [HostNext]_hostVars => [Voice!VoiceNext]_(Voice!voice)
  BY <1>2, VoicePart DEF voice, Voice!voice
<1> QED BY <1>1, <1>3, PTL DEF HostSpec, Voice!VoiceSpec

LEMMA VoiceHolds == HostSpec => []VoiceInv
<1>1. HostInit => VoiceInv
  BY VoiceInit DEF HostInit
<1> QED BY <1>1, VoicePart, VoiceStep, PTL DEF HostSpec

\* A call that is past _ensure_loaded has an engine to speak with, whatever the idle
\* watch and the video lanes unload meanwhile.
THEOREM CallsHaveEngines == HostSpec => []CallHasEngine
<1>1. VoiceInv => CallHasEngine
  BY DEF VoiceInv, CallHasEngine, Voice!CallHasEngine
<1> QED BY <1>1, VoiceHolds, PTL

\* The engine the service knows of has the encoder it was loaded with.
THEOREM EngineHasItsEncoder == HostSpec => []LoadedTogether
<1>1. VoiceInv => LoadedTogether
  BY DEF VoiceInv, LoadedTogether, Voice!LoadedTogether
<1> QED BY <1>1, VoiceHolds, PTL

\* A call that was over when an unload was served is over, and is not what has
\* loaded the engine that is there now.
GaveInv == \A u \in unloaded : u.over \subseteq OverCalls /\ engine \notin u.over

LEMMA GaveStep ==
  ASSUME VoiceInv, BaseInv, GaveInv, [HostNext]_hostVars
  PROVE  GaveInv'
<1>t. Voice!VoiceTypeOK /\ NoCall \notin Calls
  BY HostAssumption DEF VoiceInv
\* What the voice does to the engine and to the calls that are over.
<1>1. /\ OverCalls \subseteq OverCalls'
      /\ engine' \in {engine, NoCall} \cup (Calls \ OverCalls)
  <2>1. ASSUME NEW c \in Calls, Voice!Call(c)
        PROVE  /\ OverCalls \subseteq OverCalls'
               /\ engine' \in {engine, NoCall} \cup (Calls \ OverCalls)
    <3> USE DEF OverCalls, Voice!Moves, Voice!VoiceTypeOK
    <3>1. CASE Voice!FindsLoaded(c) \/ Voice!BeginsLoad(c) \/ Voice!EncoderLoaded(c)
      BY <1>t, <3>1 DEF Voice!FindsLoaded, Voice!BeginsLoad, Voice!EncoderLoaded
    <3>2. CASE Voice!EngineLoaded(c)
      BY <1>t, <3>2 DEF Voice!EngineLoaded
    <3>3. CASE Voice!LoadFails(c) \/ Voice!Stamp(c) \/ Voice!Ends(c)
      BY <1>t, <3>3 DEF Voice!LoadFails, Voice!Stamp, Voice!Ends
    <3> QED BY <2>1, <3>1, <3>2, <3>3 DEF Voice!Call
  <2>2. ASSUME Voice!IdleWatch \/ Voice!Unload \/ UNCHANGED voice
        PROVE  /\ OverCalls \subseteq OverCalls'
               /\ engine' \in {engine, NoCall} \cup (Calls \ OverCalls)
    BY <2>2 DEF OverCalls, Voice!IdleWatch, Voice!Ages, Voice!WatchDecides, Voice!WatchUnloads,
                Voice!Unload, Voice!Drop, voice
  <2> QED BY <2>1, <2>2, VoicePart DEF Voice!VoiceNext
<1>2. \A u \in unloaded : u.over \subseteq Calls
  BY DEF BaseInv, HostTypeOK
<1>3. ASSUME NEW u \in unloaded
      PROVE  u.over \subseteq OverCalls' /\ engine' \notin u.over
  <2>1. u.over \subseteq OverCalls /\ engine \notin u.over
    BY DEF GaveInv
  <2> QED BY <1>t, <1>1, <1>2, <2>1
<1>4. ASSUME NEW v \in unloads, Unload(v)
      PROVE  GaveInv'
  <2>1. /\ unloaded' = unloaded \cup {[video |-> v, over |-> OverCalls]}
        /\ engine' = NoCall
    BY <1>4 DEF Unload, Voice!Unload, Voice!Drop
  <2>2. OverCalls \subseteq OverCalls' /\ NoCall \notin OverCalls
    BY <1>t, <1>1 DEF OverCalls
  <2> QED BY <1>3, <2>1, <2>2 DEF GaveInv
<1>5. ASSUME UNCHANGED unloaded PROVE GaveInv'
  BY <1>3, <1>5 DEF GaveInv
<1> QED
  BY <1>4, <1>5
     DEF HostNext, Posts, StartsCli, EvictVoice, Produces, ServesProductions, RendersClip,
         Extending, Speaking, Watching, hostVars, evictions

\* Once an unload has been served, what GPU 1 holds of the voice belongs to a call
\* that was not over then.
THEOREM VoiceGivesGpuAway == HostSpec => []VoiceGivesWay
<1>1. HostInit => GaveInv
  BY DEF HostInit, GaveInv
<1>2. VoiceInv /\ BaseInv /\ GaveInv /\ [HostNext]_hostVars => GaveInv'
  BY GaveStep
<1>3. VoiceInv /\ GaveInv => VoiceGivesWay
  <2> SUFFICES ASSUME VoiceInv, GaveInv, NEW u \in unloaded, NEW e \in Voice!Resident
               PROVE  \E c \in Calls \ u.over : eng[c] = e \/ c = e
    BY DEF VoiceGivesWay
  <2>1. u.over \subseteq OverCalls /\ engine \notin u.over
    BY DEF GaveInv
  <2>2. CASE e = engine
    BY <2>1, <2>2 DEF Voice!Resident, VoiceInv, Voice!VoiceTypeOK
  <2>3. ASSUME NEW c \in Calls, e = eng[c] PROVE c \in Calls \ u.over
    <3>1. call[c] \in Voice!Using
      BY <2>3 DEF Voice!Resident, VoiceInv
    <3> QED BY <2>1, <3>1 DEF OverCalls, Voice!Using
  <2> QED BY <2>2, <2>3 DEF Voice!Resident
<1> QED BY <1>1, <1>2, <1>3, Based, VoiceHolds, PTL DEF HostSpec

-----------------------------------------------------------------------------
(* Long clips.                                                             *)

FrameOf(j, n) == frames[Clips!FileName(j, n)]
Before(j, n) == [owner |-> j, task |-> n - 1]

\* The frame of every segment, from the second on: nobody else writes its file, and
\* it is there from the upload on, in time for the prompt that reads it.
FrameIsMine ==
  \A j \in Extends, n \in 2..Segments : FrameOf(j, n) \in {NoFrame, Before(j, n)}

UploadedIsThere ==
  \A j \in Extends : at[j] = "uploaded" =>
    seg[j] \in 2..Segments /\ FrameOf(j, seg[j]) = Before(j, seg[j])

HasFrame(e) ==
  e.owner \in Extends =>
    e.task = 1 \/ (e.task \in 2..Segments /\ FrameOf(e.owner, e.task) = Before(e.owner, e.task))

QueuedHasFrame == \A i \in 1..Len(queue) : HasFrame(queue[i])

ClipInv == FrameIsMine /\ UploadedIsThere /\ QueuedHasFrame /\ ContinuesItself

\* With the job's id in its name no two segments have one file.
LEMMA NamesApart ==
  ASSUME OwnNames, NEW j \in Extends, NEW n \in Nat, NEW i \in Extends, NEW m \in Nat,
         Clips!FileName(j, n) = Clips!FileName(i, m)
  PROVE  j = i /\ n = m
BY DEF Clips!FileName

\* A step that writes no frame, except one that is not there or is the same.
LEMMA FrameSteps ==
  ASSUME OwnNames, BaseInv, ClipInv,
         (\E j \in Extends : Clips!PostExtend(j) \/ Clips!Chain(j)) \/ UNCHANGED chain
  PROVE  /\ FrameIsMine' /\ UploadedIsThere'
         /\ \A j \in Extends, n \in 2..Segments :
              FrameOf(j, n) = Before(j, n) => FrameOf(j, n)' = Before(j, n)
<1>t. /\ Clips!ChainTypeOK /\ InRange
      /\ Segments \in Nat
  BY HostAssumption DEF BaseInv, HostTypeOK
<1> USE DEF ClipInv, FrameIsMine, UploadedIsThere, Clips!To, Clips!Becomes
<1>1. ASSUME UNCHANGED <<frames, seg>>, \A j \in Extends : at'[j] = "uploaded" => at[j] = "uploaded"
      PROVE  /\ FrameIsMine' /\ UploadedIsThere'
             /\ \A j \in Extends, n \in 2..Segments :
                  FrameOf(j, n) = Before(j, n) => FrameOf(j, n)' = Before(j, n)
  BY <1>1 DEF FrameOf, Before
<1>2. ASSUME NEW j \in Extends, Clips!UploadFrame(j)
      PROVE  /\ FrameIsMine' /\ UploadedIsThere'
             /\ \A i \in Extends, n \in 2..Segments :
                  FrameOf(i, n) = Before(i, n) => FrameOf(i, n)' = Before(i, n)
  <2>1. PICK m \in 2..Segments : m = seg[j]
    BY <1>2 DEF Clips!UploadFrame
  <2>2. /\ frames' = [frames EXCEPT ![Clips!FileName(j, m)] = Before(j, m)]
        /\ UNCHANGED seg
        /\ \A i \in Extends \ {j} : at'[i] = at[i]
    BY <1>2, <1>t, <2>1 DEF Clips!UploadFrame, Clips!ChainTypeOK, Before
  <2>3. ASSUME NEW i \in Extends, NEW n \in 2..Segments
        PROVE  FrameOf(i, n)' = IF i = j /\ n = m THEN Before(j, m) ELSE FrameOf(i, n)
    <3>1. Clips!FileName(i, n) \in DOMAIN frames
      BY <1>t, FrameFacts DEF Clips!ChainTypeOK
    <3>2. i # j \/ n # m => Clips!FileName(i, n) # Clips!FileName(j, m)
      BY <1>t, NamesApart
    <3>3. frames'[Clips!FileName(i, n)]
            = IF i = j /\ n = m THEN Before(j, m) ELSE frames[Clips!FileName(i, n)]
      BY <2>2, <3>1, <3>2
    <3> QED BY <3>3 DEF FrameOf, Clips!FileName
  <2>4. FrameIsMine'
    <3> SUFFICES ASSUME NEW i \in Extends, NEW n \in 2..Segments
                 PROVE  FrameOf(i, n)' \in {NoFrame, Before(i, n)}
      BY DEF Before
    <3> QED BY <2>3
  <2>5. UploadedIsThere'
    <3> SUFFICES ASSUME NEW i \in Extends, at'[i] = "uploaded"
                 PROVE  seg'[i] \in 2..Segments /\ FrameOf(i, seg[i])' = Before(i, seg[i])'
      OBVIOUS
    <3>1. seg[i] \in 2..Segments /\ seg'[i] = seg[i] /\ (i # j => FrameOf(i, seg[i]) = Before(i, seg[i]))
      BY <2>1, <2>2
    <3>2. PICK n \in 2..Segments : n = seg[i]
      BY <3>1
    <3>3. FrameOf(i, n)' = Before(i, n)
      BY <2>1, <2>3, <3>1, <3>2
    <3> QED BY <3>1, <3>2, <3>3 DEF FrameOf, Before, Clips!FileName
  <2>6. \A i \in Extends, n \in 2..Segments :
          FrameOf(i, n) = Before(i, n) => FrameOf(i, n)' = Before(i, n)
    BY <2>3
  <2> QED BY <2>4, <2>5, <2>6
<1>3. ASSUME NEW j \in Extends, Clips!PostExtend(j) \/ Clips!SendSegment(j) \/ Clips!JoinSegments(j)
      PROVE  UNCHANGED <<frames, seg>> /\ \A i \in Extends : at'[i] = "uploaded" => at[i] = "uploaded"
  BY <1>3, <1>t DEF Clips!PostExtend, Clips!SendSegment, Clips!JoinSegments, Clips!ChainTypeOK
<1>4. ASSUME NEW j \in Extends, Clips!ChainFails(j)
      PROVE  UNCHANGED <<frames, seg>> /\ \A i \in Extends : at'[i] = "uploaded" => at[i] = "uploaded"
  BY <1>4, <1>t DEF Clips!ChainFails, Clips!ChainTypeOK
<1>5. ASSUME NEW j \in Extends, Clips!CollectSegment(j)
      PROVE  /\ FrameIsMine' /\ UploadedIsThere'
             /\ \A i \in Extends, n \in 2..Segments :
                  FrameOf(i, n) = Before(i, n) => FrameOf(i, n)' = Before(i, n)
  <2>1. /\ UNCHANGED frames
        /\ \A i \in Extends : at'[i] = "uploaded" => at[i] = "uploaded" /\ seg'[i] = seg[i]
    BY <1>5, <1>t DEF Clips!CollectSegment, Clips!ChainTypeOK
  <2> QED BY <2>1 DEF FrameOf, Before, Clips!FileName
<1>6. ASSUME UNCHANGED chain
      PROVE  UNCHANGED <<frames, seg>> /\ \A i \in Extends : at'[i] = "uploaded" => at[i] = "uploaded"
  BY <1>6 DEF chain
<1> QED BY <1>1, <1>2, <1>3, <1>4, <1>5, <1>6 DEF Clips!Chain

LEMMA QueueSteps ==
  ASSUME OwnNames, BaseInv, ClipInv, [HostNext]_hostVars,
         \A j \in Extends, n \in 2..Segments :
           FrameOf(j, n) = Before(j, n) => FrameOf(j, n)' = Before(j, n)
  PROVE  QueuedHasFrame'
<1>t. /\ queue \in Seq(Entry) /\ pos \in [Productions -> Nat] /\ Clips!ChainTypeOK /\ InRange
      /\ Segments \in Nat /\ Segments >= 2
  BY HostAssumption DEF BaseInv, HostTypeOK
<1>1. ASSUME NEW e \in Entry, HasFrame(e) PROVE HasFrame(e)'
  BY <1>1 DEF HasFrame, Before
<1>2. \A i \in 1..Len(queue) : queue[i] \in Entry /\ HasFrame(queue[i])
  BY <1>t DEF ClipInv, QueuedHasFrame
<1>3. ASSUME UNCHANGED queue PROVE QueuedHasFrame'
  <2> SUFFICES ASSUME NEW i \in 1..Len(queue) PROVE HasFrame(queue[i])'
    BY <1>3 DEF QueuedHasFrame
  <2>1. PICK e \in Entry : e = queue[i] /\ HasFrame(e)
    BY <1>2
  <2>2. HasFrame(e)'
    BY <1>1, <2>1
  <2> QED BY <1>3, <2>1, <2>2 DEF HasFrame, FrameOf, Before, Clips!FileName
<1>4. ASSUME NEW e \in Entry, queue' = Append(queue, e), HasFrame(e) PROVE QueuedHasFrame'
  <2> SUFFICES ASSUME NEW i \in 1..Len(queue') PROVE HasFrame(queue[i])'
    BY DEF QueuedHasFrame
  <2>1. PICK f \in Entry : f = queue'[i] /\ HasFrame(f)
    <3>1. (i \in 1..Len(queue) /\ queue'[i] = queue[i]) \/ queue'[i] = e
      BY <1>t, <1>4
    <3> QED BY <1>2, <1>4, <3>1
  <2>2. HasFrame(f)'
    BY <1>1, <2>1
  <2> QED BY <2>1, <2>2 DEF HasFrame, FrameOf, Before, Clips!FileName
<1>5. ASSUME RendersProduction \/ RendersClip PROVE QueuedHasFrame'
  <2>1. queue # <<>> /\ queue' = Tail(queue)
    BY <1>5, TakesOldest
  <2> SUFFICES ASSUME NEW i \in 1..Len(queue') PROVE HasFrame(queue[i])'
    BY DEF QueuedHasFrame
  <2>2. PICK f \in Entry : f = queue'[i] /\ HasFrame(f)
    <3>1. i + 1 \in 1..Len(queue) /\ queue'[i] = queue[i + 1]
      BY <1>t, <2>1
    <3> QED BY <1>2, <3>1
  <2>3. HasFrame(f)'
    BY <1>1, <2>2
  <2> QED BY <2>2, <2>3 DEF HasFrame, FrameOf, Before, Clips!FileName
<1>6. ASSUME NEW p \in Productions, Produces(p) PROVE QueuedHasFrame'
  <2>1. UNCHANGED queue \/ queue' = Append(queue, Current(p))
    BY <1>t, <1>6, WorkSends DEF Produces
  <2>2. Current(p) \in Entry /\ HasFrame(Current(p))
    BY <1>t, OwnEntry DEF Current, HasFrame
  <2> QED BY <1>3, <1>4, <2>1, <2>2
<1>11. ASSUME Arriving PROVE QueuedHasFrame'
  <2>1. PICK s \in Prompt : UNCHANGED queue \/ queue' = Append(queue, s)
    BY <1>11, ArrivesAs
  <2>2. s \in Entry /\ HasFrame(s)
    BY OwnEntry DEF HasFrame
  <2> QED BY <1>3, <1>4, <2>1, <2>2
<1>7. ASSUME NEW j \in Extends, Extending(j) PROVE QueuedHasFrame'
  <2>1. Clips!PostExtend(j) \/ Clips!Chain(j)
    BY <1>7 DEF Extending
  <2>2. \/ UNCHANGED queue
        \/ queue' = Append(queue, Clips!Segment(j)) /\ Clips!Sends(j)
    BY <2>1 DEF Clips!PostExtend, Clips!Chain, Clips!UploadFrame, Clips!SendSegment,
                Clips!CollectSegment, Clips!JoinSegments, Clips!ChainFails, Clips!Sends
  <2>3. Clips!Segment(j) \in Entry
    BY <1>t, <2>1, ChainSends
  <2>4. ASSUME Clips!Sends(j) PROVE HasFrame(Clips!Segment(j))
    BY <2>4 DEF Clips!Sends, Clips!Segment, HasFrame, ClipInv, UploadedIsThere
  <2> QED BY <1>3, <1>4, <2>2, <2>3, <2>4
<1>8. ASSUME NEW r \in Requests, Handler(r) PROVE UNCHANGED queue
  BY <1>8 DEF Handler, CheckActive, Refuse, Accept, comfy
<1>9. ASSUME NEW k \in Clis, StartCli(k) PROVE UNCHANGED queue
  BY <1>9 DEF StartCli, comfy
<1>10. ASSUME UNCHANGED vars PROVE UNCHANGED queue
  BY <1>10 DEF vars, comfy
<1> QED
  BY <1>3, <1>5, <1>6, <1>7, <1>8, <1>9, <1>10, <1>11, Serves
     DEF HostNext, Posts, StartsCli, EvictVoice, Unload, Speaking, Watching, hostVars

\* ComfyUI's history grows by renders, and by nothing else.
LEMMA RendersOnly ==
  ASSUME BaseInv, [HostNext]_hostVars, ~RendersProduction, ~RendersClip
  PROVE  UNCHANGED rendered
<1>1. ASSUME NEW p \in Productions, Produces(p) PROVE UNCHANGED rendered
  BY <1>1, WorkSends DEF Produces, BaseInv
<1>2. ASSUME NEW j \in Extends, Extending(j) PROVE UNCHANGED rendered
  BY <1>2, ChainSends DEF Extending, BaseInv, HostTypeOK
<1>3. ASSUME NEW r \in Requests, Handler(r) PROVE UNCHANGED rendered
  BY <1>3 DEF Handler, CheckActive, Refuse, Accept, comfy
<1>4. ASSUME NEW k \in Clis, StartCli(k) PROVE UNCHANGED rendered
  BY <1>4 DEF StartCli, comfy
<1>5. ASSUME UNCHANGED vars PROVE UNCHANGED rendered
  BY <1>5 DEF vars, comfy
<1>6. ASSUME Arriving PROVE UNCHANGED rendered
  BY <1>6, ArrivesAs
<1> QED
  BY <1>1, <1>2, <1>3, <1>4, <1>5, <1>6, Serves
     DEF HostNext, Posts, StartsCli, EvictVoice, Unload, Speaking, Watching, hostVars

LEMMA ClipStep ==
  ASSUME OwnNames, BaseInv, ClipInv, [HostNext]_hostVars
  PROVE  ClipInv'
<1>1. /\ FrameIsMine' /\ UploadedIsThere'
      /\ \A j \in Extends, n \in 2..Segments :
           FrameOf(j, n) = Before(j, n) => FrameOf(j, n)' = Before(j, n)
  BY ChainPart, FrameSteps
<1>2. QueuedHasFrame'
  BY <1>1, QueueSteps
<1>3. ContinuesItself'
  <2> USE DEF ContinuesItself, Clips!ContinuesItself
  <2>1. CASE ~RendersProduction /\ ~RendersClip
    BY <2>1, RendersOnly DEF ClipInv
  <2>2. CASE RendersProduction
    <3>1. PICK e : rendered' = rendered \cup {e} /\ e.prompt.owner \in Productions
      BY <2>2, TakesOldest DEF RendersProduction, RendersOwn
    <3> QED BY <3>1, OwnEntry DEF ClipInv
  <2>3. CASE RendersClip
    <3> DEFINE h == Head(queue)
               from == IF h.task = 1 THEN NoFrame ELSE FrameOf(h.owner, h.task)
    <3>1. PICK good \in BOOLEAN :
            rendered' = rendered \cup {[prompt |-> h, image |-> from, ok |-> good]}
      BY <2>3 DEF RendersClip, Clips!RenderSegment, FrameOf
    <3>2. HasFrame(h) /\ h \in Entry
      <4>1. queue # <<>> /\ queue \in Seq(Entry)
        BY <2>3, TakesOldest DEF BaseInv
      <4>2. 1 \in 1..Len(queue) /\ Head(queue) = queue[1] /\ Head(queue) \in Entry
        BY <4>1
      <4> QED BY <4>2 DEF ClipInv, QueuedHasFrame
    <3>3. h.owner \in Extends /\ h.task > 1 => from = [owner |-> h.owner, task |-> h.task - 1]
      BY <3>2, OwnEntry DEF HasFrame, Before
    <3> HIDE DEF h, from
    <3> QED BY <3>1, <3>3 DEF ClipInv
  <2> QED BY <2>1, <2>2, <2>3
<1> QED BY <1>1, <1>2, <1>3 DEF ClipInv

\* With the job's id in the frames' names, every segment of a long clip continues the
\* one before it, whatever else renders.
THEOREM ClipsContinue == ASSUME OwnNames PROVE HostSpec => []ContinuesItself
<1>1. HostInit => ClipInv
  <2> SUFFICES ASSUME HostInit PROVE ClipInv
    OBVIOUS
  <2>1. /\ queue = <<>> /\ rendered = {} /\ frames = [f \in Clips!Files |-> NoFrame]
        /\ at = [j \in Extends |-> "none"]
    BY DEF HostInit, Init, Clips!ChainInit
  <2>2. FrameIsMine
    BY <2>1, FrameFacts DEF FrameIsMine, FrameOf
  <2> QED BY <2>1, <2>2 DEF ClipInv, UploadedIsThere, QueuedHasFrame, ContinuesItself,
                            Clips!ContinuesItself
<1>2. BaseInv /\ ClipInv /\ [HostNext]_hostVars => ClipInv'
  BY ClipStep
<1>3. ClipInv => ContinuesItself
  BY DEF ClipInv
<1> QED BY <1>1, <1>2, <1>3, Based, PTL DEF HostSpec

\* Every segment a clip is past has been rendered, and a clip that is done is past
\* the last.
DoneInv ==
  /\ \A j \in Extends : job[j] = "done" => seg[j] > Segments
  /\ \A j \in Extends : job[j] \in {"done", "error"} => at[j] = "over"
  /\ \A j \in Extends, n \in 1..Segments :
       n < seg[j] => \E e \in rendered : e.prompt = [owner |-> j, task |-> n] /\ e.ok

LEMMA DoneStep ==
  ASSUME BaseInv, DoneInv, [HostNext]_hostVars
  PROVE  DoneInv'
<1>t. Clips!ChainTypeOK /\ Segments \in Nat
  BY HostAssumption DEF BaseInv, HostTypeOK
<1>r. \A e \in rendered : e \in rendered'
  BY RendersOnly, TakesOldest
<1> USE DEF DoneInv, Clips!To, Clips!Becomes
<1>1. ASSUME NEW j \in Extends, Clips!PostExtend(j) \/ Clips!UploadFrame(j) \/ Clips!SendSegment(j)
      PROVE  DoneInv'
  BY <1>1, <1>t, <1>r
     DEF Clips!PostExtend, Clips!UploadFrame, Clips!SendSegment, Clips!Sends, Clips!ChainTypeOK
<1>2. ASSUME NEW j \in Extends, Clips!CollectSegment(j) PROVE DoneInv'
  <2>1. /\ at[j] = "waiting" /\ seg' = [seg EXCEPT ![j] = @ + 1] /\ UNCHANGED job
        /\ at' = [at EXCEPT ![j] = "working"]
        /\ \E e \in rendered : e.prompt = [owner |-> j, task |-> seg[j]] /\ e.ok
    BY <1>2 DEF Clips!CollectSegment, Clips!Segment
  <2>2. job[j] \notin {"done", "error"}
    BY <2>1
  <2>3. \A i \in Extends, n \in 1..Segments :
          n < seg'[i] => \E e \in rendered : e.prompt = [owner |-> i, task |-> n] /\ e.ok
    <3> SUFFICES ASSUME NEW i \in Extends, NEW n \in 1..Segments, n < seg'[i]
                 PROVE  \E e \in rendered : e.prompt = [owner |-> i, task |-> n] /\ e.ok
      OBVIOUS
    <3>1. n < seg[i] \/ (i = j /\ n = seg[j])
      BY <1>t, <2>1 DEF Clips!ChainTypeOK
    <3> QED BY <2>1, <3>1
  <2>4. \A i \in Extends \ {j} : seg'[i] = seg[i] /\ at'[i] = at[i]
    BY <1>t, <2>1 DEF Clips!ChainTypeOK
  <2> QED BY <1>r, <2>1, <2>2, <2>3, <2>4
<1>3. ASSUME NEW j \in Extends, Clips!JoinSegments(j) \/ Clips!ChainFails(j) PROVE DoneInv'
  BY <1>3, <1>t, <1>r DEF Clips!JoinSegments, Clips!ChainFails, Clips!ChainTypeOK
<1>4. CASE UNCHANGED chain
  BY <1>4, <1>r DEF chain
<1> QED BY <1>1, <1>2, <1>3, <1>4, ChainPart DEF Clips!Chain

\* A clip that is done has had every segment of it rendered, under whatever names.
THEOREM DoneClipsAreComplete == HostSpec => []DoneIsComplete
<1>1. HostInit => DoneInv
  BY DEF HostInit, Clips!ChainInit, DoneInv
<1>2. BaseInv /\ DoneInv /\ [HostNext]_hostVars => DoneInv'
  BY DoneStep
<1>3. BaseInv /\ DoneInv => DoneIsComplete
  BY HostAssumption DEF BaseInv, HostTypeOK, Clips!ChainTypeOK, DoneInv, DoneIsComplete,
                        Clips!DoneIsComplete
<1> QED BY <1>1, <1>2, <1>3, Based, PTL DEF HostSpec

=============================================================================
