------------------------ MODULE FailureLoops_proofs ------------------------
(***************************************************************************)
(* Theorem: what stops a Run for repeating itself is a repetition, and a   *)
(* repetition stops it.  The detector folds what it reads of the log into  *)
(* a window and compares the last entries of it; the invariant says what   *)
(* each entry of the window is, of which outcome, and when two of them are *)
(* alike.                                                                  *)
(***************************************************************************)
EXTENDS FailureLoops, FiniteInduction, SequenceTheorems, TLAPS

(***************************************************************************)
(* What a log shows of its outcomes: the fold of ReadFact.                 *)
(***************************************************************************)
Failures == ReadFailures \cup WriteFailures \cup {None}
Sources  == SourceStates \cup {None}
FactSet  == [kind : {"admitted", "prepared", "outcome", "checkpoint"}, continued : BOOLEAN,
             readonly : BOOLEAN, failure : Failures, source : Sources]
Entry    == [failure : Failures, source : Sources]
Readings == [source : Sources, open : BOOLEAN, window : Seq(Entry)]

\* The window with another source at its end.
Resourced(w, s) == [w EXCEPT ![Len(w)].source = s]

LEMMA ResourcedIs ==
  ASSUME NEW w \in Seq(Entry), NEW s \in Sources
  PROVE  /\ Resourced(w, s) \in Seq(Entry) /\ Len(Resourced(w, s)) = Len(w)
         /\ \A n \in 1..Len(w) : n # Len(w) => Resourced(w, s)[n] = w[n]
         /\ Len(w) # 0 => Resourced(w, s)[Len(w)] = [failure |-> w[Len(w)].failure, source |-> s]
<1> DEFINE L == Len(w)
           r == Resourced(w, s)
<1>1. L \in Nat /\ DOMAIN w = 1..L /\ w \in [1..L -> Entry]
  BY LenProperties
<1>2. r = [n \in 1..L |-> IF n = L THEN [w[n] EXCEPT !.source = s] ELSE w[n]]
  BY <1>1 DEF Resourced
<1> HIDE DEF r, L
<1>3. ASSUME NEW n \in 1..L PROVE [w[n] EXCEPT !.source = s] = [failure |-> w[n].failure, source |-> s] /\ w[n] \in Entry
  BY <1>1 DEF Entry
<1>4. r \in [1..L -> Entry]
  BY <1>1, <1>2, <1>3 DEF Entry
<1>5. r \in Seq(Entry) /\ Len(r) = L
  BY <1>1, <1>4, LenProperties
<1> QED
  BY <1>1, <1>2, <1>3, <1>5 DEF r, L

LEMMA ReadFactType ==
  ASSUME NEW state \in Readings, NEW fact \in FactSet
  PROVE  ReadFact(state, fact) \in Readings
<1> DEFINE w == state.window
<1>1. w \in Seq(Entry) /\ fact.source \in Sources /\ state.source \in Sources /\ fact.failure \in Failures
  BY DEF Readings, FactSet
<1>2. CASE fact.kind = "checkpoint"
  <2>1. ReadFact(state, fact) = [state EXCEPT !.source = fact.source,
                                  !.window = IF state.open THEN Resourced(w, fact.source) ELSE w]
    BY <1>2 DEF ReadFact, Resourced
  <2>2. Resourced(w, fact.source) \in Seq(Entry)
    BY <1>1, ResourcedIs
  <2> HIDE DEF w
  <2> QED
    BY <1>1, <2>1, <2>2 DEF Readings
<1>3. CASE fact.kind = "prepared"
  BY <1>3 DEF ReadFact, Readings
<1>4. CASE fact.kind = "outcome"
  <2>1. ReadFact(state, fact) = [state EXCEPT !.open = TRUE,
          !.window = Append(w, [failure |-> fact.failure, source |-> state.source])]
    BY <1>4 DEF ReadFact
  <2>2. Append(w, [failure |-> fact.failure, source |-> state.source]) \in Seq(Entry)
    <3>1. [failure |-> fact.failure, source |-> state.source] \in Entry
      BY <1>1 DEF Entry
    <3> QED
      BY <1>1, <3>1, AppendProperties
  <2> HIDE DEF w
  <2> QED
    BY <2>1, <2>2 DEF Readings
<1>5. CASE fact.kind \notin {"checkpoint", "prepared", "outcome"}
  BY <1>5 DEF ReadFact
<1> QED
  BY <1>2, <1>3, <1>4, <1>5

FirstReading == [source |-> None, open |-> FALSE, window |-> <<>>]

ReadIs(seq, g) ==
  g = [s \in SUBSET DOMAIN seq |-> IF s = {} THEN FirstReading ELSE ReadFact(g[s \ {Max(s)}], seq[Max(s)])]

ReadAll(seq) == (CHOOSE g : ReadIs(seq, g))[DOMAIN seq]

LEMMA WindowIsRead ==
  \A log : FailureWindow(log) = ReadAll(SubSeq(log, HistoryStart(log), Len(log))).window
  BY Zenon DEF FailureWindow, ReadAll, ReadIs, FirstReading, FoldLeft, MapThenFoldSet

\* R[k] is what k facts may show.
Shows(seq, R) ==
  /\ FirstReading \in R[0]
  /\ \A k \in 1..Len(seq) : \A state \in R[k - 1] \cap Readings : ReadFact(state, seq[k]) \in R[k]

\* Then all of them show that.
LEMMA ReadLeads ==
  ASSUME NEW seq \in Seq(FactSet), NEW R, Shows(seq, R)
  PROVE  ReadAll(seq) \in R[Len(seq)] /\ ReadAll(seq) \in Readings
<1> DEFINE S == DOMAIN seq
           V == Readings
           b == FirstReading
           h == [p \in (SUBSET S) \X V |-> IF p[1] = {} THEN b ELSE ReadFact(p[2], seq[Max(p[1])])]
<1>1. S = 1..Len(seq) /\ Len(seq) \in Nat /\ IsFiniteSet(S) /\ S \in SUBSET Int /\ \A n \in S : seq[n] \in FactSet
  BY Indices
<1>2. b \in V
  BY DEF FirstReading, Readings, Sources
<1>3. ASSUME NEW v \in V, NEW n \in S PROVE ReadFact(v, seq[n]) \in V
  BY <1>1, ReadFactType
<1> HIDE DEF V, S, b
<1>4. h \in [(SUBSET S) \X V -> V]
  <2>1. ASSUME NEW s \in SUBSET S, NEW v \in V, s # {} PROVE ReadFact(v, seq[Max(s)]) \in V
    <3>1. Max(s) \in S
      BY <1>1, <2>1, LastIndex
    <3> QED
      BY <1>3, <3>1
  <2> QED
    BY <1>2, <2>1
<1>5. \E g : ReadIs(seq, g)
  <2>1. PICK g : Folds(h, b, V, S, g)
    <3> HIDE DEF h
    <3> QED
      BY <1>1, <1>2, <1>4, FoldsExist
  <2>2. ASSUME NEW s \in SUBSET S
        PROVE  g[s] = IF s = {} THEN b ELSE ReadFact(g[s \ {Max(s)}], seq[Max(s)])
    <3>1. g[s] = (IF s = {} THEN b ELSE h[<<s, g[s \ {Max(s)}]>>]) /\ g[s \ {Max(s)}] \in V
      <4> HIDE DEF h
      <4> QED
        BY <2>1 DEF Folds
    <3> QED
      BY <3>1
  <2>3. g \in [SUBSET S -> V]
    BY <2>1 DEF Folds
  <2>4. ReadIs(seq, g)
    BY <2>2, <2>3 DEF ReadIs, S, b
  <2> QED
    BY <2>4
<1> DEFINE g == CHOOSE g : ReadIs(seq, g)
<1>6. ReadIs(seq, g)
  BY <1>5
<1> HIDE DEF g
<1>7. g[{}] \in V
  BY <1>2, <1>6 DEF ReadIs, b
<1>8. ASSUME NEW s \in (SUBSET S) \ {{}}, g[s \ {Max(s)}] \in V
      PROVE  g[s] \in V
  <2>1. Max(s) \in S
    BY <1>1, LastIndex
  <2>2. g[s] = ReadFact(g[s \ {Max(s)}], seq[Max(s)])
    BY <1>6 DEF ReadIs, S
  <2> QED
    BY <1>3, <1>8, <2>1, <2>2
<1>9. ASSUME NEW T \in SUBSET S PROVE g[T] \in V
  <2>1. T \in SUBSET Int /\ IsFiniteSet(T)
    BY <1>1, FS_Subset
  <2>2. \A s \in (SUBSET T) \ {{}} : g[s \ {Max(s)}] \in V => g[s] \in V
    BY <1>8
  <2> QED
    BY <1>7, <2>1, <2>2, FoldStays
<1> DEFINE Q == {s \in SUBSET S : \A k \in 0..Len(seq) : s = 1..k => g[s] \in R[k]}
<1>10. ASSUME NEW s \in SUBSET S, \A x \in s : s \ {x} \in Q
       PROVE  s \in Q
  <2>1. ASSUME NEW k \in 0..Len(seq), s = 1..k PROVE g[s] \in R[k]
    <3>1. CASE k = 0
      <4>1. s = {}
        BY <2>1, <3>1
      <4>2. g[s] = FirstReading
        BY <1>6, <4>1 DEF ReadIs, S
      <4> QED
        BY <3>1, <4>2 DEF Shows
    <3>2. CASE k # 0
      <4>1. k \in 1..Len(seq) /\ k \in s /\ s # {} /\ s \ {k} = 1..(k - 1) /\ k - 1 \in 0..Len(seq)
        <5>1. k \in 1..Len(seq) /\ k - 1 \in 0..Len(seq)
          BY <1>1, <3>2
        <5>2. k \in 1..k /\ (1..k) \ {k} = 1..(k - 1)
          BY <5>1
        <5> QED
          BY <2>1, <5>1, <5>2
      <4>2. Max(s) = k
        <5>1. s \in SUBSET Int /\ IsFiniteSet(s)
          BY <1>1, FS_Subset
        <5>2. Max(s) \in s /\ \A x \in s : x <= Max(s)
          BY <4>1, <5>1, MaxExists
        <5> QED
          BY <2>1, <4>1, <5>2
      <4>3. g[s] = ReadFact(g[s \ {k}], seq[k])
        BY <1>6, <4>1, <4>2 DEF ReadIs, S
      <4>4. g[s \ {k}] \in R[k - 1] \cap V
        <5>1. s \ {k} \in Q /\ s \ {k} \in SUBSET S
          BY <1>10, <4>1
        <5> QED
          BY <1>9, <4>1, <5>1
      <4> QED
        BY <4>1, <4>3, <4>4 DEF Shows, V
    <3> QED
      BY <3>1, <3>2
  <2> QED
    BY <2>1
<1> HIDE DEF Q
<1>11. S \in Q
  BY <1>1, <1>10, SetInduction
<1>12. Len(seq) \in 0..Len(seq)
  BY <1>1
<1>13. ReadAll(seq) = g[S]
  BY DEF ReadAll, g, S
<1> QED
  BY <1>1, <1>9, <1>11, <1>12, <1>13 DEF Q, V

(***************************************************************************)
(* The outcomes of a log and the checkpoints at them.                      *)
(***************************************************************************)
Of(log, kind, a, b) == {n \in a..b : log[n].kind = kind}

SourceOf(log, C) == IF C = {} THEN None ELSE log[Max(C)].source

\* The checkpoints from s to e that came before the call after n.
Stood(log, s, e, n) == {c \in Of(log, "checkpoint", s, e) : Of(log, "prepared", n + 1, c) = {}}

Rank(log, s, n) == Cardinality(Of(log, "outcome", s, n))

\* No call was prepared since an outcome.
OpenAt(log, s, e) == \E n \in Of(log, "outcome", s, e) : Of(log, "prepared", n + 1, e) = {}

EntryAt(log, s, e, n) == [failure |-> log[n].failure, source |-> SourceOf(log, Stood(log, s, e, n))]

\* A call is prepared before its outcome, an admission comes with a checkpoint, the first of all
\* continues nothing, and fingerprints tell read-only tools from others.
Shape(log) ==
  /\ \A n \in 1..Len(log) : log[n].kind = "outcome" => n > 1 /\ log[n - 1].kind = "prepared"
  /\ \A n \in 1..Len(log) : log[n].kind = "admitted" => n < Len(log) /\ log[n + 1].kind = "checkpoint"
  /\ log # <<>> => log[1].kind = "admitted" /\ ~ log[1].continued
  /\ \A n \in 1..Len(log) : log[n].failure # None => (log[n].readonly <=> log[n].failure \in ReadFailures)

ReadTo(log, s, e) ==
  {state \in Readings :
     /\ state.source = SourceOf(log, Of(log, "checkpoint", s, e))
     /\ state.open <=> OpenAt(log, s, e)
     /\ Len(state.window) = Rank(log, s, e)
     /\ \A n \in Of(log, "outcome", s, e) : state.window[Rank(log, s, n)] = EntryAt(log, s, e, n)}

LEMMA OfIs ==
  ASSUME NEW log, NEW kind, NEW a \in Int, NEW b \in Int
  PROVE  /\ Of(log, kind, a, b) \subseteq a..b /\ Of(log, kind, a, b) \in SUBSET Int
         /\ IsFiniteSet(Of(log, kind, a, b)) /\ Cardinality(Of(log, kind, a, b)) \in Nat
         /\ \A n \in Of(log, kind, a, b) : log[n].kind = kind
<1>1. IsFiniteSet(a..b)
  BY FS_Interval
<1>2. Of(log, kind, a, b) \subseteq a..b /\ \A n \in Of(log, kind, a, b) : log[n].kind = kind
  BY DEF Of
<1> QED
  BY <1>1, <1>2, FS_Subset, FS_CardinalityType

\* One more fact.
LEMMA OfMore ==
  ASSUME NEW log, NEW kind, NEW a \in Int, NEW e \in Int, a <= e + 1
  PROVE  /\ log[e + 1].kind = kind => Of(log, kind, a, e + 1) = Of(log, kind, a, e) \cup {e + 1}
         /\ log[e + 1].kind # kind => Of(log, kind, a, e + 1) = Of(log, kind, a, e)
<1>1. a..(e + 1) = (a..e) \cup {e + 1}
  OBVIOUS
<1> QED
  BY <1>1 DEF Of

LEMMA RankMore ==
  ASSUME NEW log, NEW s \in Int, NEW e \in Int, s <= e + 1
  PROVE  Rank(log, s, e + 1) = IF log[e + 1].kind = "outcome" THEN Rank(log, s, e) + 1 ELSE Rank(log, s, e)
<1>1. IsFiniteSet(Of(log, "outcome", s, e)) /\ e + 1 \notin Of(log, "outcome", s, e)
  BY OfIs
<1>2. /\ log[e + 1].kind = "outcome" => Of(log, "outcome", s, e + 1) = Of(log, "outcome", s, e) \cup {e + 1}
      /\ log[e + 1].kind # "outcome" => Of(log, "outcome", s, e + 1) = Of(log, "outcome", s, e)
  BY OfMore
<1>3. Cardinality(Of(log, "outcome", s, e) \cup {e + 1}) = Cardinality(Of(log, "outcome", s, e)) + 1
  BY <1>1, FS_AddElement
<1> QED
  BY <1>2, <1>3 DEF Rank

\* Outcomes have their ranks in order.
LEMMA RanksGrow ==
  ASSUME NEW log, NEW s \in Int, NEW e \in Int, NEW n \in Of(log, "outcome", s, e)
  PROVE  /\ Rank(log, s, n) \in 1..Rank(log, s, e) /\ Rank(log, s, e) \in Nat
         /\ \A m \in s..(n - 1) : Rank(log, s, m) < Rank(log, s, n)
<1> DEFINE C(k) == Of(log, "outcome", s, k)
<1>1. n \in s..e /\ n \in Int /\ n \in C(n)
  BY DEF Of
<1>2. /\ IsFiniteSet(C(n)) /\ IsFiniteSet(C(e)) /\ Cardinality(C(n)) \in Nat /\ Cardinality(C(e)) \in Nat
  BY <1>1, OfIs
<1>3. C(n) \in SUBSET C(e)
  BY <1>1 DEF Of
<1>4. Cardinality(C(n)) <= Cardinality(C(e))
  BY <1>2, <1>3, FS_Subset
<1>5. Cardinality(C(n)) # 0
  BY <1>1, <1>2, FS_EmptySet
<1>6. ASSUME NEW m \in s..(n - 1) PROVE Cardinality(C(m)) < Cardinality(C(n))
  <2>1. C(m) \in SUBSET (C(n) \ {n})
    BY <1>1 DEF Of
  <2>2. IsFiniteSet(C(n) \ {n}) /\ Cardinality(C(n) \ {n}) = Cardinality(C(n)) - 1
    BY <1>1, <1>2, FS_RemoveElement
  <2>3. Cardinality(C(m)) <= Cardinality(C(n)) - 1 /\ Cardinality(C(m)) \in Nat
    BY <2>1, <2>2, FS_Subset, OfIs
  <2> QED
    BY <1>2, <2>3
<1> QED
  BY <1>2, <1>4, <1>5, <1>6 DEF Rank

\* The newest checkpoint of several.
Newest(C, e) == e \in C /\ C \in SUBSET Int /\ \A c \in C : c <= e

LEMMA NewestSource ==
  ASSUME NEW log, NEW C, NEW e, Newest(C, e)
  PROVE  SourceOf(log, C) = log[e].source
<1>1. Max(C) = e
  BY MaxIs DEF Newest
<1> QED
  BY <1>1 DEF SourceOf, Newest

\* A call was prepared between two outcomes.
LEMMA PreparedBetween ==
  ASSUME NEW log, Shape(log), NEW n \in 1..Len(log), NEW m \in 1..Len(log), Len(log) \in Nat, n < m,
         log[n].kind = "outcome", log[m].kind = "outcome"
  PROVE  m - 1 \in Of(log, "prepared", n + 1, m)
<1>1. log[m - 1].kind = "prepared"
  BY DEF Shape
<1>2. n # m - 1
  BY <1>1
<1> QED
  BY <1>1, <1>2 DEF Of

\* Reading one more fact shows what the log is with it.
LEMMA ReadStep ==
  ASSUME NEW log \in Seq(FactSet), Shape(log), NEW s \in 1..Len(log), NEW e \in (s - 1)..(Len(log) - 1),
         NEW state \in ReadTo(log, s, e)
  PROVE  ReadFact(state, log[e + 1]) \in ReadTo(log, s, e + 1)
<1> DEFINE f == e + 1
           fact == log[f]
           w == state.window
           more == ReadFact(state, fact)
<1>1. /\ Len(log) \in Nat /\ DOMAIN log = 1..Len(log) /\ fact \in FactSet
      /\ s \in Nat /\ e \in Int /\ s <= e + 1 /\ s >= 1 /\ f \in 1..Len(log) /\ s \in Int
  BY Indices
<1>2. /\ state \in Readings /\ w \in Seq(Entry) /\ Len(w) \in Nat
      /\ state.source = SourceOf(log, Of(log, "checkpoint", s, e))
      /\ state.open <=> OpenAt(log, s, e)
      /\ Len(w) = Rank(log, s, e)
      /\ \A n \in Of(log, "outcome", s, e) : w[Rank(log, s, n)] = EntryAt(log, s, e, n)
  BY LenProperties DEF ReadTo, Readings
<1>3. more \in Readings
  BY <1>1, <1>2, ReadFactType
<1>4. /\ \A kind : fact.kind = kind => Of(log, kind, s, f) = Of(log, kind, s, e) \cup {f}
      /\ \A kind : fact.kind # kind => Of(log, kind, s, f) = Of(log, kind, s, e)
      /\ \A kind : Of(log, kind, s, e) \subseteq s..e /\ Of(log, kind, s, e) \in SUBSET Int
  BY <1>1, OfMore, OfIs
<1>5. ASSUME NEW n \in s..e
      PROVE  /\ fact.kind = "prepared" => Of(log, "prepared", n + 1, f) = Of(log, "prepared", n + 1, e) \cup {f}
             /\ fact.kind # "prepared" => Of(log, "prepared", n + 1, f) = Of(log, "prepared", n + 1, e)
  <2>1. n + 1 \in Int /\ n + 1 <= e + 1
    BY <1>1
  <2> QED
    BY <1>1, <2>1, OfMore
<1>6. ASSUME NEW n \in s..e
      PROVE  Stood(log, s, f, n) = IF fact.kind = "checkpoint" /\ Of(log, "prepared", n + 1, e) = {}
                                   THEN Stood(log, s, e, n) \cup {f} ELSE Stood(log, s, e, n)
  <2>1. Of(log, "checkpoint", s, f) = IF fact.kind = "checkpoint" THEN Of(log, "checkpoint", s, e) \cup {f}
                                      ELSE Of(log, "checkpoint", s, e)
    BY <1>4
  <2>2. fact.kind = "checkpoint" => Of(log, "prepared", n + 1, f) = Of(log, "prepared", n + 1, e)
    BY <1>5
  <2> HIDE DEF fact, f
  <2> QED
    BY <2>1, <2>2 DEF Stood
<1>7. \A n \in s..e : Stood(log, s, e, n) \in SUBSET Int /\ \A c \in Stood(log, s, e, n) : c <= f
  BY <1>1, <1>4 DEF Stood
<1>8. Rank(log, s, f) = IF fact.kind = "outcome" THEN Rank(log, s, e) + 1 ELSE Rank(log, s, e)
  BY <1>1, RankMore
<1>9. \A n \in Of(log, "outcome", s, e) : Rank(log, s, n) \in 1..Len(w)
  BY <1>1, <1>2, RanksGrow
<1>10. SourceOf(log, Of(log, "checkpoint", s, e) \cup {f}) = fact.source
  <2>1. Newest(Of(log, "checkpoint", s, e) \cup {f}, f)
    BY <1>1, <1>4 DEF Newest
  <2> HIDE DEF f
  <2> QED
    BY <2>1, NewestSource DEF fact
<1> HIDE DEF f, fact, w, more
\* A fact that is not read.
<1>11. CASE fact.kind = "admitted"
  <2>1. more = state
    BY <1>11 DEF ReadFact, more
  <2>2. /\ Of(log, "checkpoint", s, f) = Of(log, "checkpoint", s, e)
        /\ Of(log, "outcome", s, f) = Of(log, "outcome", s, e)
        /\ Rank(log, s, f) = Rank(log, s, e)
    BY <1>4, <1>8, <1>11
  <2>3. \A n \in Of(log, "outcome", s, e) :
          /\ Of(log, "prepared", n + 1, f) = Of(log, "prepared", n + 1, e)
          /\ EntryAt(log, s, f, n) = EntryAt(log, s, e, n)
    BY <1>4, <1>5, <1>6, <1>11 DEF EntryAt
  <2>4. OpenAt(log, s, f) <=> OpenAt(log, s, e)
    BY <2>2, <2>3 DEF OpenAt
  <2> QED
    BY <1>2, <1>3, <2>1, <2>2, <2>3, <2>4 DEF ReadTo, w, more, fact, f
\* No checkpoint from here on is of an outcome before.
<1>12. CASE fact.kind = "prepared"
  <2>1. /\ more.source = state.source /\ more.open = FALSE /\ more.window = w
    BY <1>2, <1>12 DEF ReadFact, more, w, Readings
  <2>2. /\ Of(log, "checkpoint", s, f) = Of(log, "checkpoint", s, e)
        /\ Of(log, "outcome", s, f) = Of(log, "outcome", s, e)
        /\ Rank(log, s, f) = Rank(log, s, e)
    BY <1>4, <1>8, <1>12
  <2>3. \A n \in Of(log, "outcome", s, e) :
          f \in Of(log, "prepared", n + 1, f) /\ EntryAt(log, s, f, n) = EntryAt(log, s, e, n)
    BY <1>4, <1>5, <1>6, <1>12 DEF EntryAt
  <2>4. ~ OpenAt(log, s, f)
    BY <2>2, <2>3 DEF OpenAt
  <2> QED
    BY <1>2, <1>3, <2>1, <2>2, <2>3, <2>4 DEF ReadTo, w, more, fact, f
\* The newest outcome's source is this one until the next call.
<1>13. CASE fact.kind = "checkpoint"
  <2>1. /\ more.source = fact.source /\ more.open = state.open
        /\ more.window = IF state.open THEN Resourced(w, fact.source) ELSE w
    BY <1>2, <1>13 DEF ReadFact, more, w, Readings, Resourced
  <2>2. /\ Of(log, "checkpoint", s, f) = Of(log, "checkpoint", s, e) \cup {f}
        /\ Of(log, "outcome", s, f) = Of(log, "outcome", s, e)
        /\ Rank(log, s, f) = Rank(log, s, e)
    BY <1>4, <1>8, <1>13
  <2>3. \A n \in Of(log, "outcome", s, e) : Of(log, "prepared", n + 1, f) = Of(log, "prepared", n + 1, e)
    BY <1>4, <1>5, <1>13
  <2>4. OpenAt(log, s, f) <=> OpenAt(log, s, e)
    BY <2>2, <2>3 DEF OpenAt
  <2>5. fact.source \in Sources
    BY <1>1 DEF FactSet, fact, f
  <2>6. CASE ~ state.open
    <3>1. \A n \in Of(log, "outcome", s, e) : EntryAt(log, s, f, n) = EntryAt(log, s, e, n)
      BY <1>2, <1>4, <1>6, <2>6 DEF EntryAt, OpenAt
    <3>2. Len(more.window) = Rank(log, s, f) /\ more.source = SourceOf(log, Of(log, "checkpoint", s, f))
      BY <1>2, <1>10, <2>1, <2>2, <2>6
    <3>3. \A n \in Of(log, "outcome", s, f) : more.window[Rank(log, s, n)] = EntryAt(log, s, f, n)
      BY <1>2, <2>1, <2>2, <2>6, <3>1
    <3> QED
      BY <1>2, <1>3, <2>1, <2>4, <3>2, <3>3 DEF ReadTo, more, fact, f
  <2>7. CASE state.open
    <3>1. PICK last \in Of(log, "outcome", s, e) : Of(log, "prepared", last + 1, e) = {}
      BY <1>2, <2>7 DEF OpenAt
    <3>2. last \in s..e /\ last \in 1..Len(log) /\ log[last].kind = "outcome" /\ last \in Int
      BY <1>1, <1>4, <3>1 DEF Of, f
    \* Every other outcome is before it, and its call was prepared since.
    <3>3. ASSUME NEW n \in Of(log, "outcome", s, e), n # last
          PROVE  n < last /\ Of(log, "prepared", n + 1, e) # {}
      <4>1. n \in s..e /\ n \in 1..Len(log) /\ log[n].kind = "outcome" /\ n \in Int
        BY <1>1, <1>4, <3>3 DEF Of, f
      <4>2. ASSUME last < n PROVE FALSE
        <5>1. n - 1 \in Of(log, "prepared", last + 1, n)
          BY <1>1, <3>2, <4>1, <4>2, PreparedBetween
        <5>2. n - 1 \in Of(log, "prepared", last + 1, e)
          BY <1>1, <4>1, <5>1 DEF Of
        <5> QED
          BY <3>1, <5>2
      <4>3. n < last
        BY <3>2, <3>3, <4>1, <4>2
      <4>4. last - 1 \in Of(log, "prepared", n + 1, last)
        BY <1>1, <3>2, <4>1, <4>3, PreparedBetween
      <4>5. last - 1 \in Of(log, "prepared", n + 1, e)
        BY <1>1, <3>2, <4>1, <4>4 DEF Of
      <4> QED
        BY <4>3, <4>5
    \* So its rank is the highest.
    <3>4. Rank(log, s, last) = Len(w)
      <4>1. Of(log, "outcome", s, last) = Of(log, "outcome", s, e)
        <5>1. \A n \in Of(log, "outcome", s, e) : n \in Int /\ (n = last \/ n < last)
          BY <1>4, <3>3
        <5> QED
          BY <1>1, <3>2, <5>1 DEF Of
      <4> QED
        BY <1>2, <4>1 DEF Rank
    <3>5. ASSUME NEW n \in Of(log, "outcome", s, e), n # last
          PROVE  Rank(log, s, n) # Len(w) /\ EntryAt(log, s, f, n) = EntryAt(log, s, e, n)
      <4>1. n \in s..e /\ n \in s..(last - 1)
        BY <1>1, <1>4, <3>2, <3>3, <3>5
      <4>2. Rank(log, s, n) < Rank(log, s, last) /\ Rank(log, s, last) \in Int /\ Rank(log, s, n) \in Int
        BY <1>1, <1>9, <3>1, <3>5, <4>1, RanksGrow
      <4>3. Stood(log, s, f, n) = Stood(log, s, e, n)
        BY <1>6, <3>3, <3>5, <4>1
      <4> QED
        BY <3>4, <4>2, <4>3 DEF EntryAt
    <3>6. EntryAt(log, s, f, last) = [failure |-> log[last].failure, source |-> fact.source]
      <4>1. Stood(log, s, f, last) = Stood(log, s, e, last) \cup {f}
        BY <1>6, <1>13, <3>1, <3>2
      <4>2. SourceOf(log, Stood(log, s, e, last) \cup {f}) = log[f].source
        <5>1. Newest(Stood(log, s, e, last) \cup {f}, f)
          BY <1>1, <1>7, <3>2 DEF Newest
        <5> QED
          BY <5>1, NewestSource
      <4> QED
        BY <4>1, <4>2 DEF EntryAt, fact
    <3>7. /\ Len(more.window) = Len(w)
          /\ \A n \in 1..Len(w) : n # Len(w) => more.window[n] = w[n]
          /\ Len(w) # 0 => more.window[Len(w)] = [failure |-> w[Len(w)].failure, source |-> fact.source]
      BY <1>2, <2>1, <2>5, <2>7, ResourcedIs
    <3>8. ASSUME NEW n \in Of(log, "outcome", s, f)
          PROVE  more.window[Rank(log, s, n)] = EntryAt(log, s, f, n)
      <4>1. n \in Of(log, "outcome", s, e)
        BY <2>2
      <4>2. CASE n # last
        BY <1>2, <1>9, <3>5, <3>7, <4>1, <4>2
      <4>3. CASE n = last
        <5>1. Len(w) # 0 /\ w[Len(w)].failure = log[last].failure
          <6>1. Len(w) \in 1..Len(w)
            BY <1>9, <3>1, <3>4
          <6>2. w[Len(w)] = EntryAt(log, s, e, last)
            BY <1>2, <3>1, <3>4
          <6> QED
            BY <1>2, <6>1, <6>2 DEF EntryAt
        <5> QED
          BY <3>4, <3>6, <3>7, <4>3, <5>1
      <4> QED
        BY <4>2, <4>3
    <3>9. Len(more.window) = Rank(log, s, f) /\ more.source = SourceOf(log, Of(log, "checkpoint", s, f))
      BY <1>2, <1>10, <2>1, <2>2, <3>7
    <3> QED
      BY <1>2, <1>3, <2>1, <2>4, <3>8, <3>9 DEF ReadTo, more, fact, f
  <2> QED
    BY <2>6, <2>7
\* A new outcome, at the newest source.
<1>14. CASE fact.kind = "outcome"
  <2> DEFINE entry == [failure |-> fact.failure, source |-> state.source]
  <2>1. /\ more.source = state.source /\ more.open = TRUE /\ more.window = Append(w, entry)
    BY <1>2, <1>14 DEF ReadFact, more, w, Readings
  <2>2. /\ Of(log, "checkpoint", s, f) = Of(log, "checkpoint", s, e)
        /\ Of(log, "outcome", s, f) = Of(log, "outcome", s, e) \cup {f}
        /\ Rank(log, s, f) = Rank(log, s, e) + 1
    BY <1>4, <1>8, <1>14
  <2>3. OpenAt(log, s, f)
    <3>1. Of(log, "prepared", f + 1, f) = {}
      BY <1>1 DEF Of
    <3> QED
      BY <2>2, <3>1 DEF OpenAt
  <2>4. entry \in Entry
    BY <1>1, <1>2 DEF Entry, FactSet, Readings, fact, f
  <2>5. /\ Len(more.window) = Len(w) + 1
        /\ \A n \in 1..Len(w) : more.window[n] = w[n]
        /\ more.window[Len(w) + 1] = entry
    BY <1>2, <2>1, <2>4, AppendProperties
  <2>6. EntryAt(log, s, f, f) = entry
    <3>1. Stood(log, s, f, f) = Of(log, "checkpoint", s, e)
      <4>1. \A c \in Of(log, "checkpoint", s, e) : Of(log, "prepared", f + 1, c) = {}
        BY <1>1, <1>4 DEF Of, f
      <4> QED
        BY <2>2, <4>1 DEF Stood
    <3> QED
      BY <1>2, <3>1 DEF EntryAt, fact
  <2>7. ASSUME NEW n \in Of(log, "outcome", s, f)
        PROVE  more.window[Rank(log, s, n)] = EntryAt(log, s, f, n)
    <3>1. CASE n = f
      BY <1>2, <2>2, <2>5, <2>6, <3>1
    <3>2. CASE n # f
      <4>1. n \in Of(log, "outcome", s, e) /\ n \in s..e
        BY <1>4, <2>2, <3>2
      <4>2. EntryAt(log, s, f, n) = EntryAt(log, s, e, n)
        BY <1>6, <1>14, <4>1 DEF EntryAt
      <4> QED
        BY <1>2, <1>9, <2>5, <4>1, <4>2
    <3> QED
      BY <3>1, <3>2
  <2> QED
    BY <1>2, <1>3, <2>1, <2>2, <2>3, <2>5, <2>7 DEF ReadTo, more, fact, f
<1> QED
  BY <1>1, <1>11, <1>12, <1>13, <1>14 DEF FactSet, fact, f

Starts(log) ==
  {n \in DOMAIN log : /\ log[n].kind = "admitted"
                      /\ ~ log[n].continued \/ Cardinality(Of(log, "outcome", n, Len(log))) >= Window}

\* The history begins with an admission, and every later one is a Continue.
LEMMA StartIs ==
  ASSUME NEW log \in Seq(FactSet), Shape(log), log # <<>>
  PROVE  /\ HistoryStart(log) \in 1..Len(log) /\ log[HistoryStart(log)].kind = "admitted"
         /\ \A n \in 1..Len(log) : n > HistoryStart(log) /\ log[n].kind = "admitted" => log[n].continued
<1> DEFINE S == Starts(log)
           s == HistoryStart(log)
<1>1. DOMAIN log = 1..Len(log) /\ Len(log) \in Nat /\ DOMAIN log \in SUBSET Int /\ IsFiniteSet(DOMAIN log)
  BY Indices
<1>2. S \in SUBSET Int /\ IsFiniteSet(S)
  BY <1>1, FS_Subset DEF Starts
<1>3. 1 \in S
  <2>1. Len(log) # 0
    BY EmptySeq
  <2> QED
    BY <1>1, <2>1 DEF Starts, Shape
<1>4. s = CHOOSE n \in S : \A m \in S : m <= n
  BY DEF HistoryStart, Starts, Of
<1> HIDE DEF S, s
<1>5. s \in S /\ \A m \in S : m <= s
  <2>1. Max(S) \in S /\ \A m \in S : Max(S) >= m
    BY <1>2, <1>3, MaxExists
  <2>2. \E n \in S : \A m \in S : m <= n
    <3> DEFINE x == Max(S)
    <3>1. x \in S /\ \A m \in S : x >= m
      BY <2>1
    <3> HIDE DEF x
    <3> QED
      BY <1>2, <3>1
  <2> QED
    BY <1>4, <2>2
<1>6. ASSUME NEW n \in 1..Len(log), n > s, log[n].kind = "admitted" PROVE log[n].continued
  <2>1. n \notin S
    <3>1. n \in Int /\ s \in Int /\ n > s
      BY <1>1, <1>2, <1>5, <1>6
    <3>2. n \in S => n <= s
      BY <1>5
    <3> QED
      BY <3>1, <3>2
  <2> QED
    BY <1>1, <1>6, <2>1 DEF S, Starts
<1> QED
  BY <1>1, <1>5, <1>6 DEF S, Starts, s

\* The window holds the outcomes since then, each with the source that stood at it.
LEMMA WindowShows ==
  ASSUME NEW log \in Seq(FactSet), Shape(log), log # <<>>
  PROVE  \E state \in ReadTo(log, HistoryStart(log), Len(log)) : state.window = FailureWindow(log)
<1> DEFINE s == HistoryStart(log)
           L == Len(log)
           seq == SubSeq(log, s, L)
           R == [k \in 0..(L - s + 1) |-> ReadTo(log, s, s + k - 1)]
<1>1. L \in Nat /\ s \in 1..L
  BY StartIs, LenProperties
<1> HIDE DEF s, L
<1>2. /\ seq \in Seq(FactSet) /\ Len(seq) = L - s + 1
      /\ \A k \in 1..(L - s + 1) : seq[k] = log[s + k - 1]
  BY <1>1, SubSeqProperties DEF L
<1> HIDE DEF seq
<1>3. FirstReading \in ReadTo(log, s, s - 1)
  <2>1. \A kind : Of(log, kind, s, s - 1) = {}
    BY <1>1 DEF Of
  <2>2. FirstReading \in Readings /\ FirstReading.source = None /\ FirstReading.open = FALSE /\ Len(FirstReading.window) = 0
    BY EmptySeq DEF FirstReading, Readings, Sources
  <2>3. Rank(log, s, s - 1) = 0 /\ ~ OpenAt(log, s, s - 1) /\ SourceOf(log, {}) = None
    BY <2>1, FS_EmptySet DEF Rank, OpenAt, SourceOf
  <2> HIDE DEF FirstReading
  <2> QED
    BY <2>1, <2>2, <2>3 DEF ReadTo
<1>4. ASSUME NEW k \in 1..(L - s + 1), NEW state \in ReadTo(log, s, s + k - 2)
      PROVE  ReadFact(state, seq[k]) \in ReadTo(log, s, s + k - 1)
  <2> DEFINE e == s + k - 2
  <2>1. e \in (s - 1)..(L - 1) /\ e + 1 = s + k - 1
    BY <1>1
  <2> HIDE DEF e
  <2>2. state \in ReadTo(log, s, e)
    BY DEF e
  <2>3. ReadFact(state, log[e + 1]) \in ReadTo(log, s, e + 1)
    BY <1>1, <2>1, <2>2, ReadStep DEF L
  <2> QED
    BY <1>2, <2>1, <2>3
<1>5. Shows(seq, R)
  <2>1. R[0] = ReadTo(log, s, s - 1)
    BY <1>1
  <2>2. ASSUME NEW k \in 1..Len(seq), NEW state \in R[k - 1] PROVE ReadFact(state, seq[k]) \in R[k]
    <3>1. k \in 1..(L - s + 1) /\ k - 1 \in 0..(L - s + 1) /\ k \in 0..(L - s + 1) /\ s + (k - 1) - 1 = s + k - 2
      BY <1>1, <1>2
    <3>2. R[k - 1] = ReadTo(log, s, s + k - 2) /\ R[k] = ReadTo(log, s, s + k - 1)
      BY <3>1
    <3> QED
      BY <1>4, <2>2, <3>1, <3>2
  <2> QED
    BY <1>3, <2>1, <2>2 DEF Shows
<1>6. ReadAll(seq) \in R[Len(seq)]
  <2> HIDE DEF R
  <2> QED
    BY <1>2, <1>5, ReadLeads
<1>7. R[Len(seq)] = ReadTo(log, s, L)
  <2>1. L - s + 1 \in 0..(L - s + 1) /\ s + (L - s + 1) - 1 = L
    BY <1>1
  <2> QED
    BY <1>2, <2>1
<1>8. FailureWindow(log) = ReadAll(seq).window
  BY WindowIsRead DEF seq, s, L
<1> QED
  BY <1>6, <1>7, <1>8 DEF s, L

\* Ranks count from the other end.
LEMMA RankFromEnd ==
  ASSUME NEW log, NEW s \in Int, NEW e \in Int, NEW n \in s..(e + 1)
  PROVE  Rank(log, s, e) = Rank(log, s, n - 1) + Cardinality(Of(log, "outcome", n, e))
<1> DEFINE A == Of(log, "outcome", s, n - 1)
           B == Of(log, "outcome", n, e)
<1>1. Of(log, "outcome", s, e) = A \cup B /\ A \cap B = {}
  BY DEF Of
<1>2. IsFiniteSet(A) /\ IsFiniteSet(B)
  BY OfIs
<1> HIDE DEF A, B
<1>3. Cardinality(A \cup B) = Cardinality(A) + Cardinality(B) - Cardinality(A \cap B) /\ Cardinality(A) \in Nat /\ Cardinality(B) \in Nat
  BY <1>2, FS_Union, FS_CardinalityType
<1>4. Cardinality(A \cap B) = 0
  BY <1>1, FS_EmptySet
<1>5. Cardinality(A \cup B) = Cardinality(A) + Cardinality(B)
  BY <1>3, <1>4
<1>6. Rank(log, s, e) = Cardinality(A \cup B) /\ Rank(log, s, n - 1) = Cardinality(A)
  BY <1>1 DEF Rank, A
<1> QED
  BY <1>5, <1>6 DEF B

\* Every rank is that of an outcome.
LEMMA RankedAll ==
  ASSUME NEW log, NEW s \in Int, NEW e \in Int, NEW k \in 1..Rank(log, s, e)
  PROVE  \E n \in Of(log, "outcome", s, e) : Rank(log, s, n) = k
<1> DEFINE T == {m \in s..e : Rank(log, s, m) >= k}
<1>0. \A m \in Int : Rank(log, s, m) \in Nat
  BY OfIs DEF Rank
<1>1. T \in SUBSET Int /\ IsFiniteSet(T)
  <2>1. IsFiniteSet(s..e) /\ T \in SUBSET (s..e)
    BY FS_Interval
  <2> QED
    BY <2>1, FS_Subset
<1>2. e \in T
  <2>1. s <= e
    <3>1. ASSUME s > e PROVE Rank(log, s, e) = 0
      <4>1. Of(log, "outcome", s, e) = {}
        BY <3>1 DEF Of
      <4> QED
        BY <4>1, FS_EmptySet DEF Rank
    <3> QED
      BY <3>1
  <2> QED
    BY <1>0, <2>1
<1>3. PICK n \in T : \A m \in T : n <= m
  BY <1>1, <1>2, MinExists
<1>4. n \in s..e /\ Rank(log, s, n) >= k
  OBVIOUS
<1>5. Rank(log, s, n - 1) < k
  <2>1. CASE n = s
    <3>1. Of(log, "outcome", s, n - 1) = {}
      BY <2>1 DEF Of
    <3> QED
      BY <3>1, FS_EmptySet DEF Rank
  <2>2. CASE n # s
    <3>1. n - 1 \in s..e /\ n - 1 \notin T
      BY <1>3, <1>4, <2>2
    <3> QED
      BY <1>0, <3>1
  <2> QED
    BY <2>1, <2>2
<1>6. /\ Rank(log, s, n) = (IF log[n].kind = "outcome" THEN Rank(log, s, n - 1) + 1 ELSE Rank(log, s, n - 1))
      /\ Rank(log, s, n - 1) \in Nat
  <2> DEFINE d == n - 1
  <2>1. d \in Int /\ s <= d + 1 /\ d + 1 = n
    BY <1>4
  <2> HIDE DEF d
  <2>2. Rank(log, s, d + 1) = IF log[d + 1].kind = "outcome" THEN Rank(log, s, d) + 1 ELSE Rank(log, s, d)
    BY <2>1, RankMore
  <2>3. Rank(log, s, d) \in Nat
    BY <1>0, <2>1
  <2> QED
    BY <2>1, <2>2, <2>3 DEF d
<1>7. log[n].kind = "outcome" /\ Rank(log, s, n) = k
  BY <1>4, <1>5, <1>6
<1> QED
  BY <1>4, <1>7 DEF Of

\* What a repeated failure is: the newest outcomes are alike.
LEMMA RepeatedIs ==
  ASSUME NEW log \in Seq(FactSet), Shape(log), log # <<>>, RepeatedFailure(log)
  PROVE  \E entry \in Entry :
           /\ entry.failure # None /\ entry.source # None
           /\ Rank(log, HistoryStart(log), Len(log)) >= Window
           /\ \A n \in Of(log, "outcome", HistoryStart(log), Len(log)) :
                Cardinality(Of(log, "outcome", n, Len(log))) <= Window =>
                  EntryAt(log, HistoryStart(log), Len(log), n) = entry
<1> DEFINE s == HistoryStart(log)
           e == Len(log)
           w == FailureWindow(log)
           l == Len(w)
<1>1. e \in Nat /\ s \in 1..e
  BY StartIs, LenProperties
<1>2. PICK state \in ReadTo(log, s, e) : state.window = w
  BY WindowShows
<1>3. /\ w \in Seq(Entry) /\ l = Rank(log, s, e)
      /\ \A n \in Of(log, "outcome", s, e) : w[Rank(log, s, n)] = EntryAt(log, s, e, n)
  BY <1>2 DEF ReadTo, Readings
<1>4. /\ l >= Window /\ w[l].failure # None /\ w[l].source # None
      /\ \A n \in (l - Window + 1)..l : w[n] = w[l]
  BY DEF RepeatedFailure
<1>5. DOMAIN w = 1..l /\ l \in Nat /\ w[l] \in Entry /\ Window \in Nat \ {0}
  <2>1. DOMAIN w = 1..l /\ l \in Nat /\ w \in [1..l -> Entry] /\ Window \in Nat \ {0}
    BY <1>3, LenProperties, FailureAssumption
  <2> QED
    BY <1>4, <2>1
<1> HIDE DEF s, e, w, l
<1>6. ASSUME NEW n \in Of(log, "outcome", s, e), Cardinality(Of(log, "outcome", n, e)) <= Window
      PROVE  EntryAt(log, s, e, n) = w[l]
  <2>1. n \in s..e /\ n \in Int /\ s \in Int /\ e \in Int
    BY <1>1 DEF Of
  <2>2. /\ Rank(log, s, n) \in 1..Rank(log, s, e)
        /\ n - 1 >= s => Rank(log, s, n - 1) < Rank(log, s, n)
    BY <2>1, RanksGrow
  <2>3. Rank(log, s, e) = Rank(log, s, n - 1) + Cardinality(Of(log, "outcome", n, e))
    BY <2>1, RankFromEnd
  <2>4. Rank(log, s, n - 1) \in Nat /\ Cardinality(Of(log, "outcome", n, e)) \in Nat
    BY <2>1, OfIs DEF Rank
  <2>5. n = s => Rank(log, s, n - 1) = 0
    <3>1. n = s => Of(log, "outcome", s, n - 1) = {}
      BY <2>1 DEF Of
    <3> QED
      BY <3>1, FS_EmptySet DEF Rank
  <2>6. Rank(log, s, n) \in (l - Window + 1)..l
    BY <1>3, <1>5, <1>6, <2>1, <2>2, <2>3, <2>4, <2>5
  <2> QED
    BY <1>3, <1>4, <2>6
<1> QED
  BY <1>3, <1>4, <1>5, <1>6 DEF s, e

Alike(log, s, y, entry) == \A n \in Of(log, "outcome", y, Len(log)) : EntryAt(log, s, Len(log), n) = entry

\* When there is one: as soon as Window outcomes of one admission are alike.
LEMMA RepeatedWhen ==
  ASSUME NEW log \in Seq(FactSet), Shape(log), log # <<>>,
         NEW y \in 1..Len(log), Of(log, "admitted", y, Len(log)) = {},
         NEW failure, NEW source, failure # None, source # None,
         Cardinality(Of(log, "outcome", y, Len(log))) >= Window,
         Alike(log, HistoryStart(log), y, [failure |-> failure, source |-> source])
  PROVE  RepeatedFailure(log)
<1> DEFINE s == HistoryStart(log)
           e == Len(log)
           w == FailureWindow(log)
           l == Len(w)
           entry == [failure |-> failure, source |-> source]
<1>1. e \in Nat /\ s \in 1..e /\ log[s].kind = "admitted"
  BY StartIs, LenProperties
<1>2. PICK state \in ReadTo(log, s, e) : state.window = w
  BY WindowShows
<1>3. /\ w \in Seq(Entry) /\ l = Rank(log, s, e)
      /\ \A n \in Of(log, "outcome", s, e) : w[Rank(log, s, n)] = EntryAt(log, s, e, n)
  BY <1>2 DEF ReadTo, Readings
<1>4. l \in Nat /\ Window \in Nat \ {0}
  BY <1>3, LenProperties, FailureAssumption
<1> HIDE DEF s, e, w, l, entry
<1>5. s < y /\ y \in s..(e + 1) /\ y \in Int /\ y <= e /\ s \in Int /\ e \in Int
  <2>1. y <= e /\ y \in Int
    BY <1>1 DEF e
  <2>2. ~ y <= s
    <3>1. y <= s => s \in Of(log, "admitted", y, e)
      BY <1>1 DEF Of
    <3> QED
      BY <3>1 DEF e
  <2> QED
    BY <1>1, <2>1, <2>2
<1>6. Rank(log, s, e) = Rank(log, s, y - 1) + Cardinality(Of(log, "outcome", y, e))
  BY <1>5, RankFromEnd
<1>7. Rank(log, s, y - 1) \in Nat /\ Cardinality(Of(log, "outcome", y, e)) \in Nat
  BY <1>5, OfIs DEF Rank
<1>8. Cardinality(Of(log, "outcome", y, e)) >= Window
  BY DEF e
<1>9. ASSUME NEW k \in (l - Window + 1)..l PROVE w[k] = entry
  <2>1. k \in 1..Rank(log, s, e)
    BY <1>3, <1>4, <1>6, <1>7, <1>8
  <2>2. PICK n \in Of(log, "outcome", s, e) : Rank(log, s, n) = k
    BY <1>5, <2>1, RankedAll
  <2>3. n \in Int /\ n \in s..e /\ log[n].kind = "outcome"
    BY <1>5 DEF Of
  <2>4. n >= y
    <3>1. ASSUME n < y PROVE FALSE
      <4>1. Of(log, "outcome", s, n) \in SUBSET Of(log, "outcome", s, y - 1)
        BY <1>5, <2>3, <3>1 DEF Of
      <4>2. Rank(log, s, n) <= Rank(log, s, y - 1)
        BY <1>5, <4>1, OfIs, FS_Subset DEF Rank
      <4> QED
        BY <1>3, <1>4, <1>6, <1>7, <1>8, <2>2, <4>2
    <3> QED
      BY <1>5, <2>3, <3>1
  <2>5. n \in Of(log, "outcome", y, e)
    BY <1>5, <2>3, <2>4 DEF Of
  <2>6. EntryAt(log, s, e, n) = entry
    BY <2>5 DEF Alike, e, s, entry
  <2> QED
    BY <1>3, <2>2, <2>6
<1>10. l >= Window /\ l \in (l - Window + 1)..l
  BY <1>3, <1>4, <1>6, <1>7, <1>8
<1>11. w[l] = entry /\ entry.failure # None /\ entry.source # None
  BY <1>9, <1>10 DEF entry
<1>12. \A k \in (l - Window + 1)..l : w[k] = w[l]
  BY <1>9, <1>11
<1> QED
  BY <1>10, <1>11, <1>12 DEF RepeatedFailure, w, l

\* Of finitely many numbers, as many are among the k greatest as there should be.
Upper(S, n) == {m \in S : m >= n}

Top(S, k) == {n \in S : Cardinality(Upper(S, n)) <= k}

LEMMA TopMany ==
  ASSUME NEW S \in SUBSET Int, IsFiniteSet(S), NEW k \in Nat, k <= Cardinality(S)
  PROVE  Cardinality(Top(S, k)) = k
<1> DEFINE Q == {s \in SUBSET S : k <= Cardinality(s) => Cardinality(Top(s, k)) = k}
<1>1. ASSUME NEW s \in SUBSET S, \A x \in s : s \ {x} \in Q
      PROVE  s \in Q
  <2>0. s \in SUBSET Int /\ IsFiniteSet(s) /\ Cardinality(s) \in Nat
    BY FS_Subset, FS_CardinalityType
  <2>1. ASSUME k = Cardinality(s) PROVE Cardinality(Top(s, k)) = k
    <3>1. ASSUME NEW n \in s PROVE Cardinality(Upper(s, n)) <= k
      <4>1. Upper(s, n) \in SUBSET s
        BY DEF Upper
      <4> QED
        BY <2>0, <2>1, <4>1, FS_Subset
    <3>2. Top(s, k) = s
      BY <3>1 DEF Top
    <3> QED
      BY <2>1, <3>2
  <2>2. ASSUME k < Cardinality(s) PROVE Cardinality(Top(s, k)) = k
    <3>1. s # {}
      BY <2>2, FS_EmptySet
    <3>2. PICK x \in s : \A y \in s : x <= y
      BY <2>0, <3>1, MinExists
    <3> DEFINE t == s \ {x}
    <3>3. Cardinality(t) = Cardinality(s) - 1
      BY <2>0, FS_RemoveElement
    <3>4. Cardinality(Top(t, k)) = k
      <4>1. t \in Q
        BY <1>1
      <4> QED
        BY <2>0, <2>2, <3>3, <4>1
    <3>5. Upper(s, x) = s
      BY <3>2 DEF Upper
    <3>6. \A n \in t : Upper(s, n) = Upper(t, n)
      BY <2>0, <3>2 DEF Upper
    <3>7. Top(s, k) = Top(t, k)
      <4>1. x \notin Top(s, k)
        BY <2>0, <2>2, <3>5 DEF Top
      <4>2. \A n \in t : Cardinality(Upper(s, n)) = Cardinality(Upper(t, n))
        BY <3>6
      <4>3. \A n \in t : n \in Top(s, k) <=> n \in Top(t, k)
        BY <4>2 DEF Top
      <4> QED
        BY <4>1, <4>3 DEF Top
    <3> QED
      BY <3>4, <3>7
  <2> QED
    BY <2>0, <2>1, <2>2
<1> HIDE DEF Q
<1>2. S \in Q
  BY <1>1, SetInduction
<1> QED
  BY <1>2 DEF Q

(***************************************************************************)
(* The invariant.                                                          *)
(***************************************************************************)
LoopSpec == LoopInit /\ [][LoopNext]_loopVars

Busy == {"calling", "prepared", "outcome", "recheck", "looping"}

LoopType ==
  /\ facts \in Seq(FactSet) /\ sourceTree \in Sources /\ streak \in Nat
  /\ working \in Busy \cup {"ended", "admitting", "parked"}

Many(log, a, b) == Cardinality(Of(log, "outcome", a, b))

\* The newest fact is that of the step the program is at.
Newly(log, at) ==
  /\ at # "ended" => log # <<>>
  /\ at = "prepared" => log[Len(log)].kind = "prepared"
  /\ at \in {"outcome", "recheck"} => log[Len(log)].kind = "outcome"
  /\ at = "looping" => /\ Len(log) > 1 /\ log[Len(log)].kind = "checkpoint" /\ log[Len(log) - 1].kind = "outcome"
                       /\ RepeatedFailure(log)

\* The equal failures since first, all before any checkpoint: the window fills with what the last
\* checkpoint shows, which may be out of date.
Unseen(log, at, first) ==
  /\ Of(log, "checkpoint", first, Len(log)) = {} /\ Many(log, first, Len(log)) <= Window
  /\ ~ log[first].readonly => Many(log, first, Len(log)) = 1 /\ at \notin {"calling", "prepared"}
  /\ at \in {"calling", "prepared"} => Many(log, first, Len(log)) < Window

\* A checkpoint came right after one of them, seen: from there the window fills with the source as
\* it is, and before that it was not yet full.
Seen(log, at, first, seen) ==
  /\ seen \in Of(log, "outcome", first, Len(log)) /\ seen < Len(log) /\ log[seen + 1].kind = "checkpoint"
  /\ Many(log, first, seen) <= Window /\ Many(log, seen, Len(log)) <= Window
  /\ ~ log[first].readonly => Many(log, first, seen) = 1
  /\ at \in {"calling", "prepared"} => Many(log, seen, Len(log)) < Window

\* From first on, one admission, one failure and one source.
Equal(log, tree, k, first) ==
  /\ first \in Of(log, "outcome", 1, Len(log)) /\ Many(log, first, Len(log)) = k
  /\ Of(log, "admitted", first, Len(log)) = {}
  /\ tree # None /\ log[first].failure # None
  /\ \A n \in Of(log, "outcome", first, Len(log)) : log[n].failure = log[first].failure
  /\ \A c \in Of(log, "checkpoint", first, Len(log)) : log[c].source = tree

Streak(log, tree, k, at) ==
  \E first \in Of(log, "outcome", 1, Len(log)) :
    /\ Equal(log, tree, k, first)
    /\ Unseen(log, at, first) \/ \E seen \in Of(log, "outcome", first, Len(log)) : Seen(log, at, first, seen)

Latest(S) == IF S = {} THEN 0 ELSE CHOOSE n \in S : \A m \in S : m <= n

LastIn(log, kind) == Latest({n \in DOMAIN log : log[n].kind = kind})

Bounded(log, k) ==
  k <= IF log # <<>> /\ LastIn(log, "outcome") > 0 /\ ~ log[LastIn(log, "outcome")].readonly
       THEN Window ELSE 2 * Window - 1

LoopInv ==
  /\ LoopType /\ Shape(facts) /\ Newly(facts, working) /\ Bounded(facts, streak)
  /\ working \in Busy /\ streak > 0 => Streak(facts, sourceTree, streak, working)

(***************************************************************************)
(* A stop is proved.                                                       *)
(***************************************************************************)
\* What StopsAreProved says of a log with these outcomes, checkpoints, calls and admissions.
ProvedIn(log, O, C, P, A) ==
  LET stood(n) == {c \in C : \A m \in P : m > n => c < m}
      sourceAt(n) == log[CHOOSE c \in stood(n) : \A d \in stood(n) : d <= c].source
  IN  /\ Cardinality(Top(O, Window)) = Window
      /\ \E failure \in ReadFailures \cup WriteFailures : \A n \in Top(O, Window) : log[n].failure = failure
      /\ \A n \in A : (\E m \in Top(O, Window) : m < n) => log[n].continued
      /\ LastIn(log, "checkpoint") > LastIn(log, "outcome")
      /\ \A n \in Top(O, Window) : sourceAt(n) = log[LastIn(log, "checkpoint")].source /\ sourceAt(n) # None

Proved(log) ==
  ProvedIn(log, {n \in DOMAIN log : log[n].kind = "outcome"}, {n \in DOMAIN log : log[n].kind = "checkpoint"},
           {n \in DOMAIN log : log[n].kind = "prepared"}, {n \in DOMAIN log : log[n].kind = "admitted"})

LEMMA LastInIs ==
  ASSUME NEW log \in Seq(FactSet), NEW kind, NEW n, Newest({m \in DOMAIN log : log[m].kind = kind}, n)
  PROVE  LastIn(log, kind) = n
<1> DEFINE S == {m \in DOMAIN log : log[m].kind = kind}
<1>1. n \in S /\ S \in SUBSET Int /\ \A m \in S : m <= n
  BY DEF Newest
<1>2. LastIn(log, kind) = CHOOSE x \in S : \A m \in S : m <= x
  BY <1>1 DEF LastIn, Latest
<1> HIDE DEF S
<1>3. \A x \in S : (\A m \in S : m <= x) => x = n
  BY <1>1
<1> QED
  BY <1>1, <1>2, <1>3

LEMMA StopIsProved ==
  ASSUME NEW log \in Seq(FactSet), Shape(log), Newly(log, "looping")
  PROVE  Proved(log)
<1> DEFINE s == HistoryStart(log)
           e == Len(log)
           O == Of(log, "outcome", 1, e)
           C == Of(log, "checkpoint", 1, e)
           P == Of(log, "prepared", 1, e)
           A == Of(log, "admitted", 1, e)
           equal == Top(O, Window)
<1>1. /\ e \in Nat /\ e > 1 /\ log # <<>> /\ RepeatedFailure(log)
      /\ log[e].kind = "checkpoint" /\ log[e - 1].kind = "outcome" /\ DOMAIN log = 1..e
  BY LenProperties, EmptySeq DEF Newly
<1>2. s \in 1..e /\ \A n \in 1..e : n > s /\ log[n].kind = "admitted" => log[n].continued
  BY <1>1, StartIs
<1>3. PICK entry \in Entry :
           /\ entry.failure # None /\ entry.source # None
           /\ Rank(log, s, e) >= Window
           /\ \A n \in Of(log, "outcome", s, e) :
                Cardinality(Of(log, "outcome", n, e)) <= Window => EntryAt(log, s, e, n) = entry
  BY <1>1, RepeatedIs
<1> HIDE DEF s, e
<1>4. /\ O \in SUBSET (1..e) /\ O \in SUBSET Int /\ IsFiniteSet(O) /\ Cardinality(O) \in Nat
      /\ C \in SUBSET Int /\ P \in SUBSET Int
      /\ \A n \in O : log[n].kind = "outcome"
  BY <1>1, OfIs
<1>5. Window \in Nat \ {0}
  BY FailureAssumption
<1>6. ASSUME NEW n \in O PROVE Upper(O, n) = Of(log, "outcome", n, e) /\ n \in Int
  BY <1>1, <1>4 DEF Of, Upper
\* The newest outcomes are in the window.
<1>7. Cardinality(O) >= Rank(log, s, e)
  <2>1. Of(log, "outcome", s, e) \in SUBSET O
    BY <1>2 DEF Of
  <2> QED
    BY <1>4, <2>1, FS_Subset DEF Rank
<1>8. Cardinality(equal) = Window
  <2> HIDE DEF O, C, P, A, equal
  <2>1. Rank(log, s, e) \in Nat
    <3>0. s \in Int /\ e \in Int
      BY ONLY <1>1, <1>2
    <3>1. IsFiniteSet(Of(log, "outcome", s, e))
      BY ONLY <3>0, OfIs
    <3> QED
      BY <3>1, FS_CardinalityType DEF Rank
  <2> USE DEF equal
  <2> QED
    BY <1>3, <1>4, <1>5, <1>7, <2>1, TopMany
<1>9. ASSUME NEW n \in equal
      PROVE  n \in Of(log, "outcome", s, e) /\ EntryAt(log, s, e, n) = entry
  <2>1. n \in O /\ n \in 1..e /\ Cardinality(Of(log, "outcome", n, e)) <= Window
    BY <1>4, <1>6 DEF Top
  <2>2. n >= s
    <3>1. ASSUME n < s PROVE FALSE
      <4>1. Of(log, "outcome", n + 1, e) \in SUBSET (Of(log, "outcome", n, e) \ {n}) /\ n \in Of(log, "outcome", n, e)
        BY <1>1, <1>4, <2>1 DEF Of
      <4>2. Of(log, "outcome", s, e) \in SUBSET (Of(log, "outcome", n, e) \ {n})
        BY <1>1, <1>2, <1>4, <2>1, <3>1 DEF Of
      <4> DEFINE N == Of(log, "outcome", n, e)
      <4>3. IsFiniteSet(N) /\ Cardinality(N) \in Nat /\ IsFiniteSet(N \ {n}) /\ Cardinality(N \ {n}) = Cardinality(N) - 1
        <5>1. IsFiniteSet(N) /\ Cardinality(N) \in Nat /\ n \in N
          BY <1>1, <2>1, <4>1, OfIs
        <5> HIDE DEF N
        <5> QED
          BY <5>1, FS_RemoveElement
      <4>4. Cardinality(Of(log, "outcome", s, e)) <= Cardinality(N \ {n}) /\ Rank(log, s, e) \in Nat
        BY <1>1, <1>2, <4>2, <4>3, FS_Subset, OfIs DEF Rank
      <4> QED
        BY <1>3, <1>5, <2>1, <4>3, <4>4 DEF Rank
    <3> QED
      BY <1>2, <2>1, <3>1
  <2>3. n \in Of(log, "outcome", s, e)
    BY <1>1, <1>2, <1>4, <2>1, <2>2 DEF Of
  <2> QED
    BY <1>3, <2>1, <2>3
\* What stood at one of them.
<1> DEFINE stood(n) == {c \in C : \A m \in P : m > n => c < m}
           at(n) == CHOOSE c \in stood(n) : \A d \in stood(n) : d <= c
<1>10. ASSUME NEW n \in equal
       PROVE  at(n) = Max(Stood(log, s, e, n)) /\ log[at(n)].source = entry.source
  <2> DEFINE T == Stood(log, s, e, n)
             x == Max(T)
  <2>0. n \in Int /\ n \in s..e /\ s \in Int /\ e \in Int
    BY <1>1, <1>2, <1>9 DEF Of
  <2>1. entry.source = SourceOf(log, T) /\ T # {}
    <3>1. entry.source = SourceOf(log, T)
      BY <1>9 DEF EntryAt
    <3> QED
      BY <1>3, <3>1 DEF SourceOf
  <2>2. T \in SUBSET Int /\ IsFiniteSet(T) /\ T \in SUBSET (s..e) /\ T \in SUBSET C
    <3>1. T \in SUBSET Of(log, "checkpoint", s, e)
      BY DEF Stood
    <3>2. Of(log, "checkpoint", s, e) \in SUBSET C
      BY <1>2 DEF Of
    <3>3. Of(log, "checkpoint", s, e) \subseteq s..e /\ Of(log, "checkpoint", s, e) \in SUBSET Int /\ IsFiniteSet(Of(log, "checkpoint", s, e))
      BY <2>0, OfIs
    <3> HIDE DEF T, C
    <3> QED
      BY <3>1, <3>2, <3>3, FS_Subset
  <2>3. x \in T /\ \A y \in T : x >= y
    <3> HIDE DEF T
    <3> QED
      BY <2>1, <2>2, MaxExists
  <2>4. x \in stood(n)
    <3>1. x \in C /\ Of(log, "prepared", n + 1, x) = {} /\ x \in Int
      BY <2>2, <2>3 DEF Stood
    <3>2. ASSUME NEW m \in P, m > n PROVE x < m
      <4>1. m \notin Of(log, "prepared", n + 1, x) /\ m \in Int /\ log[m].kind = "prepared"
        BY <1>4, <3>1 DEF Of
      <4>2. m > x
        <5> HIDE DEF x
        <5> QED
          BY <2>0, <3>1, <3>2, <4>1 DEF Of
      <4> HIDE DEF x
      <4> QED
        BY <3>1, <4>1, <4>2
    <3> HIDE DEF x
    <3> QED
      BY <3>1, <3>2
  <2>5. ASSUME NEW d \in stood(n) PROVE d <= x
    <3>1. d \in C /\ d \in Int /\ d \in 1..e /\ log[d].kind = "checkpoint"
      BY <1>4 DEF Of
    <3>2. CASE d < s
      <4>1. x \in Int /\ s <= x
        BY <2>0, <2>2, <2>3
      <4> HIDE DEF x
      <4> QED
        BY <2>0, <3>1, <3>2, <4>1
    <3>3. CASE d >= s
      <4>1. d \in Of(log, "checkpoint", s, e)
        BY <2>0, <3>1, <3>3 DEF Of
      <4>2. Of(log, "prepared", n + 1, d) = {}
        <5>1. ASSUME NEW m \in Of(log, "prepared", n + 1, d) PROVE FALSE
          <6>1. m \in P /\ m > n /\ m <= d /\ m \in Int
            BY <1>2, <2>0, <3>1 DEF Of
          <6>2. d < m
            BY <6>1
          <6> QED
            BY <3>1, <6>1, <6>2
        <5> QED
          BY <5>1
      <4>3. d \in T
        BY <4>1, <4>2 DEF Stood
      <4>4. x >= d /\ x \in Int
        BY <2>2, <2>3, <4>3
      <4> HIDE DEF x
      <4> QED
        BY <3>1, <4>4
    <3> QED
      BY <2>0, <3>1, <3>2, <3>3
  <2>6. \A c \in stood(n) : c \in Int
    BY <1>4
  <2>7. at(n) = x
    <3> DEFINE W == stood(n)
    <3>1. at(n) = CHOOSE c \in W : \A d \in W : d <= c
      OBVIOUS
    <3>2. x \in W /\ (\A d \in W : d <= x) /\ \A c \in W : c \in Int
      BY <2>4, <2>5, <2>6
    <3> HIDE DEF W, x, at
    <3>3. \A c \in W : (\A d \in W : d <= c) => c = x
      BY <3>2
    <3> QED
      BY <3>1, <3>2, <3>3
  <2> HIDE DEF at, x, T
  <2>8. x = Max(T)
    BY DEF x
  <2>9. SourceOf(log, T) = log[x].source
    BY <2>1, <2>8 DEF SourceOf
  <2> QED
    BY <2>1, <2>7, <2>8, <2>9 DEF T
\* The last one was followed by the last checkpoint.
<1> HIDE DEF at, stood
<1>11. e - 1 \in equal
  <2>1. e - 1 \in O
    BY <1>1 DEF Of
  <2>2. Of(log, "outcome", e - 1, e) = {e - 1}
    BY <1>1 DEF Of
  <2>3. Cardinality(Of(log, "outcome", e - 1, e)) = 1
    BY <2>2, FS_Singleton
  <2> QED
    BY <1>5, <1>6, <2>1, <2>3 DEF Top
<1>12. at(e - 1) = e
  <2>1. e \in Stood(log, s, e, e - 1)
    <3>1. Of(log, "prepared", (e - 1) + 1, e) = {}
      BY <1>1 DEF Of
    <3>2. e \in Of(log, "checkpoint", s, e)
      BY <1>1, <1>2 DEF Of
    <3> QED
      BY <3>1, <3>2 DEF Stood
  <2>2. Newest(Stood(log, s, e, e - 1), e)
    BY <1>1, <1>2, <2>1 DEF Newest, Stood, Of
  <2>3. Max(Stood(log, s, e, e - 1)) = e
    BY <2>2, MaxIs DEF Newest
  <2> QED
    BY <1>10, <1>11, <2>3
<1>13. entry.source = log[e].source
  BY <1>10, <1>11, <1>12
<1>14. LastIn(log, "checkpoint") = e
  <2>1. Newest({m \in DOMAIN log : log[m].kind = "checkpoint"}, e)
    BY <1>1 DEF Newest
  <2> QED
    BY <2>1, LastInIs
<1>15. LastIn(log, "outcome") = e - 1
  <2>1. Newest({m \in DOMAIN log : log[m].kind = "outcome"}, e - 1)
    BY <1>1 DEF Newest
  <2> QED
    BY <2>1, LastInIs
<1>16. \E failure \in ReadFailures \cup WriteFailures : \A n \in equal : log[n].failure = failure
  <2>1. entry.failure \in ReadFailures \cup WriteFailures
    BY <1>3 DEF Entry, Failures
  <2>2. \A n \in equal : log[n].failure = entry.failure
    BY <1>9 DEF EntryAt
  <2> QED
    BY <2>1, <2>2
<1>17. ASSUME NEW n \in A, NEW m \in equal, m < n PROVE log[n].continued
  BY <1>1, <1>2, <1>9, <1>17 DEF Of
<1>18. \A n \in equal : log[at(n)].source = log[LastIn(log, "checkpoint")].source /\ log[at(n)].source # None
  BY <1>3, <1>10, <1>13, <1>14
<1>19. \A kind : {n \in DOMAIN log : log[n].kind = kind} = Of(log, kind, 1, e)
  BY <1>1 DEF Of
<1> HIDE DEF equal, O, C, P, A
<1>21. /\ {n \in DOMAIN log : log[n].kind = "outcome"} = O /\ {n \in DOMAIN log : log[n].kind = "checkpoint"} = C
       /\ {n \in DOMAIN log : log[n].kind = "prepared"} = P /\ {n \in DOMAIN log : log[n].kind = "admitted"} = A
  BY <1>19 DEF O, C, P, A
<1>22. LastIn(log, "checkpoint") > LastIn(log, "outcome")
  BY <1>1, <1>14, <1>15
<1>23. \A n \in A : (\E m \in equal : m < n) => log[n].continued
  BY <1>17
<1>24. ProvedIn(log, O, C, P, A)
  <2> HIDE DEF at
  <2>1. \A n \in equal : at(n) = CHOOSE c \in stood(n) : \A d \in stood(n) : d <= c
    BY DEF at
  <2> QED
    BY <1>8, <1>16, <1>18, <1>22, <1>23 DEF ProvedIn, equal, at, stood
<1> QED
  BY <1>21, <1>24 DEF Proved

(***************************************************************************)
(* A stop comes in time.                                                   *)
(***************************************************************************)
\* Equal failures with no checkpoint since are alike: at what the last checkpoint shows.
LEMMA UnseenAlike ==
  ASSUME NEW log \in Seq(FactSet), Shape(log), NEW tree, NEW k, NEW first, Equal(log, tree, k, first),
         Of(log, "checkpoint", first, Len(log)) = {}
  PROVE  Alike(log, HistoryStart(log), first,
               [failure |-> log[first].failure, source |-> log[LastIn(log, "checkpoint")].source])
<1> DEFINE s == HistoryStart(log)
           e == Len(log)
           C == Of(log, "checkpoint", s, e)
           last == LastIn(log, "checkpoint")
<1>0. e \in Nat /\ DOMAIN log = 1..e /\ first \in 1..e /\ log # <<>>
  BY LenProperties, EmptySeq DEF Equal, Of
<1>1. s \in 1..e /\ log[s].kind = "admitted"
  BY <1>0, StartIs
<1> HIDE DEF s, e
<1>2. first > s /\ first \in Int /\ s \in Int
  <2>1. s \notin first..e
    BY <1>1 DEF Equal, Of, e
  <2> QED
    BY <1>0, <1>1, <2>1
<1>3. s + 1 \in C /\ s < e
  BY <1>0, <1>1, <1>2 DEF Shape, Of, e
<1>4. C \in SUBSET Int /\ IsFiniteSet(C) /\ C \subseteq s..e
  BY <1>0, <1>2, OfIs
<1>5. \A c \in C : c < first
  <2>1. \A c \in C : c \notin first..e /\ c \in s..e
    BY <1>4 DEF Of, e
  <2> QED
    BY <1>0, <1>2, <2>1
<1>6. Max(C) = last
  <2> DEFINE D == {m \in DOMAIN log : log[m].kind = "checkpoint"}
             x == Max(C)
  <2>1. x \in C /\ \A c \in C : x >= c
    <3> HIDE DEF C
    <3> QED
      BY <1>3, <1>4, MaxExists
  <2> HIDE DEF x
  <2>2. x >= s + 1 /\ x \in Int /\ x \in 1..e /\ log[x].kind = "checkpoint"
    BY <1>0, <1>1, <1>3, <2>1 DEF Of
  <2>3. ASSUME NEW d \in D PROVE d <= x
    <3>1. d \in 1..e /\ log[d].kind = "checkpoint"
      BY <1>0
    <3>2. d >= s => d \in C
      BY <1>0, <1>2, <3>1 DEF Of
    <3> QED
      BY <1>2, <2>1, <2>2, <3>1, <3>2
  <2>4. Newest(D, x)
    BY <1>0, <2>2, <2>3 DEF Newest
  <2>5. last = x
    BY <2>4, LastInIs
  <2> QED
    BY <2>5 DEF x
<1>7. SourceOf(log, C) = log[last].source
  <2> HIDE DEF C, last
  <2> QED
    BY <1>3, <1>6 DEF SourceOf
<1>8. ASSUME NEW n \in Of(log, "outcome", first, e)
      PROVE  EntryAt(log, s, e, n) = [failure |-> log[first].failure, source |-> log[last].source]
  <2>1. n \in Int /\ n >= first /\ log[n].failure = log[first].failure
    BY <1>0, <1>2 DEF Equal, Of, e
  <2>2. \A c \in C : Of(log, "prepared", n + 1, c) = {}
    <3>1. \A c \in C : (n + 1)..c = {}
      BY <1>2, <1>4, <1>5, <2>1
    <3> QED
      BY <3>1 DEF Of
  <2>3. Stood(log, s, e, n) = C
    BY <2>2 DEF Stood
  <2> HIDE DEF last
  <2> QED
    BY <1>7, <2>1, <2>3 DEF EntryAt
<1> QED
  BY <1>8 DEF Alike, s, e

\* So are those from the one on that a checkpoint came right after: at the source as it is.
LEMMA SeenAlike ==
  ASSUME NEW log \in Seq(FactSet), Shape(log), NEW tree, NEW k, NEW first, Equal(log, tree, k, first),
         NEW seen \in Of(log, "outcome", first, Len(log)), seen < Len(log), log[seen + 1].kind = "checkpoint"
  PROVE  Alike(log, HistoryStart(log), seen, [failure |-> log[first].failure, source |-> tree])
<1> DEFINE s == HistoryStart(log)
           e == Len(log)
<1>0. e \in Nat /\ DOMAIN log = 1..e /\ first \in 1..e /\ log # <<>>
  BY LenProperties, EmptySeq DEF Equal, Of
<1>1. s \in 1..e /\ log[s].kind = "admitted"
  BY <1>0, StartIs
<1> HIDE DEF s, e
<1>2. first > s /\ first \in Int /\ s \in Int
  <2>1. s \notin first..e
    BY <1>1 DEF Equal, Of, e
  <2> QED
    BY <1>0, <1>1, <2>1
<1>3. seen \in first..e /\ seen \in Int /\ seen + 1 <= e
  BY <1>0, <1>2 DEF Of, e
<1>4. ASSUME NEW n \in Of(log, "outcome", seen, e)
      PROVE  EntryAt(log, s, e, n) = [failure |-> log[first].failure, source |-> tree]
  <2> DEFINE T == Stood(log, s, e, n)
             x == Max(T)
  <2>1. n \in Int /\ n >= seen /\ n <= e /\ n \in Of(log, "outcome", first, e)
    BY <1>0, <1>2, <1>3 DEF Of
  <2>2. log[n].failure = log[first].failure
    BY <2>1 DEF Equal, e
  <2>3. seen + 1 \in T
    <3>1. Of(log, "prepared", n + 1, seen + 1) = {}
      BY <1>3, <2>1 DEF Of
    <3>2. seen + 1 \in Of(log, "checkpoint", s, e)
      BY <1>0, <1>2, <1>3 DEF Of
    <3> QED
      BY <3>1, <3>2 DEF Stood
  <2>4. T \in SUBSET Int /\ IsFiniteSet(T) /\ T \in SUBSET Of(log, "checkpoint", s, e)
    <3>1. T \in SUBSET Of(log, "checkpoint", s, e)
      BY DEF Stood
    <3>2. Of(log, "checkpoint", s, e) \in SUBSET Int /\ IsFiniteSet(Of(log, "checkpoint", s, e))
      BY <1>0, <1>2, OfIs
    <3> HIDE DEF T
    <3> QED
      BY <3>1, <3>2, FS_Subset
  <2>5. x \in T /\ x >= seen + 1
    <3> HIDE DEF T
    <3> QED
      BY <2>3, <2>4, MaxExists
  <2>6. x \in Of(log, "checkpoint", first, e)
    <3> HIDE DEF x, T
    <3>1. x \in Of(log, "checkpoint", s, e)
      BY <2>4, <2>5
    <3> QED
      BY <1>0, <1>2, <1>3, <2>5, <3>1 DEF Of
  <2>7. log[x].source = tree
    BY <2>6 DEF Equal, e
  <2>8. SourceOf(log, T) = tree
    <3> HIDE DEF T
    <3> QED
      BY <2>3, <2>7 DEF SourceOf
  <2> QED
    BY <2>2, <2>8 DEF EntryAt
<1> QED
  BY <1>4 DEF Alike, s, e

\* One more fact.
Extends(log, x, more) ==
  /\ more \in Seq(FactSet) /\ Len(more) = Len(log) + 1 /\ more # <<>>
  /\ \A n \in 1..Len(log) : more[n] = log[n]
  /\ more[Len(log) + 1] = x

LEMMA Extended ==
  ASSUME NEW log \in Seq(FactSet), NEW x \in FactSet
  PROVE  Extends(log, x, log \o <<x>>) /\ Append(log, x) = log \o <<x>>
<1>1. Append(log, x) = log \o <<x>>
  OBVIOUS
<1>2. /\ Append(log, x) \in Seq(FactSet) /\ Len(Append(log, x)) = Len(log) + 1
      /\ \A n \in 1..Len(log) : Append(log, x)[n] = log[n]
      /\ Append(log, x)[Len(log) + 1] = x
  BY AppendProperties
<1>3. Append(log, x) # <<>>
  BY <1>2, LenProperties, EmptySeq
<1> QED
  BY <1>1, <1>2, <1>3 DEF Extends

LEMMA OfExtended ==
  ASSUME NEW log \in Seq(FactSet), NEW x \in FactSet, NEW more, Extends(log, x, more), NEW kind,
         NEW a \in 1..(Len(log) + 1)
  PROVE  /\ x.kind = kind => Of(more, kind, a, Len(more)) = Of(log, kind, a, Len(log)) \cup {Len(more)}
         /\ x.kind # kind => Of(more, kind, a, Len(more)) = Of(log, kind, a, Len(log))
         /\ \A b \in 1..Len(log) : Of(more, kind, a, b) = Of(log, kind, a, b)
<1> DEFINE e == Len(log)
<1>1. e \in Nat /\ a \in Int /\ a <= e + 1 /\ Len(more) = e + 1 /\ a >= 1
  BY LenProperties DEF Extends
<1>2. \A n \in 1..e : more[n] = log[n]
  BY DEF Extends
<1>3. more[e + 1] = x
  BY DEF Extends
<1> HIDE DEF e
<1>4. \A b \in Int : b <= e => Of(more, kind, a, b) = Of(log, kind, a, b)
  BY <1>1, <1>2 DEF Of
<1>5. Of(more, kind, a, e) = Of(log, kind, a, e)
  BY <1>1, <1>4
<1>6. /\ more[e + 1].kind = kind => Of(more, kind, a, e + 1) = Of(more, kind, a, e) \cup {e + 1}
      /\ more[e + 1].kind # kind => Of(more, kind, a, e + 1) = Of(more, kind, a, e)
  BY <1>1, OfMore
<1>7. \A b \in 1..e : Of(more, kind, a, b) = Of(log, kind, a, b)
  BY <1>1, <1>4
<1> QED
  BY <1>1, <1>3, <1>5, <1>6, <1>7 DEF e

LEMMA ManyExtended ==
  ASSUME NEW log \in Seq(FactSet), NEW x \in FactSet, NEW more, Extends(log, x, more), NEW a \in 1..(Len(log) + 1)
  PROVE  /\ Many(more, a, Len(more)) = IF x.kind = "outcome" THEN Many(log, a, Len(log)) + 1 ELSE Many(log, a, Len(log))
         /\ \A b \in 1..Len(log) : Many(more, a, b) = Many(log, a, b)
         /\ Many(log, a, Len(log)) \in Nat
<1> DEFINE D == Of(log, "outcome", a, Len(log))
<1>1. Len(log) \in Nat /\ Len(more) = Len(log) + 1 /\ a \in Int
  BY LenProperties DEF Extends
<1>2. IsFiniteSet(D) /\ Cardinality(D) \in Nat /\ Len(more) \notin D
  <2>1. D \subseteq a..Len(log) /\ IsFiniteSet(D) /\ Cardinality(D) \in Nat
    BY <1>1, OfIs
  <2> HIDE DEF D
  <2> QED
    BY <1>1, <2>1
<1>3. Cardinality(D \cup {Len(more)}) = Cardinality(D) + 1
  <2> HIDE DEF D
  <2> QED
    BY <1>2, FS_AddElement
<1>4. /\ x.kind = "outcome" => Of(more, "outcome", a, Len(more)) = D \cup {Len(more)}
      /\ x.kind # "outcome" => Of(more, "outcome", a, Len(more)) = D
      /\ \A b \in 1..Len(log) : Of(more, "outcome", a, b) = Of(log, "outcome", a, b)
  BY OfExtended
<1> HIDE DEF D
<1> QED
  BY <1>2, <1>3, <1>4 DEF Many, D

LEMMA LastInOf ==
  ASSUME NEW log \in Seq(FactSet), NEW kind, NEW n \in Of(log, kind, 1, Len(log))
  PROVE  /\ LastIn(log, kind) \in Of(log, kind, n, Len(log))
         /\ LastIn(log, kind) \in 1..Len(log) /\ log[LastIn(log, kind)].kind = kind
<1> DEFINE D == {m \in DOMAIN log : log[m].kind = kind}
           x == Max(D)
<1>1. DOMAIN log = 1..Len(log) /\ Len(log) \in Nat /\ DOMAIN log \in SUBSET Int /\ IsFiniteSet(DOMAIN log)
  BY Indices
<1>2. D \in SUBSET Int /\ IsFiniteSet(D) /\ n \in D
  BY <1>1, FS_Subset DEF Of
<1>3. x \in D /\ \A c \in D : x >= c
  <2> HIDE DEF D
  <2> QED
    BY <1>2, MaxExists
<1> HIDE DEF x
<1>4. Newest(D, x)
  BY <1>2, <1>3 DEF Newest
<1>5. LastIn(log, kind) = x
  BY <1>4, LastInIs
<1>6. x >= n /\ x \in 1..Len(log) /\ log[x].kind = kind
  BY <1>1, <1>2, <1>3
<1> QED
  BY <1>1, <1>2, <1>5, <1>6 DEF Of

\* A streak is within the bound.
LEMMA StreakBounds ==
  ASSUME NEW log \in Seq(FactSet), Shape(log), NEW tree, NEW k, NEW at, Streak(log, tree, k, at)
  PROVE  Bounded(log, k)
<1>1. PICK first \in Of(log, "outcome", 1, Len(log)) :
         /\ Equal(log, tree, k, first)
         /\ Unseen(log, at, first) \/ \E seen \in Of(log, "outcome", first, Len(log)) : Seen(log, at, first, seen)
  BY DEF Streak
<1>2. Len(log) \in Nat /\ first \in 1..Len(log) /\ first \in Int
  BY LenProperties DEF Of
<1>3. /\ LastIn(log, "outcome") \in Of(log, "outcome", first, Len(log))
      /\ LastIn(log, "outcome") \in 1..Len(log)
  BY LastInOf
<1>4. log[LastIn(log, "outcome")].readonly <=> log[first].readonly
  <2>1. log[LastIn(log, "outcome")].failure = log[first].failure /\ log[first].failure # None
    BY <1>1, <1>3 DEF Equal
  <2> QED
    BY <1>2, <1>3, <2>1 DEF Shape
<1>5. k = Many(log, first, Len(log)) /\ Window \in Nat \ {0}
  BY <1>1, FailureAssumption DEF Equal
<1>6. CASE Unseen(log, at, first)
  <2>1. k <= Window /\ k \in Nat
    BY <1>2, <1>5, <1>6, OfIs DEF Unseen, Many
  <2> QED
    BY <1>5, <2>1 DEF Bounded
<1>7. ASSUME NEW seen \in Of(log, "outcome", first, Len(log)), Seen(log, at, first, seen)
      PROVE  Bounded(log, k)
  <2>1. seen \in first..(Len(log) - 1) /\ log[seen].kind = "outcome" /\ seen \in Int
    BY <1>2, <1>7 DEF Seen, Of
  <2>2. /\ Many(log, first, Len(log)) = Many(log, first, seen - 1) + Many(log, seen, Len(log))
        /\ Many(log, first, seen) = Many(log, first, seen - 1) + 1
        /\ Many(log, first, seen - 1) \in Nat /\ Many(log, seen, Len(log)) \in Nat
    <3> DEFINE d == seen - 1
    <3>1. d \in Int /\ d + 1 = seen /\ first <= d + 1 /\ seen \in first..(Len(log) + 1)
      BY <1>2, <2>1
    <3>2. Rank(log, first, Len(log)) = Rank(log, first, seen - 1) + Cardinality(Of(log, "outcome", seen, Len(log)))
      BY <1>2, <3>1, RankFromEnd
    <3> HIDE DEF d
    <3>3. Rank(log, first, d + 1) = IF log[d + 1].kind = "outcome" THEN Rank(log, first, d) + 1 ELSE Rank(log, first, d)
      BY <1>2, <3>1, RankMore
    <3>4. Cardinality(Of(log, "outcome", first, d)) \in Nat /\ Cardinality(Of(log, "outcome", seen, Len(log))) \in Nat
      BY <1>2, <2>1, <3>1, OfIs
    <3> QED
      BY <2>1, <3>1, <3>2, <3>3, <3>4 DEF Rank, Many, d
  <2>3. /\ Many(log, first, seen) <= Window /\ Many(log, seen, Len(log)) <= Window
        /\ ~ log[first].readonly => Many(log, first, seen) = 1
    BY <1>7 DEF Seen
  <2> QED
    BY <1>4, <1>5, <2>2, <2>3 DEF Bounded
<1> QED
  BY <1>1, <1>6, <1>7

\* A call is prepared.
LEMMA StreakOnPrepared ==
  ASSUME NEW log \in Seq(FactSet), NEW x \in FactSet, NEW more, Extends(log, x, more), x.kind = "prepared",
         NEW tree, NEW k, Streak(log, tree, k, "calling")
  PROVE  Streak(more, tree, k, "prepared")
<1>1. PICK first \in Of(log, "outcome", 1, Len(log)) :
         /\ Equal(log, tree, k, first)
         /\ Unseen(log, "calling", first)
            \/ \E seen \in Of(log, "outcome", first, Len(log)) : Seen(log, "calling", first, seen)
  BY DEF Streak
<1> DEFINE e == Len(log)
<1>2. e \in Nat /\ first \in 1..e /\ first \in Int /\ Len(more) = e + 1
  BY LenProperties DEF Of, Extends
<1>3. \A n \in 1..e : more[n] = log[n]
  BY DEF Extends
<1>4. ASSUME NEW a \in 1..(Len(log) + 1)
      PROVE  /\ Of(more, "outcome", a, Len(more)) = Of(log, "outcome", a, e)
             /\ Of(more, "checkpoint", a, Len(more)) = Of(log, "checkpoint", a, e)
             /\ Of(more, "admitted", a, Len(more)) = Of(log, "admitted", a, e)
             /\ Many(more, a, Len(more)) = Many(log, a, e)
             /\ \A b \in 1..e : Many(more, a, b) = Many(log, a, b)
  BY OfExtended, ManyExtended
<1>5. \A kind : \A n \in Of(log, kind, first, e) : n \in 1..e /\ n \in 1..(e + 1)
  BY <1>2 DEF Of
<1> HIDE DEF e
<1>6. first \in 1..(Len(log) + 1) /\ 1 \in 1..(Len(log) + 1)
  BY <1>2 DEF e
<1>7. first \in Of(more, "outcome", 1, Len(more))
  BY <1>4, <1>6 DEF e
<1>8. Equal(more, tree, k, first)
  BY <1>1, <1>2, <1>3, <1>4, <1>5, <1>6, <1>7 DEF Equal, e
<1>9. CASE Unseen(log, "calling", first)
  <2>1. Unseen(more, "prepared", first)
    BY <1>2, <1>3, <1>4, <1>6, <1>9 DEF Unseen, e
  <2> QED
    BY <1>7, <1>8, <2>1 DEF Streak
<1>10. ASSUME NEW seen \in Of(log, "outcome", first, e), Seen(log, "calling", first, seen)
       PROVE  Streak(more, tree, k, "prepared")
  <2>1. seen \in 1..e /\ seen + 1 \in 1..e /\ seen \in 1..(Len(log) + 1)
    BY <1>2, <1>5, <1>10 DEF Seen, e
  <2>2. seen \in Of(more, "outcome", first, Len(more))
    BY <1>4, <1>6
  <2>3. /\ Many(more, first, seen) = Many(log, first, seen)
        /\ Many(more, seen, Len(more)) = Many(log, seen, e)
        /\ more[seen + 1] = log[seen + 1] /\ more[first] = log[first] /\ seen < Len(more)
    BY <1>2, <1>3, <1>4, <1>6, <2>1
  <2>4. Seen(more, "prepared", first, seen)
    BY <1>10, <2>2, <2>3 DEF Seen, e
  <2> QED
    BY <1>7, <1>8, <2>2, <2>4 DEF Streak
<1> QED
  BY <1>1, <1>9, <1>10 DEF e

\* A checkpoint follows an outcome.
LEMMA StreakOnCheckpoint ==
  ASSUME NEW log \in Seq(FactSet), NEW x \in FactSet, NEW more, Extends(log, x, more), Shape(more),
         x.kind = "checkpoint", NEW tree, x.source = tree,
         NEW at \in {"outcome", "recheck"}, Newly(log, at), NEW k, Streak(log, tree, k, at),
         NEW then \in {"calling", "looping"}, then = "calling" => ~ RepeatedFailure(more)
  PROVE  Streak(more, tree, k, then)
<1>1. PICK first \in Of(log, "outcome", 1, Len(log)) :
         /\ Equal(log, tree, k, first)
         /\ Unseen(log, at, first)
            \/ \E seen \in Of(log, "outcome", first, Len(log)) : Seen(log, at, first, seen)
  BY DEF Streak
<1> DEFINE e == Len(log)
<1>2. /\ e \in Nat /\ first \in 1..e /\ first \in Int /\ Len(more) = e + 1 /\ more # <<>> /\ more \in Seq(FactSet)
      /\ log[e].kind = "outcome" /\ Window \in Nat \ {0}
  BY LenProperties, FailureAssumption DEF Of, Extends, Newly
<1>3. (\A n \in 1..e : more[n] = log[n]) /\ more[e + 1] = x
  BY DEF Extends
<1>4. ASSUME NEW a \in 1..(Len(log) + 1)
      PROVE  /\ Of(more, "outcome", a, Len(more)) = Of(log, "outcome", a, e)
             /\ Of(more, "checkpoint", a, Len(more)) = Of(log, "checkpoint", a, e) \cup {Len(more)}
             /\ Of(more, "admitted", a, Len(more)) = Of(log, "admitted", a, e)
             /\ Many(more, a, Len(more)) = Many(log, a, e)
             /\ \A b \in 1..e : Many(more, a, b) = Many(log, a, b)
  BY OfExtended, ManyExtended
<1>5. \A kind : \A n \in Of(log, kind, first, e) : n \in 1..e /\ n \in 1..(e + 1)
  BY <1>2 DEF Of
<1> HIDE DEF e
<1>6. first \in 1..(Len(log) + 1) /\ 1 \in 1..(Len(log) + 1)
  BY <1>2 DEF e
<1>7. first \in Of(more, "outcome", 1, Len(more))
  BY <1>4, <1>6 DEF e
<1>8. Equal(more, tree, k, first)
  <2>1. \A c \in Of(more, "checkpoint", first, Len(more)) : more[c].source = tree
    <3>1. \A c \in Of(log, "checkpoint", first, e) : log[c].source = tree /\ more[c] = log[c]
      BY <1>1, <1>3, <1>5 DEF Equal, e
    <3>2. more[Len(more)].source = tree
      BY <1>2, <1>3
    <3>3. Of(more, "checkpoint", first, Len(more)) = Of(log, "checkpoint", first, e) \cup {Len(more)}
      BY <1>4, <1>6
    <3> QED
      BY <3>1, <3>2, <3>3
  <2>2. \A n \in Of(more, "outcome", first, Len(more)) : more[n].failure = more[first].failure
    BY <1>1, <1>2, <1>3, <1>4, <1>5, <1>6 DEF Equal, e
  <2> QED
    BY <1>1, <1>2, <1>3, <1>4, <1>6, <1>7, <2>1, <2>2 DEF Equal, e
\* Where a checkpoint came right after one of them, the window is not full, or there is a stop.
<1>9. ASSUME NEW seen \in Of(more, "outcome", first, Len(more)), seen < Len(more), more[seen + 1].kind = "checkpoint",
             Many(more, first, seen) <= Window, Many(more, seen, Len(more)) <= Window,
             ~ more[first].readonly => Many(more, first, seen) = 1
      PROVE  Streak(more, tree, k, then)
  <2>1. seen \in 1..Len(more) /\ seen \in Int /\ seen >= first
    BY <1>2 DEF Of
  <2>2. Many(more, seen, Len(more)) >= Window => RepeatedFailure(more)
    <3>1. Alike(more, HistoryStart(more), seen, [failure |-> more[first].failure, source |-> tree])
      BY <1>2, <1>8, <1>9, SeenAlike
    <3>2. Of(more, "admitted", seen, Len(more)) = {}
      <4>1. Of(more, "admitted", seen, Len(more)) \in SUBSET Of(more, "admitted", first, Len(more))
        BY <1>2, <2>1 DEF Of
      <4> QED
        BY <1>8, <4>1 DEF Equal
    <3>3. more[first].failure # None /\ tree # None
      BY <1>8 DEF Equal
    <3> QED
      BY <1>2, <2>1, <3>1, <3>2, <3>3, RepeatedWhen DEF Many
  <2>3. then = "calling" => Many(more, seen, Len(more)) < Window
    <3>1. Many(more, seen, Len(more)) \in Nat
      BY <1>2, <2>1, OfIs DEF Many
    <3> QED
      BY <1>2, <2>2, <3>1
  <2>4. Seen(more, then, first, seen)
    BY <1>9, <2>3 DEF Seen
  <2> QED
    BY <1>7, <1>8, <2>4 DEF Streak
\* It is the first: it came after the last of them.
<1>10. CASE Unseen(log, at, first)
  <2>1. e \in Of(more, "outcome", first, Len(more))
    <3>1. e \in 1..e /\ e \in first..Len(more)
      BY <1>2
    <3>2. more[e].kind = "outcome"
      BY <1>2, <1>3, <3>1
    <3> QED
      BY <3>1, <3>2 DEF Of
  <2>2. e < Len(more) /\ more[e + 1].kind = "checkpoint"
    BY <1>2, <1>3
  <2>3. Many(more, first, e) = Many(log, first, e) /\ more[first] = log[first]
    BY <1>2, <1>3, <1>4, <1>6
  <2>4. Many(more, e, Len(more)) = 1
    <3>1. Of(log, "outcome", e, e) = {e}
      BY <1>2 DEF Of
    <3>2. Many(log, e, e) = 1
      BY <3>1, FS_Singleton DEF Many
    <3>3. e \in 1..(Len(log) + 1)
      BY <1>2 DEF e
    <3> QED
      BY <1>4, <3>2, <3>3
  <2> QED
    BY <1>2, <1>9, <1>10, <2>1, <2>2, <2>3, <2>4 DEF Unseen, e
<1>11. ASSUME NEW seen \in Of(log, "outcome", first, e), Seen(log, at, first, seen)
       PROVE  Streak(more, tree, k, then)
  <2>1. seen \in 1..e /\ seen + 1 \in 1..e /\ seen \in 1..(Len(log) + 1)
    BY <1>2, <1>5, <1>11 DEF Seen, e
  <2>2. seen \in Of(more, "outcome", first, Len(more))
    BY <1>4, <1>6
  <2>3. /\ Many(more, first, seen) = Many(log, first, seen)
        /\ Many(more, seen, Len(more)) = Many(log, seen, e)
        /\ more[seen + 1] = log[seen + 1] /\ more[first] = log[first] /\ seen < Len(more)
    BY <1>2, <1>3, <1>4, <1>6, <2>1
  <2> QED
    BY <1>9, <1>11, <2>2, <2>3 DEF Seen, e
<1> QED
  BY <1>1, <1>10, <1>11 DEF e

\* An outcome that begins a streak.
LEMMA StreakBegins ==
  ASSUME NEW log \in Seq(FactSet), NEW x \in FactSet, NEW more, Extends(log, x, more), Shape(more),
         x.kind = "outcome", x.failure # None, NEW tree, tree # None, more[LastIn(more, "checkpoint")].source # None,
         NEW then \in {"calling", "recheck", "outcome"}, then = "calling" => x.readonly /\ ~ RepeatedFailure(more)
  PROVE  Streak(more, tree, 1, then)
<1> DEFINE e == Len(more)
<1>1. e \in Nat /\ e = Len(log) + 1 /\ e \in 1..e /\ more[e] = x /\ more \in Seq(FactSet) /\ more # <<>>
  BY LenProperties DEF Extends
<1>2. Window \in Nat \ {0}
  BY FailureAssumption
<1> HIDE DEF e
<1>3. /\ Of(more, "outcome", e, e) = {e} /\ Of(more, "admitted", e, e) = {} /\ Of(more, "checkpoint", e, e) = {}
  BY <1>1 DEF Of
<1>4. Many(more, e, e) = 1
  BY <1>3, FS_Singleton DEF Many
<1>5. e \in Of(more, "outcome", 1, e)
  BY <1>1 DEF Of
<1>6. Equal(more, tree, 1, e)
  BY <1>1, <1>3, <1>4, <1>5 DEF Equal, e
<1>7. Window = 1 => RepeatedFailure(more)
  <2>1. Alike(more, HistoryStart(more), e, [failure |-> more[e].failure, source |-> more[LastIn(more, "checkpoint")].source])
    BY <1>1, <1>3, <1>6, UnseenAlike DEF e
  <2>2. more[e].failure # None /\ Many(more, e, e) >= 1
    BY <1>1, <1>4
  <2> QED
    BY <1>1, <1>3, <2>1, <2>2, RepeatedWhen DEF Many, e
<1>8. Unseen(more, then, e)
  BY <1>1, <1>2, <1>3, <1>4, <1>7 DEF Unseen, e
<1> QED
  BY <1>5, <1>6, <1>8 DEF Streak, e

\* An outcome that goes on with one.
LEMMA StreakGoesOn ==
  ASSUME NEW log \in Seq(FactSet), NEW x \in FactSet, NEW more, Extends(log, x, more), Shape(more),
         x.kind = "outcome", NEW tree, more[LastIn(more, "checkpoint")].source # None,
         NEW k, Streak(log, tree, k, "prepared"), x.failure = log[LastIn(log, "outcome")].failure,
         NEW then \in {"calling", "recheck", "outcome"}, then = "calling" => ~ RepeatedFailure(more)
  PROVE  Streak(more, tree, k + 1, then)
<1>1. PICK first \in Of(log, "outcome", 1, Len(log)) :
         /\ Equal(log, tree, k, first)
         /\ Unseen(log, "prepared", first)
            \/ \E seen \in Of(log, "outcome", first, Len(log)) : Seen(log, "prepared", first, seen)
  BY DEF Streak
<1> DEFINE e == Len(log)
<1>2. /\ e \in Nat /\ first \in 1..e /\ first \in Int /\ Len(more) = e + 1 /\ more # <<>> /\ more \in Seq(FactSet)
      /\ Window \in Nat \ {0}
  BY LenProperties, FailureAssumption DEF Of, Extends
<1>3. (\A n \in 1..e : more[n] = log[n]) /\ more[e + 1] = x
  BY DEF Extends
<1>4. ASSUME NEW a \in 1..(Len(log) + 1)
      PROVE  /\ Of(more, "outcome", a, Len(more)) = Of(log, "outcome", a, e) \cup {Len(more)}
             /\ Of(more, "checkpoint", a, Len(more)) = Of(log, "checkpoint", a, e)
             /\ Of(more, "admitted", a, Len(more)) = Of(log, "admitted", a, e)
             /\ Many(more, a, Len(more)) = Many(log, a, e) + 1
             /\ Many(log, a, e) \in Nat
             /\ \A b \in 1..e : Many(more, a, b) = Many(log, a, b)
  BY OfExtended, ManyExtended
<1>5. \A kind : \A n \in Of(log, kind, first, e) : n \in 1..e /\ n \in 1..(e + 1)
  BY <1>2 DEF Of
<1>6. x.failure = log[first].failure
  <2>1. LastIn(log, "outcome") \in Of(log, "outcome", first, e)
    BY LastInOf
  <2> QED
    BY <1>1, <2>1 DEF Equal, e
<1> HIDE DEF e
<1>7. first \in 1..(Len(log) + 1) /\ 1 \in 1..(Len(log) + 1)
  BY <1>2 DEF e
<1>8. first \in Of(more, "outcome", 1, Len(more))
  BY <1>4, <1>7 DEF e
<1>9. Equal(more, tree, k + 1, first)
  <2>1. \A n \in Of(more, "outcome", first, Len(more)) : more[n].failure = more[first].failure
    <3>1. \A n \in Of(log, "outcome", first, e) : log[n].failure = log[first].failure /\ more[n] = log[n]
      BY <1>1, <1>3, <1>5 DEF Equal, e
    <3>2. more[Len(more)].failure = log[first].failure /\ more[first] = log[first]
      BY <1>2, <1>3, <1>6
    <3>3. Of(more, "outcome", first, Len(more)) = Of(log, "outcome", first, e) \cup {Len(more)}
      BY <1>4, <1>7
    <3> QED
      BY <3>1, <3>2, <3>3
  <2>2. \A c \in Of(more, "checkpoint", first, Len(more)) : more[c].source = tree
    BY <1>1, <1>3, <1>4, <1>5, <1>7 DEF Equal, e
  <2>3. Many(more, first, Len(more)) = k + 1
    BY <1>1, <1>4, <1>7 DEF Equal, e
  <2> QED
    BY <1>1, <1>2, <1>3, <1>4, <1>7, <1>8, <2>1, <2>2, <2>3 DEF Equal, e
<1>10. more[first].failure # None /\ tree # None /\ Of(more, "admitted", first, Len(more)) = {}
  BY <1>9 DEF Equal
<1>11. CASE Unseen(log, "prepared", first)
  <2>1. Of(more, "checkpoint", first, Len(more)) = {}
    BY <1>4, <1>7, <1>11 DEF Unseen, e
  <2>2. Many(more, first, Len(more)) >= Window => RepeatedFailure(more)
    <3>1. Alike(more, HistoryStart(more), first,
                [failure |-> more[first].failure, source |-> more[LastIn(more, "checkpoint")].source])
      BY <1>2, <1>9, <2>1, UnseenAlike
    <3>2. first \in 1..Len(more)
      BY <1>2
    <3> QED
      BY <1>2, <1>10, <3>1, <3>2, RepeatedWhen DEF Many
  <2>3. /\ Many(more, first, Len(more)) \in Nat /\ Many(more, first, Len(more)) <= Window
        /\ more[first].readonly
    BY <1>2, <1>3, <1>4, <1>7, <1>11 DEF Unseen, e
  <2>4. Unseen(more, then, first)
    BY <1>2, <2>1, <2>2, <2>3 DEF Unseen
  <2> QED
    BY <1>8, <1>9, <2>4 DEF Streak
<1>12. ASSUME NEW seen \in Of(log, "outcome", first, e), Seen(log, "prepared", first, seen)
       PROVE  Streak(more, tree, k + 1, then)
  <2>1. seen \in 1..e /\ seen + 1 \in 1..e /\ seen \in 1..(Len(log) + 1) /\ seen \in Int /\ seen >= first
    <3>1. seen \in first..e
      BY DEF Of
    <3> QED
      BY <1>2, <1>5, <1>12, <3>1 DEF Seen, e
  <2>2. seen \in Of(more, "outcome", first, Len(more))
    BY <1>4, <1>7
  <2>3. /\ Many(more, first, seen) = Many(log, first, seen)
        /\ Many(more, seen, Len(more)) = Many(log, seen, e) + 1 /\ Many(log, seen, e) \in Nat
        /\ more[seen + 1] = log[seen + 1] /\ more[first] = log[first] /\ seen < Len(more)
    BY <1>2, <1>3, <1>4, <1>7, <2>1
  <2>4. Many(more, seen, Len(more)) >= Window => RepeatedFailure(more)
    <3>1. Alike(more, HistoryStart(more), seen, [failure |-> more[first].failure, source |-> tree])
      <4>1. more[seen + 1].kind = "checkpoint"
        BY <1>12, <2>3 DEF Seen
      <4> QED
        BY <1>2, <1>9, <2>2, <2>3, <4>1, SeenAlike
    <3>2. Of(more, "admitted", seen, Len(more)) = {}
      <4>1. Of(more, "admitted", seen, Len(more)) \in SUBSET Of(more, "admitted", first, Len(more))
        BY <1>2, <2>1 DEF Of
      <4> QED
        BY <1>10, <4>1
    <3>3. seen \in 1..Len(more)
      BY <1>2, <2>1
    <3> QED
      BY <1>2, <1>10, <3>1, <3>2, <3>3, RepeatedWhen DEF Many
  <2>5. Seen(more, then, first, seen)
    BY <1>2, <1>12, <2>2, <2>3, <2>4 DEF Seen, e
  <2> QED
    BY <1>8, <1>9, <2>2, <2>5 DEF Streak
<1> QED
  BY <1>1, <1>11, <1>12 DEF e

\* What is no outcome leaves the bound as it is.
LEMMA BoundedStays ==
  ASSUME NEW log \in Seq(FactSet), NEW x \in FactSet, NEW more, Extends(log, x, more), x.kind # "outcome",
         NEW k, Bounded(log, k)
  PROVE  Bounded(more, k)
<1>1. Len(log) \in Nat /\ Len(more) = Len(log) + 1 /\ DOMAIN log = 1..Len(log) /\ DOMAIN more = 1..Len(more) /\ more # <<>>
  BY LenProperties DEF Extends
<1>2. (\A n \in 1..Len(log) : more[n] = log[n]) /\ more[Len(log) + 1] = x
  BY DEF Extends
<1>3. {n \in DOMAIN more : more[n].kind = "outcome"} = {n \in DOMAIN log : log[n].kind = "outcome"}
  BY <1>1, <1>2
<1>4. LastIn(more, "outcome") = LastIn(log, "outcome")
  BY <1>3 DEF LastIn
<1>5. CASE {n \in DOMAIN log : log[n].kind = "outcome"} = {}
  <2>1. LastIn(log, "outcome") = 0
    BY <1>5 DEF LastIn, Latest
  <2> QED
    BY <1>4, <2>1 DEF Bounded
<1>6. CASE {n \in DOMAIN log : log[n].kind = "outcome"} # {}
  <2>1. PICK n \in DOMAIN log : log[n].kind = "outcome"
    BY <1>6
  <2>2. n \in Of(log, "outcome", 1, Len(log)) /\ log # <<>>
    BY <1>1, <2>1, EmptySeq DEF Of
  <2>3. LastIn(log, "outcome") \in 1..Len(log)
    BY <2>2, LastInOf
  <2> QED
    BY <1>1, <1>2, <1>4, <2>2, <2>3 DEF Bounded
<1> QED
  BY <1>5, <1>6

LEMMA NoStreak == \A log : Bounded(log, 0)
  BY FailureAssumption DEF Bounded

\* The shape of a longer log.
Fits(x) == x.failure # None => (x.readonly <=> x.failure \in ReadFailures)

LEMMA ShapeExtended ==
  ASSUME NEW log \in Seq(FactSet), Shape(log), log # <<>>, NEW x \in FactSet, NEW more, Extends(log, x, more),
         x.kind # "admitted", x.kind = "outcome" => log[Len(log)].kind = "prepared", Fits(x)
  PROVE  Shape(more)
<1> DEFINE e == Len(log)
<1>1. e \in Nat /\ e > 0 /\ Len(more) = e + 1 /\ more # <<>>
  BY LenProperties, EmptySeq DEF Extends
<1>2. (\A n \in 1..e : more[n] = log[n]) /\ more[e + 1] = x
  BY DEF Extends
<1>3. /\ \A n \in 1..e : log[n].kind = "outcome" => n > 1 /\ log[n - 1].kind = "prepared"
      /\ \A n \in 1..e : log[n].kind = "admitted" => n < e /\ log[n + 1].kind = "checkpoint"
      /\ log[1].kind = "admitted" /\ ~ log[1].continued
      /\ \A n \in 1..e : Fits(log[n])
  BY DEF Shape, Fits
<1>4. x.kind = "outcome" => log[e].kind = "prepared"
  OBVIOUS
<1> HIDE DEF e
<1>5. ASSUME NEW n \in 1..(e + 1)
      PROVE  /\ more[n].kind = "outcome" => n > 1 /\ more[n - 1].kind = "prepared"
             /\ more[n].kind = "admitted" => n < e + 1 /\ more[n + 1].kind = "checkpoint"
             /\ Fits(more[n])
  <2>1. CASE n = e + 1
    <3>1. e \in 1..e /\ n - 1 = e
      BY <1>1, <2>1
    <3> QED
      BY <1>1, <1>2, <1>4, <2>1, <3>1
  <2>2. CASE n # e + 1
    <3>1. n \in 1..e /\ more[n] = log[n]
      BY <1>1, <1>2, <2>2
    <3>2. n > 1 => n - 1 \in 1..e
      BY <1>1, <3>1
    <3>3. n < e => n + 1 \in 1..e /\ n < e + 1
      BY <1>1, <3>1
    <3> QED
      BY <1>2, <1>3, <3>1, <3>2, <3>3
  <2> QED
    BY <2>1, <2>2
<1>6. more[1] = log[1]
  BY <1>1, <1>2
<1> QED
  BY <1>1, <1>3, <1>5, <1>6 DEF Shape, Fits

LEMMA ShapeAdmitted ==
  ASSUME NEW log \in Seq(FactSet), Shape(log), NEW a \in FactSet, NEW c \in FactSet, NEW more, NEW most,
         Extends(log, a, more), Extends(more, c, most), a.kind = "admitted", c.kind = "checkpoint",
         a.failure = None, c.failure = None, log = <<>> => ~ a.continued
  PROVE  Shape(most)
<1> DEFINE e == Len(log)
<1>1. e \in Nat /\ (log # <<>> => e > 0) /\ (log = <<>> => e = 0) /\ Len(more) = e + 1 /\ Len(most) = e + 2
  BY LenProperties, EmptySeq DEF Extends
<1>2. /\ \A n \in 1..e : more[n] = log[n] 
      /\ \A n \in 1..(e + 1) : most[n] = more[n]
      /\ more[e + 1] = a /\ most[e + 2] = c
  BY <1>1 DEF Extends
<1>3. /\ \A n \in 1..e : log[n].kind = "outcome" => n > 1 /\ log[n - 1].kind = "prepared"
      /\ \A n \in 1..e : log[n].kind = "admitted" => n < e /\ log[n + 1].kind = "checkpoint"
      /\ log # <<>> => log[1].kind = "admitted" /\ ~ log[1].continued
      /\ \A n \in 1..e : Fits(log[n])
  BY DEF Shape, Fits
<1> HIDE DEF e
<1>4. /\ \A n \in 1..e : most[n] = log[n]
      /\ most[e + 1] = a /\ most[e + 2] = c
  BY <1>1, <1>2
<1>5. Fits(a) /\ Fits(c)
  BY DEF Fits
<1>6. ASSUME NEW n \in 1..(e + 2)
      PROVE  /\ most[n].kind = "outcome" => n > 1 /\ most[n - 1].kind = "prepared"
             /\ most[n].kind = "admitted" => n < e + 2 /\ most[n + 1].kind = "checkpoint"
             /\ Fits(most[n])
  <2>1. CASE n = e + 1 \/ n = e + 2
    BY <1>1, <1>4, <1>5, <2>1
  <2>2. CASE n \in 1..e
    <3>1. n > 1 => n - 1 \in 1..e
      BY <1>1, <2>2
    <3>2. n < e => n + 1 \in 1..e /\ n < e + 2
      BY <1>1, <2>2
    <3> QED
      BY <1>3, <1>4, <2>2, <3>1, <3>2
  <2> QED
    BY <1>1, <2>1, <2>2
<1>7. most[1].kind = "admitted" /\ ~ most[1].continued
  BY <1>1, <1>3, <1>4
<1> QED
  BY <1>1, <1>6, <1>7 DEF Shape, Fits

(***************************************************************************)
(* The steps.                                                              *)
(***************************************************************************)
LEMMA AdmittedIs ==
  ASSUME NEW b \in BOOLEAN
  PROVE  /\ Admitted(b) \in FactSet /\ Admitted(b).kind = "admitted"
         /\ Admitted(b).failure = None /\ Admitted(b).continued = b
  BY DEF Admitted, Blank, FactSet, Failures, Sources

LEMMA PreparedIs ==
  ASSUME NEW b \in BOOLEAN
  PROVE  Prepared(b) \in FactSet /\ Prepared(b).kind = "prepared" /\ Prepared(b).failure = None
  BY DEF Prepared, Blank, FactSet, Failures, Sources

LEMMA OutcomeIs ==
  ASSUME NEW b \in BOOLEAN, NEW f \in Failures
  PROVE  /\ Outcome(b, f) \in FactSet /\ Outcome(b, f).kind = "outcome"
         /\ Outcome(b, f).failure = f /\ Outcome(b, f).readonly = b
  BY DEF Outcome, Blank, FactSet, Failures, Sources

LEMMA CheckpointIs ==
  ASSUME LoopType
  PROVE  /\ SourceCheckpoint \in FactSet /\ SourceCheckpoint.kind = "checkpoint"
         /\ SourceCheckpoint.source = sourceTree /\ SourceCheckpoint.failure = None
  BY DEF LoopType, SourceCheckpoint, Blank, FactSet, Failures, Sources

\* At first nothing has failed.
LEMMA LoopStarts == LoopInit => LoopInv
<1> SUFFICES ASSUME LoopInit PROVE LoopInv
  OBVIOUS
<1>1. LoopType
  BY EmptySeq DEF LoopInit, LoopType, Sources
<1>2. Len(facts) = 0
  BY EmptySeq DEF LoopInit
<1>3. Shape(facts) /\ Newly(facts, working)
  BY <1>2 DEF LoopInit, Shape, Newly, Busy
<1>4. Bounded(facts, streak)
  BY NoStreak DEF LoopInit
<1> QED
  BY <1>1, <1>3, <1>4 DEF LoopInv, LoopInit

\* What does not touch the log leaves it in shape.
LEMMA StillStep ==
  ASSUME LoopInv, UNCHANGED <<facts, sourceTree, streak>>, working' \in {"ended", "admitting", "parked"},
         working = "ended" => working' = "ended"
  PROVE  LoopInv'
<1>1. Newly(facts', working')
  BY DEF LoopInv, LoopType, Newly, Busy
<1> QED
  BY <1>1 DEF LoopInv, LoopType, Busy

LEMMA AdmitStep ==
  ASSUME LoopInv, NEW b \in BOOLEAN, facts' = facts \o <<Admitted(b), SourceCheckpoint>>, working' = "calling",
         streak' = 0, UNCHANGED sourceTree, facts = <<>> => ~ b
  PROVE  LoopInv'
<1> DEFINE a == Admitted(b)
           c == SourceCheckpoint
           more == facts \o <<a>>
<1>1. /\ a \in FactSet /\ a.kind = "admitted" /\ a.failure = None /\ a.continued = b
      /\ c \in FactSet /\ c.kind = "checkpoint" /\ c.failure = None
  BY AdmittedIs, CheckpointIs DEF LoopInv
<1>2. facts \in Seq(FactSet)
  BY DEF LoopInv, LoopType
<1> HIDE DEF a, c
<1>3. Extends(facts, a, more)
  BY <1>1, <1>2, Extended
<1>4. facts' = more \o <<c>> /\ more \in Seq(FactSet)
  BY <1>1, <1>2 DEF a, c
<1> HIDE DEF more
<1>5. Extends(more, c, facts')
  BY <1>1, <1>4, Extended
<1>6. Shape(facts')
  <2>1. Shape(facts) /\ (facts = <<>> => ~ a.continued)
    BY <1>1 DEF LoopInv
  <2> QED
    BY <1>1, <1>2, <1>3, <1>5, <2>1, ShapeAdmitted
<1>7. facts' \in Seq(FactSet) /\ facts' # <<>>
  BY <1>5 DEF Extends
<1>8. LoopType'
  BY <1>7 DEF LoopInv, LoopType, Busy
<1>9. Newly(facts', working')
  BY <1>7 DEF Newly
<1>10. Bounded(facts', streak')
  BY NoStreak
<1> QED
  BY <1>6, <1>8, <1>9, <1>10 DEF LoopInv

LEMMA ParkStep == ASSUME LoopInv, ParkRun PROVE LoopInv'
<1> DEFINE c == SourceCheckpoint
<1>1. c \in FactSet /\ c.kind = "checkpoint" /\ c.failure = None
  BY CheckpointIs DEF LoopInv
<1>2. CASE facts' = facts
  BY <1>2, StillStep DEF ParkRun
<1>3. CASE facts' = facts \o <<SourceCheckpoint>>
  <2>1. facts \in Seq(FactSet) /\ Shape(facts) /\ facts # <<>> /\ Bounded(facts, streak)
    BY DEF LoopInv, LoopType, ParkRun, Newly
  <2> HIDE DEF c
  <2>2. Extends(facts, c, facts')
    BY <1>1, <1>3, <2>1, Extended DEF c
  <2>3. Fits(c)
    BY <1>1 DEF Fits
  <2>4. Shape(facts') /\ Bounded(facts', streak)
    <3>1. c.kind # "admitted" /\ c.kind # "outcome"
      BY <1>1
    <3> QED
      BY <1>1, <2>1, <2>2, <2>3, <3>1, ShapeExtended, BoundedStays
  <2>5. facts' \in Seq(FactSet) /\ facts' # <<>>
    BY <2>2 DEF Extends
  <2> QED
    BY <2>4, <2>5 DEF LoopInv, LoopType, ParkRun, Newly, Busy
<1> QED
  BY <1>2, <1>3 DEF ParkRun, Log

LEMMA PrepareStep == ASSUME LoopInv, PrepareCall PROVE LoopInv'
<1>1. PICK b \in BOOLEAN : facts' = facts \o <<Prepared(b)>>
  BY DEF PrepareCall, Log
<1> DEFINE x == Prepared(b)
<1>2. x \in FactSet /\ x.kind = "prepared" /\ x.failure = None
  BY PreparedIs
<1>3. /\ facts \in Seq(FactSet) /\ Shape(facts) /\ facts # <<>> /\ Bounded(facts, streak)
      /\ streak > 0 => Streak(facts, sourceTree, streak, "calling")
  BY DEF LoopInv, LoopType, PrepareCall, Newly, Busy
<1> HIDE DEF x
<1>4. Extends(facts, x, facts')
  BY <1>1, <1>2, <1>3, Extended DEF x
<1>5. Fits(x) /\ x.kind # "admitted" /\ x.kind # "outcome"
  BY <1>2 DEF Fits
<1>6. Shape(facts') /\ Bounded(facts', streak)
  BY <1>2, <1>3, <1>4, <1>5, ShapeExtended, BoundedStays
<1>7. facts' \in Seq(FactSet) /\ facts' # <<>> /\ facts'[Len(facts')].kind = "prepared"
  BY <1>2, <1>4 DEF Extends
<1>8. streak > 0 => Streak(facts', sourceTree, streak, "prepared")
  BY <1>2, <1>3, <1>4, StreakOnPrepared
<1> QED
  BY <1>6, <1>7, <1>8 DEF LoopInv, LoopType, PrepareCall, Newly, Busy

LEMMA CheckpointStep ==
  ASSUME LoopInv, working \in {"outcome", "recheck"}, facts' = facts \o <<SourceCheckpoint>>,
         working' = Judged(Append(facts, SourceCheckpoint), LastFailure, TRUE), UNCHANGED <<sourceTree, streak>>
  PROVE  LoopInv'
<1> DEFINE c == SourceCheckpoint
           e == Len(facts)
<1>1. c \in FactSet /\ c.kind = "checkpoint" /\ c.failure = None /\ c.source = sourceTree
  BY CheckpointIs DEF LoopInv
<1>2. /\ facts \in Seq(FactSet) /\ Shape(facts) /\ facts # <<>> /\ Bounded(facts, streak) /\ Newly(facts, working)
      /\ streak > 0 => Streak(facts, sourceTree, streak, working)
  BY DEF LoopInv, LoopType, Newly, Busy
<1> HIDE DEF c
<1>3. Extends(facts, c, facts') /\ Append(facts, c) = facts'
  BY <1>1, <1>2, Extended DEF c
<1>4. Fits(c) /\ c.kind # "admitted" /\ c.kind # "outcome"
  BY <1>1 DEF Fits
<1>5. Shape(facts') /\ Bounded(facts', streak)
  BY <1>1, <1>2, <1>3, <1>4, ShapeExtended, BoundedStays
<1>6. /\ working' \in {"calling", "looping"} /\ (working' = "looping" => RepeatedFailure(facts'))
      /\ working' = "calling" => LastFailure = None \/ ~ RepeatedFailure(facts')
  <2>1. working' = Judged(facts', LastFailure, TRUE)
    BY <1>3 DEF c
  <2> QED
    BY <2>1 DEF Judged
<1>7. streak > 0 => LastFailure # None
  <2> SUFFICES ASSUME streak > 0 PROVE LastFailure # None
    OBVIOUS
  <2>1. PICK first \in Of(facts, "outcome", 1, Len(facts)) : Equal(facts, sourceTree, streak, first)
    BY <1>2 DEF Streak
  <2>2. LastIn(facts, "outcome") \in Of(facts, "outcome", first, Len(facts))
    BY <1>2, LastInOf
  <2>3. facts[LastIn(facts, "outcome")].failure # None
    BY <2>1, <2>2 DEF Equal
  <2>4. LastOf("outcome") = LastIn(facts, "outcome")
    BY DEF LastOf, FactsOf, LastIn, Latest
  <2> QED
    BY <2>3, <2>4 DEF LastFailure
<1>8. ASSUME streak > 0 PROVE Streak(facts', sourceTree, streak, working')
  <2>1. working' = "calling" => ~ RepeatedFailure(facts')
    BY <1>6, <1>7, <1>8
  <2>2. Streak(facts, sourceTree, streak, working)
    BY <1>2, <1>8
  <2> DEFINE then == working'
             more == facts'
  <2>3. then \in {"calling", "looping"} /\ (then = "calling" => ~ RepeatedFailure(more)) /\ Extends(facts, c, more) /\ Shape(more)
    BY <1>3, <1>5, <1>6, <2>1
  <2> HIDE DEF then, more
  <2>4. Streak(more, sourceTree, streak, then)
    BY <1>1, <1>2, <2>2, <2>3, StreakOnCheckpoint
  <2> QED
    BY <2>4 DEF then, more
<1>9. /\ facts' \in Seq(FactSet) /\ facts' # <<>> /\ Len(facts') = e + 1 /\ facts'[e + 1] = c
      /\ \A n \in 1..e : facts'[n] = facts[n]
  BY <1>3 DEF Extends
<1>10. e \in 1..e /\ e + 1 > 1 /\ (e + 1) - 1 = e /\ facts[e].kind = "outcome"
  BY <1>2, LenProperties, EmptySeq DEF Newly
<1> HIDE DEF e
<1>11. Newly(facts', working')
  BY <1>1, <1>6, <1>9, <1>10 DEF Newly
<1> QED
  BY <1>5, <1>6, <1>8, <1>9, <1>11 DEF LoopInv, LoopType, Busy

\* What is no checkpoint leaves the newest one.
LEMMA CheckpointStays ==
  ASSUME NEW log \in Seq(FactSet), Shape(log), log # <<>>, NEW x \in FactSet, NEW more, Extends(log, x, more),
         x.kind # "checkpoint"
  PROVE  more[LastIn(more, "checkpoint")] = log[LastIn(log, "checkpoint")]
<1>1. Len(log) \in Nat /\ Len(more) = Len(log) + 1 /\ DOMAIN log = 1..Len(log) /\ DOMAIN more = 1..Len(more) /\ Len(log) # 0
  BY LenProperties, EmptySeq DEF Extends
<1>2. (\A n \in 1..Len(log) : more[n] = log[n]) /\ more[Len(log) + 1] = x
  BY DEF Extends
<1>3. {n \in DOMAIN more : more[n].kind = "checkpoint"} = {n \in DOMAIN log : log[n].kind = "checkpoint"}
  BY <1>1, <1>2
<1>4. LastIn(more, "checkpoint") = LastIn(log, "checkpoint")
  BY <1>3 DEF LastIn
<1>5. 2 \in Of(log, "checkpoint", 1, Len(log))
  <2>1. 1 \in 1..Len(log) /\ log[1].kind = "admitted"
    BY <1>1 DEF Shape
  <2>2. 1 < Len(log) /\ log[1 + 1].kind = "checkpoint"
    BY <2>1 DEF Shape
  <2> QED
    BY <1>1, <2>2 DEF Of
<1>6. LastIn(log, "checkpoint") \in 1..Len(log)
  BY <1>5, LastInOf
<1> QED
  BY <1>2, <1>4, <1>6

LEMMA CompleteStep == ASSUME LoopInv, CompleteCall PROVE LoopInv'
<1> DEFINE e == Len(facts)
           b == facts[Len(facts)].readonly
<1>1. PICK failure \in {None} \cup (IF b THEN ReadFailures ELSE WriteFailures) :
        /\ facts' = facts \o <<Outcome(b, failure)>>
        /\ streak' = InARow(failure)
        /\ working' = IF b THEN Judged(Append(facts, Outcome(b, failure)), failure, FALSE) ELSE "outcome"
  BY DEF CompleteCall, Log
<1>2. /\ facts \in Seq(FactSet) /\ Shape(facts) /\ facts # <<>> /\ facts[e].kind = "prepared"
      /\ streak \in Nat /\ (streak > 0 => Streak(facts, sourceTree, streak, "prepared"))
      /\ sourceTree' = sourceTree /\ sourceTree \in Sources
  BY DEF LoopInv, LoopType, Newly, Busy, CompleteCall
<1>3. b \in BOOLEAN /\ failure \in Failures
  <2>1. e \in 1..e
    BY <1>2, LenProperties, EmptySeq
  <2>2. facts[e] \in FactSet
    BY <1>2, <2>1
  <2> QED
    BY <2>2 DEF FactSet, Failures
<1> DEFINE x == Outcome(b, failure)
<1>4. x \in FactSet /\ x.kind = "outcome" /\ x.failure = failure /\ x.readonly = b
  <2> HIDE DEF b
  <2> QED
    BY <1>3, OutcomeIs
<1>5. Fits(x)
  BY <1>4, FailureAssumption DEF Fits
<1> HIDE DEF x, b
<1>6. Extends(facts, x, facts') /\ Append(facts, x) = facts'
  BY <1>1, <1>2, <1>4, Extended DEF x
<1>7. Shape(facts')
  <2>1. x.kind # "admitted" /\ facts[Len(facts)].kind = "prepared"
    BY <1>2, <1>4
  <2> QED
    BY <1>2, <1>4, <1>5, <1>6, <2>1, ShapeExtended
<1>8. /\ working' \in {"calling", "recheck", "outcome"}
      /\ working' = "calling" => x.readonly /\ (failure = None \/ ~ RepeatedFailure(facts'))
  <2>1. working' = IF b THEN Judged(facts', failure, FALSE) ELSE "outcome"
    BY <1>1, <1>6 DEF x
  <2> QED
    BY <1>4, <2>1 DEF Judged
<1>9. /\ facts' \in Seq(FactSet) /\ facts' # <<>> /\ Len(facts') = e + 1 /\ facts'[e + 1] = x
  BY <1>6 DEF Extends
<1>10. Newly(facts', working')
  BY <1>4, <1>8, <1>9 DEF Newly
<1>11. LastOf("outcome") = LastIn(facts, "outcome") /\ LastOf("checkpoint") = LastIn(facts, "checkpoint")
  BY DEF LastOf, FactsOf, LastIn, Latest
<1> DEFINE more == facts'
           then == working'
<1>12. more[LastIn(more, "checkpoint")] = facts[LastIn(facts, "checkpoint")]
  <2>1. x.kind # "checkpoint"
    BY <1>4
  <2>2. Extends(facts, x, more)
    BY <1>6
  <2> HIDE DEF more
  <2> QED
    BY <1>2, <1>4, <2>1, <2>2, CheckpointStays
<1>13. streak' \in Nat /\ (streak' > 0 => Streak(more, sourceTree, streak', then))
  <2>1. CASE failure = None \/ sourceTree = None \/ facts[LastOf("checkpoint")].source = None
    <3>1. streak' = 0
      BY <1>1, <2>1 DEF InARow
    <3> QED
      BY <3>1
  <2>2. CASE ~ (failure = None \/ sourceTree = None \/ facts[LastOf("checkpoint")].source = None)
    <3>1. /\ Extends(facts, x, more) /\ Shape(more) /\ x.failure # None /\ sourceTree # None
          /\ more[LastIn(more, "checkpoint")].source # None
          /\ then \in {"calling", "recheck", "outcome"}
          /\ then = "calling" => x.readonly /\ ~ RepeatedFailure(more)
      BY <1>4, <1>6, <1>7, <1>8, <1>11, <1>12, <2>2
    <3> HIDE DEF more, then
    <3>2. CASE streak > 0 /\ facts[LastOf("outcome")].failure = failure
      <4>1. streak' = streak + 1
        BY <1>1, <2>2, <3>2 DEF InARow
      <4>2. Streak(facts, sourceTree, streak, "prepared") /\ x.failure = facts[LastIn(facts, "outcome")].failure
        BY <1>2, <1>4, <1>11, <3>2
      <4>3. Streak(more, sourceTree, streak + 1, then)
        BY <1>2, <1>4, <3>1, <4>2, StreakGoesOn
      <4> QED
        BY <1>2, <4>1, <4>3
    <3>3. CASE ~ (streak > 0 /\ facts[LastOf("outcome")].failure = failure)
      <4>1. streak' = 1
        BY <1>1, <2>2, <3>3 DEF InARow
      <4>2. Streak(more, sourceTree, 1, then)
        BY <1>2, <1>4, <3>1, StreakBegins
      <4> QED
        BY <4>1, <4>2
    <3> QED
      BY <3>2, <3>3
  <2> QED
    BY <2>1, <2>2
<1>14. Bounded(more, streak')
  <2> DEFINE k == streak'
  <2>1. k \in Nat /\ (k > 0 => Streak(more, sourceTree, k, then)) /\ more \in Seq(FactSet) /\ Shape(more)
    BY <1>7, <1>9, <1>13
  <2> HIDE DEF k, more, then
  <2>2. k > 0 => Bounded(more, k)
    BY <2>1, StreakBounds
  <2>3. k = 0 => Bounded(more, k)
    BY NoStreak
  <2> QED
    BY <2>1, <2>2, <2>3 DEF k
<1> QED
  BY <1>2, <1>7, <1>8, <1>9, <1>10, <1>13, <1>14 DEF LoopInv, LoopType, Busy

LEMMA LoopStep == LoopInv /\ [LoopNext]_loopVars => LoopInv'
<1> SUFFICES ASSUME LoopInv, [LoopNext]_loopVars PROVE LoopInv'
  OBVIOUS
<1>1. CASE StartLoopRun
  BY <1>1, AdmitStep DEF StartLoopRun, Log
<1>2. CASE ValidateContinue
  BY <1>2, StillStep DEF ValidateContinue
<1>3. CASE AdmitContinue
  <2>1. facts # <<>>
    BY <1>3 DEF AdmitContinue, LoopInv, Newly
  <2> QED
    BY <1>3, <2>1, AdmitStep DEF AdmitContinue, Log
<1>4. CASE EndLoopRun
  BY <1>4, StillStep DEF EndLoopRun
<1>5. CASE ParkRun
  BY <1>5, ParkStep
<1>6. CASE CrashRun
  BY <1>6, StillStep DEF CrashRun
<1>7. CASE PrepareCall
  BY <1>7, PrepareStep
<1>8. CASE CompleteCall
  BY <1>8, CompleteStep
<1>9. CASE ScanAfterWrite
  BY <1>9, CheckpointStep DEF ScanAfterWrite, Log
<1>10. CASE Refresh
  BY <1>10, CheckpointStep DEF Refresh, Log
<1>11. CASE EditTree
  <2>1. Bounded(facts', streak') /\ streak' = 0
    BY <1>11, NoStreak DEF EditTree
  <2> QED
    BY <1>11, <2>1 DEF EditTree, LoopInv, LoopType, Sources
<1>12. CASE UNCHANGED loopVars
  BY <1>12 DEF loopVars, LoopInv, LoopType
<1> QED
  BY <1>1, <1>2, <1>3, <1>4, <1>5, <1>6, <1>7, <1>8, <1>9, <1>10, <1>11, <1>12 DEF LoopNext

\* The log and the streak fit each other at every step (_run_reserved, failure_loop_candidate).
THEOREM LoopInvariant == LoopSpec => []LoopInv
  BY LoopStarts, LoopStep, PTL DEF LoopSpec

\* A Run is stopped for repeated failures only on proof, and a failure is repeated at a source that
\* stays at most Window times by a writing tool and 2 * Window - 1 times by a read-only one
\* (failure_loop_candidate, _run_reserved).
THEOREM RepetitionStops == LoopSpec => []RepetitionIsStopped
<1>1. LoopInv => RepetitionIsStopped
  <2> SUFFICES ASSUME LoopInv PROVE StopsAreProved /\ RepetitionIsBounded
    BY DEF RepetitionIsStopped
  <2>1. /\ LastOf("outcome") = LastIn(facts, "outcome") /\ LastOf("checkpoint") = LastIn(facts, "checkpoint")
    BY DEF LastOf, FactsOf, LastIn, Latest
  <2>2. RepetitionIsBounded
    BY <2>1 DEF RepetitionIsBounded, LoopInv, Bounded
  <2>3. ASSUME working = "looping" PROVE Proved(facts)
    BY <2>3, StopIsProved DEF LoopInv, LoopType
  <2>4. StopsAreProved
    BY <2>1, <2>3 DEF StopsAreProved, Proved, ProvedIn, FactsOf, Top, Upper
  <2> QED
    BY <2>2, <2>4
<1> QED
  BY <1>1, LoopInvariant, PTL
=============================================================================
