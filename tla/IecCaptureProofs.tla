--------------------------- MODULE IecCaptureProofs ---------------------------
(***************************************************************************)
(* Proofs about IecCapture, for any number of records, captures and limits. *)
(*                                                                          *)
(* What a session returns is a function of the bytes it has gone through:   *)
(* cutting the file at the end of a line neither hides nor splits a record  *)
(* (EventsConcat), so nothing is lost however reads and limits cut it.       *)
(***************************************************************************)
EXTENDS IecCapture, FiniteSetTheorems, SequenceTheorems, TLAPS

-----------------------------------------------------------------------------
(* Sets of positions *)

Positions(m) == SUBSET (1 .. m)

Upto(S, e) == {d \in S : d <= e}

\* A set of positions is finite, and so is the part of it up to one of them.
LEMMA PositionsFinite ==
  ASSUME NEW m \in Nat, NEW S \in Positions(m)
  PROVE  /\ IsFiniteSet(S) /\ Cardinality(S) \in Nat
         /\ \A e \in S : /\ IsFiniteSet(Upto(S, e)) /\ Cardinality(Upto(S, e)) \in 1 .. Cardinality(S)
<1>1. IsFiniteSet(1 .. m)
  BY FS_Interval
<1>2. IsFiniteSet(S)
  BY <1>1, FS_Subset DEF Positions
<1>3. Cardinality(S) \in Nat
  BY <1>2, FS_CardinalityType
<1>4. ASSUME NEW e \in S
      PROVE  IsFiniteSet(Upto(S, e)) /\ Cardinality(Upto(S, e)) \in 1 .. Cardinality(S)
  <2>1. Upto(S, e) \in SUBSET S /\ e \in Upto(S, e)
    BY DEF Upto, Positions
  <2>2. IsFiniteSet(Upto(S, e)) /\ Cardinality(Upto(S, e)) <= Cardinality(S)
    BY <1>2, <2>1, FS_Subset
  <2>3. Cardinality(Upto(S, e)) \in Nat
    BY <2>2, FS_CardinalityType
  <2>4. Cardinality(Upto(S, e)) # 0
    BY <2>1, <2>2, FS_EmptySet
  <2> QED BY <1>3, <2>2, <2>3, <2>4
<1> QED BY <1>2, <1>3, <1>4

\* Of two positions of a set the later one has more of the set up to it.
LEMMA LaterCountsMore ==
  ASSUME NEW m \in Nat, NEW S \in Positions(m), NEW d \in S, NEW e \in S, d < e
  PROVE  Cardinality(Upto(S, d)) < Cardinality(Upto(S, e))
<1>0. \A x \in S : x \in Int
  BY DEF Positions
<1>1. Upto(S, d) \in SUBSET Upto(S, e) /\ Upto(S, d) # Upto(S, e)
  <2>1. ASSUME NEW x \in Upto(S, d) PROVE x \in Upto(S, e)
    <3>1. x \in S /\ x <= d
      BY DEF Upto
    <3>2. x <= e
      BY <1>0, <3>1
    <3> QED BY <3>1, <3>2 DEF Upto
  <2>2. e \in Upto(S, e) /\ e \notin Upto(S, d)
    BY <1>0 DEF Upto
  <2> QED BY <2>1, <2>2
<1>2. /\ IsFiniteSet(Upto(S, e)) /\ Cardinality(S) \in Nat
      /\ Cardinality(Upto(S, e)) \in 1 .. Cardinality(S)
      /\ Cardinality(Upto(S, d)) \in 1 .. Cardinality(S)
  BY PositionsFinite
<1>3. /\ Cardinality(Upto(S, d)) <= Cardinality(Upto(S, e))
      /\ Cardinality(Upto(S, e)) # Cardinality(Upto(S, d))
  BY <1>1, <1>2, FS_Subset
<1> QED BY <1>2, <1>3

\* Every set of positions has a k-th one, for each k that its size allows.
LEMMA NthInSet ==
  ASSUME NEW m \in Nat, NEW S \in Positions(m), NEW k \in 1 .. Cardinality(S)
  PROVE  Nth(S, k) \in S /\ Cardinality(Upto(S, Nth(S, k))) = k
<1> DEFINE T == 1 .. Cardinality(S)
           count == [e \in S |-> Cardinality(Upto(S, e))]
<1>1. Cardinality(S) \in Nat /\ IsFiniteSet(S)
  BY PositionsFinite
<1>2. IsFiniteSet(T) /\ Cardinality(T) = Cardinality(S)
  BY <1>1, FS_Interval
<1>3. count \in [S -> T]
  BY PositionsFinite
<1>4. ASSUME NEW d \in S, NEW e \in S, count[d] = count[e] PROVE d = e
  <2>1. d \in Int /\ e \in Int /\ count[d] \in Int
    BY <1>1, <1>3 DEF Positions
  <2>2. CASE d < e
    <3>1. count[d] < count[e]
      BY <2>2, LaterCountsMore
    <3> QED BY <1>4, <2>1, <3>1
  <2>3. CASE e < d
    <3>1. count[e] < count[d]
      BY <2>3, LaterCountsMore
    <3> QED BY <1>4, <2>1, <3>1
  <2> QED BY <2>1, <2>2, <2>3
<1>5. count \in Injection(S, T)
  BY <1>3, <1>4 DEF Injection, IsInjective
<1>6. count \in Surjection(S, T)
  BY <1>2, <1>5, FS_Injection
<1>7. \E e \in S : Cardinality(Upto(S, e)) = k
  BY <1>6 DEF Surjection
<1> QED BY <1>7 DEF Nth, Upto

\* The k-th position is the only one with k of the set up to it.
LEMMA NthUnique ==
  ASSUME NEW m \in Nat, NEW S \in Positions(m), NEW e \in S
  PROVE  Nth(S, Cardinality(Upto(S, e))) = e
<1> DEFINE k == Cardinality(Upto(S, e))
           d == Nth(S, k)
<1>1. k \in 1 .. Cardinality(S)
  BY PositionsFinite
<1>2. d \in S /\ Cardinality(Upto(S, d)) = k
  BY <1>1, NthInSet
<1> HIDE DEF d
<1>3. k \in Int /\ Cardinality(Upto(S, d)) = k
  <2>1. Cardinality(S) \in Nat
    BY PositionsFinite
  <2> QED BY <1>1, <1>2, <2>1
<1> HIDE DEF k
<1>4. d \in Int /\ e \in Int
  BY <1>2 DEF Positions
<1>5. CASE d < e
  <2>1. Cardinality(Upto(S, d)) < Cardinality(Upto(S, e))
    BY <1>2, <1>5, LaterCountsMore
  <2> QED BY <1>3, <2>1 DEF k
<1>6. CASE e < d
  <2>1. Cardinality(Upto(S, e)) < Cardinality(Upto(S, d))
    BY <1>2, <1>6, LaterCountsMore
  <2> QED BY <1>3, <2>1 DEF k
<1>7. CASE d = e
  BY <1>7 DEF d, k
<1> QED BY <1>4, <1>5, <1>6, <1>7

\* The last of a set of positions is one of them.
LEMMA MaxInSet ==
  ASSUME NEW m \in Nat, NEW S \in Positions(m), S # {}
  PROVE  Max({0} \cup S) \in S
<1>1. IsFiniteSet(S) /\ Cardinality(S) \in Nat
  BY PositionsFinite
<1>2. Cardinality(S) \in 1 .. Cardinality(S)
  BY <1>1, FS_EmptySet
<1> DEFINE e == Nth(S, Cardinality(S))
<1>3. e \in S /\ Cardinality(Upto(S, e)) = Cardinality(S)
  BY <1>2, NthInSet
<1> HIDE DEF e
<1>4. Upto(S, e) = S
  <2>1. Upto(S, e) \in SUBSET S
    BY DEF Upto
  <2> QED BY <1>1, <1>3, <2>1, FS_Subset
<1>5. e \in Int /\ e >= 1 /\ \A d \in S : e >= d
  BY <1>3, <1>4 DEF Upto, Positions
<1>6. \E x \in {0} \cup S : \A y \in {0} \cup S : x >= y
  <2>1. \A y \in {0} \cup S : e >= y
    BY <1>5
  <2> QED BY <1>3, <2>1
<1>7. Max({0} \cup S) \in {0} \cup S /\ Max({0} \cup S) >= e
  BY <1>3, <1>6 DEF Max
<1> QED BY <1>5, <1>7

-----------------------------------------------------------------------------
(* Positions of what follows *)

Moved(a, X) == {a + x : x \in X}

\* What a later part adds to a set of positions is no more and no less than it has itself.
LEMMA Shifted ==
  ASSUME NEW a \in Nat, NEW P \in Positions(a), NEW m \in Nat, NEW T \in Positions(m),
         NEW S, S = P \cup Moved(a, T)
  PROVE  /\ S \in Positions(a + m)
         /\ Cardinality(S) = Cardinality(P) + Cardinality(T)
<1> USE DEF Moved
<1>0. /\ \A x \in P : x \in Int /\ 1 <= x /\ x <= a
      /\ \A x \in T : x \in Int /\ 1 <= x /\ x <= m
  BY DEF Positions
<1>1. S \in Positions(a + m)
  <2>1. ASSUME NEW x \in T PROVE a + x \in 1 .. a + m
    BY <1>0
  <2>2. \A x \in P : x \in 1 .. a + m
    BY <1>0
  <2> QED BY <2>1, <2>2 DEF Positions
<1>2. ASSUME NEW X \in SUBSET T
      PROVE  /\ IsFiniteSet(X) /\ Cardinality(X) \in Nat
             /\ IsFiniteSet(Moved(a, X)) /\ Cardinality(Moved(a, X)) = Cardinality(X)
  <2>1. X \in Positions(m)
    BY DEF Positions
  <2>2. IsFiniteSet(X) /\ Cardinality(X) \in Nat
    BY <2>1, PositionsFinite
  <2> DEFINE f == [x \in X |-> a + x]
  <2>3. f \in [X -> Moved(a, X)]
    OBVIOUS
  <2>4. \A x, y \in X : f[x] = f[y] => x = y
    BY <1>0
  <2>5. \A y \in Moved(a, X) : \E x \in X : f[x] = y
    OBVIOUS
  <2>6. f \in Bijection(X, Moved(a, X))
    BY <2>3, <2>4, <2>5 DEF Bijection, Injection, Surjection, IsInjective
  <2>7. ExistsBijection(X, Moved(a, X))
    BY <2>6 DEF ExistsBijection
  <2> QED BY <2>2, <2>7, FS_Bijection
<1>3. IsFiniteSet(P) /\ Cardinality(P) \in Nat
  BY PositionsFinite
<1>4. ASSUME NEW X \in SUBSET T
      PROVE  Cardinality(P \cup Moved(a, X)) = Cardinality(P) + Cardinality(X)
  <2>1. IsFiniteSet(Moved(a, X)) /\ Cardinality(Moved(a, X)) = Cardinality(X) /\ Cardinality(X) \in Nat
    BY <1>2
  <2>2. P \cap Moved(a, X) = {}
    BY <1>0
  <2>3. Cardinality(P \cap Moved(a, X)) = 0
    BY <2>2, FS_EmptySet
  <2>4. Cardinality(P \cup Moved(a, X))
          = Cardinality(P) + Cardinality(Moved(a, X)) - Cardinality(P \cap Moved(a, X))
    BY <1>3, <2>1, FS_Union
  <2> QED BY <1>3, <2>1, <2>3, <2>4
<1>5. Cardinality(S) = Cardinality(P) + Cardinality(T)
  BY <1>4
<1> QED BY <1>1, <1>5

\* It comes after what was there,
LEMMA ShiftedBefore ==
  ASSUME NEW a \in Nat, NEW P \in Positions(a), NEW m \in Nat, NEW T \in Positions(m),
         NEW S, S = P \cup Moved(a, T),
         NEW k \in 1 .. Cardinality(P)
  PROVE  Nth(S, k) = Nth(P, k)
<1>1. /\ \A x \in P : x \in Int /\ 1 <= x /\ x <= a
      /\ \A x \in T : x \in Int /\ 1 <= x /\ x <= m
  BY DEF Positions
<1>2. S \in Positions(a + m)
  BY Shifted
<1> DEFINE e == Nth(P, k)
<1>3. e \in P /\ Cardinality(Upto(P, e)) = k
  BY NthInSet
<1> HIDE DEF e
<1>4. Upto(S, e) = Upto(P, e)
  BY <1>1, <1>3 DEF Upto, Moved
<1>5. Nth(S, Cardinality(Upto(S, e))) = e
  <2>1. e \in S /\ a + m \in Nat
    BY <1>3
  <2> QED BY <1>2, <2>1, NthUnique
<1> QED BY <1>3, <1>4, <1>5 DEF e

\* in the same order.
LEMMA ShiftedAfter ==
  ASSUME NEW a \in Nat, NEW P \in Positions(a), NEW m \in Nat, NEW T \in Positions(m),
         NEW S, S = P \cup Moved(a, T),
         NEW k \in 1 .. Cardinality(T)
  PROVE  Nth(S, Cardinality(P) + k) = a + Nth(T, k)
<1>1. /\ \A x \in P : x \in Int /\ 1 <= x /\ x <= a
      /\ \A x \in T : x \in Int /\ 1 <= x /\ x <= m
  BY DEF Positions
<1>2. S \in Positions(a + m)
  BY Shifted
<1> DEFINE e == Nth(T, k)
<1>3. e \in T /\ Cardinality(Upto(T, e)) = k
  BY NthInSet
<1> HIDE DEF e
<1>4. Upto(S, a + e) = P \cup Moved(a, Upto(T, e))
  <2>1. ASSUME NEW x \in Upto(S, a + e) PROVE x \in P \cup Moved(a, Upto(T, e))
    <3>1. x \in S /\ x <= a + e
      BY DEF Upto
    <3>2. CASE x \in P
      BY <3>2
    <3>3. ASSUME NEW y \in T, x = a + y PROVE x \in Moved(a, Upto(T, e))
      <4>1. y <= e
        BY <1>1, <1>3, <3>1, <3>3
      <4> QED BY <3>3, <4>1 DEF Upto, Moved
    <3> QED BY <3>1, <3>2, <3>3 DEF Moved
  <2>2. ASSUME NEW x \in P PROVE x \in Upto(S, a + e)
    BY <1>1, <1>3 DEF Upto
  <2>3. ASSUME NEW y \in Upto(T, e) PROVE a + y \in Upto(S, a + e)
    <3>1. y \in T /\ y <= e
      BY DEF Upto
    <3>2. a + y \in S /\ a + y <= a + e
      BY <1>1, <1>3, <3>1 DEF Moved
    <3> QED BY <3>2 DEF Upto
  <2> QED BY <2>1, <2>2, <2>3 DEF Moved
<1>5. Cardinality(Upto(S, a + e)) = Cardinality(P) + k
  <2>1. Upto(T, e) \in SUBSET T
    BY DEF Upto
  <2>2. Upto(T, e) \in Positions(m)
    BY <2>1 DEF Positions
  <2> DEFINE R == Upto(T, e)
             U == Upto(S, a + e)
  <2>3. R \in Positions(m) /\ U = P \cup Moved(a, R)
    BY <1>4, <2>2
  <2> HIDE DEF R, U
  <2>4. Cardinality(U) = Cardinality(P) + Cardinality(R)
    BY <2>3, Shifted
  <2> QED BY <1>3, <2>4 DEF R, U
<1>6. Nth(S, Cardinality(Upto(S, a + e))) = a + e
  <2>1. a + e \in S /\ a + m \in Nat
    BY <1>3 DEF Moved
  <2> QED BY <1>2, <2>1, NthUnique
<1> QED BY <1>5, <1>6 DEF e

-----------------------------------------------------------------------------
(* Lines, of a file and of what is appended to it *)

Whole(data) == data = <<>> \/ data[Len(data)].part = "newline"

\* Lines end inside the data, and each end is of one kind at most.
LEMMA EndsInside ==
  ASSUME NEW data \in Seq(Part)
  PROVE  /\ Len(data) \in Nat
         /\ Ends(data) \in Positions(Len(data))
         /\ EventEnds(data) \in SUBSET Ends(data)
         /\ MalformedEnds(data) \in SUBSET Ends(data)
         /\ EventEnds(data) \in Positions(Len(data))
         /\ MalformedEnds(data) \in Positions(Len(data))
         /\ Cardinality(EventEnds(data)) \in Nat /\ CountMalformed(data) \in Nat
<1>1. Len(data) \in Nat
  BY LenProperties
<1>2. Ends(data) \in Positions(Len(data))
  BY DEF Ends, Positions
<1>3. EventEnds(data) \in SUBSET Ends(data) /\ MalformedEnds(data) \in SUBSET Ends(data)
  BY DEF EventEnds, MalformedEnds
<1>4. /\ EventEnds(data) \in Positions(Len(data))
      /\ MalformedEnds(data) \in Positions(Len(data))
  BY <1>2, <1>3 DEF Positions
<1>5. Cardinality(EventEnds(data)) \in Nat /\ CountMalformed(data) \in Nat
  BY <1>1, <1>4, PositionsFinite DEF CountMalformed
<1> QED BY <1>1, <1>2, <1>3, <1>4, <1>5

\* The events of the data are as many as its whole lines, each from the record of its line.
LEMMA EventsType ==
  ASSUME NEW data \in Seq(Part)
  PROVE  /\ Events(data) \in Seq(Record)
         /\ Len(Events(data)) = Cardinality(EventEnds(data))
         /\ \A k \in 1 .. Cardinality(EventEnds(data)) :
              Events(data)[k] = data[Nth(EventEnds(data), k) - 1].record
<1> DEFINE ends == EventEnds(data)
           size == Cardinality(ends)
<1>1. Len(data) \in Nat /\ ends \in Positions(Len(data)) /\ size \in Nat
  BY EndsInside
<1>2. ASSUME NEW k \in 1 .. size PROVE data[Nth(ends, k) - 1].record \in Record
  <2> DEFINE e == Nth(ends, k)
  <2>1. e \in ends
    BY <1>1, NthInSet
  <2> HIDE DEF e
  <2>2. e - 1 \in 1 .. Len(data)
    BY <1>1, <2>1 DEF EventEnds, Ends
  <2>3. data[e - 1] \in Part
    BY <2>2, ElementOfSeq
  <2> QED BY <2>3 DEF Part, e
<1>3. Events(data) = [k \in 1 .. size |-> data[Nth(ends, k) - 1].record]
  BY DEF Events
<1> HIDE DEF size
<1>4. Events(data) \in Seq(Record) /\ Len(Events(data)) = size
  BY <1>1, <1>2, <1>3
<1> QED BY <1>3, <1>4 DEF size

\* A set of positions is what it has up to a cut and, moved, what it has after it.
LEMMA SplitAt ==
  ASSUME NEW a \in Nat, NEW m \in Nat,
         NEW D \in Positions(a + m), NEW P \in Positions(a), NEW T \in Positions(m),
         \A e \in 1 .. a : e \in D <=> e \in P,
         \A x \in 1 .. m : a + x \in D <=> x \in T
  PROVE  D = P \cup Moved(a, T)
<1> USE DEF Moved, Positions
<1>1. ASSUME NEW e \in D PROVE e \in P \cup Moved(a, T)
  <2>1. CASE e <= a
    BY <2>1
  <2>2. CASE ~(e <= a)
    <3>1. e - a \in 1 .. m /\ a + (e - a) = e
      BY <2>2
    <3>2. e - a \in T
      BY <3>1
    <3> QED BY <3>1, <3>2
  <2> QED BY <2>1, <2>2
<1>2. \A e \in P : e \in D
  OBVIOUS
<1>3. \A x \in T : a + x \in D
  OBVIOUS
<1> QED BY <1>1, <1>2, <1>3

\* Of data cut at the end of a line, the lines of each kind are those of the two parts.
LEMMA EndsConcat ==
  ASSUME NEW p \in Seq(Part), NEW t \in Seq(Part), Whole(p)
  PROVE  /\ EventEnds(p \o t) = EventEnds(p) \cup Moved(Len(p), EventEnds(t))
         /\ MalformedEnds(p \o t) = MalformedEnds(p) \cup Moved(Len(p), MalformedEnds(t))
<1> DEFINE d == p \o t
           a == Len(p)
           m == Len(t)
<1>1. a \in Nat /\ m \in Nat
  BY LenProperties
<1>2. Len(d) = a + m /\ \A i \in 1 .. a + m : d[i] = IF i <= a THEN p[i] ELSE t[i - a]
  BY ConcatProperties
<1>3. a = 0 \/ (a \in 1 .. a /\ p[a].part = "newline")
  BY <1>1, EmptySeq DEF Whole
<1> HIDE DEF d, a, m
<1>4. ASSUME NEW e \in 1 .. a
      PROVE  /\ e \in Ends(d) <=> e \in Ends(p)
             /\ e \in EventEnds(d) <=> e \in EventEnds(p)
             /\ e \in MalformedEnds(d) <=> e \in MalformedEnds(p)
  <2>1. ASSUME NEW i \in 1 .. a PROVE d[i] = p[i] /\ (i \in Ends(d) <=> i \in Ends(p))
    BY <1>1, <1>2 DEF Ends, a
  <2>2. e \in Ends(d) <=> e \in Ends(p)
    BY <2>1
  <2>3. e - 1 \in {0} \cup Ends(d) <=> e - 1 \in {0} \cup Ends(p)
    BY <1>1, <2>1
  <2>4. e > 2 => (e - 3 \in {0} \cup Ends(d) <=> e - 3 \in {0} \cup Ends(p))
    BY <1>1, <2>1
  <2>5. e > 2 => d[e - 2] = p[e - 2] /\ d[e - 1] = p[e - 1]
    BY <1>1, <2>1
  <2>6. e \in EventEnds(d) <=> e \in EventEnds(p)
    BY <2>2, <2>4, <2>5 DEF EventEnds
  <2> QED BY <2>2, <2>3, <2>6 DEF MalformedEnds
<1>5. ASSUME NEW x \in 1 .. m
      PROVE  /\ a + x \in Ends(d) <=> x \in Ends(t)
             /\ a + x \in EventEnds(d) <=> x \in EventEnds(t)
             /\ a + x \in MalformedEnds(d) <=> x \in MalformedEnds(t)
  <2>1. ASSUME NEW i \in 1 .. m
        PROVE  d[a + i] = t[i] /\ (a + i \in Ends(d) <=> i \in Ends(t))
    <3>1. a + i \in 1 .. a + m /\ ~(a + i <= a) /\ (a + i) - a = i
      BY <1>1
    <3>2. d[a + i] = t[i]
      BY <1>2, <3>1
    <3> QED BY <1>2, <3>1, <3>2 DEF Ends, m
  <2>2. a + x \in Ends(d) <=> x \in Ends(t)
    BY <2>1
  <2>3. a = 0 \/ (a \in Ends(d) /\ d[a].part = "newline")
    BY <1>1, <1>2, <1>3 DEF Ends
  <2>4. (a + x) - 1 \in {0} \cup Ends(d) <=> x - 1 \in {0} \cup Ends(t)
    <3>1. CASE x = 1
      BY <1>1, <2>3, <3>1
    <3>2. CASE x > 1
      <4>1. x - 1 \in 1 .. m /\ a + (x - 1) = (a + x) - 1 /\ (a + x) - 1 # 0
        BY <1>1, <3>2
      <4>2. (a + x) - 1 \in Ends(d) <=> x - 1 \in Ends(t)
        BY <2>1, <4>1
      <4> QED BY <4>1, <4>2
    <3> QED BY <1>1, <3>1, <3>2
  <2>5. a + x \in EventEnds(d) <=> x \in EventEnds(t)
    <3>1. CASE x = 1
      <4>1. x \notin EventEnds(t)
        BY <3>1 DEF EventEnds
      <4>2. a + x \notin EventEnds(d)
        <5>1. a + x > 2 => d[(a + x) - 1].part = "newline"
          BY <1>1, <2>3, <3>1
        <5> QED BY <5>1 DEF EventEnds
      <4> QED BY <4>1, <4>2
    <3>2. CASE x = 2
      <4>1. x \notin EventEnds(t)
        BY <3>2 DEF EventEnds
      <4>2. a + x \notin EventEnds(d)
        <5>1. a + x > 2 => d[(a + x) - 2].part = "newline"
          BY <1>1, <2>3, <3>2
        <5> QED BY <5>1 DEF EventEnds
      <4> QED BY <4>1, <4>2
    <3>3. CASE x > 2
      <4>1. /\ x - 2 \in 1 .. m /\ a + (x - 2) = (a + x) - 2
            /\ x - 1 \in 1 .. m /\ a + (x - 1) = (a + x) - 1 /\ a + x > 2
        BY <1>1, <3>3
      <4>2. d[(a + x) - 2] = t[x - 2] /\ d[(a + x) - 1] = t[x - 1]
        BY <2>1, <4>1
      <4>3. (a + x) - 3 \in {0} \cup Ends(d) <=> x - 3 \in {0} \cup Ends(t)
        <5>1. CASE x = 3
          BY <1>1, <2>3, <5>1
        <5>2. CASE x > 3
          <6>1. x - 3 \in 1 .. m /\ a + (x - 3) = (a + x) - 3 /\ (a + x) - 3 # 0
            BY <1>1, <5>2
          <6>2. (a + x) - 3 \in Ends(d) <=> x - 3 \in Ends(t)
            BY <2>1, <6>1
          <6> QED BY <6>1, <6>2
        <5> QED BY <1>1, <3>3, <5>1, <5>2
      <4> QED BY <2>2, <3>3, <4>1, <4>2, <4>3 DEF EventEnds
    <3> QED BY <1>1, <3>1, <3>2, <3>3
  <2> QED BY <2>2, <2>4, <2>5 DEF MalformedEnds
<1>6. /\ EventEnds(d) \in Positions(a + m) /\ MalformedEnds(d) \in Positions(a + m)
      /\ EventEnds(p) \in Positions(a) /\ MalformedEnds(p) \in Positions(a)
      /\ EventEnds(t) \in Positions(m) /\ MalformedEnds(t) \in Positions(m)
  <2>1. d \in Seq(Part)
    BY ConcatProperties DEF d
  <2> QED BY <1>2, <2>1, EndsInside DEF a, m
<1>7. EventEnds(d) = EventEnds(p) \cup Moved(a, EventEnds(t))
  <2> DEFINE D == EventEnds(d)
             P == EventEnds(p)
             T == EventEnds(t)
  <2>1. /\ D \in Positions(a + m) /\ P \in Positions(a) /\ T \in Positions(m)
        /\ \A e \in 1 .. a : e \in D <=> e \in P
        /\ \A x \in 1 .. m : a + x \in D <=> x \in T
    BY <1>4, <1>5, <1>6
  <2> HIDE DEF D, P, T
  <2>2. D = P \cup Moved(a, T)
    BY <1>1, <2>1, SplitAt
  <2> QED BY <2>2 DEF D, P, T
<1>8. MalformedEnds(d) = MalformedEnds(p) \cup Moved(a, MalformedEnds(t))
  <2> DEFINE D == MalformedEnds(d)
             P == MalformedEnds(p)
             T == MalformedEnds(t)
  <2>1. /\ D \in Positions(a + m) /\ P \in Positions(a) /\ T \in Positions(m)
        /\ \A e \in 1 .. a : e \in D <=> e \in P
        /\ \A x \in 1 .. m : a + x \in D <=> x \in T
    BY <1>4, <1>5, <1>6
  <2> HIDE DEF D, P, T
  <2>2. D = P \cup Moved(a, T)
    BY <1>1, <2>1, SplitAt
  <2> QED BY <2>2 DEF D, P, T
<1> QED BY <1>7, <1>8 DEF d, a

\* Reading data in two goes, cut at the end of a line, gives what one go gives.
THEOREM EventsConcat ==
  ASSUME NEW p \in Seq(Part), NEW t \in Seq(Part), Whole(p)
  PROVE  /\ Events(p \o t) = Events(p) \o Events(t)
         /\ CountMalformed(p \o t) = CountMalformed(p) + CountMalformed(t)
<1> DEFINE d == p \o t
           a == Len(p)
           m == Len(t)
           P == EventEnds(p)
           T == EventEnds(t)
           S == P \cup Moved(a, T)
<1>1. a \in Nat /\ m \in Nat /\ P \in Positions(a) /\ T \in Positions(m)
  BY EndsInside
<1>2. d \in Seq(Part) /\ \A i \in 1 .. a + m : d[i] = IF i <= a THEN p[i] ELSE t[i - a]
  BY ConcatProperties
<1>3. EventEnds(d) = S
  BY EndsConcat
<1>4. /\ Cardinality(S) = Cardinality(P) + Cardinality(T)
      /\ \A k \in 1 .. Cardinality(P) : Nth(S, k) = Nth(P, k)
      /\ \A k \in 1 .. Cardinality(T) : Nth(S, Cardinality(P) + k) = a + Nth(T, k)
  <2>1. S = P \cup Moved(a, T)
    OBVIOUS
  <2> HIDE DEF a, m, P, T, S, d
  <2>2. Cardinality(S) = Cardinality(P) + Cardinality(T)
    BY <1>1, <2>1, Shifted
  <2>3. ASSUME NEW k \in 1 .. Cardinality(P) PROVE Nth(S, k) = Nth(P, k)
    BY <1>1, <2>1, ShiftedBefore
  <2>4. ASSUME NEW k \in 1 .. Cardinality(T) PROVE Nth(S, Cardinality(P) + k) = a + Nth(T, k)
    BY <1>1, <2>1, ShiftedAfter
  <2> QED BY <2>2, <2>3, <2>4
<1>5. CountMalformed(d) = CountMalformed(p) + CountMalformed(t)
  <2> DEFINE M == MalformedEnds(p)
             N == MalformedEnds(t)
  <2>1. M \in Positions(a) /\ N \in Positions(m)
    BY EndsInside
  <2>2. MalformedEnds(d) = M \cup Moved(a, N)
    BY EndsConcat
  <2> DEFINE L == MalformedEnds(d)
  <2> HIDE DEF L, M, N
  <2>3. Cardinality(L) = Cardinality(M) + Cardinality(N)
    <3>1. L = M \cup Moved(a, N)
      BY <2>2 DEF L
    <3> HIDE DEF a, m
    <3> QED BY <1>1, <2>1, <3>1, Shifted
  <2> QED BY <2>3 DEF CountMalformed, L, M, N
<1> DEFINE c == Cardinality(P)
           l == Cardinality(T)
<1>6. c \in Nat /\ l \in Nat
  BY EndsInside
<1>7. /\ Events(p) \in Seq(Record) /\ Events(t) \in Seq(Record) /\ Events(d) \in Seq(Record)
      /\ Len(Events(p)) = c /\ Len(Events(t)) = l /\ Len(Events(d)) = c + l
  BY <1>2, <1>3, <1>4, EventsType
<1>8. /\ Events(p) \o Events(t) \in Seq(Record) /\ Len(Events(p) \o Events(t)) = c + l
      /\ \A i \in 1 .. c + l :
           (Events(p) \o Events(t))[i] = IF i <= c THEN Events(p)[i] ELSE Events(t)[i - c]
  <2> DEFINE u == Events(p)
             v == Events(t)
  <2>1. u \in Seq(Record) /\ v \in Seq(Record) /\ Len(u) = c /\ Len(v) = l
    BY <1>7
  <2> HIDE DEF u, v, c, l
  <2>2. /\ u \o v \in Seq(Record) /\ Len(u \o v) = c + l
        /\ \A i \in 1 .. c + l : (u \o v)[i] = IF i <= c THEN u[i] ELSE v[i - c]
    BY <2>1, ConcatProperties
  <2> QED BY <2>2 DEF u, v
<1>9. /\ \A k \in 1 .. c : Events(p)[k] = p[Nth(P, k) - 1].record
      /\ \A k \in 1 .. l : Events(t)[k] = t[Nth(T, k) - 1].record
      /\ \A k \in 1 .. c + l : Events(d)[k] = d[Nth(S, k) - 1].record
  <2>1. \A k \in 1 .. Cardinality(EventEnds(d)) : Events(d)[k] = d[Nth(EventEnds(d), k) - 1].record
    BY <1>2, EventsType
  <2>2. \A k \in 1 .. c + l : Events(d)[k] = d[Nth(S, k) - 1].record
    <3> HIDE DEF S, d
    <3> QED BY <1>3, <1>4, <2>1
  <2>3. \A k \in 1 .. c : Events(p)[k] = p[Nth(P, k) - 1].record
    BY EventsType
  <2>4. \A k \in 1 .. l : Events(t)[k] = t[Nth(T, k) - 1].record
    BY EventsType
  <2> QED BY <2>2, <2>3, <2>4
<1>10. ASSUME NEW i \in 1 .. c + l PROVE Events(d)[i] = (Events(p) \o Events(t))[i]
  <2>1. CASE i <= c
    <3> DEFINE e == Nth(P, i)
    <3>1. i \in 1 .. c
      BY <1>6, <2>1
    <3>2. e \in P /\ e - 1 \in 1 .. a
      <4>1. e \in P
        BY <1>1, <3>1, NthInSet
      <4> HIDE DEF e
      <4> QED BY <1>1, <4>1 DEF EventEnds, Ends, Positions
    <3>3. Nth(S, i) = e
      BY <1>4, <3>1
    <3> HIDE DEF e, S, d
    <3>4. d[e - 1] = p[e - 1]
      BY <1>1, <1>2, <3>2
    <3>5. Events(p)[i] = p[e - 1].record
      BY <1>9, <3>1 DEF e
    <3>6. Events(d)[i] = d[e - 1].record
      BY <1>9, <3>3
    <3> QED BY <1>8, <2>1, <3>4, <3>5, <3>6
  <2>2. CASE ~(i <= c)
    <3> DEFINE k == i - c
               e == Nth(T, k)
    <3>1. k \in 1 .. l /\ c + k = i
      BY <1>6, <2>2
    <3>2. e \in T /\ e \in Int /\ e - 1 \in 1 .. m
      <4>1. e \in T
        BY <1>1, <3>1, NthInSet
      <4> HIDE DEF e
      <4> QED BY <1>1, <4>1 DEF EventEnds, Ends, Positions
    <3>3. Nth(S, i) = a + e
      BY <1>4, <3>1
    <3> HIDE DEF k, e, S, d
    <3>4. /\ (a + e) - 1 \in 1 .. a + m /\ ~((a + e) - 1 <= a) /\ ((a + e) - 1) - a = e - 1
      BY <1>1, <3>2
    <3>5. d[(a + e) - 1] = t[e - 1]
      BY <1>2, <3>4
    <3>6. Events(t)[k] = t[e - 1].record
      BY <1>9, <3>1 DEF e
    <3>7. Events(d)[i] = d[(a + e) - 1].record
      BY <1>9, <3>3
    <3>8. (Events(p) \o Events(t))[i] = Events(t)[k]
      BY <1>8, <2>2 DEF k
    <3> QED BY <3>5, <3>6, <3>7, <3>8
  <2> QED BY <2>1, <2>2
<1> HIDE DEF c, l, d
<1>11. Events(d) = Events(p) \o Events(t)
  BY <1>7, <1>8, <1>10, SeqEqual
<1> QED BY <1>5, <1>11 DEF d

\* A part that ends no line changes nothing; a newline completes one event at most.
LEMMA EventsAppend ==
  ASSUME NEW p \in Seq(Part), NEW x \in Part
  PROVE  \/ Events(Append(p, x)) = Events(p)
         \/ \E r \in Record : Events(Append(p, x)) = Append(Events(p), r)
<1> DEFINE d == Append(p, x)
           a == Len(p)
           P == EventEnds(p)
           D == EventEnds(d)
<1>1. a \in Nat /\ P \in Positions(a) /\ Cardinality(P) \in Nat
  BY EndsInside
<1>2. d \in Seq(Part) /\ Len(d) = a + 1 /\ \A i \in 1 .. a : d[i] = p[i]
  BY AppendProperties
<1>3. D \in Positions(a + 1)
  BY <1>2, EndsInside
<1> HIDE DEF d, a
<1>4. ASSUME NEW e \in 1 .. a PROVE e \in D <=> e \in P
  <2>1. ASSUME NEW i \in 1 .. a PROVE i \in Ends(d) <=> i \in Ends(p)
    BY <1>1, <1>2 DEF Ends, a
  <2>2. e > 2 => (e - 3 \in {0} \cup Ends(d) <=> e - 3 \in {0} \cup Ends(p))
    BY <1>1, <2>1
  <2>3. e > 2 => d[e - 2] = p[e - 2] /\ d[e - 1] = p[e - 1]
    BY <1>1, <1>2
  <2> QED BY <2>1, <2>2, <2>3 DEF EventEnds, Ends
<1>5. CASE a + 1 \notin D
  <2>1. D = P
    <3>1. \A e \in D : e \in 1 .. a
      BY <1>1, <1>3, <1>5 DEF Positions
    <3> QED BY <1>1, <1>4, <3>1 DEF Positions
  <2>2. \A k \in 1 .. Cardinality(P) : d[Nth(D, k) - 1].record = p[Nth(P, k) - 1].record
    <3> TAKE k \in 1 .. Cardinality(P)
    <3> DEFINE e == Nth(P, k)
    <3>1. e \in P
      BY <1>1, NthInSet
    <3> HIDE DEF e
    <3>2. e - 1 \in 1 .. a
      BY <1>1, <3>1 DEF EventEnds, Ends, a
    <3>3. d[e - 1] = p[e - 1]
      BY <1>2, <3>2
    <3> QED BY <2>1, <3>3 DEF e
  <2>3. /\ Events(p) \in Seq(Record) /\ Len(Events(p)) = Cardinality(P)
        /\ Events(d) \in Seq(Record) /\ Len(Events(d)) = Cardinality(P)
    BY <1>2, <2>1, EventsType
  <2>4. \A k \in 1 .. Cardinality(P) : Events(d)[k] = Events(p)[k]
    BY <1>2, <2>1, <2>2, EventsType
  <2>5. Events(d) = Events(p)
    BY <2>3, <2>4, SeqEqual
  <2> QED BY <2>5 DEF d
<1>6. CASE a + 1 \in D
  <2> DEFINE T == {1}
  <2>1. D = P \cup Moved(a, T)
    <3>1. \A e \in D : e \in 1 .. a \/ e = a + 1
      BY <1>1, <1>3 DEF Positions
    <3>2. \A e \in P : e \in 1 .. a
      BY <1>1 DEF Positions
    <3>3. Moved(a, T) = {a + 1}
      BY DEF Moved
    <3> HIDE DEF T
    <3> QED BY <1>4, <1>6, <3>1, <3>2, <3>3
  <2>2. T \in Positions(1) /\ Cardinality(T) = 1
    <3>1. T \in Positions(1)
      BY DEF Positions
    <3>2. Cardinality(T) = 1
      BY FS_Singleton
    <3> QED BY <3>1, <3>2
  <2>3. /\ Cardinality(D) = Cardinality(P) + 1
        /\ \A k \in 1 .. Cardinality(P) : Nth(D, k) = Nth(P, k)
    <3> HIDE DEF T, D, P
    <3>1. 1 \in Nat
      OBVIOUS
    <3>2. Cardinality(D) = Cardinality(P) + Cardinality(T)
      BY <1>1, <2>1, <2>2, <3>1, Shifted
    <3>3. ASSUME NEW k \in 1 .. Cardinality(P) PROVE Nth(D, k) = Nth(P, k)
      BY <1>1, <2>1, <2>2, <3>1, ShiftedBefore
    <3> QED BY <2>2, <3>2, <3>3
  <2>4. \A k \in 1 .. Cardinality(P) : d[Nth(D, k) - 1].record = p[Nth(P, k) - 1].record
    <3> TAKE k \in 1 .. Cardinality(P)
    <3> DEFINE e == Nth(P, k)
    <3>1. e \in P
      BY <1>1, NthInSet
    <3> HIDE DEF e
    <3>2. e - 1 \in 1 .. a
      BY <1>1, <3>1 DEF EventEnds, Ends, a
    <3>3. d[e - 1] = p[e - 1]
      BY <1>2, <3>2
    <3> QED BY <2>3, <3>3 DEF e
  <2> DEFINE c == Cardinality(P)
             r == Events(d)[c + 1]
  <2>5. /\ Events(p) \in Seq(Record) /\ Len(Events(p)) = c
        /\ Events(d) \in Seq(Record) /\ Len(Events(d)) = c + 1
    BY <1>2, <2>3, EventsType
  <2>6. r \in Record
    BY <1>1, <2>5, ElementOfSeq
  <2>7. \A k \in 1 .. c : Events(d)[k] = Events(p)[k]
    <3>1. \A k \in 1 .. c + 1 : Events(d)[k] = d[Nth(D, k) - 1].record
      BY <1>2, <2>3, EventsType
    <3>2. \A k \in 1 .. c : Events(p)[k] = p[Nth(P, k) - 1].record
      BY EventsType
    <3>3. c \in Nat
      BY <1>1
    <3> HIDE DEF c, D, P
    <3>4. \A k \in 1 .. c : k \in 1 .. c + 1
      BY <3>3
    <3> QED BY <2>4, <3>1, <3>2, <3>4 DEF c
  <2> HIDE DEF r, c, P, D
  <2>8. c \in Nat
    BY <1>1 DEF c
  <2>9. /\ Append(Events(p), r) \in Seq(Record) /\ Len(Append(Events(p), r)) = c + 1
        /\ \A k \in 1 .. c : Append(Events(p), r)[k] = Events(p)[k]
        /\ Append(Events(p), r)[c + 1] = r
    BY <2>5, <2>6, AppendProperties
  <2>10. \A k \in 1 .. c + 1 : Events(d)[k] = Append(Events(p), r)[k]
    <3> TAKE k \in 1 .. c + 1
    <3>1. CASE k \in 1 .. c
      BY <2>7, <2>9, <3>1
    <3>2. CASE k = c + 1
      BY <2>9, <3>2 DEF r
    <3>3. k \in 1 .. c \/ k = c + 1
      BY <2>8
    <3> QED BY <3>1, <3>2, <3>3
  <2>11. Events(d) = Append(Events(p), r)
    BY <2>5, <2>9, <2>10, SeqEqual
  <2> QED BY <2>6, <2>11 DEF d
<1> QED BY <1>5, <1>6

-----------------------------------------------------------------------------
(* Segments of the file *)

\* The segment of a file from one position to another.
LEMMA Segment ==
  ASSUME NEW s \in Seq(Part), NEW i \in Nat, NEW j \in Nat, i <= j, j <= Len(s)
  PROVE  /\ SubSeq(s, i + 1, j) \in Seq(Part)
         /\ Len(SubSeq(s, i + 1, j)) = j - i
         /\ \A x \in 1 .. j - i : SubSeq(s, i + 1, j)[x] = s[i + x]
<1>1. Len(s) \in Nat
  BY LenProperties
<1>2. \A x \in i + 1 .. j : s[x] \in Part
  <2> TAKE x \in i + 1 .. j
  <2>1. x \in 1 .. Len(s)
    BY <1>1
  <2> QED BY <2>1, ElementOfSeq
<1>3. i + 1 \in Int /\ j \in Int
  OBVIOUS
<1>4. /\ SubSeq(s, i + 1, j) \in Seq(Part)
      /\ Len(SubSeq(s, i + 1, j)) = IF i + 1 <= j THEN j - (i + 1) + 1 ELSE 0
      /\ \A x \in 1 .. j - (i + 1) + 1 : SubSeq(s, i + 1, j)[x] = s[(i + 1) + x - 1]
  BY <1>2, <1>3, SubSeqProperties
<1>5. Len(SubSeq(s, i + 1, j)) = j - i
  BY <1>4
<1>6. ASSUME NEW x \in 1 .. j - i PROVE SubSeq(s, i + 1, j)[x] = s[i + x]
  <2>1. x \in 1 .. j - (i + 1) + 1 /\ (i + 1) + x - 1 = i + x
    OBVIOUS
  <2> QED BY <1>4, <2>1
<1> QED BY <1>4, <1>5, <1>6

\* Two segments that meet are one.
LEMMA SegmentsMeet ==
  ASSUME NEW s \in Seq(Part), NEW i \in Nat, NEW j \in Nat, NEW k \in Nat,
         i <= j, j <= k, k <= Len(s)
  PROVE  SubSeq(s, i + 1, j) \o SubSeq(s, j + 1, k) = SubSeq(s, i + 1, k)
<1>1. Len(s) \in Nat
  BY LenProperties
<1>2. i + 1 \in 1 .. Len(s) + 1 /\ j \in (i + 1) - 1 .. Len(s) /\ k \in j .. Len(s)
  BY <1>1
<1> QED BY <1>2, ConcatAdjacentSubSeq

\* A segment of a segment is one of the file.
LEMMA SegmentWithin ==
  ASSUME NEW s \in Seq(Part), NEW i \in Nat, NEW j \in Nat, i <= j, j <= Len(s),
         NEW u \in Nat, NEW v \in Nat, u <= v, v <= j - i
  PROVE  SubSeq(SubSeq(s, i + 1, j), u + 1, v) = SubSeq(s, i + u + 1, i + v)
<1> DEFINE d == SubSeq(s, i + 1, j)
           l == SubSeq(d, u + 1, v)
           r == SubSeq(s, i + u + 1, i + v)
<1>1. d \in Seq(Part) /\ Len(d) = j - i /\ \A x \in 1 .. j - i : d[x] = s[i + x]
  BY Segment
<1> HIDE DEF d
<1>2. l \in Seq(Part) /\ Len(l) = v - u /\ \A x \in 1 .. v - u : l[x] = d[u + x]
  BY <1>1, Segment
<1>3. r \in Seq(Part) /\ Len(r) = v - u /\ \A x \in 1 .. v - u : r[x] = s[i + u + x]
  <2> DEFINE a == i + u
             b == i + v
  <2>1. a \in Nat /\ b \in Nat /\ a <= b /\ b <= Len(s) /\ b - a = v - u
    <3>1. Len(s) \in Nat
      BY LenProperties
    <3> QED BY <3>1
  <2> HIDE DEF a, b
  <2>2. /\ SubSeq(s, a + 1, b) \in Seq(Part) /\ Len(SubSeq(s, a + 1, b)) = b - a
        /\ \A x \in 1 .. b - a : SubSeq(s, a + 1, b)[x] = s[a + x]
    BY <2>1, Segment
  <2> QED BY <2>1, <2>2 DEF a, b
<1>4. ASSUME NEW x \in 1 .. v - u PROVE l[x] = r[x]
  <2>1. u + x \in 1 .. j - i /\ i + (u + x) = i + u + x
    OBVIOUS
  <2>2. d[u + x] = s[i + u + x]
    BY <1>1, <2>1
  <2> QED BY <1>2, <1>3, <2>2
<1> HIDE DEF l, r
<1>5. l = r
  BY <1>2, <1>3, <1>4, SeqEqual
<1> QED BY <1>5 DEF l, r, d

\* A segment of the file stays what it is when VICE appends.
LEMMA AppendSegment ==
  ASSUME NEW s \in Seq(Part), NEW x \in Part, NEW i \in Nat, NEW j \in Nat, i <= j, j <= Len(s)
  PROVE  SubSeq(Append(s, x), i + 1, j) = SubSeq(s, i + 1, j)
<1> DEFINE t == Append(s, x)
           l == SubSeq(t, i + 1, j)
           r == SubSeq(s, i + 1, j)
<1>1. Len(s) \in Nat
  BY LenProperties
<1>2. t \in Seq(Part) /\ Len(t) = Len(s) + 1 /\ \A y \in 1 .. Len(s) : t[y] = s[y]
  BY AppendProperties
<1>3. r \in Seq(Part) /\ Len(r) = j - i /\ \A y \in 1 .. j - i : r[y] = s[i + y]
  BY Segment
<1> HIDE DEF t
<1>4. l \in Seq(Part) /\ Len(l) = j - i /\ \A y \in 1 .. j - i : l[y] = t[i + y]
  <2>1. j <= Len(t)
    BY <1>1, <1>2
  <2> QED BY <1>2, <2>1, Segment
<1>5. ASSUME NEW y \in 1 .. j - i PROVE l[y] = r[y]
  <2>1. i + y \in 1 .. Len(s)
    BY <1>1
  <2> QED BY <1>2, <1>3, <1>4, <2>1
<1> HIDE DEF l, r
<1>6. l = r
  BY <1>3, <1>4, <1>5, SeqEqual
<1> QED BY <1>6 DEF l, r, t

\* The loop of _drain stops inside what it has read, at the end of a line or before the first.
LEMMA ConsumedCut ==
  ASSUME NEW data \in Seq(Part), NEW limit \in Nat, limit >= 1
  PROVE  /\ Consumed(data, limit) \in 0 .. Len(data)
         /\ Consumed(data, limit) # 0 => data[Consumed(data, limit)].part = "newline"
<1> DEFINE ends == EventEnds(data)
           n == Consumed(data, limit)
<1>1. Len(data) \in Nat /\ Ends(data) \in Positions(Len(data)) /\ ends \in Positions(Len(data))
  BY EndsInside
<1>2. n \in {0} \cup Ends(data)
  <2>1. CASE Cardinality(ends) < limit
    <3>1. n = Max({0} \cup Ends(data))
      BY <2>1 DEF Consumed, LastEnd
    <3>2. CASE Ends(data) = {}
      <4>1. {0} \cup Ends(data) = {0} /\ \A x, y \in {0} : x >= y
        BY <3>2
      <4>2. Max({0}) \in {0}
        BY <4>1 DEF Max
      <4> QED BY <3>1, <4>1, <4>2
    <3>3. CASE Ends(data) # {}
      <4>1. Max({0} \cup Ends(data)) \in Ends(data)
        BY <1>1, <3>3, MaxInSet
      <4> QED BY <3>1, <4>1
    <3> QED BY <3>2, <3>3
  <2>2. CASE ~(Cardinality(ends) < limit)
    <3>1. n = Nth(ends, limit)
      BY <2>2 DEF Consumed
    <3>2. limit \in 1 .. Cardinality(ends)
      BY <2>2, EndsInside
    <3>3. Nth(ends, limit) \in ends
      <4> HIDE DEF ends
      <4> QED BY <1>1, <3>2, NthInSet
    <3>4. ends \in SUBSET Ends(data)
      BY EndsInside
    <3> QED BY <3>1, <3>3, <3>4
  <2> QED BY <2>1, <2>2
<1> HIDE DEF n
<1>3. n \in 0 .. Len(data) /\ (n # 0 => data[n].part = "newline")
  BY <1>1, <1>2 DEF Ends
<1> QED BY <1>3 DEF n

-----------------------------------------------------------------------------
(* The inductive invariant *)

\* How far in the file the session has gone, and what it has gone through.
Handled == offset - Len(pending)
Through == SubSeq(log, from + 1, Handled)

Types ==
  /\ log \in Seq(Part) /\ pending \in Seq(Part)
  /\ delivered \in Seq([record : Record, sequence : Nat])
  /\ capture \in 0 .. MaxCapture /\ active \in BOOLEAN
  /\ offset \in 0 .. Len(log) /\ from \in Nat /\ sequence \in Nat

\* VICE does not go back to a record once it has ended it.
Recorded ==
  \A i, j \in 1 .. Len(log) : i < j =>
    /\ log[i].record <= log[j].record
    /\ log[i].part = "newline" => log[i].record < log[j].record

\* The session has gone from where it started to the end of a line; the rest is pending.
Cut ==
  /\ Handled \in Nat /\ from <= Handled
  /\ Handled = from \/ log[Handled].part = "newline"
  /\ pending = SubSeq(log, Handled + 1, offset)

\* It has returned the events of what it has gone through, and counted the rest.
Returned ==
  /\ Given = Events(Through)
  /\ \A i \in DOMAIN delivered : delivered[i].sequence = i
  /\ sequence = Len(delivered)
  /\ malformed = CountMalformed(Through)

IecInductive == Types /\ Recorded /\ Cut /\ Returned

\* What the session has gone through is a part of the file, made of whole lines.
LEMMA ThroughWhole ==
  ASSUME IecInductive
  PROVE  /\ Handled \in Nat /\ from \in Nat /\ offset \in Nat /\ Len(log) \in Nat
         /\ from <= Handled /\ Handled <= offset /\ offset <= Len(log)
         /\ Through \in Seq(Part) /\ Len(Through) = Handled - from
         /\ \A x \in 1 .. Handled - from : Through[x] = log[from + x]
         /\ Whole(Through)
<1>1. /\ Handled \in Nat /\ from \in Nat /\ offset \in Nat /\ Len(log) \in Nat
      /\ from <= Handled /\ Handled <= offset /\ offset <= Len(log) /\ log \in Seq(Part)
  <2>1. Len(pending) \in Nat /\ Len(log) \in Nat
    BY LenProperties DEF IecInductive, Types
  <2> QED BY <2>1 DEF IecInductive, Types, Cut, Handled
<1>2. /\ Through \in Seq(Part) /\ Len(Through) = Handled - from
      /\ \A x \in 1 .. Handled - from : Through[x] = log[from + x]
  BY <1>1, Segment DEF Through
<1>3. Whole(Through)
  <2>1. CASE Handled = from
    <3>1. Len(Through) = 0
      BY <1>1, <1>2, <2>1
    <3>2. Through = <<>>
      <4> DEFINE v == Through
      <4>1. v \in Seq(Part) /\ Len(v) = 0
        BY <1>2, <3>1
      <4> HIDE DEF v
      <4>2. v = <<>>
        BY <4>1, EmptySeq
      <4> QED BY <4>2 DEF v
    <3> QED BY <3>2 DEF Whole
  <2>2. CASE Handled # from
    <3>1. Handled - from \in 1 .. Handled - from /\ from + (Handled - from) = Handled
      BY <1>1, <2>2
    <3>2. Through[Len(Through)] = log[Handled]
      BY <1>2, <3>1
    <3> QED BY <2>2, <3>2 DEF IecInductive, Cut, Whole
  <2> QED BY <2>1, <2>2
<1> QED BY <1>1, <1>2, <1>3

\* No data, no lines.
LEMMA NoLines == Events(<<>>) = <<>> /\ CountMalformed(<<>>) = 0
<1>1. Ends(<<>>) = {}
  BY EmptySeq DEF Ends
<1>2. EventEnds(<<>>) = {} /\ MalformedEnds(<<>>) = {}
  BY <1>1 DEF EventEnds, MalformedEnds
<1>3. Cardinality({}) = 0
  BY FS_EmptySet
<1>4. Len(Events(<<>>)) = 0 /\ Events(<<>>) \in Seq(Record)
  <2> DEFINE v == Events(<<>>)
  <2>1. <<>> \in Seq(Part)
    BY EmptySeq
  <2>2. v \in Seq(Record) /\ Len(v) = Cardinality(EventEnds(<<>>))
    BY <2>1, EventsType
  <2> QED BY <1>2, <1>3, <2>2
<1>5. Events(<<>>) = <<>>
  <2> DEFINE v == Events(<<>>)
  <2> HIDE DEF v
  <2>1. v = <<>>
    BY <1>4, EmptySeq DEF v
  <2> QED BY <2>1 DEF v
<1> QED BY <1>2, <1>3, <1>5 DEF CountMalformed

\* The records of the events that a session has returned.
LEMMA GivenType ==
  ASSUME delivered \in Seq([record : Record, sequence : Nat])
  PROVE  /\ Given \in Seq(Record) /\ Len(Given) = Len(delivered)
         /\ DOMAIN delivered = 1 .. Len(delivered)
         /\ \A i \in 1 .. Len(delivered) : Given[i] = delivered[i].record
<1>1. Len(delivered) \in Nat /\ DOMAIN delivered = 1 .. Len(delivered)
  BY LenProperties
<1>2. \A i \in 1 .. Len(delivered) : delivered[i].record \in Record
  <2> TAKE i \in 1 .. Len(delivered)
  <2>1. delivered[i] \in [record : Record, sequence : Nat]
    BY ElementOfSeq
  <2> QED BY <2>1
<1> DEFINE l == Len(delivered)
<1>3. Given = [i \in 1 .. l |-> delivered[i].record]
  BY <1>1 DEF Given
<1> HIDE DEF l
<1>4. l \in Nat /\ \A i \in 1 .. l : delivered[i].record \in Record
  BY <1>1, <1>2 DEF l
<1>5. Given \in Seq(Record) /\ Len(Given) = l /\ \A i \in 1 .. l : Given[i] = delivered[i].record
  BY <1>3, <1>4
<1> QED BY <1>1, <1>5 DEF l

\* Nothing is returned, numbered or counted before a capture starts.
LEMMA InitInductive == Init => IecInductive
<1> SUFFICES ASSUME Init PROVE IecInductive
  OBVIOUS
<1>1. /\ <<>> \in Seq(Part) /\ <<>> \in Seq([record : Record, sequence : Nat]) /\ Len(<<>>) = 0
  BY EmptySeq
<1>2. Types
  <2>1. log \in Seq(Part) /\ pending \in Seq(Part)
    BY <1>1 DEF Init
  <2>2. delivered \in Seq([record : Record, sequence : Nat])
    BY <1>1 DEF Init
  <2>3. Len(log) = 0
    BY <1>1 DEF Init
  <2>4. capture \in 0 .. MaxCapture
    BY IecConstants DEF Init
  <2>5. offset \in 0 .. Len(log) /\ from \in Nat /\ sequence \in Nat
    BY <2>3 DEF Init
  <2>6. active \in BOOLEAN
    BY DEF Init
  <2> QED BY <2>1, <2>2, <2>4, <2>5, <2>6 DEF Types
<1>3. Recorded
  BY <1>1 DEF Init, Recorded
<1>4. Handled = 0
  <2>1. Len(pending) = 0 /\ offset = 0
    BY <1>1 DEF Init
  <2> QED BY <2>1 DEF Handled
<1>5. Through = <<>> /\ SubSeq(log, Handled + 1, offset) = <<>>
  <2>1. SubSeq(log, 1, 0) = <<>>
    BY SubSeqEmpty
  <2>2. from + 1 = 1 /\ Handled + 1 = 1 /\ Handled = 0 /\ offset = 0
    BY <1>4 DEF Init
  <2> QED BY <2>1, <2>2 DEF Through
<1>6. Cut
  BY <1>4, <1>5 DEF Init, Cut
<1>7. Events(<<>>) = <<>> /\ CountMalformed(<<>>) = 0
  BY NoLines
<1>8. Given = <<>>
  <2>1. Given \in Seq(Record) /\ Len(Given) = 0
    BY <1>1, <1>2, GivenType DEF Init, Types
  <2> DEFINE v == Given
  <2> HIDE DEF v
  <2>2. v = <<>>
    BY <2>1, EmptySeq DEF v
  <2> QED BY <2>2 DEF v
<1>9. Returned
  BY <1>1, <1>5, <1>7, <1>8 DEF Init, Returned
<1> QED BY <1>2, <1>3, <1>6, <1>9 DEF IecInductive

\* VICE appends a part of a record: what the session has gone through is as it was.
LEMMA WriteKeeps ==
  ASSUME IecInductive, Write
  PROVE  /\ IecInductive'
         /\ \E x \in Part : log' = Append(log, x)
<1> DEFINE end == IF log = <<>> THEN [record |-> 0, part |-> "newline"] ELSE Last(log)
<1>1. /\ log \in Seq(Part) /\ Len(log) \in Nat /\ Recorded
      /\ UNCHANGED <<capture, active, offset, sequence, malformed, pending, from, delivered>>
  BY LenProperties DEF IecInductive, Types, Write, sessionVars
<1>2. \A i \in 1 .. Len(log) : log[i] \in Part
  BY <1>1, ElementOfSeq
<1>3. /\ end.record \in 0 .. MaxRecord
      /\ \A i \in 1 .. Len(log) : /\ log[i].record <= end.record
                                  /\ log[i].part = "newline" /\ i # Len(log) => log[i].record < end.record
      /\ Len(log) # 0 => log[Len(log)].part = end.part
  <2>1. CASE log = <<>>
    <3>1. Len(log) = 0 /\ end = [record |-> 0, part |-> "newline"]
      BY <2>1, EmptySeq
    <3> QED BY <3>1, IecConstants
  <2>2. CASE log # <<>>
    <3>1. Len(log) \in 1 .. Len(log) /\ end = log[Len(log)]
      BY <1>1, <2>2, EmptySeq DEF Last
    <3>2. end \in Part
      BY <1>2, <3>1
    <3> HIDE DEF end
    <3>3. \A i \in 1 .. Len(log) : i # Len(log) =>
            /\ log[i].record <= end.record
            /\ log[i].part = "newline" => log[i].record < end.record
      BY <1>1, <3>1 DEF Recorded
    <3>4. end.record \in 1 .. MaxRecord
      BY <3>2 DEF Part, Record
    <3> QED BY <3>1, <3>3, <3>4, IecConstants
  <2> QED BY <2>1, <2>2
<1>4. PICK x \in Part : /\ log' = Append(log, x) /\ end.record <= x.record
                        /\ end.part = "newline" => end.record < x.record
  <2>1. CASE end.part = "newline" /\ end.record < MaxRecord
             /\ log' = Append(log, [record |-> end.record + 1, part |-> "head"])
    <3> DEFINE x == [record |-> end.record + 1, part |-> "head"]
    <3>1. x \in Part /\ x.record = end.record + 1
      BY <1>3, <2>1, IecConstants DEF Part, Record
    <3> QED BY <1>3, <2>1, <3>1
  <2>2. ASSUME NEW p \in {"tail", "junk", "newline"}, end.part \in {"head", "tail", "junk"},
               log' = Append(log, [record |-> end.record, part |-> p])
        PROVE  \E x \in Part : /\ log' = Append(log, x) /\ end.record <= x.record
                               /\ end.part = "newline" => end.record < x.record
    <3> DEFINE x == [record |-> end.record, part |-> p]
    <3>1. log # <<>>
      BY <2>2
    <3>2. end \in Part
      BY <1>1, <1>2, <3>1, EmptySeq DEF Last
    <3>3. x \in Part /\ x.record = end.record
      BY <3>2 DEF Part
    <3>4. end.record <= x.record
      BY <1>3, <3>3
    <3> QED BY <2>2, <3>3, <3>4
  <2> HIDE DEF end
  <2>3. \/ end.part = "newline" /\ end.record < MaxRecord
           /\ log' = Append(log, [record |-> end.record + 1, part |-> "head"])
        \/ end.part = "head" /\ \E p \in {"tail", "junk"} :
             log' = Append(log, [record |-> end.record, part |-> p])
        \/ end.part \in {"tail", "junk"} /\ log' = Append(log, [record |-> end.record, part |-> "newline"])
    BY DEF Write, end
  <2> QED BY <2>1, <2>2, <2>3
<1> HIDE DEF end
<1>5. /\ log' \in Seq(Part) /\ Len(log') = Len(log) + 1
      /\ \A i \in 1 .. Len(log) : log'[i] = log[i]
      /\ log'[Len(log) + 1] = x
  BY <1>1, <1>4, AppendProperties
<1>6. Recorded'
  <2>1. ASSUME NEW i \in 1 .. Len(log'), NEW j \in 1 .. Len(log'), i < j
        PROVE  /\ log'[i].record <= log'[j].record
               /\ log'[i].part = "newline" => log'[i].record < log'[j].record
    <3>1. i \in 1 .. Len(log) /\ log'[i] = log[i]
      BY <1>1, <1>5, <2>1
    <3>2. CASE j \in 1 .. Len(log)
      BY <1>1, <1>5, <2>1, <3>1, <3>2 DEF Recorded
    <3>3. CASE j = Len(log) + 1
      <4>1. /\ log[i].record \in Int /\ end.record \in Int /\ x.record \in Int
            /\ log'[j].record = x.record
        BY <1>2, <1>3, <1>5, <3>1, <3>3 DEF Part, Record
      <4>2. log[i].record <= x.record
        BY <1>3, <1>4, <3>1, <4>1
      <4>3. ASSUME log[i].part = "newline" PROVE log[i].record < x.record
        BY <1>3, <1>4, <3>1, <4>1, <4>3
      <4> QED BY <3>1, <4>1, <4>2, <4>3
    <3> QED BY <1>1, <1>5, <3>2, <3>3
  <2> QED BY <2>1 DEF Recorded
<1>7. /\ Handled \in Nat /\ from \in Nat /\ offset \in Nat
      /\ from <= Handled /\ Handled <= offset /\ offset <= Len(log)
  BY ThroughWhole
<1>8. Types'
  <2>1. offset' \in 0 .. Len(log')
    BY <1>1, <1>5, <1>7
  <2> QED BY <1>1, <1>5, <2>1 DEF IecInductive, Types
<1>9. ASSUME NEW i \in Nat, NEW j \in Nat, i <= j, j <= Len(log)
      PROVE  SubSeq(log', i + 1, j) = SubSeq(log, i + 1, j)
  BY <1>1, <1>4, <1>9, AppendSegment
<1>10. Handled' = Handled /\ Through' = Through
  <2>1. Handled' = Handled
    BY <1>1 DEF Handled
  <2>2. SubSeq(log', from + 1, Handled) = SubSeq(log, from + 1, Handled)
    BY <1>1, <1>7, <1>9
  <2> QED BY <1>1, <2>1, <2>2 DEF Through
<1>11. Cut'
  <2>1. SubSeq(log', Handled + 1, offset) = SubSeq(log, Handled + 1, offset)
    BY <1>1, <1>7, <1>9
  <2>2. Handled = from \/ log'[Handled].part = "newline"
    <3>1. Handled # from => Handled \in 1 .. Len(log)
      BY <1>1, <1>7
    <3> QED BY <1>5, <3>1 DEF IecInductive, Cut
  <2> QED BY <1>1, <1>7, <1>10, <2>1, <2>2 DEF IecInductive, Cut
<1>12. Returned'
  BY <1>1, <1>10 DEF IecInductive, Returned, Given
<1> QED BY <1>4, <1>6, <1>8, <1>11, <1>12 DEF IecInductive

\* A capture starts at the end of the file.
LEMMA StartKeeps ==
  ASSUME IecInductive, Start
  PROVE  IecInductive' /\ Given' = <<>>
<1>1. /\ log \in Seq(Part) /\ log' = log /\ Len(log) \in Nat /\ <<>> \in Seq(Part)
      /\ <<>> \in Seq([record : Record, sequence : Nat]) /\ Recorded
  BY LenProperties, EmptySeq DEF IecInductive, Types, Start
<1>2. /\ pending' = <<>> /\ delivered' = <<>> /\ sequence' = 0 /\ malformed' = 0
      /\ offset' = Len(log) /\ from' = Len(log) /\ capture' = capture + 1 /\ active' = TRUE
      /\ capture < MaxCapture /\ capture \in 0 .. MaxCapture
  BY DEF Start, IecInductive, Types
<1>3. Len(pending') = 0 /\ Len(delivered') = 0
  BY <1>2, EmptySeq
<1>4. Types'
  <2>1. capture' \in 0 .. MaxCapture
    BY <1>2, IecConstants
  <2>2. offset' \in 0 .. Len(log') /\ from' \in Nat /\ sequence' \in Nat /\ active' \in BOOLEAN
    BY <1>1, <1>2
  <2> QED BY <1>1, <1>2, <2>1, <2>2 DEF Types
<1>5. Recorded'
  BY <1>1 DEF Recorded
<1>6. Handled' = Len(log)
  BY <1>1, <1>2, <1>3 DEF Handled
<1>7. SubSeq(log, Len(log) + 1, Len(log)) = <<>>
  <2> DEFINE l == Len(log)
  <2>1. l \in Int /\ l + 1 \in Int /\ l < l + 1
    BY <1>1
  <2> HIDE DEF l
  <2>2. SubSeq(log, l + 1, l) = <<>>
    BY <2>1, SubSeqEmpty
  <2> QED BY <2>2 DEF l
<1>8. Through' = <<>>
  BY <1>1, <1>2, <1>6, <1>7 DEF Through
<1>9. Cut'
  BY <1>1, <1>2, <1>6, <1>7 DEF Cut
<1>10. Given' = <<>>
  <2>1. delivered' \in Seq([record : Record, sequence : Nat])
    BY <1>4 DEF Types
  <2>2. DOMAIN delivered' = 1 .. 0
    BY <1>3, <2>1, LenProperties
  <2>3. Given' = [i \in 1 .. 0 |-> delivered'[i].record]
    BY <2>2 DEF Given
  <2>4. Given' \in Seq(Record) /\ Len(Given') = 0
    BY <2>3
  <2> DEFINE v == Given'
  <2> HIDE DEF v
  <2>5. v = <<>>
    BY <2>4, EmptySeq DEF v
  <2> QED BY <2>5 DEF v
<1>11. Returned'
  <2>1. DOMAIN delivered' = {}
    <3>1. DOMAIN delivered' = 1 .. Len(delivered')
      BY <1>4, LenProperties DEF Types
    <3>2. 1 .. 0 = {}
      OBVIOUS
    <3> QED BY <1>3, <3>1, <3>2
  <2> QED BY <1>2, <1>3, <1>8, <1>10, <2>1, NoLines DEF Returned
<1> QED BY <1>4, <1>5, <1>9, <1>10, <1>11 DEF IecInductive

\* A drain goes through more of the file, returns what is new in it and leaves the rest.
LEMMA DrainKeeps ==
  ASSUME IecInductive, NEW limit \in Limit, Drain(limit),
         log' = log, from' = from, capture' = capture, active' \in BOOLEAN
  PROVE  /\ IecInductive'
         /\ \E events \in Seq(Record) : Given' = Given \o events
         /\ limit # 0 => offset' = Len(log)
<1>1. /\ Handled \in Nat /\ from \in Nat /\ offset \in Nat /\ Len(log) \in Nat
      /\ from <= Handled /\ Handled <= offset /\ offset <= Len(log)
      /\ Through \in Seq(Part) /\ Whole(Through)
  BY ThroughWhole
<1>2. /\ log \in Seq(Part) /\ pending \in Seq(Part)
      /\ delivered \in Seq([record : Record, sequence : Nat])
      /\ capture \in 0 .. MaxCapture /\ sequence \in Nat /\ limit \in Nat
  BY IecConstants DEF IecInductive, Types
<1>3. CASE limit < 1
  <2>1. UNCHANGED <<offset, pending, malformed, sequence, delivered, log, from, capture>>
    BY <1>3 DEF Drain
  <2>2. Types' /\ Recorded'
    BY <2>1 DEF IecInductive, Types, Recorded
  <2>3. Cut'
    BY <2>1 DEF IecInductive, Cut, Handled
  <2>4. Returned'
    BY <2>1 DEF IecInductive, Returned, Through, Handled, Given
  <2>5. Given' = Given \o <<>>
    <3>1. Given \in Seq(Record) /\ Given' = Given
      BY <1>2, <2>1, GivenType DEF Given
    <3> QED BY <3>1, ConcatEmptySeq
  <2>6. limit = 0
    BY <1>2, <1>3
  <2> QED BY <2>2, <2>3, <2>4, <2>5, <2>6, EmptySeq DEF IecInductive
<1>4. CASE ~(limit < 1)
  <2> DEFINE data == pending \o SubSeq(log, offset + 1, Len(log))
             n == Consumed(data, limit)
             taken == SubSeq(data, 1, n)
             events == Events(taken)
             entries == [i \in DOMAIN events |-> [record |-> events[i], sequence |-> sequence + i]]
             b == Handled + n
  <2>1. /\ offset' = Len(log) /\ pending' = Rest(data, n)
        /\ malformed' = malformed + CountMalformed(taken)
        /\ sequence' = sequence + Len(events)
        /\ delivered' = delivered \o entries
    BY <1>4 DEF Drain
  <2>2. data = SubSeq(log, Handled + 1, Len(log))
    <3>1. pending = SubSeq(log, Handled + 1, offset)
      BY DEF IecInductive, Cut
    <3> DEFINE k == Len(log)
    <3>2. k \in Nat /\ k <= Len(log) /\ offset <= k
      BY <1>1
    <3> HIDE DEF k
    <3>3. SubSeq(log, Handled + 1, offset) \o SubSeq(log, offset + 1, k) = SubSeq(log, Handled + 1, k)
      BY <1>1, <1>2, <3>2, SegmentsMeet
    <3> QED BY <3>1, <3>3 DEF k
  <2> HIDE DEF data
  <2>3. /\ data \in Seq(Part) /\ Len(data) = Len(log) - Handled
        /\ \A x \in 1 .. Len(log) - Handled : data[x] = log[Handled + x]
    <3> DEFINE k == Len(log)
    <3>1. k \in Nat /\ k <= Len(log) /\ Handled <= k
      BY <1>1
    <3> HIDE DEF k
    <3>2. /\ SubSeq(log, Handled + 1, k) \in Seq(Part)
          /\ Len(SubSeq(log, Handled + 1, k)) = k - Handled
          /\ \A x \in 1 .. k - Handled : SubSeq(log, Handled + 1, k)[x] = log[Handled + x]
      BY <1>1, <1>2, <3>1, Segment
    <3> QED BY <2>2, <3>2 DEF k
  <2>4. n \in 0 .. Len(data) /\ (n # 0 => data[n].part = "newline")
    <3>1. limit >= 1
      BY <1>2, <1>4
    <3> QED BY <1>2, <2>3, <3>1, ConsumedCut
  <2> HIDE DEF n
  <2>5. /\ b \in Nat /\ Handled <= b /\ b <= Len(log) /\ n \in Nat /\ from <= b
        /\ n <= Len(log) - Handled /\ Handled <= Len(log)
    BY <1>1, <2>3, <2>4
  <2>6. taken = SubSeq(log, Handled + 1, b)
    <3> DEFINE k == Len(log)
    <3>1. k \in Nat /\ k <= Len(log) /\ Handled <= k /\ n <= k - Handled /\ 0 <= n /\ 0 \in Nat
      BY <1>1, <2>5
    <3> HIDE DEF k
    <3>2. SubSeq(SubSeq(log, Handled + 1, k), 0 + 1, n) = SubSeq(log, Handled + 0 + 1, Handled + n)
      BY <1>1, <1>2, <2>5, <3>1, SegmentWithin
    <3>3. 0 + 1 = 1 /\ Handled + 0 + 1 = Handled + 1
      BY <1>1
    <3> QED BY <2>2, <3>2, <3>3 DEF k
  <2>7. pending' = SubSeq(log, b + 1, Len(log))
    <3> DEFINE k == Len(log)
               v == k - Handled
    <3>1. k \in Nat /\ k <= Len(log) /\ Handled <= k /\ v \in Nat /\ n <= v /\ v <= k - Handled
      BY <1>1, <2>5
    <3>2. Handled + v = k /\ Len(data) = v
      BY <1>1, <2>3
    <3> HIDE DEF k, v
    <3>3. SubSeq(SubSeq(log, Handled + 1, k), n + 1, v) = SubSeq(log, Handled + n + 1, Handled + v)
      BY <1>1, <1>2, <2>5, <3>1, SegmentWithin
    <3> QED BY <2>1, <2>2, <3>2, <3>3 DEF k, Rest
  <2>8. pending' \in Seq(Part) /\ Len(pending') = Len(log) - b
    <3> DEFINE k == Len(log)
    <3>1. k \in Nat /\ k <= Len(log) /\ b <= k
      BY <1>1, <2>5
    <3> HIDE DEF k, b
    <3>2. SubSeq(log, b + 1, k) \in Seq(Part) /\ Len(SubSeq(log, b + 1, k)) = k - b
      BY <1>2, <2>5, <3>1, Segment
    <3> QED BY <2>7, <3>2 DEF k
  <2>9. Handled' = b
    BY <1>1, <2>1, <2>5, <2>8 DEF Handled
  <2>10. taken \in Seq(Part)
    <3> HIDE DEF b
    <3>1. SubSeq(log, Handled + 1, b) \in Seq(Part)
      BY <1>1, <1>2, <2>5, Segment
    <3> QED BY <2>6, <3>1
  <2>11. Through' = Through \o taken
    <3>1. Through' = SubSeq(log, from + 1, b)
      BY <2>9 DEF Through
    <3> HIDE DEF b
    <3>2. SubSeq(log, from + 1, Handled) \o SubSeq(log, Handled + 1, b) = SubSeq(log, from + 1, b)
      BY <1>1, <1>2, <2>5, SegmentsMeet
    <3> QED BY <2>6, <3>1, <3>2 DEF Through
  <2> HIDE DEF b, taken
  <2>12. Events(Through') = Events(Through) \o events
         /\ CountMalformed(Through') = CountMalformed(Through) + CountMalformed(taken)
    BY <1>1, <2>10, <2>11, EventsConcat
  <2>13. events \in Seq(Record) /\ Len(events) \in Nat /\ DOMAIN events = 1 .. Len(events)
    <3>1. events \in Seq(Record)
      BY <2>10, EventsType
    <3> HIDE DEF events
    <3> QED BY <3>1, LenProperties
  <2> HIDE DEF events
  <2>14. /\ Given \in Seq(Record) /\ Len(Given) = Len(delivered)
         /\ DOMAIN delivered = 1 .. Len(delivered) /\ Len(delivered) \in Nat
         /\ \A i \in 1 .. Len(delivered) : Given[i] = delivered[i].record
    BY <1>2, GivenType, LenProperties
  <2>15. /\ sequence = Len(delivered) /\ Given = Events(Through)
         /\ malformed = CountMalformed(Through)
         /\ \A i \in DOMAIN delivered : delivered[i].sequence = i
    BY DEF IecInductive, Returned
  <2> DEFINE l == Len(events)
             c == Len(delivered)
  <2>16. /\ entries \in Seq([record : Record, sequence : Nat]) /\ Len(entries) = l
         /\ \A i \in 1 .. l : entries[i] = [record |-> events[i], sequence |-> sequence + i]
    <3>1. \A i \in 1 .. l : [record |-> events[i], sequence |-> sequence + i] \in [record : Record, sequence : Nat]
      <4> TAKE i \in 1 .. l
      <4>1. events[i] \in Record
        BY <2>13, ElementOfSeq
      <4>2. sequence + i \in Nat
        BY <1>2, <2>13
      <4> QED BY <4>1, <4>2
    <3>2. l \in Nat /\ entries = [i \in 1 .. l |-> [record |-> events[i], sequence |-> sequence + i]]
      BY <2>13
    <3> HIDE DEF l, entries
    <3> QED BY <3>1, <3>2
  <2> HIDE DEF entries
  <2>17. /\ delivered' \in Seq([record : Record, sequence : Nat]) /\ Len(delivered') = c + l
         /\ \A i \in 1 .. c + l : delivered'[i] = IF i <= c THEN delivered[i] ELSE entries[i - c]
    <3> DEFINE E == [record : Record, sequence : Nat]
               d == delivered
    <3>1. d \in Seq(E) /\ entries \in Seq(E) /\ Len(d) = c /\ Len(entries) = l
      BY <1>2, <2>16
    <3> HIDE DEF E, d, c, l
    <3>2. /\ d \o entries \in Seq(E) /\ Len(d \o entries) = c + l
          /\ \A i \in 1 .. c + l : (d \o entries)[i] = IF i <= c THEN d[i] ELSE entries[i - c]
      BY <3>1, ConcatProperties
    <3> QED BY <2>1, <3>2 DEF E, d
  <2>18. /\ Given' \in Seq(Record) /\ Len(Given') = c + l /\ DOMAIN delivered' = 1 .. c + l
         /\ \A i \in 1 .. c + l : Given'[i] = delivered'[i].record
    <3> DEFINE k == c + l
    <3>1. k \in Nat /\ DOMAIN delivered' = 1 .. k
      BY <2>13, <2>14, <2>17, LenProperties
    <3>2. \A i \in 1 .. k : delivered'[i].record \in Record
      <4> TAKE i \in 1 .. k
      <4>1. delivered'[i] \in [record : Record, sequence : Nat]
        BY <2>17, ElementOfSeq
      <4> QED BY <4>1
    <3>3. Given' = [i \in 1 .. k |-> delivered'[i].record]
      BY <3>1 DEF Given
    <3> HIDE DEF k
    <3>4. Given' \in Seq(Record) /\ Len(Given') = k /\ \A i \in 1 .. k : Given'[i] = delivered'[i].record
      BY <3>1, <3>2, <3>3
    <3> QED BY <3>1, <3>4 DEF k
  <2>19. Given' = Given \o events
    <3>1. /\ Given \o events \in Seq(Record) /\ Len(Given \o events) = c + l
          /\ \A i \in 1 .. c + l : (Given \o events)[i] = IF i <= c THEN Given[i] ELSE events[i - c]
      <4> DEFINE g == Given
      <4>1. g \in Seq(Record) /\ events \in Seq(Record) /\ Len(g) = c /\ Len(events) = l
        BY <2>13, <2>14
      <4> HIDE DEF g, c, l
      <4>2. /\ g \o events \in Seq(Record) /\ Len(g \o events) = c + l
            /\ \A i \in 1 .. c + l : (g \o events)[i] = IF i <= c THEN g[i] ELSE events[i - c]
        BY <4>1, ConcatProperties
      <4> QED BY <4>2 DEF g
    <3>2. ASSUME NEW i \in 1 .. c + l PROVE Given'[i] = (Given \o events)[i]
      <4>1. CASE i <= c
        <5>1. i \in 1 .. c
          BY <2>14, <4>1
        <5> QED BY <2>14, <2>17, <2>18, <3>1, <4>1, <5>1
      <4>2. CASE ~(i <= c)
        <5>1. i - c \in 1 .. l
          BY <2>13, <2>14, <4>2
        <5>2. delivered'[i] = entries[i - c] /\ Given'[i] = delivered'[i].record
          BY <2>17, <2>18, <4>2
        <5>3. entries[i - c] = [record |-> events[i - c], sequence |-> sequence + (i - c)]
          BY <2>16, <5>1
        <5>4. (Given \o events)[i] = events[i - c]
          BY <3>1, <4>2
        <5> QED BY <5>2, <5>3, <5>4
      <4> QED BY <4>1, <4>2
    <3> DEFINE u == Given'
               w == Given \o events
    <3>3. u \in Seq(Record) /\ w \in Seq(Record) /\ Len(u) = Len(w) /\ \A i \in 1 .. Len(u) : u[i] = w[i]
      BY <2>18, <3>1, <3>2
    <3> HIDE DEF u, w
    <3>4. u = w
      BY <3>3, SeqEqual
    <3> QED BY <3>4 DEF u, w
  <2>20. \A i \in DOMAIN delivered' : delivered'[i].sequence = i
    <3> SUFFICES ASSUME NEW i \in 1 .. c + l PROVE delivered'[i].sequence = i
      BY <2>18
    <3>1. CASE i <= c
      <4>1. i \in 1 .. c
        BY <2>14, <3>1
      <4> QED BY <2>14, <2>15, <2>17, <3>1, <4>1
    <3>2. CASE ~(i <= c)
      <4>1. i - c \in 1 .. l /\ c + (i - c) = i
        BY <2>13, <2>14, <3>2
      <4>2. delivered'[i] = [record |-> events[i - c], sequence |-> sequence + (i - c)]
        BY <2>16, <2>17, <3>2, <4>1
      <4> QED BY <2>15, <4>1, <4>2
    <3> QED BY <3>1, <3>2
  <2>21. Returned'
    <3>1. Given' = Events(Through')
      BY <2>12, <2>15, <2>19
    <3>2. sequence' = Len(delivered')
      BY <2>1, <2>15, <2>17
    <3>3. malformed' = CountMalformed(Through')
      BY <2>1, <2>12, <2>15
    <3> QED BY <2>20, <3>1, <3>2, <3>3 DEF Returned
  <2>22. Cut'
    <3>1. b = from \/ log[b].part = "newline"
      <4>1. CASE n = 0
        <5>1. b = Handled
          BY <1>1, <4>1 DEF b
        <5> QED BY <5>1 DEF IecInductive, Cut
      <4>2. CASE n # 0
        <5>1. n \in 1 .. Len(log) - Handled
          BY <1>1, <2>3, <2>4, <4>2
        <5>2. data[n] = log[b]
          BY <2>3, <5>1 DEF b
        <5> QED BY <2>4, <4>2, <5>2
      <4> QED BY <4>1, <4>2
    <3> QED BY <2>1, <2>5, <2>7, <2>9, <3>1 DEF Cut
  <2>23. Types'
    <3>1. offset' \in 0 .. Len(log') /\ sequence' \in Nat
      BY <1>1, <1>2, <2>1, <2>13
    <3> QED BY <1>1, <1>2, <2>8, <2>17, <3>1 DEF Types
  <2>24. Recorded'
    BY DEF IecInductive, Recorded
  <2> QED BY <2>1, <2>13, <2>19, <2>21, <2>22, <2>23, <2>24 DEF IecInductive
<1> QED BY <1>3, <1>4

LEMMA NextInductive == IecInductive /\ [Next]_vars => IecInductive'
<1> SUFFICES ASSUME IecInductive, [Next]_vars PROVE IecInductive'
  OBVIOUS
<1>1. CASE Write
  BY <1>1, WriteKeeps
<1>2. CASE Start
  BY <1>2, StartKeeps
<1>3. ASSUME NEW limit \in Limit, Read(limit) PROVE IecInductive'
  <2>1. /\ Drain(limit) /\ log' = log /\ from' = from /\ capture' = capture
        /\ active' \in BOOLEAN
    BY <1>3 DEF Read, IecInductive, Types
  <2> QED BY <2>1, DrainKeeps
<1>4. ASSUME NEW limit \in Limit, Stop(limit) PROVE IecInductive'
  <2>1. /\ Drain(limit) /\ log' = log /\ from' = from /\ capture' = capture
        /\ active' \in BOOLEAN
    BY <1>4 DEF Stop
  <2> QED BY <2>1, DrainKeeps
<1>5. CASE UNCHANGED vars
  <2>1. UNCHANGED <<log, capture, active, offset, sequence, malformed, pending, from, delivered>>
    BY <1>5 DEF vars, sessionVars
  <2>2. Types' /\ Recorded'
    BY <2>1 DEF IecInductive, Types, Recorded
  <2>3. Cut'
    BY <2>1 DEF IecInductive, Cut, Handled
  <2>4. Returned'
    BY <2>1 DEF IecInductive, Returned, Through, Handled, Given
  <2> QED BY <2>2, <2>3, <2>4 DEF IecInductive
<1> QED BY <1>1, <1>2, <1>3, <1>4, <1>5 DEF Next

\* Whatever VICE writes and whatever the clients ask for, the invariant holds.
THEOREM IecIsInductive == Spec => []IecInductive
<1>1. Init => IecInductive
  BY InitInductive
<1>2. IecInductive /\ [Next]_vars => IecInductive'
  BY NextInductive
<1> QED BY <1>1, <1>2, PTL DEF Spec

-----------------------------------------------------------------------------
(* What follows *)

\* No session returns, and none counts, more than there are records.
LEMMA OncePerRecord ==
  ASSUME IecInductive, NEW D \in SUBSET Ends(Through)
  PROVE  Cardinality(D) \in 0 .. MaxRecord
<1>1. /\ Handled \in Nat /\ from \in Nat /\ offset \in Nat /\ Len(log) \in Nat
      /\ from <= Handled /\ Handled <= offset /\ offset <= Len(log)
      /\ Through \in Seq(Part) /\ Len(Through) = Handled - from
      /\ \A x \in 1 .. Handled - from : Through[x] = log[from + x]
  BY ThroughWhole
<1> DEFINE f == [e \in D |-> Through[e].record]
<1>2. \A e \in D : e \in 1 .. Handled - from /\ Through[e].part = "newline" /\ Through[e].record \in Record
  <2> TAKE e \in D
  <2>1. e \in 1 .. Len(Through) /\ Through[e].part = "newline"
    BY DEF Ends
  <2>2. Through[e] \in Part
    BY <1>1, <2>1, ElementOfSeq
  <2> QED BY <1>1, <2>1, <2>2 DEF Part
<1>3. f \in [D -> Record]
  BY <1>2
<1>4. ASSUME NEW d \in D, NEW e \in D, d < e PROVE f[d] < f[e]
  <2>1. /\ from + d \in 1 .. Len(log) /\ from + e \in 1 .. Len(log) /\ from + d < from + e
        /\ Through[d] = log[from + d] /\ Through[e] = log[from + e]
    BY <1>1, <1>2, <1>4
  <2>2. log[from + d].part = "newline"
    BY <1>2, <2>1
  <2>3. log[from + d].record < log[from + e].record
    BY <2>1, <2>2 DEF IecInductive, Recorded
  <2> QED BY <2>1, <2>3
<1>5. ASSUME NEW d \in D, NEW e \in D, f[d] = f[e] PROVE d = e
  <2>1. d \in Int /\ e \in Int /\ f[d] \in Int
    BY <1>1, <1>2, <1>3 DEF Record
  <2>2. CASE d < e
    BY <1>4, <1>5, <2>1, <2>2
  <2>3. CASE e < d
    BY <1>4, <1>5, <2>1, <2>3
  <2> QED BY <2>1, <2>2, <2>3
<1>6. f \in Injection(D, Record)
  BY <1>3, <1>5 DEF Injection, IsInjective
<1>7. IsFiniteSet(Record) /\ Cardinality(Record) = MaxRecord
  BY FS_Interval, IecConstants DEF Record
<1>8. IsFiniteSet(D) /\ Cardinality(D) <= MaxRecord
  BY <1>6, <1>7, FS_Injection
<1>9. Cardinality(D) \in Nat
  BY <1>8, FS_CardinalityType
<1> QED BY <1>8, <1>9, IecConstants

LEMMA InductiveTypeOK == ASSUME IecInductive PROVE TypeOK
<1>1. /\ Handled \in Nat /\ from \in Nat /\ offset \in Nat /\ Len(log) \in Nat
      /\ from <= Handled /\ Handled <= offset /\ offset <= Len(log)
      /\ Through \in Seq(Part) /\ Whole(Through)
  BY ThroughWhole
<1>2. /\ EventEnds(Through) \in SUBSET Ends(Through) /\ MalformedEnds(Through) \in SUBSET Ends(Through)
  BY <1>1, EndsInside
<1>3. Cardinality(EventEnds(Through)) \in 0 .. MaxRecord /\ CountMalformed(Through) \in 0 .. MaxRecord
  BY <1>2, OncePerRecord DEF CountMalformed
<1>4. Len(Given) = Len(delivered) /\ DOMAIN delivered = 1 .. Len(delivered)
  BY GivenType DEF IecInductive, Types
<1>5. Len(Events(Through)) = Cardinality(EventEnds(Through))
  BY <1>1, EventsType
<1>6. Len(delivered) \in 0 .. MaxRecord /\ sequence \in 0 .. MaxRecord /\ malformed \in 0 .. MaxRecord
  BY <1>3, <1>4, <1>5 DEF IecInductive, Returned
<1>7. delivered \in Seq([record : Record, sequence : Record])
  <2> DEFINE E == [record : Record, sequence : Record]
             F == [record : Record, sequence : Nat]
             l == Len(delivered)
  <2>1. ASSUME NEW i \in 1 .. l PROVE delivered[i] \in E
    <3>1. delivered \in Seq(F)
      BY DEF IecInductive, Types
    <3>2. delivered[i] \in F
      <4> HIDE DEF F
      <4> QED BY <3>1, ElementOfSeq
    <3>3. delivered[i].sequence = i
      BY <1>4 DEF IecInductive, Returned
    <3>4. i \in Record
      <4> DEFINE m == MaxRecord
      <4>1. i \in 1 .. l /\ l \in 0 .. m /\ m \in Nat
        BY <1>6, IecConstants
      <4> HIDE DEF l, m
      <4>2. i \in 1 .. m
        BY <4>1
      <4> QED BY <4>2 DEF Record, m
    <3> QED BY <3>2, <3>3, <3>4
  <2>2. delivered = [i \in 1 .. l |-> delivered[i]] /\ l \in Nat
    <3>1. delivered \in Seq(F)
      BY DEF IecInductive, Types
    <3>2. delivered \in [1 .. l -> F] /\ l \in Nat
      <4> HIDE DEF F
      <4> QED BY <3>1, LenProperties
    <3> HIDE DEF F, l
    <3> QED BY <3>2
  <2> HIDE DEF E, l
  <2>3. [i \in 1 .. l |-> delivered[i]] \in Seq(E)
    BY <2>1, <2>2
  <2>4. delivered \in Seq(E)
    BY <2>2, <2>3
  <2> QED BY <2>4 DEF E
<1>8. offset \in 0 .. Len(log) /\ from \in 0 .. offset
  BY <1>1
<1> QED BY <1>6, <1>7, <1>8 DEF IecInductive, Types, TypeOK

\* The variables have their types; no session returns or counts more than VICE records.
THEOREM IecTypes == Spec => []TypeOK
<1>1. IecInductive => TypeOK
  BY InductiveTypeOK
<1> QED BY <1>1, IecIsInductive, PTL

\* What a session has gone through it has returned once and in order, what it could not
\* parse it has counted, and everything else is pending: however the limits fell.
THEOREM IecAccounted == Spec => []Accounted
<1>1. IecInductive => Accounted
  <2> SUFFICES ASSUME IecInductive PROVE Accounted
    OBVIOUS
  <2>1. pending = SubSeq(log, offset - Len(pending) + 1, offset)
    BY DEF IecInductive, Cut, Handled
  <2> QED BY <2>1 DEF Accounted, IecInductive, Returned, Through, Handled
<1> QED BY <1>1, IecIsInductive, PTL

\* A session with nothing pending and nothing malformed has returned every event of what
\* it has read: at all times, so whatever says so; after a call that reads, of the file.
THEOREM IecCompleteMeansAll == Spec => CompleteMeansAll
<1> DEFINE Complete == malformed = 0 /\ pending = <<>>
           All(limit) == Read(limit) \/ Stop(limit) => (Given = Events(Appended))'
<1>1. IecInductive => (Complete => Given = Events(ReadSoFar))
  <2> SUFFICES ASSUME IecInductive, pending = <<>> PROVE Given = Events(ReadSoFar)
    OBVIOUS
  <2>1. Len(pending) = 0 /\ offset \in Nat
    BY ThroughWhole, EmptySeq
  <2>2. Handled = offset
    BY <2>1 DEF Handled
  <2>3. Through = ReadSoFar
    BY <2>2 DEF Through, ReadSoFar
  <2> QED BY <2>3 DEF IecInductive, Returned
<1>2. ASSUME IecInductive, [Next]_vars, NEW limit \in Limit \ {0}, Read(limit) \/ Stop(limit),
             malformed' = 0, pending' = <<>>
      PROVE  (Given = Events(Appended))'
  <2>1. /\ Drain(limit) /\ log' = log /\ from' = from /\ capture' = capture
        /\ active' \in BOOLEAN
    BY <1>2 DEF Read, Stop, IecInductive, Types
  <2>2. IecInductive' /\ offset' = Len(log)
    BY <1>2, <2>1, DrainKeeps
  <2>3. (Given = Events(ReadSoFar))'
    <3>1. (IecInductive => (Complete => Given = Events(ReadSoFar)))'
      BY <1>1, PTL
    <3> QED BY <1>2, <2>2, <3>1
  <2>4. ReadSoFar' = Appended'
    BY <2>1, <2>2 DEF ReadSoFar, Appended
  <2> QED BY <2>3, <2>4
<1>3. IecInductive /\ [Next]_vars =>
        [malformed' = 0 /\ pending' = <<>> =>
           /\ (Given = Events(ReadSoFar))'
           /\ \A limit \in Limit \ {0} : All(limit)]_vars
  <2>1. IecInductive /\ [Next]_vars =>
         (malformed' = 0 /\ pending' = <<>> => (Given = Events(ReadSoFar))')
    <3>1. IecInductive /\ [Next]_vars => IecInductive'
      BY NextInductive
    <3>2. (IecInductive => (Complete => Given = Events(ReadSoFar)))'
      BY <1>1, PTL
    <3> QED BY <3>1, <3>2
  <2>2. IecInductive /\ [Next]_vars =>
         (malformed' = 0 /\ pending' = <<>> => \A limit \in Limit \ {0} : All(limit))
    BY <1>2
  <2> QED BY <2>1, <2>2
<1> QED BY <1>3, IecIsInductive, PTL DEF Spec, CompleteMeansAll

-----------------------------------------------------------------------------
(* IecCapture implements CaptureWindow *)

\* The events of the window are those returned and those of what is still to be read.
Ahead ==
  /\ Given \in Seq(Record) /\ Events(Appended) \in Seq(Record)
  /\ Len(Given) <= Len(Events(Appended))
  /\ Given = SubSeq(Events(Appended), 1, Len(Given))

\* A sequence that another begins with is a prefix of it.
LEMMA PrefixIs ==
  ASSUME NEW s \in Seq(Record), NEW t \in Seq(Record), Len(s) <= Len(t),
         \A i \in 1 .. Len(s) : t[i] = s[i]
  PROVE  SubSeq(t, 1, Len(s)) = s
<1> DEFINE l == Len(s)
           r == SubSeq(t, 1, l)
<1>1. l \in Nat /\ Len(t) \in Nat
  BY LenProperties
<1>2. \A i \in 1 .. l : t[i] \in Record
  BY ElementOfSeq
<1>3. r \in Seq(Record) /\ Len(r) = l /\ \A i \in 1 .. l : r[i] = t[i]
  <2>1. l \in Int /\ 1 \in Int
    BY <1>1
  <2> HIDE DEF l
  <2>2. /\ SubSeq(t, 1, l) \in Seq(Record) /\ Len(SubSeq(t, 1, l)) = IF 1 <= l THEN l - 1 + 1 ELSE 0
        /\ \A i \in 1 .. l - 1 + 1 : SubSeq(t, 1, l)[i] = t[1 + i - 1]
    BY <1>2, <2>1, SubSeqProperties
  <2> QED BY <1>1, <2>2
<1> HIDE DEF r
<1>4. r = s
  BY <1>3, SeqEqual DEF l
<1> QED BY <1>4 DEF r, l

LEMMA GivenAhead == IecInductive => Ahead
<1> SUFFICES ASSUME IecInductive PROVE Ahead
  OBVIOUS
<1>1. /\ Handled \in Nat /\ from \in Nat /\ offset \in Nat /\ Len(log) \in Nat
      /\ from <= Handled /\ Handled <= offset /\ offset <= Len(log)
      /\ Through \in Seq(Part) /\ Whole(Through) /\ log \in Seq(Part)
  BY ThroughWhole DEF IecInductive, Types
<1> DEFINE k == Len(log)
           tail == SubSeq(log, Handled + 1, k)
<1>2. k \in Nat /\ k <= Len(log) /\ Handled <= k /\ from <= k
  BY <1>1
<1> HIDE DEF k
<1>3. Appended = Through \o tail
  BY <1>1, <1>2, SegmentsMeet DEF Appended, Through, k
<1>4. tail \in Seq(Part)
  BY <1>1, <1>2, Segment
<1> HIDE DEF tail
<1>5. Events(Appended) = Given \o Events(tail)
  BY <1>1, <1>3, <1>4, EventsConcat DEF IecInductive, Returned
<1> DEFINE g == Given
           e == Events(tail)
<1>6. g \in Seq(Record) /\ e \in Seq(Record)
  BY <1>4, GivenType, EventsType DEF IecInductive, Types
<1> HIDE DEF g, e
<1>7. /\ g \o e \in Seq(Record) /\ Len(g) <= Len(g \o e)
      /\ Len(g) \in Nat /\ \A i \in 1 .. Len(g) : (g \o e)[i] = g[i]
  <2>1. Len(g) \in Nat /\ Len(e) \in Nat
    BY <1>6, LenProperties
  <2>2. /\ g \o e \in Seq(Record) /\ Len(g \o e) = Len(g) + Len(e)
        /\ \A i \in 1 .. Len(g) + Len(e) : (g \o e)[i] = IF i <= Len(g) THEN g[i] ELSE e[i - Len(g)]
    BY <1>6, ConcatProperties
  <2> QED BY <2>1, <2>2
<1>8. SubSeq(g \o e, 1, Len(g)) = g
  BY <1>6, <1>7, PrefixIs
<1> QED BY <1>5, <1>6, <1>7, <1>8 DEF Ahead, g, e

LEMMA InitWindow == Init => Window!Init
<1> SUFFICES ASSUME Init PROVE Window!Init
  OBVIOUS
<1>1. IecInductive
  BY InitInductive
<1>2. Appended = <<>>
  <2>1. Len(log) = 0 /\ from + 1 = 1
    BY EmptySeq DEF Init
  <2>2. SubSeq(log, 1, 0) = <<>>
    BY SubSeqEmpty
  <2> QED BY <2>1, <2>2 DEF Appended
<1>3. Events(Appended) = <<>>
  BY <1>2, NoLines
<1>4. Len(Given) = 0 /\ Given \in Seq(Record)
  <2>1. Len(delivered) = 0
    BY EmptySeq DEF Init
  <2> QED BY <1>1, <2>1, GivenType DEF IecInductive, Types
<1>5. Given = <<>>
  <2> DEFINE v == Given
  <2> HIDE DEF v
  <2>1. v = <<>>
    BY <1>4, EmptySeq DEF v
  <2> QED BY <2>1 DEF v
<1> QED BY <1>3, <1>5 DEF Window!Init

\* VICE ends a record, or the window is as it was.
LEMMA WriteWindow ==
  ASSUME IecInductive, Write
  PROVE  Window!Complete \/ UNCHANGED <<Events(Appended), Given>>
<1>1. PICK x \in Part : log' = Append(log, x)
  BY WriteKeeps
<1>2. log \in Seq(Part) /\ from' = from /\ delivered' = delivered
  BY DEF IecInductive, Types, Write, sessionVars
<1>3. from \in Nat /\ Len(log) \in Nat /\ from <= Len(log)
  BY ThroughWhole
<1> DEFINE k == Len(log)
           a == SubSeq(log, from + 1, k)
           b == SubSeq(log', from + 1, k + 1)
           c == Append(a, x)
<1>4. k \in Nat /\ k <= Len(log) /\ from <= k
  BY <1>3
<1>5. log' \in Seq(Part) /\ Len(log') = k + 1 /\ (\A i \in 1 .. k : log'[i] = log[i]) /\ log'[k + 1] = x
  BY <1>1, <1>2, AppendProperties
<1> HIDE DEF k
<1>6. a \in Seq(Part) /\ Len(a) = k - from /\ \A i \in 1 .. k - from : a[i] = log[from + i]
  BY <1>2, <1>3, <1>4, Segment
<1>7. /\ b \in Seq(Part) /\ Len(b) = (k + 1) - from
      /\ \A i \in 1 .. (k + 1) - from : b[i] = log'[from + i]
  <2> DEFINE l == k + 1
  <2>1. l \in Nat /\ from <= l /\ l <= Len(log')
    <3>1. l \in Nat /\ from <= l
      BY <1>3, <1>4
    <3>2. Len(log') = l
      BY <1>5
    <3> QED BY <3>1, <3>2
  <2> HIDE DEF l
  <2>2. /\ SubSeq(log', from + 1, l) \in Seq(Part) /\ Len(SubSeq(log', from + 1, l)) = l - from
        /\ \A i \in 1 .. l - from : SubSeq(log', from + 1, l)[i] = log'[from + i]
    BY <1>3, <1>5, <2>1, Segment
  <2> QED BY <2>2 DEF l
<1> HIDE DEF a, b
<1>8. /\ c \in Seq(Part) /\ Len(c) = Len(a) + 1
      /\ (\A i \in 1 .. Len(a) : c[i] = a[i]) /\ c[Len(a) + 1] = x
  BY <1>6, AppendProperties
<1> HIDE DEF c
<1>9. Len(b) = Len(c)
  BY <1>3, <1>4, <1>6, <1>7, <1>8
<1>10. ASSUME NEW i \in 1 .. Len(b) PROVE b[i] = c[i]
  <2>1. CASE i \in 1 .. k - from
    <3>1. from + i \in 1 .. k
      BY <1>3, <1>4, <2>1
    <3>2. c[i] = log[from + i]
      BY <1>6, <1>8, <2>1
    <3>3. b[i] = log'[from + i]
      BY <1>7
    <3> QED BY <1>5, <3>1, <3>2, <3>3
  <2>2. CASE i \notin 1 .. k - from
    <3>1. i = (k - from) + 1 /\ from + i = k + 1
      BY <1>3, <1>4, <1>7, <2>2
    <3>2. b[i] = log'[from + i]
      BY <1>7
    <3> QED BY <1>5, <1>6, <1>8, <3>1, <3>2
  <2> QED BY <2>1, <2>2
<1>11. b = c
  BY <1>7, <1>8, <1>9, <1>10, SeqEqual
<1>12. Appended = a /\ Appended' = Append(a, x)
  BY <1>2, <1>5, <1>11 DEF Appended, a, b, c, k
<1>13. \/ Events(Append(a, x)) = Events(a)
       \/ \E r \in Record : Events(Append(a, x)) = Append(Events(a), r)
  BY <1>6, EventsAppend
<1>14. Given' = Given
  BY <1>2 DEF Given
<1> QED BY <1>12, <1>13, <1>14 DEF Window!Complete

\* A session that drains gives its client what comes next of the window.
LEMMA DrainWindow ==
  ASSUME IecInductive, Ahead', NEW limit \in Limit, Drain(limit),
         log' = log, from' = from, capture' = capture, active' \in BOOLEAN
  PROVE  Window!Give
<1>1. PICK events \in Seq(Record) : Given' = Given \o events
  BY DrainKeeps
<1>2. Given \in Seq(Record)
  BY GivenType DEF IecInductive, Types
<1>3. Len(Given) \in Nat /\ Len(Given') \in Nat /\ Len(Given) <= Len(Given')
  <2> DEFINE g == Given
  <2>1. g \in Seq(Record)
    BY <1>2
  <2> HIDE DEF g
  <2>2. Len(g) \in Nat /\ Len(events) \in Nat /\ Len(g \o events) = Len(g) + Len(events)
    BY <2>1, LenProperties, ConcatProperties
  <2> QED BY <1>1, <2>2 DEF g
<1>4. Appended' = Appended
  BY DEF Appended
<1>5. Len(Given') <= Len(Events(Appended)) /\ Given' = SubSeq(Events(Appended), 1, Len(Given'))
      /\ Events(Appended) \in Seq(Record)
  BY <1>4 DEF Ahead
<1>6. Len(Events(Appended)) \in Nat
  BY <1>5, LenProperties
<1>7. Len(Given') \in Len(Given) .. Len(Events(Appended))
  BY <1>3, <1>5, <1>6
<1> QED BY <1>4, <1>5, <1>7 DEF Window!Give

\* Each step of the reader and of the recorder is one of the window, or none.
LEMMA NextWindow ==
  IecInductive /\ Ahead' /\ [Next]_vars => [Window!Next]_<<Events(Appended), Given>>
<1> SUFFICES ASSUME IecInductive, Ahead', [Next]_vars
             PROVE  [Window!Next]_<<Events(Appended), Given>>
  OBVIOUS
<1>1. CASE Write
  BY <1>1, WriteWindow DEF Window!Next
<1>2. CASE Start
  <2>1. Given' = <<>>
    BY <1>2, StartKeeps
  <2>2. Appended' = SubSeq(log, Len(log) + 1, Len(log)) /\ Len(log) \in Nat
    BY <1>2, ThroughWhole DEF Start, Appended
  <2> DEFINE k == Len(log)
  <2>3. k \in Int /\ k + 1 \in Int /\ k < k + 1
    BY <2>2
  <2> HIDE DEF k
  <2>4. SubSeq(log, k + 1, k) = <<>>
    BY <2>3, SubSeqEmpty
  <2>5. Events(Appended)' = <<>>
    BY <2>2, <2>4, NoLines DEF k
  <2> QED BY <2>1, <2>5 DEF Window!Open, Window!Next
<1>3. ASSUME NEW limit \in Limit, Read(limit) PROVE Window!Next
  <2>1. /\ Drain(limit) /\ log' = log /\ from' = from /\ capture' = capture
        /\ active' \in BOOLEAN
    BY <1>3 DEF Read, IecInductive, Types
  <2> QED BY <2>1, DrainWindow DEF Window!Next
<1>4. ASSUME NEW limit \in Limit, Stop(limit) PROVE Window!Next
  <2>1. /\ Drain(limit) /\ log' = log /\ from' = from /\ capture' = capture
        /\ active' \in BOOLEAN
    BY <1>4 DEF Stop
  <2> QED BY <2>1, DrainWindow DEF Window!Next
<1>5. CASE UNCHANGED vars
  BY <1>5 DEF vars, sessionVars, Appended, Given
<1> QED BY <1>1, <1>2, <1>3, <1>4, <1>5 DEF Next

\* The events of a capture are the records of its window, each once and in order.
THEOREM IecImplementsWindow == Spec => ImplementsWindow
<1>1. Init => Window!Init
  BY InitWindow
<1>2. IecInductive /\ Ahead' /\ [Next]_vars => [Window!Next]_<<Events(Appended), Given>>
  BY NextWindow
<1>3. IecInductive => Ahead
  BY GivenAhead
<1> QED BY <1>1, <1>2, <1>3, IecIsInductive, PTL DEF Spec, ImplementsWindow, Window!Spec
=============================================================================
