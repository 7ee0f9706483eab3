-------------------------- MODULE EventPagesProofs --------------------------
(***************************************************************************)
(* Proofs about EventPages for every set of events, every times they begin *)
(* at, every limit and every number of changes.  What a page shows depends *)
(* on where an event stands in the order of the result: when no other      *)
(* begins at the same time, that is one more than the number of those that *)
(* begin before it, whichever order the database picks for the others.     *)
(***************************************************************************)
EXTENDS EventPages, FunctionTheorems, FiniteSetTheorems, SequenceTheorems, TLAPS

-----------------------------------------------------------------------------
(* Arithmetic.                                                             *)

LEMMA DivBounds ==
  ASSUME NEW a \in Int, NEW b \in Nat \ {0}
  PROVE  a \div b \in Int /\ b * (a \div b) <= a /\ a < b * (a \div b) + b
  OBVIOUS

LEMMA ProductGrows ==
  ASSUME NEW l \in Nat, NEW a \in Int, NEW b \in Int, a <= b
  PROVE  a * l \in Int /\ a * l <= b * l
<1>1. PICK d \in Nat : b = a + d
  <2>1. b - a \in Nat /\ b = a + (b - a)
    OBVIOUS
  <2> QED
    BY <2>1
<1>2. b * l = a * l + d * l /\ d * l >= 0 /\ a * l \in Int
  BY <1>1
<1> QED
  BY <1>2

LEMMA NextOffset ==
  ASSUME NEW l \in Int, NEW p \in Int
  PROVE  /\ (p - 1) * l \in Int
         /\ p * l = (p - 1) * l + l
         /\ ((p + 1) - 1) * l = p * l
  OBVIOUS

(* The pages that a limit above 0 gives are enough for n events, and not
   more than n. *)
LEMMA EnoughPages ==
  ASSUME NEW n \in Nat, NEW l \in Int, l > 0
  PROVE  TotalPages(n, l) \in Nat /\ n <= TotalPages(n, l) * l /\ TotalPages(n, l) <= n
<1> DEFINE t == TotalPages(n, l)
<1>1. t = (n + l - 1) \div l
  BY DEF TotalPages
<1>2. t \in Int /\ l * t <= n + l - 1 /\ n + l - 1 < l * t + l
  BY <1>1, DivBounds
<1>3. t * l = l * t /\ l * t \in Int
  BY <1>2
<1>4. t >= 0
  <2> SUFFICES ASSUME t + 1 <= 0 PROVE FALSE
    BY <1>2
  <2>1. (t + 1) * l <= 0 * l /\ (t + 1) * l = t * l + l
    BY <1>2, ProductGrows
  <2> QED
    BY <1>2, <1>3, <2>1
<1>5. t <= n
  <2> SUFFICES ASSUME n + 1 <= t PROVE FALSE
    BY <1>2
  <2>1. (n + 1) * l <= t * l /\ (n + 1) * l = n * l + l
    BY <1>2, ProductGrows
  <2>2. n * 1 <= n * l
    <3>1. 1 * n <= l * n
      BY ProductGrows
    <3> QED
      BY <3>1
  <2> QED
    BY <1>2, <1>3, <2>1, <2>2
<1> HIDE DEF t
<1> QED
  BY <1>2, <1>3, <1>4, <1>5 DEF t

(* A limit below 0 gives a second page, at most, and that only to a list that
   was empty. *)
LEMMA NegativePages ==
  ASSUME NEW n \in Nat, NEW l \in Int, l < 0
  PROVE  TotalPages(n, l) \in Int /\ TotalPages(n, l) <= 2 /\ (n > 0 => TotalPages(n, l) <= 1)
<1>1. -l \in Nat \ {0}
  OBVIOUS
<1>2. CASE n + l - 1 >= 0
  <2> DEFINE d == (n + l - 1) \div (-l)
  <2>1. d \in Int /\ n + l - 1 < (-l) * d + (-l)
    <3>1. n + l - 1 \in Int
      OBVIOUS
    <3> HIDE <1>2
    <3> QED
      BY <1>1, <3>1, DivBounds
  <2>2. d >= 0
    <3> SUFFICES ASSUME d + 1 <= 0 PROVE FALSE
      BY <2>1
    <3>1. (d + 1) * (-l) <= 0 * (-l) /\ (d + 1) * (-l) = (-l) * d + (-l)
      BY <1>1, <2>1, ProductGrows
    <3> QED
      BY <1>2, <2>1, <3>1
  <2>3. TotalPages(n, l) = -d
    BY <1>2 DEF TotalPages
  <2> HIDE DEF d
  <2> QED
    BY <2>1, <2>2, <2>3
<1>3. CASE n + l - 1 < 0
  <2> DEFINE d == (-(n + l - 1)) \div (-l)
  <2>1. d \in Int /\ (-l) * d <= -(n + l - 1)
    BY <1>1, DivBounds
  <2>2. TotalPages(n, l) = d
    BY <1>3 DEF TotalPages
  <2>3. d <= 2
    <3> SUFFICES ASSUME 3 <= d PROVE FALSE
      BY <2>1
    <3>1. 3 * (-l) <= d * (-l) /\ d * (-l) = (-l) * d
      BY <1>1, <2>1, ProductGrows
    <3> QED
      BY <1>1, <2>1, <3>1
  <2>4. n > 0 => d <= 1
    <3> SUFFICES ASSUME n > 0, 2 <= d PROVE FALSE
      BY <2>1
    <3>1. 2 * (-l) <= d * (-l) /\ d * (-l) = (-l) * d
      BY <1>1, <2>1, ProductGrows
    <3> QED
      BY <1>1, <2>1, <3>1
  <2> QED
    BY <2>1, <2>2, <2>3, <2>4
<1> QED
  BY <1>2, <1>3

-----------------------------------------------------------------------------
(* Orders of a result.                                                     *)

LEMMA FiniteEvents ==
  ASSUME NEW S \in SUBSET Events
  PROVE  IsFiniteSet(S) /\ Cardinality(S) \in Nat /\ Cardinality(S) <= Cardinality(Events)
<1>1. IsFiniteSet(S) /\ Cardinality(S) <= Cardinality(Events)
  BY ConstantsAssumption, FS_Subset
<1> QED
  BY <1>1, FS_CardinalityType

(* A result has every row once. *)
LEMMA OrderProperties ==
  ASSUME NEW S \in SUBSET Events, NEW o \in Orders(S)
  PROVE  /\ o \in Seq(S) /\ o \in Seq(Events) /\ Len(o) = Cardinality(S)
         /\ DOMAIN o = 1 .. Len(o)
         /\ \A i, j \in 1 .. Len(o) :
              i < j => o[i] # o[j] /\ StartTime[o[i]] <= StartTime[o[j]]
         /\ \A g \in S : \E i \in 1 .. Len(o) : o[i] = g
<1> DEFINE n == Cardinality(S)
<1>1. n \in Nat /\ IsFiniteSet(S)
  BY FiniteEvents
<1> HIDE DEF n
<1>2. /\ o \in [1 .. n -> S]
      /\ \A i, j \in 1 .. n : i < j => o[i] # o[j] /\ StartTime[o[i]] <= StartTime[o[j]]
  BY DEF Orders, n
<1>3. o \in Seq(S) /\ Len(o) = n
  BY <1>1, <1>2
<1>4. o \in Injection(1 .. n, S)
  <2>1. ASSUME NEW i \in 1 .. n, NEW j \in 1 .. n, o[i] = o[j] PROVE i = j
    BY <1>1, <1>2, <2>1
  <2> QED
    BY <1>2, <2>1 DEF Injection, IsInjective
<1>5. Cardinality(1 .. n) = n
  BY <1>1, FS_Interval
<1>6. o \in Surjection(1 .. n, S)
  BY <1>1, <1>4, <1>5, FS_Injection DEF n
<1>7. \A g \in S : \E i \in 1 .. n : o[i] = g
  BY <1>6 DEF Surjection
<1>8. o \in Seq(Events)
  BY <1>3, SeqMonotonic
<1> QED
  BY <1>2, <1>3, <1>7, <1>8 DEF n

(* The events of S that begin before e, and how many they are. *)
Before(S, e) == {g \in S : StartTime[g] < StartTime[e]}
Rank(S, e) == Cardinality(Before(S, e))

LEMMA RankProperties ==
  ASSUME NEW S \in SUBSET Events, NEW e \in S
  PROVE  Rank(S, e) \in Nat /\ Rank(S, e) < Cardinality(S)
<1>1. IsFiniteSet(Before(S, e)) /\ Before(S, e) \cup {e} \in SUBSET Events /\ S \subseteq Events
  BY FiniteEvents DEF Before
<1>2. e \notin Before(S, e)
  BY ConstantsAssumption DEF Before
<1>3. Cardinality(Before(S, e) \cup {e}) = Rank(S, e) + 1
  BY <1>1, <1>2, FS_AddElement DEF Rank
<1>4. Before(S, e) \cup {e} \in SUBSET S
  BY DEF Before
<1>5. Cardinality(Before(S, e) \cup {e}) <= Cardinality(S)
  BY <1>4, FiniteEvents, FS_Subset
<1>6. Rank(S, e) \in Nat /\ Cardinality(S) \in Nat
  BY <1>1, FiniteEvents, FS_CardinalityType DEF Rank
<1> QED
  BY <1>3, <1>5, <1>6

(* An event with a time of its own stands just behind those before it. *)
LEMMA Position ==
  ASSUME NEW S \in SUBSET Events, NEW e \in S, ~Ties(e), NEW o \in Orders(S)
  PROVE  /\ Rank(S, e) + 1 \in 1 .. Len(o)
         /\ \A i \in 1 .. Len(o) : o[i] = e <=> i = Rank(S, e) + 1
<1> DEFINE n == Len(o)
<1>1. /\ n \in Nat /\ o \in [1 .. n -> S]
      /\ \A i, j \in 1 .. n : i < j => o[i] # o[j] /\ StartTime[o[i]] <= StartTime[o[j]]
      /\ \A g \in S : \E i \in 1 .. n : o[i] = g
  BY OrderProperties, LenProperties
<1> HIDE DEF n
<1>2. \A g \in S : StartTime[g] \in Nat /\ (g # e => StartTime[g] # StartTime[e])
  BY ConstantsAssumption DEF Ties
<1>3. ASSUME NEW i \in 1 .. n, o[i] = e PROVE i = Rank(S, e) + 1
  <2>1. \A j \in 1 .. i - 1 : j \in 1 .. n /\ o[j] \in Before(S, e)
    <3> TAKE j \in 1 .. i - 1
    <3>1. j \in 1 .. n /\ j < i
      BY <1>1
    <3>2. o[j] \in S /\ o[j] # e /\ StartTime[o[j]] <= StartTime[e]
      BY <1>1, <1>3, <3>1
    <3> QED
      BY <1>2, <3>1, <3>2 DEF Before
  <2>2. \A g \in Before(S, e) : \E j \in 1 .. i - 1 : o[j] = g
    <3> TAKE g \in Before(S, e)
    <3>1. PICK j \in 1 .. n : o[j] = g
      BY <1>1 DEF Before
    <3>2. StartTime[g] < StartTime[e] /\ g \in S
      BY DEF Before
    <3>3. ~(i <= j)
      BY <1>1, <1>2, <1>3, <3>1, <3>2
    <3> QED
      BY <1>1, <3>1, <3>3
  <2> DEFINE f == [j \in 1 .. i - 1 |-> o[j]]
  <2>3. f \in Bijection(1 .. i - 1, Before(S, e))
    <3>1. f \in [1 .. i - 1 -> Before(S, e)]
      BY <2>1
    <3>2. \A j, k \in 1 .. i - 1 : f[j] = f[k] => j = k
      <4> TAKE j, k \in 1 .. i - 1
      <4>1. j \in 1 .. n /\ k \in 1 .. n
        BY <2>1
      <4>2. o[j] = o[k] => ~(j < k) /\ ~(k < j)
        BY <1>1, <4>1
      <4> QED
        BY <4>2
    <3>3. \A g \in Before(S, e) : \E j \in 1 .. i - 1 : f[j] = g
      BY <2>2
    <3> HIDE DEF f
    <3> QED
      BY <3>1, <3>2, <3>3, Fun_IsBij
  <2>4. i - 1 \in Nat /\ ExistsBijection(1 .. i - 1, Before(S, e))
    BY <1>1, <2>3 DEF ExistsBijection
  <2>5. Cardinality(Before(S, e)) = i - 1
    BY <2>4, FS_CountingElements
  <2> QED
    BY <2>5 DEF Rank
<1>4. PICK i \in 1 .. n : o[i] = e
  BY <1>1
<1> QED
  BY <1>3, <1>4 DEF n

(* Without ties there is one order. *)
LEMMA OneOrder ==
  ASSUME NEW S \in SUBSET Events, \A e \in S : ~Ties(e),
         NEW o \in Orders(S), NEW u \in Orders(S)
  PROVE  o = u
<1>1. o \in Seq(S) /\ u \in Seq(S) /\ Len(o) = Len(u) /\ Len(o) \in Nat
  BY OrderProperties, LenProperties
<1>2. ASSUME NEW i \in 1 .. Len(o) PROVE o[i] = u[i]
  <2>1. o[i] \in S
    BY <1>1, ElementOfSeq
  <2>2. i = Rank(S, o[i]) + 1
    BY <2>1, Position
  <2> QED
    BY <1>1, <2>1, <2>2, Position
<1> QED
  BY <1>1, <1>2, SeqEqual

-----------------------------------------------------------------------------
(* What a page shows.                                                      *)

LEMMA SliceProperties ==
  ASSUME NEW o \in Seq(Events), NEW p \in Nat \ {0}, NEW l \in Int, l > 0
  PROVE  LET off == (p - 1) * l
             s == Slice(o, p, l)
         IN  /\ s \in Seq(Events)
             /\ \A i \in 1 .. Len(s) :
                  off + i \in 1 .. Len(o) /\ off + i <= p * l /\ s[i] = o[off + i]
             /\ \A k \in 1 .. Len(o) : off < k /\ k <= p * l => k - off \in 1 .. Len(s)
<1> DEFINE off == (p - 1) * l
           s == Slice(o, p, l)
           top == IF p * l < Len(o) THEN p * l ELSE Len(o)
<1>1. off \in Nat /\ p * l = off + l
  <2>1. 0 * l <= (p - 1) * l /\ 0 * l = 0
    BY ProductGrows
  <2> QED
    BY <2>1, NextOffset
<1>2. Len(o) \in Nat /\ \A i \in 1 .. Len(o) : o[i] \in Events
  BY LenProperties, ElementOfSeq
<1>3. s = SubSeq(o, off + 1, top)
  <2>1. ~(l < 0)
    OBVIOUS
  <2> QED
    BY <2>1, Zenon DEF Slice
<1> HIDE DEF off, s
<1>4. top \in Int /\ top <= Len(o) /\ top <= p * l
      /\ \A k \in 1 .. Len(o) : k <= p * l => k <= top
  BY <1>1, <1>2
<1> HIDE DEF top
<1>5. \A i \in off + 1 .. top : i \in 1 .. Len(o) /\ o[i] \in Events
  BY <1>1, <1>2, <1>4
<1>6. /\ s \in Seq(Events)
      /\ Len(s) = IF off + 1 <= top THEN top - (off + 1) + 1 ELSE 0
      /\ \A i \in 1 .. top - (off + 1) + 1 : s[i] = o[off + 1 + i - 1]
  BY <1>1, <1>3, <1>4, <1>5, SubSeqProperties
<1>7. ASSUME NEW i \in 1 .. Len(s)
      PROVE  off + i \in 1 .. Len(o) /\ off + i <= p * l /\ s[i] = o[off + i]
  <2>1. i \in 1 .. top - (off + 1) + 1 /\ off + 1 + i - 1 = off + i
    BY <1>1, <1>4, <1>6
  <2> QED
    BY <1>1, <1>2, <1>4, <1>6, <2>1
<1>8. ASSUME NEW k \in 1 .. Len(o), off < k, k <= p * l PROVE k - off \in 1 .. Len(s)
  BY <1>1, <1>4, <1>6, <1>8
<1> QED
  BY <1>6, <1>7, <1>8 DEF off, s

Places(s, e) == {i \in DOMAIN s : s[i] = e}

(* Page p with limit l of a result of S shows e. *)
Shows(S, e, p, l) == l > 0 => (p - 1) * l <= Rank(S, e) /\ Rank(S, e) < p * l

LEMMA PageShows ==
  ASSUME NEW S \in SUBSET Events, NEW e \in S, ~Ties(e), NEW o \in Orders(S),
         NEW p \in Nat \ {0}, NEW l \in Int, l # 0
  PROVE  /\ Slice(o, p, l) \in Seq(Events)
         /\ Shows(S, e, p, l) => \E i : Places(Slice(o, p, l), e) = {i}
         /\ ~Shows(S, e, p, l) => Places(Slice(o, p, l), e) = {}
<1> DEFINE s == Slice(o, p, l)
           r == Rank(S, e)
<1>1. o \in Seq(Events) /\ DOMAIN o = 1 .. Len(o) /\ Len(o) \in Nat
  BY OrderProperties, LenProperties
<1>2. r \in Nat /\ r + 1 \in 1 .. Len(o) /\ \A i \in 1 .. Len(o) : o[i] = e <=> i = r + 1
  BY Position, RankProperties
<1> HIDE DEF r
<1>3. CASE l < 0
  <2>1. s = o
    BY <1>3 DEF Slice
  <2>2. Places(o, e) = {r + 1}
    BY <1>1, <1>2 DEF Places
  <2>3. Shows(S, e, p, l)
    BY <1>3 DEF Shows
  <2> QED
    BY <1>1, <2>1, <2>2, <2>3
<1>4. CASE l > 0
  <2> DEFINE off == (p - 1) * l
  <2>1. /\ s \in Seq(Events)
        /\ \A i \in 1 .. Len(s) :
             off + i \in 1 .. Len(o) /\ off + i <= p * l /\ s[i] = o[off + i]
        /\ \A k \in 1 .. Len(o) : off < k /\ k <= p * l => k - off \in 1 .. Len(s)
    BY <1>1, <1>4, SliceProperties
  <2>2. off \in Int /\ p * l \in Int
    BY NextOffset
  <2>3. DOMAIN s = 1 .. Len(s) /\ Len(s) \in Nat
    BY <2>1, LenProperties
  <2>4. Shows(S, e, p, l) <=> off <= r /\ r < p * l
    BY <1>4 DEF Shows, r
  <2> HIDE DEF off, s
  <2>5. ASSUME NEW i \in 1 .. Len(s) PROVE s[i] = e <=> off + i = r + 1
    BY <1>2, <2>1
  <2>6. ASSUME Shows(S, e, p, l) PROVE Places(s, e) = {(r + 1) - off}
    <3>1. off < r + 1 /\ r + 1 <= p * l
      BY <1>2, <2>2, <2>4, <2>6
    <3>2. (r + 1) - off \in 1 .. Len(s)
      BY <1>2, <2>1, <3>1
    <3> QED
      BY <1>2, <2>2, <2>3, <2>5, <3>2 DEF Places
  <2>7. ASSUME Places(s, e) # {} PROVE Shows(S, e, p, l)
    <3>1. PICK i \in 1 .. Len(s) : off + i = r + 1
      BY <2>3, <2>5, <2>7 DEF Places
    <3>2. off + i <= p * l
      BY <2>1
    <3> QED
      BY <1>2, <2>2, <2>4, <3>1, <3>2
  <2> QED
    BY <2>1, <2>6, <2>7 DEF s
<1>5. l < 0 \/ l > 0
  OBVIOUS
<1> HIDE DEF s
<1> QED
  BY <1>3, <1>4, <1>5 DEF s

(* Of two pages together an event has as many places as of each. *)
LEMMA PlacesAddUp ==
  ASSUME NEW s \in Seq(Events), NEW t \in Seq(Events), NEW e
  PROVE  /\ IsFiniteSet(Places(s, e)) /\ Cardinality(Places(s, e)) \in Nat
         /\ Places(t, e) = {} => Places(s \o t, e) = Places(s, e)
         /\ (\E i : Places(t, e) = {i})
            => Cardinality(Places(s \o t, e)) = Cardinality(Places(s, e)) + 1
<1> DEFINE n == Len(s)
           m == Len(t)
<1>1. /\ n \in Nat /\ m \in Nat
      /\ DOMAIN s = 1 .. n /\ DOMAIN t = 1 .. m
      /\ s \o t \in Seq(Events) /\ Len(s \o t) = n + m
      /\ \A i \in 1 .. n + m : (s \o t)[i] = IF i <= n THEN s[i] ELSE t[i - n]
  BY LenProperties, ConcatProperties
<1>2. DOMAIN (s \o t) = 1 .. n + m
  BY <1>1, LenProperties
<1> HIDE DEF n, m
<1>3. IsFiniteSet(Places(s, e)) /\ Cardinality(Places(s, e)) \in Nat
  <2>1. Places(s, e) \in SUBSET (1 .. n) /\ IsFiniteSet(1 .. n)
    BY <1>1, FS_Interval DEF Places
  <2> QED
    BY <2>1, FS_Subset, FS_CardinalityType
<1>4. \A i : i \in Places(s \o t, e) <=> i \in Places(s, e) \/ (i \in n + 1 .. n + m /\ i - n \in Places(t, e))
  <2> TAKE i
  <2>1. CASE i \in 1 .. n
    BY <1>1, <1>2, <2>1 DEF Places
  <2>2. CASE i \in n + 1 .. n + m
    <3>1. i \in 1 .. n + m /\ ~(i <= n) /\ i - n \in 1 .. m
      BY <1>1, <2>2
    <3> QED
      BY <1>1, <1>2, <2>2, <3>1 DEF Places
  <2>3. CASE i \notin 1 .. n /\ i \notin n + 1 .. n + m
    <3>1. i \notin 1 .. n + m
      BY <1>1, <2>3
    <3> QED
      BY <1>1, <1>2, <2>3, <3>1 DEF Places
  <2> QED
    BY <2>1, <2>2, <2>3
<1>5. ASSUME Places(t, e) = {} PROVE Places(s \o t, e) = Places(s, e)
  BY <1>4, <1>5
<1>6. ASSUME NEW i, Places(t, e) = {i}
      PROVE  Cardinality(Places(s \o t, e)) = Cardinality(Places(s, e)) + 1
  <2>1. i \in 1 .. m
    BY <1>1, <1>6 DEF Places
  <2>2. \A j \in n + 1 .. n + m : j - n = i <=> j = n + i
    BY <1>1, <2>1
  <2>3. n + i \in n + 1 .. n + m /\ n + i \notin 1 .. n
    BY <1>1, <2>1
  <2>4. n + i \notin Places(s, e)
    BY <1>1, <2>3 DEF Places
  <2>5. Places(s \o t, e) = Places(s, e) \cup {n + i}
    BY <1>4, <1>6, <2>2, <2>3
  <2> QED
    BY <1>3, <2>4, <2>5, FS_AddElement
<1> QED
  BY <1>3, <1>5, <1>6


(* The first k rows, or all there are. *)
FirstRows(o, k) == SubSeq(o, 1, IF k < Len(o) THEN k ELSE Len(o))

(* Behind the rows of the pages before it, a page makes the rows of one page
   more. *)
LEMMA PagesInOrder ==
  ASSUME NEW o \in Seq(Events), NEW p \in Nat \ {0}, NEW l \in Int, l > 0
  PROVE  FirstRows(o, (p - 1) * l) \o Slice(o, p, l) = FirstRows(o, p * l)
<1> DEFINE off == (p - 1) * l
           top == IF p * l < Len(o) THEN p * l ELSE Len(o)
<1>1. off \in Nat /\ p * l = off + l
  <2>1. 0 * l <= (p - 1) * l /\ 0 * l = 0
    BY ProductGrows
  <2> QED
    BY <2>1, NextOffset
<1>2. Len(o) \in Nat /\ \A i \in 1 .. Len(o) : o[i] \in Events
  BY LenProperties, ElementOfSeq
<1>3. Slice(o, p, l) = SubSeq(o, off + 1, top)
  <2>1. ~(l < 0)
    OBVIOUS
  <2> QED
    BY <2>1, Zenon DEF Slice
<1>4. FirstRows(o, p * l) = SubSeq(o, 1, top)
  BY DEF FirstRows
<1>5. FirstRows(o, off) = SubSeq(o, 1, IF off < Len(o) THEN off ELSE Len(o))
  BY DEF FirstRows
<1> HIDE DEF off
<1>6. top \in 0 .. Len(o)
  BY <1>1, <1>2
<1>7. CASE off <= Len(o)
  <2>1. (IF off < Len(o) THEN off ELSE Len(o)) = off
    BY <1>1, <1>2, <1>7
  <2>2. top \in off .. Len(o) /\ off \in 0 .. Len(o)
    BY <1>1, <1>2, <1>7
  <2> HIDE DEF top
  <2>3. SubSeq(o, 1, off) \o SubSeq(o, off + 1, top) = SubSeq(o, 1, top)
    <3>1. 1 \in 1 .. Len(o) + 1 /\ off \in 1 - 1 .. Len(o)
      BY <1>2, <2>2
    <3> QED
      BY <2>2, <3>1, ConcatAdjacentSubSeq
  <2> QED
    BY <1>3, <1>4, <1>5, <2>1, <2>3 DEF off
<1>8. CASE off > Len(o)
  <2>1. top = Len(o) /\ (IF off < Len(o) THEN off ELSE Len(o)) = Len(o)
    BY <1>1, <1>2, <1>8
  <2> HIDE DEF top
  <2>2. SubSeq(o, off + 1, top) = <<>>
    BY <1>1, <1>2, <1>8, <2>1, SubSeqEmpty
  <2>3. SubSeq(o, 1, Len(o)) = o /\ o \o <<>> = o
    BY SubSeqFull, ConcatEmptySeq
  <2> QED
    BY <1>3, <1>4, <1>5, <2>1, <2>2, <2>3 DEF off
<1> QED
  BY <1>1, <1>2, <1>7, <1>8

-----------------------------------------------------------------------------
(* Types.                                                                  *)

LEMMA TypeStep ==
  ASSUME TypeOK, [Next]_vars
  PROVE  TypeOK'
<1> USE DEF TypeOK
<1>1. Cardinality(Events) \in Nat \ {0, 1} /\ MaxChanges \in Nat /\ Limits \subseteq Int
  BY ConstantsAssumption, FiniteEvents
<1>2. CASE Ask
  BY <1>2 DEF Ask
<1>3. CASE Count
  <2>1. Cardinality(listed) \in 0 .. Cardinality(Events)
    BY <1>1, FiniteEvents
  <2> QED
    BY <1>3, <2>1 DEF Count
<1>4. CASE Find
  <2>1. PICK o \in Orders(listed) : seen' = seen \o Slice(o, page, limit)
    BY <1>4 DEF Find
  <2>2. o \in Seq(Events) /\ page \in Nat \ {0} /\ limit \in Int
    BY <1>1, OrderProperties
  <2>3. Slice(o, page, limit) \in Seq(Events)
    <3>1. CASE limit > 0
      BY <2>2, <3>1, SliceProperties
    <3>2. CASE limit < 0
      BY <2>2, <3>2 DEF Slice
    <3> QED
      BY <1>4, <2>2, <3>1, <3>2 DEF Find
  <2>4. seen' \in Seq(Events)
    BY <2>1, <2>3, ConcatProperties
  <2>5. page < TotalPages(total, limit) => page + 1 \in 1 .. Cardinality(Events)
    <3>1. CASE limit > 0
      <4>1. TotalPages(total, limit) \in Nat /\ TotalPages(total, limit) <= total
        BY <1>1, <2>2, <3>1, EnoughPages
      <4> QED
        BY <1>1, <4>1
    <3>2. CASE limit < 0
      <4>1. TotalPages(total, limit) \in Int /\ TotalPages(total, limit) <= 2
        BY <1>1, <2>2, <3>2, NegativePages
      <4> QED
        BY <1>1, <4>1
    <3> QED
      BY <1>4, <2>2, <3>1, <3>2 DEF Find
  <2> QED
    BY <1>4, <2>4, <2>5 DEF Find
<1>5. CASE DivideByZero
  BY <1>5 DEF DivideByZero
<1>6. ASSUME NEW e \in Events, List(e) PROVE TypeOK'
  BY <1>1, <1>6 DEF List
<1>7. ASSUME NEW e \in Events, TakeOff(e) PROVE TypeOK'
  BY <1>1, <1>7 DEF TakeOff
<1>8. CASE UNCHANGED vars
  BY <1>8 DEF vars
<1> QED
  BY <1>2, <1>3, <1>4, <1>5, <1>6, <1>7, <1>8 DEF Next

LEMMA TypeInit == Init => TypeOK
  BY ConstantsAssumption, FiniteEvents DEF Init, TypeOK

(* The state stays of its types: the page that is asked for next is one of at
   most as many as there are events, whatever the limit and however the list
   changes in between. *)
THEOREM TypeCorrect == Spec => []TypeOK
  BY TypeInit, TypeStep, PTL DEF Spec

-----------------------------------------------------------------------------
(* The walk.  An event that stays and has a time of its own keeps its place
   as long as none before it comes or goes; the pages so far have shown it if
   and only if that place lies on them.                                    *)

Steady == listed \ (came \cup went)

(* It is shown at most once, and once only if it stands on a page before; one
   that goes can but move it to the front. *)
NotTwice ==
  \A e \in Steady : ~Ties(e) /\ ~Ahead(came, e) =>
    /\ Times(e) <= 1
    /\ Times(e) = 1 => limit > 0 /\ Rank(listed, e) < (page - 1) * limit

(* If it is not shown yet, it stands on this page or a later one. *)
NotSkipped ==
  \A e \in Steady : ~Ties(e) /\ ~Ahead(came \cup went, e) /\ Times(e) = 0 =>
    page = 1 \/ (limit > 0 /\ (page - 1) * limit <= Rank(listed, e))

(* The count that TotalPages is computed from has counted it. *)
Counted ==
  pc = "finding" => \A e \in Steady :
    total > 0 /\ (~Ahead(came \cup went, e) => Rank(listed, e) < total)

(* A limit below 0 has a second page only if the count was 0. *)
NothingLeft == limit < 0 /\ page > 1 => Steady = {}

(* With no change at all the pages so far are the first rows of the result. *)
SeenInOrder ==
  came = {} /\ went = {} /\ (\A e \in listed : ~Ties(e)) =>
    /\ limit > 0 => \A o \in Orders(listed) : seen = FirstRows(o, (page - 1) * limit)
    /\ limit <= 0 => seen = <<>>
    /\ pc = "finding" => total = Cardinality(listed)

PagesInv ==
  /\ TypeOK
  /\ pc = "idle" => page = 1 /\ seen = <<>> /\ came = {} /\ went = {}
  /\ pc \in {"counting", "finding"} =>
       NotTwice /\ NotSkipped /\ Counted /\ NothingLeft /\ SeenInOrder
  /\ WalkIsComplete /\ WrongOnlyBehindAShift

LEMMA InvInit == Init => PagesInv
<1> SUFFICES ASSUME Init PROVE PagesInv
  OBVIOUS
<1>1. TypeOK
  BY TypeInit
<1> QED
  BY <1>1 DEF Init, PagesInv, WalkIsComplete, WrongOnlyBehindAShift

LEMMA TimesPlaces == \A e : Times(e) = Cardinality(Places(seen, e))
  BY DEF Times, Places

(* Before anything is shown. *)
LEMMA FreshWalk ==
  ASSUME TypeOK, page = 1, seen = <<>>, pc # "finding"
  PROVE  NotTwice /\ NotSkipped /\ Counted /\ NothingLeft /\ SeenInOrder
<1>1. \A e : Times(e) = 0
  <2>1. \A e : {i \in DOMAIN seen : seen[i] = e} = {}
    <3>1. DOMAIN seen = {}
      BY EmptySeq, LenProperties
    <3> QED
      BY <3>1
  <2> QED
    BY <2>1, FS_EmptySet DEF Times
<1>2. limit \in Int
  BY ConstantsAssumption DEF TypeOK
<1>3. SeenInOrder
  <2>1. ASSUME NEW o \in Orders(listed) PROVE seen = FirstRows(o, (page - 1) * limit)
    <3>1. Len(o) \in Nat /\ (page - 1) * limit = 0
      <4>1. o \in Seq(Events)
        BY OrderProperties DEF TypeOK
      <4> QED
        BY <1>2, <4>1, LenProperties
    <3>2. (IF 0 < Len(o) THEN 0 ELSE Len(o)) = 0
      BY <3>1
    <3> QED
      BY <3>1, <3>2, SubSeqEmpty DEF FirstRows
  <2> QED
    BY <2>1 DEF SeenInOrder
<1> QED
  BY <1>1, <1>3 DEF NotTwice, NotSkipped, Counted, NothingLeft

LEMMA AskStep ==
  ASSUME PagesInv, Ask
  PROVE  PagesInv'
<1>1. TypeOK'
  BY TypeStep DEF PagesInv, Next
<1>2. page' = 1 /\ seen' = <<>> /\ pc' = "counting"
  BY DEF PagesInv, Ask
<1>3. NotTwice /\ NotSkipped /\ NothingLeft /\ SeenInOrder
  BY FreshWalk DEF PagesInv, Ask
<1>4. (NotTwice /\ NotSkipped /\ NothingLeft)'
  BY <1>3 DEF Ask, NotTwice, NotSkipped, NothingLeft, Steady, Times
<1>5. (Counted /\ SeenInOrder)'
  BY <1>2, <1>3 DEF Ask, Counted, SeenInOrder
<1> QED
  BY <1>1, <1>2, <1>4, <1>5 DEF PagesInv, WalkIsComplete, WrongOnlyBehindAShift

LEMMA CountStep ==
  ASSUME PagesInv, Count
  PROVE  PagesInv'
<1>1. TypeOK'
  BY TypeStep DEF PagesInv, Next
<1>2. /\ pc = "counting" /\ pc' = "finding" /\ total' = Cardinality(listed)
      /\ UNCHANGED <<listed, page, limit, seen, came, went>>
  BY DEF Count
<1>3. NotTwice /\ NotSkipped /\ NothingLeft /\ SeenInOrder
  BY <1>2 DEF PagesInv
<1>4. (NotTwice /\ NotSkipped /\ NothingLeft)'
  BY <1>2, <1>3 DEF NotTwice, NotSkipped, NothingLeft, Steady, Times
<1>5. SeenInOrder'
  BY <1>2, <1>3 DEF SeenInOrder
<1>6. Counted'
  <2>1. ASSUME NEW e \in Steady PROVE Cardinality(listed) > 0 /\ Rank(listed, e) < Cardinality(listed)
    <3>1. e \in listed /\ listed \in SUBSET Events
      BY DEF PagesInv, TypeOK, Steady
    <3>2. Cardinality(listed) \in Nat /\ Rank(listed, e) \in Nat /\ Rank(listed, e) < Cardinality(listed)
      BY <3>1, FiniteEvents, RankProperties
    <3> QED
      BY <3>2
  <2> QED
    BY <1>2, <2>1 DEF Counted, Steady
<1> QED
  BY <1>1, <1>2, <1>4, <1>5, <1>6 DEF PagesInv, WalkIsComplete, WrongOnlyBehindAShift

(* What comes or goes behind an event leaves its rank as it is; what goes can
   but lower it. *)
LEMMA RankStays ==
  ASSUME NEW S \in SUBSET Events, NEW e \in S, NEW g \in Events, g # e
  PROVE  /\ ~(StartTime[g] <= StartTime[e]) =>
              Rank(S \cup {g}, e) = Rank(S, e) /\ Rank(S \ {g}, e) = Rank(S, e)
         /\ Rank(S \ {g}, e) <= Rank(S, e)
<1>1. ASSUME ~(StartTime[g] <= StartTime[e])
      PROVE  Before(S \cup {g}, e) = Before(S, e) /\ Before(S \ {g}, e) = Before(S, e)
  <2>1. ~(StartTime[g] < StartTime[e])
    BY <1>1, ConstantsAssumption
  <2> QED
    BY <2>1 DEF Before
<1>2. Before(S \ {g}, e) \in SUBSET Before(S, e) /\ Before(S, e) \in SUBSET Events
  BY DEF Before
<1>3. Rank(S \ {g}, e) <= Rank(S, e)
  BY <1>2, FiniteEvents, FS_Subset DEF Rank
<1> QED
  BY <1>1, <1>3 DEF Rank

LEMMA ListStep ==
  ASSUME PagesInv, pc # "done", NEW g \in Events, List(g)
  PROVE  PagesInv'
<1>1. TypeOK'
  BY TypeStep DEF PagesInv, Next
<1>2. /\ g \notin listed /\ listed' = listed \cup {g}
      /\ came' = IF pc = "idle" THEN came ELSE came \cup {g}
      /\ UNCHANGED <<page, limit, total, pc, seen, went>>
  BY DEF List
<1>3. (WalkIsComplete /\ WrongOnlyBehindAShift)'
  BY <1>2 DEF WalkIsComplete, WrongOnlyBehindAShift
<1>4. CASE pc \notin {"counting", "finding"}
  BY <1>1, <1>2, <1>3, <1>4 DEF PagesInv
<1>5. CASE pc \in {"counting", "finding"}
  <2>1. /\ NotTwice /\ NotSkipped /\ Counted /\ NothingLeft
        /\ came' = came \cup {g} /\ listed \in SUBSET Events
    BY <1>2, <1>5 DEF PagesInv, TypeOK
  <2>2. Steady' \subseteq Steady /\ \A e \in Steady' : e \in listed /\ g # e
    BY <1>2, <2>1 DEF Steady
  <2>3. ASSUME NEW e \in Steady', ~Ahead(came', e)
        PROVE  ~Ahead(came, e) /\ Rank(listed', e) = Rank(listed, e)
    BY <1>2, <2>1, <2>2, <2>3, RankStays DEF Ahead
  <2>4. ASSUME NEW e \in Steady', ~Ahead((came \cup went)', e)
        PROVE  ~Ahead(came \cup went, e) /\ Rank(listed', e) = Rank(listed, e)
    BY <1>2, <2>1, <2>2, <2>4, RankStays DEF Ahead
  <2>5. \A e : Times(e)' = Times(e)
    BY <1>2 DEF Times
  <2>6. NotTwice'
    BY <1>2, <2>1, <2>2, <2>3, <2>5 DEF NotTwice
  <2>7. NotSkipped'
    BY <1>2, <2>1, <2>2, <2>4, <2>5 DEF NotSkipped
  <2>8. Counted'
    BY <1>2, <2>1, <2>2, <2>4 DEF Counted
  <2>9. NothingLeft' /\ SeenInOrder'
    BY <1>2, <2>1, <2>2 DEF NothingLeft, SeenInOrder
  <2> QED
    BY <1>1, <1>2, <1>3, <1>5, <2>6, <2>7, <2>8, <2>9 DEF PagesInv
<1> QED
  BY <1>4, <1>5

LEMMA TakeOffStep ==
  ASSUME PagesInv, pc # "done", NEW g \in Events, TakeOff(g)
  PROVE  PagesInv'
<1>1. TypeOK'
  BY TypeStep DEF PagesInv, Next
<1>2. /\ listed' = listed \ {g}
      /\ went' = IF pc = "idle" THEN went ELSE went \cup {g}
      /\ UNCHANGED <<page, limit, total, pc, seen, came>>
  BY DEF TakeOff
<1>3. (WalkIsComplete /\ WrongOnlyBehindAShift)'
  BY <1>2 DEF WalkIsComplete, WrongOnlyBehindAShift
<1>4. CASE pc \notin {"counting", "finding"}
  BY <1>1, <1>2, <1>3, <1>4 DEF PagesInv
<1>5. CASE pc \in {"counting", "finding"}
  <2>1. /\ NotTwice /\ NotSkipped /\ Counted /\ NothingLeft
        /\ went' = went \cup {g} /\ listed \in SUBSET Events
        /\ (page - 1) * limit \in Int
    BY <1>2, <1>5, ConstantsAssumption DEF PagesInv, TypeOK
  <2>2. Steady' \subseteq Steady /\ \A e \in Steady' : e \in listed /\ g # e
    BY <1>2, <2>1 DEF Steady
  <2>3. ASSUME NEW e \in Steady'
        PROVE  /\ Rank(listed, e) \in Nat /\ Rank(listed', e) \in Nat
               /\ Rank(listed', e) <= Rank(listed, e)
    <3>1. e \in listed' /\ listed' \in SUBSET Events
      BY <1>2, <2>1, <2>2
    <3> QED
      BY <1>2, <2>1, <2>2, <3>1, RankStays, RankProperties
  <2>4. ASSUME NEW e \in Steady', ~Ahead((came \cup went)', e)
        PROVE  ~Ahead(came \cup went, e) /\ Rank(listed', e) = Rank(listed, e)
    BY <1>2, <2>1, <2>2, <2>4, RankStays DEF Ahead
  <2>5. \A e : Times(e)' = Times(e)
    BY <1>2 DEF Times
  <2>6. NotTwice'
    <3> SUFFICES ASSUME NEW e \in Steady', ~Ties(e), ~Ahead(came, e)
                 PROVE  /\ Times(e) <= 1
                        /\ Times(e) = 1 => limit > 0 /\ Rank(listed', e) < (page - 1) * limit
      BY <1>2, <2>5 DEF NotTwice
    <3>1. /\ Times(e) <= 1
          /\ Times(e) = 1 => limit > 0 /\ Rank(listed, e) < (page - 1) * limit
      BY <2>1, <2>2 DEF NotTwice
    <3> QED
      BY <2>1, <2>3, <3>1
  <2>7. NotSkipped'
    BY <1>2, <2>1, <2>2, <2>4, <2>5 DEF NotSkipped
  <2>8. Counted'
    BY <1>2, <2>1, <2>2, <2>4 DEF Counted
  <2>9. NothingLeft' /\ SeenInOrder'
    BY <1>2, <2>1, <2>2 DEF NothingLeft, SeenInOrder
  <2> QED
    BY <1>1, <1>2, <1>3, <1>5, <2>6, <2>7, <2>8, <2>9 DEF PagesInv
<1> QED
  BY <1>4, <1>5

(* A page shows an event once more exactly if it stands on it. *)
LEMMA OnceMore ==
  ASSUME TypeOK, Find, NEW e \in Steady, ~Ties(e)
  PROVE  /\ Times(e) \in Nat /\ Rank(listed, e) \in Nat
         /\ Shows(listed, e, page, limit) => Times(e)' = Times(e) + 1
         /\ ~Shows(listed, e, page, limit) => Times(e)' = Times(e)
<1>1. PICK o \in Orders(listed) : seen' = seen \o Slice(o, page, limit)
  BY DEF Find
<1>2. /\ listed \in SUBSET Events /\ e \in listed /\ seen \in Seq(Events)
      /\ page \in Nat \ {0} /\ limit \in Int /\ limit # 0
  BY ConstantsAssumption, FiniteEvents DEF TypeOK, Steady, Find
<1>3. /\ Slice(o, page, limit) \in Seq(Events)
      /\ Shows(listed, e, page, limit) => \E i : Places(Slice(o, page, limit), e) = {i}
      /\ ~Shows(listed, e, page, limit) => Places(Slice(o, page, limit), e) = {}
  BY <1>2, PageShows
<1>4. Times(e) = Cardinality(Places(seen, e)) /\ Times(e)' = Cardinality(Places(seen', e))
  BY DEF Times, Places
<1> QED
  BY <1>1, <1>2, <1>3, <1>4, PlacesAddUp, RankProperties

LEMMA FindGoesOn ==
  ASSUME PagesInv, Find, page < TotalPages(total, limit)
  PROVE  PagesInv'
<1>1. TypeOK'
  BY TypeStep DEF PagesInv, Next
<1>2. /\ pc = "finding" /\ pc' = "counting" /\ page' = page + 1 /\ limit # 0
      /\ UNCHANGED <<listed, limit, total, came, went>>
  BY DEF Find
<1>3. /\ TypeOK /\ NotTwice /\ NotSkipped /\ Counted /\ NothingLeft /\ SeenInOrder
      /\ page \in Nat \ {0} /\ limit \in Int /\ total \in Nat /\ listed \in SUBSET Events
  BY <1>2, ConstantsAssumption, FiniteEvents DEF PagesInv, TypeOK
<1>4. /\ (page - 1) * limit \in Int /\ page * limit = (page - 1) * limit + limit
      /\ (page' - 1) * limit = page * limit /\ page' # 1
      /\ page = 1 => (page - 1) * limit = 0
  BY <1>2, <1>3, NextOffset
<1>5. limit < 0 => total = 0
  BY <1>3, NegativePages
<1>6. limit < 0 => Steady = {}
  BY <1>2, <1>3, <1>5 DEF Counted
<1>7. NotTwice'
  <2> SUFFICES ASSUME NEW e \in Steady, ~Ties(e), ~Ahead(came, e)
               PROVE  /\ Times(e)' <= 1
                      /\ Times(e)' = 1 => limit > 0 /\ Rank(listed, e) < page * limit
    BY <1>2, <1>4 DEF NotTwice, Steady
  <2>1. Times(e) <= 1 /\ (Times(e) = 1 => limit > 0 /\ Rank(listed, e) < (page - 1) * limit)
    BY <1>3 DEF NotTwice
  <2>2. limit > 0
    BY <1>2, <1>3, <1>6
  <2> QED
    BY <1>3, <1>4, <2>1, <2>2, OnceMore DEF Shows
<1>8. NotSkipped'
  <2> SUFFICES ASSUME NEW e \in Steady, ~Ties(e), ~Ahead(came \cup went, e), Times(e)' = 0
               PROVE  limit > 0 /\ page * limit <= Rank(listed, e)
    BY <1>2, <1>4 DEF NotSkipped, Steady
  <2>1. Times(e) = 0 => page = 1 \/ (limit > 0 /\ (page - 1) * limit <= Rank(listed, e))
    BY <1>3 DEF NotSkipped
  <2>2. limit > 0
    BY <1>2, <1>3, <1>6
  <2> QED
    BY <1>2, <1>3, <1>4, <2>1, <2>2, OnceMore DEF Shows
<1>9. Counted' /\ NothingLeft'
  BY <1>2, <1>6 DEF Counted, NothingLeft, Steady
<1>10. SeenInOrder'
  <2> SUFFICES ASSUME came = {}, went = {}, \A e \in listed : ~Ties(e)
               PROVE  /\ limit > 0 => \A o \in Orders(listed) : seen' = FirstRows(o, page * limit)
                      /\ limit <= 0 => seen' = <<>>
    BY <1>2, <1>4 DEF SeenInOrder
  <2>1. PICK o \in Orders(listed) : seen' = seen \o Slice(o, page, limit)
    BY DEF Find
  <2>2. o \in Seq(Events) /\ Len(o) = Cardinality(listed)
    BY <1>3, OrderProperties
  <2>3. ASSUME limit > 0, NEW u \in Orders(listed) PROVE seen' = FirstRows(u, page * limit)
    <3>1. u = o
      BY <1>3, OneOrder
    <3>2. seen = FirstRows(o, (page - 1) * limit)
      BY <1>3, <2>3 DEF SeenInOrder
    <3> QED
      BY <1>3, <2>1, <2>2, <2>3, <3>1, <3>2, PagesInOrder
  <2>4. ASSUME limit <= 0 PROVE seen' = <<>>
    <3>1. limit < 0 /\ seen = <<>> /\ Len(o) = 0
      BY <1>2, <1>3, <1>5, <2>2, <2>4 DEF SeenInOrder
    <3>2. o = <<>> /\ Slice(o, page, limit) = o
      BY <2>2, <3>1, EmptySeq DEF Slice
    <3> QED
      BY <2>1, <2>2, <3>1, <3>2, ConcatEmptySeq
  <2> QED
    BY <2>3, <2>4
<1> QED
  BY <1>1, <1>2, <1>7, <1>8, <1>9, <1>10 DEF PagesInv, WalkIsComplete, WrongOnlyBehindAShift

(* On the last page every row that was counted is shown. *)
LEMMA FindEnds ==
  ASSUME PagesInv, Find, ~(page < TotalPages(total, limit))
  PROVE  PagesInv'
<1>1. TypeOK'
  BY TypeStep DEF PagesInv, Next
<1>2. /\ pc = "finding" /\ pc' = "done" /\ limit # 0
      /\ UNCHANGED <<listed, page, limit, total, came, went>>
  BY DEF Find
<1>3. /\ TypeOK /\ NotTwice /\ NotSkipped /\ Counted /\ NothingLeft /\ SeenInOrder
      /\ page \in Nat \ {0} /\ limit \in Int /\ total \in Nat /\ listed \in SUBSET Events
  BY <1>2, ConstantsAssumption, FiniteEvents DEF PagesInv, TypeOK
<1>4. /\ (page - 1) * limit \in Int /\ page * limit = (page - 1) * limit + limit
      /\ page = 1 => (page - 1) * limit = 0
  BY <1>3, NextOffset
<1>5. limit > 0 => total <= page * limit
  <2> SUFFICES ASSUME limit > 0 PROVE total <= page * limit
    OBVIOUS
  <2>1. TotalPages(total, limit) \in Nat /\ total <= TotalPages(total, limit) * limit
    BY <1>3, EnoughPages
  <2>2. TotalPages(total, limit) * limit <= page * limit /\ TotalPages(total, limit) * limit \in Int
    BY <1>3, <2>1, ProductGrows
  <2> QED
    BY <1>3, <1>4, <2>1, <2>2
<1>6. WrongOnlyBehindAShift'
  <2> SUFFICES ASSUME NEW e \in Steady, ~Ties(e)
               PROVE  /\ Times(e)' = 0 => Ahead(came \cup went, e)
                      /\ Times(e)' > 1 => Ahead(came, e)
    BY <1>2 DEF WrongOnlyBehindAShift, Steady
  <2>1. /\ Times(e) \in Nat /\ Rank(listed, e) \in Nat
        /\ Shows(listed, e, page, limit) => Times(e)' = Times(e) + 1
        /\ ~Shows(listed, e, page, limit) => Times(e)' = Times(e)
    BY <1>3, OnceMore
  <2>2. ASSUME Times(e)' = 0, ~Ahead(came \cup went, e) PROVE FALSE
    <3>1. Times(e) = 0 /\ ~Shows(listed, e, page, limit)
      BY <2>1, <2>2
    <3>2. page = 1 \/ (limit > 0 /\ (page - 1) * limit <= Rank(listed, e))
      BY <1>3, <2>2, <3>1 DEF NotSkipped
    <3>3. Rank(listed, e) < total
      BY <1>2, <1>3, <2>2 DEF Counted
    <3> QED
      BY <1>3, <1>4, <1>5, <2>1, <3>1, <3>2, <3>3 DEF Shows
  <2>3. ASSUME Times(e)' > 1, ~Ahead(came, e) PROVE FALSE
    <3>1. Times(e) <= 1 /\ (Times(e) = 1 => limit > 0 /\ Rank(listed, e) < (page - 1) * limit)
      BY <1>3, <2>3 DEF NotTwice
    <3>2. Times(e) = 1 /\ Shows(listed, e, page, limit)
      BY <2>1, <2>3, <3>1
    <3> QED
      BY <1>3, <1>4, <2>1, <3>1, <3>2 DEF Shows
  <2> QED
    BY <2>2, <2>3
<1>7. WalkIsComplete'
  <2> SUFFICES ASSUME came = {}, went = {}, \A e \in listed : ~Ties(e)
               PROVE  seen' \in Orders(listed)
    BY <1>2 DEF WalkIsComplete
  <2>1. PICK o \in Orders(listed) : seen' = seen \o Slice(o, page, limit)
    BY DEF Find
  <2>2. o \in Seq(Events) /\ Len(o) = Cardinality(listed) /\ Len(o) \in Nat
    BY <1>3, OrderProperties, LenProperties
  <2>3. CASE limit > 0
    <3>1. seen = FirstRows(o, (page - 1) * limit) /\ total = Len(o)
      BY <1>2, <1>3, <2>2, <2>3 DEF SeenInOrder
    <3>2. seen' = FirstRows(o, page * limit)
      BY <1>3, <2>1, <2>2, <2>3, <3>1, PagesInOrder
    <3>3. (IF page * limit < Len(o) THEN page * limit ELSE Len(o)) = Len(o)
      BY <1>3, <1>4, <1>5, <2>2, <2>3, <3>1
    <3> QED
      BY <2>2, <3>2, <3>3, SubSeqFull DEF FirstRows
  <2>4. CASE limit < 0
    <3>1. seen = <<>> /\ Slice(o, page, limit) = o
      BY <1>3, <2>4 DEF SeenInOrder, Slice
    <3> QED
      BY <2>1, <2>2, <3>1, ConcatEmptySeq
  <2> QED
    BY <1>2, <1>3, <2>3, <2>4
<1> QED
  BY <1>1, <1>2, <1>6, <1>7 DEF PagesInv

LEMMA InvStep ==
  ASSUME PagesInv, [Next]_vars
  PROVE  PagesInv'
<1>1. CASE Find
  BY <1>1, FindGoesOn, FindEnds
<1>2. CASE DivideByZero
  <2>1. TypeOK'
    BY <1>2, TypeStep DEF PagesInv, Next
  <2> QED
    BY <1>2, <2>1 DEF PagesInv, DivideByZero, WalkIsComplete, WrongOnlyBehindAShift
<1>3. CASE UNCHANGED vars
  <2>1. TypeOK'
    BY <1>3, TypeStep DEF PagesInv
  <2> QED
    BY <1>3, <2>1 DEF PagesInv, vars, NotTwice, NotSkipped, Counted, NothingLeft, SeenInOrder,
       Steady, Times, WalkIsComplete, WrongOnlyBehindAShift
<1> QED
  BY <1>1, <1>2, <1>3, AskStep, CountStep, ListStep, TakeOffStep DEF Next

LEMMA InvHolds == Spec => []PagesInv
  BY InvInit, InvStep, PTL DEF Spec

(* An admin who reads page after page gets every listed event once and in
   order, as long as nothing changes and no two begin at the same time:
   whatever the number of events and the limit, one below 0 included. *)
THEOREM WalksAreComplete == Spec => []WalkIsComplete
<1>1. PagesInv => WalkIsComplete
  BY DEF PagesInv
<1> QED
  BY <1>1, InvHolds, PTL

(* However the list changes between the statements, an event that stays is
   left out only if another before it came or went, and shown twice only if
   one before it came, or if one begins at the same time. *)
THEOREM WrongOnlyBehindShifts == Spec => []WrongOnlyBehindAShift
<1>1. PagesInv => WrongOnlyBehindAShift
  BY DEF PagesInv
<1> QED
  BY <1>1, InvHolds, PTL

=============================================================================
