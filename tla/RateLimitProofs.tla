-------------------------- MODULE RateLimitProofs ---------------------------
(***************************************************************************)
(* Proofs about RateLimit for every limit, every length of the window and  *)
(* every number of users, addresses and restarts.  The bound is on a sum,  *)
(* so induction over the natural numbers comes first; it is stated for     *)
(* sets, from the least element that every set of them has.                *)
(***************************************************************************)
EXTENDS RateLimit, WellFoundedInduction, TLAPS

(* Every set of natural numbers has a least element. *)
LEMMA LeastElement ==
  ASSUME NEW S \in SUBSET Nat, S # {}
  PROVE  \E m \in S : \A k \in S : m <= k
<1> DEFINE R == {ss \in Nat \X Nat : ss[1] < ss[2]}
<1>1. IsWellFoundedOn(R, Nat)
  BY NatLessThanWellFounded DEF OpToRel
<1>2. PICK m \in S : \A k \in S : <<k, m>> \notin R
  BY <1>1, WFMin, Zenon
<1>3. ASSUME NEW k \in S PROVE m <= k
  <2>1. <<k, m>> \in Nat \X Nat /\ <<k, m>> \notin R
    BY <1>2
  <2> QED
    BY <2>1
<1> QED
  BY <1>3

(* A set that has 0, and with each number the next, has them all. *)
LEMMA SetInduction ==
  ASSUME NEW S \in SUBSET Nat, 0 \in S, \A n \in S : n + 1 \in S
  PROVE  S = Nat
<1> SUFFICES ASSUME Nat \ S # {} PROVE FALSE
  OBVIOUS
<1>1. PICK m \in Nat \ S : \A k \in Nat \ S : m <= k
  BY LeastElement
<1>2. m - 1 \in Nat /\ m - 1 \in S
  BY <1>1
<1> QED
  BY <1>2

-----------------------------------------------------------------------------
(* Sums.                                                                   *)

(* h adds up f as far as n. *)
AddsUp(f, h, n) == h[0] = 0 /\ \A i \in 1 .. n : h[i] = h[i - 1] + f[i - 1]

LEMMA AddsUpExists ==
  ASSUME NEW f, NEW n \in Nat
  PROVE  \E h : AddsUp(f, h, n)
<1> DEFINE Good == {m \in Nat : \E h : AddsUp(f, h, m)}
<1>1. 0 \in Good
  <2>1. AddsUp(f, [i \in {0} |-> 0], 0)
    BY DEF AddsUp
  <2> QED
    BY <2>1
<1>2. ASSUME NEW m \in Good PROVE m + 1 \in Good
  <2>1. PICK h : AddsUp(f, h, m)
    OBVIOUS
  <2>2. PICK k : k = [i \in 0 .. m + 1 |-> IF i = m + 1 THEN h[m] + f[m] ELSE h[i]]
    OBVIOUS
  <2>3. k[0] = 0
    BY <2>1, <2>2 DEF AddsUp
  <2>4. ASSUME NEW i \in 1 .. m PROVE k[i] = k[i - 1] + f[i - 1]
    BY <2>1, <2>2 DEF AddsUp
  <2>5. k[m + 1] = k[m] + f[m] /\ (m + 1) - 1 = m
    BY <2>2
  <2>6. \A i \in 1 .. m + 1 : i \in 1 .. m \/ i = m + 1
    OBVIOUS
  <2>7. AddsUp(f, k, m + 1)
    BY <2>3, <2>4, <2>5, <2>6 DEF AddsUp
  <2> QED
    BY <2>7
<1>3. Good \subseteq Nat
  OBVIOUS
<1> HIDE DEF Good
<1>4. Good = Nat
  BY <1>1, <1>2, <1>3, SetInduction
<1> QED
  BY <1>4 DEF Good

LEMMA AddsUpUnique ==
  ASSUME NEW f, NEW h, NEW k, NEW n \in Nat, AddsUp(f, h, n), AddsUp(f, k, n)
  PROVE  h[n] = k[n]
<1> DEFINE Good == {m \in Nat : m <= n => h[m] = k[m]}
<1>1. 0 \in Good
  BY DEF AddsUp
<1>2. ASSUME NEW m \in Good PROVE m + 1 \in Good
  <2> SUFFICES ASSUME m + 1 <= n PROVE h[m + 1] = k[m + 1]
    OBVIOUS
  <2>1. h[m] = k[m] /\ m + 1 \in 1 .. n /\ (m + 1) - 1 = m
    OBVIOUS
  <2> QED
    BY <2>1 DEF AddsUp
<1>3. Good \subseteq Nat
  OBVIOUS
<1> HIDE DEF Good
<1>4. Good = Nat
  BY <1>1, <1>2, <1>3, SetInduction
<1> QED
  BY <1>4 DEF Good

(* Sums is what its recursion says: a function with that equation exists, and
   is put together from those on the intervals 0 .. n. *)
LEMMA SumsEquation ==
  ASSUME NEW f
  PROVE  /\ Sums(f)[0] = 0
         /\ \A n \in Nat : Sums(f)[n + 1] = Sums(f)[n] + f[n]
<1> DEFINE Eq(s) == s = [n \in Nat |-> IF n = 0 THEN 0 ELSE s[n - 1] + f[n - 1]]
           H(n) == CHOOSE h : AddsUp(f, h, n)
<1>1. \A n \in Nat : AddsUp(f, H(n), n)
  BY AddsUpExists
<1> HIDE DEF H
<1>2. PICK s : s = [n \in Nat |-> H(n)[n]]
  OBVIOUS
<1>3. s[0] = 0
  BY <1>1, <1>2 DEF AddsUp
<1>4. ASSUME NEW n \in Nat, n # 0 PROVE s[n] = s[n - 1] + f[n - 1]
  <2>1. n - 1 \in Nat /\ AddsUp(f, H(n), n - 1) /\ AddsUp(f, H(n - 1), n - 1)
    BY <1>1, <1>4 DEF AddsUp
  <2>2. H(n)[n - 1] = H(n - 1)[n - 1]
    BY <2>1, AddsUpUnique
  <2>3. H(n)[n] = H(n)[n - 1] + f[n - 1]
    BY <1>1, <1>4 DEF AddsUp
  <2> QED
    BY <1>2, <2>1, <2>2, <2>3
<1>5. Eq(s)
  BY <1>2, <1>3, <1>4
<1>6. Sums(f) = CHOOSE t : Eq(t)
  BY DEF Sums
<1> HIDE DEF Eq
<1>7. Eq(Sums(f))
  BY <1>5, <1>6
<1>8. Sums(f) = [n \in Nat |-> IF n = 0 THEN 0 ELSE Sums(f)[n - 1] + f[n - 1]]
  BY <1>7 DEF Eq
<1>9. ASSUME NEW n \in Nat PROVE Sums(f)[n + 1] = Sums(f)[n] + f[n]
  <2>1. n + 1 \in Nat /\ n + 1 # 0 /\ (n + 1) - 1 = n
    OBVIOUS
  <2> QED
    BY <1>8, <2>1
<1> QED
  BY <1>8, <1>9

(* The first k values are natural numbers: so are the sums, which grow. *)
LEMMA SumsType ==
  ASSUME NEW f, NEW k \in Nat, \A i \in 0 .. k - 1 : f[i] \in Nat
  PROVE  \A n \in 0 .. k : Sums(f)[n] \in Nat
<1> DEFINE Good == {m \in Nat : m <= k => Sums(f)[m] \in Nat}
<1>1. 0 \in Good
  BY SumsEquation
<1>2. ASSUME NEW m \in Good PROVE m + 1 \in Good
  <2> SUFFICES ASSUME m + 1 <= k PROVE Sums(f)[m + 1] \in Nat
    OBVIOUS
  <2>1. Sums(f)[m + 1] = Sums(f)[m] + f[m]
    BY SumsEquation
  <2>2. Sums(f)[m] \in Nat /\ m \in 0 .. k - 1
    OBVIOUS
  <2> QED
    BY <2>1, <2>2
<1>3. Good \subseteq Nat
  OBVIOUS
<1> HIDE DEF Good
<1>4. Good = Nat
  BY <1>1, <1>2, <1>3, SetInduction
<1> QED
  BY <1>4 DEF Good

LEMMA SumsGrow ==
  ASSUME NEW f, NEW k \in Nat, \A i \in 0 .. k - 1 : f[i] \in Nat, NEW n \in 0 .. k
  PROVE  Sums(f)[n] <= Sums(f)[k]
<1> DEFINE Good == {m \in Nat : n <= m /\ m <= k => Sums(f)[n] <= Sums(f)[m]}
<1>0. \A m \in 0 .. k : Sums(f)[m] \in Nat
  BY SumsType
<1>1. 0 \in Good
  BY <1>0
<1>2. ASSUME NEW m \in Good PROVE m + 1 \in Good
  <2> SUFFICES ASSUME n <= m + 1, m + 1 <= k PROVE Sums(f)[n] <= Sums(f)[m + 1]
    OBVIOUS
  <2>1. CASE n = m + 1
    BY <1>0, <2>1
  <2>2. CASE n <= m
    <3>1. Sums(f)[m + 1] = Sums(f)[m] + f[m]
      BY SumsEquation
    <3>2. Sums(f)[n] <= Sums(f)[m] /\ m \in 0 .. k - 1
      BY <2>2
    <3> QED
      BY <1>0, <3>1, <3>2
  <2> QED
    BY <2>1, <2>2
<1>3. Good \subseteq Nat
  OBVIOUS
<1> HIDE DEF Good
<1>4. Good = Nat
  BY <1>1, <1>2, <1>3, SetInduction
<1> QED
  BY <1>4 DEF Good

(* The values move up by one place, behind a 0. *)
LEMMA SumsShift ==
  ASSUME NEW f, NEW g, NEW k \in Nat, \A i \in 0 .. k - 1 : f[i] \in Nat,
         g[0] = 0, \A i \in 1 .. k - 1 : g[i] = f[i - 1]
  PROVE  \A n \in Nat : n + 1 <= k => Sums(g)[n + 1] = Sums(f)[n]
<1> DEFINE Good == {n \in Nat : n + 1 <= k => Sums(g)[n + 1] = Sums(f)[n]}
<1>1. 0 \in Good
  <2>1. Sums(g)[0 + 1] = Sums(g)[0] + g[0] /\ Sums(g)[0] = 0 /\ Sums(f)[0] = 0
    BY SumsEquation
  <2> QED
    BY <2>1
<1>2. ASSUME NEW m \in Good PROVE m + 1 \in Good
  <2> SUFFICES ASSUME (m + 1) + 1 <= k PROVE Sums(g)[(m + 1) + 1] = Sums(f)[m + 1]
    OBVIOUS
  <2>1. Sums(g)[(m + 1) + 1] = Sums(g)[m + 1] + g[m + 1] /\ Sums(f)[m + 1] = Sums(f)[m] + f[m]
    BY SumsEquation
  <2>2. g[m + 1] = f[(m + 1) - 1] /\ (m + 1) - 1 = m
    OBVIOUS
  <2>3. Sums(g)[m + 1] = Sums(f)[m]
    OBVIOUS
  <2> QED
    BY <2>1, <2>2, <2>3
<1>3. Good \subseteq Nat
  OBVIOUS
<1> HIDE DEF Good
<1>4. Good = Nat
  BY <1>1, <1>2, <1>3, SetInduction
<1> QED
  BY <1>4 DEF Good

(* The first value grows by one. *)
LEMMA SumsOneMore ==
  ASSUME NEW f, NEW g, NEW k \in Nat, \A i \in 0 .. k - 1 : f[i] \in Nat,
         g[0] = f[0] + 1, \A i \in 1 .. k - 1 : g[i] = f[i]
  PROVE  \A n \in 1 .. k : Sums(g)[n] = Sums(f)[n] + 1
<1> DEFINE Good == {n \in Nat : n + 1 <= k => Sums(g)[n + 1] = Sums(f)[n + 1] + 1}
<1>0. \A m \in 0 .. k : Sums(f)[m] \in Nat
  BY SumsType
<1>1. 0 \in Good
  <2>1. /\ Sums(g)[0 + 1] = Sums(g)[0] + g[0] /\ Sums(g)[0] = 0
        /\ Sums(f)[0 + 1] = Sums(f)[0] + f[0] /\ Sums(f)[0] = 0
    BY SumsEquation
  <2>2. 1 <= k => f[0] \in Nat
    OBVIOUS
  <2> QED
    BY <2>1, <2>2
<1>2. ASSUME NEW m \in Good PROVE m + 1 \in Good
  <2> SUFFICES ASSUME (m + 1) + 1 <= k
               PROVE  Sums(g)[(m + 1) + 1] = Sums(f)[(m + 1) + 1] + 1
    OBVIOUS
  <2>1. /\ Sums(g)[(m + 1) + 1] = Sums(g)[m + 1] + g[m + 1]
        /\ Sums(f)[(m + 1) + 1] = Sums(f)[m + 1] + f[m + 1]
    BY SumsEquation
  <2>2. g[m + 1] = f[m + 1] /\ f[m + 1] \in Nat /\ Sums(f)[m + 1] \in Nat
    BY <1>0
  <2>3. Sums(g)[m + 1] = Sums(f)[m + 1] + 1
    OBVIOUS
  <2> QED
    BY <2>1, <2>2, <2>3
<1>3. Good \subseteq Nat
  OBVIOUS
<1> HIDE DEF Good
<1>4. Good = Nat
  BY <1>1, <1>2, <1>3, SetInduction
<1>5. \A n \in Nat : n + 1 <= k => Sums(g)[n + 1] = Sums(f)[n + 1] + 1
  BY <1>4 DEF Good
<1>6. ASSUME NEW n \in 1 .. k PROVE Sums(g)[n] = Sums(f)[n] + 1
  <2>1. n - 1 \in Nat /\ (n - 1) + 1 = n
    OBVIOUS
  <2> QED
    BY <1>5, <2>1
<1> QED
  BY <1>6

(* Nothing adds up to nothing. *)
LEMMA SumsOfNothing ==
  ASSUME NEW f, NEW k \in Nat, \A i \in 0 .. k - 1 : f[i] = 0
  PROVE  \A n \in 0 .. k : Sums(f)[n] = 0
<1> DEFINE Good == {m \in Nat : m <= k => Sums(f)[m] = 0}
<1>1. 0 \in Good
  BY SumsEquation
<1>2. ASSUME NEW m \in Good PROVE m + 1 \in Good
  <2> SUFFICES ASSUME m + 1 <= k PROVE Sums(f)[m + 1] = 0
    OBVIOUS
  <2>1. Sums(f)[m + 1] = Sums(f)[m] + f[m] /\ Sums(f)[m] = 0 /\ f[m] = 0
    BY SumsEquation
  <2> QED
    BY <2>1
<1>3. Good \subseteq Nat
  OBVIOUS
<1> HIDE DEF Good
<1>4. Good = Nat
  BY <1>1, <1>2, <1>3, SetInduction
<1> QED
  BY <1>4 DEF Good

-----------------------------------------------------------------------------
(* The limiter.                                                            *)

(* How many of a key's requests its window has let through. *)
Used(k) ==
  IF window[k].left = 0 THEN 0
  ELSE IF window[k].hits <= Limit THEN window[k].hits ELSE Limit

(* What a key has got through in this tick; since the tick in which its
   window was opened; and in as many ticks as a window has. *)
NowBounded(k) == accepted[0][k] <= stops * Limit + Used(k)
SinceOpenedBounded(k) ==
  window[k].left > 0 => Sums(Accepted(k))[Window - window[k].left] <= Used(k)
BurstBounded(k) == Sums(Accepted(k))[Window] <= (1 + stops) * Limit + Used(k)

BurstInv ==
  /\ TypeOK
  /\ \A k \in Keys : NowBounded(k) /\ SinceOpenedBounded(k) /\ BurstBounded(k)

(* The generator gives a user or an address. *)
LEMMA KeyIsKey == \A u \in Users, ip \in Ips : Key(u, ip) \in Keys
BY DEF Key, Locals, Keys

(* Products of the bounds, as the provers need them. *)
LEMMA Allowances ==
  ASSUME TypeOK
  PROVE  /\ stops * Limit \in Nat /\ stops \in Nat /\ Limit \in Nat /\ Limit > 0
         /\ (stops + 1) * Limit = stops * Limit + Limit
         /\ (1 + stops) * Limit = stops * Limit + Limit
         /\ (2 + stops) * Limit = stops * Limit + Limit + Limit
         /\ ((stops + 1) + 1) * Limit = stops * Limit + Limit + Limit
         /\ (1 + (stops + 1)) * Limit = stops * Limit + Limit + Limit
<1>1. stops \in Nat /\ Limit \in Nat /\ Limit > 0
  BY ConstantsAssumption DEF TypeOK
<1>2. \A a, b \in Nat : a * b \in Nat /\ (a + 1) * b = a * b + b
  OBVIOUS
<1>3. stops + 1 \in Nat /\ 1 + stops = stops + 1 /\ 2 + stops = (stops + 1) + 1
      /\ 1 + (stops + 1) = (stops + 1) + 1
  BY <1>1
<1> QED
  BY <1>1, <1>2, <1>3

LEMMA AcceptedTyped ==
  ASSUME TypeOK, NEW k \in Keys
  PROVE  /\ window[k] \in [left : 0 .. Window, hits : 0 .. Limit + 1]
         /\ \A n \in 0 .. Window - 1 :
              Accepted(k)[n] = accepted[n][k] /\ Accepted(k)[n] \in Nat
         /\ \A n \in 0 .. Window : Sums(Accepted(k))[n] \in Nat
         /\ Used(k) \in 0 .. Limit /\ Window \in Nat /\ Window > 0
<1>1. window[k] \in [left : 0 .. Window, hits : 0 .. Limit + 1]
  BY DEF TypeOK, Keys
<1>2. ASSUME NEW n \in 0 .. Window - 1
      PROVE  Accepted(k)[n] = accepted[n][k] /\ Accepted(k)[n] \in Nat
  <2> DEFINE most == (stops + 1) * Limit
  <2>1. most \in Nat
    BY Allowances
  <2>2. n \in Ago /\ accepted \in [Ago -> [Keys -> 0 .. most]]
    BY DEF TypeOK, Ago
  <2> HIDE DEF most
  <2>3. accepted[n][k] \in 0 .. most
    BY <2>2
  <2>4. accepted[n][k] \in Nat
    BY <2>1, <2>3
  <2> QED
    BY <2>2, <2>4 DEF Accepted
<1>3. Window \in Nat /\ Window > 0 /\ Limit \in Nat
  BY ConstantsAssumption
<1>4. \A n \in 0 .. Window : Sums(Accepted(k))[n] \in Nat
  BY <1>2, <1>3, SumsType
<1> QED
  BY <1>1, <1>2, <1>3, <1>4 DEF Used

LEMMA InitBurstInv == Init => BurstInv
<1> SUFFICES ASSUME Init PROVE BurstInv
  OBVIOUS
<1>1. TypeOK
  <2>1. stops = 0 /\ Window \in Nat /\ Limit \in Nat /\ MaxStops \in Nat
    BY ConstantsAssumption DEF Init
  <2>2. 0 \in 0 .. (stops + 1) * Limit
    BY <2>1
  <2> QED
    BY <2>1, <2>2 DEF Init, TypeOK, Closed, None
<1>2. ASSUME NEW k \in Keys PROVE NowBounded(k) /\ SinceOpenedBounded(k) /\ BurstBounded(k)
  <2>1. window[k].left = 0 /\ Used(k) = 0
    BY DEF Init, Closed, Used, Keys
  <2>2. \A n \in 0 .. Window - 1 : accepted[n][k] = 0 /\ Accepted(k)[n] = 0
    BY DEF Init, None, Accepted, Ago
  <2>3. Window \in Nat /\ 0 \in 0 .. Window - 1 /\ Window \in 0 .. Window
    BY ConstantsAssumption
  <2>4. Sums(Accepted(k))[Window] = 0
    BY <2>2, <2>3, SumsOfNothing
  <2> QED
    BY <1>1, <2>1, <2>2, <2>3, <2>4, Allowances
    DEF NowBounded, SinceOpenedBounded, BurstBounded
<1> QED
  BY <1>1, <1>2 DEF BurstInv

Bounded(k) == NowBounded(k) /\ SinceOpenedBounded(k) /\ BurstBounded(k)

(* A request counts in its own window and changes nothing for the others. *)
LEMMA RequestKeepsBounds ==
  ASSUME BurstInv, NEW u \in Users, NEW ip \in Ips,
         NEW k \in Keys, k = Key(u, ip), Request(u, ip)
  PROVE  TypeOK' /\ \A x \in Keys : Bounded(x)'
<1> DEFINE w == window[k]
           v == Counted(w)
           more == v.hits <= Limit
<1>0. TypeOK /\ \A x \in Keys : Bounded(x)
  BY DEF BurstInv, Bounded
<1>1. /\ window' = [window EXCEPT ![k] = v] /\ stops' = stops
      /\ accepted' = IF more THEN [accepted EXCEPT ![0][k] = @ + 1] ELSE accepted
  <2>1. window' = [window EXCEPT ![k] = v] /\ stops' = stops
    BY DEF Request
  <2>2. window'[k] = v
    BY <1>0, <2>1 DEF TypeOK
  <2>3. accepted' = IF window'[k].hits <= Limit
                    THEN [accepted EXCEPT ![0][k] = @ + 1] ELSE accepted
    BY DEF Request, LetThrough
  <2> QED
    BY <2>1, <2>2, <2>3
<1>2. /\ w \in [left : 0 .. Window, hits : 0 .. Limit + 1]
      /\ Window \in Nat /\ Window > 0 /\ Limit \in Nat /\ Limit > 0
  BY <1>0, AcceptedTyped, Allowances
<1>3. /\ v \in [left : 0 .. Window, hits : 0 .. Limit + 1] /\ v.left > 0
      /\ v.left = IF w.left = 0 THEN Window ELSE w.left
  BY <1>2 DEF Counted
<1>4. window'[k] = v /\ \A x \in Keys : x # k => window'[x] = window[x]
  BY <1>0, <1>1 DEF TypeOK, Keys
<1>5. Used(k)' = Used(k) + (IF more THEN 1 ELSE 0)
  BY <1>2, <1>3, <1>4 DEF Used, Counted
<1>6. /\ 0 \in Ago /\ accepted[0] \in [Keys -> 0 .. (stops + 1) * Limit]
      /\ accepted \in [Ago -> [Keys -> 0 .. (stops + 1) * Limit]]
  BY <1>0, <1>2 DEF TypeOK, Ago
<1>7. /\ accepted'[0][k] = accepted[0][k] + (IF more THEN 1 ELSE 0)
      /\ \A n \in Ago, x \in Keys : n # 0 \/ x # k => accepted'[n][x] = accepted[n][x]
  <2>1. CASE more
    BY <1>1, <1>6, <2>1
  <2>2. CASE ~more
    <3>1. accepted[0][k] \in Nat
      BY <1>0, <1>2, AcceptedTyped
    <3> QED
      BY <1>1, <2>2, <3>1
  <2> QED
    BY <2>1, <2>2
<1>8. ASSUME NEW x \in Keys, x # k PROVE Bounded(x)'
  <2>1. Accepted(x)' = Accepted(x) /\ accepted'[0][x] = accepted[0][x]
    BY <1>6, <1>7, <1>8 DEF Accepted
  <2>2. window'[x] = window[x] /\ Used(x)' = Used(x)
    BY <1>4, <1>8 DEF Used
  <2>3. Bounded(x)
    BY <1>0
  <2> QED
    BY <1>1, <2>1, <2>2, <2>3
    DEF Bounded, NowBounded, SinceOpenedBounded, BurstBounded
<1>9. \A n \in 0 .. Window :
        Sums(Accepted(k)')[n] = Sums(Accepted(k))[n] + (IF more /\ n # 0 THEN 1 ELSE 0)
  <2>1. /\ \A i \in 0 .. Window - 1 : Accepted(k)[i] = accepted[i][k] /\ Accepted(k)[i] \in Nat
        /\ \A n \in 0 .. Window : Sums(Accepted(k))[n] \in Nat
    BY <1>0, AcceptedTyped
  <2>2. \A i \in 0 .. Window - 1 : Accepted(k)'[i] = accepted'[i][k]
    BY DEF Accepted, Ago
  <2>3. CASE more
    <3>1. /\ Accepted(k)'[0] = Accepted(k)[0] + 1
          /\ \A i \in 1 .. Window - 1 : Accepted(k)'[i] = Accepted(k)[i]
      BY <1>2, <1>7, <2>1, <2>2, <2>3 DEF Ago
    <3>2. \A n \in 1 .. Window : Sums(Accepted(k)')[n] = Sums(Accepted(k))[n] + 1
      BY <1>2, <2>1, <3>1, SumsOneMore
    <3>3. Sums(Accepted(k)')[0] = 0 /\ Sums(Accepted(k))[0] = 0
      BY SumsEquation
    <3> QED
      BY <1>2, <2>3, <3>2, <3>3
  <2>4. CASE ~more
    <3>1. Accepted(k)' = Accepted(k)
      BY <1>1, <2>4 DEF Accepted
    <3> QED
      BY <2>1, <2>4, <3>1
  <2> QED
    BY <2>3, <2>4
<1>10. /\ \A n \in 0 .. Window : Sums(Accepted(k))[n] \in Nat
       /\ accepted[0][k] \in Nat /\ Used(k) \in Nat /\ stops * Limit \in Nat
       /\ (1 + stops) * Limit = stops * Limit + Limit
  BY <1>0, <1>2, AcceptedTyped, Allowances
<1>11. Bounded(k)'
  <2>1. NowBounded(k)'
    BY <1>0, <1>1, <1>5, <1>7, <1>10 DEF Bounded, NowBounded
  <2>2. SinceOpenedBounded(k)'
    <3>1. window'[k].left = v.left
      BY <1>4
    <3>2. CASE w.left = 0
      <4>1. Window - v.left = 0 /\ 0 \in 0 .. Window
        BY <1>2, <1>3, <3>2
      <4>2. Sums(Accepted(k)')[0] = 0
        BY SumsEquation
      <4> QED
        BY <1>5, <1>10, <3>1, <4>1, <4>2 DEF SinceOpenedBounded
    <3>3. CASE w.left > 0
      <4>1. v.left = w.left /\ Window - w.left \in 0 .. Window
        BY <1>2, <1>3, <3>3
      <4>2. Sums(Accepted(k))[Window - w.left] <= Used(k)
        BY <1>0, <3>3 DEF Bounded, SinceOpenedBounded
      <4> QED
        BY <1>5, <1>9, <1>10, <3>1, <4>1, <4>2 DEF SinceOpenedBounded
    <3> QED
      BY <1>2, <3>2, <3>3
  <2>3. BurstBounded(k)'
    <3>1. Window \in 0 .. Window /\ Window # 0
      BY <1>2
    <3>2. Sums(Accepted(k))[Window] <= (1 + stops) * Limit + Used(k)
      BY <1>0 DEF Bounded, BurstBounded
    <3> QED
      BY <1>1, <1>2, <1>5, <1>9, <1>10, <3>1, <3>2 DEF BurstBounded
  <2> QED
    BY <2>1, <2>2, <2>3 DEF Bounded
<1>12. TypeOK'
  <2>1. window' \in [Keys -> [left : 0 .. Window, hits : 0 .. Limit + 1]]
    BY <1>0, <1>1, <1>3 DEF TypeOK
  <2>2. accepted'[0][k] \in 0 .. (stops + 1) * Limit
    <3>1. Used(k)' \in 0 .. Limit
      BY <1>2, <1>3, <1>4 DEF Used
    <3>2. accepted'[0][k] <= stops * Limit + Used(k)'
      BY <1>1, <1>11 DEF Bounded, NowBounded
    <3>3. accepted'[0][k] \in Nat /\ (stops + 1) * Limit = stops * Limit + Limit
      BY <1>0, <1>7, <1>10, Allowances
    <3> QED
      BY <1>2, <1>10, <3>1, <3>2, <3>3
  <2>3. accepted' \in [Ago -> [Keys -> 0 .. (stops + 1) * Limit]]
    <3>1. CASE more
      <4>1. accepted' = [accepted EXCEPT ![0] = [accepted[0] EXCEPT ![k] = @ + 1]]
        BY <1>1, <3>1
      <4>2. accepted'[0][k] = accepted[0][k] + 1
        BY <1>7, <3>1
      <4>3. [accepted[0] EXCEPT ![k] = @ + 1] \in [Keys -> 0 .. (stops + 1) * Limit]
        BY <1>6, <2>2, <4>2
      <4> QED
        BY <1>6, <4>1, <4>3
    <3>2. CASE ~more
      BY <1>1, <1>6, <3>2
    <3> QED
      BY <3>1, <3>2
  <2>4. served' \in [Ago -> [Users -> Nat]]
    <3>1. served[0] \in [Users -> Nat] /\ [served[0] EXCEPT ![u] = @ + 1] \in [Users -> Nat]
      BY <1>0, <1>6 DEF TypeOK
    <3>2. served' = served \/ served' = [served EXCEPT ![0] = [served[0] EXCEPT ![u] = @ + 1]]
      BY DEF Request, LetThrough
    <3> QED
      BY <1>0, <1>6, <3>1, <3>2 DEF TypeOK
  <2> QED
    BY <1>0, <1>1, <2>1, <2>3, <2>4 DEF TypeOK
<1> QED
  BY <1>8, <1>11, <1>12

(* A tick forgets what was let through a whole window ago, and with the last
   tick of a window no more is left in sight than what that window let in. *)
LEMMA TickKeepsBounds ==
  ASSUME BurstInv, Tick
  PROVE  TypeOK' /\ \A x \in Keys : Bounded(x)'
<1>0. TypeOK /\ \A x \in Keys : Bounded(x)
  BY DEF BurstInv, Bounded
<1>1. Window \in Nat /\ Window > 0 /\ Limit \in Nat /\ Limit > 0 /\ 0 \in Ago
  BY <1>0, Allowances, ConstantsAssumption DEF Ago
<1>2. /\ \A x \in Keys : accepted'[0][x] = 0
      /\ \A x \in Keys, n \in 1 .. Window - 1 : accepted'[n][x] = accepted[n - 1][x]
      /\ stops' = stops
      /\ \A x \in Keys : window'[x] = IF window[x].left <= 1 THEN Closed
                                     ELSE [window[x] EXCEPT !.left = @ - 1]
  BY <1>1 DEF Tick, None, Ago
<1>3. TypeOK'
  <2>1. window' \in [Keys -> [left : 0 .. Window, hits : 0 .. Limit + 1]]
    BY <1>0, <1>1 DEF Tick, TypeOK, Closed
  <2>2. 0 \in 0 .. (stops + 1) * Limit
    BY <1>0, Allowances
  <2>3. \A n \in Ago : n # 0 => n - 1 \in Ago
    BY <1>1 DEF Ago
  <2>4. accepted' \in [Ago -> [Keys -> 0 .. (stops + 1) * Limit]]
    BY <1>0, <2>2, <2>3 DEF Tick, TypeOK, None
  <2>5. served' \in [Ago -> [Users -> Nat]]
    BY <1>0, <2>3 DEF Tick, TypeOK, None
  <2> QED
    BY <1>0, <1>2, <2>1, <2>4, <2>5 DEF TypeOK
<1>4. ASSUME NEW x \in Keys PROVE Bounded(x)'
  <2>1. /\ window[x] \in [left : 0 .. Window, hits : 0 .. Limit + 1]
        /\ \A n \in 0 .. Window - 1 : Accepted(x)[n] = accepted[n][x] /\ Accepted(x)[n] \in Nat
        /\ \A n \in 0 .. Window : Sums(Accepted(x))[n] \in Nat
        /\ Used(x) \in 0 .. Limit
    BY <1>0, AcceptedTyped
  <2>2. /\ stops * Limit \in Nat /\ (1 + stops) * Limit = stops * Limit + Limit
    BY <1>0, Allowances
  <2>3. \A i \in 0 .. Window - 1 : Accepted(x)'[i] = accepted'[i][x]
    BY DEF Accepted, Ago
  <2>4. Accepted(x)'[0] = 0 /\ \A i \in 1 .. Window - 1 : Accepted(x)'[i] = Accepted(x)[i - 1]
    BY <1>1, <1>2, <2>1, <2>3
  <2>5. \A n \in Nat : n + 1 <= Window => Sums(Accepted(x)')[n + 1] = Sums(Accepted(x))[n]
    <3>1. \A i \in 0 .. Window - 1 : Accepted(x)[i] \in Nat
      BY <2>1
    <3> DEFINE f == Accepted(x)
               g == Accepted(x)'
    <3>2. /\ Window \in Nat /\ \A i \in 0 .. Window - 1 : f[i] \in Nat
          /\ g[0] = 0 /\ \A i \in 1 .. Window - 1 : g[i] = f[i - 1]
      BY <1>1, <2>4, <3>1
    <3> HIDE DEF f, g
    <3>3. \A n \in Nat : n + 1 <= Window => Sums(g)[n + 1] = Sums(f)[n]
      BY <3>2, SumsShift
    <3> QED
      BY <3>3 DEF f, g
  <2>6. /\ Window - 1 \in Nat /\ (Window - 1) + 1 = Window
        /\ Window - 1 \in 0 .. Window /\ Window \in 0 .. Window
    BY <1>1
  <2>7. Sums(Accepted(x)')[Window] = Sums(Accepted(x))[Window - 1]
    BY <1>1, <2>5, <2>6
  <2>8. Sums(Accepted(x))[Window - 1] <= Sums(Accepted(x))[Window]
    BY <1>1, <2>1, <2>6, SumsGrow
  <2>9. CASE window[x].left <= 1
    <3>1. window'[x].left = 0 /\ Used(x)' = 0
      <4>1. window'[x] = Closed
        BY <1>2, <2>9
      <4> QED
        BY <4>1 DEF Closed, Used
    <3>2. Sums(Accepted(x))[Window - 1] <= (1 + stops) * Limit
      <4>1. CASE window[x].left = 0
        <5>1. Used(x) = 0 /\ Sums(Accepted(x))[Window] <= (1 + stops) * Limit + Used(x)
          BY <1>0, <4>1 DEF Bounded, BurstBounded, Used
        <5> QED
          BY <1>1, <2>1, <2>2, <2>6, <2>8, <5>1
      <4>2. CASE window[x].left = 1
        BY <1>0, <1>1, <2>1, <2>2, <2>6, <4>2 DEF Bounded, SinceOpenedBounded
      <4> QED
        BY <2>1, <2>9, <4>1, <4>2
    <3> QED
      <4>1. NowBounded(x)'
        BY <1>2, <2>2, <3>1 DEF NowBounded
      <4>2. SinceOpenedBounded(x)'
        BY <3>1 DEF SinceOpenedBounded
      <4>3. BurstBounded(x)'
        BY <1>1, <1>2, <2>1, <2>2, <2>6, <2>7, <3>1, <3>2 DEF BurstBounded
      <4> QED
        BY <4>1, <4>2, <4>3 DEF Bounded
  <2>10. CASE window[x].left > 1
    <3>1. /\ window'[x].left = window[x].left - 1 /\ window'[x].left > 0
          /\ Used(x)' = Used(x)
      <4>1. window'[x] = [window[x] EXCEPT !.left = @ - 1] /\ window[x].left \in Nat
        BY <1>2, <2>1, <2>10
      <4>2. window'[x].left = window[x].left - 1 /\ window'[x].hits = window[x].hits
        BY <2>1, <4>1
      <4> QED
        BY <2>10, <4>1, <4>2 DEF Used
    <3> DEFINE n == Window - window[x].left
    <3>2. n \in Nat /\ n + 1 <= Window /\ Window - window'[x].left = n + 1
      BY <1>1, <2>1, <2>10, <3>1
    <3>3. Sums(Accepted(x))[n] <= Used(x)
      BY <1>0, <2>1, <2>10 DEF Bounded, SinceOpenedBounded
    <3>4. SinceOpenedBounded(x)'
      BY <2>5, <3>1, <3>2, <3>3 DEF SinceOpenedBounded
    <3>5. NowBounded(x)'
      BY <1>2, <2>1, <2>2, <3>1 DEF NowBounded
    <3>6. BurstBounded(x)'
      <4>1. Sums(Accepted(x))[Window] <= (1 + stops) * Limit + Used(x)
        BY <1>0 DEF Bounded, BurstBounded
      <4> QED
        BY <1>1, <1>2, <2>1, <2>2, <2>6, <2>7, <2>8, <3>1, <4>1 DEF BurstBounded
    <3> QED
      BY <3>4, <3>5, <3>6 DEF Bounded
  <2> QED
    BY <2>1, <2>9, <2>10
<1> QED
  BY <1>3, <1>4

(* A restart forgets the windows: each key gets one more. *)
LEMMA RestartKeepsBounds ==
  ASSUME BurstInv, Restart
  PROVE  TypeOK' /\ \A x \in Keys : Bounded(x)'
<1>0. TypeOK /\ \A x \in Keys : Bounded(x)
  BY DEF BurstInv, Bounded
<1>1. /\ stops * Limit \in Nat /\ stops \in Nat /\ Limit \in Nat
      /\ (stops + 1) * Limit = stops * Limit + Limit
      /\ (1 + stops) * Limit = stops * Limit + Limit
      /\ (1 + (stops + 1)) * Limit = stops * Limit + Limit + Limit
      /\ ((stops + 1) + 1) * Limit = stops * Limit + Limit + Limit
  BY <1>0, Allowances
<1>2. TypeOK'
  <2>1. window' \in [Keys -> [left : 0 .. Window, hits : 0 .. Limit + 1]]
    BY <1>1, ConstantsAssumption DEF Restart, Closed
  <2>2. 0 .. (stops + 1) * Limit \subseteq 0 .. (stops' + 1) * Limit
    BY <1>1 DEF Restart
  <2>3. accepted' \in [Ago -> [Keys -> 0 .. (stops' + 1) * Limit]]
    BY <1>0, <2>2 DEF TypeOK, Restart
  <2>4. stops' \in 0 .. MaxStops /\ served' \in [Ago -> [Users -> Nat]]
    BY <1>0, <1>1, ConstantsAssumption DEF TypeOK, Restart
  <2> QED
    BY <2>1, <2>3, <2>4 DEF TypeOK
<1>3. ASSUME NEW x \in Keys PROVE Bounded(x)'
  <2>1. Used(x) \in 0 .. Limit /\ accepted[0][x] \in Nat /\ Sums(Accepted(x))[Window] \in Nat
    BY <1>0, AcceptedTyped
  <2>2. window'[x].left = 0 /\ Used(x)' = 0
    BY DEF Restart, Closed, Keys, Used
  <2>3. Accepted(x)' = Accepted(x) /\ accepted' = accepted /\ stops' = stops + 1
    BY DEF Restart, Accepted
  <2>4. NowBounded(x) /\ BurstBounded(x)
    BY <1>0 DEF Bounded
  <2> QED
    BY <1>1, <2>1, <2>2, <2>3, <2>4 DEF Bounded, NowBounded, SinceOpenedBounded, BurstBounded
<1> QED
  BY <1>2, <1>3

LEMMA BurstInvStep == BurstInv /\ [Next]_vars => BurstInv'
<1> SUFFICES ASSUME BurstInv, [Next]_vars PROVE BurstInv'
  OBVIOUS
<1>1. TypeOK' /\ (\A x \in Keys : Bounded(x)') => BurstInv'
  BY DEF BurstInv, Bounded
<1>2. CASE UNCHANGED vars
  BY <1>2 DEF vars, BurstInv, TypeOK, NowBounded, SinceOpenedBounded, BurstBounded, Used, Accepted
<1>3. ASSUME NEW u \in Users, NEW ip \in Ips, Request(u, ip) PROVE BurstInv'
  <2>1. PICK k \in Keys : k = Key(u, ip)
    BY KeyIsKey
  <2> QED
    BY <1>1, <1>3, <2>1, RequestKeepsBounds
<1> QED
  BY <1>1, <1>2, <1>3, TickKeepsBounds, RestartKeepsBounds DEF Next

LEMMA Invariance == Spec => []BurstInv
BY InitBurstInv, BurstInvStep, PTL DEF Spec

(* No counter of the limiter, and no count of what it has let through in one
   tick, leaves its range. *)
THEOREM TypeCorrect == Spec => []TypeOK
BY Invariance, PTL DEF BurstInv

(* Two full windows, and one more for each restart, are the most that one
   key gets through in as many ticks as a window has. *)
THEOREM BurstsAreBounded == Spec => []BurstIsBounded
<1>1. BurstInv => BurstIsBounded
  <2> SUFFICES ASSUME BurstInv, NEW k \in Keys
               PROVE  Sums(Accepted(k))[Window] <= (2 + stops) * Limit
    BY DEF BurstIsBounded
  <2>1. TypeOK /\ BurstBounded(k)
    BY DEF BurstInv
  <2>2. Used(k) \in 0 .. Limit /\ Sums(Accepted(k))[Window] \in Nat
    <3>1. Window \in 0 .. Window
      BY ConstantsAssumption
    <3> QED
      BY <2>1, <3>1, AcceptedTyped
  <2> QED
    BY <2>1, <2>2, Allowances DEF BurstBounded
<1> QED
  BY <1>1, Invariance, PTL
=============================================================================
