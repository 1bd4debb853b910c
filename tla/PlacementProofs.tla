--------------------------- MODULE PlacementProofs ---------------------------
(***************************************************************************)
(* Where units are, for any number of them.                                *)
(***************************************************************************)
EXTENDS Placement, Lemmas

-----------------------------------------------------------------------------
(* Loops.  What Along computes is defined by recursion; whatever holds in  *)
(* the beginning and is kept by every turn holds at the end.               *)

(* g is the recursive function behind Along, up to n. *)
Loops(g, f, v, s, n) == g = [k \in 0 .. n |-> IF k = 0 THEN v ELSE f[g[k - 1]][s[k]]]

LEMMA AlongIsLoop ==
  ASSUME NEW f, NEW v, NEW s
  PROVE  Along(f, v, s) = (CHOOSE g : Loops(g, f, v, s, Len(s)))[Len(s)]
BY DEF Along, Loops

(* There is such a function. *)
LEMMA LoopsExists ==
  ASSUME NEW f, NEW v, NEW s
  PROVE  \A n \in Nat : \E g : Loops(g, f, v, s, n)
<1> DEFINE T == {n \in Nat : ~ \E g : Loops(g, f, v, s, n)}
<1>1. SUFFICES ASSUME T # {} PROVE FALSE
  OBVIOUS
<1>2. PICK m \in T : \A y \in T : m <= y
  BY <1>1, MinOf
<1>3. m # 0
  <2>1. PICK g : g = [k \in 0 .. 0 |-> v]
    OBVIOUS
  <2>2. \A k \in 0 .. 0 : k = 0
    OBVIOUS
  <2>3. g = [k \in 0 .. 0 |-> IF k = 0 THEN v ELSE f[g[k - 1]][s[k]]]
    BY <2>1, <2>2, Zenon
  <2>4. Loops(g, f, v, s, 0)
    BY <2>3 DEF Loops
  <2>. QED  BY <1>2, <2>4
<1>4. m - 1 \in Nat /\ m - 1 \notin T
  BY <1>2, <1>3
<1>5. PICK g : Loops(g, f, v, s, m - 1)
  BY <1>4
<1> DEFINE Value(k, a) == IF k = 0 THEN v ELSE f[a[k - 1]][s[k]]
<1>6. PICK h : h = [k \in 0 .. m |-> IF k = m THEN Value(m, g) ELSE g[k]]
  OBVIOUS
<1>7. \A k \in 0 .. m : k # 0 => k - 1 \in 0 .. m - 1 /\ h[k - 1] = g[k - 1]
  <2>. SUFFICES ASSUME NEW k \in 0 .. m, k # 0
                PROVE  k - 1 \in 0 .. m - 1 /\ h[k - 1] = g[k - 1]
    OBVIOUS
  <2>1. k - 1 \in 0 .. m /\ k - 1 \in 0 .. m - 1 /\ k - 1 # m
    BY <1>2
  <2>. QED  BY <1>6, <2>1
<1>8. ASSUME NEW k \in 0 .. m  PROVE h[k] = Value(k, h)
  <2>1. Value(k, h) = Value(k, g)
    BY <1>7
  <2>2. CASE k = m
    BY <1>6, <2>1, <2>2
  <2>3. CASE k # m
    <3>1. k \in 0 .. m - 1
      BY <1>2, <2>3
    <3>2. g[k] = Value(k, g)
      BY <1>5, <3>1, Zenon DEF Loops
    <3>. QED  BY <1>6, <2>1, <2>3, <3>2, Zenon
  <2>. QED  BY <2>2, <2>3
<1>9. h = [k \in 0 .. m |-> Value(k, h)]
  BY <1>6, <1>8, Zenon
<1>10. Loops(h, f, v, s, m)
  BY <1>9 DEF Loops
<1>. QED  BY <1>2, <1>10

(* P[k] is what holds after k turns. *)
LEMMA AlongKeeps ==
  ASSUME NEW f, NEW v, NEW s, Len(s) \in Nat, NEW P, v \in P[0],
         \A k \in 1 .. Len(s) : \A x \in P[k - 1] : f[x][s[k]] \in P[k]
  PROVE  Along(f, v, s) \in P[Len(s)]
<1>1. PICK n \in Nat : n = Len(s)
  OBVIOUS
<1>2. PICK g : Loops(g, f, v, s, n) /\ Along(f, v, s) = g[n]
  <2>1. \E g : Loops(g, f, v, s, n)
    BY LoopsExists
  <2>. QED  BY <1>1, <2>1, AlongIsLoop
<1>3. ASSUME NEW k \in 0 .. n
      PROVE  g[k] = IF k = 0 THEN v ELSE f[g[k - 1]][s[k]]
  BY <1>2, Zenon DEF Loops
<1> DEFINE T == {k \in 0 .. n : g[k] \notin P[k]}
<1>4. T = {}
  <2>1. SUFFICES ASSUME T # {} PROVE FALSE
    OBVIOUS
  <2>2. PICK k \in T : \A y \in T : k <= y
    <3>1. T \subseteq Nat
      OBVIOUS
    <3>. HIDE DEF T
    <3>. QED  BY <2>1, <3>1, MinOf
  <2>3. k # 0
    <3>1. 0 \in 0 .. n
      OBVIOUS
    <3>2. g[0] = v
      BY <1>3, <3>1, Zenon
    <3>. QED  BY <2>2, <3>2
  <2>4. k \in 1 .. n /\ k \in 0 .. n /\ k - 1 \in 0 .. n /\ k - 1 < k /\ g[k] \notin P[k]
    BY <2>2, <2>3
  <2>5. g[k - 1] \in P[k - 1]
    BY <2>2, <2>4
  <2>6. g[k] = f[g[k - 1]][s[k]]
    BY <1>3, <2>3, <2>4
  <2>. QED  BY <1>1, <2>4, <2>5, <2>6
<1>5. n \in 0 .. n
  OBVIOUS
<1>. QED  BY <1>1, <1>2, <1>4, <1>5

(* A loop over the members of a finite set *)
LEMMA SetAsList ==
  ASSUME NEW S, IsFiniteSet(S)
  PROVE  /\ SetToSeq(S) \in Seq(S) /\ Len(SetToSeq(S)) \in Nat
         /\ \A i, j \in 1 .. Len(SetToSeq(S)) : SetToSeq(S)[i] = SetToSeq(S)[j] => i = j
<1>1. PICK n \in Nat : n = Cardinality(S) /\ ExistsBijection(1 .. n, S)
  BY FS_CardinalityType
<1>2. PICK f \in [1 .. n -> S] : \A i, j \in 1 .. n : f[i] = f[j] => i = j
  BY <1>1 DEF ExistsBijection, Bijection, Injection, IsInjective
<1>3. \E g \in [1 .. Cardinality(S) -> S] : IsInjective(g)
  BY <1>1, <1>2 DEF IsInjective
<1>4. SetToSeq(S) \in [1 .. Cardinality(S) -> S] /\ IsInjective(SetToSeq(S))
  BY <1>3 DEF SetToSeq
<1>. QED  BY <1>1, <1>4 DEF IsInjective

LEMMA TurnsList ==
  ASSUME NEW n \in Nat
  PROVE  Len(Turns(n)) = n /\ \A k \in 1 .. n : Turns(n)[k] = k
BY DEF Turns

-----------------------------------------------------------------------------
(* Lists.  home[l] is the region on whose list the pointer l is; the lists *)
(* are sound if the units can be given ranks that grow along them, if no   *)
(* unit is met from two sides, and each one that is somewhere is met.      *)

Pointers == [Links -> OrNone(Units)]
Homes == [Links -> OrNone(Regions)]
Depths == [Links -> Nat]

Ranked(next, home, pos) ==
  /\ \A r \in Regions : home[r] = r
  /\ \A l \in Links : next[l] # None =>
       home[l] # None /\ home[next[l]] = home[l] /\ pos[l] < pos[next[l]]
  /\ \A l, m \in Links : next[l] = next[m] /\ next[l] # None => l = m
  /\ \A u \in Units : home[u] # None => \E l \in Links : next[l] = u

Chained(next, home) == \E pos \in Depths : Ranked(next, home, pos)

(* t is what a loop that meets at most k units reads from u on. *)
Follows(t, u, next, k) ==
  /\ t \in Seq(Units) /\ Len(t) <= k
  /\ t # << >> => t[1] = u /\ u # None
  /\ t = << >> => u = None \/ k = 0
  /\ \A i \in 1 .. Len(t) - 1 : next[t[i]] = t[i + 1]
  /\ t # << >> /\ Len(t) < k => next[t[Len(t)]] = None

LEMMA LinkTypes ==
  /\ None \notin Units /\ None \notin Regions /\ None \notin Links /\ None \notin Places
  /\ Units \cap Regions = {} /\ Units \subseteq Links /\ Regions \subseteq Links
  /\ IsFiniteSet(Units) /\ IsFiniteSet(Regions) /\ IsFiniteSet(Ships) /\ IsFiniteSet(Buildings)
  /\ Buildings \cap Ships = {} /\ Buildings \subseteq Places /\ Ships \subseteq Places
  /\ Cardinality(Units) \in Nat
BY PlacementAssumption, FS_CardinalityType DEF Links, Places

LEMMA FollowsOne ==
  ASSUME NEW next \in Pointers, NEW k \in Nat, k # 0, NEW u \in Units, NEW t, Follows(t, next[u], next, k - 1)
  PROVE  Follows(<< u >> \o t, u, next, k)
<1>1. PICK n \in Nat : n = Len(t) /\ n <= k - 1
  BY DEF Follows
<1>2. PICK s : s = << u >> \o t
  OBVIOUS
<1>3. t \in Seq(Units)
  BY DEF Follows
<1>4. /\ s \in Seq(Units) /\ Len(s) = n + 1 /\ s[1] = u /\ s # << >>
      /\ \A i \in 1 .. n : s[i + 1] = t[i]
  BY <1>1, <1>2, <1>3
<1>5. next[u] = None \/ next[u] \in Units
  BY LinkTypes DEF Pointers, OrNone
<1>6. ASSUME NEW i \in 1 .. n
      PROVE  next[s[i]] = s[i + 1]
  <2>1. s[i + 1] = t[i] /\ t # << >>
    BY <1>1, <1>4, <1>6
  <2>2. CASE i = 1
    BY <1>4, <2>1, <2>2 DEF Follows
  <2>3. CASE i # 1
    <3>1. i - 1 \in 1 .. n - 1 /\ i - 1 \in 1 .. n /\ (i - 1) + 1 = i
      BY <1>1, <1>6, <2>3
    <3>2. s[i] = t[i - 1]
      BY <1>4, <3>1
    <3>3. next[t[i - 1]] = t[(i - 1) + 1]
      BY <1>1, <3>1 DEF Follows
    <3>. QED  BY <2>1, <3>1, <3>2, <3>3
  <2>. QED  BY <2>2, <2>3
<1>7. ASSUME n + 1 < k
      PROVE  next[s[n + 1]] = None
  <2>1. CASE t = << >>
    <3>1. n = 0
      BY <1>1, <2>1
    <3>2. next[u] = None
      BY <1>7, <2>1, <3>1 DEF Follows
    <3>. QED  BY <1>4, <3>1, <3>2
  <2>2. CASE t # << >>
    <3>1. n \in 1 .. n /\ n < k - 1
      BY <1>1, <1>3, <1>7, <2>2
    <3>2. s[n + 1] = t[n]
      BY <1>4, <3>1
    <3>. QED  BY <1>1, <2>2, <3>1, <3>2 DEF Follows
  <2>. QED  BY <2>1, <2>2
<1>8. (n + 1) - 1 = n /\ n + 1 <= k /\ u # None
  BY <1>1, LinkTypes
<1>. QED  BY <1>2, <1>4, <1>6, <1>7, <1>8 DEF Follows

(* g is the recursive function behind ListFrom, up to n. *)
Walks(g, n, next) ==
  g = [k \in 0 .. n |->
         [u \in OrNone(Units) |-> IF u = None \/ k = 0 THEN << >>
                                  ELSE << u >> \o g[k - 1][next[u]]]]

LEMMA ListIsWalk ==
  ASSUME NEW w, NEW l
  PROVE  ListFrom(w, l) = (CHOOSE g : Walks(g, Cardinality(Units), w.next))[Cardinality(Units)][w.next[l]]
BY DEF ListFrom, Walks

LEMMA WalksExists ==
  ASSUME NEW next
  PROVE  \A n \in Nat : \E g : Walks(g, n, next)
<1> DEFINE T == {n \in Nat : ~ \E g : Walks(g, n, next)}
<1>1. SUFFICES ASSUME T # {} PROVE FALSE
  OBVIOUS
<1>2. PICK m \in T : \A y \in T : m <= y
  BY <1>1, MinOf
<1>3. m # 0
  <2>1. PICK g : g = [k \in 0 .. 0 |-> [u \in OrNone(Units) |-> << >>]]
    OBVIOUS
  <2>2. \A k \in 0 .. 0 : k = 0
    OBVIOUS
  <2>3. g = [k \in 0 .. 0 |->
               [u \in OrNone(Units) |-> IF u = None \/ k = 0 THEN << >>
                                        ELSE << u >> \o g[k - 1][next[u]]]]
    BY <2>1, <2>2, Zenon
  <2>4. Walks(g, 0, next)
    BY <2>3 DEF Walks
  <2>. QED  BY <1>2, <2>4
<1>4. m - 1 \in Nat /\ m - 1 \notin T
  BY <1>2, <1>3
<1>5. PICK g : Walks(g, m - 1, next)
  BY <1>4
<1> DEFINE Line(k, a) == [u \in OrNone(Units) |-> IF u = None \/ k = 0 THEN << >>
                                                  ELSE << u >> \o a[k - 1][next[u]]]
<1>6. PICK h : h = [k \in 0 .. m |-> IF k = m THEN Line(m, g) ELSE g[k]]
  OBVIOUS
<1>7. \A k \in 0 .. m : k # 0 => k - 1 \in 0 .. m - 1 /\ h[k - 1] = g[k - 1]
  <2>. SUFFICES ASSUME NEW k \in 0 .. m, k # 0
                PROVE  k - 1 \in 0 .. m - 1 /\ h[k - 1] = g[k - 1]
    OBVIOUS
  <2>1. k - 1 \in 0 .. m /\ k - 1 \in 0 .. m - 1 /\ k - 1 # m
    BY <1>2
  <2>. QED  BY <1>6, <2>1
<1>8. ASSUME NEW k \in 0 .. m  PROVE h[k] = Line(k, h)
  <2>1. Line(k, h) = Line(k, g)
    BY <1>7
  <2>2. CASE k = m
    BY <1>6, <2>1, <2>2
  <2>3. CASE k # m
    <3>1. k \in 0 .. m - 1
      BY <1>2, <2>3
    <3>2. g[k] = Line(k, g)
      BY <1>5, <3>1, Zenon DEF Walks
    <3>. QED  BY <1>6, <2>1, <2>3, <3>2, Zenon
  <2>. QED  BY <2>2, <2>3
<1>9. h = [k \in 0 .. m |-> Line(k, h)]
  BY <1>6, <1>8, Zenon
<1>10. Walks(h, m, next)
  BY <1>9 DEF Walks
<1>. QED  BY <1>2, <1>10

(* A loop follows the pointers, and meets no more units than there are. *)
LEMMA ListFollows ==
  ASSUME NEW w, w.next \in Pointers, NEW l \in Links
  PROVE  Follows(ListFrom(w, l), w.next[l], w.next, Cardinality(Units))
<1>1. PICK N \in Nat : N = Cardinality(Units)
  BY LinkTypes
<1>2. PICK next \in Pointers : next = w.next
  OBVIOUS
<1>3. PICK g : Walks(g, N, next) /\ ListFrom(w, l) = g[N][next[l]]
  <2>1. \E g : Walks(g, N, next)
    BY WalksExists
  <2>. QED  BY <1>1, <1>2, <2>1, ListIsWalk
<1> DEFINE Line(k, a) == [u \in OrNone(Units) |-> IF u = None \/ k = 0 THEN << >>
                                                  ELSE << u >> \o a[k - 1][next[u]]]
<1>4. ASSUME NEW k \in 0 .. N, NEW u \in OrNone(Units)
      PROVE  /\ u = None \/ k = 0 => g[k][u] = << >>
             /\ u # None /\ k # 0 => g[k][u] = << u >> \o g[k - 1][next[u]]
  <2>1. g[k] = Line(k, g)
    BY <1>3 DEF Walks
  <2>2. g[k][u] = IF u = None \/ k = 0 THEN << >> ELSE << u >> \o g[k - 1][next[u]]
    BY <2>1, Zenon
  <2>. QED  BY <2>2, Zenon
<1> DEFINE T == {k \in 0 .. N : ~ \A u \in OrNone(Units) : Follows(g[k][u], u, next, k)}
<1>5. T = {}
  <2>1. SUFFICES ASSUME T # {} PROVE FALSE
    OBVIOUS
  <2>2. PICK k \in T : \A y \in T : k <= y
    <3>1. T \subseteq Nat
      OBVIOUS
    <3>. HIDE DEF T
    <3>. QED  BY <2>1, <3>1, MinOf
  <2>3. ASSUME NEW u \in OrNone(Units)
        PROVE  Follows(g[k][u], u, next, k)
    <3>1. CASE u = None \/ k = 0
      <4>1. g[k][u] = << >>
        BY <1>4, <2>2, <3>1
      <4>2. Len(<< >>) = 0 /\ << >> \in Seq(Units) /\ 1 .. 0 - 1 = {}
        OBVIOUS
      <4>3. k \in 0 .. N
        BY <2>2
      <4>. HIDE DEF T
      <4>. QED  BY <3>1, <4>1, <4>2, <4>3 DEF Follows
    <3>2. CASE u # None /\ k # 0
      <4>1. u \in Units /\ k - 1 \in 0 .. N /\ k - 1 < k /\ k \in Nat
        BY <2>2, <3>2 DEF OrNone
      <4>2. next[u] \in OrNone(Units)
        BY <4>1, LinkTypes DEF Pointers
      <4>3. Follows(g[k - 1][next[u]], next[u], next, k - 1)
        BY <2>2, <4>1, <4>2
      <4>4. g[k][u] = << u >> \o g[k - 1][next[u]]
        BY <1>4, <2>2, <3>2
      <4>. HIDE DEF T
      <4>. QED  BY <3>2, <4>1, <4>3, <4>4, FollowsOne
    <3>. QED  BY <3>1, <3>2
  <2>. QED  BY <2>2, <2>3
<1>6. N \in 0 .. N /\ next[l] \in OrNone(Units)
  BY DEF Pointers
<1>7. Follows(g[N][next[l]], next[l], next, N)
  BY <1>5, <1>6
<1>. QED  BY <1>1, <1>2, <1>3, <1>7

(* What a loop reads grows in depth, and stays in the region. *)
LEMMA FollowsDeep ==
  ASSUME NEW next \in Pointers, NEW home \in Homes, NEW pos \in Depths, Ranked(next, home, pos),
         NEW l \in Links, NEW N \in Nat, NEW t, Follows(t, next[l], next, N)
  PROVE  \A j \in 1 .. Len(t) :
           /\ home[t[j]] = home[l] /\ home[l] # None /\ pos[l] < pos[t[j]]
           /\ \A i \in 1 .. j - 1 : pos[t[i]] < pos[t[j]]
<1>1. PICK n \in Nat : n = Len(t)
  BY DEF Follows
<1>2. /\ \A i \in 1 .. n : t[i] \in Units /\ t[i] \in Links /\ t[i] # None
      /\ n # 0 => t[1] = next[l]
      /\ \A i \in 1 .. n - 1 : next[t[i]] = t[i + 1]
  <2>1. t \in Seq(Units) /\ (n # 0 => t # << >>)
    BY <1>1 DEF Follows
  <2>2. \A i \in 1 .. n : t[i] \in Units
    BY <1>1, <2>1
  <2>. QED  BY <1>1, <2>1, <2>2, LinkTypes DEF Follows
<1>3. /\ pos \in [Links -> Nat]
      /\ \A m \in Links : next[m] # None =>
            home[m] # None /\ home[next[m]] = home[m] /\ pos[m] < pos[next[m]]
  BY DEF Ranked, Depths
<1> DEFINE Deep(j) == /\ home[t[j]] = home[l] /\ home[l] # None /\ pos[l] < pos[t[j]]
                      /\ \A i \in 1 .. j - 1 : pos[t[i]] < pos[t[j]]
           T == {j \in 1 .. n : ~ Deep(j)}
<1>4. SUFFICES ASSUME T # {} PROVE FALSE
  BY <1>1
<1>5. PICK j \in T : \A y \in T : j <= y
  <2>1. T \subseteq Nat
    OBVIOUS
  <2>. HIDE DEF T
  <2>. QED  BY <1>4, <2>1, MinOf
<1>6. j # 1
  <2>1. SUFFICES ASSUME j = 1 PROVE Deep(1)
    OBVIOUS
  <2>2. t[1] = next[l] /\ t[1] # None
    BY <1>2, <1>5, <2>1
  <2>. QED  BY <1>3, <2>2
<1>7. PICK k \in 1 .. n - 1 : j = k + 1
  BY <1>5, <1>6
<1>8. k \in 1 .. n /\ k \notin T /\ k < j
  BY <1>5, <1>7
<1>9. Deep(k)
  BY <1>8
<1>10. t[j] = next[t[k]] /\ t[j] \in Links /\ t[k] \in Links /\ t[j] # None
  BY <1>2, <1>5, <1>7, <1>8
<1>11. home[t[j]] = home[t[k]] /\ pos[t[k]] < pos[t[j]]
  BY <1>3, <1>10
<1>12. \A i \in 1 .. j - 1 : t[i] \in Links /\ (i = k \/ i \in 1 .. k - 1)
  BY <1>2, <1>5, <1>7
<1>13. Deep(j)
  BY <1>3, <1>9, <1>10, <1>11, <1>12
<1>. QED  BY <1>5, <1>13

(* A list without repetitions has as many places as members, and no more   *)
(* than there are units.                                                   *)
LEMMA OnceLength ==
  ASSUME NEW t \in Seq(Units), Once(t)
  PROVE  /\ Len(t) \in Nat /\ IsFiniteSet(Range(t)) /\ Cardinality(Range(t)) = Len(t)
         /\ Len(t) <= Cardinality(Units)
         /\ Len(t) = Cardinality(Units) => Range(t) = Units
<1>1. PICK n \in Nat : n = Len(t)
  OBVIOUS
<1>2. IsFiniteSet(1 .. n) /\ Cardinality(1 .. n) = n
  <2>1. IsFiniteSet(1 .. n) /\ Cardinality(1 .. n) = IF 1 > n THEN 0 ELSE n - 1 + 1
    BY FS_Interval
  <2>. QED  BY <2>1
<1>3. PICK f : f = [i \in 1 .. n |-> t[i]]
  OBVIOUS
<1>4. f \in Surjection(1 .. n, Range(t)) /\ f \in Injection(1 .. n, Range(t))
  <2>1. f \in [1 .. n -> Range(t)]
    BY <1>1, <1>3 DEF Range
  <2>2. \A x \in Range(t) : \E i \in 1 .. n : f[i] = x
    BY <1>1, <1>3 DEF Range
  <2>3. \A i, j \in 1 .. n : f[i] = f[j] => i = j
    BY <1>1, <1>3 DEF Once
  <2>. QED  BY <2>1, <2>2, <2>3 DEF Surjection, Injection, IsInjective
<1>5. IsFiniteSet(Range(t)) /\ Cardinality(Range(t)) = Cardinality(1 .. n)
  BY <1>2, <1>4, FS_Surjection
<1>6. Range(t) \in SUBSET Units
  BY DEF Range
<1>7. Cardinality(Range(t)) <= Cardinality(Units) /\ (Cardinality(Range(t)) = Cardinality(Units) => Range(t) = Units)
  BY <1>6, LinkTypes, FS_Subset
<1>. QED  BY <1>1, <1>2, <1>5, <1>7

LEMMA ListOf ==
  ASSUME NEW w, w.next \in Pointers, NEW home \in Homes, NEW pos \in Depths,
         Ranked(w.next, home, pos), NEW l \in Links
  PROVE  LET t == ListFrom(w, l) IN
         /\ t \in Seq(Units) /\ Once(t) /\ Len(t) = Cardinality(Range(t))
         /\ \A i \in 1 .. Len(t) : home[t[i]] = home[l] /\ home[l] # None /\ pos[l] < pos[t[i]]
         /\ t = << >> => w.next[l] = None
         /\ t # << >> => t[1] = w.next[l] /\ w.next[t[Len(t)]] = None
         /\ \A i \in 1 .. Len(t) - 1 : w.next[t[i]] = t[i + 1]
<1>1. PICK N \in Nat : N = Cardinality(Units)
  BY LinkTypes
<1>2. PICK next, t : next \in Pointers /\ next = w.next /\ t = ListFrom(w, l)
  OBVIOUS
<1>3. Follows(t, next[l], next, N)
  BY <1>1, <1>2, ListFollows
<1>4. PICK n \in Nat : n = Len(t) /\ n <= N
  BY <1>3 DEF Follows
<1>5. t \in Seq(Units) /\ DOMAIN t = 1 .. n
  BY <1>3, <1>4 DEF Follows
<1>6. Ranked(next, home, pos)
  BY <1>2
<1>7. \A j \in 1 .. n :
           /\ home[t[j]] = home[l] /\ home[l] # None /\ pos[l] < pos[t[j]]
           /\ \A i \in 1 .. j - 1 : pos[t[i]] < pos[t[j]]
  BY <1>2, <1>3, <1>4, <1>6, FollowsDeep
<1>8. \A i \in 1 .. n : t[i] \in Links /\ pos[t[i]] \in Nat /\ t[i] \in Units
  BY <1>5, LinkTypes DEF Depths
<1>9. Once(t)
  <2>1. SUFFICES ASSUME NEW i \in 1 .. n, NEW j \in 1 .. n, t[i] = t[j]
                 PROVE  i = j
    BY <1>5 DEF Once
  <2>2. ~ (i < j) /\ ~ (j < i)
    <3>1. i < j => i \in 1 .. j - 1
      OBVIOUS
    <3>2. j < i => j \in 1 .. i - 1
      OBVIOUS
    <3>3. \A a \in Nat : ~ (a < a)
      OBVIOUS
    <3>. QED  BY <1>7, <1>8, <2>1, <3>1, <3>2, <3>3
  <2>. QED  BY <2>2
<1>10. Len(t) = Cardinality(Range(t)) /\ (n = N => Range(t) = Units)
  BY <1>1, <1>4, <1>5, <1>9, OnceLength
<1>11. ASSUME t # << >>
       PROVE  next[t[n]] = None
  <2>1. n \in 1 .. n
    BY <1>4, <1>5, <1>11
  <2>2. CASE n < N
    BY <1>3, <1>4, <1>11, <2>2 DEF Follows
  <2>3. CASE n = N
    <3>1. SUFFICES ASSUME next[t[n]] # None PROVE FALSE
      OBVIOUS
    <3>2. PICK x : x = next[t[n]]
      OBVIOUS
    <3>3. x \in Units /\ pos[t[n]] < pos[x] /\ x \in Links
      BY <1>2, <1>8, <2>1, <3>1, <3>2, LinkTypes, <1>6 DEF Pointers, OrNone, Ranked
    <3>4. PICK i \in 1 .. n : x = t[i]
      BY <1>5, <1>10, <2>3, <3>3 DEF Range
    <3>5. i = n \/ i \in 1 .. n - 1
      OBVIOUS
    <3>6. pos[t[i]] <= pos[t[n]]
      BY <1>7, <1>8, <2>1, <3>5
    <3>. QED  BY <1>8, <2>1, <3>3, <3>4, <3>6
  <2>. QED  BY <1>4, <2>2, <2>3
<1>12. /\ t = << >> => next[l] = None
       /\ t # << >> => t[1] = next[l]
  <2>1. ASSUME N = 0  PROVE next[l] = None
    BY <1>1, <1>2, <2>1, LinkTypes, FS_EmptySet DEF Pointers, OrNone
  <2>. QED  BY <1>3, <2>1 DEF Follows
<1>13. \A i \in 1 .. n - 1 : next[t[i]] = t[i + 1]
  BY <1>3, <1>4 DEF Follows
<1>. QED  BY <1>2, <1>4, <1>5, <1>7, <1>9, <1>10, <1>11, <1>12, <1>13

(* t is the list of r: every unit of the region is on it. *)
Reads(t, next, home, r) ==
  /\ t \in Seq(Units) /\ Once(t) /\ Len(t) = Cardinality(Range(t))
  /\ Range(t) = {u \in Units : home[u] = r}
  /\ home[Last(<< r >> \o t)] = r /\ Last(<< r >> \o t) \in Links
  /\ next[Last(<< r >> \o t)] = None

LEMMA ListOfRegion ==
  ASSUME NEW w, w.next \in Pointers, NEW home \in Homes, Chained(w.next, home), NEW r \in Regions
  PROVE  Reads(ListFrom(w, r), w.next, home, r)
<1>1. PICK pos \in Depths : Ranked(w.next, home, pos)
  BY DEF Chained
<1>2. PICK next, t : next \in Pointers /\ next = w.next /\ t = ListFrom(w, r)
  OBVIOUS
<1>3. r \in Links /\ home[r] = r /\ r # None
  BY <1>1, LinkTypes DEF Ranked
<1>4. /\ t \in Seq(Units) /\ Once(t) /\ Len(t) = Cardinality(Range(t))
      /\ \A i \in 1 .. Len(t) : home[t[i]] = r /\ pos[r] < pos[t[i]]
      /\ t = << >> => next[r] = None
      /\ t # << >> => t[1] = next[r] /\ next[t[Len(t)]] = None
      /\ \A i \in 1 .. Len(t) - 1 : next[t[i]] = t[i + 1]
  BY <1>1, <1>2, <1>3, ListOf
<1>5. PICK n \in Nat : n = Len(t) /\ DOMAIN t = 1 .. n
  BY <1>4
<1>6. Range(t) \subseteq {u \in Units : home[u] = r}
  <2>1. \A x \in Range(t) : \E i \in 1 .. n : x = t[i]
    BY <1>5 DEF Range
  <2>2. \A i \in 1 .. n : t[i] \in Units /\ home[t[i]] = r
    BY <1>4, <1>5
  <2>. QED  BY <2>1, <2>2
<1> DEFINE Lost == {u \in Units : home[u] = r /\ u \notin Range(t)}
           Depth == {pos[u] : u \in Lost}
<1>7. Lost = {}
  <2>1. SUFFICES ASSUME Lost # {} PROVE FALSE
    OBVIOUS
  <2>2. Depth # {} /\ Depth \subseteq Nat
    BY <2>1, LinkTypes DEF Depths
  <2>3. PICK d \in Depth : \A y \in Depth : d <= y
    <3>. HIDE DEF Depth
    <3>. QED  BY <2>2, MinOf
  <2>4. PICK u \in Lost : d = pos[u]
    BY <2>3
  <2>5. PICK p \in Links : next[p] = u
    BY <1>1, <1>2, <1>3, <2>4 DEF Ranked
  <2>6. u # None /\ home[p] = r /\ pos[p] < pos[u]
    BY <1>1, <1>2, <1>3, <2>4, <2>5, LinkTypes DEF Ranked
  <2>7. CASE p \in Regions
    <3>1. p = r
      BY <1>1, <2>6, <2>7 DEF Ranked
    <3>2. t # << >> /\ t[1] = u
      BY <1>4, <2>5, <2>6, <3>1
    <3>3. 1 \in 1 .. n
      BY <1>4, <1>5, <3>2
    <3>. QED  BY <1>5, <2>4, <3>2, <3>3 DEF Range
  <2>8. CASE p \in Units
    <3>1. pos[p] \in Nat /\ pos[u] \in Nat /\ ~ (pos[u] <= pos[p])
      <4>1. pos[p] \in Nat /\ pos[u] \in Nat
        BY <2>4, <2>5, LinkTypes DEF Depths
      <4>. QED  BY <2>6, <4>1
    <3>2. p \in Range(t)
      <4>1. p \notin Lost
        BY <2>3, <2>4, <3>1
      <4>. QED  BY <2>6, <2>8, <4>1
    <3>3. PICK i \in 1 .. n : t[i] = p
      BY <1>5, <3>2 DEF Range
    <3>4. i # n
      BY <1>4, <1>5, <2>5, <2>6, <3>3
    <3>5. i \in 1 .. n - 1 /\ i + 1 \in 1 .. n
      BY <3>4
    <3>6. t[i + 1] = u
      BY <1>4, <1>5, <2>5, <3>3, <3>5
    <3>. QED  BY <1>5, <2>4, <3>5, <3>6 DEF Range
  <2>. QED  BY <2>5, <2>7, <2>8 DEF Links
<1>8. Range(t) = {u \in Units : home[u] = r}
  BY <1>6, <1>7
<1>9. PICK e : e = Last(<< r >> \o t)
  OBVIOUS
<1>10. /\ t = << >> => e = r
       /\ t # << >> => e = t[n] /\ n \in 1 .. n
  <2>1. PICK s : s = << r >> \o t
    OBVIOUS
  <2>2. s \in Seq(Links) /\ Len(s) = n + 1 /\ s[1] = r /\ \A i \in 1 .. n : s[i + 1] = t[i]
    <3>1. t \in Seq(Links) /\ << r >> \in Seq(Links)
      BY <1>3, <1>4, LinkTypes
    <3>. QED  BY <1>5, <2>1, <3>1
  <2>3. e = s[n + 1]
    BY <1>9, <2>1, <2>2 DEF Last
  <2>4. t = << >> <=> n = 0
    BY <1>4, <1>5
  <2>. QED  BY <2>2, <2>3, <2>4
<1>11. home[e] = r /\ e \in Links /\ next[e] = None
  <2>1. CASE t = << >>
    BY <1>3, <1>4, <1>10, <2>1
  <2>2. CASE t # << >>
    BY <1>4, <1>5, <1>10, <2>2, LinkTypes
  <2>. QED  BY <2>1, <2>2
<1>12. Reads(t, next, home, r)
  BY <1>4, <1>8, <1>9, <1>11 DEF Reads
<1>. QED  BY <1>2, <1>12

-----------------------------------------------------------------------------
(* What the program does with pointers *)

(* The last pointer of a list is set to a unit that is on none. *)
LEMMA JoinChain ==
  ASSUME NEW next \in Pointers, NEW home \in Homes, Chained(next, home),
         NEW u \in Units, home[u] = None, NEW r \in Regions,
         NEW l \in Links, home[l] = r, next[l] = None
  PROVE  /\ Assign(next, l, u) \in Pointers /\ [home EXCEPT ![u] = r] \in Homes
         /\ Chained(Assign(next, l, u), [home EXCEPT ![u] = r])
<1>1. PICK pos \in Depths : Ranked(next, home, pos)
  BY DEF Chained
<1>2. PICK n, h, p : /\ n = Assign(next, l, u) /\ h = [home EXCEPT ![u] = r]
                     /\ p = [pos EXCEPT ![u] = pos[l] + 1]
  OBVIOUS
<1>3. u \in Links /\ r # None /\ u # None /\ u \notin Regions /\ l # u /\ pos[l] \in Nat
  BY LinkTypes DEF Depths
<1>4. n \in Pointers /\ h \in Homes /\ p \in Depths
  BY <1>2, <1>3 DEF Assign, Pointers, Homes, Depths, OrNone
<1>5. /\ n[l] = u /\ h[u] = r /\ p[u] = pos[l] + 1
      /\ \A m \in Links : m # l => n[m] = next[m]
      /\ \A m \in Links : m # u => h[m] = home[m] /\ p[m] = pos[m]
  BY <1>2, <1>3 DEF Assign, Pointers, Homes, Depths
<1>6. /\ next[u] = None
      /\ \A m \in Links : next[m] # u
  BY <1>1, <1>3 DEF Ranked
<1>7. \A a \in Regions : h[a] = a
  BY <1>1, <1>3, <1>5, LinkTypes DEF Ranked
<1>8. ASSUME NEW m \in Links, n[m] # None
      PROVE  h[m] # None /\ h[n[m]] = h[m] /\ p[m] < p[n[m]]
  <2>1. CASE m = l
    BY <1>3, <1>5, <2>1
  <2>2. CASE m # l
    <3>1. n[m] = next[m] /\ m # u /\ next[m] # u /\ next[m] \in Links
      BY <1>5, <1>6, <1>8, <2>2, LinkTypes DEF Pointers, OrNone
    <3>. QED  BY <1>1, <1>5, <1>8, <3>1 DEF Ranked
  <2>. QED  BY <2>1, <2>2
<1>9. ASSUME NEW a \in Links, NEW b \in Links, n[a] = n[b], n[a] # None
      PROVE  a = b
  BY <1>1, <1>5, <1>6, <1>9 DEF Ranked
<1>10. ASSUME NEW v \in Units, h[v] # None
       PROVE  \E m \in Links : n[m] = v
  <2>1. CASE v = u
    BY <1>5, <2>1
  <2>2. CASE v # u
    <3>1. home[v] # None
      BY <1>5, <1>10, <2>2, LinkTypes
    <3>2. PICK m \in Links : next[m] = v
      BY <1>1, <3>1 DEF Ranked
    <3>3. m # l
      BY <3>2, LinkTypes
    <3>. QED  BY <1>5, <3>2, <3>3
  <2>. QED  BY <2>1, <2>2
<1>11. Ranked(n, h, p)
  BY <1>7, <1>8, <1>9, <1>10 DEF Ranked
<1>. QED  BY <1>2, <1>4, <1>11 DEF Chained

(* The pointer to u is set to the next unit, and that of u to none. *)
LEMMA ChopChain ==
  ASSUME NEW next \in Pointers, NEW home \in Homes, Chained(next, home),
         NEW u \in Units, NEW l \in Links, next[l] = u
  PROVE  /\ Assign(Assign(next, l, next[u]), u, None) \in Pointers
         /\ [home EXCEPT ![u] = None] \in Homes
         /\ Chained(Assign(Assign(next, l, next[u]), u, None), [home EXCEPT ![u] = None])
<1>1. PICK pos \in Depths : Ranked(next, home, pos)
  BY DEF Chained
<1>2. PICK n, h : n = Assign(Assign(next, l, next[u]), u, None) /\ h = [home EXCEPT ![u] = None]
  OBVIOUS
<1>3. /\ u \in Links /\ u # None /\ u \notin Regions /\ next[u] \in OrNone(Units)
      /\ home[l] # None /\ home[u] = home[l] /\ pos[l] < pos[u]
  BY <1>1, LinkTypes DEF Ranked, Pointers
<1>4. l # u /\ \A x \in Links : pos[x] \in Nat
  BY <1>3 DEF Depths
<1>5. n \in Pointers /\ h \in Homes
  BY <1>2, <1>3 DEF Assign, Pointers, Homes, OrNone
<1>6. /\ n[l] = next[u] /\ n[u] = None /\ h[u] = None
      /\ \A m \in Links : m # l /\ m # u => n[m] = next[m]
      /\ \A m \in Links : m # u => h[m] = home[m]
  BY <1>2, <1>3, <1>4 DEF Assign, Pointers, Homes
<1>7. \A a \in Regions : h[a] = a
  BY <1>1, <1>3, <1>6, LinkTypes DEF Ranked
<1>8. next[u] # None => next[u] \in Links /\ next[u] # u /\ home[next[u]] = home[u] /\ pos[u] < pos[next[u]]
  <2>1. next[u] # None => next[u] \in Links /\ home[next[u]] = home[u] /\ pos[u] < pos[next[u]]
    BY <1>1, <1>3, LinkTypes DEF Ranked, OrNone
  <2>. QED  BY <1>3, <1>4, <2>1
<1>9. ASSUME NEW m \in Links, n[m] # None
      PROVE  h[m] # None /\ h[n[m]] = h[m] /\ pos[m] < pos[n[m]]
  <2>1. CASE m = l
    <3>1. pos[l] < pos[next[u]]
      BY <1>3, <1>4, <1>6, <1>8, <1>9, <2>1
    <3>. QED  BY <1>3, <1>4, <1>6, <1>8, <1>9, <2>1, <3>1
  <2>2. CASE m # l /\ m # u
    <3>1. n[m] = next[m] /\ next[m] # u /\ next[m] \in Links
      BY <1>1, <1>3, <1>6, <1>9, <2>2, LinkTypes DEF Pointers, OrNone, Ranked
    <3>. QED  BY <1>1, <1>6, <1>9, <2>2, <3>1 DEF Ranked
  <2>3. CASE m = u
    BY <1>6, <1>9, <2>3
  <2>. QED  BY <2>1, <2>2, <2>3
<1>10. ASSUME NEW a \in Links, NEW b \in Links, n[a] = n[b], n[a] # None
       PROVE  a = b
  <2>1. a # u /\ b # u
    BY <1>6, <1>10
  <2>2. CASE a = l /\ b # l
    BY <1>1, <1>3, <1>6, <1>10, <2>1, <2>2 DEF Ranked
  <2>3. CASE b = l /\ a # l
    BY <1>1, <1>3, <1>6, <1>10, <2>1, <2>3 DEF Ranked
  <2>4. CASE a # l /\ b # l
    BY <1>1, <1>6, <1>10, <2>1, <2>4 DEF Ranked
  <2>. QED  BY <2>2, <2>3, <2>4
<1>11. ASSUME NEW v \in Units, h[v] # None
       PROVE  \E m \in Links : n[m] = v
  <2>1. v # u /\ home[v] # None
    BY <1>6, <1>11, LinkTypes
  <2>2. PICK m \in Links : next[m] = v
    BY <1>1, <2>1 DEF Ranked
  <2>3. CASE m = u
    BY <1>6, <2>2, <2>3
  <2>4. CASE m # u
    BY <1>6, <2>1, <2>2, <2>4
  <2>. QED  BY <2>3, <2>4
<1>12. Ranked(n, h, pos)
  BY <1>7, <1>9, <1>10, <1>11 DEF Ranked
<1>. QED  BY <1>2, <1>5, <1>12 DEF Chained

(* The unit behind up is put behind at: between at and what followed it. *)
Moved(pos, u, at) == [l \in Links |-> IF l = u THEN 2 * pos[at] + 1 ELSE 2 * pos[l]]

LEMMA RelinkChain ==
  ASSUME NEW next \in Pointers, NEW home \in Homes, NEW pos \in Depths, Ranked(next, home, pos),
         NEW up \in Links, NEW at \in Links, home[up] = home[at],
         NEW u \in Units, next[up] = u, at # u, at # up
  PROVE  /\ Relink(next, up, at) \in Pointers /\ Moved(pos, u, at) \in Depths
         /\ Ranked(Relink(next, up, at), home, Moved(pos, u, at))
<1>1. PICK n, p : n = Relink(next, up, at) /\ p = Moved(pos, u, at)
  OBVIOUS
<1>2. /\ u \in Links /\ u # None /\ next[u] \in OrNone(Units) /\ next[at] \in OrNone(Units)
      /\ home[up] # None /\ home[u] = home[up] /\ pos[up] < pos[u]
  BY LinkTypes DEF Ranked, Pointers
<1>3. up # u /\ \A x \in Links : pos[x] \in Nat
  BY <1>2 DEF Depths
<1>4. n = [[[next EXCEPT ![up] = next[u]] EXCEPT ![u] = next[at]] EXCEPT ![at] = u]
  <2>1. [next EXCEPT ![up] = next[u]][at] = next[at]
    BY DEF Pointers
  <2>. QED  BY <1>1, <2>1 DEF Relink, Assign
<1>5. /\ n \in Pointers
      /\ n[up] = next[u] /\ n[u] = next[at] /\ n[at] = u
      /\ \A m \in Links : m # up /\ m # u /\ m # at => n[m] = next[m]
  BY <1>2, <1>3, <1>4 DEF Pointers, OrNone
<1>6. /\ p \in Depths /\ p[u] = 2 * pos[at] + 1
      /\ \A m \in Links : m # u => p[m] = 2 * pos[m]
  <2>1. \A x \in Links : 2 * pos[x] \in Nat /\ 2 * pos[x] + 1 \in Nat
    BY <1>3
  <2>2. p = [l \in Links |-> IF l = u THEN 2 * pos[at] + 1 ELSE 2 * pos[l]]
    BY <1>1 DEF Moved
  <2>. QED  BY <1>2, <2>1, <2>2 DEF Depths
<1>7. /\ next[u] # None => next[u] \in Links /\ next[u] # u /\ home[next[u]] = home[u] /\ pos[u] < pos[next[u]]
      /\ next[at] # None => next[at] \in Links /\ next[at] # u /\ home[next[at]] = home[at] /\ pos[at] < pos[next[at]]
  <2>1. /\ next[u] # None => next[u] \in Links /\ home[next[u]] = home[u] /\ pos[u] < pos[next[u]]
        /\ next[at] # None => next[at] \in Links /\ home[next[at]] = home[at] /\ pos[at] < pos[next[at]]
    BY <1>2, LinkTypes DEF Ranked, OrNone
  <2>2. next[at] # u
    BY <1>2 DEF Ranked
  <2>. QED  BY <1>2, <1>3, <2>1, <2>2
<1>8. ASSUME NEW m \in Links, n[m] # None
      PROVE  home[m] # None /\ home[n[m]] = home[m] /\ p[m] < p[n[m]]
  <2>1. CASE m = up
    <3>1. pos[up] < pos[next[u]] /\ pos[next[u]] \in Nat /\ pos[up] \in Nat
      BY <1>2, <1>3, <1>5, <1>7, <1>8, <2>1
    <3>2. p[up] = 2 * pos[up] /\ p[next[u]] = 2 * pos[next[u]]
      BY <1>3, <1>5, <1>6, <1>7, <1>8, <2>1
    <3>3. p[up] < p[next[u]]
      BY <3>1, <3>2
    <3>. QED  BY <1>2, <1>5, <1>7, <1>8, <2>1, <3>3
  <2>2. CASE m = u
    <3>1. pos[at] < pos[next[at]] /\ pos[next[at]] \in Nat /\ pos[at] \in Nat
      BY <1>3, <1>5, <1>7, <1>8, <2>2
    <3>2. p[next[at]] = 2 * pos[next[at]] /\ p[u] = 2 * pos[at] + 1
      BY <1>5, <1>6, <1>7, <1>8, <2>2
    <3>3. p[u] < p[next[at]]
      BY <3>1, <3>2
    <3>. QED  BY <1>2, <1>5, <1>7, <1>8, <2>2, <3>3
  <2>3. CASE m = at
    <3>1. p[at] = 2 * pos[at] /\ p[u] = 2 * pos[at] + 1 /\ pos[at] \in Nat
      BY <1>3, <1>6
    <3>2. p[at] < p[u]
      BY <3>1
    <3>. QED  BY <1>2, <1>5, <2>3, <3>2
  <2>4. CASE m # up /\ m # u /\ m # at
    <3>1. n[m] = next[m] /\ next[m] \in Links /\ next[m] # u
      BY <1>2, <1>5, <1>8, <2>4, LinkTypes DEF Pointers, OrNone, Ranked
    <3>2. home[m] # None /\ home[next[m]] = home[m] /\ pos[m] < pos[next[m]]
      BY <1>8, <3>1 DEF Ranked
    <3>3. p[m] = 2 * pos[m] /\ p[next[m]] = 2 * pos[next[m]] /\ pos[m] \in Nat /\ pos[next[m]] \in Nat
      BY <1>3, <1>6, <2>4, <3>1
    <3>4. p[m] < p[next[m]]
      BY <3>2, <3>3
    <3>. QED  BY <3>1, <3>2, <3>4
  <2>. QED  BY <2>1, <2>2, <2>3, <2>4
<1>9. ASSUME NEW a \in Links, NEW b \in Links, n[a] = n[b], n[a] # None
      PROVE  a = b
  <2>1. \A m \in Links : n[m] # None =>
           \/ m = up /\ n[m] = next[u] /\ n[m] # u
           \/ m = u /\ n[m] = next[at] /\ n[m] # u
           \/ m = at /\ n[m] = u
           \/ m \notin {up, u, at} /\ n[m] = next[m] /\ n[m] # u
    BY <1>2, <1>5, <1>7 DEF Ranked
  <2>2. \A x, y \in Links : next[x] = next[y] /\ next[x] # None => x = y
    BY DEF Ranked
  <2>. QED  BY <1>2, <1>3, <1>9, <2>1, <2>2
<1>10. ASSUME NEW v \in Units, home[v] # None
       PROVE  \E m \in Links : n[m] = v
  <2>1. CASE v = u
    BY <1>5, <2>1
  <2>2. CASE v # u
    <3>1. PICK m \in Links : next[m] = v
      BY <1>10 DEF Ranked
    <3>2. m # up
      BY <2>2, <3>1
    <3>3. CASE m = u
      BY <1>5, <3>1, <3>3
    <3>4. CASE m = at
      BY <1>2, <1>5, <3>1, <3>4
    <3>5. CASE m # u /\ m # at
      BY <1>5, <3>1, <3>2, <3>5
    <3>. QED  BY <3>3, <3>4, <3>5
  <2>. QED  BY <2>1, <2>2
<1>11. Ranked(n, home, p)
  <2>1. \A r \in Regions : home[r] = r
    BY DEF Ranked
  <2>. QED  BY <1>8, <1>9, <1>10, <2>1 DEF Ranked
<1>. QED  BY <1>1, <1>5, <1>6, <1>11

(* Behind up it is already. *)
LEMMA RelinkSame ==
  ASSUME NEW next \in Pointers, NEW up \in Links, NEW u \in Units, next[up] = u, up # u
  PROVE  Relink(next, up, up) = next
<1>1. PICK n1, n2, n3 : /\ n1 = [next EXCEPT ![up] = next[u]]
                        /\ n2 = [n1 EXCEPT ![u] = n1[up]]
                        /\ n3 = [n2 EXCEPT ![up] = u]
  OBVIOUS
<1>2. n3 = Relink(next, up, up)
  BY <1>1 DEF Relink, Assign
<1>3. u \in Links
  BY LinkTypes
<1>4. n1 \in Pointers /\ n1[up] = next[u]
  BY <1>1, <1>3 DEF Pointers
<1>5. DOMAIN n3 = Links /\ \A l \in Links : n3[l] = next[l]
  BY <1>1, <1>3, <1>4 DEF Pointers
<1>6. n3 = next
  BY <1>1, <1>5 DEF Pointers
<1>. QED  BY <1>2, <1>6

LEMMA RelinkSound ==
  ASSUME NEW next \in Pointers, NEW home \in Homes, Chained(next, home),
         NEW up \in Links, NEW at \in Links, home[up] = home[at],
         NEW u \in Units, next[up] = u, at # u
  PROVE  Relink(next, up, at) \in Pointers /\ Chained(Relink(next, up, at), home)
<1>1. PICK pos \in Depths : Ranked(next, home, pos)
  BY DEF Chained
<1>2. u # None /\ u \in Links /\ up # u
  <2>1. u # None /\ u \in Links
    BY LinkTypes
  <2>2. pos[up] < pos[u] /\ pos[u] \in Nat
    BY <1>1, <2>1 DEF Ranked, Depths
  <2>. QED  BY <2>1, <2>2
<1>3. CASE at = up
  BY <1>2, <1>3, RelinkSame
<1>4. CASE at # up
  BY <1>1, <1>4, RelinkChain DEF Chained
<1>. QED  BY <1>3, <1>4

(* A loop whose turns keep Q *)
LEMMA AlongStays ==
  ASSUME NEW T, NEW t \in Seq(T), NEW f, NEW Q, NEW v \in Q, \A x \in Q, e \in T : f[x][e] \in Q
  PROVE  Along(f, v, t) \in Q
<1>1. PICK n \in Nat : n = Len(t) /\ \A k \in 1 .. n : t[k] \in T
  OBVIOUS
<1>2. PICK P : P = [k \in 0 .. n |-> Q]
  OBVIOUS
<1>3. /\ v \in P[0] /\ P[n] = Q
      /\ \A k \in 1 .. n : \A x \in P[k - 1] : f[x][t[k]] \in P[k]
  BY <1>1, <1>2
<1>. QED  BY <1>1, <1>3, AlongKeeps

(* Q[R] is what holds when the turns for the members of R are to come. *)
LEMMA AlongOnce ==
  ASSUME NEW T, NEW t \in Seq(T), Once(t), NEW f, NEW Q, NEW v \in Q[Range(t)],
         \A R \in SUBSET T : \A e \in R, x \in Q[R] : f[x][e] \in Q[R \ {e}]
  PROVE  Along(f, v, t) \in Q[{}]
<1>1. PICK n \in Nat : n = Len(t) /\ DOMAIN t = 1 .. n /\ \A k \in 1 .. n : t[k] \in T
  OBVIOUS
<1> DEFINE Rest(k) == {t[i] : i \in k + 1 .. n}
<1>2. PICK P : P = [k \in 0 .. n |-> Q[Rest(k)]]
  OBVIOUS
<1>3. Rest(0) = Range(t)
  BY <1>1 DEF Range
<1>4. Rest(n) = {}
  BY <1>1
<1>5. ASSUME NEW k \in 1 .. n
      PROVE  /\ k - 1 \in 0 .. n /\ t[k] \in Rest(k - 1) /\ Rest(k - 1) \in SUBSET T
             /\ Rest(k) = Rest(k - 1) \ {t[k]}
  <2>1. k \in (k - 1) + 1 .. n /\ \A i \in (k - 1) + 1 .. n : i \in 1 .. n /\ (i = k \/ i \in k + 1 .. n)
    OBVIOUS
  <2>2. \A i \in k + 1 .. n : i \in (k - 1) + 1 .. n /\ i # k /\ i \in 1 .. n
    OBVIOUS
  <2>3. \A i \in k + 1 .. n : t[i] # t[k]
    BY <1>1, <2>2 DEF Once
  <2>. QED  BY <1>1, <2>1, <2>2, <2>3
<1>6. v \in P[0] /\ P[n] = Q[{}]
  <2>. HIDE DEF Rest
  <2>1. 0 \in 0 .. n /\ n \in 0 .. n
    OBVIOUS
  <2>2. P[0] = Q[Rest(0)] /\ P[n] = Q[Rest(n)]
    BY <1>2, <2>1
  <2>. QED  BY <1>3, <1>4, <2>2
<1>7. ASSUME NEW k \in 1 .. n, NEW x \in P[k - 1]
      PROVE  f[x][t[k]] \in P[k]
  <2>1. PICK R, e : R = Rest(k - 1) /\ e = t[k]
    OBVIOUS
  <2>2. R \in SUBSET T /\ e \in R /\ x \in Q[R] /\ P[k] = Q[R \ {e}]
    <3>. HIDE DEF Rest
    <3>1. R \in SUBSET T /\ e \in R /\ Rest(k) = R \ {e}
      BY <1>5, <2>1
    <3>2. P[k - 1] = Q[Rest(k - 1)] /\ P[k] = Q[Rest(k)]
      BY <1>2, <1>5
    <3>. QED  BY <1>7, <2>1, <3>1, <3>2
  <2>3. f[x][e] \in Q[R \ {e}]
    BY <2>2
  <2>. QED  BY <2>1, <2>2, <2>3
<1>. QED  BY <1>1, <1>6, <1>7, AlongKeeps

LEMMA AlongSet ==
  ASSUME NEW S, IsFiniteSet(S), NEW f, NEW Q, NEW v \in Q[S],
         \A R \in SUBSET S : \A e \in R, x \in Q[R] : f[x][e] \in Q[R \ {e}]
  PROVE  Along(f, v, SetToSeq(S)) \in Q[{}]
<1>1. PICK n \in Nat : n = Cardinality(S) /\ ExistsBijection(1 .. n, S)
  BY FS_CardinalityType
<1>2. PICK f0 \in [1 .. n -> S] : (\A i, j \in 1 .. n : f0[i] = f0[j] => i = j) /\ \A e \in S : \E i \in 1 .. n : f0[i] = e
  BY <1>1 DEF ExistsBijection, Bijection, Injection, Surjection, IsInjective
<1>3. \E g \in [1 .. Cardinality(S) -> S] : IsInjective(g)
  BY <1>1, <1>2 DEF IsInjective
<1>4. PICK t : t = SetToSeq(S) /\ t \in [1 .. n -> S] /\ IsInjective(t)
  BY <1>1, <1>3 DEF SetToSeq
<1>5. t \in Seq(S) /\ Once(t) /\ Len(t) = n
  BY <1>4 DEF Once, IsInjective
<1>6. Range(t) = S
  <2>1. Range(t) \in SUBSET S /\ t \in [1 .. n -> Range(t)]
    BY <1>4 DEF Range
  <2>2. t \in Bijection(1 .. n, Range(t))
    BY <1>4, <2>1 DEF Bijection, Injection, Surjection, IsInjective, Range
  <2>3. ExistsBijection(1 .. n, Range(t))
    BY <2>2 DEF ExistsBijection
  <2>4. Cardinality(Range(t)) = n
    BY <2>3, FS_CountingElements
  <2>. QED  BY <1>1, <2>1, <2>4, FS_Subset
<1>. QED  BY <1>4, <1>5, <1>6, AlongOnce

(* The list of a region, once more *)
LEMMA RegionList ==
  ASSUME NEW w, w.next \in Pointers, NEW home \in Homes, Chained(w.next, home), NEW r \in Regions
  PROVE  /\ ListFrom(w, r) \in Seq(Units) /\ Once(ListFrom(w, r))
         /\ Len(ListFrom(w, r)) = Cardinality(Range(ListFrom(w, r)))
         /\ Range(ListFrom(w, r)) = {u \in Units : home[u] = r}
<1>1. Reads(ListFrom(w, r), w.next, home, r)
  BY ListOfRegion
<1>. QED  BY <1>1 DEF Reads

(* The units on the list of a region, one after the other *)
LEMMA ForAllKeeps ==
  ASSUME NEW w, w.next \in Pointers, NEW home \in Homes, Chained(w.next, home), NEW r \in Regions,
         NEW f, NEW Q, w \in Q[{u \in Units : home[u] = r}],
         \A R \in SUBSET Units : \A u \in R, x \in Q[R] : f[x][u] \in Q[R \ {u}]
  PROVE  ForAll(w, r, f) \in Q[{}]
<1>1. PICK t : t = ListFrom(w, r)
  OBVIOUS
<1>2. t \in Seq(Units) /\ Once(t) /\ Range(t) = {u \in Units : home[u] = r}
  <2>1. /\ ListFrom(w, r) \in Seq(Units) /\ Once(ListFrom(w, r))
        /\ Range(ListFrom(w, r)) = {u \in Units : home[u] = r}
    BY RegionList
  <2>. QED  BY <1>1, <2>1
<1>3. Along(f, w, t) \in Q[{}]
  BY <1>2, AlongOnce
<1>. QED  BY <1>1, <1>3 DEF ForAll

-----------------------------------------------------------------------------
(* The structs *)

(* The region whose list a pointer is on *)
HomeOf(w) == [l \in Links |-> IF l \in Regions THEN l ELSE w.region[l]]

InLists(w) == w \in WorldType /\ Chained(w.next, HomeOf(w))

(* Nobody is in two places, and who is nowhere is in none. *)
Apart(w) ==
  \A u \in Units :
    /\ w.building[u] = None \/ w.ship[u] = None
    /\ w.region[u] = None => w.building[u] = None /\ w.ship[u] = None /\ u \notin w.living

Afloat(w) == \A sh \in w.fleet : w.berth[sh] # None

(* OwnersAreInside, of any world *)
Ruled(w) ==
  \A x \in Places : \A u \in Units :
    w.berth[x] # None /\ w.owner[x] = u => x \in {w.building[u], w.ship[u]} \cup PayBuildings

Sound(w) == InLists(w) /\ Apart(w) /\ Afloat(w) /\ Ruled(w)

Near(w, u) ==
  /\ w.building[u] # None => w.region[u] = w.berth[w.building[u]]
  /\ w.ship[u] # None => w.region[u] = w.berth[w.ship[u]]

(* Nobody is moved who may not leave its building. *)
Strict == ~ ("owner_leave" \in Features /\ Features \cap {"wormholes", "astral"} # {})

Whole(w) == Sound(w) /\ (Strict => \A u \in Units : Near(w, u))

LEMMA WorldFields ==
  ASSUME NEW w \in WorldType
  PROVE  /\ w.next \in Pointers /\ w.region \in [Units -> OrNone(Regions)]
         /\ w.building \in [Units -> OrNone(Buildings)] /\ w.ship \in [Units -> OrNone(Ships)]
         /\ w.owner \in [Places -> OrNone(Units)] /\ w.berth \in [Places -> OrNone(Regions)]
         /\ w.living \in SUBSET Units /\ w.fleet \in SUBSET Ships
         /\ HomeOf(w) \in Homes
         /\ \A u \in Units : HomeOf(w)[u] = w.region[u] /\ u \in Links
         /\ \A r \in Regions : HomeOf(w)[r] = r /\ r \in Links
<1>1. /\ w.next \in Pointers /\ w.region \in [Units -> OrNone(Regions)]
      /\ w.building \in [Units -> OrNone(Buildings)] /\ w.ship \in [Units -> OrNone(Ships)]
      /\ w.owner \in [Places -> OrNone(Units)] /\ w.berth \in [Places -> OrNone(Regions)]
      /\ w.living \in SUBSET Units /\ w.fleet \in SUBSET Ships
  BY DEF WorldType, Pointers
<1>2. /\ HomeOf(w) \in Homes
      /\ \A u \in Units : HomeOf(w)[u] = w.region[u] /\ u \in Links
      /\ \A r \in Regions : HomeOf(w)[r] = r /\ r \in Links
  BY <1>1, LinkTypes DEF HomeOf, Homes, Links, OrNone
<1>. QED  BY <1>1, <1>2

(* The list of a region, for a world *)
LEMMA ListedHere ==
  ASSUME NEW w, InLists(w), NEW r \in Regions
  PROVE  /\ ListFrom(w, r) \in Seq(Units) /\ Once(ListFrom(w, r))
         /\ Len(ListFrom(w, r)) = Cardinality(Range(ListFrom(w, r)))
         /\ Range(ListFrom(w, r)) = {u \in Units : w.region[u] = r}
         /\ Listed(w, r) = {u \in Units : w.region[u] = r}
<1>1. /\ w.next \in Pointers /\ HomeOf(w) \in Homes /\ Chained(w.next, HomeOf(w))
      /\ \A u \in Units : HomeOf(w)[u] = w.region[u]
  BY WorldFields DEF InLists
<1>2. /\ ListFrom(w, r) \in Seq(Units) /\ Once(ListFrom(w, r))
      /\ Len(ListFrom(w, r)) = Cardinality(Range(ListFrom(w, r)))
      /\ Range(ListFrom(w, r)) = {u \in Units : HomeOf(w)[u] = r}
  BY <1>1, RegionList
<1>3. Listed(w, r) = Range(ListFrom(w, r))
  BY DEF Listed, ToSet, Range
<1>. QED  BY <1>1, <1>2, <1>3

-----------------------------------------------------------------------------
(* Who is in charge *)

LEMMA HeirInside ==
  ASSUME NEW w \in WorldType, NEW x \in Places, NEW f
  PROVE  /\ Heir(w, x, f) \in OrNone(Units)
         /\ \A h \in Units : Heir(w, x, f) = h => x \in {w.building[h], w.ship[h]} /\ h \in w.living
<1> DEFINE S == {u \in w.living : x \in {w.building[u], w.ship[u]}}
           K == {u \in Units : Faction[u] = f}
<1>1. PICK inside : inside = IF w.berth[x] = None THEN << >> ELSE Those(ListFrom(w, w.berth[x]), S)
  OBVIOUS
<1>2. inside \in Seq(Units) /\ Range(inside) \subseteq S
  <2>1. CASE w.berth[x] = None
    BY <1>1, <2>1, RangeOne
  <2>2. CASE w.berth[x] # None
    <3>1. w.berth[x] \in Links /\ w.next \in Pointers
      BY <2>2, WorldFields, LinkTypes DEF OrNone
    <3>2. ListFrom(w, w.berth[x]) \in Seq(Units)
      BY <3>1, ListFollows DEF Follows
    <3>. HIDE DEF S
    <3>. QED  BY <1>1, <2>2, <3>2, ThoseList
  <2>. QED  BY <2>1, <2>2
<1>3. PICK kin : kin = Those(inside, K)
  OBVIOUS
<1>4. kin \in Seq(Units) /\ Range(kin) \subseteq Range(inside)
  <2>. HIDE DEF K
  <2>. QED  BY <1>2, <1>3, ThoseList
<1>5. Heir(w, x, f) = IF kin # << >> THEN Head(kin) ELSE IF inside # << >> THEN Head(inside) ELSE None
  BY <1>1, <1>3 DEF Heir
<1>6. \A s \in Seq(Units) : s # << >> => Head(s) \in Range(s)
  BY TailRange
<1>7. Heir(w, x, f) = None \/ Heir(w, x, f) \in S
  <2>. HIDE DEF S, K
  <2>. QED  BY <1>2, <1>4, <1>5, <1>6
<1>. QED  BY <1>7, WorldFields, LinkTypes DEF OrNone

LEMMA CastleOwnerType ==
  ASSUME NEW w \in WorldType, NEW r
  PROVE  castle_owner(w, r) \in OrNone(Units)
<1>1. CASE \A d \in Castles : w.berth[d] # r
  BY <1>1 DEF castle_owner, OrNone
<1>2. CASE ~ \A d \in Castles : w.berth[d] # r
  <2>1. PICK c : c = CHOOSE d \in Castles : w.berth[d] = r
    OBVIOUS
  <2>2. c \in Places
    BY <1>2, <2>1, PlacementAssumption DEF Places
  <2>3. castle_owner(w, r) = IF Presides(w, c) THEN w.owner[c] ELSE Heir(w, c, FactionOf(w.owner[c]))
    BY <1>2, <2>1 DEF castle_owner
  <2>. QED  BY <2>2, <2>3, HeirInside, WorldFields
<1>. QED  BY <1>1, <1>2

LEMMA BuildingHeir ==
  ASSUME NEW w \in WorldType, NEW b \in Buildings, NEW f
  PROVE  /\ building_owner_ex(w, b, f) \in OrNone(Units)
         /\ \A h \in Units : building_owner_ex(w, b, f) = h => w.building[h] = b \/ b \in PayBuildings
<1>1. b \in Places /\ b \notin Ships /\ b # None
  BY LinkTypes DEF Places
<1>2. Heir(w, b, f) \in OrNone(Units) /\ \A h \in Units : Heir(w, b, f) = h => w.building[h] = b
  BY <1>1, HeirInside, WorldFields DEF OrNone
<1>3. castle_owner(w, w.berth[b]) \in OrNone(Units)
  BY CastleOwnerType
<1>. QED  BY <1>2, <1>3 DEF building_owner_ex

LEMMA BuildingOwner ==
  ASSUME NEW w \in WorldType, NEW b \in Buildings
  PROVE  /\ building_owner(w, b) \in OrNone(Units)
         /\ \A h \in Units : building_owner(w, b) = h => w.building[h] = b \/ b \in PayBuildings
<1>1. b \in Places /\ w.owner[b] \in OrNone(Units)
  BY WorldFields DEF Places
<1>2. Presides(w, b) => w.owner[b] \in Units /\ w.building[w.owner[b]] = b
  BY <1>1 DEF Presides, OrNone
<1>. QED  BY <1>1, <1>2, BuildingHeir DEF building_owner

LEMMA ShipOwner ==
  ASSUME NEW w \in WorldType, NEW sh \in Ships
  PROVE  /\ ship_owner(w, sh) \in OrNone(Units)
         /\ \A h \in Units : ship_owner(w, sh) = h => w.ship[h] = sh /\ sh \in w.fleet
<1>1. sh \in Places /\ sh \notin Buildings /\ sh # None /\ None \notin Units
  BY LinkTypes DEF Places
<1>2. PICK o : o = w.owner[sh] /\ o \in OrNone(Units)
  BY <1>1, WorldFields
<1>3. PICK h : h = Heir(w, sh, FactionOf(o)) /\ h \in OrNone(Units) /\ (h \in Units => w.ship[h] = sh)
  BY <1>1, HeirInside, WorldFields DEF OrNone
<1>. QED  BY <1>1, <1>2, <1>3 DEF ship_owner, OrNone

-----------------------------------------------------------------------------
(* Going in and out *)

(* Nothing but who is in which place, and who is in charge, is changed. *)
Stays(w, v) ==
  /\ v \in WorldType /\ v.next = w.next /\ v.region = w.region /\ v.berth = w.berth
  /\ v.living = w.living /\ v.fleet = w.fleet

Others(w, v, u) == \A t \in Units \ {u} : v.building[t] = w.building[t] /\ v.ship[t] = w.ship[t]

LEMMA StaysSound ==
  ASSUME NEW w, Sound(w), NEW v, Stays(w, v), NEW u \in Units, Others(w, v, u), Ruled(v),
         v.building[u] = None \/ v.ship[u] = None,
         w.region[u] = None => v.building[u] = None /\ v.ship[u] = None
  PROVE  /\ Sound(v)
         /\ \A t \in Units : t # u /\ Near(w, t) => Near(v, t)
         /\ v.building[u] = None /\ v.ship[u] = None => Near(v, u)
<1>1. InLists(v)
  <2>1. HomeOf(v) = HomeOf(w)
    BY DEF Stays, HomeOf
  <2>. QED  BY <2>1 DEF Sound, InLists, Stays
<1>2. Apart(v)
  BY DEF Sound, Apart, Stays, Others
<1>3. Afloat(v)
  BY DEF Sound, Afloat, Stays
<1>4. \A t \in Units : t # u /\ Near(w, t) => Near(v, t)
  BY DEF Near, Stays, Others
<1>. QED  BY <1>1, <1>2, <1>3, <1>4 DEF Sound, Near

LEMMA LeaveBuilding ==
  ASSUME NEW w \in WorldType, Ruled(w), NEW u \in Units, w.building[u] # None, w.ship[u] = None
  PROVE  LET v == leave_building(w, u) IN
         /\ Stays(w, v) /\ Others(w, v, u) /\ Ruled(v) /\ v.building[u] = None /\ v.ship[u] = None
<1>1. PICK b \in Buildings : b = w.building[u]
  BY WorldFields DEF OrNone
<1>2. PICK v1 : v1 = [w EXCEPT !.building = [w.building EXCEPT ![u] = None]]
  OBVIOUS
<1>3. /\ v1 \in WorldType /\ v1.next = w.next /\ v1.region = w.region /\ v1.ship = w.ship
      /\ v1.owner = w.owner /\ v1.berth = w.berth /\ v1.living = w.living /\ v1.fleet = w.fleet
      /\ v1.building[u] = None /\ \A t \in Units : t # u => v1.building[t] = w.building[t]
  <2>1. [w.building EXCEPT ![u] = None] \in [Units -> OrNone(Buildings)]
    BY WorldFields DEF OrNone
  <2>. QED  BY <1>2, <2>1, WorldFields DEF WorldType
<1>4. PICK h : h = (IF w.owner[b] = u THEN building_owner_ex(v1, b, Faction[u]) ELSE w.owner[b])
  OBVIOUS
<1>5. /\ h \in OrNone(Units) /\ b \in Places /\ b # None
      /\ w.owner[b] # u => h = w.owner[b]
      /\ w.owner[b] = u => \A t \in Units : h = t => v1.building[t] = b \/ b \in PayBuildings
  BY <1>3, <1>4, BuildingHeir, WorldFields, LinkTypes DEF Places
<1>6. PICK v : v = [v1 EXCEPT !.owner = [v1.owner EXCEPT ![b] = h]]
  OBVIOUS
<1>7. v = leave_building(w, u)
  <2>1. CASE w.owner[b] = u
    BY <1>1, <1>2, <1>3, <1>4, <1>6, <2>1 DEF leave_building
  <2>2. CASE w.owner[b] # u
    <3>1. [v1.owner EXCEPT ![b] = h] = v1.owner
      BY <1>3, <1>4, <2>2, WorldFields
    <3>2. v = v1
      BY <1>3, <1>6, <3>1 DEF WorldType
    <3>. QED  BY <1>1, <1>2, <2>2, <3>2 DEF leave_building
  <2>. QED  BY <2>1, <2>2
<1>8. /\ v \in WorldType /\ v.next = w.next /\ v.region = w.region /\ v.ship = w.ship
      /\ v.building = v1.building /\ v.berth = w.berth /\ v.living = w.living /\ v.fleet = w.fleet
      /\ v.owner[b] = h /\ \A x \in Places : x # b => v.owner[x] = w.owner[x]
  <2>1. [v1.owner EXCEPT ![b] = h] \in [Places -> OrNone(Units)]
    BY <1>3, <1>5, WorldFields
  <2>. QED  BY <1>3, <1>5, <1>6, <2>1, WorldFields DEF WorldType
<1>9. Ruled(v)
  <2>1. SUFFICES ASSUME NEW x \in Places, NEW t \in Units, w.berth[x] # None, v.owner[x] = t, x \notin PayBuildings
                 PROVE  x \in {v.building[t], v.ship[t]}
    BY <1>8, Zenon DEF Ruled
  <2>2. w.owner[x] = t => x \in {w.building[t], w.ship[t]}
    BY <2>1 DEF Ruled
  <2>3. x # None
    BY LinkTypes
  <2>. QED  BY <1>1, <1>3, <1>5, <1>8, <2>1, <2>2, <2>3
<1>10. Stays(w, v) /\ Others(w, v, u) /\ v.building[u] = None /\ v.ship[u] = None
  BY <1>3, <1>8 DEF Stays, Others
<1>. QED  BY <1>7, <1>9, <1>10

LEMMA LeaveShip ==
  ASSUME NEW w \in WorldType, Ruled(w), NEW u \in Units, w.ship[u] # None, w.building[u] = None
  PROVE  LET v == leave_ship(w, u) IN
         /\ Stays(w, v) /\ Others(w, v, u) /\ Ruled(v) /\ v.building[u] = None /\ v.ship[u] = None
<1>1. PICK sh \in Ships : sh = w.ship[u]
  BY WorldFields DEF OrNone
<1>2. PICK v1 : v1 = [w EXCEPT !.ship = [w.ship EXCEPT ![u] = None]]
  OBVIOUS
<1>3. /\ v1 \in WorldType /\ v1.next = w.next /\ v1.region = w.region /\ v1.building = w.building
      /\ v1.owner = w.owner /\ v1.berth = w.berth /\ v1.living = w.living /\ v1.fleet = w.fleet
      /\ v1.ship[u] = None /\ \A t \in Units : t # u => v1.ship[t] = w.ship[t]
  <2>1. [w.ship EXCEPT ![u] = None] \in [Units -> OrNone(Ships)]
    BY WorldFields DEF OrNone
  <2>. QED  BY <1>2, <2>1, WorldFields DEF WorldType
<1>4. PICK h : h = IF w.owner[sh] # u THEN w.owner[sh]
                   ELSE IF sh \in w.fleet THEN Heir(v1, sh, Faction[u]) ELSE None
  OBVIOUS
<1>5. /\ h \in OrNone(Units) /\ sh \in Places /\ sh # None
      /\ w.owner[sh] # u => h = w.owner[sh]
      /\ w.owner[sh] = u => \A t \in Units : h = t => sh \in {v1.building[t], v1.ship[t]}
  <2>1. sh \in Places /\ sh # None /\ None \notin Units
    BY LinkTypes DEF Places
  <2>2. w.owner[sh] \in OrNone(Units) /\ None \in OrNone(Units)
    BY <2>1, WorldFields DEF OrNone
  <2>3. Heir(v1, sh, Faction[u]) \in OrNone(Units)
        /\ \A t \in Units : Heir(v1, sh, Faction[u]) = t => sh \in {v1.building[t], v1.ship[t]}
    BY <1>3, <2>1, HeirInside
  <2>. QED  BY <1>4, <2>1, <2>2, <2>3
<1>6. PICK v : v = [v1 EXCEPT !.owner = [v1.owner EXCEPT ![sh] = h]]
  OBVIOUS
<1>7. v = leave_ship(w, u)
  <2>1. CASE w.owner[sh] = u
    BY <1>1, <1>2, <1>3, <1>4, <1>6, <2>1 DEF leave_ship
  <2>2. CASE w.owner[sh] # u
    <3>1. [v1.owner EXCEPT ![sh] = h] = v1.owner
      BY <1>3, <1>4, <2>2, WorldFields
    <3>2. v = v1
      BY <1>3, <1>6, <3>1 DEF WorldType
    <3>. QED  BY <1>1, <1>2, <2>2, <3>2 DEF leave_ship
  <2>. QED  BY <2>1, <2>2
<1>8. /\ v \in WorldType /\ v.next = w.next /\ v.region = w.region /\ v.building = w.building
      /\ v.ship = v1.ship /\ v.berth = w.berth /\ v.living = w.living /\ v.fleet = w.fleet
      /\ v.owner[sh] = h /\ \A x \in Places : x # sh => v.owner[x] = w.owner[x]
  <2>1. [v1.owner EXCEPT ![sh] = h] \in [Places -> OrNone(Units)]
    BY <1>3, <1>5, WorldFields
  <2>. QED  BY <1>3, <1>5, <1>6, <2>1, WorldFields DEF WorldType
<1>9. Ruled(v)
  <2>1. SUFFICES ASSUME NEW x \in Places, NEW t \in Units, w.berth[x] # None, v.owner[x] = t, x \notin PayBuildings
                 PROVE  x \in {v.building[t], v.ship[t]}
    BY <1>8, Zenon DEF Ruled
  <2>2. w.owner[x] = t => x \in {w.building[t], w.ship[t]}
    BY <2>1 DEF Ruled
  <2>3. x # None
    BY LinkTypes
  <2>. QED  BY <1>1, <1>3, <1>5, <1>8, <2>1, <2>2, <2>3
<1>10. Stays(w, v) /\ Others(w, v, u) /\ v.building[u] = None /\ v.ship[u] = None
  BY <1>3, <1>8 DEF Stays, Others
<1>. QED  BY <1>7, <1>9, <1>10

LEMMA StaysSame ==
  ASSUME NEW w \in WorldType, NEW u
  PROVE  Stays(w, w) /\ Others(w, w, u)
BY DEF Stays, Others

LEMMA Leaving ==
  ASSUME NEW w \in WorldType, Apart(w), Ruled(w), NEW u \in Units
  PROVE  LET v == leave(w, u) IN
         /\ Stays(w, v) /\ Others(w, v, u) /\ Ruled(v) /\ v.building[u] = None /\ v.ship[u] = None
<1>1. w.building[u] = None \/ w.ship[u] = None
  BY DEF Apart
<1>2. CASE w.building[u] # None
  BY <1>1, <1>2, LeaveBuilding DEF leave
<1>3. CASE w.building[u] = None /\ w.ship[u] # None
  BY <1>3, LeaveShip DEF leave
<1>4. CASE w.building[u] = None /\ w.ship[u] = None
  BY <1>4, StaysSame DEF leave
<1>. QED  BY <1>2, <1>3, <1>4

LEMMA SetBuilding ==
  ASSUME NEW w \in WorldType, Ruled(w), NEW u \in Units, NEW b \in Buildings,
         w.building[u] \in {None, b}, w.ship[u] = None
  PROVE  LET v == u_set_building(w, u, b) IN
         /\ Stays(w, v) /\ Others(w, v, u) /\ Ruled(v) /\ v.building[u] = b /\ v.ship[u] = None
<1>1. PICK h : h = IF Vacant(w, b) THEN u ELSE w.owner[b]
  OBVIOUS
<1>2. b \in Places /\ b # None /\ h \in OrNone(Units)
  BY <1>1, WorldFields, LinkTypes DEF Places, OrNone
<1>3. PICK B, O : B = [w.building EXCEPT ![u] = b] /\ O = [w.owner EXCEPT ![b] = h]
  OBVIOUS
<1>4. /\ B \in [Units -> OrNone(Buildings)] /\ O \in [Places -> OrNone(Units)]
      /\ B[u] = b /\ \A t \in Units : t # u => B[t] = w.building[t]
      /\ O[b] = h /\ \A x \in Places : x # b => O[x] = w.owner[x]
  BY <1>2, <1>3, WorldFields DEF OrNone
<1>5. PICK v : v = [w EXCEPT !.building = B, !.owner = O]
  OBVIOUS
<1>6. v = u_set_building(w, u, b)
  BY <1>1, <1>3, <1>5 DEF u_set_building
<1>7. /\ v \in WorldType /\ v.next = w.next /\ v.region = w.region /\ v.ship = w.ship
      /\ v.building = B /\ v.owner = O /\ v.berth = w.berth /\ v.living = w.living /\ v.fleet = w.fleet
  BY <1>4, <1>5, WorldFields DEF WorldType
<1>8. Ruled(v)
  <2>1. SUFFICES ASSUME NEW x \in Places, NEW t \in Units, w.berth[x] # None, O[x] = t, x \notin PayBuildings
                 PROVE  x \in {B[t], w.ship[t]}
    BY <1>7, Zenon DEF Ruled
  <2>2. w.owner[x] = t => x \in {w.building[t], w.ship[t]}
    BY <2>1 DEF Ruled
  <2>3. x # None
    BY LinkTypes
  <2>. QED  BY <1>1, <1>4, <2>1, <2>2, <2>3
<1>9. Stays(w, v) /\ Others(w, v, u) /\ v.building[u] = b /\ v.ship[u] = None
  BY <1>4, <1>7 DEF Stays, Others
<1>. QED  BY <1>6, <1>8, <1>9

LEMMA SetShip ==
  ASSUME NEW w \in WorldType, Ruled(w), NEW u \in Units, NEW sh \in Ships,
         w.ship[u] \in {None, sh}, w.building[u] = None
  PROVE  LET v == u_set_ship(w, u, sh) IN
         /\ Stays(w, v) /\ Others(w, v, u) /\ Ruled(v) /\ v.ship[u] = sh /\ v.building[u] = None
<1>1. PICK h : h = IF Vacant(w, sh) THEN u ELSE w.owner[sh]
  OBVIOUS
<1>2. sh \in Places /\ sh # None /\ h \in OrNone(Units)
  BY <1>1, WorldFields, LinkTypes DEF Places, OrNone
<1>3. PICK B, O : B = [w.ship EXCEPT ![u] = sh] /\ O = [w.owner EXCEPT ![sh] = h]
  OBVIOUS
<1>4. /\ B \in [Units -> OrNone(Ships)] /\ O \in [Places -> OrNone(Units)]
      /\ B[u] = sh /\ \A t \in Units : t # u => B[t] = w.ship[t]
      /\ O[sh] = h /\ \A x \in Places : x # sh => O[x] = w.owner[x]
  BY <1>2, <1>3, WorldFields DEF OrNone
<1>5. PICK v : v = [w EXCEPT !.ship = B, !.owner = O]
  OBVIOUS
<1>6. v = u_set_ship(w, u, sh)
  BY <1>1, <1>3, <1>5 DEF u_set_ship
<1>7. /\ v \in WorldType /\ v.next = w.next /\ v.region = w.region /\ v.building = w.building
      /\ v.ship = B /\ v.owner = O /\ v.berth = w.berth /\ v.living = w.living /\ v.fleet = w.fleet
  BY <1>4, <1>5, WorldFields DEF WorldType
<1>8. Ruled(v)
  <2>1. SUFFICES ASSUME NEW x \in Places, NEW t \in Units, w.berth[x] # None, O[x] = t, x \notin PayBuildings
                 PROVE  x \in {w.building[t], B[t]}
    BY <1>7, Zenon DEF Ruled
  <2>2. w.owner[x] = t => x \in {w.building[t], w.ship[t]}
    BY <2>1 DEF Ruled
  <2>3. x # None
    BY LinkTypes
  <2>. QED  BY <1>1, <1>4, <2>1, <2>2, <2>3
<1>9. Stays(w, v) /\ Others(w, v, u) /\ v.ship[u] = sh /\ v.building[u] = None
  BY <1>4, <1>7 DEF Stays, Others
<1>. QED  BY <1>6, <1>8, <1>9

-----------------------------------------------------------------------------
(* From one list to another *)

(* The pointer that choplist and do_sort look for *)
LEMMA PointsTo ==
  ASSUME NEW w, InLists(w), NEW r \in Regions, NEW u \in Units, w.region[u] = r
  PROVE  LET l == PointerTo(w, r, u) IN
         /\ l \in Links /\ w.next[l] = u /\ HomeOf(w)[l] = r /\ l # u
<1>1. PICK next, home : next = w.next /\ home = HomeOf(w) /\ next \in Pointers /\ home \in Homes
  BY WorldFields DEF InLists
<1>2. PICK pos \in Depths : Ranked(next, home, pos)
  BY <1>1 DEF InLists, Chained
<1>3. /\ home[u] = r /\ u \in Links /\ r \in Links /\ r # None /\ u # None
      /\ \A t \in Units : home[t] = w.region[t] /\ t \in Links
      /\ \A s \in Regions : home[s] = s
  BY <1>1, WorldFields, LinkTypes DEF InLists
<1>4. PICK m \in Links : next[m] = u
  BY <1>2, <1>3 DEF Ranked
<1>5. home[m] = r
  BY <1>2, <1>3, <1>4 DEF Ranked
<1>6. Listed(w, r) = {t \in Units : w.region[t] = r}
  BY ListedHere
<1>7. \A l \in {r} \cup Listed(w, r) : l \in Links /\ home[l] = r
  BY <1>3, <1>6
<1>8. m \in {r} \cup Listed(w, r)
  BY <1>3, <1>5, <1>6 DEF Links
<1>9. PICK l : l = PointerTo(w, r, u) /\ l \in {r} \cup Listed(w, r) /\ next[l] = u
  BY <1>1, <1>4, <1>8 DEF PointerTo
<1>10. l # u
  <2>1. l \in Links /\ pos[l] < pos[u] /\ pos[u] \in Nat
    BY <1>2, <1>3, <1>7, <1>9 DEF Ranked, Depths
  <2>. QED  BY <2>1
<1>. QED  BY <1>1, <1>7, <1>9, <1>10

(* u is taken off the list it is on. *)
LEMMA Chopped ==
  ASSUME NEW w, InLists(w), NEW u \in Units, w.region[u] # None
  PROVE  \E next \in Pointers :
           /\ choplist(w, w.region[u], u) = [w EXCEPT !.next = next]
           /\ [HomeOf(w) EXCEPT ![u] = None] \in Homes
           /\ Chained(next, [HomeOf(w) EXCEPT ![u] = None])
<1>1. PICK r \in Regions : r = w.region[u]
  BY WorldFields DEF InLists, OrNone
<1>2. PICK l \in Links : l = PointerTo(w, r, u) /\ w.next[l] = u
  BY <1>1, PointsTo
<1>3. PICK next : next = Assign(Assign(w.next, l, w.next[u]), u, None)
  OBVIOUS
<1>4. w.next \in Pointers /\ HomeOf(w) \in Homes /\ Chained(w.next, HomeOf(w))
  BY WorldFields DEF InLists
<1>5. next \in Pointers /\ [HomeOf(w) EXCEPT ![u] = None] \in Homes /\ Chained(next, [HomeOf(w) EXCEPT ![u] = None])
  BY <1>2, <1>3, <1>4, ChopChain
<1>6. u \in Listed(w, r)
  BY <1>1, ListedHere
<1>7. choplist(w, r, u) = [w EXCEPT !.next = next]
  BY <1>2, <1>3, <1>6 DEF choplist
<1>. QED  BY <1>1, <1>5, <1>7

(* u, which is on no list, is put at the end of the one of r. *)
LEMMA Joined ==
  ASSUME NEW w \in WorldType, NEW home \in Homes, Chained(w.next, home), NEW u \in Units, home[u] = None,
         NEW r \in Regions
  PROVE  \E next \in Pointers :
           /\ addlist(w, r, u) = [w EXCEPT !.next = next]
           /\ [home EXCEPT ![u] = r] \in Homes
           /\ Chained(next, [home EXCEPT ![u] = r])
<1>1. PICK l : l = Last(<< r >> \o ListFrom(w, r))
  OBVIOUS
<1>2. w.next \in Pointers
  BY WorldFields
<1>3. l \in Links /\ home[l] = r /\ w.next[l] = None
  <2>1. Reads(ListFrom(w, r), w.next, home, r)
    BY <1>2, ListOfRegion
  <2>. QED  BY <1>1, <2>1 DEF Reads
<1>4. addlist(w, r, u) = [w EXCEPT !.next = Assign(w.next, l, u)]
  BY <1>1 DEF addlist
<1>5. /\ Assign(w.next, l, u) \in Pointers /\ [home EXCEPT ![u] = r] \in Homes
      /\ Chained(Assign(w.next, l, u), [home EXCEPT ![u] = r])
  BY <1>2, <1>3, JoinChain
<1>. QED  BY <1>4, <1>5

(* u is now in r, or nowhere; nothing but lists has changed. *)
Moves(w, v, u, r) ==
  /\ InLists(v) /\ v.region = [w.region EXCEPT ![u] = r]
  /\ v.building = w.building /\ v.ship = w.ship /\ v.owner = w.owner /\ v.berth = w.berth
  /\ v.living = w.living /\ v.fleet = w.fleet

LEMMA HomeMoves ==
  ASSUME NEW w \in WorldType, NEW next \in Pointers, NEW u \in Units, NEW r \in OrNone(Regions),
         Chained(next, [HomeOf(w) EXCEPT ![u] = r])
  PROVE  Moves(w, [w EXCEPT !.next = next, !.region = [w.region EXCEPT ![u] = r]], u, r)
<1>1. PICK v : v = [w EXCEPT !.next = next, !.region = [w.region EXCEPT ![u] = r]]
  OBVIOUS
<1>2. [w.region EXCEPT ![u] = r] \in [Units -> OrNone(Regions)]
  BY WorldFields
<1>3. /\ v \in WorldType /\ v.next = next /\ v.region = [w.region EXCEPT ![u] = r]
      /\ v.building = w.building /\ v.ship = w.ship /\ v.owner = w.owner /\ v.berth = w.berth
      /\ v.living = w.living /\ v.fleet = w.fleet
  BY <1>1, <1>2, WorldFields DEF WorldType, Pointers
<1>4. HomeOf(v) = [HomeOf(w) EXCEPT ![u] = r]
  <2>1. PICK h : h = [HomeOf(w) EXCEPT ![u] = r]
    OBVIOUS
  <2>2. h \in [Links -> OrNone(Regions)] /\ HomeOf(v) \in [Links -> OrNone(Regions)]
    BY <1>3, <2>1, WorldFields DEF Homes
  <2>3. ASSUME NEW l \in Links  PROVE h[l] = HomeOf(v)[l]
    <3>1. u \in Links /\ u \notin Regions
      BY LinkTypes
    <3>2. CASE l = u
      <4>1. h[u] = r
        BY <2>1, <3>1, WorldFields DEF Homes
      <4>2. HomeOf(v)[u] = v.region[u] /\ v.region[u] = r
        BY <1>3, WorldFields
      <4>. QED  BY <3>2, <4>1, <4>2
    <3>3. CASE l # u
      <4>1. h[l] = HomeOf(w)[l]
        BY <2>1, <3>1, <3>3, WorldFields DEF Homes
      <4>2. l \in Units => HomeOf(v)[l] = v.region[l] /\ HomeOf(w)[l] = w.region[l] /\ v.region[l] = w.region[l]
        BY <1>3, <3>3, WorldFields
      <4>3. l \in Regions => HomeOf(v)[l] = l /\ HomeOf(w)[l] = l
        BY <1>3, WorldFields
      <4>. QED  BY <4>1, <4>2, <4>3 DEF Links
    <3>. QED  BY <3>2, <3>3
  <2>. QED  BY <2>1, <2>2, <2>3
<1>. QED  BY <1>1, <1>3, <1>4 DEF Moves, InLists

LEMMA Carried ==
  ASSUME NEW w, InLists(w), NEW u \in Units, w.region[u] # None, NEW r \in Regions
  PROVE  Moves(w, Carry(w, u, r), u, r)
<1>1. PICK n1 \in Pointers :
           /\ choplist(w, w.region[u], u) = [w EXCEPT !.next = n1]
           /\ [HomeOf(w) EXCEPT ![u] = None] \in Homes
           /\ Chained(n1, [HomeOf(w) EXCEPT ![u] = None])
  BY Chopped
<1>2. PICK w1, h1 : w1 = [w EXCEPT !.next = n1] /\ h1 = [HomeOf(w) EXCEPT ![u] = None]
  OBVIOUS
<1>3. w \in WorldType /\ w1 \in WorldType /\ w1.next = n1
  BY <1>2, WorldFields DEF WorldType, Pointers, InLists
<1>4. h1 \in Homes /\ h1[u] = None /\ [h1 EXCEPT ![u] = r] = [HomeOf(w) EXCEPT ![u] = r]
  BY <1>1, <1>2, <1>3, WorldFields DEF Homes
<1>5. PICK n2 \in Pointers :
           /\ addlist(w1, r, u) = [w1 EXCEPT !.next = n2]
           /\ [h1 EXCEPT ![u] = r] \in Homes
           /\ Chained(n2, [h1 EXCEPT ![u] = r])
  <2>1. Chained(w1.next, h1)
    BY <1>1, <1>2, <1>3
  <2>. QED  BY <1>3, <1>4, <2>1, Joined
<1>6. Carry(w, u, r) = [w EXCEPT !.next = n2, !.region = [w.region EXCEPT ![u] = r]]
  BY <1>1, <1>2, <1>3, <1>5 DEF Carry, WorldType
<1>7. Moves(w, [w EXCEPT !.next = n2, !.region = [w.region EXCEPT ![u] = r]], u, r)
  BY <1>3, <1>4, <1>5, HomeMoves DEF OrNone
<1>. QED  BY <1>6, <1>7

(* a unit that is erased *)
LEMMA TakenOff ==
  ASSUME NEW w, InLists(w), NEW u \in Units, w.region[u] # None
  PROVE  Moves(w, [choplist(w, w.region[u], u) EXCEPT !.region[u] = None], u, None)
<1>1. PICK n1 \in Pointers :
           /\ choplist(w, w.region[u], u) = [w EXCEPT !.next = n1]
           /\ Chained(n1, [HomeOf(w) EXCEPT ![u] = None])
  BY Chopped
<1>2. w \in WorldType
  BY DEF InLists
<1>3. [choplist(w, w.region[u], u) EXCEPT !.region[u] = None]
        = [w EXCEPT !.next = n1, !.region = [w.region EXCEPT ![u] = None]]
  BY <1>1, <1>2 DEF WorldType
<1>4. Moves(w, [w EXCEPT !.next = n1, !.region = [w.region EXCEPT ![u] = None]], u, None)
  BY <1>1, <1>2, HomeMoves DEF OrNone
<1>. QED  BY <1>3, <1>4

(* a unit that is made *)
LEMMA PutOn ==
  ASSUME NEW w, InLists(w), NEW u \in Units, w.region[u] = None, NEW r \in Regions
  PROVE  Moves(w, [addlist(w, r, u) EXCEPT !.region[u] = r], u, r)
<1>1. w \in WorldType /\ HomeOf(w) \in Homes /\ Chained(w.next, HomeOf(w)) /\ HomeOf(w)[u] = None
  BY WorldFields DEF InLists
<1>2. PICK n1 \in Pointers :
           /\ addlist(w, r, u) = [w EXCEPT !.next = n1]
           /\ Chained(n1, [HomeOf(w) EXCEPT ![u] = r])
  BY <1>1, Joined
<1>3. [addlist(w, r, u) EXCEPT !.region[u] = r]
        = [w EXCEPT !.next = n1, !.region = [w.region EXCEPT ![u] = r]]
  BY <1>1, <1>2 DEF WorldType
<1>4. Moves(w, [w EXCEPT !.next = n1, !.region = [w.region EXCEPT ![u] = r]], u, r)
  BY <1>1, <1>2, HomeMoves DEF OrNone
<1>. QED  BY <1>3, <1>4

LEMMA MovesSound ==
  ASSUME NEW w, Sound(w), NEW u \in Units, NEW r \in OrNone(Regions), NEW v, Moves(w, v, u, r),
         r = None => v.building[u] = None /\ v.ship[u] = None /\ u \notin v.living
  PROVE  /\ Sound(v) /\ v.region[u] = r /\ \A t \in Units : t # u => v.region[t] = w.region[t]
         /\ \A t \in Units : t # u /\ Near(w, t) => Near(v, t)
         /\ v.building[u] = None /\ v.ship[u] = None => Near(v, u)
<1>1. v.region[u] = r /\ \A t \in Units : t # u => v.region[t] = w.region[t]
  BY WorldFields DEF Moves, Sound, InLists
<1>2. Apart(v)
  BY <1>1 DEF Sound, Apart, Moves
<1>3. Afloat(v) /\ Ruled(v) /\ InLists(v)
  BY DEF Sound, Afloat, Ruled, Moves
<1>4. \A t \in Units : t # u /\ Near(w, t) => Near(v, t)
  BY <1>1 DEF Near, Moves
<1>. QED  BY <1>1, <1>2, <1>3, <1>4 DEF Sound, Near

(* move_unit is Carry, after the unit has left if it may. *)
LEMMA MoveUnit ==
  ASSUME NEW w, Sound(w), NEW u \in Units, w.region[u] # None, NEW r \in Regions
  PROVE  LET v == move_unit(w, u, r) IN
         /\ Sound(v) /\ v.region[u] = r /\ \A t \in Units : t # u => v.region[t] = w.region[t]
         /\ Others(w, v, u) /\ v.berth = w.berth /\ v.living = w.living /\ v.fleet = w.fleet
         /\ \A t \in Units : t # u /\ Near(w, t) => Near(v, t)
         /\ can_leave(w, u) => Near(v, u) /\ v.building[u] = None /\ v.ship[u] = None
<1>1. PICK w1 : w1 = leave_region(w, u)
  OBVIOUS
<1>2. /\ Sound(w1) /\ Stays(w, w1) /\ Others(w, w1, u)
      /\ can_leave(w, u) => w1.building[u] = None /\ w1.ship[u] = None
      /\ \A t \in Units : t # u /\ Near(w, t) => Near(w1, t)
  <2>1. CASE can_leave(w, u)
    <3>1. w1 = leave(w, u)
      BY <1>1, <2>1 DEF leave_region
    <3>2. Stays(w, w1) /\ Others(w, w1, u) /\ Ruled(w1) /\ w1.building[u] = None /\ w1.ship[u] = None
      BY <3>1, Leaving DEF Sound, InLists
    <3>. QED  BY <3>2, StaysSound
  <2>2. CASE ~ can_leave(w, u)
    <3>1. w1 = w /\ w \in WorldType
      BY <1>1, <2>2 DEF leave_region, Sound, InLists
    <3>. QED  BY <2>2, <3>1, StaysSame
  <2>. QED  BY <2>1, <2>2
<1>3. move_unit(w, u, r) = Carry(w1, u, r)
  BY <1>1, <1>2 DEF move_unit, Carry, Stays
<1>4. PICK v : v = Carry(w1, u, r)
  OBVIOUS
<1>5. Moves(w1, v, u, r)
  BY <1>2, <1>4, Carried DEF Sound, Stays
<1>6. r \in OrNone(Regions) /\ r # None
  BY LinkTypes DEF OrNone
<1>7. /\ Sound(v) /\ v.region[u] = r /\ \A t \in Units : t # u => v.region[t] = w1.region[t]
      /\ \A t \in Units : t # u /\ Near(w1, t) => Near(v, t)
      /\ v.building[u] = None /\ v.ship[u] = None => Near(v, u)
  BY <1>2, <1>5, <1>6, MovesSound
<1>8. /\ v.building = w1.building /\ v.ship = w1.ship /\ v.berth = w1.berth /\ v.living = w1.living
      /\ v.fleet = w1.fleet
  BY <1>5 DEF Moves
<1>. QED  BY <1>2, <1>3, <1>4, <1>7, <1>8 DEF Stays, Others

-----------------------------------------------------------------------------
(* What the handlers call keeps worlds whole. *)

LEMMA WholeStays ==
  ASSUME NEW w, Whole(w), NEW v, Stays(w, v), NEW u \in Units, Others(w, v, u), Ruled(v),
         v.building[u] = None \/ v.ship[u] = None,
         w.region[u] = None => v.building[u] = None /\ v.ship[u] = None,
         Strict => Near(v, u)
  PROVE  Whole(v)
<1>1. Sound(v) /\ \A t \in Units : t # u /\ Near(w, t) => Near(v, t)
  BY StaysSound DEF Whole
<1>. QED  BY <1>1 DEF Whole

LEMMA WholeLeave ==
  ASSUME NEW w, Whole(w), NEW u \in Units
  PROVE  LET v == leave(w, u) IN
         /\ Whole(v) /\ Stays(w, v) /\ Others(w, v, u) /\ v.building[u] = None /\ v.ship[u] = None
<1>1. PICK v : v = leave(w, u)
  OBVIOUS
<1>2. Stays(w, v) /\ Others(w, v, u) /\ Ruled(v) /\ v.building[u] = None /\ v.ship[u] = None
  BY <1>1, Leaving DEF Whole, Sound, InLists
<1>3. Near(v, u)
  BY <1>2 DEF Near
<1>4. Whole(v)
  BY <1>2, <1>3, WholeStays
<1>. QED  BY <1>1, <1>2, <1>4

LEMMA WholeMove ==
  ASSUME NEW w, Whole(w), NEW u \in Units, w.region[u] # None, NEW r \in Regions, Strict => can_leave(w, u)
  PROVE  LET v == move_unit(w, u, r) IN
         /\ Whole(v) /\ v.region[u] = r /\ \A t \in Units : t # u => v.region[t] = w.region[t]
         /\ Others(w, v, u) /\ v.berth = w.berth /\ v.living = w.living /\ v.fleet = w.fleet
<1>1. PICK v : v = move_unit(w, u, r)
  OBVIOUS
<1>2. /\ Sound(v) /\ v.region[u] = r /\ \A t \in Units : t # u => v.region[t] = w.region[t]
      /\ Others(w, v, u) /\ v.berth = w.berth /\ v.living = w.living /\ v.fleet = w.fleet
      /\ \A t \in Units : t # u /\ Near(w, t) => Near(v, t)
      /\ can_leave(w, u) => Near(v, u)
  BY <1>1, MoveUnit DEF Whole
<1>3. Whole(v)
  BY <1>2 DEF Whole
<1>. QED  BY <1>1, <1>2, <1>3

(* Of those who are counted alive, only those on a list matter. *)
LEMMA WholeLiving ==
  ASSUME NEW w, Whole(w), NEW L \in SUBSET Units, \A u \in L : w.region[u] # None
  PROVE  LET v == [w EXCEPT !.living = L] IN
         /\ Whole(v) /\ v.next = w.next /\ v.region = w.region /\ v.building = w.building
         /\ v.ship = w.ship /\ v.owner = w.owner /\ v.berth = w.berth /\ v.living = L /\ v.fleet = w.fleet
<1>1. PICK v : v = [w EXCEPT !.living = L]
  OBVIOUS
<1>2. /\ v \in WorldType /\ v.next = w.next /\ v.region = w.region /\ v.building = w.building
      /\ v.ship = w.ship /\ v.owner = w.owner /\ v.berth = w.berth /\ v.living = L /\ v.fleet = w.fleet
  BY <1>1, WorldFields DEF WorldType, Whole, Sound, InLists
<1>3. InLists(v)
  <2>1. HomeOf(v) = HomeOf(w)
    BY <1>2 DEF HomeOf
  <2>. QED  BY <1>2, <2>1 DEF Whole, Sound, InLists
<1>4. Apart(v) /\ Afloat(v) /\ Ruled(v)
  <2>1. Apart(v)
    BY <1>2 DEF Whole, Sound, Apart
  <2>. QED  BY <1>2, <2>1 DEF Whole, Sound, Afloat, Ruled
<1>5. \A u \in Units : Near(w, u) => Near(v, u)
  BY <1>2 DEF Near
<1>6. Whole(v)
  BY <1>3, <1>4, <1>5 DEF Whole, Sound
<1>. QED  BY <1>1, <1>2, <1>6

LEMMA WholeErase ==
  ASSUME NEW w, Whole(w), NEW u \in Units, w.region[u] # None
  PROVE  LET v == erase_unit(w, u) IN
         /\ Whole(v) /\ v.region[u] = None /\ \A t \in Units : t # u => v.region[t] = w.region[t]
         /\ v.berth = w.berth /\ v.fleet = w.fleet
<1>1. PICK L : L \in SUBSET Units /\ L = w.living \ {u} /\ \A t \in L : w.region[t] # None
  BY WorldFields DEF Whole, Sound, InLists, Apart
<1>2. PICK w1 : w1 = [w EXCEPT !.living = L]
  OBVIOUS
<1>3. Whole(w1) /\ w1.region = w.region /\ w1.berth = w.berth /\ w1.living = L /\ w1.fleet = w.fleet
  BY <1>1, <1>2, WholeLiving
<1>4. PICK w2 : w2 = leave(w1, u)
  OBVIOUS
<1>5. Whole(w2) /\ Stays(w1, w2) /\ w2.building[u] = None /\ w2.ship[u] = None
  BY <1>3, <1>4, WholeLeave
<1>6. PICK v : v = [choplist(w2, w2.region[u], u) EXCEPT !.region[u] = None]
  OBVIOUS
<1>7. Moves(w2, v, u, None)
  BY <1>3, <1>5, <1>6, TakenOff DEF Whole, Sound, Stays
<1>8. w2.region = w.region /\ w2.berth = w.berth /\ w2.living = L /\ w2.fleet = w.fleet /\ u \notin L
  BY <1>1, <1>3, <1>5 DEF Stays
<1>9. /\ v.building[u] = None /\ v.ship[u] = None /\ u \notin v.living
      /\ v.berth = w.berth /\ v.fleet = w.fleet
  BY <1>5, <1>7, <1>8 DEF Moves
<1>10. /\ Sound(v) /\ v.region[u] = None /\ \A t \in Units : t # u => v.region[t] = w2.region[t]
       /\ \A t \in Units : t # u /\ Near(w2, t) => Near(v, t)
       /\ Near(v, u)
  <2>1. None \in OrNone(Regions) /\ Sound(w2)
    BY <1>5 DEF OrNone, Whole
  <2>. QED  BY <1>7, <1>9, <2>1, MovesSound
<1>11. Whole(v)
  BY <1>5, <1>10 DEF Whole
<1>12. v = erase_unit(w, u)
  BY <1>1, <1>2, <1>4, <1>6, <1>8 DEF erase_unit
<1>. QED  BY <1>8, <1>9, <1>10, <1>11, <1>12

(* A loop along the list of r, whose turns keep a world whole *)
LEMMA WholeForAll ==
  ASSUME NEW w, InLists(w), NEW r \in Regions, NEW f, NEW Q,
         w \in Q[{u \in Units : w.region[u] = r}],
         \A R \in SUBSET Units : \A u \in R, x \in Q[R] : f[x][u] \in Q[R \ {u}]
  PROVE  ForAll(w, r, f) \in Q[{}]
<1>1. PICK h : /\ h = HomeOf(w) /\ h \in Homes /\ w.next \in Pointers /\ Chained(w.next, h)
               /\ \A u \in Units : h[u] = w.region[u]
  BY WorldFields DEF InLists
<1>2. {u \in Units : w.region[u] = r} = {u \in Units : h[u] = r}
  BY <1>1
<1>3. w \in Q[{u \in Units : h[u] = r}]
  BY <1>2
<1>. QED  BY <1>1, <1>3, ForAllKeeps

LEMMA WholeSweep ==
  ASSUME NEW w, Whole(w), NEW r \in Regions
  PROVE  Whole(remove_empty_units_in_region(w, r))
<1> DEFINE f == [v \in WorldType |-> [u \in Units |-> IF u \in v.living THEN v ELSE erase_unit(v, u)]]
<1>1. PICK Q : Q = [R \in SUBSET Units |-> {v \in WorldType : Whole(v) /\ \A t \in R : v.region[t] = r}]
  OBVIOUS
<1>2. ASSUME NEW R \in SUBSET Units, NEW u \in R, NEW x \in Q[R]
      PROVE  f[x][u] \in Q[R \ {u}]
  <2>1. x \in WorldType /\ Whole(x) /\ (\A t \in R : x.region[t] = r) /\ u \in Units /\ R \ {u} \in SUBSET Units
    BY <1>1, <1>2
  <2>2. f[x][u] = IF u \in x.living THEN x ELSE erase_unit(x, u)
    BY <2>1
  <2>3. Q[R \ {u}] = {v \in WorldType : Whole(v) /\ \A t \in R \ {u} : v.region[t] = r}
    BY <1>1, <2>1
  <2>4. CASE u \in x.living
    BY <2>1, <2>2, <2>3, <2>4
  <2>5. CASE u \notin x.living
    <3>1. r # None
      BY LinkTypes
    <3>2. PICK y : y = erase_unit(x, u) /\ Whole(y) /\ \A t \in Units : t # u => y.region[t] = x.region[t]
      BY <2>1, <3>1, WholeErase
    <3>3. y \in WorldType
      BY <3>2 DEF Whole, Sound, InLists
    <3>4. y \in Q[R \ {u}]
      BY <2>1, <2>3, <3>2, <3>3
    <3>. QED  BY <2>2, <2>5, <3>2, <3>4
  <2>. QED  BY <2>4, <2>5
<1>3. w \in Q[{u \in Units : w.region[u] = r}]
  BY <1>1 DEF Whole, Sound, InLists
<1>4. ForAll(w, r, f) \in Q[{}]
  <2>. HIDE DEF f
  <2>1. InLists(w)
    BY DEF Whole, Sound
  <2>. QED  BY <1>2, <1>3, <2>1, WholeForAll
<1>. QED  BY <1>1, <1>4 DEF remove_empty_units_in_region

LEMMA WholeSweeps ==
  ASSUME NEW w, Whole(w)
  PROVE  Whole(remove_empty_units(w))
<1> DEFINE f == [v \in WorldType |-> [r \in Regions |-> remove_empty_units_in_region(v, r)]]
<1>1. PICK Q, t : Q = {v \in WorldType : Whole(v)} /\ t = SetToSeq(Regions)
  OBVIOUS
<1>2. \A x \in Q, e \in Regions : f[x][e] \in Q
  <2>1. SUFFICES ASSUME NEW x \in Q, NEW e \in Regions
                 PROVE  Whole(f[x][e]) /\ f[x][e] \in WorldType
    BY <1>1
  <2>2. x \in WorldType /\ Whole(x)
    BY <1>1
  <2>3. Whole(remove_empty_units_in_region(x, e))
    BY <2>2, WholeSweep
  <2>. QED  BY <2>2, <2>3 DEF Whole, Sound, InLists
<1>3. t \in Seq(Regions) /\ w \in Q
  BY <1>1, LinkTypes, SetAsList DEF Whole, Sound, InLists
<1>4. Along(f, w, t) \in Q
  <2>. HIDE DEF f
  <2>. QED  BY <1>2, <1>3, AlongStays
<1>. QED  BY <1>1, <1>4 DEF remove_empty_units

LEMMA WholeRazed ==
  ASSUME NEW w, Whole(w), NEW b \in Buildings, w.berth[b] # None
  PROVE  Whole(remove_building(w, b))
<1> DEFINE f == [v \in WorldType |-> [u \in Units |-> IF v.building[u] = b THEN leave(v, u) ELSE v]]
<1>0. PICK r \in Regions : r = w.berth[b]
  BY WorldFields DEF Whole, Sound, InLists, Places, OrNone
<1> DEFINE Fine(v, R) == /\ v \in WorldType /\ Whole(v) /\ v.region = w.region /\ v.berth = w.berth
                         /\ \A t \in Units \ R : w.region[t] = r => v.building[t] # b
<1>1. PICK Q : Q = [R \in SUBSET Units |-> {v \in WorldType : Fine(v, R)}]
  OBVIOUS
<1>2. ASSUME NEW R \in SUBSET Units, NEW u \in R, NEW x \in Q[R]
      PROVE  f[x][u] \in Q[R \ {u}]
  <2>1. x \in WorldType /\ Fine(x, R) /\ u \in Units /\ R \ {u} \in SUBSET Units
    BY <1>1, <1>2
  <2>2. f[x][u] = IF x.building[u] = b THEN leave(x, u) ELSE x
    BY <2>1
  <2>3. \A v : Fine(v, R \ {u}) => v \in Q[R \ {u}]
    BY <1>1, <2>1
  <2>4. CASE x.building[u] # b
    <3>1. Fine(x, R \ {u})
      BY <2>1, <2>4
    <3>. QED  BY <2>2, <2>3, <2>4, <3>1
  <2>5. CASE x.building[u] = b
    <3>1. PICK y : y = leave(x, u) /\ Whole(y) /\ Stays(x, y) /\ Others(x, y, u) /\ y.building[u] = None
      BY <2>1, WholeLeave
    <3>2. b # None
      BY LinkTypes DEF Places
    <3>3. Fine(y, R \ {u})
      BY <2>1, <3>1, <3>2 DEF Stays, Others
    <3>. QED  BY <2>2, <2>3, <2>5, <3>1, <3>3
  <2>. QED  BY <2>4, <2>5
<1>3. w \in Q[{u \in Units : w.region[u] = r}]
  <2>1. Fine(w, {u \in Units : w.region[u] = r})
    BY DEF Whole, Sound, InLists
  <2>. HIDE DEF Fine
  <2>. QED  BY <1>1, <2>1 DEF Whole, Sound, InLists
<1>4. PICK v : v = ForAll(w, r, f) /\ Fine(v, {})
  <2>1. ForAll(w, r, f) \in Q[{}]
    <3>. HIDE DEF f, Fine
    <3>1. InLists(w)
      BY DEF Whole, Sound
    <3>. QED  BY <1>2, <1>3, <3>1, WholeForAll
  <2>. HIDE DEF f, Fine
  <2>. QED  BY <1>1, <2>1
<1>5. PICK x : x = [v EXCEPT !.berth = [v.berth EXCEPT ![b] = None]]
  OBVIOUS
<1>6. x = remove_building(w, b)
  BY <1>0, <1>4, <1>5 DEF remove_building
<1>7. /\ b \in Places /\ b \notin Ships /\ b # None
      /\ x \in WorldType /\ x.next = v.next /\ x.region = v.region /\ x.building = v.building
      /\ x.ship = v.ship /\ x.owner = v.owner /\ x.living = v.living /\ x.fleet = v.fleet
      /\ x.berth[b] = None /\ \A y \in Places : y # b => x.berth[y] = v.berth[y]
  <2>1. b \in Places /\ b \notin Ships /\ b # None
    BY LinkTypes DEF Places
  <2>2. [v.berth EXCEPT ![b] = None] \in [Places -> OrNone(Regions)]
    BY <1>4, WorldFields DEF OrNone
  <2>. QED  BY <1>4, <1>5, <2>1, <2>2, WorldFields DEF WorldType
<1>8. InLists(x)
  <2>1. HomeOf(x) = HomeOf(v)
    BY <1>7 DEF HomeOf
  <2>. QED  BY <1>4, <1>7, <2>1 DEF Whole, Sound, InLists
<1>9. Apart(x) /\ Ruled(x)
  <2>1. Apart(x)
    BY <1>4, <1>7 DEF Whole, Sound, Apart
  <2>2. \A y \in Places : x.berth[y] # None => v.berth[y] # None
    BY <1>7
  <2>3. Ruled(x)
    BY <1>4, <1>7, <2>2 DEF Whole, Sound, Ruled
  <2>. QED  BY <2>1, <2>3
<1>10. Afloat(x)
  <2>1. \A sh \in v.fleet : sh \in Places /\ sh # b
    BY <1>4, <1>7, WorldFields DEF Places
  <2>. QED  BY <1>4, <1>7, <2>1 DEF Whole, Sound, Afloat
<1>11. ASSUME NEW t \in Units, Near(v, t)
       PROVE  Near(x, t)
  <2>1. v.building[t] # b
    <3>1. \A y \in Units : v.region[y] = r => v.building[y] # b
      BY <1>4
    <3>2. v.berth[b] = r
      BY <1>0, <1>4
    <3>3. v.building[t] = b => v.region[t] = r
      BY <1>7, <1>11, <3>2 DEF Near
    <3>. QED  BY <3>1, <3>3
  <2>2. /\ v.building[t] # None => v.building[t] \in Places
        /\ v.ship[t] # None => v.ship[t] \in Places /\ v.ship[t] # b
    BY <1>4, <1>7, WorldFields DEF Places, OrNone
  <2>. QED  BY <1>7, <1>11, <2>1, <2>2 DEF Near
<1>12. Whole(x)
  BY <1>4, <1>8, <1>9, <1>10, <1>11 DEF Whole, Sound
<1>. QED  BY <1>6, <1>12

LEMMA WholeSunk ==
  ASSUME NEW w, Whole(w), NEW sh \in Ships, w.berth[sh] # None
  PROVE  /\ Whole(remove_ship(w, sh)) 
         /\ \A x \in Places : x # sh => remove_ship(w, sh).berth[x] = w.berth[x]
<1> DEFINE f == [v \in WorldType |-> [u \in Units |-> IF v.ship[u] = sh THEN leave_ship(v, u) ELSE v]]
<1>0. PICK r \in Regions : r = w.berth[sh]
  BY WorldFields DEF Whole, Sound, InLists, Places, OrNone
<1> DEFINE Fine(v, R) == /\ v \in WorldType /\ Whole(v) /\ v.region = w.region /\ v.berth = w.berth
                         /\ \A t \in Units \ R : w.region[t] = r => v.ship[t] # sh
<1>1. PICK Q : Q = [R \in SUBSET Units |-> {v \in WorldType : Fine(v, R)}]
  OBVIOUS
<1>2. ASSUME NEW R \in SUBSET Units, NEW u \in R, NEW x \in Q[R]
      PROVE  f[x][u] \in Q[R \ {u}]
  <2>1. x \in WorldType /\ Fine(x, R) /\ u \in Units /\ R \ {u} \in SUBSET Units
    BY <1>1, <1>2
  <2>2. f[x][u] = IF x.ship[u] = sh THEN leave_ship(x, u) ELSE x
    BY <2>1
  <2>3. \A v : Fine(v, R \ {u}) => v \in Q[R \ {u}]
    BY <1>1, <2>1
  <2>4. CASE x.ship[u] # sh
    <3>1. Fine(x, R \ {u})
      BY <2>1, <2>4
    <3>. QED  BY <2>2, <2>3, <2>4, <3>1
  <2>5. CASE x.ship[u] = sh
    <3>1. sh # None
      BY LinkTypes DEF Places
    <3>2. x.building[u] = None
      BY <2>1, <2>5, <3>1 DEF Whole, Sound, Apart
    <3>3. leave_ship(x, u) = leave(x, u)
      BY <2>5, <3>1, <3>2 DEF leave
    <3>4. PICK y : y = leave(x, u) /\ Whole(y) /\ Stays(x, y) /\ Others(x, y, u) /\ y.ship[u] = None
      BY <2>1, WholeLeave
    <3>5. Fine(y, R \ {u})
      BY <2>1, <3>1, <3>4 DEF Stays, Others
    <3>. QED  BY <2>2, <2>3, <2>5, <3>3, <3>4, <3>5
  <2>. QED  BY <2>4, <2>5
<1>3. w \in Q[{u \in Units : w.region[u] = r}]
  <2>1. Fine(w, {u \in Units : w.region[u] = r})
    BY DEF Whole, Sound, InLists
  <2>. HIDE DEF Fine
  <2>. QED  BY <1>1, <2>1 DEF Whole, Sound, InLists
<1>4. PICK v : v = ForAll(w, r, f) /\ Fine(v, {})
  <2>1. ForAll(w, r, f) \in Q[{}]
    <3>. HIDE DEF f, Fine
    <3>1. InLists(w)
      BY DEF Whole, Sound
    <3>. QED  BY <1>2, <1>3, <3>1, WholeForAll
  <2>. HIDE DEF f, Fine
  <2>. QED  BY <1>1, <2>1
<1>5. PICK x : x = [v EXCEPT !.berth = [v.berth EXCEPT ![sh] = None], !.fleet = v.fleet \ {sh}]
  OBVIOUS
<1>6. x = remove_ship(w, sh)
  BY <1>0, <1>4, <1>5 DEF remove_ship
<1>7. /\ sh \in Places /\ sh \notin Buildings /\ sh # None
      /\ x \in WorldType /\ x.next = v.next /\ x.region = v.region /\ x.building = v.building
      /\ x.ship = v.ship /\ x.owner = v.owner /\ x.living = v.living /\ x.fleet = v.fleet \ {sh}
      /\ x.berth[sh] = None /\ \A y \in Places : y # sh => x.berth[y] = v.berth[y]
  <2>1. sh \in Places /\ sh \notin Buildings /\ sh # None
    BY LinkTypes DEF Places
  <2>2. [v.berth EXCEPT ![sh] = None] \in [Places -> OrNone(Regions)] /\ v.fleet \ {sh} \in SUBSET Ships
    BY <1>4, WorldFields DEF OrNone
  <2>. QED  BY <1>4, <1>5, <2>1, <2>2, WorldFields DEF WorldType
<1>8. InLists(x)
  <2>1. HomeOf(x) = HomeOf(v)
    BY <1>7 DEF HomeOf
  <2>. QED  BY <1>4, <1>7, <2>1 DEF Whole, Sound, InLists
<1>9. Apart(x) /\ Ruled(x)
  <2>1. Apart(x)
    BY <1>4, <1>7 DEF Whole, Sound, Apart
  <2>2. \A y \in Places : x.berth[y] # None => v.berth[y] # None
    BY <1>7
  <2>3. Ruled(x)
    BY <1>4, <1>7, <2>2 DEF Whole, Sound, Ruled
  <2>. QED  BY <2>1, <2>3
<1>10. Afloat(x)
  <2>1. \A s \in v.fleet : s \in Places
    BY <1>4, WorldFields DEF Places
  <2>. QED  BY <1>4, <1>7, <2>1 DEF Whole, Sound, Afloat
<1>11. ASSUME NEW t \in Units, Near(v, t)
       PROVE  Near(x, t)
  <2>1. v.ship[t] # sh
    <3>1. /\ v.ship[t] = sh => v.region[t] = v.berth[sh]
          /\ v.berth = w.berth /\ v.region = w.region /\ \A s \in Units : w.region[s] = r => v.ship[s] # sh
      BY <1>4, <1>7, <1>11 DEF Near
    <3>. QED  BY <1>0, <3>1
  <2>2. /\ v.ship[t] # None => v.ship[t] \in Places
        /\ v.building[t] # None => v.building[t] \in Places /\ v.building[t] # sh
    BY <1>4, <1>7, WorldFields DEF Places, OrNone
  <2>. QED  BY <1>7, <1>11, <2>1, <2>2 DEF Near
<1>12. Whole(x) /\ \A y \in Places : y # sh => x.berth[y] = w.berth[y]
  BY <1>4, <1>7, <1>8, <1>9, <1>10, <1>11 DEF Whole, Sound
<1>. QED  BY <1>6, <1>12

-----------------------------------------------------------------------------
(* Movement *)

(* Those aboard sh in its region are in to, as the ship is. *)
Sails(w, v, sh, to) ==
  /\ InLists(v) /\ v.building = w.building /\ v.ship = w.ship /\ v.owner = w.owner
  /\ v.living = w.living /\ v.fleet = w.fleet
  /\ v.berth[sh] = to /\ \A x \in Places : x # sh => v.berth[x] = w.berth[x]
  /\ \A t \in Units : v.region[t] = IF w.ship[t] = sh /\ w.region[t] = w.berth[sh] THEN to ELSE w.region[t]

LEMMA MoveShip ==
  ASSUME NEW w, InLists(w), NEW sh \in Ships, w.berth[sh] # None, NEW to \in Regions
  PROVE  Sails(w, move_ship(w, sh, to), sh, to)
<1> DEFINE f == [v \in WorldType |-> [u \in Units |-> IF v.ship[u] = sh THEN Carry(v, u, to) ELSE v]]
<1>0. PICK r \in Regions : r = w.berth[sh] /\ r # None /\ sh \in Places
  BY WorldFields, LinkTypes DEF InLists, Places, OrNone
<1>1. PICK w0 : w0 = [w EXCEPT !.berth = [w.berth EXCEPT ![sh] = to]]
  OBVIOUS
<1>2. /\ w0 \in WorldType /\ w0.next = w.next /\ w0.region = w.region /\ w0.building = w.building
      /\ w0.ship = w.ship /\ w0.owner = w.owner /\ w0.living = w.living /\ w0.fleet = w.fleet
      /\ w0.berth[sh] = to /\ \A x \in Places : x # sh => w0.berth[x] = w.berth[x]
  <2>1. [w.berth EXCEPT ![sh] = to] \in [Places -> OrNone(Regions)]
    BY <1>0, WorldFields DEF OrNone, InLists
  <2>. QED  BY <1>0, <1>1, <2>1, WorldFields DEF WorldType, InLists
<1>3. InLists(w0)
  <2>1. HomeOf(w0) = HomeOf(w)
    BY <1>2 DEF HomeOf
  <2>. QED  BY <1>2, <2>1 DEF InLists
<1> DEFINE Fine(v, R) ==
      /\ InLists(v) /\ v.building = w.building /\ v.ship = w.ship /\ v.owner = w.owner
      /\ v.living = w.living /\ v.fleet = w.fleet /\ v.berth = w0.berth
      /\ \A t \in R : w.region[t] = r /\ v.region[t] = w.region[t]
      /\ \A t \in Units \ R : v.region[t] = IF w.ship[t] = sh /\ w.region[t] = r THEN to ELSE w.region[t]
<1>4. PICK Q : Q = [R \in SUBSET Units |-> {v \in WorldType : Fine(v, R)}]
  OBVIOUS
<1>5. ASSUME NEW R \in SUBSET Units, NEW u \in R, NEW x \in Q[R]
      PROVE  f[x][u] \in Q[R \ {u}]
  <2>1. x \in WorldType /\ Fine(x, R) /\ u \in Units /\ R \ {u} \in SUBSET Units
    BY <1>4, <1>5
  <2>2. f[x][u] = IF x.ship[u] = sh THEN Carry(x, u, to) ELSE x
    BY <2>1
  <2>3. \A v : Fine(v, R \ {u}) => v \in Q[R \ {u}]
    BY <1>4, <2>1 DEF InLists
  <2>4. CASE x.ship[u] # sh
    <3>1. Fine(x, R \ {u})
      BY <2>1, <2>4
    <3>. QED  BY <2>2, <2>3, <2>4, <3>1
  <2>5. CASE x.ship[u] = sh
    <3>1. PICK y : y = Carry(x, u, to) /\ Moves(x, y, u, to)
      BY <1>0, <2>1, Carried
    <3>2. y.region[u] = to /\ \A t \in Units : t # u => y.region[t] = x.region[t]
      BY <2>1, <3>1, WorldFields DEF Moves
    <3>3. Fine(y, R \ {u})
      BY <2>1, <2>5, <3>1, <3>2 DEF Moves
    <3>. QED  BY <2>2, <2>3, <2>5, <3>1, <3>3
  <2>. QED  BY <2>4, <2>5
<1>6. w0 \in Q[{u \in Units : w0.region[u] = r}]
  <2>1. Fine(w0, {u \in Units : w0.region[u] = r})
    BY <1>2, <1>3
  <2>. HIDE DEF Fine
  <2>. QED  BY <1>2, <1>4, <2>1
<1>7. PICK v : v = ForAll(w0, r, f) /\ Fine(v, {})
  <2>1. ForAll(w0, r, f) \in Q[{}]
    <3>. HIDE DEF f, Fine
    <3>. QED  BY <1>3, <1>5, <1>6, WholeForAll
  <2>. HIDE DEF f, Fine
  <2>. QED  BY <1>4, <2>1
<1>8. v = move_ship(w, sh, to)
  BY <1>0, <1>1, <1>7 DEF move_ship
<1>9. Sails(w, v, sh, to)
  BY <1>0, <1>2, <1>7 DEF Sails
<1>. QED  BY <1>8, <1>9

Berthed(w, t) == w.ship[t] # None => w.region[t] = w.berth[w.ship[t]]

LEMMA SailsSound ==
  ASSUME NEW w, Sound(w), NEW sh \in Ships, w.berth[sh] # None, NEW to \in Regions,
         NEW v, Sails(w, v, sh, to)
  PROVE  /\ Sound(v)
         /\ \A t \in Units : Near(w, t) => Near(v, t)
         /\ \A t \in Units : Berthed(w, t) => Berthed(v, t)
         /\ \A t \in Units : w.building[t] # None => v.region[t] = w.region[t]
         /\ \A b \in Buildings : v.berth[b] = w.berth[b]
<1>1. /\ sh \in Places /\ to # None /\ sh # None /\ \A x \in Ships : x \in Places
      /\ \A b \in Buildings : b \in Places /\ b # sh
  BY LinkTypes DEF Places
<1>2. \A t \in Units : w.building[t] # None => w.ship[t] = None
  BY DEF Sound, Apart
<1>3. \A t \in Units : w.region[t] = None <=> v.region[t] = None
  BY <1>1 DEF Sails
<1>4. \A x \in Places : w.berth[x] = None <=> v.berth[x] = None
  BY <1>1 DEF Sails
<1>5. /\ \A t \in Units : w.building[t] # None => v.region[t] = w.region[t]
      /\ \A b \in Buildings : v.berth[b] = w.berth[b]
  BY <1>1, <1>2 DEF Sails
<1>6. Apart(v)
  BY <1>3 DEF Sound, Apart, Sails
<1>7. Afloat(v)
  BY <1>1, <1>4, WorldFields DEF Sound, Afloat, Sails, InLists
<1>8. Ruled(v)
  BY <1>4 DEF Sound, Ruled, Sails
<1>9. ASSUME NEW t \in Units, Berthed(w, t)
      PROVE  Berthed(v, t)
  <2>1. w.ship[t] \in Ships \cup {None}
    BY WorldFields DEF Sound, InLists, OrNone
  <2>. QED  BY <1>1, <1>9, <2>1 DEF Berthed, Sails
<1>10. ASSUME NEW t \in Units, Near(w, t)
       PROVE  Near(v, t)
  <2>1. Berthed(v, t)
    BY <1>9, <1>10 DEF Near, Berthed
  <2>2. w.building[t] \in Buildings \cup {None}
    BY WorldFields DEF Sound, InLists, OrNone
  <2>3. v.building[t] # None => v.region[t] = v.berth[v.building[t]]
    BY <1>5, <1>10, <2>2 DEF Near, Sails
  <2>. QED  BY <2>1, <2>3 DEF Near, Berthed
<1>11. Sound(v)
  BY <1>6, <1>7, <1>8 DEF Sound, Sails
<1>. QED  BY <1>5, <1>9, <1>10, <1>11

LEMMA WholeSails ==
  ASSUME NEW w, Whole(w), NEW sh \in Ships, w.berth[sh] # None, NEW to \in Regions
  PROVE  Whole(move_ship(w, sh, to))
<1>1. PICK v : v = move_ship(w, sh, to) /\ Sails(w, v, sh, to)
  BY MoveShip DEF Whole, Sound
<1>2. Sound(v) /\ \A t \in Units : Near(w, t) => Near(v, t)
  BY <1>1, SailsSound DEF Whole
<1>. QED  BY <1>1, <1>2 DEF Whole

(* Where a unit is while the iceberg rc drifts to r: it may still be left behind. *)
Housed(w, t, rc, r) ==
  w.building[t] # None =>
    \/ w.region[t] = w.berth[w.building[t]]
    \/ w.region[t] = rc /\ w.berth[w.building[t]] = r

(* One unit of the iceberg *)
LEMMA DriftOne ==
  ASSUME NEW w, Sound(w), NEW u \in Units, NEW rc \in Regions, NEW r \in Regions, w.region[u] = rc,
         \A b \in Buildings : w.berth[b] # rc
  PROVE  LET v == Drifted(w, u, r) IN
         /\ Sound(v) /\ v.region[u] = r /\ \A t \in Units : t # u => v.region[t] = w.region[t]
         /\ v.berth = w.berth /\ Others(w, v, u)
         /\ \A t \in Units : t # u /\ Near(w, t) => Near(v, t)
         /\ Housed(w, u, rc, r) => Near(v, u)
<1>1. PICK b : b = w.building[u] /\ b \in OrNone(Buildings)
  BY WorldFields DEF Sound, InLists
<1>2. rc # None /\ r # None /\ r \in OrNone(Regions)
  BY LinkTypes DEF OrNone
<1>3. PICK w1 : w1 = [w EXCEPT !.building = [w.building EXCEPT ![u] = None]]
  OBVIOUS
<1>4. /\ w1 \in WorldType /\ w1.next = w.next /\ w1.region = w.region /\ w1.ship = w.ship
      /\ w1.owner = w.owner /\ w1.berth = w.berth /\ w1.living = w.living /\ w1.fleet = w.fleet
      /\ w1.building[u] = None /\ \A t \in Units : t # u => w1.building[t] = w.building[t]
  <2>1. [w.building EXCEPT ![u] = None] \in [Units -> OrNone(Buildings)]
    BY WorldFields DEF OrNone, Sound, InLists
  <2>. QED  BY <1>3, <2>1, WorldFields DEF WorldType, Sound, InLists
<1>5. InLists(w1)
  <2>1. HomeOf(w1) = HomeOf(w)
    BY <1>4 DEF HomeOf
  <2>. QED  BY <1>4, <2>1 DEF Sound, InLists
<1>6. can_leave(w1, u)
  BY <1>4 DEF can_leave
<1>7. CASE b = None
  <2>1. w1 = w
    <3>1. [w.building EXCEPT ![u] = None] = w.building
      BY <1>1, <1>7, WorldFields DEF Sound, InLists
    <3>. QED  BY <1>3, <3>1 DEF Sound, InLists, WorldType
  <2>2. Drifted(w, u, r) = move_unit(w, u, r)
    BY <1>1, <1>3, <1>7, <2>1 DEF Drifted
  <2>3. PICK v : v = move_unit(w, u, r)
    OBVIOUS
  <2>4. /\ Sound(v) /\ v.region[u] = r /\ \A t \in Units : t # u => v.region[t] = w.region[t]
        /\ Others(w, v, u) /\ v.berth = w.berth
        /\ \A t \in Units : t # u /\ Near(w, t) => Near(v, t)
        /\ can_leave(w, u) => Near(v, u)
    BY <1>2, <2>3, MoveUnit
  <2>. QED  BY <1>6, <2>1, <2>2, <2>3, <2>4
<1>8. CASE b # None
  <2>1. b \in Buildings /\ b \in Places /\ w.ship[u] = None
    BY <1>1, <1>8 DEF OrNone, Places, Sound, Apart
  <2>2. leave(w1, u) = w1
    BY <1>4, <2>1 DEF leave
  <2>3. PICK v : v = Carry(w1, u, r) /\ Moves(w1, v, u, r)
    BY <1>2, <1>4, <1>5, Carried
  <2>4. v = move_unit(w1, u, r)
    BY <1>6, <2>2, <2>3 DEF move_unit, leave_region, Carry
  <2>5. PICK y : y = u_set_building(v, u, b)
    OBVIOUS
  <2>6. y = Drifted(w, u, r)
    BY <1>1, <1>3, <1>8, <2>4, <2>5 DEF Drifted
  <2>7. PICK h : h = IF Vacant(v, b) THEN u ELSE v.owner[b]
    OBVIOUS
  <2>8. /\ v \in WorldType /\ v.building = w1.building /\ v.ship = w.ship /\ v.owner = w.owner
        /\ v.berth = w.berth /\ v.living = w.living /\ v.fleet = w.fleet
        /\ v.region[u] = r /\ \A t \in Units : t # u => v.region[t] = w.region[t]
    BY <1>4, <2>3, WorldFields DEF Moves, InLists
  <2>9. /\ y \in WorldType /\ y.next = v.next /\ y.region = v.region /\ y.ship = w.ship
        /\ y.berth = w.berth /\ y.living = w.living /\ y.fleet = w.fleet
        /\ y.building[u] = b /\ \A t \in Units : t # u => y.building[t] = w.building[t]
        /\ y.owner[b] = h /\ \A x \in Places : x # b => y.owner[x] = w.owner[x]
    <3>1. PICK B, O : B = [v.building EXCEPT ![u] = b] /\ O = [v.owner EXCEPT ![b] = h]
      OBVIOUS
    <3>2. y = [v EXCEPT !.building = B, !.owner = O]
      BY <2>5, <2>7, <3>1 DEF u_set_building
    <3>3. h \in OrNone(Units)
      BY <2>1, <2>7, <2>8, WorldFields DEF OrNone
    <3>4. B \in [Units -> OrNone(Buildings)] /\ O \in [Places -> OrNone(Units)]
      BY <2>1, <2>8, <3>1, <3>3, WorldFields DEF OrNone
    <3>5. /\ B[u] = b /\ \A t \in Units : t # u => B[t] = w.building[t]
          /\ O[b] = h /\ \A x \in Places : x # b => O[x] = w.owner[x]
      BY <1>4, <2>1, <2>8, <3>1, WorldFields
    <3>. QED  BY <2>8, <3>2, <3>4, <3>5, WorldFields DEF WorldType
  <2>10. InLists(y)
    <3>1. HomeOf(y) = HomeOf(v)
      BY <2>9 DEF HomeOf
    <3>. QED  BY <2>3, <2>9, <3>1 DEF Moves, InLists
  <2>11. Apart(y)
    BY <1>2, <2>1, <2>8, <2>9 DEF Sound, Apart
  <2>12. Afloat(y)
    BY <2>9 DEF Sound, Afloat
  <2>13. Ruled(y)
    <3>1. SUFFICES ASSUME NEW x \in Places, NEW t \in Units, w.berth[x] # None, y.owner[x] = t, x \notin PayBuildings
                   PROVE  x \in {y.building[t], y.ship[t]}
      BY <2>9, Zenon DEF Ruled
    <3>2. w.owner[x] = t => x \in {w.building[t], w.ship[t]}
      BY <3>1 DEF Sound, Ruled
    <3>3. w.building[t] = y.building[t] /\ w.ship[t] = y.ship[t]
      BY <1>1, <2>9
    <3>4. h = u \/ h = w.owner[b]
      BY <2>7, <2>8
    <3>. QED  BY <2>9, <3>1, <3>2, <3>3, <3>4
  <2>14. \A t \in Units : t # u /\ Near(w, t) => Near(y, t)
    BY <2>8, <2>9 DEF Near
  <2>15. Housed(w, u, rc, r) => Near(y, u)
    <3>1. w.berth[b] # rc
      BY <2>1
    <3>. QED  BY <1>1, <1>8, <2>1, <2>8, <2>9, <3>1 DEF Near, Housed
  <2>16. Others(w, y, u)
    BY <2>9 DEF Others
  <2>. QED  BY <2>6, <2>8, <2>9, <2>10, <2>11, <2>12, <2>13, <2>14, <2>15, <2>16 DEF Sound
<1>. QED  BY <1>7, <1>8

LEMMA WholeDrift ==
  ASSUME NEW w, Whole(w), NEW rc \in Regions, NEW r \in Regions, rc # r,
         NEW moved, moved = [w EXCEPT !.berth = [x \in Places |->
                               IF x \in Buildings /\ @[x] = rc THEN r ELSE @[x]]],
         NEW afloat, afloat = Along([v \in WorldType |-> [sh \in Ships |-> move_ship(v, sh, r)]], moved,
                                    SetToSeq({sh \in Ships : w.berth[sh] = rc}))
  PROVE  Whole(ForAll(afloat, rc, [v \in WorldType |-> [u \in Units |-> Drifted(v, u, r)]]))
<1>1. rc # None /\ r # None /\ \A x \in Places : x # None
  BY LinkTypes
<1>2. /\ moved \in WorldType /\ moved.next = w.next /\ moved.region = w.region /\ moved.building = w.building
      /\ moved.ship = w.ship /\ moved.owner = w.owner /\ moved.living = w.living /\ moved.fleet = w.fleet
      /\ \A x \in Places : moved.berth[x] = IF x \in Buildings /\ w.berth[x] = rc THEN r ELSE w.berth[x]
  <2>1. PICK B : B = [x \in Places |-> IF x \in Buildings /\ w.berth[x] = rc THEN r ELSE w.berth[x]]
    OBVIOUS
  <2>2. B \in [Places -> OrNone(Regions)]
    BY <2>1, WorldFields DEF Whole, Sound, InLists, OrNone
  <2>3. moved = [w EXCEPT !.berth = B]
    BY <2>1 DEF Whole, Sound, InLists, WorldType
  <2>. QED  BY <2>1, <2>2, <2>3, WorldFields DEF WorldType, Whole, Sound, InLists
<1>3. Sound(moved)
  <2>1. InLists(moved)
    <3>1. HomeOf(moved) = HomeOf(w)
      BY <1>2 DEF HomeOf
    <3>. QED  BY <1>2, <3>1 DEF Whole, Sound, InLists
  <2>2. \A x \in Places : w.berth[x] = None <=> moved.berth[x] = None
    BY <1>1, <1>2
  <2>3. Apart(moved)
    BY <1>2 DEF Whole, Sound, Apart
  <2>4. Afloat(moved)
    <3>1. \A sh \in w.fleet : sh \in Places
      BY WorldFields DEF Whole, Sound, InLists, Places
    <3>. QED  BY <1>2, <2>2, <3>1 DEF Whole, Sound, Afloat
  <2>5. Ruled(moved)
    BY <1>2, <2>2 DEF Whole, Sound, Ruled
  <2>. QED  BY <2>1, <2>3, <2>4, <2>5 DEF Sound
<1> DEFINE Still(v) == /\ Sound(v)
                       /\ \A b \in Buildings : v.berth[b] # rc
                       /\ Strict => \A t \in Units : Housed(v, t, rc, r)
           Ready(v, R) == Still(v) /\ (Strict => \A t \in Units : Berthed(v, t)) /\ \A sh \in R : v.berth[sh] # None
           S == {sh \in Ships : w.berth[sh] = rc}
           f == [v \in WorldType |-> [sh \in Ships |-> move_ship(v, sh, r)]]
           g == [v \in WorldType |-> [u \in Units |-> Drifted(v, u, r)]]
<1>4. Ready(moved, S)
  <2>1. \A b \in Buildings : moved.berth[b] # rc
    BY <1>2 DEF Places
  <2>2. \A sh \in Ships : moved.berth[sh] = w.berth[sh]
    BY <1>2, LinkTypes DEF Places
  <2>3. ASSUME Strict, NEW t \in Units
        PROVE  Housed(moved, t, rc, r) /\ Berthed(moved, t)
    <3>1. Near(w, t)
      BY <2>3 DEF Whole
    <3>2. w.building[t] \in Buildings \cup {None} /\ w.ship[t] \in Ships \cup {None}
      BY WorldFields DEF Whole, Sound, InLists, OrNone
    <3>3. Berthed(moved, t)
      BY <1>2, <2>2, <3>1, <3>2 DEF Near, Berthed
    <3>4. Housed(moved, t, rc, r)
      BY <1>2, <3>1, <3>2 DEF Near, Housed, Places
    <3>. QED  BY <3>3, <3>4
  <2>4. \A sh \in S : moved.berth[sh] # None
    BY <1>1, <2>2
  <2>. QED  BY <1>3, <2>1, <2>3, <2>4
<1>5. PICK Q : Q = [R \in SUBSET S |-> {v \in WorldType : Ready(v, R)}]
  OBVIOUS
<1>6. ASSUME NEW R \in SUBSET S, NEW sh \in R, NEW x \in Q[R]
      PROVE  f[x][sh] \in Q[R \ {sh}]
  <2>1. x \in WorldType /\ Ready(x, R) /\ sh \in Ships /\ x.berth[sh] # None /\ R \ {sh} \in SUBSET S
    BY <1>5, <1>6
  <2>2. PICK v : v = move_ship(x, sh, r) /\ Sails(x, v, sh, r)
    BY <2>1, MoveShip DEF Sound
  <2>3. /\ Sound(v)
        /\ \A t \in Units : Berthed(x, t) => Berthed(v, t)
        /\ \A t \in Units : x.building[t] # None => v.region[t] = x.region[t]
        /\ \A b \in Buildings : v.berth[b] = x.berth[b]
    BY <2>1, <2>2, SailsSound
  <2>4. ASSUME NEW t \in Units, Housed(x, t, rc, r)
        PROVE  Housed(v, t, rc, r)
    <3>1. v.building[t] = x.building[t] /\ x.building[t] \in Buildings \cup {None}
      BY <2>1, <2>2, WorldFields DEF Sails, OrNone
    <3>. QED  BY <2>3, <2>4, <3>1 DEF Housed
  <2>5. \A s \in R \ {sh} : v.berth[s] # None
    <3>1. \A s \in R : s \in Places
      BY <2>1 DEF Places
    <3>. QED  BY <2>1, <2>2, <3>1 DEF Sails
  <2>6. Ready(v, R \ {sh})
    BY <2>1, <2>3, <2>4, <2>5
  <2>7. v \in WorldType
    BY <2>3 DEF Sound, InLists
  <2>8. v \in Q[R \ {sh}]
    <3>. HIDE DEF Ready
    <3>. QED  BY <1>5, <2>1, <2>6, <2>7
  <2>. QED  BY <2>1, <2>2, <2>8
<1>7. afloat \in Q[{}]
  <2>. HIDE DEF f, Ready
  <2>1. IsFiniteSet(S)
    BY LinkTypes, FS_Subset
  <2>2. moved \in Q[S]
    BY <1>2, <1>4, <1>5
  <2>3. Along(f, moved, SetToSeq(S)) \in Q[{}]
    <3>. HIDE DEF S
    <3>. QED  BY <1>6, <2>1, <2>2, AlongSet
  <2>. QED  BY <2>3 DEF f
<1>8. Ready(afloat, {})
  <2>. HIDE DEF Ready
  <2>. QED  BY <1>5, <1>7
<1> DEFINE Fine(v, R) == /\ Sound(v) /\ \A b \in Buildings : v.berth[b] # rc
                         /\ \A t \in R : v.region[t] = rc
                         /\ Strict => (\A t \in R : Housed(v, t, rc, r)) /\ (\A t \in Units \ R : Near(v, t))
<1>9. PICK P : P = [R \in SUBSET Units |-> {v \in WorldType : Fine(v, R)}]
  OBVIOUS
<1>10. ASSUME NEW R \in SUBSET Units, NEW u \in R, NEW x \in P[R]
       PROVE  g[x][u] \in P[R \ {u}]
  <2>1. x \in WorldType /\ Fine(x, R) /\ u \in Units /\ x.region[u] = rc /\ R \ {u} \in SUBSET Units
    BY <1>9, <1>10
  <2>2. PICK v : v = Drifted(x, u, r)
    OBVIOUS
  <2>3. /\ Sound(v) /\ v.region[u] = r /\ \A t \in Units : t # u => v.region[t] = x.region[t]
        /\ v.berth = x.berth /\ Others(x, v, u)
        /\ \A t \in Units : t # u /\ Near(x, t) => Near(v, t)
        /\ Housed(x, u, rc, r) => Near(v, u)
    BY <2>1, <2>2, DriftOne
  <2>4. \A t \in R \ {u} : Housed(x, t, rc, r) => Housed(v, t, rc, r)
    BY <2>1, <2>3 DEF Housed, Others
  <2>5. \A t \in R \ {u} : v.region[t] = rc
    BY <2>1, <2>3
  <2>6. Fine(v, R \ {u})
    BY <2>1, <2>3, <2>4, <2>5
  <2>7. v \in WorldType
    BY <2>3 DEF Sound, InLists
  <2>8. v \in P[R \ {u}]
    <3>. HIDE DEF Fine
    <3>. QED  BY <1>9, <2>1, <2>6, <2>7
  <2>. QED  BY <2>1, <2>2, <2>8
<1>11. afloat \in P[{u \in Units : afloat.region[u] = rc}]
  <2>1. Fine(afloat, {u \in Units : afloat.region[u] = rc})
    <3>1. ASSUME Strict, NEW t \in Units, afloat.region[t] # rc
          PROVE  Near(afloat, t)
      BY <1>8, <3>1 DEF Near, Housed, Berthed
    <3>. QED  BY <1>8, <3>1
  <2>2. afloat \in WorldType
    BY <1>8 DEF Sound, InLists
  <2>. HIDE DEF Fine
  <2>. QED  BY <1>9, <2>1, <2>2
<1>12. ForAll(afloat, rc, g) \in P[{}]
  <2>1. InLists(afloat)
    BY <1>8 DEF Sound
  <2>. HIDE DEF g, Fine
  <2>. QED  BY <1>10, <1>11, <2>1, WholeForAll
<1>13. PICK v : v = ForAll(afloat, rc, g) /\ Fine(v, {})
  <2>. HIDE DEF g, Fine
  <2>. QED  BY <1>9, <1>12
<1>14. Whole(v)
  BY <1>13 DEF Whole
<1>. QED  BY <1>13, <1>14

LEMMA WholeWormhole ==
  ASSUME NEW w, Whole(w), NEW b \in Buildings, NEW r \in Regions, r = w.berth[b], NEW exit \in Regions,
         NEW stay, "wormholes" \in Features,
         NEW f, f = [v \in WorldType |-> [u \in Units |->
                      IF v.building[u] = b /\ u \notin stay THEN move_unit(v, u, exit) ELSE v]]
  PROVE  Whole(remove_building(ForAll(w, r, f), b))
<1> DEFINE Fine(v, R) == Whole(v) /\ v.berth = w.berth /\ \A t \in R : v.region[t] = r
<1>1. PICK Q : Q = [R \in SUBSET Units |-> {v \in WorldType : Fine(v, R)}]
  OBVIOUS
<1>2. ASSUME NEW R \in SUBSET Units, NEW u \in R, NEW x \in Q[R]
      PROVE  f[x][u] \in Q[R \ {u}]
  <2>1. x \in WorldType /\ Fine(x, R) /\ u \in Units /\ x.region[u] = r /\ r # None /\ R \ {u} \in SUBSET Units
    BY <1>1, <1>2, LinkTypes
  <2>2. f[x][u] = IF x.building[u] = b /\ u \notin stay THEN move_unit(x, u, exit) ELSE x
    BY <2>1
  <2>3. \A v : Fine(v, R \ {u}) => v \in Q[R \ {u}]
    BY <1>1, <2>1 DEF Whole, Sound, InLists
  <2>4. Strict => can_leave(x, u)
    BY DEF Strict, can_leave
  <2>5. PICK y : y = move_unit(x, u, exit)
    OBVIOUS
  <2>6. Whole(y) /\ y.berth = x.berth /\ \A t \in Units : t # u => y.region[t] = x.region[t]
    BY <2>1, <2>4, <2>5, WholeMove
  <2>7. Fine(y, R \ {u}) /\ Fine(x, R \ {u})
    BY <2>1, <2>6
  <2>. HIDE DEF Fine
  <2>. QED  BY <2>2, <2>3, <2>5, <2>7
<1>3. w \in Q[{u \in Units : w.region[u] = r}]
  BY <1>1 DEF Whole, Sound, InLists
<1>4. ForAll(w, r, f) \in Q[{}]
  <2>. HIDE DEF Fine
  <2>1. InLists(w)
    BY DEF Whole, Sound
  <2>. QED  BY <1>2, <1>3, <2>1, WholeForAll
<1>5. PICK v : v = ForAll(w, r, f) /\ Fine(v, {})
  <2>. HIDE DEF Fine
  <2>. QED  BY <1>1, <1>4
<1>6. Whole(remove_building(v, b))
  <2>1. v.berth[b] # None
    BY <1>5, LinkTypes
  <2>. QED  BY <1>5, <2>1, WholeRazed
<1>. QED  BY <1>5, <1>6

(* Whoever follows a unit on a list is where that is. *)
LEMMA NextHere ==
  ASSUME NEW w, InLists(w), NEW l \in Links, w.next[l] # None
  PROVE  w.next[l] \in Units /\ HomeOf(w)[l] # None /\ w.region[w.next[l]] = HomeOf(w)[l]
<1>1. PICK pos \in Depths : Ranked(w.next, HomeOf(w), pos)
  BY DEF InLists, Chained
<1>2. w.next[l] \in Units
  BY WorldFields DEF InLists, Pointers, OrNone
<1>. QED  BY <1>1, <1>2, WorldFields DEF InLists, Ranked

LEMMA WholeDisrupt ==
  ASSUME NEW w, Whole(w), NEW r2 \in Regions, NEW tr \in Regions, NEW resist, "astral" \in Features,
         NEW f, f = [t \in [w : WorldType, u : OrNone(Units)] |-> [k \in Nat |->
                 LET v == IF t.u \in resist THEN t.w ELSE move_unit(t.w, t.u, tr)
                 IN IF t.u = None THEN t ELSE [w |-> v, u |-> v.next[t.u]]]]
  PROVE  Whole(Along(f, [w |-> w, u |-> w.next[r2]], Turns(2 * Cardinality(Units))).w)
<1> DEFINE T == [w : WorldType, u : OrNone(Units)]
           Turn(t) == LET v == IF t.u \in resist THEN t.w ELSE move_unit(t.w, t.u, tr)
                      IN IF t.u = None THEN t ELSE [w |-> v, u |-> v.next[t.u]]
           Fine(t) == Whole(t.w) /\ (t.u # None => t.w.region[t.u] # None)
<1>1. PICK Q, s : Q = {t \in T : Fine(t)} /\ s = [w |-> w, u |-> w.next[r2]]
  OBVIOUS
<1>2. ASSUME NEW t \in Q, NEW k \in Nat
      PROVE  f[t][k] \in Q
  <2>1. t \in T /\ Fine(t) /\ f[t][k] = Turn(t)
    BY <1>1, <1>2
  <2>2. CASE t.u = None
    BY <2>1, <2>2
  <2>3. CASE t.u # None
    <3>1. PICK u \in Units : u = t.u
      BY <2>1, <2>3 DEF OrNone
    <3>2. PICK v : v = IF u \in resist THEN t.w ELSE move_unit(t.w, u, tr)
      OBVIOUS
    <3>3. t.w \in WorldType /\ Whole(t.w) /\ t.w.region[u] # None /\ tr # None
      BY <2>1, <2>3, <3>1, LinkTypes
    <3>4. Strict => can_leave(t.w, u)
      BY DEF Strict, can_leave
    <3>5. Whole(v) /\ v.region[u] # None
      <4>1. CASE u \in resist
        BY <3>2, <3>3, <4>1
      <4>2. CASE u \notin resist
        <5>1. v = move_unit(t.w, u, tr)
          BY <3>2, <4>2
        <5>2. Whole(v) /\ v.region[u] = tr
          BY <3>3, <3>4, <5>1, WholeMove
        <5>. QED  BY <3>3, <5>2
      <4>. QED  BY <4>1, <4>2
    <3>6. InLists(v) /\ v \in WorldType /\ u \in Links /\ HomeOf(v)[u] = v.region[u]
      BY <3>5, WorldFields DEF Whole, Sound, InLists
    <3>7. v.next[u] \in OrNone(Units)
      BY <3>6, WorldFields DEF Pointers
    <3>8. v.next[u] # None => v.region[v.next[u]] = v.region[u]
      BY <3>6, NextHere
    <3>9. PICK y : y = [w |-> v, u |-> v.next[u]]
      OBVIOUS
    <3>10. Turn(t) = y
      BY <2>3, <3>1, <3>2, <3>9
    <3>11. y \in T /\ y.w = v /\ y.u = v.next[u]
      BY <3>6, <3>7, <3>9
    <3>12. Fine(y)
      BY <3>5, <3>8, <3>11
    <3>. HIDE DEF Turn, Fine, T
    <3>. QED  BY <1>1, <2>1, <3>10, <3>11, <3>12
  <2>. HIDE DEF Turn
  <2>. QED  BY <1>1, <1>2, <2>1, <2>2, <2>3
<1>3. s \in Q
  <2>1. w \in WorldType /\ InLists(w) /\ r2 \in Links /\ r2 # None /\ HomeOf(w)[r2] = r2
    BY LinkTypes, WorldFields DEF Whole, Sound, InLists
  <2>2. w.next[r2] \in OrNone(Units)
    BY <2>1, WorldFields DEF Pointers
  <2>3. w.next[r2] # None => w.region[w.next[r2]] # None
    BY <2>1, NextHere
  <2>. QED  BY <1>1, <2>1, <2>2, <2>3
<1>4. PICK n : n = Turns(2 * Cardinality(Units))
  OBVIOUS
<1>5. n \in Seq(Nat)
  <2>1. 2 * Cardinality(Units) \in Nat
    BY LinkTypes
  <2>. QED  BY <1>4, <2>1 DEF Turns
<1>6. Along(f, s, n) \in Q
  <2>. QED  BY <1>2, <1>3, <1>5, AlongStays
<1>7. Whole(Along(f, s, n).w)
  <2>. QED  BY <1>1, <1>6
<1>. QED  BY <1>1, <1>4, <1>7

-----------------------------------------------------------------------------
(* Building, boarding, giving *)

LEMMA WholeFleet ==
  ASSUME NEW w, Whole(w), NEW F \in SUBSET w.fleet
  PROVE  LET v == [w EXCEPT !.fleet = F] IN
         /\ Whole(v) /\ v.next = w.next /\ v.region = w.region /\ v.building = w.building
         /\ v.ship = w.ship /\ v.owner = w.owner /\ v.berth = w.berth /\ v.living = w.living /\ v.fleet = F
<1>1. PICK v : v = [w EXCEPT !.fleet = F]
  OBVIOUS
<1>2. /\ v \in WorldType /\ v.next = w.next /\ v.region = w.region /\ v.building = w.building
      /\ v.ship = w.ship /\ v.owner = w.owner /\ v.berth = w.berth /\ v.living = w.living /\ v.fleet = F
  BY <1>1, WorldFields DEF WorldType, Whole, Sound, InLists
<1>3. InLists(v)
  <2>1. HomeOf(v) = HomeOf(w)
    BY <1>2 DEF HomeOf
  <2>. QED  BY <1>2, <2>1 DEF Whole, Sound, InLists
<1>4. Apart(v) /\ Afloat(v) /\ Ruled(v)
  <2>1. Apart(v)
    BY <1>2 DEF Whole, Sound, Apart
  <2>. QED  BY <1>2, <2>1 DEF Whole, Sound, Afloat, Ruled
<1>5. \A u \in Units : Near(w, u) => Near(v, u)
  BY <1>2 DEF Near
<1>6. Whole(v)
  BY <1>3, <1>4, <1>5 DEF Whole, Sound
<1>. QED  BY <1>1, <1>2, <1>6

(* Whoever is put in charge is inside. *)
LEMMA WholeOwners ==
  ASSUME NEW w, Whole(w), NEW O \in [Places -> OrNone(Units)],
         \A x \in Places : O[x] = w.owner[x] \/ \E u \in Units : O[x] = u /\ x \in {w.building[u], w.ship[u]}
  PROVE  LET v == [w EXCEPT !.owner = O] IN
         Whole(v) /\ v.next = w.next /\ v.region = w.region
<1>1. PICK v : v = [w EXCEPT !.owner = O]
  OBVIOUS
<1>2. /\ v \in WorldType /\ v.next = w.next /\ v.region = w.region /\ v.building = w.building
      /\ v.ship = w.ship /\ v.owner = O /\ v.berth = w.berth /\ v.living = w.living /\ v.fleet = w.fleet
  BY <1>1, WorldFields DEF WorldType, Whole, Sound, InLists
<1>3. InLists(v)
  <2>1. HomeOf(v) = HomeOf(w)
    BY <1>2 DEF HomeOf
  <2>. QED  BY <1>2, <2>1 DEF Whole, Sound, InLists
<1>4. Apart(v) /\ Afloat(v)
  <2>1. Apart(v)
    BY <1>2 DEF Whole, Sound, Apart
  <2>. QED  BY <1>2, <2>1 DEF Whole, Sound, Afloat
<1>5. Ruled(v)
  BY <1>2 DEF Whole, Sound, Ruled
<1>6. \A u \in Units : Near(w, u) => Near(v, u)
  BY <1>2 DEF Near
<1>7. Whole(v)
  BY <1>3, <1>4, <1>5, <1>6 DEF Whole, Sound
<1>. QED  BY <1>1, <1>2, <1>7

LEMMA WholeNext ==
  ASSUME NEW w, Whole(w), NEW n \in Pointers, Chained(n, HomeOf(w))
  PROVE  LET v == [w EXCEPT !.next = n] IN
         Whole(v) /\ v.next = n /\ v.region = w.region
<1>1. PICK v : v = [w EXCEPT !.next = n]
  OBVIOUS
<1>2. /\ v \in WorldType /\ v.next = n /\ v.region = w.region /\ v.building = w.building
      /\ v.ship = w.ship /\ v.owner = w.owner /\ v.berth = w.berth /\ v.living = w.living /\ v.fleet = w.fleet
  BY <1>1, WorldFields DEF WorldType, Pointers, Whole, Sound, InLists
<1>3. InLists(v)
  <2>1. HomeOf(v) = HomeOf(w)
    BY <1>2 DEF HomeOf
  <2>. QED  BY <1>2, <2>1 DEF InLists
<1>4. Apart(v) /\ Afloat(v) /\ Ruled(v)
  <2>1. Apart(v)
    BY <1>2 DEF Whole, Sound, Apart
  <2>. QED  BY <1>2, <2>1 DEF Whole, Sound, Afloat, Ruled
<1>5. \A u \in Units : Near(w, u) => Near(v, u)
  BY <1>2 DEF Near
<1>6. Whole(v)
  BY <1>3, <1>4, <1>5 DEF Whole, Sound
<1>. QED  BY <1>1, <1>2, <1>6

(* A building or ship is made in r: nobody is inside, or in charge. *)
Founds(w, v, x, r) ==
  /\ v \in WorldType /\ v.next = w.next /\ v.region = w.region /\ v.building = w.building
  /\ v.ship = w.ship /\ v.living = w.living /\ v.fleet \subseteq w.fleet \cup {x}
  /\ v.berth = [w.berth EXCEPT ![x] = r] /\ v.owner = [w.owner EXCEPT ![x] = None]

LEMMA FoundsWhole ==
  ASSUME NEW w, Whole(w), NEW x \in Places, w.berth[x] = None, NEW r \in Regions, NEW v, Founds(w, v, x, r)
  PROVE  Whole(v) /\ v.berth[x] = r
<1>1. /\ v.berth[x] = r /\ v.owner[x] = None /\ r # None /\ x # None
      /\ \A y \in Places : y # x => v.berth[y] = w.berth[y] /\ v.owner[y] = w.owner[y]
  BY WorldFields, LinkTypes DEF Founds, Whole, Sound, InLists
<1>2. InLists(v)
  <2>1. HomeOf(v) = HomeOf(w)
    BY DEF HomeOf, Founds
  <2>. QED  BY <2>1 DEF Whole, Sound, InLists, Founds
<1>3. Apart(v)
  BY DEF Whole, Sound, Apart, Founds
<1>4. Afloat(v)
  <2>1. \A sh \in v.fleet : sh \in Places
    BY WorldFields DEF Founds, Places
  <2>2. \A sh \in v.fleet : sh \in w.fleet \/ sh = x
    BY DEF Founds
  <2>. QED  BY <1>1, <2>1, <2>2 DEF Whole, Sound, Afloat
<1>5. Ruled(v)
  <2>1. SUFFICES ASSUME NEW y \in Places, NEW t \in Units, v.berth[y] # None, v.owner[y] = t
                 PROVE  y \in {v.building[t], v.ship[t]} \cup PayBuildings
    BY Zenon DEF Ruled
  <2>2. y # x
    BY <1>1, <2>1, LinkTypes
  <2>. QED  BY <1>1, <2>1, <2>2 DEF Whole, Sound, Ruled, Founds
<1>6. ASSUME NEW t \in Units, Near(w, t)
      PROVE  Near(v, t)
  <2>1. w.region[t] = None => w.building[t] = None /\ w.ship[t] = None
    BY DEF Whole, Sound, Apart
  <2>2. w.building[t] # x /\ w.ship[t] # x
    BY <1>1, <1>6, <2>1 DEF Near
  <2>3. /\ w.building[t] # None => w.building[t] \in Places
        /\ w.ship[t] # None => w.ship[t] \in Places
    BY WorldFields DEF Places, OrNone, Whole, Sound, InLists
  <2>. QED  BY <1>1, <1>6, <2>2, <2>3 DEF Near, Founds
<1>7. Whole(v)
  BY <1>2, <1>3, <1>4, <1>5, <1>6 DEF Whole, Sound
<1>. QED  BY <1>1, <1>7

LEMMA LaunchFounds ==
  ASSUME NEW w \in WorldType, NEW sh \in Ships, NEW r \in Regions
  PROVE  Founds(w, Launch(w, sh, r), sh, r)
<1>1. PICK B, O, F : /\ B = [w.berth EXCEPT ![sh] = r] /\ O = [w.owner EXCEPT ![sh] = None]
                     /\ F = w.fleet \cup {sh}
  OBVIOUS
<1>2. B \in [Places -> OrNone(Regions)] /\ O \in [Places -> OrNone(Units)] /\ F \in SUBSET Ships
  BY <1>1, WorldFields DEF OrNone
<1>3. Launch(w, sh, r) = [w EXCEPT !.berth = B, !.owner = O, !.fleet = F]
  BY <1>1 DEF Launch
<1>. QED  BY <1>1, <1>2, <1>3, WorldFields DEF Founds, WorldType

LEMMA WholeHouse ==
  ASSUME NEW w, Whole(w), NEW u \in Units, w.building[u] = None, w.ship[u] = None, w.region[u] # None,
         NEW b \in Buildings, Strict => w.region[u] = w.berth[b]
  PROVE  LET v == u_set_building(w, u, b) IN
         Whole(v) /\ Stays(w, v) /\ Others(w, v, u) /\ v.building[u] = b /\ v.ship[u] = None
<1>1. PICK v : v = u_set_building(w, u, b)
  OBVIOUS
<1>2. Stays(w, v) /\ Others(w, v, u) /\ Ruled(v) /\ v.building[u] = b /\ v.ship[u] = None
  BY <1>1, SetBuilding DEF Whole, Sound, InLists
<1>3. Strict => Near(v, u)
  BY <1>2 DEF Near, Stays
<1>4. Whole(v)
  BY <1>2, <1>3, WholeStays
<1>. QED  BY <1>1, <1>2, <1>4

LEMMA WholeBoard ==
  ASSUME NEW w, Whole(w), NEW u \in Units, w.building[u] = None, w.ship[u] = None, w.region[u] # None,
         NEW sh \in Ships, Strict => w.region[u] = w.berth[sh]
  PROVE  LET v == u_set_ship(w, u, sh) IN
         Whole(v) /\ Stays(w, v) /\ Others(w, v, u) /\ v.ship[u] = sh /\ v.building[u] = None
<1>1. PICK v : v = u_set_ship(w, u, sh)
  OBVIOUS
<1>2. Stays(w, v) /\ Others(w, v, u) /\ Ruled(v) /\ v.ship[u] = sh /\ v.building[u] = None
  BY <1>1, SetShip DEF Whole, Sound, InLists
<1>3. Strict => Near(v, u)
  BY <1>2 DEF Near, Stays
<1>4. Whole(v)
  BY <1>2, <1>3, WholeStays
<1>. QED  BY <1>1, <1>2, <1>4

(* from one ship to another *)
LEMMA WholeChange ==
  ASSUME NEW w, Whole(w), NEW u \in Units, w.ship[u] # None, NEW sh \in Ships,
         Strict => w.region[u] = w.berth[sh]
  PROVE  LET v == u_set_ship(leave_ship(w, u), u, sh) IN
         Whole(v) /\ Stays(w, v)
<1>1. w.building[u] = None /\ w.region[u] # None
  BY DEF Whole, Sound, Apart
<1>2. leave_ship(w, u) = leave(w, u)
  BY <1>1 DEF leave
<1>3. PICK x : x = leave(w, u) /\ Whole(x) /\ Stays(w, x) /\ x.building[u] = None /\ x.ship[u] = None
  BY WholeLeave
<1>4. x.region[u] # None /\ (Strict => x.region[u] = x.berth[sh])
  BY <1>1, <1>3 DEF Stays
<1>5. PICK v : v = u_set_ship(x, u, sh) /\ Whole(v) /\ Stays(x, v)
  BY <1>3, <1>4, WholeBoard
<1>6. Stays(w, v)
  BY <1>3, <1>5 DEF Stays
<1>. QED  BY <1>2, <1>3, <1>5, <1>6

LEMMA WholeTransfer ==
  ASSUME NEW w, Whole(w), NEW r \in Regions, NEW s1 \in Ships, NEW s2 \in Ships, Strict => w.berth[s2] = r
  PROVE  Whole(transfer_units(w, r, s1, s2))
<1> DEFINE f == [v \in WorldType |-> [u \in Units |->
                  IF v.ship[u] = s1 THEN u_set_ship(leave_ship(v, u), u, s2) ELSE v]]
           Fine(v, R) == Whole(v) /\ v.berth = w.berth /\ \A t \in R : v.region[t] = r
<1>1. PICK Q : Q = [R \in SUBSET Units |-> {v \in WorldType : Fine(v, R)}]
  OBVIOUS
<1>2. ASSUME NEW R \in SUBSET Units, NEW u \in R, NEW x \in Q[R]
      PROVE  f[x][u] \in Q[R \ {u}]
  <2>1. x \in WorldType /\ Fine(x, R) /\ u \in Units /\ x.region[u] = r /\ R \ {u} \in SUBSET Units
    BY <1>1, <1>2
  <2>2. f[x][u] = IF x.ship[u] = s1 THEN u_set_ship(leave_ship(x, u), u, s2) ELSE x
    BY <2>1
  <2>3. \A v : Fine(v, R \ {u}) => v \in Q[R \ {u}]
    BY <1>1, <2>1 DEF Whole, Sound, InLists
  <2>4. CASE x.ship[u] # s1
    <3>1. Fine(x, R \ {u})
      BY <2>1, <2>4
    <3>. QED  BY <2>2, <2>3, <2>4, <3>1
  <2>5. CASE x.ship[u] = s1
    <3>1. s1 # None
      BY LinkTypes DEF Places
    <3>2. Strict => x.region[u] = x.berth[s2]
      BY <2>1
    <3>3. PICK y : y = u_set_ship(leave_ship(x, u), u, s2) /\ Whole(y) /\ Stays(x, y)
      BY <2>1, <2>5, <3>1, <3>2, WholeChange
    <3>4. Fine(y, R \ {u})
      BY <2>1, <3>3 DEF Stays
    <3>. QED  BY <2>2, <2>3, <2>5, <3>3, <3>4
  <2>. QED  BY <2>4, <2>5
<1>3. w \in Q[{u \in Units : w.region[u] = r}]
  BY <1>1 DEF Whole, Sound, InLists
<1>4. ForAll(w, r, f) \in Q[{}]
  <2>. HIDE DEF f, Fine
  <2>1. InLists(w)
    BY DEF Whole, Sound
  <2>. QED  BY <1>2, <1>3, <2>1, WholeForAll
<1>5. PICK v : v = ForAll(w, r, f) /\ Fine(v, {})
  <2>. HIDE DEF f, Fine
  <2>. QED  BY <1>1, <1>4
<1>. QED  BY <1>5 DEF transfer_units

-----------------------------------------------------------------------------
(* The order of reports *)

(* ufirst, unext and umove follow each other on the list of r. *)
Gathers(t, ufirst, home, r) ==
  /\ t \in GatherType /\ ufirst \in Links
  /\ home[ufirst] = r /\ home[t.unext] = r /\ home[t.umove] = r
  /\ \E pos \in Depths :
       /\ Ranked(t.next, home, pos)
       /\ ufirst = t.unext \/ pos[ufirst] < pos[t.unext]
       /\ t.unext = t.umove \/ pos[t.unext] < pos[t.umove]

LEMMA PlaceGathers ==
  ASSUME NEW home \in Homes, NEW r \in Regions, NEW t, NEW ufirst, Gathers(t, ufirst, home, r), NEW S, NEW owner
  PROVE  Gathers(PlaceOne(t, ufirst, S, owner), ufirst, home, r)
<1>1. PICK next, umove, unext : next = t.next /\ umove = t.umove /\ unext = t.unext
  OBVIOUS
<1>2. /\ next \in Pointers /\ umove \in Links /\ unext \in Links /\ ufirst \in Links
      /\ home[ufirst] = r /\ home[unext] = r /\ home[umove] = r
  BY <1>1 DEF Gathers, GatherType, Pointers
<1>3. PICK pos \in Depths :
        /\ Ranked(next, home, pos)
        /\ ufirst = unext \/ pos[ufirst] < pos[unext]
        /\ unext = umove \/ pos[unext] < pos[umove]
  BY <1>1 DEF Gathers
<1>4. CASE next[umove] = None
  BY <1>1, <1>4 DEF PlaceOne
<1>5. CASE next[umove] # None
  <2>1. PICK u \in Units : u = next[umove]
    BY <1>2, <1>5 DEF Pointers, OrNone
  <2>2. u \in Links /\ u # None /\ home[u] = r /\ pos[umove] < pos[u] /\ \A l \in Links : pos[l] \in Nat
    BY <1>2, <1>3, <2>1, LinkTypes DEF Ranked, Depths
  <2>3. PICK ui : ui = IF u = owner THEN ufirst ELSE unext
    OBVIOUS
  <2>4. ui \in {ufirst, unext} /\ ui \in Links /\ home[ui] = r
    BY <1>2, <2>3
  <2>5. /\ pos[ufirst] \in Nat /\ pos[unext] \in Nat /\ pos[umove] \in Nat /\ pos[u] \in Nat /\ pos[ui] \in Nat
        /\ pos[ui] <= pos[umove] /\ pos[unext] <= pos[umove] /\ pos[ufirst] <= pos[unext]
    BY <1>2, <1>3, <2>2, <2>4
  <2>6. ui # u /\ umove # u /\ ufirst # u /\ unext # u
    BY <2>2, <2>5
  <2>7. PICK x : x = PlaceOne(t, ufirst, S, owner)
    OBVIOUS
  <2>8. CASE u \in S /\ umove # ui
    <3>1. PICK n, p : n = Relink(next, umove, ui) /\ p = Moved(pos, u, ui)
      OBVIOUS
    <3>2. n \in Pointers /\ p \in Depths /\ Ranked(n, home, p)
      BY <1>2, <1>3, <2>1, <2>4, <2>6, <2>8, <3>1, RelinkChain
    <3>3. x = [next |-> n, umove |-> umove, unext |-> IF unext = ui THEN u ELSE unext]
      BY <1>1, <1>5, <2>1, <2>3, <2>7, <2>8, <3>1 DEF PlaceOne
    <3>4. x \in GatherType /\ x.next = n /\ x.umove = umove /\ x.unext \in {u, unext}
          /\ (unext = ui => x.unext = u) /\ (unext # ui => x.unext = unext)
      BY <1>2, <2>2, <3>2, <3>3 DEF GatherType, Pointers
    <3>5. p[u] = 2 * pos[ui] + 1 /\ \A l \in Links : l # u => p[l] = 2 * pos[l]
      BY <2>2, <3>1 DEF Moved
    <3>6. p[ufirst] = 2 * pos[ufirst] /\ p[unext] = 2 * pos[unext] /\ p[umove] = 2 * pos[umove]
      BY <1>2, <2>6, <3>5
    <3>7. CASE unext = ui
      <4>1. pos[unext] < pos[umove]
        BY <1>3, <2>8, <3>7
      <4>2. p[ufirst] < p[u] /\ p[u] < p[umove]
        BY <2>5, <3>5, <3>6, <3>7, <4>1
      <4>. QED  BY <1>2, <2>2, <2>7, <3>2, <3>4, <3>7, <4>2 DEF Gathers
    <3>8. CASE unext # ui
      <4>1. ufirst = unext \/ p[ufirst] < p[unext]
        BY <1>3, <2>5, <3>6
      <4>2. unext = umove \/ p[unext] < p[umove]
        BY <1>3, <2>5, <3>6
      <4>. QED  BY <1>2, <2>7, <3>2, <3>4, <3>8, <4>1, <4>2 DEF Gathers
    <3>. QED  BY <3>7, <3>8
  <2>9. CASE ~ (u \in S /\ umove # ui)
    <3>1. x = [next |-> next, umove |-> u, unext |-> IF u \in S /\ unext = ui THEN u ELSE unext]
      BY <1>1, <1>5, <2>1, <2>3, <2>7, <2>9 DEF PlaceOne
    <3>2. x \in GatherType /\ x.next = next /\ x.umove = u /\ x.unext \in {u, unext}
      BY <1>2, <2>2, <3>1 DEF GatherType, Pointers
    <3>3. pos[ufirst] < pos[u] /\ pos[unext] < pos[u]
      BY <2>2, <2>5
    <3>. QED  BY <1>2, <1>3, <2>2, <2>7, <3>2, <3>3 DEF Gathers
  <2>. QED  BY <2>7, <2>8, <2>9
<1>. QED  BY <1>4, <1>5

(* before and after a loop along the list *)
Draws(t, home, r) == t \in GatherType /\ Chained(t.next, home) /\ home[t.unext] = r

LEMMA GatherDraws ==
  ASSUME NEW home \in Homes, NEW r \in Regions, NEW t, Draws(t, home, r), NEW S, NEW owner
  PROVE  Draws(Gather(t, S, owner), home, r)
<1> DEFINE f == [v \in GatherType |-> [k \in Nat |-> PlaceOne(v, t.unext, S, owner)]]
<1>1. PICK Q, s, n : /\ Q = {v \in GatherType : Gathers(v, t.unext, home, r)}
                     /\ s = [t EXCEPT !.umove = t.unext] /\ n = Turns(Cardinality(Units))
  OBVIOUS
<1>2. n \in Seq(Nat)
  <2>1. Cardinality(Units) \in Nat
    BY LinkTypes
  <2>. QED  BY <1>1, <2>1 DEF Turns
<1>3. s \in Q
  <2>1. PICK pos \in Depths : Ranked(t.next, home, pos)
    BY DEF Draws, Chained
  <2>2. s \in GatherType /\ s.next = t.next /\ s.umove = t.unext /\ s.unext = t.unext /\ t.unext \in Links
    BY <1>1 DEF Draws, GatherType
  <2>. QED  BY <1>1, <2>1, <2>2 DEF Gathers, Draws
<1>4. \A x \in Q, k \in Nat : f[x][k] \in Q
  <2>1. SUFFICES ASSUME NEW x \in Q, NEW k \in Nat
                 PROVE  f[x][k] \in Q
    OBVIOUS
  <2>2. x \in GatherType /\ Gathers(x, t.unext, home, r)
    BY <1>1
  <2>3. f[x][k] = PlaceOne(x, t.unext, S, owner)
    BY <2>2
  <2>4. Gathers(PlaceOne(x, t.unext, S, owner), t.unext, home, r)
    BY <2>2, PlaceGathers
  <2>. QED  BY <1>1, <2>3, <2>4 DEF Gathers
<1>5. Along(f, s, n) \in Q
  <2>. HIDE DEF f
  <2>. QED  BY <1>2, <1>3, <1>4, AlongStays
<1>6. Gather(t, S, owner) \in Q
  BY <1>1, <1>5 DEF Gather
<1>7. Gathers(Gather(t, S, owner), t.unext, home, r)
  BY <1>1, <1>6
<1>. QED  BY <1>7 DEF Gathers, Draws, Chained

LEMMA WholeReorder ==
  ASSUME NEW w, Whole(w), NEW r \in Regions, NEW bs \in Seq(Buildings), NEW shs \in Seq(Ships)
  PROVE  Whole(reorder_units(w, r, bs, shs))
<1> DEFINE f == [t \in GatherType |-> [b \in Buildings |-> GatherBuilding(w, t, b)]]
           g == [t \in GatherType |-> [sh \in Ships |-> GatherShip(w, t, sh)]]
<1>1. PICK home : home = HomeOf(w) /\ home \in Homes /\ home[r] = r /\ Chained(w.next, home)
                  /\ w.next \in Pointers /\ r \in Links
  BY WorldFields DEF Whole, Sound, InLists
<1>2. PICK Q, s : Q = {t \in GatherType : Draws(t, home, r)} /\ s = [next |-> w.next, umove |-> r, unext |-> r]
  OBVIOUS
<1>3. s \in Q
  BY <1>1, <1>2 DEF Draws, GatherType, Pointers
<1>4. \A t \in Q : \A S, owner : Gather(t, S, owner) \in Q
  <2>1. SUFFICES ASSUME NEW t \in Q, NEW S, NEW owner
                 PROVE  Gather(t, S, owner) \in Q
    OBVIOUS
  <2>2. Draws(Gather(t, S, owner), home, r)
    BY <1>1, <1>2, GatherDraws
  <2>. QED  BY <1>2, <2>2 DEF Draws
<1>5. \A x \in Q, b \in Buildings : f[x][b] \in Q
  <2>1. SUFFICES ASSUME NEW x \in Q, NEW b \in Buildings
                 PROVE  GatherBuilding(w, x, b) \in Q
    BY <1>2
  <2>. QED  BY <1>4, <2>1, Zenon DEF GatherBuilding
<1>6. \A x \in Q, sh \in Ships : g[x][sh] \in Q
  <2>1. SUFFICES ASSUME NEW x \in Q, NEW sh \in Ships
                 PROVE  GatherShip(w, x, sh) \in Q
    BY <1>2
  <2>. QED  BY <1>4, <2>1, Zenon DEF GatherShip
<1>7. PICK indoors : indoors = Along(f, s, bs) /\ indoors \in Q
  <2>. HIDE DEF f
  <2>. QED  BY <1>3, <1>5, AlongStays
<1>8. PICK ashore : ashore = (IF shs = <<>> THEN indoors ELSE Gather(indoors, {u \in w.living : w.ship[u] = None}, None))
                    /\ ashore \in Q
  BY <1>4, <1>7
<1>9. PICK afloat : afloat = Along(g, ashore, shs) /\ afloat \in Q
  <2>. HIDE DEF g
  <2>. QED  BY <1>6, <1>8, AlongStays
<1>10. reorder_units(w, r, bs, shs) = [w EXCEPT !.next = afloat.next]
  BY <1>2, <1>7, <1>8, <1>9 DEF reorder_units
<1>11. afloat.next \in Pointers /\ Chained(afloat.next, HomeOf(w))
  BY <1>1, <1>2, <1>9 DEF Draws, GatherType, Pointers
<1>. QED  BY <1>10, <1>11, WholeNext

-----------------------------------------------------------------------------
(* Saved and loaded *)

(* Whoever is inside was inside before. *)
Restored(w, v) ==
  /\ Stays(w, v) /\ Ruled(v)
  /\ \A u \in Units : v.building[u] \in {None, w.building[u]} /\ v.ship[u] \in {None, w.ship[u]}

LEMMA RestoredWhole ==
  ASSUME NEW w, Whole(w), NEW v, Restored(w, v)
  PROVE  Whole(v)
<1>1. InLists(v)
  <2>1. HomeOf(v) = HomeOf(w)
    BY DEF Restored, Stays, HomeOf
  <2>. QED  BY <2>1 DEF Whole, Sound, InLists, Restored, Stays
<1>2. Apart(v)
  BY DEF Whole, Sound, Apart, Restored, Stays
<1>3. Afloat(v) /\ Ruled(v)
  BY DEF Whole, Sound, Afloat, Restored, Stays
<1>4. \A u \in Units : Near(w, u) => Near(v, u)
  BY DEF Near, Restored, Stays
<1>. QED  BY <1>1, <1>2, <1>3, <1>4 DEF Whole, Sound

LEMMA ReadOne ==
  ASSUME Whole(world), NEW v, Restored(world, v), NEW u \in Units
  PROVE  Restored(world, ReadUnit(v, u))
<1>1. PICK b, sh : b = world.building[u] /\ sh = world.ship[u]
  OBVIOUS
<1>2. /\ b \in OrNone(Buildings) /\ sh \in OrNone(Ships) /\ (b = None \/ sh = None)
      /\ v \in WorldType /\ Ruled(v) /\ v.building[u] \in {None, b} /\ v.ship[u] \in {None, sh}
  BY <1>1, WorldFields DEF Whole, Sound, InLists, Apart, Restored, Stays
<1>3. PICK x : x = ReadUnit(v, u)
  OBVIOUS
<1>4. CASE x = v
  BY <1>3, <1>4
<1>5. CASE sh # None /\ x = u_set_ship(v, u, sh)
  <2>1. sh \in Ships /\ v.building[u] = None
    BY <1>2, <1>5 DEF OrNone
  <2>2. Stays(v, x) /\ Others(v, x, u) /\ Ruled(x) /\ x.ship[u] = sh /\ x.building[u] = None
    BY <1>2, <1>5, <2>1, SetShip
  <2>. QED  BY <1>1, <1>3, <2>2 DEF Restored, Stays, Others
<1>6. CASE b # None /\ x = u_set_building(v, u, b)
  <2>1. b \in Buildings /\ v.ship[u] = None
    BY <1>2, <1>6 DEF OrNone
  <2>2. Stays(v, x) /\ Others(v, x, u) /\ Ruled(x) /\ x.building[u] = b /\ x.ship[u] = None
    BY <1>2, <1>6, <2>1, SetBuilding
  <2>. QED  BY <1>1, <1>3, <2>2 DEF Restored, Stays, Others
<1>. QED  BY <1>1, <1>3, <1>4, <1>5, <1>6 DEF ReadUnit

LEMMA WholeReload ==
  ASSUME Whole(world), NEW file,
         file = [world EXCEPT !.building = [u \in Units |-> None],
                              !.ship = [u \in Units |-> None],
                              !.owner = [x \in Places |-> None]]
  PROVE  Whole(Along([v \in WorldType |-> [r \in Regions |->
                        ForAll(v, r, [y \in WorldType |-> [u \in Units |-> ReadUnit(y, u)]])]],
                     file, SetToSeq(Regions)))
<1> DEFINE Read == [y \in WorldType |-> [u \in Units |-> ReadUnit(y, u)]]
           f == [v \in WorldType |-> [r \in Regions |-> ForAll(v, r, Read)]]
<1>1. PICK Q, t : Q = {v \in WorldType : Restored(world, v)} /\ t = SetToSeq(Regions)
  OBVIOUS
<1>2. file \in Q
  <2>1. world \in WorldType
    BY DEF Whole, Sound, InLists
  <2>2. /\ file \in WorldType /\ file.next = world.next /\ file.region = world.region
        /\ file.berth = world.berth /\ file.living = world.living /\ file.fleet = world.fleet
        /\ \A u \in Units : file.building[u] = None /\ file.ship[u] = None
        /\ \A x \in Places : file.owner[x] = None
    BY <2>1 DEF WorldType, OrNone
  <2>3. Ruled(file)
    BY <2>2, LinkTypes DEF Ruled
  <2>. QED  BY <1>1, <2>2, <2>3 DEF Restored, Stays
<1>3. ASSUME NEW x \in Q, NEW r \in Regions
      PROVE  f[x][r] \in Q
  <2>1. x \in WorldType /\ Restored(world, x) /\ InLists(x)
    <3>1. x \in WorldType /\ Restored(world, x)
      BY <1>1
    <3>. QED  BY <3>1, RestoredWhole DEF Whole, Sound
  <2>2. PICK P : P = [R \in SUBSET Units |-> Q]
    OBVIOUS
  <2>3. \A R \in SUBSET Units : \A u \in R, y \in P[R] : Read[y][u] \in P[R \ {u}]
    <3>1. SUFFICES ASSUME NEW R \in SUBSET Units, NEW u \in R, NEW y \in P[R]
                   PROVE  Read[y][u] \in P[R \ {u}]
      OBVIOUS
    <3>2. R \ {u} \in SUBSET Units /\ y \in WorldType /\ Restored(world, y) /\ u \in Units
      BY <1>1, <2>2
    <3>3. Restored(world, ReadUnit(y, u))
      BY <3>2, ReadOne
    <3>4. Read[y][u] = ReadUnit(y, u)
      BY <3>2
    <3>. QED  BY <1>1, <2>2, <3>2, <3>3, <3>4 DEF Restored, Stays
  <2>4. x \in P[{u \in Units : x.region[u] = r}]
    BY <2>2
  <2>5. ForAll(x, r, Read) \in P[{}]
    <3>. HIDE DEF Read
    <3>. QED  BY <2>1, <2>3, <2>4, WholeForAll
  <2>6. ForAll(x, r, Read) \in Q
    <3>1. {} \in SUBSET Units
      OBVIOUS
    <3>. HIDE DEF Read
    <3>. QED  BY <2>2, <2>5, <3>1
  <2>7. f[x][r] = ForAll(x, r, Read)
    <3>. HIDE DEF Read
    <3>. QED  BY <2>1
  <2>. QED  BY <2>6, <2>7
<1>4. t \in Seq(Regions)
  BY <1>1, LinkTypes, SetAsList
<1>5. Along(f, file, t) \in Q
  <2>. HIDE DEF f
  <2>. QED  BY <1>2, <1>3, <1>4, AlongStays
<1>. QED  BY <1>1, <1>5, RestoredWhole

-----------------------------------------------------------------------------
(* The inductive invariant.  A running loop stands on the list of the      *)
(* region it began in; while it runs, nothing but its own steps happens.   *)

PassOK(p, w, ph) ==
  /\ p \in [op : {"none", "enter", "sort"}, up : OrNone(Links), region : OrNone(Regions), marked : SUBSET Units]
  /\ p.op = "none" => p = Idle
  /\ p.op # "none" =>
       ph = "orders" /\ p.up \in Links /\ p.region # None /\ HomeOf(w)[p.up] = p.region

IInv ==
  /\ Whole(world)
  /\ PassOK(pass, world, phase)
  /\ entered \subseteq Units
  /\ phase \in {"orders", "ended", "reordered", "reported"}

LEMMA IdlePass ==
  ASSUME NEW w, NEW ph
  PROVE  PassOK(Idle, w, ph)
BY DEF PassOK, Idle, OrNone

LEMMA PlacementInit == Init => IInv
<1>1. SUFFICES ASSUME Init PROVE IInv
  OBVIOUS
<1>2. /\ world.next = [l \in Links |-> None] /\ world.region = [u \in Units |-> None]
      /\ world.building = [u \in Units |-> None] /\ world.ship = [u \in Units |-> None]
      /\ world.owner = [x \in Places |-> None] /\ world.berth = Start /\ world.living = {}
      /\ world.fleet = {sh \in Ships : Start[sh] # None}
  BY <1>1 DEF Init
<1>3. world \in WorldType
  <2>1. Start \in [Places -> OrNone(Regions)]
    BY PlacementAssumption DEF Places, OrNone
  <2>. QED  BY <1>1, <2>1 DEF Init, WorldType, OrNone
<1>4. InLists(world)
  <2>1. PICK pos : pos = [l \in Links |-> 0]
    OBVIOUS
  <2>2. pos \in Depths
    BY <2>1 DEF Depths
  <2>3. Ranked(world.next, HomeOf(world), pos)
    <3>1. \A l \in Links : world.next[l] = None
      BY <1>2
    <3>2. \A u \in Units : HomeOf(world)[u] = None
      BY <1>2, <1>3, WorldFields
    <3>. QED  BY <1>3, <3>1, <3>2, WorldFields DEF Ranked
  <2>. QED  BY <1>3, <2>2, <2>3 DEF InLists, Chained
<1>5. Apart(world) /\ Afloat(world) /\ Ruled(world)
  <2>1. \A u \in Units : world.region[u] = None /\ world.building[u] = None /\ world.ship[u] = None
    BY <1>2
  <2>2. \A x \in Places : world.owner[x] = None
    BY <1>2
  <2>3. Apart(world) /\ Afloat(world)
    BY <1>2, <2>1 DEF Apart, Afloat
  <2>4. Ruled(world)
    BY <2>2, LinkTypes DEF Ruled
  <2>. QED  BY <2>3, <2>4
<1>6. \A u \in Units : Near(world, u)
  BY <1>2 DEF Near
<1>7. Whole(world)
  BY <1>4, <1>5, <1>6 DEF Whole, Sound
<1>8. pass = Idle /\ entered = {} /\ phase = "orders"
  BY <1>1 DEF Init
<1>. QED  BY <1>7, <1>8, IdlePass DEF IInv

(* A handler that runs when no loop does *)
LEMMA Handled ==
  ASSUME IInv, NEW w, Whole(w), Handle(w), entered' \subseteq Units
  PROVE  IInv'
<1>1. world' = w /\ pass' = Idle /\ phase' = "orders"
  BY DEF Handle, Ordering
<1>2. Whole(world') /\ PassOK(pass', world', phase')
  BY <1>1, IdlePass
<1>. QED  BY <1>1, <1>2 DEF IInv

(* What a world is made of *)
LEMMA Here0 ==
  ASSUME IInv
  PROVE  /\ Whole(world) /\ Sound(world) /\ InLists(world) /\ world \in WorldType /\ entered \subseteq Units
         /\ Strict => \A u \in Units : Near(world, u)
         /\ \A u \in Units : world.building[u] = None \/ world.ship[u] = None
         /\ \A u \in Units : world.region[u] = None =>
              world.building[u] = None /\ world.ship[u] = None /\ u \notin world.living
         /\ \A u \in Units : world.region[u] \in OrNone(Regions)
                             /\ world.building[u] \in OrNone(Buildings) /\ world.ship[u] \in OrNone(Ships)
         /\ \A x \in Places : world.berth[x] \in OrNone(Regions) /\ world.owner[x] \in OrNone(Units)
         /\ world.living \in SUBSET Units /\ world.fleet \in SUBSET Ships
         /\ \A sh \in world.fleet : world.berth[sh] # None
<1>1. Whole(world) /\ entered \subseteq Units
  BY DEF IInv
<1>2. Sound(world) /\ InLists(world) /\ world \in WorldType
  BY <1>1 DEF Whole, Sound, InLists
<1>. QED  BY <1>1, <1>2, WorldFields DEF Whole, Sound, Apart, Afloat

LEMMA CreateUnitWhole ==
  ASSUME IInv, NEW u \in Units, NEW r \in Regions, NEW creator \in OrNone(Units), NEW manned \in BOOLEAN,
         CreateUnit(u, r, creator, manned)
  PROVE  IInv'
<1>1. /\ world.region[u] = None /\ world.building[u] = None /\ world.ship[u] = None /\ r # None
      /\ creator # None => creator \in Units /\ world.region[creator] = r
      /\ UNCHANGED entered
  BY Here0, LinkTypes DEF CreateUnit, Fresh, Present, OrNone
<1>2. PICK v1 : v1 = [addlist(world, r, u) EXCEPT !.region[u] = r]
  OBVIOUS
<1>3. Moves(world, v1, u, r)
  BY <1>1, <1>2, Here0, PutOn
<1>4. /\ Sound(v1) /\ v1.region[u] = r /\ (\A t \in Units : t # u => v1.region[t] = world.region[t])
      /\ \A t \in Units : t # u /\ Near(world, t) => Near(v1, t)
      /\ v1.building[u] = None /\ v1.ship[u] = None => Near(v1, u)
  <2>1. r \in OrNone(Regions) /\ Sound(world)
    BY Here0 DEF OrNone
  <2>. QED  BY <1>1, <1>3, <2>1, MovesSound
<1>5. /\ v1.building = world.building /\ v1.ship = world.ship /\ v1.berth = world.berth /\ v1.living = world.living
  BY <1>3 DEF Moves
<1>6. Whole(v1)
  BY <1>1, <1>4, <1>5, Here0 DEF Whole
<1>7. PICK L : L = IF manned THEN world.living \cup {u} ELSE world.living
  OBVIOUS
<1>8. PICK v2 : v2 = [v1 EXCEPT !.living = L]
  OBVIOUS
<1>9. Whole(v2) /\ v2.region = v1.region /\ v2.building = v1.building /\ v2.ship = v1.ship /\ v2.berth = v1.berth
  <2>1. L \in SUBSET Units
    BY <1>7, Here0
  <2>2. \A t \in L : v1.region[t] # None
    BY <1>1, <1>4, <1>7, <2>1, Here0
  <2>. QED  BY <1>6, <1>8, <2>1, <2>2, WholeLiving
<1>10. v2 = [addlist(world, r, u) EXCEPT !.region[u] = r, !.living = IF manned THEN @ \cup {u} ELSE @]
  <2>1. world \in WorldType /\ HomeOf(world) \in Homes /\ Chained(world.next, HomeOf(world)) /\ HomeOf(world)[u] = None
    BY <1>1, Here0, WorldFields DEF InLists
  <2>2. PICK n \in Pointers :
           /\ addlist(world, r, u) = [world EXCEPT !.next = n]
           /\ Chained(n, [HomeOf(world) EXCEPT ![u] = r])
    BY <2>1, Joined
  <2>. QED  BY <1>2, <1>7, <1>8, <2>2, Here0 DEF WorldType
<1>11. /\ v2.region[u] = r /\ v2.building[u] = None /\ v2.ship[u] = None
       /\ \A x \in Places : v2.berth[x] = world.berth[x]
  BY <1>1, <1>4, <1>5, <1>9
<1>12. CASE creator # None /\ world.building[creator] # None
  <2>1. PICK b \in Buildings : b = world.building[creator]
    BY <1>1, <1>12, Here0 DEF OrNone
  <2>2. Strict => v2.region[u] = v2.berth[b]
    BY <1>1, <1>11, <1>12, <2>1, Here0 DEF Near, Places
  <2>3. Whole(u_set_building(v2, u, b))
    BY <1>1, <1>9, <1>11, <2>2, WholeHouse
  <2>4. Handle(u_set_building(v2, u, b))
    BY <1>10, <1>12, <2>1 DEF CreateUnit
  <2>. QED  BY <1>1, <2>3, <2>4, Here0, Handled
<1>13. CASE creator # None /\ world.building[creator] = None /\ world.ship[creator] # None
  <2>1. PICK b \in Ships : b = world.ship[creator]
    BY <1>1, <1>13, Here0 DEF OrNone
  <2>2. Strict => v2.region[u] = v2.berth[b]
    BY <1>1, <1>11, <1>13, <2>1, Here0 DEF Near, Places
  <2>3. Whole(u_set_ship(v2, u, b))
    BY <1>1, <1>9, <1>11, <2>2, WholeBoard
  <2>4. Handle(u_set_ship(v2, u, b))
    BY <1>10, <1>13, <2>1 DEF CreateUnit
  <2>. QED  BY <1>1, <2>3, <2>4, Here0, Handled
<1>14. CASE creator # None => world.building[creator] = None /\ world.ship[creator] = None
  <2>1. Handle(v2)
    BY <1>10, <1>14 DEF CreateUnit
  <2>. QED  BY <1>1, <1>9, <2>1, Here0, Handled
<1>. QED  BY <1>12, <1>13, <1>14

LEMMA DieWhole ==
  ASSUME IInv, NEW u \in Units, Die(u)
  PROVE  IInv'
<1>1. PICK L : L = world.living \ {u} /\ L \in SUBSET Units /\ \A t \in L : world.region[t] # None
  BY Here0
<1>2. PICK v : v = [world EXCEPT !.living = L]
  OBVIOUS
<1>3. Whole(v) /\ v.region = world.region
  BY <1>1, <1>2, Here0, WholeLiving
<1>4. world' = v /\ entered' = entered /\ phase' = phase /\ pass' = pass
  BY <1>1, <1>2 DEF Die
<1>5. PassOK(pass, v, phase)
  <2>1. HomeOf(v) = HomeOf(world)
    BY <1>3 DEF HomeOf
  <2>. QED  BY <2>1 DEF IInv, PassOK
<1>6. Whole(world') /\ PassOK(pass', world', phase')
  BY <1>3, <1>4, <1>5
<1>. QED  BY <1>4, <1>6 DEF IInv

LEMMA GiveMenWhole ==
  ASSUME IInv, NEW u \in Units, NEW v \in Units, NEW all \in BOOLEAN, GiveMen(u, v, all)
  PROVE  IInv'
<1>1. PICK L : L = (world.living \cup {v}) \ (IF all THEN {u} ELSE {})
  OBVIOUS
<1>2. L \in SUBSET Units /\ \A t \in L : world.region[t] # None
  BY <1>1, Here0 DEF GiveMen, Present
<1>3. PICK w : w = [world EXCEPT !.living = L] /\ Whole(w)
  BY <1>2, Here0, WholeLiving
<1>4. Handle(w) /\ entered' \subseteq Units
  BY <1>1, <1>3, Here0 DEF GiveMen
<1>. QED  BY <1>3, <1>4, Handled

LEMMA SweepWhole ==
  ASSUME IInv, NEW r \in Regions, Sweep(r)
  PROVE  IInv'
<1>1. Handle(remove_empty_units_in_region(world, r)) /\ entered' = entered
  BY DEF Sweep
<1>2. Whole(remove_empty_units_in_region(world, r))
  BY Here0, WholeSweep
<1>. QED  BY <1>1, <1>2, Here0, Handled

LEMMA LeaveWhole ==
  ASSUME IInv, NEW u \in Units, Leave(u)
  PROVE  IInv'
<1>1. Handle(leave(world, u)) /\ entered' = entered
  BY DEF Leave
<1>2. Whole(leave(world, u))
  BY Here0, WholeLeave
<1>. QED  BY <1>1, <1>2, Here0, Handled

LEMMA BuildWhole ==
  ASSUME IInv, NEW u \in Units, NEW b \in Buildings, Build(u, b)
  PROVE  IInv'
<1>1. PICK r \in Regions : r = world.region[u]
  BY Here0 DEF Build, Present, OrNone
<1>2. b \in Places /\ world.berth[b] = None /\ entered' = entered
  BY DEF Build, Places
<1>3. PICK v : v = [world EXCEPT !.berth[b] = world.region[u], !.owner[b] = None]
  OBVIOUS
<1>4. Founds(world, v, b, r)
  <2>1. PICK B, O : B = [world.berth EXCEPT ![b] = r] /\ O = [world.owner EXCEPT ![b] = None]
    OBVIOUS
  <2>2. B \in [Places -> OrNone(Regions)] /\ O \in [Places -> OrNone(Units)]
    BY <1>2, <2>1, Here0, WorldFields DEF OrNone
  <2>3. v = [world EXCEPT !.berth = B, !.owner = O]
    BY <1>1, <1>3, <2>1
  <2>. QED  BY <2>1, <2>2, <2>3, Here0, WorldFields DEF Founds, WorldType
<1>5. Whole(v) /\ v.berth[b] = r /\ v.region = world.region
  <2>1. Whole(v) /\ v.berth[b] = r
    BY <1>2, <1>4, Here0, FoundsWhole
  <2>. QED  BY <1>4, <2>1 DEF Founds
<1>6. PICK x : x = leave(v, u) /\ Whole(x) /\ Stays(v, x) /\ x.building[u] = None /\ x.ship[u] = None
  BY <1>5, WholeLeave
<1>7. Whole(u_set_building(x, u, b))
  <2>1. x.region[u] # None /\ x.region[u] = x.berth[b]
    BY <1>1, <1>5, <1>6, LinkTypes DEF Stays
  <2>. QED  BY <1>6, <2>1, WholeHouse
<1>8. Handle(v) \/ Handle(u_set_building(x, u, b))
  BY <1>3, <1>6 DEF Build
<1>. QED  BY <1>2, <1>5, <1>7, <1>8, Here0, Handled

LEMMA CreateShipWhole ==
  ASSUME IInv, NEW u \in Units, NEW sh \in Ships, CreateShip(u, sh)
  PROVE  IInv'
<1>1. PICK r \in Regions : r = world.region[u]
  BY Here0 DEF CreateShip, Present, OrNone
<1>2. sh \in Places /\ world.berth[sh] = None /\ entered' = entered
  BY DEF CreateShip, Places
<1>3. PICK v : v = Launch(world, sh, r)
  OBVIOUS
<1>4. Founds(world, v, sh, r)
  BY <1>3, Here0, LaunchFounds
<1>5. Whole(v) /\ v.berth[sh] = r /\ v.region = world.region
  <2>1. Whole(v) /\ v.berth[sh] = r
    BY <1>2, <1>4, Here0, FoundsWhole
  <2>. QED  BY <1>4, <2>1 DEF Founds
<1>6. PICK x : x = leave(v, u) /\ Whole(x) /\ Stays(v, x) /\ x.building[u] = None /\ x.ship[u] = None
  BY <1>5, WholeLeave
<1>7. Whole(u_set_ship(x, u, sh))
  <2>1. x.region[u] # None /\ x.region[u] = x.berth[sh]
    BY <1>1, <1>5, <1>6, LinkTypes DEF Stays
  <2>. QED  BY <1>6, <2>1, WholeBoard
<1>8. Handle(v) \/ Handle(u_set_ship(x, u, sh))
  BY <1>1, <1>3, <1>6 DEF CreateShip, Launch
<1>. QED  BY <1>2, <1>5, <1>7, <1>8, Here0, Handled

LEMMA DestroyWhole ==
  ASSUME IInv, NEW x \in Places, Destroy(x)
  PROVE  IInv'
<1>1. world.berth[x] # None /\ entered' = entered
  BY DEF Destroy
<1>2. CASE x \in Buildings
  BY <1>1, <1>2, Here0, WholeRazed, Handled DEF Destroy
<1>3. CASE x \notin Buildings
  <2>1. x \in Ships
    BY <1>3 DEF Places
  <2>. QED  BY <1>1, <1>3, <2>1, Here0, WholeSunk, Handled DEF Destroy
<1>. QED  BY <1>2, <1>3

LEMMA GiveControlWhole ==
  ASSUME IInv, NEW u \in Units, NEW v \in Units, GiveControl(u, v)
  PROVE  IInv'
<1>1. PICK O : O = [x \in Places |-> IF x # None /\ x \in {world.building[u], world.ship[u]} THEN v ELSE world.owner[x]]
  OBVIOUS
<1>2. \A x \in Places : x # None /\ x \in {world.building[u], world.ship[u]} => x \in {world.building[v], world.ship[v]}
  <2>1. \/ world.building[u] # None /\ world.building[v] = world.building[u]
        \/ world.building[u] = None /\ world.ship[u] # None /\ world.ship[v] = world.ship[u]
    BY DEF GiveControl
  <2>2. world.building[u] = None \/ world.ship[u] = None
    BY Here0
  <2>. QED  BY <2>1, <2>2
<1>3. O \in [Places -> OrNone(Units)]
  BY <1>1, Here0 DEF OrNone
<1>4. PICK w : w = [world EXCEPT !.owner = O] /\ Whole(w)
  <2>1. \A x \in Places : O[x] = world.owner[x] \/ \E t \in Units : O[x] = t /\ x \in {world.building[t], world.ship[t]}
    BY <1>1, <1>2
  <2>. QED  BY <1>3, <2>1, Here0, WholeOwners
<1>5. w = give_control(world, u, v)
  BY <1>1, <1>4, Here0 DEF give_control, WorldType
<1>6. Handle(w) /\ entered' = entered
  BY <1>5 DEF GiveControl
<1>. QED  BY <1>4, <1>6, Here0, Handled

(* the receiver goes out of its building first *)
LEMMA Ashore ==
  ASSUME IInv, NEW u \in Units, world.ship[u] = None
  PROVE  LET w == IF world.building[u] # None THEN leave_building(world, u) ELSE world IN
         Whole(w) /\ Stays(world, w) /\ w.building[u] = None /\ w.ship[u] = None
<1>1. CASE world.building[u] # None
  <2>1. leave_building(world, u) = leave(world, u)
    BY <1>1 DEF leave
  <2>. QED  BY <1>1, <2>1, Here0, WholeLeave
<1>2. CASE world.building[u] = None
  BY <1>2, Here0, StaysSame
<1>. QED  BY <1>1, <1>2

LEMMA GiveShipWhole ==
  ASSUME IInv, NEW u1 \in Units, NEW u2 \in OrNone(Units), NEW all \in BOOLEAN, NEW new \in Ships,
         GiveShip(u1, u2, all, new)
  PROVE  IInv'
<1>1. PICK s1 : s1 \in Ships /\ s1 = world.ship[u1]
  BY Here0 DEF GiveShip, OrNone
<1>2. PICK r \in Regions : r = world.region[u1]
  <2>1. world.ship[u1] # None
    BY <1>1, LinkTypes DEF Places
  <2>2. world.region[u1] # None /\ world.region[u1] \in OrNone(Regions)
    BY <2>1, Here0
  <2>. QED  BY <2>2 DEF OrNone
<1>3. PICK rest : rest = IF all THEN [world EXCEPT !.fleet = @ \ {s1}] ELSE world
  OBVIOUS
<1>4. PICK v : v = Launch(world, new, r)
  OBVIOUS
<1>5. PICK apart : apart = u_set_ship(leave_ship(v, u2), u2, new)
  OBVIOUS
<1>6. PICK ashore : ashore = IF world.building[u2] # None THEN leave_building(world, u2) ELSE world
  OBVIOUS
<1>7. /\ entered' = entered /\ s1 # None /\ r # None /\ s1 \in Places /\ new \in Places /\ new # None
      /\ u2 # None => u2 \in Units /\ world.region[u2] = r
      /\ Strict => world.berth[s1] = r
  <2>1. s1 # None /\ r # None /\ s1 \in Places /\ new \in Places /\ new # None
    BY <1>1, LinkTypes DEF Places
  <2>2. Strict => world.berth[s1] = r
    BY <1>1, <1>2, <2>1, Here0 DEF Near
  <2>. QED  BY <1>2, <2>1, <2>2 DEF GiveShip, OrNone
<1>8. \/ /\ world.berth[new] = None
         /\ Handle(Launch(rest, new, r))
      \/ /\ u2 # None /\ world.ship[u2] = s1
         /\ world.berth[new] = None
         /\ Handle(IF all THEN transfer_units([apart EXCEPT !.fleet = @ \ {s1}], r, s1, new) ELSE apart)
      \/ /\ u2 # None /\ world.ship[u2] = new
         /\ Handle(IF all THEN transfer_units([world EXCEPT !.fleet = @ \ {s1}], r, s1, new) ELSE world)
      \/ /\ u2 # None /\ world.ship[u2] = None
         /\ Handle([u_set_ship(ashore, u2, s1) EXCEPT !.owner[s1] = u2])
      \/ /\ u2 # None /\ world.ship[u2] = None
         /\ world.berth[new] = None
         /\ Handle(u_set_ship(Launch(ashore, new, r), u2, new))
  BY <1>1, <1>2, <1>3, <1>4, <1>5, <1>6, Zenon DEF GiveShip
<1>9. \A w : Whole(w) =>
        /\ Whole([w EXCEPT !.fleet = @ \ {s1}]) /\ [w EXCEPT !.fleet = @ \ {s1}].berth = w.berth
        /\ [w EXCEPT !.fleet = @ \ {s1}].region = w.region
  <2>1. SUFFICES ASSUME NEW w, Whole(w)
                 PROVE  /\ Whole([w EXCEPT !.fleet = @ \ {s1}]) /\ [w EXCEPT !.fleet = @ \ {s1}].berth = w.berth
                        /\ [w EXCEPT !.fleet = @ \ {s1}].region = w.region
    OBVIOUS
  <2>2. PICK F \in SUBSET w.fleet : F = w.fleet \ {s1}
    OBVIOUS
  <2>3. [w EXCEPT !.fleet = @ \ {s1}] = [w EXCEPT !.fleet = F]
    BY <2>2
  <2>. QED  BY <2>1, <2>3, WholeFleet
<1>10. ASSUME NEW w, Whole(w), w.berth[new] = None
       PROVE  Whole(Launch(w, new, r)) /\ Launch(w, new, r).berth[new] = r
              /\ Launch(w, new, r).region = w.region /\ Launch(w, new, r).building = w.building
              /\ Launch(w, new, r).ship = w.ship
  <2>1. Founds(w, Launch(w, new, r), new, r)
    BY <1>10, LaunchFounds DEF Whole, Sound, InLists
  <2>2. Whole(Launch(w, new, r)) /\ Launch(w, new, r).berth[new] = r
    BY <1>7, <1>10, <2>1, FoundsWhole
  <2>. QED  BY <2>1, <2>2 DEF Founds
<1>11. CASE world.berth[new] = None /\ Handle(Launch(rest, new, r))
  <2>1. Whole(rest) /\ rest.berth = world.berth
    BY <1>3, <1>9, Here0
  <2>. QED  BY <1>7, <1>10, <1>11, <2>1, Here0, Handled
<1>12. CASE /\ u2 # None /\ world.ship[u2] = s1 /\ world.berth[new] = None
            /\ Handle(IF all THEN transfer_units([apart EXCEPT !.fleet = @ \ {s1}], r, s1, new) ELSE apart)
  <2>1. Whole(v) /\ v.berth[new] = r /\ v.region = world.region /\ v.ship[u2] = s1
    BY <1>4, <1>10, <1>12, Here0
  <2>2. Whole(apart) /\ Stays(v, apart)
    BY <1>5, <1>7, <1>12, <2>1, WholeChange
  <2>3. PICK w : w = [apart EXCEPT !.fleet = @ \ {s1}] /\ Whole(w) /\ w.berth[new] = r
    BY <1>9, <2>1, <2>2 DEF Stays
  <2>4. Whole(transfer_units(w, r, s1, new))
    BY <1>1, <2>3, WholeTransfer
  <2>. QED  BY <1>7, <1>12, <2>2, <2>3, <2>4, Here0, Handled
<1>13. CASE /\ u2 # None /\ world.ship[u2] = new
            /\ Handle(IF all THEN transfer_units([world EXCEPT !.fleet = @ \ {s1}], r, s1, new) ELSE world)
  <2>1. Strict => world.berth[new] = r
    BY <1>7, <1>13, Here0 DEF Near
  <2>2. PICK w : w = [world EXCEPT !.fleet = @ \ {s1}] /\ Whole(w) /\ w.berth = world.berth
    BY <1>9, Here0
  <2>3. Whole(transfer_units(w, r, s1, new))
    BY <1>1, <2>1, <2>2, WholeTransfer
  <2>. QED  BY <1>7, <1>13, <2>2, <2>3, Here0, Handled
<1>14. CASE /\ u2 # None /\ world.ship[u2] = None
            /\ Handle([u_set_ship(ashore, u2, s1) EXCEPT !.owner[s1] = u2])
  <2>1. Whole(ashore) /\ Stays(world, ashore) /\ ashore.building[u2] = None /\ ashore.ship[u2] = None
    BY <1>6, <1>7, <1>14, Ashore
  <2>2. ashore.region[u2] = r /\ (Strict => ashore.berth[s1] = r)
    BY <1>7, <1>14, <2>1 DEF Stays
  <2>3. PICK x : x = u_set_ship(ashore, u2, s1) /\ Whole(x) /\ x.ship[u2] = s1
    BY <1>1, <1>7, <1>14, <2>1, <2>2, WholeBoard
  <2>4. PICK O : O = [x.owner EXCEPT ![s1] = u2]
    OBVIOUS
  <2>5. O \in [Places -> OrNone(Units)] /\ \A y \in Places : O[y] = IF y = s1 THEN u2 ELSE x.owner[y]
    BY <1>7, <2>3, <2>4, WorldFields DEF OrNone, Whole, Sound, InLists
  <2>6. Whole([x EXCEPT !.owner = O])
    BY <1>7, <1>14, <2>3, <2>5, WholeOwners
  <2>7. Handle([x EXCEPT !.owner = O])
    BY <1>14, <2>3, <2>4
  <2>. QED  BY <1>7, <2>6, <2>7, Here0, Handled
<1>15. CASE /\ u2 # None /\ world.ship[u2] = None /\ world.berth[new] = None
            /\ Handle(u_set_ship(Launch(ashore, new, r), u2, new))
  <2>1. Whole(ashore) /\ Stays(world, ashore) /\ ashore.building[u2] = None /\ ashore.ship[u2] = None
    BY <1>6, <1>7, <1>15, Ashore
  <2>2. PICK x : /\ x = Launch(ashore, new, r) /\ Whole(x) /\ x.berth[new] = r /\ x.region = ashore.region
                 /\ x.building = ashore.building /\ x.ship = ashore.ship
    BY <1>10, <1>15, <2>1 DEF Stays
  <2>3. x.region[u2] = r /\ x.building[u2] = None /\ x.ship[u2] = None
    BY <1>7, <1>15, <2>1, <2>2 DEF Stays
  <2>4. Whole(u_set_ship(x, u2, new))
    BY <1>7, <1>15, <2>2, <2>3, WholeBoard
  <2>. QED  BY <1>7, <1>15, <2>2, <2>4, Here0, Handled
<1>. QED  BY <1>8, <1>11, <1>12, <1>13, <1>14, <1>15

LEMMA SinkShipsWhole ==
  ASSUME IInv, NEW r \in Regions, SinkShips(r)
  PROVE  IInv'
<1> DEFINE S == {sh \in Ships : world.berth[sh] = r /\ sh \notin world.fleet}
           f == [w \in WorldType |-> [sh \in Ships |-> remove_ship(w, sh)]]
           Ready(v, R) == Whole(v) /\ \A sh \in R : v.berth[sh] # None
<1>1. PICK Q : Q = [R \in SUBSET S |-> {v \in WorldType : Ready(v, R)}]
  OBVIOUS
<1>2. ASSUME NEW R \in SUBSET S, NEW sh \in R, NEW x \in Q[R]
      PROVE  f[x][sh] \in Q[R \ {sh}]
  <2>1. x \in WorldType /\ Ready(x, R) /\ sh \in Ships /\ x.berth[sh] # None /\ R \ {sh} \in SUBSET S
    BY <1>1, <1>2
  <2>2. PICK v : v = remove_ship(x, sh) /\ Whole(v) /\ \A y \in Places : y # sh => v.berth[y] = x.berth[y]
    BY <2>1, WholeSunk
  <2>3. \A y \in R : y \in Places
    BY DEF Places
  <2>4. Ready(v, R \ {sh}) /\ v \in WorldType
    BY <2>1, <2>2, <2>3 DEF Whole, Sound, InLists
  <2>5. v \in Q[R \ {sh}]
    <3>. HIDE DEF Ready
    <3>. QED  BY <1>1, <2>1, <2>4
  <2>. QED  BY <2>1, <2>2, <2>5
<1>3. world \in Q[S]
  <2>1. Ready(world, S)
    BY Here0, LinkTypes
  <2>. HIDE DEF Ready
  <2>. QED  BY <1>1, <2>1, Here0
<1>4. Along(f, world, SetToSeq(S)) \in Q[{}]
  <2>1. IsFiniteSet(S)
    BY LinkTypes, FS_Subset
  <2>. HIDE DEF f, Ready, S
  <2>. QED  BY <1>2, <1>3, <2>1, AlongSet
<1>5. Whole(Along(f, world, SetToSeq(S)))
  <2>. HIDE DEF f, Ready, S
  <2>1. {} \in SUBSET S
    OBVIOUS
  <2>2. Ready(Along(f, world, SetToSeq(S)), {})
    BY <1>1, <1>4, <2>1
  <2>. QED  BY <2>2 DEF Ready
<1>6. Handle(Along(f, world, SetToSeq(S))) /\ entered' = entered
  BY DEF SinkShips
<1>. QED
  <2>. HIDE DEF f, S
  <2>. QED  BY <1>5, <1>6, Here0, Handled

LEMMA TravelWhole ==
  ASSUME IInv, NEW u \in Units, NEW to \in Regions, Travel(u, to)
  PROVE  IInv'
<1>1. Handle(move_unit(world, u, to)) /\ entered' = entered /\ u \in world.living /\ can_leave(world, u)
  BY DEF Travel
<1>2. Whole(move_unit(world, u, to))
  BY <1>1, Here0, WholeMove
<1>. QED  BY <1>1, <1>2, Here0, Handled

LEMMA SailWhole ==
  ASSUME IInv, NEW sh \in Ships, NEW to \in Regions, Sail(sh, to)
  PROVE  IInv'
<1>1. Handle(move_ship(world, sh, to)) /\ entered' = entered /\ world.berth[sh] # None
  BY Here0 DEF Sail
<1>2. Whole(move_ship(world, sh, to))
  BY <1>1, Here0, WholeSails
<1>. QED  BY <1>1, <1>2, Here0, Handled

LEMMA DriftIcebergWhole ==
  ASSUME IInv, NEW rc \in Regions, NEW r \in Regions, DriftIceberg(rc, r)
  PROVE  IInv'
<1>1. PICK moved : moved = [world EXCEPT !.berth = [x \in Places |->
                              IF x \in Buildings /\ @[x] = rc THEN r ELSE @[x]]]
  OBVIOUS
<1>2. PICK afloat : afloat = Along([w \in WorldType |-> [sh \in Ships |-> move_ship(w, sh, r)]], moved,
                                   SetToSeq({sh \in Ships : world.berth[sh] = rc}))
  OBVIOUS
<1>3. PICK v : v = ForAll(afloat, rc, [w \in WorldType |-> [u \in Units |-> Drifted(w, u, r)]])
  OBVIOUS
<1>4. Handle(v) /\ entered' = entered /\ rc # r
  BY <1>1, <1>2, <1>3, Zenon DEF DriftIceberg
<1>5. Whole(v)
  <2>1. Whole(world)
    BY Here0
  <2>2. Whole(ForAll(afloat, rc, [w \in WorldType |-> [u \in Units |-> Drifted(w, u, r)]]))
    BY <1>1, <1>2, <1>4, <2>1, WholeDrift, Zenon
  <2>. QED  BY <1>3, <2>2
<1>. QED  BY <1>4, <1>5, Here0, Handled

LEMMA WormholeWhole ==
  ASSUME IInv, NEW b \in Buildings, NEW exit \in Regions, NEW stay \in SUBSET Units, Wormhole(b, exit, stay)
  PROVE  IInv'
<1>1. PICK r \in Regions : r = world.berth[b]
  BY Here0 DEF Wormhole, Places, OrNone
<1>2. PICK f : f = [v \in WorldType |-> [u \in Units |->
                      IF v.building[u] = b /\ u \notin stay THEN move_unit(v, u, exit) ELSE v]]
  OBVIOUS
<1>3. Handle(remove_building(ForAll(world, r, f), b)) /\ entered' = entered /\ "wormholes" \in Features
  BY <1>1, <1>2, Zenon DEF Wormhole
<1>4. Whole(remove_building(ForAll(world, r, f), b))
  BY <1>1, <1>2, <1>3, Here0, WholeWormhole
<1>. QED  BY <1>3, <1>4, Here0, Handled

LEMMA DisruptAstralWhole ==
  ASSUME IInv, NEW r2 \in Regions, NEW tr \in Regions, NEW resist \in SUBSET Units, DisruptAstral(r2, tr, resist)
  PROVE  IInv'
<1>1. PICK f : f = [t \in [w : WorldType, u : OrNone(Units)] |-> [k \in Nat |->
                 LET v == IF t.u \in resist THEN t.w ELSE move_unit(t.w, t.u, tr)
                 IN IF t.u = None THEN t ELSE [w |-> v, u |-> v.next[t.u]]]]
  OBVIOUS
<1>2. PICK v : v = Along(f, [w |-> world, u |-> world.next[r2]], Turns(2 * Cardinality(Units))).w
  OBVIOUS
<1>3. Handle(v) /\ entered' = entered /\ "astral" \in Features
  BY <1>1, <1>2, Zenon DEF DisruptAstral
<1>4. Whole(v)
  <2>1. Whole(world)
    BY Here0
  <2>2. Whole(Along(f, [w |-> world, u |-> world.next[r2]], Turns(2 * Cardinality(Units))).w)
    BY <1>1, <1>3, <2>1, WholeDisrupt, Zenon
  <2>. QED  BY <1>2, <2>2
<1>. QED  BY <1>3, <1>4, Here0, Handled

-----------------------------------------------------------------------------
(* The loops of do_enter and do_sort, and the end of the turn *)

LEMMA BeginWhole ==
  ASSUME IInv, NEW op \in {"enter", "sort"}, NEW r \in Regions, Begin(op, r)
  PROVE  IInv'
<1>1. /\ world' = world /\ entered' = entered /\ phase' = phase /\ phase = "orders"
      /\ pass' = [op |-> op, up |-> r, region |-> r, marked |-> {}]
  BY DEF Begin, Ordering
<1>2. r \in Links /\ r # None /\ HomeOf(world)[r] = r
  BY Here0, WorldFields, LinkTypes
<1>3. PassOK(pass', world, phase)
  BY <1>1, <1>2 DEF PassOK, OrNone
<1>. QED  BY <1>1, <1>3 DEF IInv

(* Where a running loop stands *)
LEMMA Standing ==
  ASSUME IInv, pass.op # "none", Current # None
  PROVE  /\ Current \in Units /\ pass.up \in Links /\ pass.region \in Regions /\ pass.marked \in SUBSET Units
         /\ world.next[pass.up] = Current /\ HomeOf(world)[pass.up] = pass.region
         /\ world.region[Current] = pass.region /\ phase = "orders"
<1>1. /\ pass.up \in Links /\ pass.region \in Regions /\ pass.marked \in SUBSET Units
      /\ HomeOf(world)[pass.up] = pass.region /\ phase = "orders"
  BY DEF IInv, PassOK, OrNone
<1>2. world.next[pass.up] = Current
  BY DEF Current
<1>. QED  BY <1>1, <1>2, Here0, NextHere

(* A turn of a loop relinks, but moves nobody. *)
LEMMA Advanced ==
  ASSUME IInv, pass.op # "none", Current # None, NEW v, Whole(v), v.region = world.region,
         NEW marked \in SUBSET Units, Advance(v.next, Current, marked), world' = v,
         entered' \in SUBSET Units, phase' = phase
  PROVE  IInv'
<1>1. PICK u \in Units : u = Current
  BY Standing
<1>2. PICK up \in Links : up = (IF v.next[pass.up] = u THEN u ELSE pass.up) /\ HomeOf(world)[up] = pass.region
  <2>1. u \in Links /\ HomeOf(world)[u] = world.region[u]
    BY Here0, WorldFields
  <2>. QED  BY <1>1, <2>1, Standing
<1>3. pass' = [pass EXCEPT !.up = up, !.marked = marked]
  BY <1>1, <1>2 DEF Advance
<1>4. HomeOf(v) = HomeOf(world)
  BY DEF HomeOf
<1>5. PassOK(pass', v, phase)
  <2>1. PassOK(pass, world, phase)
    BY DEF IInv
  <2>. QED  BY <1>2, <1>3, <1>4, <2>1 DEF PassOK, OrNone
<1>. QED  BY <1>5 DEF IInv

LEMMA PassWhole ==
  ASSUME IInv, Pass
  PROVE  IInv'
<1>1. /\ pass.op # "none" /\ Current # None /\ Advance(world.next, Current, pass.marked)
      /\ world' = world /\ entered' = entered /\ phase' = phase
  BY DEF Pass
<1>. QED  BY <1>1, Here0, Standing, Advanced

LEMMA EnterWhole ==
  ASSUME IInv, NEW x \in Places, Enter(x)
  PROVE  IInv'
<1>1. PICK u : u = Current
  OBVIOUS
<1>2. PICK v : v = leave(world, u)
  OBVIOUS
<1>3. PICK w : w = IF x \in Buildings THEN u_set_building(v, u, x) ELSE u_set_ship(v, u, x)
  OBVIOUS
<1>4. PICK later : later = Those(ListFrom(world, u), {t \in Units : x \in {world.building[t], world.ship[t]}})
  OBVIOUS
<1>5. PICK next : next = IF later = << >> THEN w.next ELSE Relink(w.next, pass.up, Last(later))
  OBVIOUS
<1>6. /\ pass.op # "none" /\ u # None /\ world.berth[x] = pass.region /\ phase' = phase
      /\ world' = [w EXCEPT !.next = next] /\ entered' = entered \cup {u} /\ Advance(next, u, {})
  BY <1>1, <1>2, <1>3, <1>4, <1>5, Zenon DEF Enter, Running
<1>7. /\ u \in Units /\ u \in Links /\ pass.up \in Links /\ pass.region \in Regions /\ pass.region # None
      /\ world.next[pass.up] = u /\ HomeOf(world)[pass.up] = pass.region /\ HomeOf(world)[u] = pass.region
      /\ world.region[u] = pass.region
  BY <1>1, <1>6, Standing, Here0, WorldFields, LinkTypes
<1>8. Whole(v) /\ Stays(world, v) /\ v.building[u] = None /\ v.ship[u] = None
  BY <1>2, <1>7, Here0, WholeLeave
<1>9. v.region[u] # None /\ v.region[u] = v.berth[x]
  BY <1>6, <1>7, <1>8 DEF Stays
<1>10. Whole(w) /\ Stays(v, w)
  <2>1. CASE x \in Buildings
    BY <1>3, <1>7, <1>8, <1>9, <2>1, WholeHouse
  <2>2. CASE x \notin Buildings
    <3>1. x \in Ships
      BY <2>2 DEF Places
    <3>. QED  BY <1>3, <1>7, <1>8, <1>9, <2>2, <3>1, WholeBoard
  <2>. QED  BY <2>1, <2>2
<1>11. w.next = world.next /\ w.region = world.region
  BY <1>8, <1>10 DEF Stays
<1>12. HomeOf(w) = HomeOf(world)
  BY <1>11 DEF HomeOf
<1>13. w.next \in Pointers /\ HomeOf(w) \in Homes /\ Chained(w.next, HomeOf(w))
  BY <1>10, WorldFields DEF Whole, Sound, InLists
<1>14. next \in Pointers /\ Chained(next, HomeOf(w))
  <2>1. CASE later = << >>
    BY <1>5, <1>13, <2>1
  <2>2. CASE later # << >>
    <3>1. PICK pos \in Depths : Ranked(world.next, HomeOf(world), pos)
      BY <1>11, <1>12, <1>13 DEF Chained
    <3>2. PICK t : t = ListFrom(world, u)
      OBVIOUS
    <3>3. t \in Seq(Units) /\ \A i \in 1 .. Len(t) : HomeOf(world)[t[i]] = pass.region /\ pos[u] < pos[t[i]]
      BY <1>7, <1>11, <1>12, <1>13, <3>1, <3>2, ListOf
    <3>4. later \in Seq(Units) /\ Range(later) \subseteq Range(t)
      BY <1>4, <3>2, <3>3, ThoseList
    <3>5. PICK at \in Units : at = Last(later) /\ at \in Range(later)
      BY <2>2, <3>4 DEF Last, Range
    <3>6. PICK i \in 1 .. Len(t) : at = t[i]
      <4>1. at \in Range(t) /\ DOMAIN t = 1 .. Len(t)
        BY <3>3, <3>4, <3>5
      <4>. QED  BY <4>1 DEF Range
    <3>7. HomeOf(w)[at] = pass.region /\ pos[u] < pos[at] /\ at \in Links
      BY <1>12, <3>3, <3>6, LinkTypes
    <3>8. at # u
      BY <1>7, <3>7 DEF Depths
    <3>9. HomeOf(w)[pass.up] = HomeOf(w)[at] /\ w.next[pass.up] = u
      BY <1>7, <1>11, <1>12, <3>7
    <3>10. next = Relink(w.next, pass.up, at)
      BY <1>5, <2>2, <3>5
    <3>. QED  BY <1>7, <1>13, <3>7, <3>8, <3>9, <3>10, RelinkSound
  <2>. QED  BY <2>1, <2>2
<1>15. PICK z : z = [w EXCEPT !.next = next] /\ Whole(z) /\ z.next = next /\ z.region = w.region
  BY <1>10, <1>14, WholeNext
<1>16. entered' \in SUBSET Units /\ {} \in SUBSET Units
  BY <1>6, <1>7, Here0
<1>. QED  BY <1>1, <1>6, <1>11, <1>15, <1>16, Advanced

(* What SORT has checked *)
LEMMA Sorting ==
  ASSUME IInv, NEW v \in Units, MaySort(v)
  PROVE  /\ pass.op # "none" /\ Current # None /\ Current \in Units /\ v # Current
         /\ pass.up \in Links /\ pass.region \in Regions /\ v \in Links /\ Current \in Links
         /\ world.next[pass.up] = Current /\ world.region[v] = pass.region
         /\ HomeOf(world)[pass.up] = pass.region /\ HomeOf(world)[v] = pass.region
         /\ world.building[v] = world.building[Current] /\ world.ship[v] = world.ship[Current]
         /\ pass.marked \cup {Current} \in SUBSET Units
         /\ world.next \in Pointers /\ HomeOf(world) \in Homes /\ Chained(world.next, HomeOf(world))
<1>1. /\ pass.op # "none" /\ Current # None /\ v # Current /\ world.region[v] = pass.region
      /\ world.building[v] = world.building[Current] /\ world.ship[v] = world.ship[Current]
  BY DEF MaySort, Running
<1>2. /\ Current \in Units /\ pass.up \in Links /\ pass.region \in Regions /\ pass.marked \in SUBSET Units
      /\ world.next[pass.up] = Current /\ HomeOf(world)[pass.up] = pass.region
  BY <1>1, Standing
<1>3. v \in Links /\ Current \in Links /\ HomeOf(world)[v] = world.region[v]
      /\ world.next \in Pointers /\ HomeOf(world) \in Homes /\ Chained(world.next, HomeOf(world))
  BY <1>2, Here0, WorldFields DEF InLists
<1>. QED  BY <1>1, <1>2, <1>3

LEMMA SortAfterWhole ==
  ASSUME IInv, NEW v \in Units, SortAfter(v)
  PROVE  IInv'
<1>1. PICK next : next = Relink(world.next, pass.up, v)
  OBVIOUS
<1>2. /\ MaySort(v) /\ world' = [world EXCEPT !.next = next] /\ entered' = entered /\ phase' = phase
      /\ Advance(next, Current, pass.marked \cup {Current})
  BY <1>1, Zenon DEF SortAfter
<1>3. next \in Pointers /\ Chained(next, HomeOf(world))
  BY <1>1, <1>2, Sorting, RelinkSound
<1>4. PICK z : z = [world EXCEPT !.next = next] /\ Whole(z) /\ z.next = next /\ z.region = world.region
  BY <1>3, Here0, WholeNext
<1>5. PICK marked \in SUBSET Units : marked = pass.marked \cup {Current} /\ pass.op # "none" /\ Current # None
  BY <1>2, Sorting
<1>. QED  BY <1>2, <1>4, <1>5, Here0, Advanced

(* sort_before relinks as SORT AFTER does, behind the pointer to v. *)
LEMMA SortsBefore ==
  ASSUME IInv, NEW v \in Units, MaySort(v)
  PROVE  sort_before(v) \in Pointers /\ Chained(sort_before(v), HomeOf(world))
<1>1. PICK next, up, u, p : next = world.next /\ up = pass.up /\ u = Current /\ p = PointerTo(world, pass.region, v)
  OBVIOUS
<1>2. /\ u \in Units /\ v # u /\ up \in Links /\ v \in Links /\ u \in Links /\ next[up] = u
      /\ next \in Pointers /\ HomeOf(world) \in Homes /\ Chained(next, HomeOf(world))
      /\ HomeOf(world)[up] = pass.region
  BY <1>1, Sorting
<1>3. p \in Links /\ next[p] = v /\ HomeOf(world)[p] = pass.region
  BY <1>1, Here0, Sorting, PointsTo
<1>4. up # u
  <2>1. PICK pos \in Depths : Ranked(next, HomeOf(world), pos)
    BY <1>2 DEF Chained
  <2>2. pos[up] < pos[u] /\ pos[u] \in Nat
    BY <1>2, <2>1, LinkTypes DEF Ranked, Depths
  <2>. QED  BY <2>2
<1>5. sort_before(v) = [[[next EXCEPT ![p] = u] EXCEPT ![up] = [next EXCEPT ![p] = u][u]] EXCEPT ![u] = v]
  BY <1>1 DEF sort_before, Assign
<1>6. CASE p = u
  <2>1. sort_before(v) = next
    BY <1>2, <1>3, <1>4, <1>5, <1>6 DEF Pointers
  <2>. QED  BY <1>2, <2>1
<1>7. CASE p # u
  <2>1. p # up
    BY <1>2, <1>3
  <2>2. Relink(next, up, p) = [[[next EXCEPT ![up] = next[u]] EXCEPT ![u] = v] EXCEPT ![p] = u]
    BY <1>2, <1>3, <1>4, <1>7, <2>1 DEF Relink, Assign, Pointers
  <2>3. sort_before(v) = Relink(next, up, p)
    <3>1. DOMAIN next = Links
      BY <1>2 DEF Pointers
    <3>2. sort_before(v) = [l \in Links |-> IF l = u THEN v ELSE IF l = up THEN next[u] ELSE IF l = p THEN u ELSE next[l]]
      BY <1>2, <1>3, <1>5, <1>7, <2>1, <3>1
    <3>3. Relink(next, up, p) = [l \in Links |-> IF l = u THEN v ELSE IF l = up THEN next[u] ELSE IF l = p THEN u ELSE next[l]]
      BY <1>2, <1>3, <1>4, <1>7, <2>1, <2>2, <3>1
    <3>. QED  BY <3>2, <3>3
  <2>4. Relink(next, up, p) \in Pointers /\ Chained(Relink(next, up, p), HomeOf(world))
    BY <1>2, <1>3, <1>7, RelinkSound
  <2>. QED  BY <2>3, <2>4
<1>. QED  BY <1>6, <1>7

LEMMA SortBeforeWhole ==
  ASSUME IInv, NEW v \in Units, SortBefore(v)
  PROVE  IInv'
<1>1. PICK x : x = IF world.ship[v] # None THEN world.ship[v] ELSE world.building[v]
  OBVIOUS
<1>2. PICK O : O = IF IsOwner(v) THEN [world.owner EXCEPT ![x] = Current] ELSE world.owner
  OBVIOUS
<1>3. PICK next : next = sort_before(v)
  OBVIOUS
<1>4. /\ MaySort(v) /\ world' = [world EXCEPT !.next = next, !.owner = O] /\ entered' = entered /\ phase' = phase
      /\ Advance(next, Current, pass.marked \cup {Current})
  BY <1>1, <1>2, <1>3, Zenon DEF SortBefore
<1>5. PICK u \in Units : u = Current /\ world.building[v] = world.building[u] /\ world.ship[v] = world.ship[u]
  BY <1>4, Sorting
<1>6. IsOwner(v) => x \in Places /\ x \in {world.building[u], world.ship[u]}
  <2>1. IsOwner(v) => x # None
    BY <1>1 DEF IsOwner
  <2>2. x \in OrNone(Buildings) \cup OrNone(Ships)
    BY <1>1, Here0
  <2>. QED  BY <1>1, <1>5, <2>1, <2>2 DEF OrNone, Places
<1>7. world.owner \in [Places -> OrNone(Units)] /\ world \in WorldType
  BY Here0, WorldFields
<1>8. O \in [Places -> OrNone(Units)] /\ \A y \in Places : O[y] = world.owner[y] \/ (O[y] = u /\ y \in {world.building[u], world.ship[u]})
  <2>1. u \in OrNone(Units)
    BY DEF OrNone
  <2>. QED  BY <1>2, <1>5, <1>6, <1>7, <2>1
<1>9. PICK y : y = [world EXCEPT !.owner = O] /\ Whole(y) /\ y.region = world.region
  BY <1>8, Here0, WholeOwners
<1>10. next \in Pointers /\ Chained(next, HomeOf(y))
  <2>1. HomeOf(y) = HomeOf(world)
    BY <1>9 DEF HomeOf
  <2>. QED  BY <1>3, <1>4, <2>1, SortsBefore
<1>11. PICK z : z = [y EXCEPT !.next = next] /\ Whole(z) /\ z.next = next /\ z.region = y.region
  <2>1. Whole(y)
    BY <1>9
  <2>. QED  BY <1>10, <2>1, WholeNext
<1>12. world' = z
  BY <1>4, <1>7, <1>9, <1>11 DEF WorldType
<1>13. PICK marked \in SUBSET Units : marked = pass.marked \cup {Current} /\ pass.op # "none" /\ Current # None
  BY <1>4, Sorting
<1>14. Whole(z) /\ z.region = world.region /\ Advance(z.next, Current, marked) /\ entered' \in SUBSET Units
  BY <1>4, <1>9, <1>11, <1>13, Here0
<1>. QED  BY <1>4, <1>12, <1>13, <1>14, Advanced

LEMMA EndPassWhole ==
  ASSUME IInv, EndPass
  PROVE  IInv'
<1>1. world' = world /\ entered' = entered /\ phase' = phase /\ pass' = Idle
  BY DEF EndPass
<1>. QED  BY <1>1, IdlePass DEF IInv

(* After the orders no loop is running. *)
LEMMA Ended ==
  ASSUME IInv, Ordering \/ phase # "orders", Whole(world'), entered' \in SUBSET Units, pass' = pass,
         phase' \in {"orders", "ended", "reordered", "reported"}
  PROVE  IInv'
<1>1. pass' = Idle
  BY DEF IInv, PassOK, Ordering
<1>2. PassOK(pass', world', phase')
  BY <1>1, IdlePass
<1>. QED  BY <1>2 DEF IInv

LEMMA TurnEndWhole ==
  ASSUME IInv, TurnEnd
  PROVE  IInv'
<1>1. Ordering /\ world' = remove_empty_units(world) /\ phase' = "ended" /\ entered' = entered /\ pass' = pass
  BY DEF TurnEnd
<1>2. Whole(world')
  BY <1>1, Here0, WholeSweeps
<1>. QED  BY <1>1, <1>2, Here0, Ended

LEMMA ReorderWhole ==
  ASSUME IInv, NEW bs \in SetToSeqs(Buildings), NEW shs \in SetToSeqs(Ships), Reorder(bs, shs)
  PROVE  IInv'
<1> DEFINE Of(s, r) == Those(s, {x \in Places : world.berth[x] = r})
           f == [w \in WorldType |-> [r \in Regions |-> reorder_units(w, r, Of(bs, r), Of(shs, r))]]
<1>1. phase = "ended" /\ world' = Along(f, world, SetToSeq(Regions)) /\ phase' = "reordered"
      /\ entered' = entered /\ pass' = pass
  BY DEF Reorder
<1>2. bs \in Seq(Buildings) /\ shs \in Seq(Ships)
  <2>1. Cardinality(Buildings) \in Nat /\ Cardinality(Ships) \in Nat
    BY LinkTypes, FS_CardinalityType
  <2>2. bs \in [1 .. Cardinality(Buildings) -> Buildings] /\ shs \in [1 .. Cardinality(Ships) -> Ships]
    BY DEF SetToSeqs
  <2>. QED  BY <2>1, <2>2
<1>3. \A r : Of(bs, r) \in Seq(Buildings) /\ Of(shs, r) \in Seq(Ships)
  BY <1>2, ThoseList
<1>4. PICK Q : Q = {w \in WorldType : Whole(w)}
  OBVIOUS
<1>5. ASSUME NEW w \in Q, NEW r \in Regions
      PROVE  f[w][r] \in Q
  <2>1. f[w][r] = reorder_units(w, r, Of(bs, r), Of(shs, r)) /\ Whole(w)
    BY <1>4
  <2>2. Whole(f[w][r])
    <3>. HIDE DEF f, Of
    <3>. QED  BY <1>3, <2>1, WholeReorder
  <2>3. f[w][r] \in WorldType
    BY <2>2 DEF Whole, Sound, InLists
  <2>. HIDE DEF f
  <2>. QED  BY <1>4, <2>2, <2>3
<1>6. SetToSeq(Regions) \in Seq(Regions) /\ world \in Q
  BY <1>4, LinkTypes, SetAsList, Here0
<1>7. Along(f, world, SetToSeq(Regions)) \in Q
  <2>. HIDE DEF f
  <2>. QED  BY <1>5, <1>6, AlongStays
<1>8. Whole(world')
  <2>. HIDE DEF f
  <2>. QED  BY <1>1, <1>4, <1>7
<1>. QED  BY <1>1, <1>8, Here0, Ended

LEMMA ReportsWhole ==
  ASSUME IInv, Reports
  PROVE  IInv'
<1>1. /\ phase = "reordered" /\ world' = remove_empty_units(world) /\ phase' = "reported" /\ entered' = entered
      /\ pass' = pass
  BY DEF Reports
<1>2. Whole(world')
  BY <1>1, Here0, WholeSweeps
<1>. QED  BY <1>1, <1>2, Here0, Ended

LEMMA ReloadWhole ==
  ASSUME IInv, Reload
  PROVE  IInv'
<1>1. PICK file : file = [world EXCEPT !.building = [u \in Units |-> None],
                                       !.ship = [u \in Units |-> None],
                                       !.owner = [x \in Places |-> None]]
  OBVIOUS
<1>2. PICK v : v = Along([w \in WorldType |-> [r \in Regions |->
                            ForAll(w, r, [y \in WorldType |-> [u \in Units |-> ReadUnit(y, u)]])]],
                         file, SetToSeq(Regions))
  OBVIOUS
<1>3. phase = "reported" /\ world' = v /\ phase' = "orders" /\ entered' = {} /\ pass' = pass
  BY <1>1, <1>2, Zenon DEF Reload
<1>4. Whole(v)
  <2>1. Whole(world)
    BY Here0
  <2>2. Whole(Along([w \in WorldType |-> [r \in Regions |->
                            ForAll(w, r, [y \in WorldType |-> [u \in Units |-> ReadUnit(y, u)]])]],
                         file, SetToSeq(Regions)))
    BY <1>1, <2>1, WholeReload, Zenon
  <2>. QED  BY <1>2, <2>2
<1>. QED  BY <1>3, <1>4, Ended

LEMMA PlacementNext == IInv /\ [Next]_vars => IInv'
<1>1. SUFFICES ASSUME IInv, [Next]_vars PROVE IInv'
  OBVIOUS
<1>2. CASE \E u \in Units, r \in Regions, c \in OrNone(Units), manned \in BOOLEAN : CreateUnit(u, r, c, manned)
  BY <1>1, <1>2, CreateUnitWhole
<1>3. CASE \E u \in Units : Die(u)
  BY <1>1, <1>3, DieWhole
<1>4. CASE \E u, v \in Units, all \in BOOLEAN : GiveMen(u, v, all)
  BY <1>1, <1>4, GiveMenWhole
<1>5. CASE \E r \in Regions : Sweep(r)
  BY <1>1, <1>5, SweepWhole
<1>6. CASE \E u \in Units : Leave(u)
  BY <1>1, <1>6, LeaveWhole
<1>7. CASE \E u \in Units, b \in Buildings : Build(u, b)
  BY <1>1, <1>7, BuildWhole
<1>8. CASE \E u \in Units, sh \in Ships : CreateShip(u, sh)
  BY <1>1, <1>8, CreateShipWhole
<1>9. CASE \E x \in Places : Destroy(x)
  BY <1>1, <1>9, DestroyWhole
<1>10. CASE \E u, v \in Units : GiveControl(u, v)
  BY <1>1, <1>10, GiveControlWhole
<1>11. CASE \E u \in Units, v \in OrNone(Units), all \in BOOLEAN, sh \in Ships : GiveShip(u, v, all, sh)
  BY <1>1, <1>11, GiveShipWhole
<1>12. CASE \E r \in Regions : SinkShips(r)
  BY <1>1, <1>12, SinkShipsWhole
<1>13. CASE \E u \in Units, r \in Regions : Travel(u, r)
  BY <1>1, <1>13, TravelWhole
<1>14. CASE \E sh \in Ships, r \in Regions : Sail(sh, r)
  BY <1>1, <1>14, SailWhole
<1>15. CASE \E r, s \in Regions : DriftIceberg(r, s)
  BY <1>1, <1>15, DriftIcebergWhole
<1>16. CASE \E b \in Buildings, r \in Regions, stay \in SUBSET Units : Wormhole(b, r, stay)
  BY <1>1, <1>16, WormholeWhole
<1>17. CASE \E r, s \in Regions, resist \in SUBSET Units : DisruptAstral(r, s, resist)
  BY <1>1, <1>17, DisruptAstralWhole
<1>18. CASE \E op \in {"enter", "sort"}, r \in Regions : Begin(op, r)
  BY <1>1, <1>18, BeginWhole
<1>19. CASE Step
  <2>1. CASE Pass
    BY <1>1, <2>1, PassWhole
  <2>2. CASE \E x \in Places : Enter(x)
    BY <1>1, <2>2, EnterWhole
  <2>3. CASE \E v \in Units : SortAfter(v)
    BY <1>1, <2>3, SortAfterWhole
  <2>4. CASE \E v \in Units : SortBefore(v)
    BY <1>1, <2>4, SortBeforeWhole
  <2>5. CASE EndPass
    BY <1>1, <2>5, EndPassWhole
  <2>. QED  BY <1>19, <2>1, <2>2, <2>3, <2>4, <2>5 DEF Step
<1>20. CASE TurnEnd
  BY <1>1, <1>20, TurnEndWhole
<1>21. CASE \E bs \in SetToSeqs(Buildings), shs \in SetToSeqs(Ships) : Reorder(bs, shs)
  BY <1>1, <1>21, ReorderWhole
<1>22. CASE Reports
  BY <1>1, <1>22, ReportsWhole
<1>23. CASE Reload
  BY <1>1, <1>23, ReloadWhole
<1>24. CASE UNCHANGED vars
  BY <1>1, <1>24 DEF vars, IInv
<1>25. CASE Next
  BY <1>2, <1>3, <1>4, <1>5, <1>6, <1>7, <1>8, <1>9, <1>10, <1>11, <1>12, <1>13, <1>14, <1>15, <1>16,
     <1>17, <1>18, <1>19, <1>20, <1>21, <1>22, <1>23, <1>25, Zenon DEF Next
<1>. QED  BY <1>1, <1>24, <1>25

-----------------------------------------------------------------------------
(* The structs stay whole, and a running loop stands on the list it walks. *)
THEOREM Invariance == Spec => []IInv
<1>. QED  BY PlacementInit, PlacementNext, PTL DEF Spec

(* The owner of a building or ship is inside, through all that happens to  *)
(* owners (buildingcurse, GIVE CONTROL, ENTER, drifting, a reload), but    *)
(* where the owner of the region pays.                                     *)
THEOREM OwnersInside == Spec => []OwnersAreInside
<1>1. IInv => OwnersAreInside
  BY DEF IInv, Whole, Sound, Ruled, OwnersAreInside
<1>. QED  BY <1>1, Invariance, PTL

LEMMA WholeLists == IInv => ListsMatchRegions
<1>1. SUFFICES ASSUME IInv, NEW r \in Regions
               PROVE  /\ Listed(world, r) = {u \in Units : world.region[u] = r}
                      /\ Len(ListFrom(world, r)) = Cardinality(Listed(world, r))
  BY DEF ListsMatchRegions
<1>2. InLists(world)
  BY <1>1, Here0
<1>3. /\ Len(ListFrom(world, r)) = Cardinality(Range(ListFrom(world, r)))
      /\ Range(ListFrom(world, r)) = {u \in Units : world.region[u] = r}
      /\ Listed(world, r) = {u \in Units : world.region[u] = r}
  BY <1>1, <1>2, ListedHere
<1>. QED  BY <1>3

(* Each unit is on the list of its region, once, and on no other, whatever *)
(* do_enter and do_sort relink, and whoever moves, dies or is made.        *)
THEOREM ListsMatch == Spec => []ListsMatchRegions
<1>. QED  BY WholeLists, Invariance, PTL

LEMMA WholeTypes == IInv => TypeOK
<1>1. SUFFICES ASSUME IInv PROVE TypeOK
  OBVIOUS
<1>2. PassOK(pass, world, phase)
  BY <1>1 DEF IInv
<1>3. pass.op = "none" <=> pass.up = None
  BY <1>2, LinkTypes DEF PassOK, Idle
<1>. QED  BY <1>1, <1>2, <1>3, Here0 DEF TypeOK, PassOK, IInv

LEMMA WholeInside ==
  ASSUME IInv, Strict
  PROVE  InsideIsHere
<1>1. ASSUME NEW u \in Units
      PROVE  /\ world.building[u] # None => Present(u) /\ Here(u, world.building[u])
             /\ world.ship[u] # None => Present(u) /\ Here(u, world.ship[u])
             /\ None \in {world.building[u], world.ship[u]}
  BY Here0 DEF Near, Present, Here
<1>. QED  BY <1>1 DEF InsideIsHere

(* The list, the unit and its building or ship never disagree on where the *)
(* unit is, if a wormhole or the astral plane never moves an owner who may *)
(* not leave: leave_region asserts that none does, and the callers do not  *)
(* ask.                                                                    *)
THEOREM PlacesDoAgree ==
  ASSUME Strict
  PROVE  Spec => []PlacesAgree
<1>1. IInv => PlacesAgree
  BY WholeTypes, WholeLists, WholeInside DEF PlacesAgree
<1>. QED  BY <1>1, Invariance, PTL
-----------------------------------------------------------------------------
(* In front of the list *)

(* The pointers of B are those of the list up to f, which points behind.   *)
Upto(next, B, f) == B \subseteq Links /\ f \in B /\ \A l \in Links : next[l] \in B <=> l \in B \ {f}

(* The units of S stand together on their list, o first.                   *)
Grouped(next, S, o) == \A l \in Links \ S : next[l] \in S => next[l] = o

(* What a chain says of its pointers *)
Linear(next) ==
  /\ next \in Pointers
  /\ \A l, m \in Links : next[l] = next[m] /\ next[l] # None => l = m
  /\ \A l \in Links : next[l] # l

LEMMA ChainLinear ==
  ASSUME NEW next \in Pointers, NEW home \in Homes, Chained(next, home)
  PROVE  Linear(next)
<1>1. PICK pos \in Depths : Ranked(next, home, pos)
  BY DEF Chained
<1>2. \A l \in Links : next[l] # l
  <2>1. SUFFICES ASSUME NEW l \in Links, next[l] = l PROVE FALSE
    OBVIOUS
  <2>2. pos[l] < pos[l] /\ pos[l] \in Nat
    BY <1>1, <2>1, LinkTypes DEF Ranked, Depths
  <2>. QED  BY <2>2
<1>. QED  BY <1>1, <1>2 DEF Linear, Ranked

(* What Relink does to the pointers *)
LEMMA RelinkPointers ==
  ASSUME NEW next, Linear(next), NEW up \in Links, NEW at \in Links, NEW u \in Units,
         next[up] = u, at # u, at # up, NEW n, n = Relink(next, up, at)
  PROVE  /\ u \in Links /\ u # up /\ u # None /\ next[u] # u
         /\ n[up] = next[u] /\ n[u] = next[at] /\ n[at] = u
         /\ \A l \in Links \ {up, u, at} : n[l] = next[l]
<1>1. u \in Links /\ u # None /\ next \in Pointers
  BY LinkTypes DEF Linear
<1>2. u # up /\ next[u] # u
  BY <1>1 DEF Linear
<1>3. PICK n1, n2 : n1 = [next EXCEPT ![up] = next[u]] /\ n2 = [n1 EXCEPT ![u] = n1[at]]
  OBVIOUS
<1>4. n = [n2 EXCEPT ![at] = u]
  BY <1>3 DEF Relink, Assign
<1>5. DOMAIN next = Links /\ DOMAIN n1 = Links /\ DOMAIN n2 = Links
  BY <1>1, <1>3 DEF Pointers
<1>6. n1[at] = next[at] /\ n1[up] = next[u] /\ \A l \in Links \ {up} : n1[l] = next[l]
  BY <1>3, <1>5
<1>7. n2[u] = next[at] /\ \A l \in Links \ {u} : n2[l] = n1[l]
  BY <1>1, <1>3, <1>5, <1>6
<1>8. n[at] = u /\ \A l \in Links \ {at} : n[l] = n2[l]
  BY <1>4, <1>5
<1>. QED  BY <1>1, <1>2, <1>6, <1>7, <1>8

LEMMA UptoNext ==
  ASSUME NEW next, Linear(next), NEW B, NEW f, Upto(next, B, f), NEW u \in Units, next[f] = u
  PROVE  Upto(next, B \cup {u}, u) /\ u \notin B
<1>1. f \in Links /\ u \in Links /\ u # None
  BY LinkTypes DEF Upto
<1>2. u \notin B
  BY <1>1 DEF Upto
<1>3. \A l \in Links : next[l] = u <=> l = f
  BY <1>1 DEF Linear
<1>. QED  BY <1>1, <1>2, <1>3 DEF Upto

(* Behind it units may be moved, and to its end; then it is as it was. *)
LEMMA UptoBehind ==
  ASSUME NEW next, Linear(next), NEW up \in Links, NEW at \in Links, NEW u \in Units,
         next[up] = u, at # u, at # up, NEW n, n = Relink(next, up, at),
         NEW B, NEW f, Upto(next, B, f), u \notin B, at = f \/ at \notin B
  PROVE  Upto(n, B, f)
<1>1. /\ u \in Links /\ u # up /\ n[up] = next[u] /\ n[u] = next[at] /\ n[at] = u
      /\ \A l \in Links \ {up, u, at} : n[l] = next[l]
  BY RelinkPointers
<1>2. up \notin B \ {f} /\ next[u] \notin B /\ next[at] \notin B
  BY <1>1 DEF Upto
<1>. QED  BY <1>1, <1>2 DEF Upto

(* A unit from behind is put into it, *)
LEMMA UptoInside ==
  ASSUME NEW next, Linear(next), NEW up \in Links, NEW at \in Links, NEW u \in Units,
         next[up] = u, at # u, at # up, NEW n, n = Relink(next, up, at),
         NEW B, NEW f, Upto(next, B, f), u \notin B, at \in B, at # f
  PROVE  Upto(n, B \cup {u}, f)
<1>1. /\ u \in Links /\ u # up /\ n[up] = next[u] /\ n[u] = next[at] /\ n[at] = u /\ next[u] # u
      /\ \A l \in Links \ {up, u, at} : n[l] = next[l]
  BY RelinkPointers
<1>2. up \notin B \ {f} /\ next[u] \notin B /\ next[at] \in B
  BY <1>1 DEF Upto
<1>3. \A l \in Links \ {up} : next[l] # u
  BY LinkTypes DEF Linear
<1>4. f # u /\ f \in B /\ B \subseteq Links
  BY DEF Upto
<1>5. n[up] \notin B \cup {u} /\ up \notin (B \cup {u}) \ {f}
  BY <1>1, <1>2
<1>6. n[u] \in B \cup {u} /\ u \in (B \cup {u}) \ {f}
  BY <1>1, <1>2, <1>4
<1>7. \A l \in Links \ {up, u, at} : n[l] \in B \cup {u} <=> l \in (B \cup {u}) \ {f}
  BY <1>1, <1>3 DEF Upto
<1>8. n[at] \in B \cup {u} /\ at \in (B \cup {u}) \ {f}
  BY <1>1
<1>9. \A l \in Links : n[l] \in B \cup {u} <=> l \in (B \cup {u}) \ {f}
  BY <1>5, <1>6, <1>7, <1>8
<1>. QED  BY <1>1, <1>4, <1>9 DEF Upto

(* or to its end. *)
LEMMA UptoEnd ==
  ASSUME NEW next, Linear(next), NEW up \in Links, NEW at \in Links, NEW u \in Units,
         next[up] = u, at # u, at # up, NEW n, n = Relink(next, up, at),
         NEW B, Upto(next, B, at), u \notin B
  PROVE  Upto(n, B \cup {u}, u)
<1>1. /\ u \in Links /\ u # up /\ n[up] = next[u] /\ n[u] = next[at] /\ n[at] = u /\ next[u] # u
      /\ \A l \in Links \ {up, u, at} : n[l] = next[l]
  BY RelinkPointers
<1>2. up \notin B /\ next[u] \notin B /\ next[at] \notin B /\ at \in B
  BY <1>1 DEF Upto
<1>3. \A l \in Links \ {up} : next[l] # u
  BY LinkTypes DEF Linear
<1>4. n[up] \notin B \cup {u} /\ up \notin (B \cup {u}) \ {u}
  BY <1>1, <1>2
<1>5. n[u] \notin B \cup {u}
  BY <1>1, <1>2, <1>3
<1>6. \A l \in Links \ {up, u, at} : n[l] \in B \cup {u} <=> l \in (B \cup {u}) \ {u}
  BY <1>1, <1>3 DEF Upto
<1>7. n[at] \in B \cup {u} /\ at \in (B \cup {u}) \ {u}
  BY <1>1, <1>2
<1>8. \A l \in Links : n[l] \in B \cup {u} <=> l \in (B \cup {u}) \ {u}
  BY <1>4, <1>5, <1>6, <1>7
<1>. QED  BY <1>1, <1>8 DEF Upto

(* Others stay together, where nobody is put between them. *)
LEMMA GroupedStays ==
  ASSUME NEW next, Linear(next), NEW up \in Links, NEW at \in Links, NEW u \in Units,
         next[up] = u, at # u, at # up, NEW n, n = Relink(next, up, at),
         NEW S, NEW o, Grouped(next, S, o), u \notin S, at \notin S \/ next[at] \notin S
  PROVE  Grouped(n, S, o)
<1>1. /\ u \in Links /\ n[up] = next[u] /\ n[u] = next[at] /\ n[at] = u
      /\ \A l \in Links \ {up, u, at} : n[l] = next[l]
  BY RelinkPointers
<1>. QED  BY <1>1 DEF Grouped

(* Who stands behind one front and within another stands together. *)
LEMMA UptoGrouped ==
  ASSUME NEW next, NEW B, NEW f, NEW S, NEW g, Upto(next, B, f), Upto(next, B \cup S, g), B \cap S = {}
  PROVE  Grouped(next, S, next[f])
<1>1. SUFFICES ASSUME NEW l \in Links \ S, next[l] \in S PROVE l = f
  BY DEF Grouped
<1>2. l \in B
  BY <1>1 DEF Upto
<1>3. l # f => next[l] \in B
  BY <1>1, <1>2 DEF Upto
<1>. QED  BY <1>1, <1>3

(* The front that ends with the list has all of it. *)
LEMMA UptoAll ==
  ASSUME NEW home \in Homes, NEW next \in Pointers, Chained(next, home), NEW r \in Regions, NEW B, NEW f,
         Upto(next, B, f), r \in B, next[f] = None
  PROVE  \A u \in Units : home[u] = r => u \in B
<1>1. PICK pos \in Depths : Ranked(next, home, pos)
  BY DEF Chained
<1> DEFINE T == {k \in Nat : \E u \in Units : home[u] = r /\ u \notin B /\ pos[u] = k}
<1>2. SUFFICES ASSUME T # {} PROVE FALSE
  <2>1. \A u \in Units : pos[u] \in Nat
    BY LinkTypes DEF Depths
  <2>. QED  BY <1>2, <2>1
<1>3. PICK k \in T : \A j \in T : k <= j
  <2>1. T \subseteq Nat
    OBVIOUS
  <2>. HIDE DEF T
  <2>. QED  BY <1>2, <2>1, MinOf
<1>4. PICK u \in Units : home[u] = r /\ u \notin B /\ pos[u] = k
  BY <1>3
<1>5. PICK l \in Links : next[l] = u
  BY <1>1, <1>4, LinkTypes DEF Ranked
<1>6. home[l] = r /\ pos[l] < pos[u] /\ u # None /\ pos[l] \in Nat
  BY <1>1, <1>4, <1>5, LinkTypes DEF Ranked, Depths
<1>7. l \notin B
  BY <1>4, <1>5, <1>6 DEF Upto
<1>8. l \in Units
  <2>1. l \in Regions => l = r
    BY <1>1, <1>6 DEF Ranked
  <2>. QED  BY <1>7, <2>1 DEF Links
<1>9. pos[l] \in T
  BY <1>6, <1>7, <1>8
<1>10. k \in Nat /\ k <= pos[l]
  BY <1>3, <1>9
<1>. QED  BY <1>4, <1>6, <1>10

-----------------------------------------------------------------------------
(* One loop of reorder_units: B is in front already, G are those of S that *)
(* have been met, P the others.                                            *)
Gathered(t, B, f, S, owner, G, P) ==
  /\ Upto(t.next, B, f) /\ Upto(t.next, B \cup G, t.unext) /\ Upto(t.next, B \cup G \cup P, t.umove)
  /\ G \subseteq S \cap Units /\ P \subseteq Units \ S /\ B \cap (G \cup P) = {}
  /\ G = {} <=> t.unext = f
  /\ owner \in G => t.next[f] = owner

(* The groups that stood together do so still, if all of each is in front, *)
(* or on other lists.                                                      *)
Remain(next, n, B, home, r) ==
  \A X \in SUBSET Units : (\A x \in X : x \in B \/ home[x] # r) =>
    \A o : Grouped(next, X, o) => Grouped(n, X, o)

LEMMA GatherMoves ==
  ASSUME NEW home \in Homes, NEW r \in Regions, NEW next, NEW up \in Links, NEW at \in Links, NEW u \in Units,
         Linear(next), Chained(next, home), home[at] = r, home[up] = r, next[up] = u, at # u, at # up,
         NEW n, n = Relink(next, up, at),
         NEW B, NEW f, Upto(next, B, f), u \notin B, at = f \/ at \notin B
  PROVE  Remain(next, n, B, home, r)
<1>1. SUFFICES ASSUME NEW X \in SUBSET Units, \A x \in X : x \in B \/ home[x] # r,
                      NEW o, Grouped(next, X, o)
               PROVE  Grouped(n, X, o)
  BY DEF Remain
<1>2. next \in Pointers /\ u \in Links /\ at # None
  BY LinkTypes DEF Linear
<1>3. PICK pos \in Depths : Ranked(next, home, pos)
  BY DEF Chained
<1>4. home[u] = r /\ u \notin X
  BY <1>1, <1>3, LinkTypes DEF Ranked
<1>5. next[at] \notin X
  <2>1. SUFFICES ASSUME next[at] \in X PROVE FALSE
    OBVIOUS
  <2>2. next[at] # None
    BY <2>1, LinkTypes
  <2>3. home[next[at]] = r
    BY <1>3, <2>2 DEF Ranked
  <2>4. next[at] \in B
    BY <1>1, <2>1, <2>3
  <2>. QED  BY <2>4 DEF Upto
<1>. QED  BY <1>1, <1>4, <1>5, GroupedStays

LEMMA GatherTurn ==
  ASSUME NEW home \in Homes, NEW r \in Regions, NEW t, NEW f, Gathers(t, f, home, r),
         NEW B, NEW S, NEW owner, NEW G, NEW P, Gathered(t, B, f, S, owner, G, P),
         NEW u \in Units, t.next[t.umove] = u, NEW x, x = PlaceOne(t, f, S, owner)
  PROVE  /\ u \notin B \cup G \cup P
         /\ u \in S => Gathered(x, B, f, S, owner, G \cup {u}, P)
         /\ u \notin S => Gathered(x, B, f, S, owner, G, P \cup {u})
         /\ Remain(t.next, x.next, B, home, r)
<1>1. PICK next, umove, unext : next = t.next /\ umove = t.umove /\ unext = t.unext
  OBVIOUS
<1>2. /\ next \in Pointers /\ umove \in Links /\ unext \in Links /\ f \in Links
      /\ home[f] = r /\ home[unext] = r /\ home[umove] = r /\ Chained(next, home) /\ next[umove] = u
  BY <1>1 DEF Gathers, GatherType, Pointers, Chained
<1>3. Linear(next)
  BY <1>2, ChainLinear
<1>4. /\ Upto(next, B, f) /\ Upto(next, B \cup G, unext) /\ Upto(next, B \cup G \cup P, umove)
      /\ G \subseteq S \cap Units /\ P \subseteq Units \ S /\ B \cap (G \cup P) = {}
      /\ G = {} <=> unext = f
      /\ owner \in G => next[f] = owner
  BY <1>1 DEF Gathered
<1>5. u \in Links /\ u # None
  BY LinkTypes
<1>6. u \notin B \cup G \cup P
  BY <1>2, <1>4 DEF Upto
<1>7. f \in B /\ unext \in B \cup G /\ umove \in B \cup G \cup P
  BY <1>4 DEF Upto
<1>8. unext \in B => unext = f
  <2>1. unext \in B /\ unext # f => next[unext] \in B
    BY <1>2, <1>4 DEF Upto
  <2>2. next[unext] \notin B \cup G
    BY <1>2, <1>4 DEF Upto
  <2>. QED  BY <2>1, <2>2
<1>9. G # {} => next[f] \in G
  <2>1. G # {} => next[f] \in B \cup G /\ next[f] \notin B
    BY <1>2, <1>4, <1>7 DEF Upto
  <2>. QED  BY <2>1
<1>10. /\ umove \in B \cup G => umove = unext
  BY <1>2, <1>4, <1>6 DEF Upto
<1>11. CASE u \notin S
  <2>1. x = [next |-> next, umove |-> u, unext |-> unext]
    BY <1>1, <1>2, <1>5, <1>11 DEF PlaceOne
  <2>2. Upto(next, B \cup G \cup P \cup {u}, u)
    BY <1>2, <1>3, <1>4, UptoNext
  <2>3. B \cup G \cup (P \cup {u}) = B \cup G \cup P \cup {u}
    OBVIOUS
  <2>4. Gathered(x, B, f, S, owner, G, P \cup {u})
    BY <1>4, <1>6, <1>11, <2>1, <2>2, <2>3 DEF Gathered
  <2>5. Remain(next, x.next, B, home, r)
    BY <2>1 DEF Remain
  <2>. QED  BY <1>1, <1>6, <1>11, <2>4, <2>5
<1>12. B \cup (G \cup {u}) = (B \cup G) \cup {u} /\ B \cup (G \cup {u}) \cup P = (B \cup G \cup P) \cup {u}
  OBVIOUS
<1>13. PICK ui : ui = IF u = owner THEN f ELSE unext
  OBVIOUS
<1>14. ui \in Links /\ ui # u /\ home[ui] = r /\ (ui = f \/ ui \notin B) /\ ui \in B \cup G
  BY <1>2, <1>6, <1>7, <1>8, <1>13
<1>15. CASE u \in S /\ umove = ui
  <2>1. umove = unext
    BY <1>10, <1>14, <1>15
  <2>2. x = [next |-> next, umove |-> u, unext |-> u]
    BY <1>1, <1>2, <1>5, <1>13, <1>15, <2>1 DEF PlaceOne
  <2>3. Upto(next, B \cup G \cup {u}, u) /\ Upto(next, B \cup G \cup P \cup {u}, u)
    BY <1>2, <1>3, <1>4, <2>1, UptoNext
  <2>4. owner \in G \cup {u} => next[f] = owner
    BY <1>2, <1>4, <1>13, <1>15
  <2>5. Gathered(x, B, f, S, owner, G \cup {u}, P)
    BY <1>4, <1>6, <1>7, <1>12, <1>15, <2>2, <2>3, <2>4 DEF Gathered
  <2>6. Remain(next, x.next, B, home, r)
    BY <2>2 DEF Remain
  <2>. QED  BY <1>1, <1>6, <1>15, <2>5, <2>6
<1>16. CASE u \in S /\ umove # ui
  <2>1. PICK n : n = Relink(next, umove, ui)
    OBVIOUS
  <2>2. x = [next |-> n, umove |-> umove, unext |-> IF unext = ui THEN u ELSE unext]
    BY <1>1, <1>2, <1>5, <1>13, <1>16, <2>1 DEF PlaceOne
  <2>3. Remain(next, n, B, home, r)
    BY <1>2, <1>3, <1>4, <1>6, <1>14, <1>16, <2>1, GatherMoves
  <2>4. Upto(n, B, f)
    BY <1>2, <1>3, <1>4, <1>6, <1>14, <1>16, <2>1, UptoBehind
  <2>5. Upto(n, B \cup G \cup P \cup {u}, umove)
    BY <1>2, <1>3, <1>4, <1>6, <1>14, <1>16, <2>1, UptoInside
  <2>6. n[ui] = u /\ \A l \in Links \ {umove, u, ui} : n[l] = next[l]
    BY <1>2, <1>3, <1>14, <1>16, <2>1, RelinkPointers
  <2>7. CASE ui = unext
    <3>1. Upto(n, B \cup G \cup {u}, u)
      BY <1>2, <1>3, <1>4, <1>6, <1>14, <1>16, <2>1, <2>7, UptoEnd
    <3>2. owner \in G \cup {u} => n[f] = owner
      <4>1. CASE u = owner
        BY <1>13, <2>6, <4>1
      <4>2. CASE u # owner /\ owner \in G
        <5>1. next[f] = owner /\ f # umove /\ f # u /\ f # unext
          BY <1>2, <1>4, <1>6, <1>7, <4>2
        <5>. QED  BY <1>2, <2>6, <2>7, <5>1
      <4>. QED  BY <4>1, <4>2
    <3>3. Gathered(x, B, f, S, owner, G \cup {u}, P)
      BY <1>4, <1>6, <1>7, <1>12, <1>16, <2>2, <2>4, <2>5, <2>7, <3>1, <3>2 DEF Gathered
    <3>. QED  BY <1>1, <1>6, <1>16, <2>2, <2>3, <3>3
  <2>8. CASE ui # unext
    <3>1. ui = f /\ u = owner /\ G # {}
      BY <1>4, <1>13, <2>8
    <3>2. Upto(n, B \cup G \cup {u}, unext)
      BY <1>2, <1>3, <1>4, <1>6, <1>14, <1>16, <2>1, <2>8, UptoInside
    <3>3. n[f] = owner
      BY <2>6, <3>1
    <3>4. Gathered(x, B, f, S, owner, G \cup {u}, P)
      BY <1>4, <1>6, <1>7, <1>12, <1>16, <2>2, <2>4, <2>5, <2>8, <3>1, <3>2, <3>3 DEF Gathered
    <3>. QED  BY <1>1, <1>6, <1>16, <2>2, <2>3, <3>4
  <2>. QED  BY <2>7, <2>8
<1>. QED  BY <1>11, <1>15, <1>16

(* after k turns of the loop that began with t *)
Gathering(v, t, B, S, owner, home, r, k) ==
  /\ Gathers(v, t.unext, home, r) /\ Remain(t.next, v.next, B, home, r)
  /\ \E G, P \in SUBSET Units :
       /\ Gathered(v, B, t.unext, S, owner, G, P)
       /\ \A g \in G : home[g] = r
       /\ v.next[v.umove] = None \/ Cardinality(G \cup P) = k

LEMMA RemainJoin ==
  ASSUME NEW home, NEW r, NEW B, NEW l, NEW m, NEW n, Remain(l, m, B, home, r), Remain(m, n, B, home, r)
  PROVE  Remain(l, n, B, home, r)
BY DEF Remain

LEMMA GatheringTurn ==
  ASSUME NEW home \in Homes, NEW r \in Regions, NEW t, NEW B, NEW S, NEW owner, NEW k \in Nat,
         NEW v, Gathering(v, t, B, S, owner, home, r, k)
  PROVE  Gathering(PlaceOne(v, t.unext, S, owner), t, B, S, owner, home, r, k + 1)
<1>1. PICK x : x = PlaceOne(v, t.unext, S, owner)
  OBVIOUS
<1>2. Gathers(v, t.unext, home, r) /\ Remain(t.next, v.next, B, home, r)
  BY DEF Gathering
<1>3. Gathers(x, t.unext, home, r)
  BY <1>1, <1>2, PlaceGathers
<1>4. PICK G \in SUBSET Units, P \in SUBSET Units :
       /\ Gathered(v, B, t.unext, S, owner, G, P)
       /\ \A g \in G : home[g] = r
       /\ v.next[v.umove] = None \/ Cardinality(G \cup P) = k
  BY DEF Gathering
<1>5. CASE v.next[v.umove] = None
  <2>1. x = v
    BY <1>1, <1>5 DEF PlaceOne
  <2>. QED  BY <1>1, <1>2, <1>4, <1>5, <2>1 DEF Gathering
<1>6. CASE v.next[v.umove] # None
  <2>1. PICK u \in Units : u = v.next[v.umove]
    BY <1>2, <1>6 DEF Gathers, GatherType, OrNone
  <2>2. /\ u \notin B \cup G \cup P
        /\ u \in S => Gathered(x, B, t.unext, S, owner, G \cup {u}, P)
        /\ u \notin S => Gathered(x, B, t.unext, S, owner, G, P \cup {u})
        /\ Remain(v.next, x.next, B, home, r)
    BY <1>1, <1>2, <1>4, <2>1, GatherTurn
  <2>3. home[u] = r
    BY <1>2, <1>6, <2>1 DEF Gathers, GatherType, Ranked
  <2>4. IsFiniteSet(G \cup P) /\ Cardinality(G \cup P) = k
    BY <1>4, <1>6, LinkTypes, FS_Subset
  <2>5. Cardinality((G \cup P) \cup {u}) = k + 1
    BY <2>2, <2>4, FS_AddElement
  <2>6. Remain(t.next, x.next, B, home, r)
    BY <1>2, <2>2, RemainJoin
  <2>7. CASE u \in S
    <3>1. G \cup {u} \in SUBSET Units /\ (G \cup {u}) \cup P = (G \cup P) \cup {u} /\ \A g \in G \cup {u} : home[g] = r
      BY <1>4, <2>3
    <3>. QED  BY <1>1, <1>3, <2>2, <2>5, <2>6, <2>7, <3>1 DEF Gathering
  <2>8. CASE u \notin S
    <3>1. P \cup {u} \in SUBSET Units /\ G \cup (P \cup {u}) = (G \cup P) \cup {u}
      OBVIOUS
    <3>. QED  BY <1>1, <1>3, <1>4, <2>2, <2>5, <2>6, <2>8, <3>1 DEF Gathering
  <2>. QED  BY <2>7, <2>8
<1>. QED  BY <1>5, <1>6

(* What a loop does to a front *)
Fronts(x, t, B, S, owner, home, r, G) ==
  /\ G \in SUBSET Units
  /\ Upto(x.next, B \cup G, x.unext) /\ G \subseteq S /\ B \cap G = {}
  /\ \A u \in S \cap Units : home[u] = r => u \in B \cup G
  /\ owner \in G => Grouped(x.next, G, owner)
  /\ Draws(x, home, r) /\ Remain(t.next, x.next, B, home, r)

LEMMA GatherFront ==
  ASSUME NEW home \in Homes, NEW r \in Regions, NEW t, Draws(t, home, r),
         NEW B, Upto(t.next, B, t.unext), r \in B, NEW S, NEW owner, NEW x, x = Gather(t, S, owner)
  PROVE  \E G : Fronts(x, t, B, S, owner, home, r, G)
<1> DEFINE g == [v \in GatherType |-> [k \in Nat |-> PlaceOne(v, t.unext, S, owner)]]
<1>1. PICK c \in Nat : c = Cardinality(Units)
  BY LinkTypes
<1>2. PICK Q : Q = [k \in 0 .. c |-> {v \in GatherType : Gathering(v, t, B, S, owner, home, r, k)}]
  OBVIOUS
<1>3. PICK s, n : s = [t EXCEPT !.umove = t.unext] /\ n = Turns(c)
  OBVIOUS
<1>4. Len(n) = c /\ \A k \in 1 .. c : n[k] = k
  BY <1>3, TurnsList
<1>5. s \in Q[0]
  <2>1. PICK pos \in Depths : Ranked(t.next, home, pos)
    BY DEF Draws, Chained
  <2>2. s \in GatherType /\ s.next = t.next /\ s.umove = t.unext /\ s.unext = t.unext /\ t.unext \in Links
    BY <1>3 DEF Draws, GatherType
  <2>3. Gathers(s, t.unext, home, r)
    BY <2>1, <2>2 DEF Gathers, Draws
  <2>4. Gathered(s, B, t.unext, S, owner, {}, {})
    BY <2>2 DEF Gathered
  <2>5. Remain(t.next, s.next, B, home, r)
    BY <2>2 DEF Remain
  <2>6. Cardinality({} \cup {}) = 0
    BY FS_EmptySet
  <2>7. Gathering(s, t, B, S, owner, home, r, 0)
    <3>1. {} \in SUBSET Units
      OBVIOUS
    <3>. QED  BY <2>3, <2>4, <2>5, <2>6, <3>1 DEF Gathering
  <2>. QED  BY <1>1, <1>2, <2>2, <2>7
<1>6. ASSUME NEW k \in 1 .. c, NEW v \in Q[k - 1]
      PROVE  g[v][n[k]] \in Q[k]
  <2>1. k - 1 \in 0 .. c /\ k \in 0 .. c /\ k - 1 \in Nat /\ (k - 1) + 1 = k /\ k \in Nat
    BY <1>1
  <2>2. v \in GatherType /\ Gathering(v, t, B, S, owner, home, r, k - 1)
    BY <1>2, <1>6, <2>1
  <2>3. g[v][n[k]] = PlaceOne(v, t.unext, S, owner)
    BY <1>4, <2>1, <2>2
  <2>4. Gathering(PlaceOne(v, t.unext, S, owner), t, B, S, owner, home, r, k)
    <3>1. Gathering(PlaceOne(v, t.unext, S, owner), t, B, S, owner, home, r, (k - 1) + 1)
      BY <2>1, <2>2, GatheringTurn
    <3>. QED  BY <2>1, <3>1
  <2>5. PlaceOne(v, t.unext, S, owner) \in GatherType
    BY <2>4 DEF Gathering, Gathers
  <2>. QED  BY <1>2, <2>1, <2>3, <2>4, <2>5
<1>7. Along(g, s, n) \in Q[c]
  <2>. HIDE DEF g
  <2>. QED  BY <1>1, <1>4, <1>5, <1>6, AlongKeeps
<1>8. Gather(t, S, owner) = Along(g, s, n)
  BY <1>1, <1>3 DEF Gather
<1>9. Gathering(x, t, B, S, owner, home, r, c)
  <2>. HIDE DEF g
  <2>. QED  BY <1>1, <1>2, <1>7, <1>8
<1>10. PICK G \in SUBSET Units, P \in SUBSET Units :
       /\ Gathered(x, B, t.unext, S, owner, G, P)
       /\ \A d \in G : home[d] = r
       /\ x.next[x.umove] = None \/ Cardinality(G \cup P) = c
  BY <1>9 DEF Gathering
<1>11. Draws(x, home, r) /\ Remain(t.next, x.next, B, home, r) /\ x.umove \in Links /\ x.next \in Pointers
  BY <1>9 DEF Gathering, Gathers, Draws, Chained, GatherType, Pointers
<1>12. x.next[x.umove] = None
  <2>1. SUFFICES ASSUME x.next[x.umove] # None PROVE FALSE
    OBVIOUS
  <2>2. G \cup P = Units
    BY <1>1, <1>10, <2>1, LinkTypes, FS_Subset
  <2>3. x.next[x.umove] \in Units
    BY <1>11, <2>1 DEF Pointers, OrNone
  <2>4. x.next[x.umove] \notin B \cup G \cup P
    BY <1>10, <1>11 DEF Gathered, Upto
  <2>. QED  BY <2>2, <2>3, <2>4
<1>13. \A u \in Units : home[u] = r => u \in B \cup G \cup P
  BY <1>10, <1>11, <1>12, UptoAll DEF Gathered, Draws
<1>14. \A u \in S \cap Units : home[u] = r => u \in B \cup G
  BY <1>10, <1>13 DEF Gathered
<1>15. Grouped(x.next, G, x.next[t.unext])
  BY <1>10, UptoGrouped DEF Gathered
<1>16. Fronts(x, t, B, S, owner, home, r, G)
  BY <1>10, <1>11, <1>14, <1>15 DEF Gathered, Fronts
<1>. QED  BY <1>16

-----------------------------------------------------------------------------
(* The first of those inside *)

(* The first of a list that is in S is the head of what is taken of it. *)
LEMMA ThoseFirst ==
  ASSUME NEW T, NEW s \in Seq(T), NEW S, NEW i \in 1 .. Len(s), s[i] \in S,
         \A j \in 1 .. Len(s) : s[j] \in S => i <= j
  PROVE  Those(s, S) # << >> /\ Head(Those(s, S)) = s[i]
<1>1. PICK I, t, m : I = {j \in DOMAIN s : s[j] \in S} /\ t = Only(s, I) /\ m = Len(s)
  OBVIOUS
<1>2. t = Those(s, S)
  BY <1>1 DEF Those
<1>3. m \in Nat /\ I \in SUBSET (1 .. m) /\ I \in SUBSET (DOMAIN s) /\ i \in I /\ I # {}
  BY <1>1
<1>4. First(I) \in I /\ (\A j \in I : First(I) <= j) /\ Cardinality(I) \in Nat \ {0} /\ Pos(I, 1) = First(I)
  BY <1>3, FirstOf
<1>5. First(I) = i
  <2>1. PICK k : k = First(I)
    OBVIOUS
  <2>2. k \in 1 .. m /\ k <= i /\ i <= k
    BY <1>1, <1>3, <1>4, <2>1
  <2>3. k = i
    BY <1>3, <2>2
  <2>. QED  BY <2>1, <2>3
<1>6. t \in Seq(T) /\ Len(t) = Cardinality(I) /\ \A n \in 1 .. Cardinality(I) : t[n] = s[Pos(I, n)]
  BY <1>1, <1>3, OnlyThese
<1>7. t # << >> /\ t[1] = s[i]
  BY <1>4, <1>5, <1>6
<1>. QED  BY <1>2, <1>6, <1>7

(* The list of a region and its pointers *)
LEMMA ListLinks ==
  ASSUME NEW w, InLists(w), NEW r \in Regions, NEW t, t = ListFrom(w, r)
  PROVE  /\ t \in Seq(Units) /\ Once(t) /\ Len(t) \in Nat
         /\ \A u \in Units : w.region[u] = r <=> \E i \in 1 .. Len(t) : t[i] = u
         /\ t # << >> => t[1] = w.next[r]
         /\ \A i \in 1 .. Len(t) - 1 : w.next[t[i]] = t[i + 1]
<1>1. w.next \in Pointers /\ HomeOf(w) \in Homes /\ Chained(w.next, HomeOf(w)) /\ r \in Links
  BY WorldFields DEF InLists
<1>2. PICK pos \in Depths : Ranked(w.next, HomeOf(w), pos)
  BY <1>1 DEF Chained
<1>3. /\ t # << >> => t[1] = w.next[r]
      /\ \A i \in 1 .. Len(t) - 1 : w.next[t[i]] = t[i + 1]
  BY <1>1, <1>2, ListOf
<1>4. t \in Seq(Units) /\ Once(t) /\ Range(t) = {u \in Units : w.region[u] = r}
  BY ListedHere
<1>5. \A u : u \in Range(t) <=> \E i \in 1 .. Len(t) : t[i] = u
  BY <1>4 DEF Range
<1>. QED  BY <1>3, <1>4, <1>5

LEMMA GroupedFirst ==
  ASSUME NEW w, InLists(w), NEW r \in Regions, NEW S, NEW o \in Units, w.region[o] = r, r \notin S,
         Grouped(w.next, S, o), NEW t, t = ListFrom(w, r)
  PROVE  \E i \in 1 .. Len(t) :
           /\ t[i] = o
           /\ \A j \in 1 .. Len(t) : t[j] \in S => i <= j /\ \A k \in i .. j : t[k] \in S
<1>1. /\ t \in Seq(Units) /\ Once(t) /\ Len(t) \in Nat
      /\ t # << >> => t[1] = w.next[r]
      /\ \A j \in 1 .. Len(t) - 1 : w.next[t[j]] = t[j + 1]
  BY ListLinks
<1>2. PICK i \in 1 .. Len(t) : t[i] = o
  BY ListLinks
<1>3. \A j \in 1 .. Len(t) : t[j] \in Units /\ t[j] \in Links
  BY <1>1, LinkTypes
<1>4. ASSUME NEW j \in 1 .. Len(t), t[j] \in S, j = 1 \/ t[j - 1] \notin S
      PROVE  j = i
  <2>1. t[j] = o
    <3>1. CASE j = 1
      BY <1>1, <1>4, <3>1, LinkTypes DEF Grouped
    <3>2. CASE j # 1
      <4>1. j - 1 \in 1 .. Len(t) - 1 /\ (j - 1) + 1 = j /\ j - 1 \in 1 .. Len(t)
        BY <1>1, <3>2
      <4>2. w.next[t[j - 1]] = t[j]
        BY <1>1, <4>1
      <4>3. t[j - 1] \in Links \ S
        BY <1>3, <1>4, <3>2, <4>1
      <4>. QED  BY <1>4, <4>2, <4>3 DEF Grouped
    <3>. QED  BY <3>1, <3>2
  <2>. QED  BY <1>1, <1>2, <2>1 DEF Once
<1>5. ASSUME NEW j \in 1 .. Len(t), t[j] \in S
      PROVE  i <= j
  <2> DEFINE T == {k \in 1 .. Len(t) : t[k] \in S}
  <2>1. PICK k \in T : \A y \in T : k <= y
    <3>1. T \subseteq Nat /\ T # {}
      BY <1>5
    <3>. HIDE DEF T
    <3>. QED  BY <3>1, MinOf
  <2>2. k = 1 \/ t[k - 1] \notin S
    <3>1. SUFFICES ASSUME k # 1, t[k - 1] \in S PROVE FALSE
      OBVIOUS
    <3>2. k - 1 \in 1 .. Len(t) /\ k - 1 < k
      BY <1>1, <3>1
    <3>3. k - 1 \in T
      BY <3>1, <3>2
    <3>. QED  BY <2>1, <3>2, <3>3
  <2>3. k = i
    BY <1>4, <2>1, <2>2
  <2>. QED  BY <1>5, <2>1, <2>3
<1>6. ASSUME NEW j \in 1 .. Len(t), t[j] \in S, NEW k \in i .. j, t[k] \notin S
      PROVE  FALSE
  <2> DEFINE T == {m \in k .. Len(t) : t[m] \in S}
  <2>1. PICK m \in T : \A y \in T : m <= y
    <3>1. T \subseteq Nat /\ j \in T
      BY <1>6
    <3>2. T # {}
      BY <3>1
    <3>. HIDE DEF T
    <3>. QED  BY <3>1, <3>2, MinOf
  <2>2. m \in 1 .. Len(t) /\ t[m] \in S /\ m # k /\ k < m /\ m - 1 \in k .. Len(t)
    BY <1>1, <1>6, <2>1
  <2>3. t[m - 1] \notin S
    <3>1. m - 1 \in T => m <= m - 1
      BY <2>1
    <3>2. m - 1 \notin T
      BY <2>2, <3>1
    <3>. QED  BY <2>2, <3>2
  <2>4. m = i
    BY <1>4, <2>2, <2>3
  <2>. QED  BY <1>6, <2>2, <2>4
<1>. QED  BY <1>2, <1>5, <1>6

-----------------------------------------------------------------------------
(* Those in a building or aboard a ship, and whoever is or will be in      *)
(* charge of it, as far as it does not depend on the order of the list     *)

Inside(w, x) == {u \in Units : x \in {w.building[u], w.ship[u]}}
Manning(w, x) == Inside(w, x) \cap w.living
Crew(w, x) == IF x \in Ships THEN Manning(w, x) ELSE Inside(w, x)

Rules(w, x) == w.owner[x] \in Inside(w, x) /\ (x \in Buildings => w.owner[x] \in w.living)

Prefers(w, x, f, o) == \A u \in Manning(w, x) : Faction[u] = f => Faction[o] = f

Fits(w, x, o) ==
  /\ o \in Manning(w, x) /\ (x \in Ships => x \in w.fleet)
  /\ IF Rules(w, x) THEN o = w.owner[x] ELSE Prefers(w, x, FactionOf(w.owner[x]), o)

LEMMA HeirFirst ==
  ASSUME NEW w, InLists(w), NEW x \in Places, NEW r \in Regions, w.berth[x] = r, NEW f,
         NEW o \in Manning(w, x), w.region[o] = r, Grouped(w.next, Crew(w, x), o), Prefers(w, x, f, o)
  PROVE  Heir(w, x, f) = o
<1> DEFINE S == {u \in w.living : x \in {w.building[u], w.ship[u]}}
           K == {u \in Units : Faction[u] = f}
<1>1. PICK t, inside, kin : t = ListFrom(w, r) /\ inside = Those(t, S) /\ kin = Those(inside, K)
  OBVIOUS
<1>2. w \in WorldType /\ w.living \subseteq Units
  BY WorldFields DEF InLists
<1>3. S = Manning(w, x) /\ S \subseteq Crew(w, x) /\ o \in Units /\ r \notin Crew(w, x) /\ r # None
  BY <1>2, LinkTypes DEF Manning, Crew, Inside
<1>4. PICK i \in 1 .. Len(t) : t[i] = o /\ \A j \in 1 .. Len(t) : t[j] \in Crew(w, x) => i <= j
  BY <1>1, <1>3, GroupedFirst
<1>5. t \in Seq(Units) /\ inside \in Seq(Units) /\ Range(inside) \subseteq S
  <2>1. t \in Seq(Units)
    BY <1>1, ListLinks
  <2>. HIDE DEF S
  <2>. QED  BY <1>1, <2>1, ThoseList
<1>6. inside # << >> /\ Head(inside) = o
  <2>1. t[i] \in S /\ \A j \in 1 .. Len(t) : t[j] \in S => i <= j
    BY <1>3, <1>4
  <2>2. Those(t, S) # << >> /\ Head(Those(t, S)) = t[i]
    <3>. HIDE DEF S
    <3>. QED  BY <1>5, <2>1, ThoseFirst
  <2>. QED  BY <1>1, <1>4, <2>2
<1>7. Heir(w, x, f) = IF kin # << >> THEN Head(kin) ELSE IF inside # << >> THEN Head(inside) ELSE None
  BY <1>1, <1>3 DEF Heir
<1>8. CASE Faction[o] = f
  <2>1. 1 \in 1 .. Len(inside) /\ inside[1] = o /\ o \in K /\ \A j \in 1 .. Len(inside) : 1 <= j
    BY <1>3, <1>5, <1>6, <1>8
  <2>2. Those(inside, K) # << >> /\ Head(Those(inside, K)) = inside[1]
    <3>. HIDE DEF S, K
    <3>. QED  BY <1>5, <2>1, ThoseFirst
  <2>. QED  BY <1>1, <1>7, <2>1, <2>2
<1>9. CASE Faction[o] # f
  <2>1. S \cap K = {}
    BY <1>3, <1>9 DEF Prefers
  <2>2. kin \in Seq(Units) /\ Range(kin) = Range(inside) \cap K
    <3>. HIDE DEF S, K
    <3>. QED  BY <1>1, <1>5, ThoseList
  <2>3. Range(kin) = {}
    BY <1>5, <2>1, <2>2
  <2>4. kin = << >>
    <3>1. kin # << >> => Range(kin) = Range(Tail(kin)) \cup {Head(kin)}
      BY <2>2, TailRange
    <3>. QED  BY <2>3, <3>1
  <2>. QED  BY <1>6, <1>7, <2>4
<1>. QED  BY <1>8, <1>9

LEMMA HeirFits ==
  ASSUME NEW w, InLists(w), NEW x \in Places, NEW r \in Regions, w.berth[x] = r, NEW f,
         Manning(w, x) # {}, \A u \in Manning(w, x) : w.region[u] = r
  PROVE  Heir(w, x, f) \in Manning(w, x) /\ Prefers(w, x, f, Heir(w, x, f))
<1> DEFINE S == {u \in w.living : x \in {w.building[u], w.ship[u]}}
           K == {u \in Units : Faction[u] = f}
<1>1. PICK t, inside, kin : t = ListFrom(w, r) /\ inside = Those(t, S) /\ kin = Those(inside, K)
  OBVIOUS
<1>2. w \in WorldType /\ w.living \subseteq Units /\ r # None
  BY WorldFields, LinkTypes DEF InLists
<1>3. S = Manning(w, x)
  BY <1>2 DEF Manning, Inside
<1>4. t \in Seq(Units) /\ Range(t) = {u \in Units : w.region[u] = r}
  BY <1>1, ListedHere
<1>5. inside \in Seq(Units) /\ Range(inside) = S
  <2>1. inside \in Seq(Units) /\ Range(inside) = Range(t) \cap S
    <3>. HIDE DEF S
    <3>. QED  BY <1>1, <1>4, ThoseList
  <2>2. S \subseteq Range(t)
    BY <1>2, <1>3, <1>4
  <2>. QED  BY <2>1, <2>2
<1>6. kin \in Seq(Units) /\ Range(kin) = S \cap K
  <2>1. Range(kin) = Range(inside) \cap K /\ kin \in Seq(Units)
    <3>. HIDE DEF S, K
    <3>. QED  BY <1>1, <1>5, ThoseList
  <2>. QED  BY <1>5, <2>1
<1>7. Heir(w, x, f) = IF kin # << >> THEN Head(kin) ELSE IF inside # << >> THEN Head(inside) ELSE None
  BY <1>1, <1>2 DEF Heir
<1>8. \A s \in Seq(Units) : s # << >> => Head(s) \in Range(s)
  BY TailRange
<1>9. kin # << >> => Heir(w, x, f) \in S \cap K
  BY <1>6, <1>7, <1>8
<1>10. kin = << >> => S \cap K = {} /\ Heir(w, x, f) \in S
  <2>1. inside # << >>
    BY <1>3, <1>5, RangeOne
  <2>2. kin = << >> => S \cap K = {}
    BY <1>6, RangeOne
  <2>3. Head(inside) \in S
    BY <1>5, <1>8, <2>1
  <2>. QED  BY <1>7, <2>1, <2>2, <2>3
<1>11. \A u \in S : Faction[u] = f <=> u \in K
  BY <1>2
<1>12. kin # << >> => Faction[Heir(w, x, f)] = f
  BY <1>9
<1>13. kin = << >> => \A u \in S : Faction[u] # f
  BY <1>10, <1>11
<1>. QED  BY <1>3, <1>9, <1>10, <1>12, <1>13 DEF Prefers

(* building_owner or ship_owner *)
Chief(w, x) == IF x \in Ships THEN ship_owner(w, x) ELSE building_owner(w, x)

LEMMA PlaceKinds ==
  ASSUME NEW w \in WorldType, NEW x \in Places
  PROVE  /\ x # None /\ (x \in Ships \/ x \in Buildings) /\ ~ (x \in Ships /\ x \in Buildings)
         /\ w.owner[x] \in OrNone(Units) /\ w.berth[x] \in OrNone(Regions)
         /\ x \in Buildings => Inside(w, x) = {u \in Units : w.building[u] = x}
         /\ x \in Ships => Inside(w, x) = {u \in Units : w.ship[u] = x}
         /\ Manning(w, x) \subseteq Crew(w, x) /\ Crew(w, x) \subseteq Inside(w, x)
         /\ Inside(w, x) \subseteq Units /\ None \notin Units
<1>1. /\ x # None /\ (x \in Ships \/ x \in Buildings) /\ ~ (x \in Ships /\ x \in Buildings) /\ None \notin Units
  BY LinkTypes DEF Places
<1>2. \A u \in Units : w.building[u] \in OrNone(Buildings) /\ w.ship[u] \in OrNone(Ships)
  BY WorldFields
<1>3. /\ x \in Buildings => Inside(w, x) = {u \in Units : w.building[u] = x}
      /\ x \in Ships => Inside(w, x) = {u \in Units : w.ship[u] = x}
  BY <1>1, <1>2 DEF Inside, OrNone
<1>. QED  BY <1>1, <1>3, WorldFields DEF Manning, Crew, Inside

LEMMA ChiefIs ==
  ASSUME NEW w \in WorldType, NEW x \in Places, x \in Ships => x \in w.fleet
  PROVE  /\ Rules(w, x) => Chief(w, x) = w.owner[x]
         /\ ~ Rules(w, x) =>
              LET h == Heir(w, x, FactionOf(w.owner[x])) IN h # None => Chief(w, x) = h
<1>1. PICK o, h : o = w.owner[x] /\ h = Heir(w, x, FactionOf(w.owner[x]))
  OBVIOUS
<1>2. CASE x \in Ships
  <2>1. Rules(w, x) <=> o # None /\ w.ship[o] = x
    BY <1>1, <1>2, PlaceKinds DEF Rules, OrNone
  <2>. QED  BY <1>1, <1>2, <2>1 DEF Chief, ship_owner
<1>3. CASE x \in Buildings
  <2>1. Rules(w, x) <=> Presides(w, x)
    BY <1>1, <1>3, PlaceKinds DEF Rules, OrNone, Presides
  <2>2. Chief(w, x) = building_owner(w, x)
    BY <1>3, PlaceKinds DEF Chief
  <2>3. h # None => building_owner_ex(w, x, FactionOf(w.owner[x])) = h
    BY <1>1 DEF building_owner_ex
  <2>. QED  BY <1>1, <2>1, <2>2, <2>3 DEF building_owner
<1>. QED  BY <1>2, <1>3, PlaceKinds

LEMMA ChiefFirst ==
  ASSUME NEW w, InLists(w), NEW x \in Places, NEW r \in Regions, w.berth[x] = r,
         NEW o, Fits(w, x, o), w.region[o] = r, Grouped(w.next, Crew(w, x), o)
  PROVE  Chief(w, x) = o
<1>1. w \in WorldType /\ o \in Manning(w, x) /\ o \in Units /\ o # None /\ (x \in Ships => x \in w.fleet)
  BY LinkTypes DEF InLists, Fits, Manning, Inside
<1>2. CASE Rules(w, x)
  BY <1>1, <1>2, ChiefIs DEF Fits
<1>3. CASE ~ Rules(w, x)
  <2>1. Prefers(w, x, FactionOf(w.owner[x]), o)
    BY <1>3 DEF Fits
  <2>2. Heir(w, x, FactionOf(w.owner[x])) = o
    BY <1>1, <2>1, HeirFirst
  <2>. QED  BY <1>1, <1>3, <2>2, ChiefIs
<1>. QED  BY <1>2, <1>3

LEMMA ChiefFits ==
  ASSUME NEW w, InLists(w), NEW x \in Places, NEW r \in Regions, w.berth[x] = r,
         NEW p, Fits(w, x, p), \A u \in Manning(w, x) : w.region[u] = r
  PROVE  Fits(w, x, Chief(w, x))
<1>1. w \in WorldType /\ p \in Manning(w, x) /\ (x \in Ships => x \in w.fleet)
  BY DEF InLists, Fits
<1>2. CASE Rules(w, x)
  <2>1. Chief(w, x) = w.owner[x] /\ p = w.owner[x]
    BY <1>1, <1>2, ChiefIs DEF Fits
  <2>. QED  BY <1>1, <1>2, <2>1 DEF Fits
<1>3. CASE ~ Rules(w, x)
  <2>1. PICK h : h = Heir(w, x, FactionOf(w.owner[x]))
    OBVIOUS
  <2>2. h \in Manning(w, x) /\ Prefers(w, x, FactionOf(w.owner[x]), h)
    BY <1>1, <2>1, HeirFits
  <2>3. h # None
    BY <2>2, LinkTypes DEF Manning, Inside
  <2>4. Chief(w, x) = h
    BY <1>1, <1>3, <2>1, <2>3, ChiefIs
  <2>. QED  BY <1>1, <1>3, <2>2, <2>4 DEF Fits
<1>. QED  BY <1>2, <1>3

-----------------------------------------------------------------------------
(* What a list shows after reorder_units *)

LedBy(w, next, x) == \A p : Fits(w, x, p) => \E o : Fits(w, x, o) /\ Grouped(next, Crew(w, x), o)

Led(w, x) == LedBy(w, w.next, x)

Arranged(w) == \A x \in Places : w.berth[x] # None => Led(w, x)

(* B is in front: none of those who belong to the places R, all of those   *)
(* of the places D where anybody can be in charge.                         *)
Drawn(w, t, B, R, D, r) ==
  /\ Draws(t, HomeOf(w), r) /\ Remain(w.next, t.next, {}, HomeOf(w), r)
  /\ r \in B /\ Upto(t.next, B, t.unext)
  /\ \A x \in R : Inside(w, x) \cap B = {}
  /\ \A x \in D : LedBy(w, t.next, x) /\ \A p : Fits(w, x, p) => Crew(w, x) \subseteq B

(* The units are where their places are. *)
Settled(w) == Whole(w) /\ \A u \in Units : Near(w, u)

LEMMA SettledHere ==
  ASSUME NEW w, Settled(w), NEW x \in Places
  PROVE  /\ \A u \in Inside(w, x) : w.region[u] = w.berth[x]
         /\ \A y \in Places \ {x} : Inside(w, x) \cap Inside(w, y) = {}
<1>1. w \in WorldType
  BY DEF Settled, Whole, Sound, InLists
<1>2. \A u \in Inside(w, x) : w.region[u] = w.berth[x]
  <2>1. x \in Buildings => \A u \in Inside(w, x) : w.region[u] = w.berth[x]
    BY <1>1, PlaceKinds DEF Settled, Near
  <2>2. x \in Ships => \A u \in Inside(w, x) : w.region[u] = w.berth[x]
    BY <1>1, PlaceKinds DEF Settled, Near
  <2>. QED  BY <1>1, <2>1, <2>2, PlaceKinds
<1>3. ASSUME NEW y \in Places \ {x}, NEW u \in Units, u \in Inside(w, x), u \in Inside(w, y)
      PROVE  FALSE
  <2>1. w.building[u] = None \/ w.ship[u] = None
    BY DEF Settled, Whole, Sound, Apart
  <2>2. x # None /\ y # None
    BY <1>1, PlaceKinds
  <2>. QED  BY <1>3, <2>1, <2>2 DEF Inside
<1>. QED  BY <1>2, <1>3 DEF Inside

(* The other loops leave those who were led as they were. *)
LEMMA DrawnOthers ==
  ASSUME NEW w, Settled(w), NEW r \in Regions, NEW t, NEW B, NEW R, NEW D, Drawn(w, t, B, R, D, r),
         NEW x, Draws(x, HomeOf(w), r), Remain(t.next, x.next, B, HomeOf(w), r)
  PROVE  /\ Remain(w.next, x.next, {}, HomeOf(w), r)
         /\ \A y \in D : LedBy(w, x.next, y)
<1>1. Remain(w.next, t.next, {}, HomeOf(w), r) /\ \A y \in D : LedBy(w, t.next, y) /\ \A p : Fits(w, y, p) => Crew(w, y) \subseteq B
  BY DEF Drawn
<1>2. Remain(t.next, x.next, {}, HomeOf(w), r)
  BY DEF Remain
<1>3. Remain(w.next, x.next, {}, HomeOf(w), r)
  BY <1>1, <1>2, RemainJoin
<1>4. ASSUME NEW y \in D, NEW p, Fits(w, y, p)
      PROVE  \E o : Fits(w, y, o) /\ Grouped(x.next, Crew(w, y), o)
  <2>1. PICK o : Fits(w, y, o) /\ Grouped(t.next, Crew(w, y), o)
    BY <1>1, <1>4 DEF LedBy
  <2>2. Crew(w, y) \subseteq B /\ Crew(w, y) \in SUBSET Units
    BY <1>1, <1>4 DEF Crew, Manning, Inside
  <2>3. Grouped(x.next, Crew(w, y), o)
    BY <2>1, <2>2 DEF Remain
  <2>. QED  BY <2>1, <2>3
<1>. QED  BY <1>3, <1>4 DEF LedBy

(* The world with another order of its lists *)
LEMMA Relisted ==
  ASSUME NEW w, Settled(w), NEW n \in Pointers, Chained(n, HomeOf(w)), NEW v, v = [w EXCEPT !.next = n]
  PROVE  /\ Settled(v) /\ v.next = n /\ v.region = w.region /\ v.berth = w.berth /\ v.owner = w.owner
         /\ v.living = w.living /\ v.fleet = w.fleet /\ v.building = w.building /\ v.ship = w.ship
         /\ HomeOf(v) = HomeOf(w)
         /\ \A x : Inside(v, x) = Inside(w, x) /\ Manning(v, x) = Manning(w, x) /\ Crew(v, x) = Crew(w, x)
         /\ \A x, o : Fits(v, x, o) <=> Fits(w, x, o)
<1>1. w \in WorldType
  BY DEF Settled, Whole, Sound, InLists
<1>2. /\ v.next = n /\ v.region = w.region /\ v.berth = w.berth /\ v.owner = w.owner
      /\ v.living = w.living /\ v.fleet = w.fleet /\ v.building = w.building /\ v.ship = w.ship
  BY <1>1 DEF WorldType
<1>3. Whole(v)
  BY WholeNext DEF Settled
<1>4. \A u \in Units : Near(v, u)
  BY <1>2 DEF Settled, Near
<1>5. \A x : Inside(v, x) = Inside(w, x)
  BY <1>2 DEF Inside
<1>6. \A x : Manning(v, x) = Manning(w, x) /\ Crew(v, x) = Crew(w, x)
  BY <1>2, <1>5 DEF Manning, Crew
<1>7. ASSUME NEW x, NEW o  PROVE Fits(v, x, o) <=> Fits(w, x, o)
  <2>1. Rules(v, x) <=> Rules(w, x)
    BY <1>2, <1>5 DEF Rules
  <2>2. Prefers(v, x, FactionOf(v.owner[x]), o) <=> Prefers(w, x, FactionOf(w.owner[x]), o)
    BY <1>2, <1>6 DEF Prefers
  <2>. QED  BY <1>2, <1>6, <2>1, <2>2 DEF Fits
<1>8. HomeOf(v) = HomeOf(w)
  BY <1>2 DEF HomeOf
<1>. QED  BY <1>2, <1>3, <1>4, <1>5, <1>6, <1>7, <1>8 DEF Settled

LEMMA DrawOne ==
  ASSUME NEW w, Settled(w), NEW r \in Regions, NEW t, NEW B, NEW R, R \subseteq Places, NEW D, D \subseteq Places, Drawn(w, t, B, R, D, r),
         NEW x \in R, w.berth[x] = r, NEW v, v = [w EXCEPT !.next = t.next], NEW owner, owner = Chief(v, x),
         NEW y, y = IF owner = None THEN t ELSE Gather(t, Crew(w, x), owner)
  PROVE  \E C : Drawn(w, y, C, R \ {x}, D \cup {x}, r)
<1>1. /\ Draws(t, HomeOf(w), r) /\ Remain(w.next, t.next, {}, HomeOf(w), r)
      /\ r \in B /\ Upto(t.next, B, t.unext)
      /\ \A z \in R : Inside(w, z) \cap B = {}
      /\ \A z \in D : LedBy(w, t.next, z) /\ \A p : Fits(w, z, p) => Crew(w, z) \subseteq B
  BY DEF Drawn
<1>2. x \in Places /\ w \in WorldType /\ HomeOf(w) \in Homes /\ \A u \in Units : HomeOf(w)[u] = w.region[u]
  BY WorldFields DEF Settled, Whole, Sound, InLists
<1>3. t.next \in Pointers /\ Chained(t.next, HomeOf(w))
  BY <1>1 DEF Draws, GatherType, Pointers
<1>4. /\ Settled(v) /\ v.next = t.next /\ v.region = w.region /\ v.berth = w.berth
      /\ Manning(v, x) = Manning(w, x) /\ Crew(v, x) = Crew(w, x)
      /\ \A o : Fits(v, x, o) <=> Fits(w, x, o)
  BY <1>3, Relisted
<1>5. InLists(v) /\ \A u \in Manning(v, x) : v.region[u] = r
  <2>1. \A u \in Inside(w, x) : w.region[u] = r
    BY <1>2, SettledHere
  <2>. QED  BY <1>4, <2>1 DEF Manning, Settled, Whole, Sound
<1>6. \A p : Fits(w, x, p) => Fits(w, x, owner)
  <2>1. SUFFICES ASSUME NEW p, Fits(w, x, p) PROVE Fits(w, x, owner)
    OBVIOUS
  <2>2. Fits(v, x, p) /\ v.berth[x] = r
    BY <1>4, <2>1
  <2>3. Fits(v, x, Chief(v, x))
    BY <1>2, <1>5, <2>2, ChiefFits
  <2>. QED  BY <1>4, <2>3
<1>7. /\ Manning(w, x) \subseteq Crew(w, x) /\ Crew(w, x) \subseteq Inside(w, x) /\ Inside(w, x) \subseteq Units
      /\ None \notin Units
  BY <1>2, PlaceKinds
<1>8. CASE owner = None
  <2>1. \A p : ~ Fits(w, x, p)
    BY <1>6, <1>7, <1>8 DEF Fits
  <2>2. LedBy(w, t.next, x)
    BY <2>1 DEF LedBy
  <2>3. Drawn(w, t, B, R \ {x}, D \cup {x}, r)
    BY <1>1, <2>1, <2>2 DEF Drawn
  <2>. QED  BY <1>8, <2>3
<1>9. CASE owner # None
  <2>1. y = Gather(t, Crew(w, x), owner)
    BY <1>9
  <2>2. PICK G : Fronts(y, t, B, Crew(w, x), owner, HomeOf(w), r, G)
    BY <1>1, <1>2, <2>1, GatherFront
  <2>3. Draws(y, HomeOf(w), r) /\ Remain(t.next, y.next, B, HomeOf(w), r)
    BY <2>2 DEF Fronts
  <2>4. Remain(w.next, y.next, {}, HomeOf(w), r) /\ \A z \in D : LedBy(w, y.next, z)
    BY <2>3, DrawnOthers
  <2>5. G = Crew(w, x)
    <3>1. \A u \in Crew(w, x) : w.region[u] = r /\ u \in Units
      BY <1>2, <1>7, SettledHere
    <3>2. Crew(w, x) \cap B = {}
      BY <1>1, <1>7
    <3>. QED  BY <1>2, <2>2, <3>1, <3>2 DEF Fronts
  <2>6. LedBy(w, y.next, x)
    <3>1. SUFFICES ASSUME NEW p, Fits(w, x, p) PROVE Fits(w, x, owner) /\ Grouped(y.next, Crew(w, x), owner)
      BY DEF LedBy
    <3>2. Fits(w, x, owner)
      BY <1>6, <3>1
    <3>3. owner \in Crew(w, x)
      BY <1>7, <3>2 DEF Fits
    <3>. QED  BY <2>2, <2>5, <3>2, <3>3 DEF Fronts
  <2>7. \A z \in R \ {x} : Inside(w, z) \cap (B \cup G) = {}
    <3>1. \A z \in R \ {x} : Inside(w, z) \cap Inside(w, x) = {}
      BY <1>2, SettledHere
    <3>. QED  BY <1>1, <1>7, <2>5, <3>1
  <2>8. \A z \in D \cup {x} : LedBy(w, y.next, z) /\ \A p : Fits(w, z, p) => Crew(w, z) \subseteq B \cup G
    BY <1>1, <2>4, <2>5, <2>6
  <2>9. Drawn(w, y, B \cup G, R \ {x}, D \cup {x}, r)
    BY <1>1, <2>2, <2>3, <2>4, <2>7, <2>8 DEF Drawn, Fronts
  <2>. QED  BY <2>9
<1>. QED  BY <1>8, <1>9

(* Those ashore *)
LEMMA DrawAshore ==
  ASSUME NEW w, Settled(w), NEW r \in Regions, NEW t, NEW B, NEW D, D \subseteq Places, Drawn(w, t, B, Ships, D, r),
         NEW y, y = Gather(t, {u \in w.living : w.ship[u] = None}, None)
  PROVE  \E C : Drawn(w, y, C, Ships, D, r)
<1>1. /\ Draws(t, HomeOf(w), r) /\ Remain(w.next, t.next, {}, HomeOf(w), r)
      /\ r \in B /\ Upto(t.next, B, t.unext)
      /\ \A z \in Ships : Inside(w, z) \cap B = {}
      /\ \A z \in D : LedBy(w, t.next, z) /\ \A p : Fits(w, z, p) => Crew(w, z) \subseteq B
  BY DEF Drawn
<1>2. w \in WorldType /\ HomeOf(w) \in Homes
  BY WorldFields DEF Settled, Whole, Sound, InLists
<1>3. PICK S : S = {u \in w.living : w.ship[u] = None}
  OBVIOUS
<1>4. PICK G : Fronts(y, t, B, S, None, HomeOf(w), r, G)
  BY <1>1, <1>2, <1>3, GatherFront
<1>5. Draws(y, HomeOf(w), r) /\ Remain(t.next, y.next, B, HomeOf(w), r)
  BY <1>4 DEF Fronts
<1>6. Remain(w.next, y.next, {}, HomeOf(w), r) /\ \A z \in D : LedBy(w, y.next, z)
  BY <1>5, DrawnOthers
<1>7. \A z \in Ships : Inside(w, z) \cap G = {}
  <2>1. \A z \in Ships : z \in Places /\ Inside(w, z) = {u \in Units : w.ship[u] = z} /\ z # None
    BY <1>2, PlaceKinds DEF Places
  <2>. QED  BY <1>3, <1>4, <2>1 DEF Fronts
<1>8. Drawn(w, y, B \cup G, Ships, D, r)
  BY <1>1, <1>4, <1>5, <1>6, <1>7 DEF Drawn, Fronts
<1>. QED  BY <1>8

LEMMA DrawBuilding ==
  ASSUME NEW w, Settled(w), NEW r \in Regions, NEW D0 \in SUBSET Buildings, \A b \in D0 : w.berth[b] = r,
         NEW R \in SUBSET D0, NEW b \in R, NEW t \in GatherType,
         NEW B, Drawn(w, t, B, R \cup Ships, D0 \ R, r)
  PROVE  \E C : Drawn(w, GatherBuilding(w, t, b), C, (R \ {b}) \cup Ships, D0 \ (R \ {b}), r)
<1>1. w \in WorldType /\ b \in Places /\ w.berth[b] = r /\ b \notin Ships
  BY LinkTypes DEF Places, Settled, Whole, Sound, InLists
<1>2. PICK v, owner, y : /\ v = [w EXCEPT !.next = t.next] /\ owner = Chief(v, b)
                         /\ y = IF owner = None THEN t ELSE Gather(t, Crew(w, b), owner)
  OBVIOUS
<1>3. Crew(w, b) = {u \in Units : w.building[u] = b} /\ owner = building_owner(v, b)
  BY <1>1, <1>2, PlaceKinds DEF Crew, Chief, Places
<1>4. GatherBuilding(w, t, b) = y
  BY <1>2, <1>3 DEF GatherBuilding
<1>5. PICK C : Drawn(w, y, C, (R \cup Ships) \ {b}, (D0 \ R) \cup {b}, r)
  <2>1. R \cup Ships \subseteq Places /\ D0 \ R \subseteq Places /\ b \in R \cup Ships
    BY DEF Places
  <2>. QED  BY <1>1, <1>2, <2>1, DrawOne
<1>6. (R \cup Ships) \ {b} = (R \ {b}) \cup Ships /\ (D0 \ R) \cup {b} = D0 \ (R \ {b})
  BY <1>1
<1>. QED  BY <1>4, <1>5, <1>6

LEMMA DrawShip ==
  ASSUME NEW w, Settled(w), NEW r \in Regions, NEW D0 \in SUBSET Buildings,
         NEW D1 \in SUBSET Ships, \A sh \in D1 : w.berth[sh] = r,
         NEW R \in SUBSET D1, NEW sh \in R, NEW t \in GatherType,
         NEW B, Drawn(w, t, B, R, D0 \cup (D1 \ R), r)
  PROVE  \E C : Drawn(w, GatherShip(w, t, sh), C, R \ {sh}, D0 \cup (D1 \ (R \ {sh})), r)
<1>1. w \in WorldType /\ sh \in Places /\ w.berth[sh] = r
  BY DEF Places, Settled, Whole, Sound, InLists
<1>2. PICK v, owner, y : /\ v = [w EXCEPT !.next = t.next] /\ owner = Chief(v, sh)
                         /\ y = IF owner = None THEN t ELSE Gather(t, Crew(w, sh), owner)
  OBVIOUS
<1>3. Crew(w, sh) = {u \in w.living : w.ship[u] = sh} /\ owner = ship_owner(v, sh)
  <2>1. Inside(w, sh) = {u \in Units : w.ship[u] = sh} /\ w.living \subseteq Units
    BY <1>1, PlaceKinds, WorldFields
  <2>. QED  BY <1>1, <1>2, <2>1 DEF Crew, Chief, Manning
<1>4. GatherShip(w, t, sh) = y
  BY <1>2, <1>3 DEF GatherShip
<1>5. PICK C : Drawn(w, y, C, R \ {sh}, (D0 \cup (D1 \ R)) \cup {sh}, r)
  <2>1. R \subseteq Places /\ D0 \cup (D1 \ R) \subseteq Places
    BY DEF Places
  <2>. QED  BY <1>1, <1>2, <2>1, DrawOne
<1>6. (D0 \cup (D1 \ R)) \cup {sh} = D0 \cup (D1 \ (R \ {sh}))
  OBVIOUS
<1>. QED  BY <1>4, <1>5, <1>6

(* reorder_units shows who is in charge of each place of the region, and   *)
(* leaves the lists of the others as they were.                            *)
Shown(w, n, D, r) ==
  /\ n \in Pointers /\ Chained(n, HomeOf(w)) /\ Remain(w.next, n, {}, HomeOf(w), r)
  /\ \A x \in D : LedBy(w, n, x)

LEMMA ReorderShows ==
  ASSUME NEW w, Settled(w), NEW r \in Regions, NEW bs \in Seq(Buildings), NEW shs \in Seq(Ships),
         Once(bs), Once(shs), \A x \in Range(bs) \cup Range(shs) : w.berth[x] = r
  PROVE  \E n : reorder_units(w, r, bs, shs) = [w EXCEPT !.next = n] /\ Shown(w, n, Range(bs) \cup Range(shs), r)
<1> DEFINE f == [t \in GatherType |-> [b \in Buildings |-> GatherBuilding(w, t, b)]]
           g == [t \in GatherType |-> [sh \in Ships |-> GatherShip(w, t, sh)]]
<1>1. w.next \in Pointers /\ HomeOf(w) \in Homes /\ HomeOf(w)[r] = r /\ Chained(w.next, HomeOf(w)) /\ r \in Links
  BY WorldFields DEF Settled, Whole, Sound, InLists
<1>2. PICK D0, D1 : D0 = Range(bs) /\ D1 = Range(shs) /\ D0 \in SUBSET Buildings /\ D1 \in SUBSET Ships
                    /\ (\A b \in D0 : w.berth[b] = r) /\ (\A sh \in D1 : w.berth[sh] = r)
  <2>1. Range(bs) \in SUBSET Buildings /\ Range(shs) \in SUBSET Ships
    BY DEF Range
  <2>. QED  BY <2>1
<1>3. PICK P, Q, s :
        /\ P = [R \in SUBSET Buildings |-> {t \in GatherType : R \in SUBSET D0 /\ \E B : Drawn(w, t, B, R \cup Ships, D0 \ R, r)}]
        /\ Q = [R \in SUBSET Ships |-> {t \in GatherType : R \in SUBSET D1 /\ \E B : Drawn(w, t, B, R, D0 \cup (D1 \ R), r)}]
        /\ s = [next |-> w.next, umove |-> r, unext |-> r]
  OBVIOUS
<1>4. s \in P[Range(bs)]
  <2>1. s \in GatherType /\ s.next = w.next /\ s.unext = r
    BY <1>1, <1>3 DEF GatherType, Pointers
  <2>2. Draws(s, HomeOf(w), r) /\ Remain(w.next, s.next, {}, HomeOf(w), r)
    BY <1>1, <2>1 DEF Draws, Remain
  <2>3. Upto(s.next, {r}, s.unext)
    <3>1. \A l \in Links : w.next[l] # r
      BY <1>1, LinkTypes DEF Pointers, OrNone
    <3>. QED  BY <1>1, <2>1, <3>1 DEF Upto
  <2>4. \A x \in D0 \cup Ships : Inside(w, x) \cap {r} = {}
    BY LinkTypes DEF Inside
  <2>5. Drawn(w, s, {r}, D0 \cup Ships, D0 \ D0, r)
    BY <2>2, <2>3, <2>4 DEF Drawn
  <2>. QED  BY <1>2, <1>3, <2>1, <2>5
<1>5. ASSUME NEW R \in SUBSET Buildings, NEW b \in R, NEW t \in P[R]
      PROVE  f[t][b] \in P[R \ {b}]
  <2>1. t \in GatherType /\ R \in SUBSET D0 /\ \E B : Drawn(w, t, B, R \cup Ships, D0 \ R, r)
    BY <1>3, <1>5
  <2>2. PICK C : Drawn(w, GatherBuilding(w, t, b), C, (R \ {b}) \cup Ships, D0 \ (R \ {b}), r)
    BY <1>2, <1>5, <2>1, DrawBuilding
  <2>3. f[t][b] = GatherBuilding(w, t, b) /\ GatherBuilding(w, t, b) \in GatherType
    BY <1>5, <2>1, <2>2 DEF Drawn, Draws
  <2>4. R \ {b} \in SUBSET Buildings /\ R \ {b} \in SUBSET D0
    BY <2>1
  <2>. HIDE DEF f
  <2>. QED  BY <1>3, <2>2, <2>3, <2>4
<1>6. PICK indoors : indoors = Along(f, s, bs) /\ indoors \in P[{}]
  <2>1. \A R \in SUBSET Buildings : \A b \in R, t \in P[R] : f[t][b] \in P[R \ {b}]
    BY <1>5
  <2>. HIDE DEF f
  <2>2. Along(f, s, bs) \in P[{}]
    BY <1>4, <2>1, AlongOnce
  <2>. QED  BY <2>2
<1>7. indoors \in GatherType /\ \E B : Drawn(w, indoors, B, Ships, D0, r)
  <2>1. {} \cup Ships = Ships /\ D0 \ {} = D0 /\ {} \in SUBSET Buildings
    OBVIOUS
  <2>. QED  BY <1>3, <1>6, <2>1
<1>8. PICK ashore : ashore = (IF shs = <<>> THEN indoors ELSE Gather(indoors, {u \in w.living : w.ship[u] = None}, None))
  OBVIOUS
<1>9. PICK B : Drawn(w, ashore, B, Ships, D0, r)
  <2>1. CASE shs = <<>>
    BY <1>7, <1>8, <2>1
  <2>2. CASE shs # <<>>
    <3>1. D0 \subseteq Places
      BY <1>2 DEF Places
    <3>2. ashore = Gather(indoors, {u \in w.living : w.ship[u] = None}, None)
      BY <1>8, <2>2
    <3>. QED  BY <1>7, <3>1, <3>2, DrawAshore
  <2>. QED  BY <2>1, <2>2
<1>10. ashore \in Q[Range(shs)]
  <2>1. Drawn(w, ashore, B, D1, D0, r)
    BY <1>2, <1>9 DEF Drawn
  <2>2. ashore \in GatherType
    BY <1>9 DEF Drawn, Draws
  <2>3. D0 \cup (D1 \ D1) = D0
    OBVIOUS
  <2>. QED  BY <1>2, <1>3, <2>1, <2>2, <2>3
<1>11. ASSUME NEW R \in SUBSET Ships, NEW sh \in R, NEW t \in Q[R]
      PROVE  g[t][sh] \in Q[R \ {sh}]
  <2>1. t \in GatherType /\ R \in SUBSET D1 /\ \E C : Drawn(w, t, C, R, D0 \cup (D1 \ R), r)
    BY <1>3, <1>11
  <2>2. PICK C : Drawn(w, GatherShip(w, t, sh), C, R \ {sh}, D0 \cup (D1 \ (R \ {sh})), r)
    BY <1>2, <1>11, <2>1, DrawShip
  <2>3. g[t][sh] = GatherShip(w, t, sh) /\ GatherShip(w, t, sh) \in GatherType
    BY <1>11, <2>1, <2>2 DEF Drawn, Draws
  <2>4. R \ {sh} \in SUBSET Ships /\ R \ {sh} \in SUBSET D1
    BY <2>1
  <2>. HIDE DEF g
  <2>. QED  BY <1>3, <2>2, <2>3, <2>4
<1>12. PICK afloat : afloat = Along(g, ashore, shs) /\ afloat \in Q[{}]
  <2>1. \A R \in SUBSET Ships : \A sh \in R, t \in Q[R] : g[t][sh] \in Q[R \ {sh}]
    BY <1>11
  <2>. HIDE DEF g
  <2>2. Along(g, ashore, shs) \in Q[{}]
    BY <1>10, <2>1, AlongOnce
  <2>. QED  BY <2>2
<1>13. reorder_units(w, r, bs, shs) = [w EXCEPT !.next = afloat.next]
  BY <1>3, <1>6, <1>8, <1>12 DEF reorder_units
<1>14. PICK C : Drawn(w, afloat, C, {}, D0 \cup D1, r)
  <2>1. D1 \ {} = D1 /\ {} \in SUBSET Ships
    OBVIOUS
  <2>. QED  BY <1>3, <1>12, <2>1
<1>15. Shown(w, afloat.next, D0 \cup D1, r)
  BY <1>14 DEF Drawn, Draws, Shown, Chained, GatherType, Pointers
<1>. QED  BY <1>2, <1>13, <1>15

(* The places of a region, as a list of all of them has them *)
LEMMA PlacesOf ==
  ASSUME NEW T, IsFiniteSet(T), NEW s \in SetToSeqs(T), NEW S, NEW t, t = Those(s, S)
  PROVE  t \in Seq(T) /\ Once(t) /\ Range(t) = T \cap S
<1>1. PICK n \in Nat : n = Cardinality(T) /\ ExistsBijection(1 .. n, T)
  BY FS_CardinalityType
<1>2. s \in [1 .. n -> T] /\ IsInjective(s)
  <2>1. s \in [1 .. n -> T] /\ \A i, j \in 1 .. n : i # j => s[i] # s[j]
    BY <1>1 DEF SetToSeqs
  <2>. QED  BY <2>1 DEF IsInjective
<1>3. s \in Seq(T) /\ Once(s) /\ Len(s) = n
  BY <1>2 DEF Once, IsInjective
<1>4. Range(s) = T
  <2>1. Range(s) \in SUBSET T /\ s \in [1 .. n -> Range(s)]
    BY <1>2 DEF Range
  <2>2. s \in Bijection(1 .. n, Range(s))
    BY <1>2, <2>1 DEF Bijection, Injection, Surjection, IsInjective, Range
  <2>3. ExistsBijection(1 .. n, Range(s))
    BY <2>2 DEF ExistsBijection
  <2>4. Cardinality(Range(s)) = n
    BY <2>3, FS_CountingElements
  <2>. QED  BY <1>1, <2>1, <2>4, FS_Subset
<1>. QED  BY <1>3, <1>4, ThoseList

(* init_reports shows who is in charge of every place. *)
LEMMA ReorderArranges ==
  ASSUME Settled(world), NEW bs \in SetToSeqs(Buildings), NEW shs \in SetToSeqs(Ships), Reorder(bs, shs)
  PROVE  Settled(world') /\ Arranged(world')
<1> DEFINE Of(s, r) == Those(s, {x \in Places : world.berth[x] = r})
           f == [w \in WorldType |-> [r \in Regions |-> reorder_units(w, r, Of(bs, r), Of(shs, r))]]
<1>1. world' = Along(f, world, SetToSeq(Regions))
  BY DEF Reorder
<1>2. IsFiniteSet(Buildings) /\ IsFiniteSet(Ships) /\ IsFiniteSet(Regions)
  BY LinkTypes
<1>3. ASSUME NEW r \in Regions
      PROVE  /\ Of(bs, r) \in Seq(Buildings) /\ Once(Of(bs, r)) /\ Of(shs, r) \in Seq(Ships) /\ Once(Of(shs, r))
             /\ Range(Of(bs, r)) \cup Range(Of(shs, r)) = {x \in Places : world.berth[x] = r}
  <2>1. PICK S : S = {x \in Places : world.berth[x] = r}
    OBVIOUS
  <2>2. /\ Those(bs, S) \in Seq(Buildings) /\ Once(Those(bs, S)) /\ Range(Those(bs, S)) = Buildings \cap S
        /\ Those(shs, S) \in Seq(Ships) /\ Once(Those(shs, S)) /\ Range(Those(shs, S)) = Ships \cap S
    BY <1>2, PlacesOf
  <2>3. (Buildings \cap S) \cup (Ships \cap S) = S
    BY <2>1 DEF Places
  <2>. QED  BY <2>1, <2>2, <2>3
<1> HIDE DEF Of
<1>4. PICK home : home = HomeOf(world) /\ home \in Homes /\ world \in WorldType
                  /\ Chained(world.next, home) /\ world.next \in Pointers
  BY WorldFields DEF Settled, Whole, Sound, InLists
<1>5. PICK Q : Q = [R \in SUBSET Regions |->
                {w \in WorldType : \E n \in Pointers :
                   /\ Chained(n, home) /\ w = [world EXCEPT !.next = n]
                   /\ \A x \in Places : world.berth[x] \in Regions \ R => LedBy(world, n, x)}]
  OBVIOUS
<1>6. world \in Q[Regions]
  <2>1. world = [world EXCEPT !.next = world.next]
    BY <1>4 DEF WorldType
  <2>. QED  BY <1>4, <1>5, <2>1
<1>7. ASSUME NEW R \in SUBSET Regions, NEW r \in R, NEW w \in Q[R]
      PROVE  f[w][r] \in Q[R \ {r}]
  <2>1. PICK n \in Pointers :
                   /\ w \in WorldType /\ Chained(n, home) /\ w = [world EXCEPT !.next = n]
                   /\ \A x \in Places : world.berth[x] \in Regions \ R => LedBy(world, n, x)
    BY <1>5, <1>7
  <2>2. /\ Settled(w) /\ w.next = n /\ w.berth = world.berth /\ HomeOf(w) = home
        /\ \A x : Crew(w, x) = Crew(world, x)
        /\ \A x, o : Fits(w, x, o) <=> Fits(world, x, o)
    BY <1>4, <2>1, Relisted
  <2>3. PICK cs, ss, D : cs = Of(bs, r) /\ ss = Of(shs, r) /\ D = {x \in Places : world.berth[x] = r}
    OBVIOUS
  <2>4. cs \in Seq(Buildings) /\ Once(cs) /\ ss \in Seq(Ships) /\ Once(ss) /\ Range(cs) \cup Range(ss) = D
    BY <1>3, <1>7, <2>3
  <2>5. PICK m : reorder_units(w, r, cs, ss) = [w EXCEPT !.next = m] /\ Shown(w, m, D, r)
    <3>1. \A x \in D : w.berth[x] = r
      BY <2>2, <2>3
    <3>. QED  BY <1>7, <2>2, <2>4, <3>1, ReorderShows
  <2>6. /\ m \in Pointers /\ Chained(m, home) /\ Remain(n, m, {}, home, r)
        /\ \A x \in D : LedBy(w, m, x)
    BY <2>2, <2>5 DEF Shown
  <2>7. PICK v : v = [w EXCEPT !.next = m] /\ v \in WorldType
    <3>1. Settled([w EXCEPT !.next = m])
      BY <2>2, <2>6, Relisted
    <3>. QED  BY <3>1 DEF Settled, Whole, Sound, InLists
  <2>8. v = [world EXCEPT !.next = m]
    BY <1>4, <2>1, <2>7 DEF WorldType
  <2>9. ASSUME NEW x \in Places, world.berth[x] \in Regions \ (R \ {r})
        PROVE  LedBy(world, m, x)
    <3>1. CASE world.berth[x] = r
      <4>1. LedBy(w, m, x)
        BY <2>3, <2>6, <3>1
      <4>. QED  BY <2>2, <4>1 DEF LedBy
    <3>2. CASE world.berth[x] # r
      <4>1. LedBy(world, n, x)
        BY <2>1, <2>9, <3>2
      <4>2. Crew(world, x) \in SUBSET Units /\ \A u \in Crew(world, x) : home[u] # r
        <5>1. Crew(world, x) \subseteq Inside(world, x) /\ Inside(world, x) \subseteq Units
          BY <1>4, PlaceKinds
        <5>2. \A u \in Inside(world, x) : world.region[u] = world.berth[x]
          BY SettledHere
        <5>3. \A u \in Units : home[u] = world.region[u]
          BY <1>4, WorldFields
        <5>. QED  BY <3>2, <5>1, <5>2, <5>3
      <4>3. \A o : Grouped(n, Crew(world, x), o) => Grouped(m, Crew(world, x), o)
        BY <2>6, <4>2 DEF Remain
      <4>. QED  BY <4>1, <4>3 DEF LedBy
    <3>. QED  BY <3>1, <3>2
  <2>10. f[w][r] = v
    BY <1>7, <2>1, <2>3, <2>5, <2>7
  <2>11. R \ {r} \in SUBSET Regions
    OBVIOUS
  <2>12. v \in Q[R \ {r}]
    BY <1>5, <2>6, <2>7, <2>8, <2>9, <2>11
  <2>. HIDE DEF f
  <2>. QED  BY <2>10, <2>12
<1>8. world' \in Q[{}]
  <2>1. \A R \in SUBSET Regions : \A r \in R, w \in Q[R] : f[w][r] \in Q[R \ {r}]
    BY <1>7
  <2>. HIDE DEF f
  <2>2. Along(f, world, SetToSeq(Regions)) \in Q[{}]
    BY <1>2, <1>6, <2>1, AlongSet
  <2>. QED  BY <1>1, <2>2
<1>9. PICK n \in Pointers :
                   /\ Chained(n, home) /\ world' = [world EXCEPT !.next = n]
                   /\ \A x \in Places : world.berth[x] \in Regions => LedBy(world, n, x)
  BY <1>5, <1>8
<1>10. PICK v : v = world'
  OBVIOUS
<1>11. /\ Settled(v) /\ v.next = n /\ v.berth = world.berth
       /\ \A x : Crew(v, x) = Crew(world, x)
       /\ \A x, o : Fits(v, x, o) <=> Fits(world, x, o)
  BY <1>4, <1>9, <1>10, Relisted
<1>12. Arranged(v)
  <2>1. SUFFICES ASSUME NEW x \in Places, v.berth[x] # None PROVE LedBy(v, n, x)
    BY <1>11 DEF Arranged, Led
  <2>2. world.berth[x] \in Regions
    BY <1>4, <1>11, <2>1, WorldFields DEF OrNone
  <2>3. LedBy(world, n, x)
    BY <1>9, <2>2
  <2>. QED  BY <1>11, <2>3 DEF LedBy
<1>. QED  BY <1>10, <1>11, <1>12

-----------------------------------------------------------------------------
(* Owners come first *)

(* The owner of a region lives in its castle. *)
LEMMA CastleOwnerIs ==
  ASSUME NEW w \in WorldType, NEW r, NEW h \in Units, castle_owner(w, r) = h
  PROVE  \E c \in Castles : w.berth[c] = r /\ w.building[h] = c /\ h \in w.living
<1>1. ~ \A d \in Castles : w.berth[d] # r
  BY LinkTypes DEF castle_owner
<1>2. PICK c : c = (CHOOSE d \in Castles : w.berth[d] = r) /\ c \in Castles /\ w.berth[c] = r
  BY <1>1
<1>3. c \in Buildings /\ c \in Places
  BY <1>2, PlacementAssumption DEF Places
<1>4. castle_owner(w, r) = IF Presides(w, c) THEN w.owner[c] ELSE Heir(w, c, FactionOf(w.owner[c]))
  BY <1>1, <1>2 DEF castle_owner
<1>5. CASE Presides(w, c)
  BY <1>2, <1>4, <1>5 DEF Presides
<1>6. CASE ~ Presides(w, c)
  <2>1. h \in Inside(w, c) /\ h \in w.living
    BY <1>3, <1>4, <1>6, HeirInside DEF Inside
  <2>2. w.building[h] = c
    BY <1>3, <2>1, PlaceKinds
  <2>. QED  BY <1>2, <2>1, <2>2
<1>. QED  BY <1>5, <1>6

(* Whoever is inside a building and in charge of it lives. *)
LEMMA BuildingOwnerLives ==
  ASSUME NEW w \in WorldType, NEW b \in Buildings, NEW h \in Units, building_owner(w, b) = h, w.building[h] = b
  PROVE  h \in Manning(w, b)
<1>1. b \in Places /\ h \in Inside(w, b)
  <2>1. b \in Places
    BY DEF Places
  <2>. QED  BY <2>1, PlaceKinds
<1>2. CASE Presides(w, b)
  BY <1>1, <1>2 DEF building_owner, Presides, Manning
<1>3. CASE ~ Presides(w, b)
  <2>1. PICK f : f = FactionOf(w.owner[b])
    OBVIOUS
  <2>2. building_owner(w, b) = building_owner_ex(w, b, f)
    BY <1>3, <2>1 DEF building_owner
  <2>3. CASE Heir(w, b, f) = h
    BY <1>1, <2>3, HeirInside DEF Manning
  <2>4. CASE Heir(w, b, f) # h
    <3>1. Heir(w, b, f) = None /\ b \in PayBuildings /\ castle_owner(w, w.berth[b]) = h
      BY <2>2, <2>4, LinkTypes DEF building_owner_ex
    <3>2. PICK c \in Castles : w.building[h] = c
      BY <3>1, CastleOwnerIs
    <3>. QED  BY <3>1, <3>2, PlacementAssumption
  <2>. QED  BY <2>3, <2>4
<1>. QED  BY <1>2, <1>3

(* Where somebody alive is in charge, it is who stands first. *)
LEMMA ChiefLeads ==
  ASSUME NEW w, Settled(w), Arranged(w), NEW x \in Places, NEW r \in Regions, w.berth[x] = r,
         x \in Ships => x \in w.fleet, Chief(w, x) \in Manning(w, x)
  PROVE  Fits(w, x, Chief(w, x)) /\ Grouped(w.next, Crew(w, x), Chief(w, x))
<1>1. w \in WorldType /\ InLists(w)
  BY DEF Settled, Whole, Sound, InLists
<1>2. \A u \in Manning(w, x) : w.region[u] = r
  BY <1>1, SettledHere, PlaceKinds
<1>3. \E p : Fits(w, x, p)
  <2>1. CASE Rules(w, x)
    <3>1. Chief(w, x) = w.owner[x]
      BY <1>1, <2>1, ChiefIs
    <3>. QED  BY <2>1, <3>1 DEF Fits
  <2>2. CASE ~ Rules(w, x)
    <3>1. PICK h : h = Heir(w, x, FactionOf(w.owner[x]))
      OBVIOUS
    <3>2. h \in Manning(w, x) /\ Prefers(w, x, FactionOf(w.owner[x]), h)
      BY <1>1, <1>2, <3>1, HeirFits
    <3>. QED  BY <2>2, <3>2 DEF Fits
  <2>. QED  BY <2>1, <2>2
<1>4. PICK o : Fits(w, x, o) /\ Grouped(w.next, Crew(w, x), o)
  BY <1>1, <1>3, LinkTypes DEF Arranged, Led, LedBy
<1>5. w.region[o] = r
  BY <1>2, <1>4 DEF Fits
<1>6. Chief(w, x) = o
  BY <1>1, <1>4, <1>5, ChiefFirst
<1>. QED  BY <1>4, <1>6

LEMMA GroupTogether ==
  ASSUME InLists(world), NEW r \in Regions, NEW S \in SUBSET Units, \A u \in S : world.region[u] = r,
         NEW o \in S, Grouped(world.next, S, o)
  PROVE  Together(S, o)
<1>1. PICK t : t = ListFrom(world, r)
  OBVIOUS
<1>2. /\ t \in Seq(Units) /\ Once(t) /\ Len(t) \in Nat
      /\ \A u \in Units : world.region[u] = r <=> \E i \in 1 .. Len(t) : t[i] = u
  BY <1>1, ListLinks
<1>3. r \notin S /\ world.region[o] = r /\ o \in Units
  BY LinkTypes
<1>4. PICK i \in 1 .. Len(t) :
        /\ t[i] = o
        /\ \A j \in 1 .. Len(t) : t[j] \in S => i <= j /\ \A k \in i .. j : t[k] \in S
  BY <1>1, <1>3, GroupedFirst
<1>5. ASSUME NEW u \in S
      PROVE  Position(u) \in 1 .. Len(t) /\ t[Position(u)] = u
  <2>1. Position(u) = CHOOSE k \in 1 .. Len(t) : t[k] = u
    BY <1>1, <1>2, <1>5 DEF Position
  <2>2. \E k \in 1 .. Len(t) : t[k] = u
    BY <1>2, <1>5
  <2>. QED  BY <2>1, <2>2
<1>6. Position(o) = i
  BY <1>2, <1>4, <1>5 DEF Once
<1>7. ASSUME NEW u \in S
      PROVE  i <= Position(u) /\ Position(u) < i + Cardinality(S)
  <2>1. PICK j \in 1 .. Len(t) : j = Position(u) /\ t[j] = u
    BY <1>5, <1>7
  <2>2. i <= j /\ \A k \in i .. j : t[k] \in S
    BY <1>4, <1>7, <2>1
  <2>3. PICK n, s : n = j - i + 1 /\ s = [k \in 1 .. n |-> t[k + i - 1]]
    OBVIOUS
  <2>4. n \in Nat /\ \A k \in 1 .. n : k + i - 1 \in i .. j /\ k + i - 1 \in 1 .. Len(t)
    BY <1>2, <1>4, <2>2, <2>3
  <2>5. s \in [1 .. n -> S]
    BY <2>2, <2>3, <2>4
  <2>6. s \in Seq(S) /\ s \in Seq(Units) /\ Len(s) = n /\ Range(s) \in SUBSET S
    <3>1. s \in Seq(S) /\ Len(s) = n /\ s \in [1 .. n -> Units]
      BY <2>4, <2>5
    <3>2. s \in Seq(Units)
      BY <2>4, <3>1
    <3>. QED  BY <2>5, <3>1, <3>2 DEF Range
  <2>7. Once(s)
    <3>1. ASSUME NEW a \in 1 .. n, NEW b \in 1 .. n, t[a + i - 1] = t[b + i - 1]
          PROVE  a + i - 1 = b + i - 1
      <4>1. PICK c, d : c = a + i - 1 /\ d = b + i - 1
        OBVIOUS
      <4>2. c \in 1 .. Len(t) /\ d \in 1 .. Len(t)
        BY <2>4, <4>1
      <4>3. \A k, l \in 1 .. Len(t) : t[k] = t[l] => k = l
        BY <1>2 DEF Once
      <4>. QED  BY <3>1, <4>1, <4>2, <4>3
    <3>2. \A a, b \in 1 .. n : s[a] = s[b] => a = b
      <4>1. SUFFICES ASSUME NEW a \in 1 .. n, NEW b \in 1 .. n, s[a] = s[b] PROVE a = b
        OBVIOUS
      <4>2. a + i - 1 = b + i - 1
        BY <2>3, <3>1, <4>1
      <4>. QED  BY <1>2, <1>4, <2>4, <4>2
    <3>. QED  BY <2>6, <3>2 DEF Once
  <2>8. Cardinality(Range(s)) = n
    BY <2>6, <2>7, OnceLength
  <2>9. IsFiniteSet(S) /\ Cardinality(S) \in Nat
    BY LinkTypes, FS_Subset, FS_CardinalityType
  <2>10. n <= Cardinality(S)
    BY <2>6, <2>8, <2>9, FS_Subset
  <2>. QED  BY <1>4, <2>1, <2>2, <2>3, <2>9, <2>10
<1>. QED  BY <1>6, <1>7 DEF Together

LEMMA ArrangedFirst ==
  ASSUME Settled(world), Arranged(world)
  PROVE  OwnersComeFirst
<1>1. world \in WorldType /\ InLists(world)
  BY DEF Settled, Whole, Sound, InLists
<1>2. ASSUME NEW x \in Places, NEW r \in Regions, world.berth[x] = r, x \in Ships => x \in world.fleet,
             Chief(world, x) \in Manning(world, x)
      PROVE  Together(Crew(world, x), Chief(world, x))
  <2>1. Grouped(world.next, Crew(world, x), Chief(world, x))
    BY <1>2, ChiefLeads
  <2>2. Crew(world, x) \in SUBSET Units /\ Chief(world, x) \in Crew(world, x)
        /\ \A u \in Crew(world, x) : world.region[u] = r
    BY <1>1, <1>2, PlaceKinds, SettledHere
  <2>. QED  BY <1>1, <2>1, <2>2, GroupTogether
<1>3. ASSUME NEW b \in Buildings, NEW o, o = (IF world.berth[b] = None THEN None ELSE building_owner(world, b)),
             o # None, world.building[o] = b
      PROVE  Together({u \in Units : world.building[u] = b}, o)
  <2>1. b \in Places /\ b \notin Ships /\ world.berth[b] \in Regions /\ o = building_owner(world, b) /\ o = Chief(world, b)
    BY <1>1, <1>3, WorldFields, LinkTypes DEF Places, OrNone, Chief
  <2>2. o \in Units
    BY <1>1, <1>3, <2>1, BuildingOwner DEF OrNone
  <2>3. o \in Manning(world, b)
    BY <1>1, <1>3, <2>1, <2>2, BuildingOwnerLives
  <2>4. Crew(world, b) = {u \in Units : world.building[u] = b}
    BY <1>1, <2>1, PlaceKinds DEF Crew
  <2>. QED  BY <1>2, <2>1, <2>3, <2>4
<1>4. ASSUME NEW sh \in world.fleet, NEW o, o = ship_owner(world, sh), o \in world.living
      PROVE  Together({u \in world.living : world.ship[u] = sh}, o)
  <2>1. sh \in Ships /\ world.living \in SUBSET Units
    BY <1>1, WorldFields
  <2>2. sh \in Places /\ world.berth[sh] \in Regions /\ o = Chief(world, sh)
    <3>1. world.berth[sh] # None
      BY DEF Settled, Whole, Sound, Afloat
    <3>. QED  BY <1>1, <1>4, <2>1, <3>1, WorldFields DEF Places, OrNone, Chief
  <2>3. o \in Manning(world, sh)
    BY <1>1, <1>4, <2>1, ShipOwner DEF Manning, Inside
  <2>4. Crew(world, sh) = {u \in world.living : world.ship[u] = sh}
    BY <1>1, <2>1, <2>2, PlaceKinds DEF Crew, Manning
  <2>. QED  BY <1>2, <1>4, <2>2, <2>3, <2>4
<1>. QED  BY <1>3, <1>4 DEF OwnersComeFirst

(* Only reorder_units leads to a list that is arranged. *)
LEMMA NotReordered ==
  ASSUME IInv, Next, ~ \E bs \in SetToSeqs(Buildings), shs \in SetToSeqs(Ships) : Reorder(bs, shs)
  PROVE  phase' # "reordered"
<1>1. ASSUME NEW w, Handle(w)
      PROVE  phase' # "reordered"
  BY <1>1 DEF Handle, Ordering
<1>2. ASSUME NEW u \in Units, NEW r \in Regions, NEW c \in OrNone(Units), NEW manned \in BOOLEAN, CreateUnit(u, r, c, manned)
      PROVE  phase' # "reordered"
  BY <1>1, <1>2, Zenon DEF CreateUnit
<1>3. ASSUME NEW u \in Units, Die(u)
      PROVE  phase' # "reordered"
  <2>1. phase \in {"orders", "ended"} /\ phase' = phase
    BY <1>3 DEF Die, Ordering
  <2>. QED  BY <2>1
<1>4. ASSUME NEW u \in Units, NEW v \in Units, NEW all \in BOOLEAN, GiveMen(u, v, all)
      PROVE  phase' # "reordered"
  BY <1>1, <1>4, Zenon DEF GiveMen
<1>5. ASSUME NEW r \in Regions, Sweep(r)
      PROVE  phase' # "reordered"
  BY <1>1, <1>5, Zenon DEF Sweep
<1>6. ASSUME NEW u \in Units, Leave(u)
      PROVE  phase' # "reordered"
  BY <1>1, <1>6, Zenon DEF Leave
<1>7. ASSUME NEW u \in Units, NEW b \in Buildings, Build(u, b)
      PROVE  phase' # "reordered"
  BY <1>1, <1>7, Zenon DEF Build
<1>8. ASSUME NEW u \in Units, NEW sh \in Ships, CreateShip(u, sh)
      PROVE  phase' # "reordered"
  BY <1>1, <1>8, Zenon DEF CreateShip
<1>9. ASSUME NEW x \in Places, Destroy(x)
      PROVE  phase' # "reordered"
  BY <1>1, <1>9, Zenon DEF Destroy
<1>10. ASSUME NEW u \in Units, NEW v \in Units, GiveControl(u, v)
       PROVE  phase' # "reordered"
  BY <1>1, <1>10, Zenon DEF GiveControl
<1>11. ASSUME NEW u \in Units, NEW v \in OrNone(Units), NEW all \in BOOLEAN, NEW sh \in Ships, GiveShip(u, v, all, sh)
       PROVE  phase' # "reordered"
  BY <1>1, <1>11, Zenon DEF GiveShip
<1>12. ASSUME NEW r \in Regions, SinkShips(r)
       PROVE  phase' # "reordered"
  BY <1>1, <1>12, Zenon DEF SinkShips
<1>13. ASSUME NEW u \in Units, NEW r \in Regions, Travel(u, r)
       PROVE  phase' # "reordered"
  BY <1>1, <1>13, Zenon DEF Travel
<1>14. ASSUME NEW sh \in Ships, NEW r \in Regions, Sail(sh, r)
       PROVE  phase' # "reordered"
  BY <1>1, <1>14, Zenon DEF Sail
<1>15. ASSUME NEW r \in Regions, NEW s \in Regions, DriftIceberg(r, s)
       PROVE  phase' # "reordered"
  BY <1>1, <1>15, Zenon DEF DriftIceberg
<1>16. ASSUME NEW b \in Buildings, NEW r \in Regions, NEW stay \in SUBSET Units, Wormhole(b, r, stay)
       PROVE  phase' # "reordered"
  BY <1>1, <1>16, Zenon DEF Wormhole
<1>17. ASSUME NEW r \in Regions, NEW s \in Regions, NEW resist \in SUBSET Units, DisruptAstral(r, s, resist)
       PROVE  phase' # "reordered"
  BY <1>1, <1>17, Zenon DEF DisruptAstral
<1>18. ASSUME NEW op, NEW r \in Regions, Begin(op, r)
       PROVE  phase' # "reordered"
  <2>1. phase = "orders" /\ phase' = phase
    BY <1>18 DEF Begin, Ordering
  <2>. QED  BY <2>1
<1>19. ASSUME Step
       PROVE  phase' # "reordered"
  <2>1. pass.op # "none" /\ phase' = phase
    <3>1. ASSUME NEW x \in Places, Enter(x)
          PROVE  pass.op = "enter" /\ phase' = phase
      BY <3>1, Zenon DEF Enter, Running
    <3>2. ASSUME NEW v \in Units, SortAfter(v)
          PROVE  pass.op = "sort" /\ phase' = phase
      <4>1. MaySort(v) /\ phase' = phase
        BY <3>2, Zenon DEF SortAfter
      <4>. QED  BY <4>1, Zenon DEF MaySort, Running
    <3>3. ASSUME NEW v \in Units, SortBefore(v)
          PROVE  pass.op = "sort" /\ phase' = phase
      <4>1. MaySort(v) /\ phase' = phase
        BY <3>3, Zenon DEF SortBefore
      <4>. QED  BY <4>1, Zenon DEF MaySort, Running
    <3>4. Pass \/ EndPass => pass.op # "none" /\ phase' = phase
      BY DEF Pass, EndPass
    <3>. QED  BY <1>19, <3>1, <3>2, <3>3, <3>4 DEF Step
  <2>2. phase = "orders"
    BY <2>1 DEF IInv, PassOK
  <2>. QED  BY <2>1, <2>2
<1>20. TurnEnd \/ Reports \/ Reload => phase' # "reordered"
  <2>1. TurnEnd => phase' = "ended"
    BY Zenon DEF TurnEnd
  <2>2. Reports => phase' = "reported"
    BY Zenon DEF Reports
  <2>3. Reload => phase' = "orders"
    BY Zenon DEF Reload
  <2>. QED  BY <2>1, <2>2, <2>3
<1>. QED
  BY <1>2, <1>3, <1>4, <1>5, <1>6, <1>7, <1>8, <1>9, <1>10, <1>11, <1>12, <1>13, <1>14, <1>15, <1>16,
     <1>17, <1>18, <1>19, <1>20, Zenon DEF Next

(* The list tells the owner from the others: after init_reports the units  *)
(* of each building and each manned ship stand together, the owner first,  *)
(* however many they are and whoever entered or sorted, if a wormhole or   *)
(* the astral plane never moves an owner who may not leave.                *)
THEOREM OwnersLead ==
  ASSUME Strict
  PROVE  Spec => []OwnersComeFirst
<1> DEFINE OInv == IInv /\ (phase = "reordered" => Arranged(world))
<1>1. IInv => Settled(world)
  BY Here0 DEF Settled
<1>2. Init => OInv
  BY PlacementInit DEF Init
<1>3. OInv /\ [Next]_vars => OInv'
  <2>1. SUFFICES ASSUME OInv, [Next]_vars, phase' = "reordered"
                 PROVE  Arranged(world')
    BY PlacementNext
  <2>2. CASE \E bs \in SetToSeqs(Buildings), shs \in SetToSeqs(Ships) : Reorder(bs, shs)
    BY <1>1, <2>1, <2>2, ReorderArranges
  <2>3. CASE Next /\ ~ \E bs \in SetToSeqs(Buildings), shs \in SetToSeqs(Ships) : Reorder(bs, shs)
    BY <2>1, <2>3, NotReordered
  <2>4. CASE UNCHANGED vars
    BY <2>1, <2>4 DEF vars
  <2>. QED  BY <2>1, <2>2, <2>3, <2>4
<1>4. OInv => OwnersComeFirst
  <2>1. phase # "reordered" => OwnersComeFirst
    BY DEF OwnersComeFirst
  <2>. QED  BY <1>1, <2>1, ArrangedFirst
<1>. QED  BY <1>2, <1>3, <1>4, PTL DEF Spec
=============================================================================
