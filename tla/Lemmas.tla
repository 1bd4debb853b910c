------------------------------- MODULE Lemmas --------------------------------
(***************************************************************************)
(* Facts about the operators the models share: sums over finite sets, and  *)
(* what is left of a list of which some positions are picked (Lists).      *)
(*                                                                         *)
(* MapThenSumSet takes an element out of the set, adds the sum over the    *)
(* rest, and is defined by a recursive function; here its value is shown   *)
(* to be independent of the elements picked, by induction over the finite  *)
(* sets: a set of subsets of a finite set has a smallest member.           *)
(***************************************************************************)
EXTENDS Lists, FiniteSetsExt, Functions, FiniteSetTheorems, WellFoundedInduction, TLAPS

(* The sum of n[x] for the x of S *)
SumOf(n, S) == MapThenSumSet(LAMBDA x : n[x], S)

(* The other way to write it *)
LEMMA SumIsSum ==
  ASSUME NEW n, NEW S
  PROVE  SumFunctionOnSet(n, S) = SumOf(n, S)
BY DEF SumFunctionOnSet, FoldFunctionOnSet, SumOf, MapThenSumSet

(* The element that is taken out first *)
Pick(s) == CHOOSE x \in s : TRUE

(* g is the recursive function behind the sums over the subsets of S. *)
Adds(g, n, S) ==
  g = [s \in SUBSET S |-> IF s = {} THEN 0 ELSE n[Pick(s)] + g[s \ {Pick(s)}]]

(* The sum is the value of that function. *)
LEMMA SumIsFold ==
  ASSUME NEW n, NEW S
  PROVE  SumOf(n, S) = (CHOOSE g : Adds(g, n, S))[S]
BY DEF SumOf, MapThenSumSet, MapThenFoldSet, Adds, Pick

(* The induction over finite sets: a set of subsets has a smallest one. *)
LEMMA LeastSubset ==
  ASSUME NEW S, IsFiniteSet(S), NEW T \in SUBSET (SUBSET S), T # {}
  PROVE  \E x \in T : \A y \in T : y \subseteq x => y = x
<1>1. IsWellFoundedOn(StrictSubsetOrdering(S), FiniteSubsetsOf(S))
  BY FS_StrictSubsetOrderingWellFounded
<1>2. T \subseteq FiniteSubsetsOf(S)
  BY FS_Subset DEF FiniteSubsetsOf
<1>3. PICK x \in T : \A y \in T : <<y, x>> \notin StrictSubsetOrdering(S)
  BY <1>1, <1>2, WFMin
<1>. QED  BY <1>3 DEF StrictSubsetOrdering

(* Two functions that add up agree wherever both are defined. *)
LEMMA AddsAgree ==
  ASSUME NEW n, NEW C, IsFiniteSet(C), NEW A \in SUBSET C, NEW B \in SUBSET C,
         NEW g, Adds(g, n, A), NEW h, Adds(h, n, B),
         NEW s \in SUBSET (A \cap B)
  PROVE  g[s] = h[s]
<1> DEFINE T == {t \in SUBSET (A \cap B) : g[t] # h[t]}
<1>1. SUFFICES ASSUME T # {} PROVE FALSE
  OBVIOUS
<1>2. PICK x \in T : \A y \in T : y \subseteq x => y = x
  <2>. HIDE DEF T
  <2>1. T \in SUBSET (SUBSET C)
    BY DEF T
  <2>. QED  BY <1>1, <2>1, LeastSubset
<1>3. x # {}
  BY DEF Adds
<1>4. Pick(x) \in x
  BY <1>3 DEF Pick
<1>5. x \ {Pick(x)} \notin T
  BY <1>2, <1>4
<1>6. g[x \ {Pick(x)}] = h[x \ {Pick(x)}]
  BY <1>5
<1>7. g[x] = n[Pick(x)] + g[x \ {Pick(x)}] /\ h[x] = n[Pick(x)] + h[x \ {Pick(x)}]
  BY <1>3 DEF Adds
<1>. QED  BY <1>6, <1>7

(* There is such a function on the subsets of every finite set. *)
LEMMA AddsExists ==
  ASSUME NEW n, NEW C, IsFiniteSet(C)
  PROVE  \A s \in SUBSET C : \E g : Adds(g, n, s)
<1> DEFINE T == {t \in SUBSET C : ~ \E g : Adds(g, n, t)}
<1>1. SUFFICES ASSUME T # {} PROVE FALSE
  OBVIOUS
<1>2. PICK x \in T : \A y \in T : y \subseteq x => y = x
  <2>. HIDE DEF T
  <2>1. T \in SUBSET (SUBSET C)
    BY DEF T
  <2>. QED  BY <1>1, <2>1, LeastSubset
<1> DEFINE G(t) == CHOOSE g : Adds(g, n, t)
           rest(t) == t \ {Pick(t)}
           new == [t \in SUBSET x |-> IF t = {} THEN 0 ELSE n[Pick(t)] + G(rest(t))[rest(t)]]
<1>3. ASSUME NEW t \in SUBSET x, t # {}
      PROVE  Adds(G(rest(t)), n, rest(t)) /\ rest(t) \in SUBSET x /\ rest(t) # x
  <2>1. Pick(t) \in t
    BY <1>3 DEF Pick
  <2>2. rest(t) \notin T /\ rest(t) \in SUBSET C
    BY <1>2, <2>1
  <2>. QED  BY <2>1, <2>2
<1>4. ASSUME NEW t \in SUBSET x, t # x
      PROVE  new[t] = G(t)[t]
  <2>1. t \notin T /\ t \in SUBSET C
    BY <1>2, <1>4
  <2>2. Adds(G(t), n, t)
    BY <2>1
  <2>3. CASE t = {}
    BY <2>2, <2>3 DEF Adds
  <2>4. CASE t # {}
    <3>1. Adds(G(rest(t)), n, rest(t))
      BY <1>3, <2>4
    <3>2. G(t)[rest(t)] = G(rest(t))[rest(t)]
      <4>. HIDE DEF G
      <4>. QED BY <2>1, <2>2, <3>1, AddsAgree
    <3>. QED  BY <2>2, <2>4, <3>2 DEF Adds
  <2>. QED  BY <2>3, <2>4
<1>5. \A t \in SUBSET x : new[t] = IF t = {} THEN 0 ELSE n[Pick(t)] + new[rest(t)]
  <2>. HIDE DEF G
  <2>1. ASSUME NEW t \in SUBSET x, t # {}
        PROVE new[rest(t)] = G(rest(t))[rest(t)]
    BY <1>3, <1>4, <2>1
  <2>. QED  BY <2>1
<1>6. Adds(new, n, x)
  <2>. HIDE DEF G
  <2>. QED BY <1>5 DEF Adds
<1>. QED  BY <1>6

(* The sum over a set is that of what is picked and that over the rest.    *)
LEMMA SumPick ==
  ASSUME NEW n, NEW S, IsFiniteSet(S)
  PROVE  /\ SumOf(n, {}) = 0
         /\ S # {} => Pick(S) \in S /\ SumOf(n, S) = n[Pick(S)] + SumOf(n, S \ {Pick(S)})
<1> DEFINE G(t) == CHOOSE g : Adds(g, n, t)
<1>1. \A t \in SUBSET S : Adds(G(t), n, t) /\ SumOf(n, t) = G(t)[t]
  BY AddsExists, SumIsFold
<1>. HIDE DEF G
<1>2. SumOf(n, {}) = 0
  BY <1>1 DEF Adds
<1>3. ASSUME S # {}
      PROVE  Pick(S) \in S /\ SumOf(n, S) = n[Pick(S)] + SumOf(n, S \ {Pick(S)})
  <2>1. Pick(S) \in S
    BY <1>3 DEF Pick
  <2>2. PICK R : R = S \ {Pick(S)}
    OBVIOUS
  <2>3. G(S)[R] = G(R)[R]
    BY <1>1, <2>2, AddsAgree
  <2>4. G(S)[S] = n[Pick(S)] + G(S)[R]
    BY <1>1, <1>3, <2>2 DEF Adds
  <2>. QED  BY <1>1, <2>1, <2>2, <2>3, <2>4
<1>. QED  BY <1>2, <1>3

(* A sum of integers is one, and of natural numbers too. *)
LEMMA SumType ==
  ASSUME NEW S, IsFiniteSet(S), NEW n, \A x \in S : n[x] \in Int
  PROVE  /\ SumOf(n, S) \in Int
         /\ (\A x \in S : n[x] >= 0) => SumOf(n, S) >= 0
<1> DEFINE Right(t) == /\ SumOf(n, t) \in Int
                       /\ ((\A x \in S : n[x] >= 0) => SumOf(n, t) >= 0)
           T == {t \in SUBSET S : ~ Right(t)}
<1>1. SUFFICES ASSUME T # {} PROVE FALSE
  OBVIOUS
<1>2. PICK x \in T : \A y \in T : y \subseteq x => y = x
  <2>. HIDE DEF T
  <2>1. T \in SUBSET (SUBSET S)
    BY DEF T
  <2>. QED  BY <1>1, <2>1, LeastSubset
<1>3. IsFiniteSet(x)
  BY FS_Subset
<1>4. x # {}
  <2>1. SumOf(n, {}) = 0
    BY SumPick
  <2>2. Right({})
    BY <2>1
  <2>. QED  BY <2>2
<1>5. Pick(x) \in x /\ SumOf(n, x) = n[Pick(x)] + SumOf(n, x \ {Pick(x)})
  BY <1>3, <1>4, SumPick
<1>6. Right(x \ {Pick(x)})
  BY <1>2, <1>5
<1>. QED  BY <1>5, <1>6

(* Any element may be taken out first. *)
LEMMA SumRemove ==
  ASSUME NEW S, IsFiniteSet(S), NEW n, \A x \in S : n[x] \in Int, NEW a \in S
  PROVE  SumOf(n, S) = n[a] + SumOf(n, S \ {a})
<1> DEFINE T == {t \in SUBSET S : \E x \in t : SumOf(n, t) # n[x] + SumOf(n, t \ {x})}
<1>1. SUFFICES ASSUME T # {} PROVE FALSE
  OBVIOUS
<1>2. PICK t \in T : \A y \in T : y \subseteq t => y = t
  <2>. HIDE DEF T
  <2>1. T \in SUBSET (SUBSET S)
    BY DEF T
  <2>. QED  BY <1>1, <2>1, LeastSubset
<1>3. PICK x \in t : SumOf(n, t) # n[x] + SumOf(n, t \ {x})
  BY <1>2
<1>4. PICK p : p = Pick(t)
  OBVIOUS
<1>5. /\ p \in t /\ SumOf(n, t) = n[p] + SumOf(n, t \ {p})
  BY <1>3, <1>4, FS_Subset, SumPick
<1>6. p # x
  BY <1>3, <1>5
<1>7. t \ {p} \notin T /\ t \ {x} \notin T
  BY <1>2, <1>5, <1>3
<1>8. PICK R : R = (t \ {p}) \ {x} /\ R = (t \ {x}) \ {p}
  OBVIOUS
<1>9. SumOf(n, t \ {p}) = n[x] + SumOf(n, R)
  BY <1>3, <1>6, <1>7, <1>8
<1>10. SumOf(n, t \ {x}) = n[p] + SumOf(n, R)
  BY <1>5, <1>6, <1>7, <1>8
<1>11. SumOf(n, R) \in Int /\ n[p] \in Int /\ n[x] \in Int
  BY <1>5, <1>8, FS_Subset, SumType
<1>. HIDE DEF T
<1>. QED  BY <1>3, <1>5, <1>9, <1>10, <1>11

(* An element that is added counts once. *)
LEMMA SumAdd ==
  ASSUME NEW S, IsFiniteSet(S), NEW n, NEW a, a \notin S,
         \A x \in S \cup {a} : n[x] \in Int
  PROVE  SumOf(n, S \cup {a}) = n[a] + SumOf(n, S)
<1>1. IsFiniteSet(S \cup {a}) /\ (S \cup {a}) \ {a} = S
  BY FS_AddElement
<1>. QED  BY <1>1, SumRemove

(* Only the values on the set, and only those that are not 0, matter.      *)
LEMMA SumSupport ==
  ASSUME NEW S, IsFiniteSet(S), NEW R \in SUBSET S, NEW n, NEW m,
         \A x \in S : n[x] \in Int,
         \A x \in R : n[x] = m[x], \A x \in S \ R : n[x] = 0
  PROVE  SumOf(n, S) = SumOf(m, R)
<1> DEFINE T == {t \in SUBSET S : SumOf(n, t) # SumOf(m, t \cap R)}
<1>1. SUFFICES ASSUME T # {} PROVE FALSE
  <2>1. S \cap R = R
    OBVIOUS
  <2>. QED  BY <2>1
<1>2. PICK t \in T : \A y \in T : y \subseteq t => y = t
  <2>. HIDE DEF T
  <2>1. T \in SUBSET (SUBSET S)
    BY DEF T
  <2>. QED  BY <1>1, <2>1, LeastSubset
<1>3. t # {}
  <2>1. {} \cap R = {} /\ SumOf(n, {}) = 0 /\ SumOf(m, {}) = 0
    BY SumPick
  <2>. QED  BY <2>1
<1>4. PICK x \in t : TRUE
  BY <1>3
<1>5. IsFiniteSet(t) /\ IsFiniteSet(t \cap R) /\ t \ {x} \notin T
  BY <1>2, <1>4, FS_Subset
<1>6. PICK rest : rest = t \ {x}
  OBVIOUS
<1>7. SumOf(n, t) = n[x] + SumOf(n, rest)
  BY <1>4, <1>5, <1>6, SumRemove
<1>8. SumOf(n, rest) = SumOf(m, rest \cap R)
  BY <1>5, <1>6
<1>9. SumOf(n, rest) \in Int
  BY <1>6, FS_Subset, SumType
<1>10. CASE x \in R
  <2>1. (t \cap R) \ {x} = rest \cap R
    BY <1>6
  <2>2. SumOf(m, t \cap R) = m[x] + SumOf(m, rest \cap R)
    BY <1>4, <1>5, <1>10, <2>1, SumRemove
  <2>. QED  BY <1>7, <1>8, <1>10, <2>2
<1>11. CASE x \notin R
  <2>1. t \cap R = rest \cap R /\ n[x] = 0
    BY <1>4, <1>6, <1>11
  <2>. QED  BY <1>7, <1>8, <1>9, <2>1
<1>. QED  BY <1>10, <1>11

(* What is added up in two parts. *)
LEMMA SumSplit ==
  ASSUME NEW S, IsFiniteSet(S), NEW R \in SUBSET S, NEW n, \A x \in S : n[x] \in Int
  PROVE  SumOf(n, S) = SumOf(n, R) + SumOf(n, S \ R)
<1> DEFINE T == {t \in SUBSET S : SumOf(n, t) # SumOf(n, t \cap R) + SumOf(n, t \ R)}
<1>1. SUFFICES ASSUME T # {} PROVE FALSE
  <2>1. S \cap R = R
    OBVIOUS
  <2>. QED  BY <2>1
<1>2. PICK t \in T : \A y \in T : y \subseteq t => y = t
  <2>. HIDE DEF T
  <2>1. T \in SUBSET (SUBSET S)
    BY DEF T
  <2>. QED  BY <1>1, <2>1, LeastSubset
<1>3. SumOf(n, t) # SumOf(n, t \cap R) + SumOf(n, t \ R)
  OBVIOUS
<1>4. PICK P, Q : P = t \cap R /\ Q = t \ R
  OBVIOUS
<1>5. SumOf(n, t) # SumOf(n, P) + SumOf(n, Q)
  BY <1>3, <1>4
<1>6. t # {}
  <2>1. SUFFICES ASSUME t = {} PROVE FALSE
    OBVIOUS
  <2>2. P = t /\ Q = t
    BY <1>4, <2>1
  <2>3. SumOf(n, t) = 0
    BY <2>1, SumPick
  <2>4. SumOf(n, t) # SumOf(n, t) + SumOf(n, t)
    <3>. HIDE DEF T
    <3>. QED  BY <1>5, <2>2
  <2>. QED  BY <2>3, <2>4
<1>7. PICK x \in t : TRUE
  BY <1>6
<1>8. PICK rest, A, B : rest = t \ {x} /\ A = rest \cap R /\ B = rest \ R
  OBVIOUS
<1>9. /\ IsFiniteSet(P) /\ IsFiniteSet(Q) /\ t \in SUBSET S /\ IsFiniteSet(t)
      /\ SumOf(n, rest) = SumOf(n, A) + SumOf(n, B)
  <2>1. rest \notin T
    BY <1>2, <1>7, <1>8
  <2>. QED  BY <2>1, <1>4, <1>8, FS_Subset
<1>. HIDE DEF T
<1>10. SumOf(n, t) = n[x] + SumOf(n, rest)
  BY <1>7, <1>8, <1>9, SumRemove
<1>11. SumOf(n, A) \in Int /\ SumOf(n, B) \in Int /\ n[x] \in Int
  BY <1>7, <1>8, <1>9, FS_Subset, SumType
<1>12. CASE x \in R
  <2>1. P \ {x} = A /\ Q = B /\ x \in P /\ P \in SUBSET S
    BY <1>7, <1>4, <1>8, <1>9, <1>12
  <2>2. SumOf(n, P) = n[x] + SumOf(n, A)
    BY <1>9, <2>1, SumRemove
  <2>3. SumOf(n, Q) = SumOf(n, B)
    BY <2>1
  <2>. QED  BY <1>9, <1>10, <1>11, <1>5, <2>2, <2>3
<1>13. CASE x \notin R
  <2>1. Q \ {x} = B /\ P = A /\ x \in Q /\ Q \in SUBSET S
    BY <1>7, <1>4, <1>8, <1>9, <1>13
  <2>2. SumOf(n, Q) = n[x] + SumOf(n, B)
    BY <1>9, <2>1, SumRemove
  <2>3. SumOf(n, P) = SumOf(n, A)
    BY <2>1
  <2>. QED  BY <1>9, <1>10, <1>11, <1>5, <2>2, <2>3
<1>. QED  BY <1>12, <1>13

(* A change of one value changes the sum by as much. *)
LEMMA SumChange ==
  ASSUME NEW S, IsFiniteSet(S), NEW n, NEW m, NEW a \in S,
         \A x \in S : n[x] \in Int /\ m[x] \in Int,
         \A x \in S \ {a} : m[x] = n[x]
  PROVE  SumOf(m, S) = SumOf(n, S) + m[a] - n[a]
<1>1. PICK R : R = S \ {a}
  OBVIOUS
<1>2. IsFiniteSet(R)
  BY <1>1, FS_Subset
<1>3. SumOf(m, R) = SumOf(n, R)
  BY <1>1, <1>2, SumSupport
<1>4. SumOf(m, S) = m[a] + SumOf(m, R) /\ SumOf(n, S) = n[a] + SumOf(n, R)
  BY <1>1, SumRemove
<1>5. SumOf(n, R) \in Int
  BY <1>1, <1>2, SumType
<1>. QED  BY <1>3, <1>4, <1>5

(* The same for two elements *)
LEMMA SumChangeTwo ==
  ASSUME NEW S, IsFiniteSet(S), NEW n, NEW m, NEW a \in S, NEW b \in S, a # b,
         \A x \in S : n[x] \in Int /\ m[x] \in Int,
         \A x \in S \ {a, b} : m[x] = n[x]
  PROVE  SumOf(m, S) = SumOf(n, S) + m[a] - n[a] + m[b] - n[b]
<1>1. PICK k : k = [x \in S |-> IF x = a THEN m[a] ELSE n[x]]
  OBVIOUS
<1>2. /\ \A x \in S : k[x] \in Int
      /\ \A x \in S \ {a} : k[x] = n[x]
      /\ \A x \in S \ {b} : m[x] = k[x]
      /\ k[a] = m[a] /\ k[b] = n[b]
  BY <1>1
<1>3. SumOf(k, S) = SumOf(n, S) + k[a] - n[a]
  <2>1. \A x \in S : n[x] \in Int /\ k[x] \in Int
    BY <1>2
  <2>2. \A x \in S \ {a} : k[x] = n[x]
    BY <1>2
  <2>. QED  BY <2>1, <2>2, SumChange
<1>4. SumOf(m, S) = SumOf(k, S) + m[b] - k[b]
  BY <1>2, SumChange
<1>5. SumOf(n, S) \in Int
  BY SumType
<1>. QED  BY <1>2, <1>3, <1>4, <1>5

(* What one set has more is what another has less, element by element.     *)
Images(h, S) == {h[x] : x \in S}

LEMMA SumMirror ==
  ASSUME NEW S, IsFiniteSet(S), NEW n, \A x \in S : n[x] \in Int,
         NEW h, \A x, y \in S : h[x] = h[y] => x = y,
         NEW m, \A x \in S : m[h[x]] = - n[x]
  PROVE  SumOf(m, Images(h, S)) = - SumOf(n, S)
<1> DEFINE T == {t \in SUBSET S : SumOf(m, Images(h, t)) # - SumOf(n, t)}
<1>1. SUFFICES ASSUME T # {} PROVE FALSE
  OBVIOUS
<1>2. PICK t \in T : \A y \in T : y \subseteq t => y = t
  <2>. HIDE DEF T
  <2>1. T \in SUBSET (SUBSET S)
    BY DEF T
  <2>. QED  BY <1>1, <2>1, LeastSubset
<1>3. t \in SUBSET S /\ IsFiniteSet(t) /\ SumOf(m, Images(h, t)) # - SumOf(n, t)
  BY FS_Subset
<1>4. t # {}
  <2>1. SUFFICES ASSUME t = {} PROVE FALSE
    OBVIOUS
  <2>2. Images(h, t) = {}
    BY <2>1 DEF Images
  <2>3. SumOf(m, {}) = 0 /\ SumOf(n, {}) = 0
    BY <1>3, SumPick
  <2>. QED  BY <1>3, <2>1, <2>2, <2>3
<1>5. PICK a \in t : TRUE
  BY <1>4
<1>6. PICK r : r = t \ {a}
  OBVIOUS
<1>7. r \in SUBSET S /\ r \notin T /\ IsFiniteSet(r)
  BY <1>2, <1>3, <1>5, <1>6, FS_Subset
<1>8. SumOf(m, Images(h, r)) = - SumOf(n, r)
  BY <1>7
<1>9. SumOf(n, t) = n[a] + SumOf(n, r) /\ SumOf(n, r) \in Int /\ n[a] \in Int
  BY <1>3, <1>5, <1>6, <1>7, SumRemove, SumType
<1>10. PICK I, J : I = Images(h, t) /\ J = Images(h, r)
  OBVIOUS
<1>11. IsFiniteSet(I) /\ h[a] \in I /\ J = I \ {h[a]}
  <2>1. PICK g : g = [x \in t |-> h[x]]
    OBVIOUS
  <2>2. g \in [t -> I] /\ \A y \in I : \E x \in t : g[x] = y
    BY <1>10, <2>1 DEF Images
  <2>3. g \in Surjection(t, I)
    BY <2>2 DEF Surjection
  <2>4. IsFiniteSet(I)
    BY <1>3, <2>3, FS_Surjection
  <2>. QED  BY <1>3, <1>5, <1>6, <1>10, <2>4 DEF Images
<1>12. \A y \in I : m[y] \in Int
  BY <1>3, <1>10 DEF Images
<1>13. SumOf(m, I) = m[h[a]] + SumOf(m, J)
  BY <1>11, <1>12, SumRemove
<1>14. m[h[a]] = - n[a]
  BY <1>3, <1>5
<1>. QED  BY <1>3, <1>8, <1>9, <1>10, <1>13, <1>14

-----------------------------------------------------------------------------
(* Numbers *)

(* The least of a set of numbers *)
LEMMA MinOf ==
  ASSUME NEW S, S # {}, S \subseteq Nat
  PROVE  Min(S) \in S /\ \A y \in S : Min(S) =< y
<1> DEFINE Below == OpToRel(<, Nat)
<1>1. IsWellFoundedOn(Below, Nat)
  BY NatLessThanWellFounded
<1>2. PICK x \in S : \A y \in S : ~ (<<y, x>> \in Below)
  <2> HIDE DEF Below
  <2>. QED  BY <1>1, WFMin, Zenon
<1>3. ASSUME NEW y \in S
      PROVE  x =< y
  <2>1. CASE y < x
    <3>1. <<y, x>> \in {p \in Nat \X Nat : p[1] < p[2]}
      BY <2>1
    <3>. QED  BY <1>2, <3>1 DEF OpToRel
  <2>. QED  BY <2>1
<1>. QED  BY <1>3 DEF Min

-----------------------------------------------------------------------------
(* The positions of a list that Only picks *)
Rank(I, i) == Cardinality({j \in I : j <= i})
Pos(I, n) == CHOOSE i \in I : Rank(I, i) = n

(* The positions have the ranks from 1 on, in their order. *)
LEMMA Ranks ==
  ASSUME NEW m \in Nat, NEW I \in SUBSET (1 .. m)
  PROVE  /\ IsFiniteSet(I) /\ Cardinality(I) \in Nat
         /\ \A i \in I : Rank(I, i) \in 1 .. Cardinality(I)
         /\ \A i, j \in I : i < j => Rank(I, i) < Rank(I, j)
<1>1. IsFiniteSet(I) /\ Cardinality(I) \in Nat
  <2>1. IsFiniteSet(1 .. m)
    BY FS_Interval
  <2>. QED  BY <2>1, FS_Subset, FS_CardinalityType
<1>2. ASSUME NEW i \in I
      PROVE  /\ IsFiniteSet({j \in I : j <= i}) /\ Rank(I, i) \in Nat
             /\ Rank(I, i) \in 1 .. Cardinality(I)
  <2>1. PICK J : J = {j \in I : j <= i}
    OBVIOUS
  <2>2. J \in SUBSET I /\ {i} \in SUBSET J
    BY <2>1
  <2>3. IsFiniteSet(J) /\ Cardinality(J) <= Cardinality(I) /\ Cardinality(J) \in Nat
    BY <1>1, <2>2, FS_Subset, FS_CardinalityType
  <2>4. Cardinality({i}) <= Cardinality(J) /\ Cardinality({i}) = 1
    BY <2>2, <2>3, FS_Subset, FS_Singleton
  <2>5. PICK r : r = Cardinality(J)
    OBVIOUS
  <2>6. r \in Nat /\ r \in 1 .. Cardinality(I)
    BY <1>1, <2>3, <2>4, <2>5
  <2>. QED  BY <2>1, <2>3, <2>5, <2>6 DEF Rank
<1>3. ASSUME NEW i \in I, NEW j \in I, i < j
      PROVE  Rank(I, i) < Rank(I, j)
  <2>1. PICK J, K : J = {k \in I : k <= i} /\ K = {k \in I : k <= j}
    OBVIOUS
  <2>2. J \in SUBSET K /\ J # K
    <3>1. j \in K /\ j \notin J
      BY <1>3, <2>1
    <3>2. \A k \in I : k <= i => k <= j
      BY <1>3
    <3>. QED  BY <2>1, <3>1, <3>2
  <2>3. IsFiniteSet(K) /\ Cardinality(K) \in Nat /\ Cardinality(J) \in Nat
    BY <1>2, <2>1 DEF Rank
  <2>4. Cardinality(J) <= Cardinality(K) /\ Cardinality(J) # Cardinality(K)
    BY <2>2, <2>3, FS_Subset
  <2>. QED  BY <2>1, <2>3, <2>4 DEF Rank
<1>. QED  BY <1>1, <1>2, <1>3

(* Each rank has its position. *)
LEMMA Positions ==
  ASSUME NEW m \in Nat, NEW I \in SUBSET (1 .. m)
  PROVE  /\ \A n \in 1 .. Cardinality(I) : Pos(I, n) \in I /\ Rank(I, Pos(I, n)) = n
         /\ \A i \in I : Pos(I, Rank(I, i)) = i
<1>1. PICK c : c = Cardinality(I)
  OBVIOUS
<1>2. IsFiniteSet(I) /\ c \in Nat /\ \A i \in I : Rank(I, i) \in 1 .. c
  BY <1>1, Ranks
<1>3. \A i, j \in I : i # j => Rank(I, i) # Rank(I, j)
  <2>1. \A i, j \in I : i < j => Rank(I, i) < Rank(I, j)
    BY Ranks
  <2>. QED  BY <1>2, <2>1
<1>4. [i \in I |-> Rank(I, i)] \in Injection(I, 1 .. c)
  BY <1>2, <1>3 DEF Injection, IsInjective
<1>5. IsFiniteSet(1 .. c) /\ Cardinality(1 .. c) = c
  BY <1>2, FS_Interval
<1>6. [i \in I |-> Rank(I, i)] \in Surjection(I, 1 .. c)
  BY <1>1, <1>4, <1>5, FS_Injection
<1>7. \A n \in 1 .. c : \E i \in I : Rank(I, i) = n
  BY <1>6 DEF Surjection
<1>8. \A n \in 1 .. c : Pos(I, n) \in I /\ Rank(I, Pos(I, n)) = n
  BY <1>7 DEF Pos
<1>. QED  BY <1>1, <1>2, <1>3, <1>8

(* What Only makes of a list *)
LEMMA OnlyThese ==
  ASSUME NEW S, NEW s \in Seq(S), NEW I \in SUBSET (DOMAIN s)
  PROVE  /\ Only(s, I) \in Seq(S) /\ Len(Only(s, I)) = Cardinality(I)
         /\ Cardinality(I) \in Nat /\ (I = {} <=> Cardinality(I) = 0)
         /\ \A n \in 1 .. Cardinality(I) : Pos(I, n) \in I /\ Only(s, I)[n] = s[Pos(I, n)]
         /\ Range(Only(s, I)) = {s[i] : i \in I}
<1>1. Len(s) \in Nat /\ I \in SUBSET (1 .. Len(s))
  OBVIOUS
<1>2. /\ Cardinality(I) \in Nat /\ IsFiniteSet(I)
      /\ \A i \in I : Rank(I, i) \in 1 .. Cardinality(I)
      /\ \A n \in 1 .. Cardinality(I) : Pos(I, n) \in I
      /\ \A i \in I : Pos(I, Rank(I, i)) = i
  BY <1>1, Ranks, Positions
<1>3. Only(s, I) = [n \in 1 .. Cardinality(I) |-> s[Pos(I, n)]]
  BY DEF Only, Pos, Rank
<1>4. Only(s, I) \in Seq(S) /\ Len(Only(s, I)) = Cardinality(I)
  BY <1>1, <1>2, <1>3
<1>5. Range(Only(s, I)) = {s[i] : i \in I}
  BY <1>2, <1>3 DEF Range
<1>6. I = {} <=> Cardinality(I) = 0
  BY <1>2, FS_EmptySet
<1>. QED  BY <1>2, <1>3, <1>4, <1>5, <1>6

(* The first of them comes first. *)
LEMMA FirstOf ==
  ASSUME NEW m \in Nat, NEW I \in SUBSET (1 .. m), I # {}
  PROVE  /\ First(I) \in I /\ \A j \in I : First(I) <= j
         /\ Cardinality(I) \in Nat \ {0} /\ Pos(I, 1) = First(I)
<1>1. IsFiniteSet(I) /\ Cardinality(I) \in Nat
  BY Ranks
<1>2. Cardinality(I) # 0 /\ 1 \in 1 .. Cardinality(I)
  BY <1>1, FS_EmptySet
<1>3. Pos(I, 1) \in I /\ Rank(I, Pos(I, 1)) = 1
  BY <1>2, Positions
<1>4. ASSUME NEW j \in I
      PROVE  Pos(I, 1) <= j
  <2>1. Rank(I, j) \in 1 .. Cardinality(I)
    BY Ranks
  <2>2. j < Pos(I, 1) => Rank(I, j) < Rank(I, Pos(I, 1))
    BY <1>3, Ranks
  <2>3. PICK r, p : r = Rank(I, j) /\ p = Pos(I, 1)
    OBVIOUS
  <2>4. I \subseteq Int /\ p \in I
    BY <1>3, <2>3
  <2>5. r \in Int /\ r >= 1
    BY <1>1, <2>1, <2>3
  <2>6. j < p => r < 1
    BY <1>3, <2>2, <2>3
  <2>7. j \in Int /\ p \in Int /\ r \in Int /\ r >= 1 /\ ~ (j < p)
    BY <2>4, <2>5, <2>6
  <2>8. p <= j
    BY <2>7
  <2>. QED  BY <2>3, <2>8
<1>5. First(I) \in I /\ \A j \in I : First(I) <= j
  BY <1>3, <1>4 DEF First
<1>6. Pos(I, 1) = First(I)
  <2>1. PICK p, q : p = Pos(I, 1) /\ q = First(I)
    OBVIOUS
  <2>2. p \in I /\ q \in I /\ I \subseteq Int
    BY <1>3, <1>5, <2>1
  <2>3. p \in Int /\ q \in Int /\ p <= q /\ q <= p
    BY <1>4, <1>5, <2>1, <2>2
  <2>4. p = q
    BY <2>3
  <2>. QED  BY <2>1, <2>4
<1>7. Cardinality(I) \in Nat \ {0}
  BY <1>1, <1>2
<1>. QED  BY <1>5, <1>6, <1>7

(* What stands before position k + 1. *)
LEMMA OnlyFront ==
  ASSUME NEW S, NEW s \in Seq(S), NEW k \in 0 .. Len(s)
  PROVE  Only(s, 1 .. k) = [n \in 1 .. k |-> s[n]]
<1>1. Len(s) \in Nat /\ k \in Nat /\ 1 .. k \in SUBSET (1 .. Len(s)) /\ Cardinality(1 .. k) = k
  BY FS_Interval
<1>2. ASSUME NEW n \in 1 .. k
      PROVE  Pos(1 .. k, n) = n
  <2>1. {j \in 1 .. k : j <= n} = 1 .. n /\ Cardinality(1 .. n) = n
    BY FS_Interval
  <2>2. Rank(1 .. k, n) = n
    BY <2>1 DEF Rank
  <2>3. n \in 1 .. k /\ Pos(1 .. k, Rank(1 .. k, n)) = n
    BY <1>1, Positions
  <2>. QED  BY <2>2, <2>3
<1>3. Only(s, 1 .. k) = [n \in 1 .. k |-> s[Pos(1 .. k, n)]]
  BY <1>1 DEF Only, Pos, Rank
<1>. QED  BY <1>2, <1>3

(* The order of the positions is that of their ranks. *)
LEMMA Monotone ==
  ASSUME NEW m \in Nat, NEW I \in SUBSET (1 .. m),
         NEW n \in 1 .. Cardinality(I), NEW k \in 1 .. Cardinality(I)
  PROVE  (n < k <=> Pos(I, n) < Pos(I, k)) /\ (n = k <=> Pos(I, n) = Pos(I, k))
<1>1. PICK p, q : p = Pos(I, n) /\ q = Pos(I, k)
  OBVIOUS
<1>2. p \in I /\ q \in I /\ Rank(I, p) = n /\ Rank(I, q) = k
  BY <1>1, Positions
<1>3. (p < q => n < k) /\ (q < p => k < n)
  <2>1. \A i, j \in I : i < j => Rank(I, i) < Rank(I, j)
    BY Ranks
  <2>. QED  BY <1>2, <2>1
<1>4. p \in Int /\ q \in Int /\ n \in Int /\ k \in Int
  BY <1>2
<1>5. p = q => n = k
  BY <1>2
<1>6. (n < k <=> p < q) /\ (n = k <=> p = q)
  <2>1. \A a, b, c, d \in Int :
          (a < b => c < d) /\ (b < a => d < c) /\ (a = b => c = d) => (c < d <=> a < b) /\ (c = d <=> a = b)
    OBVIOUS
  <2>. QED  BY <1>3, <1>4, <1>5, <2>1
<1>. QED  BY <1>1, <1>6

(* Lists of at most one order *)
LEMMA RangeOne ==
  /\ Range(<< >>) = {}
  /\ \A o : Range(<<o>>) = {o}
<1>1. Range(<< >>) = {}
  BY DEF Range
<1>2. ASSUME NEW o  PROVE Range(<<o>>) = {o}
  <2>1. DOMAIN <<o>> = {1} /\ <<o>>[1] = o
    OBVIOUS
  <2>. QED  BY <2>1 DEF Range
<1>. QED  BY <1>1, <1>2

(* Two lists in one *)
LEMMA RangeJoin ==
  ASSUME NEW S, NEW s \in Seq(S), NEW t \in Seq(S)
  PROVE  s \o t \in Seq(S) /\ Range(s \o t) = Range(s) \cup Range(t)
<1>1. PICK j : j = s \o t
  OBVIOUS
<1>2. /\ j \in Seq(S) /\ Len(j) = Len(s) + Len(t) /\ Len(s) \in Nat /\ Len(t) \in Nat
      /\ \A i \in 1 .. Len(s) : j[i] = s[i]
      /\ \A i \in Len(s) + 1 .. Len(j) : j[i] = t[i - Len(s)]
  BY <1>1
<1>3. Range(s) \subseteq Range(j)
  BY <1>2 DEF Range
<1>4. ASSUME NEW i \in 1 .. Len(t)
      PROVE  t[i] \in Range(j)
  <2>1. i + Len(s) \in Len(s) + 1 .. Len(j) /\ (i + Len(s)) - Len(s) = i
    BY <1>2
  <2>2. j[i + Len(s)] = t[i] /\ i + Len(s) \in DOMAIN j
    BY <1>2, <2>1
  <2>. QED  BY <2>2 DEF Range
<1>5. ASSUME NEW i \in 1 .. Len(j)
      PROVE  j[i] \in Range(s) \cup Range(t)
  <2>1. i \in 1 .. Len(s) \/ (i \in Len(s) + 1 .. Len(j) /\ i - Len(s) \in 1 .. Len(t))
    BY <1>2
  <2>. QED  BY <1>2, <2>1 DEF Range
<1>6. Range(t) \subseteq Range(j)
  BY <1>2, <1>4 DEF Range
<1>7. Range(j) \subseteq Range(s) \cup Range(t)
  <2>1. DOMAIN j = 1 .. Len(j)
    BY <1>2
  <2>2. \A x \in Range(j) : \E i \in 1 .. Len(j) : x = j[i]
    BY <2>1 DEF Range
  <2>. QED  BY <1>5, <2>2
<1>. QED  BY <1>1, <1>2, <1>3, <1>6, <1>7

LEMMA ThoseList ==
  ASSUME NEW T, NEW s \in Seq(T), NEW S
  PROVE  /\ Those(s, S) \in Seq(T) /\ Range(Those(s, S)) = Range(s) \cap S
         /\ Once(s) => Once(Those(s, S))
<1>1. PICK I, t : I = {i \in DOMAIN s : s[i] \in S} /\ t = Only(s, I)
  OBVIOUS
<1>2. t = Those(s, S) /\ I \in SUBSET (DOMAIN s)
  BY <1>1 DEF Those
<1>3. /\ t \in Seq(T) /\ Len(t) = Cardinality(I) /\ Cardinality(I) \in Nat
      /\ DOMAIN t = 1 .. Cardinality(I)
  <2>1. Only(s, I) \in Seq(T) /\ Len(Only(s, I)) = Cardinality(I) /\ Cardinality(I) \in Nat
    BY <1>2, OnlyThese
  <2>2. t \in Seq(T) /\ Len(t) = Cardinality(I) /\ Cardinality(I) \in Nat
    BY <1>1, <2>1
  <2>. QED  BY <2>2
<1>4. \A o : o \in Range(t) <=> \E i \in I : o = s[i]
  <2>1. Range(t) = {s[i] : i \in I}
    BY <1>1, <1>2, OnlyThese
  <2>. QED  BY <2>1
<1>5. Range(t) = Range(s) \cap S
  <2>1. \A o : o \in Range(s) <=> \E i \in DOMAIN s : o = s[i]
    BY DEF Range
  <2>. QED  BY <1>1, <1>4, <2>1
<1>6. ASSUME Once(s), NEW n \in DOMAIN t, NEW k \in DOMAIN t, t[n] = t[k]
      PROVE  n = k
  <2>1. n \in 1 .. Cardinality(I) /\ k \in 1 .. Cardinality(I)
    BY <1>3
  <2>2. \A m \in 1 .. Cardinality(I) : Pos(I, m) \in I /\ t[m] = s[Pos(I, m)]
    <3>1. \A m \in 1 .. Cardinality(I) : Pos(I, m) \in I /\ Only(s, I)[m] = s[Pos(I, m)]
      BY <1>2, OnlyThese
    <3>. QED  BY <1>1, <3>1
  <2>3. Pos(I, n) = Pos(I, k)
    BY <1>2, <1>6, <2>1, <2>2 DEF Once
  <2>4. Len(s) \in Nat /\ I \in SUBSET (1 .. Len(s))
    BY <1>2
  <2>. QED  BY <2>1, <2>3, <2>4, Monotone
<1>. QED  BY <1>2, <1>3, <1>5, <1>6 DEF Once

(* One list behind another *)
LEMMA OnceJoin ==
  ASSUME NEW T, NEW s \in Seq(T), NEW t \in Seq(T), Once(s), Once(t), Range(s) \cap Range(t) = {}
  PROVE  Once(s \o t)
<1>1. PICK j : j = s \o t
  OBVIOUS
<1>2. /\ DOMAIN j = 1 .. Len(s) + Len(t) /\ Len(s) \in Nat /\ Len(t) \in Nat
      /\ DOMAIN s = 1 .. Len(s) /\ DOMAIN t = 1 .. Len(t)
      /\ \A i \in 1 .. Len(s) : j[i] = s[i]
      /\ \A i \in Len(s) + 1 .. Len(s) + Len(t) : j[i] = t[i - Len(s)] /\ i - Len(s) \in 1 .. Len(t)
  BY <1>1
<1>3. ASSUME NEW i \in DOMAIN j, NEW k \in DOMAIN j, j[i] = j[k]
      PROVE  i = k
  <2>1. CASE i \in 1 .. Len(s) /\ k \in 1 .. Len(s)
    BY <1>2, <1>3, <2>1 DEF Once
  <2>2. CASE i \in 1 .. Len(s) /\ k \notin 1 .. Len(s)
    <3>1. k \in Len(s) + 1 .. Len(s) + Len(t)
      BY <1>2, <2>2
    <3>2. j[i] \in Range(s) /\ j[k] \in Range(t)
      BY <1>2, <2>2, <3>1 DEF Range
    <3>. QED  BY <1>3, <3>2
  <2>3. CASE i \notin 1 .. Len(s) /\ k \in 1 .. Len(s)
    <3>1. i \in Len(s) + 1 .. Len(s) + Len(t)
      BY <1>2, <2>3
    <3>2. j[k] \in Range(s) /\ j[i] \in Range(t)
      BY <1>2, <2>3, <3>1 DEF Range
    <3>. QED  BY <1>3, <3>2
  <2>4. CASE i \notin 1 .. Len(s) /\ k \notin 1 .. Len(s)
    <3>1. i \in Len(s) + 1 .. Len(s) + Len(t) /\ k \in Len(s) + 1 .. Len(s) + Len(t)
      BY <1>2, <2>4
    <3>2. /\ i - Len(s) \in DOMAIN t /\ k - Len(s) \in DOMAIN t
          /\ t[i - Len(s)] = t[k - Len(s)]
      BY <1>2, <1>3, <3>1
    <3>3. i - Len(s) = k - Len(s)
      BY <3>2 DEF Once
    <3>. QED  BY <1>2, <3>1, <3>3
  <2>. QED  BY <2>1, <2>2, <2>3, <2>4
<1>. QED  BY <1>1, <1>3 DEF Once

(* Somebody at the end of a list *)
LEMMA AppendOne ==
  ASSUME NEW T, NEW s \in Seq(T), NEW x \in T
  PROVE  /\ Append(s, x) \in Seq(T) /\ Range(Append(s, x)) = Range(s) \cup {x}
         /\ Once(s) /\ x \notin Range(s) => Once(Append(s, x))
<1>1. <<x>> \in Seq(T) /\ Append(s, x) = s \o <<x>> /\ Range(<<x>>) = {x} /\ Once(<<x>>)
  BY RangeOne DEF Once
<1>2. s \o <<x>> \in Seq(T) /\ Range(s \o <<x>>) = Range(s) \cup Range(<<x>>)
  BY <1>1, RangeJoin
<1>3. Once(s) /\ x \notin Range(s) => Once(s \o <<x>>)
  BY <1>1, OnceJoin
<1>. QED  BY <1>1, <1>2, <1>3

(* A list without its first *)
LEMMA TailRange ==
  ASSUME NEW T, NEW s \in Seq(T), s # << >>
  PROVE  /\ Tail(s) \in Seq(T) /\ Head(s) \in T /\ Range(s) = Range(Tail(s)) \cup {Head(s)}
         /\ Once(s) => Once(Tail(s)) /\ Head(s) \notin Range(Tail(s))
<1>1. PICK t, x : t = Tail(s) /\ x = Head(s)
  OBVIOUS
<1>2. /\ t \in Seq(T) /\ x \in T /\ s[1] = x /\ Len(s) \in Nat \ {0} /\ Len(t) = Len(s) - 1
      /\ DOMAIN s = 1 .. Len(s) /\ DOMAIN t = 1 .. Len(s) - 1
      /\ \A i \in 1 .. Len(s) - 1 : t[i] = s[i + 1] /\ i + 1 \in 1 .. Len(s)
  BY <1>1
<1>3. \A i \in 1 .. Len(s) : i = 1 \/ (i - 1 \in 1 .. Len(s) - 1 /\ s[i] = t[i - 1])
  BY <1>2
<1>a. /\ \A o : o \in Range(s) <=> \E i \in 1 .. Len(s) : o = s[i]
      /\ \A o : o \in Range(t) <=> \E i \in 1 .. Len(s) - 1 : o = t[i]
  <2>1. (\A o : o \in Range(s) <=> \E i \in DOMAIN s : o = s[i]) /\ (\A o : o \in Range(t) <=> \E i \in DOMAIN t : o = t[i])
    BY DEF Range
  <2>2. DOMAIN s = 1 .. Len(s) /\ DOMAIN t = 1 .. Len(s) - 1
    BY <1>2
  <2>. QED  BY <2>1, <2>2
<1>4. Range(s) \subseteq Range(t) \cup {x}
  <2>1. ASSUME NEW i \in 1 .. Len(s)
        PROVE  s[i] = x \/ \E j \in 1 .. Len(s) - 1 : s[i] = t[j]
    BY <1>2, <1>3
  <2>. QED  BY <1>a, <2>1
<1>5. Range(t) \cup {x} \subseteq Range(s)
  <2>1. 1 \in 1 .. Len(s) /\ \A i \in 1 .. Len(s) - 1 : i + 1 \in 1 .. Len(s) /\ t[i] = s[i + 1]
    BY <1>2
  <2>. QED  BY <1>2, <1>a, <2>1
<1>6. ASSUME Once(s)
      PROVE  Once(t) /\ x \notin Range(t)
  <2>1. ASSUME NEW i \in DOMAIN t, NEW j \in DOMAIN t, t[i] = t[j]
        PROVE  i = j
    <3>1. i \in 1 .. Len(s) - 1 /\ j \in 1 .. Len(s) - 1
      BY <1>2
    <3>2. i + 1 \in DOMAIN s /\ j + 1 \in DOMAIN s /\ s[i + 1] = s[j + 1]
      BY <1>2, <2>1, <3>1
    <3>3. i + 1 = j + 1
      BY <1>6, <3>2 DEF Once
    <3>. QED  BY <3>1, <3>3
  <2>2. ASSUME NEW i \in 1 .. Len(s) - 1, t[i] = x
        PROVE  FALSE
    <3>1. 1 \in DOMAIN s /\ i + 1 \in DOMAIN s /\ s[i + 1] = s[1] /\ i + 1 # 1
      BY <1>2, <2>2
    <3>. QED  BY <1>6, <3>1 DEF Once
  <2>. QED  BY <1>2, <2>1, <2>2 DEF Once, Range
<1>. QED  BY <1>1, <1>2, <1>4, <1>5, <1>6
==============================================================================
