----------------------------- MODULE RosterProofs -----------------------------
(***************************************************************************)
(* The pointer lists of Roster are lists: for any number of units and      *)
(* factions, and as long as no script clears unit.faction, every faction's *)
(* list holds exactly its living units and num_units counts them.          *)
(*                                                                         *)
(* No dead unit is written to the data file (WrittenUnitsLive).  A sweep   *)
(* kills units it has passed already, but only such as are named by the    *)
(* trigger of another unit, and these kill nobody in turn: what the sweep  *)
(* of turn_end leaves, that of the reports finds without killing anew.     *)
(*                                                                         *)
(* And num_people is the number of persons (CountersAreRight): whatever    *)
(* set_number, u_setrace, u_setfaction and erase_unit do to one unit they  *)
(* do to the counter of its faction, and a number that is not in use has   *)
(* no persons.                                                             *)
(*                                                                         *)
(* Last, the pointers stand for sequences of units, and what the program   *)
(* does with them is what FactionLists says of sequences.                  *)
(***************************************************************************)
EXTENDS Roster, Lemmas, SequenceTheorems

-----------------------------------------------------------------------------
(* Reach, for any head h and successor function next. *)

(* The units a loop meets are closed under the loop's steps. *)
LEMMA ReachClosed ==
  ASSUME NEW h \in UnitsOrNone, NEW next \in [Units -> UnitsOrNone]
  PROVE  Reach(h, next) \subseteq Units /\ Closed(Reach(h, next), h, next)
BY DEF Reach, Closed, UnitsOrNone

(* No smaller set is. *)
LEMMA ReachLeast ==
  ASSUME NEW h, NEW next, NEW S \in SUBSET Units, Closed(S, h, next)
  PROVE  Reach(h, next) \subseteq S
BY DEF Reach

(* A change of nextF outside a list does not change the list. *)
LEMMA ReachFrame ==
  ASSUME NEW h \in UnitsOrNone,
         NEW next \in [Units -> UnitsOrNone], NEW new \in [Units -> UnitsOrNone],
         \A v \in Reach(h, next) : new[v] = next[v]
  PROVE  Reach(h, new) = Reach(h, next)
<1>1. Closed(Reach(h, next), h, new) /\ Reach(h, next) \subseteq Units
  BY ReachClosed DEF Closed
<1>2. Reach(h, new) \subseteq Reach(h, next)
  BY <1>1, ReachLeast
<1>3. Closed(Reach(h, new), h, next)
  BY <1>2, ReachClosed DEF Closed
<1>. QED  BY <1>2, <1>3, ReachLeast, ReachClosed

(* Pushing u in front of a list adds u to it. *)
LEMMA ReachPush ==
  ASSUME NEW h \in UnitsOrNone, NEW u \in Units,
         NEW next \in [Units -> UnitsOrNone], u \notin Reach(h, next)
  PROVE  Reach(u, [next EXCEPT ![u] = h]) = {u} \cup Reach(h, next)
<1> DEFINE new == [next EXCEPT ![u] = h]
           R   == Reach(h, next)
           T   == Reach(u, new)
<1>1. R \subseteq Units /\ Closed(R, h, next)
  BY ReachClosed
<1>2. new \in [Units -> UnitsOrNone]
  OBVIOUS
<1>3. T \subseteq Units /\ Closed(T, u, new)
  BY <1>2, ReachClosed DEF UnitsOrNone
<1>4. Closed({u} \cup R, u, new)
  BY <1>1 DEF Closed
<1>5. T \subseteq {u} \cup R
  BY <1>1, <1>4, ReachLeast
<1>6. u \in T
  BY <1>3, RosterAssumption DEF Closed
<1>7. Closed(T \cap R, h, next)
  <2>1. h \in (T \cap R) \cup {NoUnit}
    BY <1>1, <1>3, <1>6 DEF Closed
  <2>2. ASSUME NEW v \in T \cap R
        PROVE  next[v] \in (T \cap R) \cup {NoUnit}
    BY <1>1, <1>3, <2>2 DEF Closed
  <2>. QED  BY <2>1, <2>2 DEF Closed
<1>8. R \subseteq T
  BY <1>1, <1>7, ReachLeast
<1>. QED  BY <1>5, <1>6, <1>8

(* The list from head k along new is the one from h along next with u      *)
(* bypassed; p is the only predecessor u has on it.                        *)
Bypassed(h, next, k, new, u, p) ==
  /\ u \in Reach(h, next)
  /\ p = NoUnit <=> h = u
  /\ p # NoUnit => next[p] = u
  /\ \A v \in Reach(h, next) : next[v] = u => v = p
  /\ \A v \in Units \ {u} : v # p => new[v] = next[v]
  /\ p # NoUnit /\ p # u => new[p] = next[u]
  /\ k = IF h = u THEN next[u] ELSE h

(* Bypassing u removes u alone. *)
LEMMA ReachRemove ==
  ASSUME NEW h \in UnitsOrNone, NEW u \in Units, NEW p \in UnitsOrNone,
         NEW next \in [Units -> UnitsOrNone], NEW new \in [Units -> UnitsOrNone],
         NEW k, Bypassed(h, next, k, new, u, p)
  PROVE  Reach(k, new) = Reach(h, next) \ {u}
<1> USE DEF Bypassed
<1> DEFINE n == next[u]
           R == Reach(h, next)
           T == Reach(k, new)
<1>1. R \subseteq Units /\ Closed(R, h, next)
  BY ReachClosed
<1>2. k \in UnitsOrNone
  OBVIOUS
<1>3. T \subseteq Units /\ Closed(T, k, new)
  BY <1>2, ReachClosed
<1>4. n # u
  <2>1. SUFFICES ASSUME n = u PROVE FALSE
    OBVIOUS
  <2>2. p = u
    BY <2>1
  <2>3. Closed(R \ {u}, h, next)
    BY <1>1, <2>2, RosterAssumption DEF Closed
  <2>. QED  BY <1>1, <2>3, ReachLeast
<1>5. Closed(R \ {u}, k, new)
  <2>1. k \in (R \ {u}) \cup {NoUnit}
    BY <1>1, <1>4 DEF Closed
  <2>2. ASSUME NEW v \in R \ {u}
        PROVE  new[v] \in (R \ {u}) \cup {NoUnit}
    BY <1>1, <1>4, <2>2, RosterAssumption DEF Closed
  <2>. QED  BY <2>1, <2>2 DEF Closed
<1>6. T \subseteq R \ {u}
  BY <1>1, <1>5, ReachLeast
<1>7. Closed(T \cup {u}, h, next) \/ Closed(T, h, next)
  <2>1. h \in T \cup {u} \cup {NoUnit}
    BY <1>3 DEF Closed
  <2>2. \A v \in T : next[v] \in T \cup {u} \cup {NoUnit}
    BY <1>1, <1>3, <1>6, RosterAssumption DEF Closed
  <2>3. CASE h = u
    <3>1. n \in T \cup {NoUnit}
      BY <1>3, <2>3 DEF Closed
    <3>. QED  BY <2>1, <2>2, <3>1 DEF Closed
  <2>4. CASE h # u /\ p \in T
    <3>1. n \in T \cup {NoUnit}
      BY <1>3, <1>6, <2>4 DEF Closed
    <3>. QED  BY <2>1, <2>2, <3>1 DEF Closed
  <2>5. CASE h # u /\ p \notin T
    BY <1>3, <1>6, <2>1, <2>2, <2>5 DEF Closed
  <2>. QED  BY <2>3, <2>4, <2>5
<1>8. R \subseteq T \cup {u}
  BY <1>1, <1>3, <1>7, ReachLeast
<1>. QED  BY <1>6, <1>8

-----------------------------------------------------------------------------
(* The strengthened invariant, for a record s of structs and the set H of  *)
(* units that are on lists.                                                *)

Fields == {"faction", "race", "number", "nextF", "prevF",
           "units", "num_units", "num_people"}

IsRoster(s) ==
  /\ DOMAIN s = Fields
  /\ s.faction \in [Units -> FactionsOrNone]
  /\ s.race \in [Units -> BOOLEAN]
  /\ s.number \in [Units -> Int]
  /\ s.nextF \in [Units -> UnitsOrNone]
  /\ s.prevF \in [Units -> UnitsOrNone]
  /\ s.units \in [Factions -> UnitsOrNone]
  /\ s.num_units \in [Factions -> Int]

Owned(s, H) == H \subseteq Units /\ \A u \in H : s.faction[u] \in Factions

Linked(s, H) ==
  \A u \in H :
    /\ s.nextF[u] \in Units => s.prevF[s.nextF[u]] = u
    /\ s.prevF[u] \in H \cup {NoUnit}
    /\ s.prevF[u] \in Units => s.nextF[s.prevF[u]] = u
    /\ s.prevF[u] = NoUnit <=> s.units[s.faction[u]] = u

MembersOf(s, H, f) == {u \in H : s.faction[u] = f}

Complete(s, H) == \A f \in Factions : Listed(s, f) = MembersOf(s, H, f)

Counted(s, H) ==
  \A f \in Factions :
    s.num_units[f] = Cardinality({u \in MembersOf(s, H, f) : s.race[u]})

Sound(s, H) ==
  IsRoster(s) /\ Owned(s, H) /\ Linked(s, H) /\ Complete(s, H) /\ Counted(s, H)

(* set_number touches neither the lists nor num_units. *)
LEMMA SetNumberSound ==
  ASSUME NEW s, NEW H, Sound(s, H), NEW u \in Units, NEW n \in Int
  PROVE  /\ Sound(SetNumber(s, u, n), H)
         /\ SetNumber(s, u, n).faction = s.faction
         /\ SetNumber(s, u, n).race = s.race
<1> DEFINE t == SetNumber(s, u, n)
<1>1. /\ t.faction = s.faction /\ t.race = s.race /\ t.nextF = s.nextF
      /\ t.prevF = s.prevF /\ t.units = s.units /\ t.num_units = s.num_units
      /\ IsRoster(t)
  BY DEF Sound, IsRoster, Fields, SetNumber
<1>. QED
  BY <1>1 DEF Sound, Owned, Linked, Complete, Counted, MembersOf, Listed

(* Nor do the set_number calls of killunit triggers and destroyfaction. *)
LEMMA DepopulateSound ==
  ASSUME NEW s, NEW H, Sound(s, H), NEW S
  PROVE  /\ Sound(Depopulate(s, S), H)
         /\ Depopulate(s, S).faction = s.faction
         /\ Depopulate(s, S).race = s.race
<1> DEFINE t == Depopulate(s, S)
<1>1. /\ t.faction = s.faction /\ t.race = s.race /\ t.nextF = s.nextF
      /\ t.prevF = s.prevF /\ t.units = s.units /\ t.num_units = s.num_units
      /\ IsRoster(t)
  BY DEF Sound, IsRoster, Fields, Depopulate
<1>. QED
  BY <1>1 DEF Sound, Owned, Linked, Complete, Counted, MembersOf, Listed

(* u_setrace counts a unit that had no race. *)
LEMMA SetRaceSound ==
  ASSUME NEW s, NEW H, Sound(s, H), NEW u \in Units,
         u \in H \/ s.faction[u] = NoFaction
  PROVE  /\ Sound(SetRace(s, u), H)
         /\ SetRace(s, u).faction = s.faction
         /\ SetRace(s, u).race = [s.race EXCEPT ![u] = TRUE]
<1> DEFINE t == SetRace(s, u)
           g == s.faction[u]
           C(f) == {v \in MembersOf(s, H, f) : s.race[v]}
           D(f) == {v \in MembersOf(t, H, f) : t.race[v]}
<1>1. /\ t.faction = s.faction /\ t.nextF = s.nextF
      /\ t.prevF = s.prevF /\ t.units = s.units
      /\ IsRoster(t)
      /\ t.race = [s.race EXCEPT ![u] = TRUE]
  BY DEF Sound, IsRoster, Fields, SetRace
<1>2. t.num_units = IF g \in Factions /\ ~ s.race[u]
                    THEN [s.num_units EXCEPT ![g] = @ + 1] ELSE s.num_units
  BY DEF Sound, IsRoster, Fields, SetRace
<1>3. Owned(t, H) /\ Linked(t, H) /\ Complete(t, H)
  BY <1>1 DEF Sound, Owned, Linked, Complete, MembersOf, Listed
<1>4. ASSUME NEW f \in Factions
      PROVE  t.num_units[f] = Cardinality(D(f))
  <2>1. IsFiniteSet(C(f)) /\ s.num_units[f] = Cardinality(C(f))
    <3>1. C(f) \in SUBSET Units
      BY DEF Sound, Owned, MembersOf
    <3>. QED  BY <3>1, FS_Subset, RosterAssumption DEF Sound, Counted
  <2>2. CASE u \in H /\ g = f /\ ~ s.race[u]
    <3>1. D(f) = C(f) \cup {u} /\ u \notin C(f)
      BY <1>1, <2>2 DEF MembersOf, Sound, Owned, IsRoster
    <3>2. t.num_units[f] = s.num_units[f] + 1
      BY <1>2, <2>2 DEF Sound, IsRoster
    <3>. QED  BY <2>1, <3>1, <3>2, FS_AddElement
  <2>3. CASE ~ (u \in H /\ g = f /\ ~ s.race[u])
    <3>1. D(f) = C(f)
      BY <1>1, <2>3 DEF MembersOf, Sound, Owned, IsRoster
    <3>2. t.num_units[f] = s.num_units[f]
      BY <1>2, <2>3, RosterAssumption DEF Sound, IsRoster
    <3>. QED  BY <2>1, <3>1, <3>2
  <2>. QED  BY <2>2, <2>3
<1>. QED  BY <1>1, <1>3, <1>4 DEF Sound, Counted

(* The fields after the second half of u_setfaction. *)
Pushed(s, t, u, f) ==
  /\ t.faction = [s.faction EXCEPT ![u] = f]
  /\ t.race = s.race
  /\ t.nextF = [s.nextF EXCEPT ![u] = s.units[f]]
  /\ t.prevF = [v \in Units |-> IF v = u THEN NoUnit
                                ELSE IF v = s.units[f] THEN u ELSE s.prevF[v]]
  /\ t.units = [s.units EXCEPT ![f] = u]
  /\ \A g \in Factions : t.num_units[g] =
       IF g = f /\ s.race[u] THEN s.num_units[g] + 1 ELSE s.num_units[g]

LEMMA LinkFields ==
  ASSUME NEW s, IsRoster(s), NEW u \in Units, NEW f \in Factions,
         NEW t, t = Link(s, u, f)
  PROVE  IsRoster(t) /\ Pushed(s, t, u, f)
<1>2. /\ DOMAIN t = DOMAIN s
      /\ t.faction = [s.faction EXCEPT ![u] = f]
      /\ t.race = s.race /\ t.number = s.number
      /\ t.nextF = [s.nextF EXCEPT ![u] = s.units[f]]
      /\ t.prevF = [v \in Units |-> IF v = u THEN NoUnit
                                    ELSE IF v = s.units[f] THEN u ELSE s.prevF[v]]
      /\ t.units = [s.units EXCEPT ![f] = u]
      /\ t.num_units = [s.num_units EXCEPT ![f] = IF s.race[u] THEN @ + 1 ELSE @]
  BY DEF Link, IsRoster, Fields
<1>3. s.units[f] \in UnitsOrNone /\ u \in UnitsOrNone /\ f \in FactionsOrNone
  BY DEF IsRoster, UnitsOrNone, FactionsOrNone
<1>4. t.nextF \in [Units -> UnitsOrNone]
  BY <1>2, <1>3 DEF IsRoster
<1>5. t.prevF \in [Units -> UnitsOrNone]
  BY <1>2, <1>3 DEF IsRoster, UnitsOrNone
<1>6. t.units \in [Factions -> UnitsOrNone] /\ t.faction \in [Units -> FactionsOrNone]
  BY <1>2, <1>3 DEF IsRoster
<1>7. t.num_units \in [Factions -> Int]
  BY <1>2 DEF IsRoster
<1>8. IsRoster(t)
  BY <1>2, <1>4, <1>5, <1>6, <1>7 DEF IsRoster
<1>9. \A g \in Factions : t.num_units[g] =
         IF g = f /\ s.race[u] THEN s.num_units[g] + 1 ELSE s.num_units[g]
  BY <1>2 DEF IsRoster
<1>. QED  BY <1>2, <1>8, <1>9 DEF Pushed


(* The fields after its first half, but for those of u. *)
Unlinked(s, t, u, f, p, n) ==
  /\ t.race = s.race
  /\ \A v \in Units \ {u} : t.faction[v] = s.faction[v]
  /\ \A v \in Units \ {u} : t.prevF[v] = IF v = n THEN p ELSE s.prevF[v]
  /\ \A v \in Units \ {u} : t.nextF[v] = IF v = p THEN n ELSE s.nextF[v]
  /\ \A g \in Factions :
       t.num_units[g] = IF g = f /\ s.race[u] THEN s.num_units[g] - 1
                                              ELSE s.num_units[g]

LEMMA UnlinkFields ==
  ASSUME NEW s, IsRoster(s), NEW u \in Units,
         NEW f \in Factions, f = s.faction[u],
         NEW p, p = s.prevF[u], NEW n, n = s.nextF[u],
         NEW t, t = Unlink(s, u)
  PROVE  /\ IsRoster(t)
         /\ Unlinked(s, t, u, f, p, n)
         /\ t.faction = [s.faction EXCEPT ![u] = NoFaction]
         /\ \A g \in Factions : t.units[g] = IF g = f /\ p = NoUnit THEN n ELSE s.units[g]
<1>1. /\ DOMAIN t = DOMAIN s
      /\ t.faction = [s.faction EXCEPT ![u] = NoFaction]
      /\ t.race = s.race /\ t.number = s.number
      /\ t.prevF = IF n \in Units THEN [s.prevF EXCEPT ![n] = p] ELSE s.prevF
      /\ t.nextF = IF p \in Units THEN [s.nextF EXCEPT ![p] = n] ELSE s.nextF
      /\ t.units = [s.units EXCEPT ![f] = IF p = NoUnit THEN n ELSE @]
      /\ t.num_units = [s.num_units EXCEPT ![f] = IF s.race[u] THEN @ - 1 ELSE @]
  BY DEF IsRoster, Fields, Unlink, Bypass
<1>2. p \in UnitsOrNone /\ n \in UnitsOrNone
  BY DEF IsRoster
<1>3. t.num_units \in [Factions -> Int]
  BY <1>1 DEF IsRoster
<1>4. IsRoster(t)
  BY <1>1, <1>2, <1>3 DEF IsRoster, FactionsOrNone
<1>5. Unlinked(s, t, u, f, p, n)
  BY <1>1, <1>2 DEF IsRoster, Unlinked
<1>6. \A g \in Factions : t.units[g] = IF g = f /\ p = NoUnit THEN n ELSE s.units[g]
  BY <1>1 DEF IsRoster
<1>. QED  BY <1>1, <1>4, <1>5, <1>6

(* The fields after erase_unit. *)
LEMMA EraseFields ==
  ASSUME NEW s, IsRoster(s), NEW u \in Units,
         NEW f \in Factions, f = s.faction[u],
         NEW p, p = s.prevF[u], NEW n, n = s.nextF[u],
         NEW t, t = Erase(s, u)
  PROVE  /\ IsRoster(t)
         /\ Unlinked(s, t, u, f, p, n)
         /\ t.faction = s.faction
         /\ \A g \in Factions : t.units[g] = IF g = f /\ s.units[f] = u THEN n ELSE s.units[g]
<1> DEFINE q == SetNumber(s, u, 0)
           b == Bypass(q, u)
<1>1. /\ q.faction = s.faction /\ q.race = s.race /\ q.nextF = s.nextF
      /\ q.prevF = s.prevF /\ q.units = s.units /\ q.num_units = s.num_units
      /\ q.number = [s.number EXCEPT ![u] = 0]
      /\ DOMAIN q = DOMAIN s
  BY DEF IsRoster, Fields, SetNumber
<1>2. /\ b.faction = q.faction /\ b.race = q.race /\ b.units = q.units
      /\ b.num_units = q.num_units /\ b.number = q.number
      /\ DOMAIN b = DOMAIN q
      /\ b.prevF = IF n \in Units THEN [s.prevF EXCEPT ![n] = p] ELSE s.prevF
      /\ b.nextF = IF p \in Units THEN [s.nextF EXCEPT ![p] = n] ELSE s.nextF
  <2>. HIDE DEF q
  <2>. QED  BY <1>1 DEF IsRoster, Fields, Bypass
<1> DEFINE heads == IF f \in Factions /\ s.units[f] = u
                    THEN [b.units EXCEPT ![f] = s.nextF[u]] ELSE b.units
           count == IF f \in Factions /\ s.race[u]
                    THEN [b.num_units EXCEPT ![f] = s.num_units[f] - 1] ELSE b.num_units
<1>3. t = [b EXCEPT !.num_units = count, !.units = heads,
                    !.nextF[u] = NoUnit, !.prevF[u] = NoUnit]
  BY DEF Erase
<1>. HIDE DEF b, heads, count
<1>4. /\ DOMAIN t = DOMAIN s
      /\ t.faction = b.faction /\ t.race = b.race /\ t.number = b.number
      /\ t.prevF = [b.prevF EXCEPT ![u] = NoUnit]
      /\ t.nextF = [b.nextF EXCEPT ![u] = NoUnit]
      /\ t.units = heads /\ t.num_units = count
  BY <1>1, <1>2, <1>3 DEF IsRoster, Fields
<1>5. p \in UnitsOrNone /\ n \in UnitsOrNone /\ NoUnit \in UnitsOrNone
  BY DEF IsRoster, UnitsOrNone
<1>6. t.num_units \in [Factions -> Int] /\ t.units \in [Factions -> UnitsOrNone]
  BY <1>1, <1>2, <1>4, <1>5 DEF IsRoster, heads, count
<1>7. t.nextF \in [Units -> UnitsOrNone] /\ t.prevF \in [Units -> UnitsOrNone]
  BY <1>1, <1>2, <1>4, <1>5 DEF IsRoster
<1>8. IsRoster(t)
  BY <1>1, <1>2, <1>4, <1>6, <1>7 DEF IsRoster
<1>9. Unlinked(s, t, u, f, p, n)
  <2>1. \A v \in Units \ {u} : t.prevF[v] = IF v = n THEN p ELSE s.prevF[v]
    BY <1>1, <1>2, <1>4, <1>5 DEF IsRoster
  <2>2. \A v \in Units \ {u} : t.nextF[v] = IF v = p THEN n ELSE s.nextF[v]
    BY <1>1, <1>2, <1>4, <1>5 DEF IsRoster
  <2>3. \A g \in Factions :
          t.num_units[g] = IF g = f /\ s.race[u] THEN s.num_units[g] - 1
                                                 ELSE s.num_units[g]
    BY <1>1, <1>2, <1>4 DEF IsRoster, count
  <2>. QED  BY <1>1, <1>2, <1>4, <2>1, <2>2, <2>3 DEF Unlinked
<1>10. \A g \in Factions : t.units[g] = IF g = f /\ s.units[f] = u THEN n ELSE s.units[g]
  BY <1>1, <1>2, <1>4 DEF IsRoster, heads
<1>. QED  BY <1>1, <1>2, <1>4, <1>8, <1>9, <1>10

-----------------------------------------------------------------------------
(* What the first half of u_setfaction and erase_unit have in common: t    *)
(* differs from s in that u's neighbours and its faction's head bypass u.  *)
Removed(s, t, u, f, p, n) ==
  /\ f = s.faction[u] /\ p = s.prevF[u] /\ n = s.nextF[u]
  /\ Unlinked(s, t, u, f, p, n)
  /\ \A g \in Factions :
       t.units[g] = IF g = f /\ s.units[f] = u THEN n ELSE s.units[g]

(* It takes u, and u alone, from its faction's list. *)
LEMMA RemoveSound ==
  ASSUME NEW s, NEW H, Sound(s, H), NEW u \in H, NEW t, IsRoster(t),
         NEW f, NEW p, NEW n, Removed(s, t, u, f, p, n)
  PROVE  Sound(t, H \ {u})
<1> DEFINE G == H \ {u}
<1>1. u \in Units /\ f \in Factions /\ H \subseteq Units
  BY DEF Sound, Owned, Removed, Unlinked
<1>2. p \in UnitsOrNone /\ n \in UnitsOrNone
  BY <1>1 DEF Sound, IsRoster, Removed, Unlinked
<1>3. ASSUME p \in Units
      PROVE  p \in H /\ s.faction[p] = f
  <2>1. p \in H /\ s.nextF[p] = u
    BY <1>1, <1>3, RosterAssumption DEF Sound, Linked, Removed, Unlinked
  <2>2. s.faction[p] \in Factions /\ s.units[s.faction[p]] \in UnitsOrNone
    BY <2>1 DEF Sound, Owned, IsRoster
  <2>3. Closed(Listed(s, s.faction[p]), s.units[s.faction[p]], s.nextF)
    BY <2>2, ReachClosed DEF Sound, IsRoster, Listed
  <2>4. p \in Listed(s, s.faction[p])
    BY <2>1, <2>2 DEF Sound, Complete, MembersOf
  <2>5. u \in Listed(s, s.faction[p])
    BY <1>1, <2>1, <2>3, <2>4, RosterAssumption DEF Closed
  <2>. QED  BY <2>1, <2>2, <2>5 DEF Sound, Complete, MembersOf, Removed, Unlinked
<1>8. ASSUME n \in Units
      PROVE  n \in H /\ s.faction[n] = f
  <2>1. Closed(Listed(s, f), s.units[f], s.nextF) /\ u \in Listed(s, f)
    BY <1>1, ReachClosed DEF Sound, IsRoster, Listed, Complete, MembersOf, Removed, Unlinked
  <2>2. n \in Listed(s, f)
    BY <1>8, <2>1, RosterAssumption DEF Closed, Removed, Unlinked
  <2>. QED  BY <1>1, <2>2 DEF Sound, Complete, MembersOf
<1>4. Owned(t, G)
  BY <1>1 DEF Sound, Owned, Removed, Unlinked
<1>5. Linked(t, G)
  <2>. SUFFICES ASSUME NEW v \in G
                PROVE  /\ t.nextF[v] \in Units => t.prevF[t.nextF[v]] = v
                       /\ t.prevF[v] \in G \cup {NoUnit}
                       /\ t.prevF[v] \in Units => t.nextF[t.prevF[v]] = v
                       /\ t.prevF[v] = NoUnit <=> t.units[t.faction[v]] = v
    BY DEF Linked
  <2>1. /\ v \in Units /\ v # u /\ v \in H
        /\ s.faction[v] \in Factions /\ t.faction[v] = s.faction[v]
    BY <1>1 DEF Sound, Owned, Removed, Unlinked
  <2>2. /\ s.nextF[v] \in Units => s.prevF[s.nextF[v]] = v
        /\ s.prevF[v] \in H \cup {NoUnit}
        /\ s.prevF[v] \in Units => s.nextF[s.prevF[v]] = v
        /\ s.prevF[v] = NoUnit <=> s.units[s.faction[v]] = v
    BY <2>1 DEF Sound, Linked
  <2>3. /\ n \in Units => s.prevF[n] = u
        /\ p \in H \cup {NoUnit}
        /\ p \in Units => s.nextF[p] = u
        /\ p = NoUnit <=> s.units[f] = u
    BY <1>1 DEF Sound, Linked, Removed, Unlinked
  <2>4. t.nextF[v] \in Units => t.prevF[t.nextF[v]] = v
    BY <1>1, <1>2, <2>1, <2>2, <2>3 DEF Removed, Unlinked
  <2>5. t.prevF[v] \in G \cup {NoUnit}
    BY <1>1, <1>2, <2>1, <2>2, <2>3 DEF Removed, Unlinked
  <2>6. t.prevF[v] \in Units => t.nextF[t.prevF[v]] = v
    BY <1>1, <1>2, <2>1, <2>2, <2>3 DEF Removed, Unlinked
  <2>7. t.prevF[v] = NoUnit <=> t.units[t.faction[v]] = v
    <3>1. CASE v = n
      BY <1>1, <1>8, <2>1, <2>2, <2>3, <3>1, RosterAssumption DEF Removed, Unlinked
    <3>2. CASE v # n
      BY <1>1, <2>1, <2>2, <2>3, <3>2 DEF Removed, Unlinked
    <3>. QED  BY <3>1, <3>2
  <2>. QED  BY <2>4, <2>5, <2>6, <2>7
<1>6. Complete(t, G)
  <2>. SUFFICES ASSUME NEW g \in Factions
                PROVE  Listed(t, g) = MembersOf(t, G, g)
    BY DEF Complete
  <2>1. /\ s.units[g] \in UnitsOrNone
        /\ s.nextF \in [Units -> UnitsOrNone] /\ t.nextF \in [Units -> UnitsOrNone]
    BY DEF Sound, IsRoster
  <2>2. Listed(s, g) = MembersOf(s, H, g)
    BY DEF Sound, Complete
  <2>3. MembersOf(t, G, g) = MembersOf(s, H, g) \ {u}
    BY <1>1 DEF MembersOf, Removed, Unlinked
  <2>4. CASE g = f
    <3>1. u \in Reach(s.units[f], s.nextF)
      BY <1>1, <2>2, <2>4 DEF Listed, MembersOf, Removed, Unlinked
    <3>2. p = NoUnit <=> s.units[f] = u
      BY <1>1 DEF Sound, Linked, Removed, Unlinked
    <3>3. p # NoUnit => s.nextF[p] = u
      BY <1>1, <1>2 DEF Sound, Linked, UnitsOrNone, Removed, Unlinked
    <3>4. \A v \in Reach(s.units[f], s.nextF) : s.nextF[v] = u => v = p
      BY <1>1, <2>2, <2>4 DEF Sound, Linked, Listed, MembersOf, Removed, Unlinked
    <3>5. t.units[f] = IF s.units[f] = u THEN s.nextF[u] ELSE s.units[f]
      BY <1>1 DEF Removed, Unlinked
    <3>6. \A v \in Units \ {u} : t.nextF[v] = IF v = p THEN s.nextF[u] ELSE s.nextF[v]
      BY DEF Removed, Unlinked
    <3>7. s.units[f] \in UnitsOrNone
      BY <1>1 DEF Sound, IsRoster
    <3>8. p # NoUnit /\ p # u => t.nextF[p] = s.nextF[u]
      BY <1>2, <3>6 DEF UnitsOrNone
    <3>9. \A v \in Units \ {u} : v # p => t.nextF[v] = s.nextF[v]
      BY <3>6
    <3>10. Bypassed(s.units[f], s.nextF, t.units[f], t.nextF, u, p)
      BY <3>1, <3>2, <3>3, <3>4, <3>5, <3>8, <3>9 DEF Bypassed
    <3>11. Reach(t.units[f], t.nextF) = Reach(s.units[f], s.nextF) \ {u}
      BY <1>1, <1>2, <2>1, <3>7, <3>10, ReachRemove
    <3>. QED  BY <2>2, <2>3, <2>4, <3>11 DEF Listed
  <2>5. CASE g # f
    <3>1. t.units[g] = s.units[g] /\ u \notin Listed(s, g)
      BY <2>2, <2>5 DEF MembersOf, Removed, Unlinked
    <3>2. \A v \in Listed(s, g) : v \in Units /\ v # u /\ v # p
      BY <1>1, <1>3, <2>2, <2>5, RosterAssumption DEF MembersOf, Removed, Unlinked
    <3>3. \A v \in Reach(s.units[g], s.nextF) : t.nextF[v] = s.nextF[v]
      BY <3>2 DEF Listed, Removed, Unlinked
    <3>4. Reach(s.units[g], t.nextF) = Reach(s.units[g], s.nextF)
      BY <2>1, <3>3, ReachFrame
    <3>. QED  BY <2>2, <2>3, <3>1, <3>4 DEF Listed
  <2>. QED  BY <2>4, <2>5
<1>7. Counted(t, G)
  <2>. SUFFICES ASSUME NEW g \in Factions
                PROVE  t.num_units[g] = Cardinality({v \in MembersOf(t, G, g) : t.race[v]})
    BY DEF Counted
  <2> DEFINE C == {v \in MembersOf(s, H, g) : s.race[v]}
             D == {v \in MembersOf(t, G, g) : t.race[v]}
  <2>1. D = C \ {u}
    BY <1>1 DEF MembersOf, Removed, Unlinked
  <2>2. C \in SUBSET Units
    BY <1>1 DEF MembersOf
  <2>3. IsFiniteSet(C) /\ s.num_units[g] = Cardinality(C)
    BY <2>2, FS_Subset, RosterAssumption DEF Sound, Counted
  <2>4. u \in C <=> g = f /\ s.race[u]
    BY <1>1 DEF MembersOf, Removed, Unlinked
  <2>. HIDE DEF C, D
  <2>5. Cardinality(D) = IF u \in C THEN Cardinality(C) - 1 ELSE Cardinality(C)
    BY <2>1, <2>3, FS_RemoveElement
  <2>6. t.num_units[g] = IF g = f /\ s.race[u] THEN s.num_units[g] - 1 ELSE s.num_units[g]
    BY DEF Removed, Unlinked
  <2>7. t.num_units[g] = Cardinality(D)
    BY <2>3, <2>4, <2>5, <2>6
  <2>. QED  BY <2>7 DEF D
<1>. QED  BY <1>4, <1>5, <1>6, <1>7 DEF Sound

(* The second half of u_setfaction puts u, and u alone, on the list of f. *)
LEMMA LinkSound ==
  ASSUME NEW s, NEW H, Sound(s, H), NEW u \in Units \ H, NEW f \in Factions
  PROVE  /\ Sound(Link(s, u, f), H \cup {u})
         /\ Link(s, u, f).race = s.race
         /\ Link(s, u, f).faction = [s.faction EXCEPT ![u] = f]
<1>1. PICK t : t = Link(s, u, f)
  OBVIOUS
<1> DEFINE G == H \cup {u}
           h == s.units[f]
<1>2. IsRoster(s) /\ Owned(s, H) /\ Linked(s, H) /\ Complete(s, H) /\ Counted(s, H)
  BY DEF Sound
<1>10. IsRoster(t) /\ Pushed(s, t, u, f)
  BY <1>1, <1>2, LinkFields
<1>3. /\ IsRoster(t)
      /\ t.faction = [s.faction EXCEPT ![u] = f]
      /\ t.race = s.race
      /\ t.nextF = [s.nextF EXCEPT ![u] = s.units[f]]
      /\ t.prevF = [v \in Units |-> IF v = u THEN NoUnit
                                    ELSE IF v = s.units[f] THEN u ELSE s.prevF[v]]
      /\ t.units = [s.units EXCEPT ![f] = u]
      /\ \A g \in Factions : t.num_units[g] =
           IF g = f /\ s.race[u] THEN s.num_units[g] + 1 ELSE s.num_units[g]
  BY <1>10 DEF Pushed
<1>4. Owned(t, G)
  BY <1>2, <1>3 DEF Owned, IsRoster
<1>5. \A g \in Factions : Listed(s, g) = MembersOf(s, H, g)
  BY <1>2 DEF Complete
<1>6. ASSUME NEW g \in Factions
      PROVE  /\ s.units[g] \in MembersOf(s, H, g) \cup {NoUnit}
             /\ \A v \in MembersOf(s, H, g) : s.nextF[v] \in MembersOf(s, H, g) \cup {NoUnit}
  <2>1. Closed(Reach(s.units[g], s.nextF), s.units[g], s.nextF)
    BY <1>2, ReachClosed DEF IsRoster
  <2>. QED  BY <1>5, <2>1 DEF Closed, Listed
<1>7. Linked(t, G)
  <2>. SUFFICES ASSUME NEW v \in G
                PROVE  /\ t.nextF[v] \in Units => t.prevF[t.nextF[v]] = v
                       /\ t.prevF[v] \in G \cup {NoUnit}
                       /\ t.prevF[v] \in Units => t.nextF[t.prevF[v]] = v
                       /\ t.prevF[v] = NoUnit <=> t.units[t.faction[v]] = v
    BY DEF Linked
  <2>1. h \in H \cup {NoUnit} /\ (h \in H => s.faction[h] = f)
    BY <1>2, <1>6, RosterAssumption DEF MembersOf, Owned
  <2>2. H \subseteq Units /\ NoUnit \notin Units
    BY <1>2, RosterAssumption DEF Owned
  <2>3. /\ t.faction \in [Units -> FactionsOrNone] /\ t.faction[u] = f
        /\ t.nextF[u] = h /\ t.prevF[u] = NoUnit /\ t.units[f] = u
    BY <1>2, <1>3 DEF IsRoster
  <2>4. CASE v = u
    BY <1>3, <2>1, <2>2, <2>3, <2>4
  <2>5. CASE v # u
    <3>1. /\ v \in H /\ s.faction[v] \in Factions
          /\ t.faction[v] = s.faction[v] /\ t.nextF[v] = s.nextF[v]
          /\ t.prevF[v] = IF v = h THEN u ELSE s.prevF[v]
      BY <1>2, <1>3, <2>2, <2>5 DEF Owned, IsRoster
    <3>2. /\ s.nextF[v] \in Units => s.prevF[s.nextF[v]] = v
          /\ s.prevF[v] \in H \cup {NoUnit}
          /\ s.prevF[v] \in Units => s.nextF[s.prevF[v]] = v
          /\ s.prevF[v] = NoUnit <=> s.units[s.faction[v]] = v
      BY <1>2, <3>1 DEF Linked
    <3>3. s.nextF[v] \in H \cup {NoUnit}
      BY <1>6, <3>1 DEF MembersOf
    <3>4. h \in H => s.prevF[h] = NoUnit
      BY <1>2, <2>1 DEF Linked
    <3>5. t.nextF[v] \in Units => t.prevF[t.nextF[v]] = v
      BY <1>3, <2>1, <2>2, <3>1, <3>2, <3>3, <3>4
    <3>6. t.prevF[v] \in G \cup {NoUnit}
      BY <3>1, <3>2
    <3>7. t.prevF[v] \in Units => t.nextF[t.prevF[v]] = v
      BY <1>2, <1>3, <2>2, <2>3, <3>1, <3>2 DEF IsRoster
    <3>8. t.prevF[v] = NoUnit <=> t.units[t.faction[v]] = v
      BY <1>2, <1>3, <2>1, <2>2, <2>5, <3>1, <3>2 DEF IsRoster
    <3>. QED  BY <3>5, <3>6, <3>7, <3>8
  <2>. QED  BY <2>4, <2>5
<1>8. Complete(t, G)
  <2>. SUFFICES ASSUME NEW g \in Factions
                PROVE  Listed(t, g) = MembersOf(t, G, g)
    BY DEF Complete
  <2>1. s.units[g] \in UnitsOrNone /\ s.nextF \in [Units -> UnitsOrNone]
        /\ t.nextF \in [Units -> UnitsOrNone] /\ h \in UnitsOrNone
    BY <1>2, <1>3 DEF IsRoster
  <2>2. u \notin Listed(s, g) /\ Listed(s, g) \subseteq Units
    BY <1>2, <1>5 DEF MembersOf, Owned
  <2>3. CASE g = f
    <3>1. MembersOf(t, G, g) = MembersOf(s, H, g) \cup {u}
      BY <1>2, <1>3, <2>3 DEF MembersOf, Owned, IsRoster
    <3>2. t.units[g] = u
      BY <1>2, <1>3, <2>3 DEF IsRoster
    <3>3. Reach(u, [s.nextF EXCEPT ![u] = s.units[f]]) = {u} \cup Reach(s.units[f], s.nextF)
      BY <2>1, <2>2, <2>3, ReachPush DEF Listed
    <3>4. Reach(t.units[g], t.nextF) = {u} \cup Reach(s.units[g], s.nextF)
      BY <1>3, <2>3, <3>2, <3>3
    <3>. QED  BY <1>5, <3>1, <3>4 DEF Listed
  <2>4. CASE g # f
    <3>1. MembersOf(t, G, g) = MembersOf(s, H, g)
      BY <1>2, <1>3, <2>4 DEF MembersOf, Owned, IsRoster
    <3>2. t.units[g] = s.units[g]
      BY <1>2, <1>3, <2>4 DEF IsRoster
    <3>3. \A v \in Reach(s.units[g], s.nextF) : t.nextF[v] = s.nextF[v]
      BY <1>2, <1>3, <2>2 DEF IsRoster, Listed
    <3>4. Reach(s.units[g], t.nextF) = Reach(s.units[g], s.nextF)
      BY <2>1, <3>3, ReachFrame
    <3>. QED  BY <1>5, <3>1, <3>2, <3>4 DEF Listed
  <2>. QED  BY <2>3, <2>4
<1>9. Counted(t, G)
  <2>. SUFFICES ASSUME NEW g \in Factions
                PROVE  t.num_units[g] = Cardinality({v \in MembersOf(t, G, g) : t.race[v]})
    BY DEF Counted
  <2> DEFINE C == {v \in MembersOf(s, H, g) : s.race[v]}
             D == {v \in MembersOf(t, G, g) : t.race[v]}
  <2>1. IF g = f /\ s.race[u] THEN D = C \cup {u} ELSE D = C
    BY <1>2, <1>3 DEF MembersOf, Owned, IsRoster
  <2>2. u \notin C /\ C \in SUBSET Units
    BY <1>2 DEF MembersOf, Owned
  <2>3. IsFiniteSet(C) /\ s.num_units[g] = Cardinality(C)
    BY <1>2, <2>2, FS_Subset, RosterAssumption DEF Counted
  <2>4. t.num_units[g] = IF g = f /\ s.race[u] THEN s.num_units[g] + 1 ELSE s.num_units[g]
    BY <1>2, <1>3 DEF IsRoster
  <2>. HIDE DEF C, D
  <2>5. Cardinality(C \cup {u}) = Cardinality(C) + 1
    BY <2>2, <2>3, FS_AddElement
  <2>6. t.num_units[g] = Cardinality(D)
    BY <2>1, <2>3, <2>4, <2>5
  <2>. QED  BY <2>6 DEF D
<1>. QED  BY <1>1, <1>3, <1>4, <1>7, <1>8, <1>9 DEF Sound

(* The first half of u_setfaction. *)
LEMMA UnlinkSound ==
  ASSUME NEW s, NEW H, Sound(s, H), NEW u \in H
  PROVE  /\ Sound(Unlink(s, u), H \ {u})
         /\ Unlink(s, u).race = s.race
         /\ Unlink(s, u).faction = [s.faction EXCEPT ![u] = NoFaction]
<1>1. PICK t, f, p, n : /\ t = Unlink(s, u)
                        /\ f = s.faction[u] /\ p = s.prevF[u] /\ n = s.nextF[u]
  OBVIOUS
<1>2. IsRoster(s) /\ u \in Units /\ f \in Factions
  BY <1>1 DEF Sound, Owned
<1>3. /\ IsRoster(t)
      /\ Unlinked(s, t, u, f, p, n)
      /\ t.faction = [s.faction EXCEPT ![u] = NoFaction]
      /\ \A g \in Factions : t.units[g] = IF g = f /\ p = NoUnit THEN n ELSE s.units[g]
  BY <1>1, <1>2, UnlinkFields
<1>4. p = NoUnit <=> s.units[f] = u
  BY <1>1 DEF Sound, Linked
<1>5. Removed(s, t, u, f, p, n)
  BY <1>1, <1>3, <1>4 DEF Removed
<1>. QED  BY <1>1, <1>3, <1>5, RemoveSound DEF Unlinked

(* erase_unit. *)
LEMMA EraseSound ==
  ASSUME NEW s, NEW H, Sound(s, H), NEW u \in H
  PROVE  /\ Sound(Erase(s, u), H \ {u})
         /\ Erase(s, u).race = s.race
         /\ Erase(s, u).faction = s.faction
<1>1. PICK t, f, p, n : /\ t = Erase(s, u)
                        /\ f = s.faction[u] /\ p = s.prevF[u] /\ n = s.nextF[u]
  OBVIOUS
<1>2. IsRoster(s) /\ u \in Units /\ f \in Factions
  BY <1>1 DEF Sound, Owned
<1>3. /\ IsRoster(t)
      /\ Unlinked(s, t, u, f, p, n)
      /\ t.faction = s.faction
      /\ \A g \in Factions : t.units[g] = IF g = f /\ s.units[f] = u THEN n ELSE s.units[g]
  BY <1>1, <1>2, EraseFields
<1>4. Removed(s, t, u, f, p, n)
  BY <1>1, <1>3 DEF Removed
<1>. QED  BY <1>1, <1>3, <1>4, RemoveSound DEF Unlinked

-----------------------------------------------------------------------------
(* The inductive invariant: the lists are sound, listed units have a race, *)
(* and a struct without a race was never used.                             *)
Whole(s, H) ==
  /\ Sound(s, H)
  /\ \A u \in H : s.race[u]
  /\ \A u \in Units : ~ s.race[u] => s.faction[u] = NoFaction

FileTyped == \A u \in DOMAIN file : file[u].number \in Int

(* A sweep has only living units before it, and no sweep happens while the *)
(* data are read, when a number that is not in use was never used.         *)
Stages ==
  /\ sweeping => todo \subseteq hashed /\ phase \in {"orders", "quit", "ageing", "ended"}
  /\ phase = "load" => \A u \in Units \ hashed : ~ roster.race[u]

IInv == Whole(roster, hashed) /\ FileTyped /\ Stages

(* Operations that leave the lists alone. *)
LEMMA NumbersWhole ==
  ASSUME NEW s, NEW H, Whole(s, H), NEW u \in Units, NEW n \in Int, NEW S
  PROVE  /\ Whole(SetNumber(s, u, n), H)
         /\ Whole(Depopulate(s, S), H)
         /\ SetNumber(s, u, n).faction = s.faction
         /\ Depopulate(s, S).faction = s.faction
         /\ SetNumber(s, u, n).race = s.race
BY SetNumberSound, DepopulateSound DEF Whole

(* u_setfaction moves a listed unit to the faction it names. *)
LEMMA SetFactionWhole ==
  ASSUME NEW s, NEW H, Whole(s, H), NEW u \in H, NEW f \in Factions
  PROVE  Whole(SetFaction(s, u, f), H)
<1>1. CASE s.faction[u] = f
  BY <1>1 DEF SetFaction
<1>2. CASE s.faction[u] # f
  <2>1. PICK t, G : t = Unlink(s, u) /\ G = H \ {u}
    OBVIOUS
  <2>2. /\ Sound(t, G) /\ t.race = s.race
        /\ t.faction = [s.faction EXCEPT ![u] = NoFaction]
    BY <2>1, UnlinkSound DEF Whole
  <2>3. u \in Units \ G /\ G \cup {u} = H
    BY <2>1 DEF Whole, Sound, Owned
  <2>4. /\ Sound(Link(t, u, f), G \cup {u})
        /\ Link(t, u, f).race = t.race
        /\ Link(t, u, f).faction = [t.faction EXCEPT ![u] = f]
    BY <2>2, <2>3, LinkSound
  <2>5. SetFaction(s, u, f) = Link(t, u, f)
    BY <1>2, <2>1 DEF SetFaction
  <2>6. s.faction \in [Units -> FactionsOrNone]
    BY DEF Whole, Sound, IsRoster
  <2>. QED  BY <2>2, <2>3, <2>4, <2>5, <2>6 DEF Whole
<1>. QED  BY <1>1, <1>2

(* create_unit puts a fresh unit on the list of its faction. *)
LEMMA CreateWhole ==
  ASSUME NEW s, NEW H, Whole(s, H), NEW u \in Units \ H, ~ s.race[u],
         NEW f \in Factions, NEW n \in Int
  PROVE  Whole(Create(s, u, f, n), H \cup {u})
<1>1. PICK a, b : a = SetRace(s, u) /\ b = SetFaction(a, u, f)
  OBVIOUS
<1>2. s.faction[u] = NoFaction /\ s.faction \in [Units -> FactionsOrNone]
      /\ s.race \in [Units -> BOOLEAN]
  BY DEF Whole, Sound, IsRoster
<1>3. Sound(a, H) /\ a.faction = s.faction /\ a.race = [s.race EXCEPT ![u] = TRUE]
  BY <1>1, <1>2, SetRaceSound DEF Whole
<1>4. b = Link(a, u, f)
  BY <1>1, <1>2, <1>3, RosterAssumption DEF SetFaction, Unlink
<1>5. /\ Sound(b, H \cup {u}) /\ b.race = a.race
      /\ b.faction = [a.faction EXCEPT ![u] = f]
  BY <1>3, <1>4, LinkSound
<1>6. H \subseteq Units
  BY DEF Whole, Sound, Owned
<1>7. Whole(b, H \cup {u})
  BY <1>2, <1>3, <1>5, <1>6 DEF Whole
<1>. QED  BY <1>1, <1>7, NumbersWhole DEF Create

SameRaces(s, t, u) == \A v \in Units \ {u} : t.race[v] = s.race[v]

(* read_unit does the same in another order. *)
LEMMA ReadWhole ==
  ASSUME NEW s, NEW H, Whole(s, H), NEW u \in Units \ H, s.faction[u] = NoFaction,
         NEW f \in Factions, NEW n \in Int
  PROVE  /\ Whole(Read(s, u, f, n), H \cup {u})
         /\ SameRaces(s, Read(s, u, f, n), u)
<1>1. PICK a, b : a = SetFaction(s, u, f) /\ b = SetNumber(a, u, n)
  OBVIOUS
<1>2. s.faction \in [Units -> FactionsOrNone] /\ s.race \in [Units -> BOOLEAN]
      /\ H \subseteq Units
  BY DEF Whole, Sound, IsRoster, Owned
<1>3. a = Link(s, u, f)
  BY <1>1, RosterAssumption DEF SetFaction, Unlink
<1>4. /\ Sound(a, H \cup {u}) /\ a.race = s.race
      /\ a.faction = [s.faction EXCEPT ![u] = f]
  BY <1>3, LinkSound DEF Whole
<1>5. Sound(b, H \cup {u}) /\ b.race = s.race /\ b.faction = a.faction
  BY <1>1, <1>4, SetNumberSound
<1>6. /\ Sound(SetRace(b, u), H \cup {u})
      /\ SetRace(b, u).faction = b.faction
      /\ SetRace(b, u).race = [b.race EXCEPT ![u] = TRUE]
  BY <1>5, SetRaceSound
<1>7. Whole(SetRace(b, u), H \cup {u})
  BY <1>2, <1>4, <1>5, <1>6 DEF Whole
<1>8. \A v \in Units \ {u} : SetRace(b, u).race[v] = s.race[v]
  BY <1>2, <1>4, <1>5, <1>6
<1>. QED  BY <1>1, <1>7, <1>8 DEF Read, SameRaces

(* make_zombie. *)
LEMMA ZombieWhole ==
  ASSUME NEW s, NEW H, Whole(s, H), NEW u \in H
  PROVE  Whole(Zombie(s, u), H)
<1>1. PICK b : b = SetNumber(SetFaction(s, u, Monsters), u, 1)
  OBVIOUS
<1>2. u \in Units
  BY DEF Whole, Sound, Owned
<1>3. Whole(b, H)
  BY <1>1, <1>2, SetFactionWhole, NumbersWhole, RosterAssumption
<1>4. b.race \in [Units -> BOOLEAN] /\ b.race[u] /\ b.faction \in [Units -> FactionsOrNone]
  BY <1>3 DEF Whole, Sound, IsRoster
<1>5. /\ Sound(SetRace(b, u), H)
      /\ SetRace(b, u).faction = b.faction
      /\ SetRace(b, u).race = [b.race EXCEPT ![u] = TRUE]
  BY <1>2, <1>3, SetRaceSound DEF Whole
<1>6. Whole(SetRace(b, u), H)
  BY <1>2, <1>3, <1>4, <1>5 DEF Whole
<1>. QED  BY <1>1, <1>6 DEF Zombie

(* erase_unit. *)
LEMMA EraseWhole ==
  ASSUME NEW s, NEW H, Whole(s, H), NEW u \in H
  PROVE  Whole(Erase(s, u), H \ {u})
BY EraseSound DEF Whole

(* The empty game. *)
LEMMA EmptyWhole == Whole(EmptyRoster, {})
<1> DEFINE s == EmptyRoster
<1>1. IsRoster(s) /\ \A u \in Units : ~ s.race[u] /\ s.faction[u] = NoFaction
  BY DEF EmptyRoster, IsRoster, Fields, UnitsOrNone, FactionsOrNone
<1>2. Owned(s, {}) /\ Linked(s, {})
  BY DEF Owned, Linked
<1>3. ASSUME NEW f \in Factions
      PROVE  Listed(s, f) = {} /\ s.num_units[f] = 0
  <2>1. s.units[f] = NoUnit /\ s.num_units[f] = 0
    BY DEF EmptyRoster
  <2>2. Closed({}, NoUnit, s.nextF)
    BY DEF Closed
  <2>. QED  BY <2>1, <2>2, ReachLeast DEF Listed
<1>4. Complete(s, {})
  BY <1>3 DEF Complete, MembersOf
<1>5. \A f \in Factions : {u \in MembersOf(s, {}, f) : s.race[u]} = {}
  BY DEF MembersOf
<1>6. Counted(s, {})
  BY <1>3, <1>5, FS_EmptySet DEF Counted
<1>. QED  BY <1>1, <1>2, <1>4, <1>6 DEF Whole, Sound

(* remove_unit keeps the lists, whether the unit is erased or a zombie. *)
LEMMA RemoveUnitWhole ==
  ASSUME NEW s, Whole(s, hashed), NEW u \in hashed, RemoveUnit(s, u)
  PROVE  Whole(roster, hashed)'
<1>1. PICK t : t = Depopulate(s, doom[u])
  OBVIOUS
<1>2. Whole(t, hashed) /\ u \in Units
  BY <1>1, NumbersWhole DEF Whole, Sound, Owned
<1>3. CASE roster' = Erase(t, u) /\ hashed' = hashed \ {u}
  BY <1>2, <1>3, EraseWhole
<1>4. CASE roster' = Zombie(t, u) /\ hashed' = hashed
  BY <1>2, <1>4, ZombieWhole
<1>. QED  BY <1>1, <1>3, <1>4 DEF RemoveUnit

(* The game starts whole. *)
LEMMA InitWhole == Init => IInv
BY EmptyWhole DEF Init, IInv, FileTyped, Stages

(* Every operation of the program keeps it whole. *)
LEMMA NextWhole ==
  ASSUME ~ ClearedByScript, IInv, [Next]_vars
  PROVE  IInv'
<1> USE DEF Working
<1>1. /\ Whole(roster, hashed) /\ FileTyped /\ Stages
      /\ hashed \subseteq Units
      /\ roster.number \in [Units -> Int]
      /\ roster.race \in [Units -> BOOLEAN]
      /\ \A u \in hashed : roster.faction[u] \in Factions
      /\ 0 .. MaxNumber \subseteq Int /\ 1 .. MaxNumber \subseteq Int
  BY DEF IInv, Whole, Sound, Owned, IsRoster
<1> DEFINE Rest == file' = file /\ phase' = phase /\ sweeping' = sweeping
<1>2. ASSUME Whole(roster, hashed)', Rest, phase # "load", ~ sweeping
      PROVE  IInv'
  BY <1>1, <1>2 DEF IInv, FileTyped, Stages
<1>3. ASSUME NEW u \in Units, NEW f \in Factions, NEW n \in 0 .. MaxNumber,
             CreateUnit(u, f, n)
      PROVE  IInv'
  <2>1. Whole(Create(roster, u, f, n), hashed \cup {u})
    BY <1>1, <1>3, CreateWhole DEF CreateUnit, Free
  <2>. QED  BY <1>2, <1>3, <2>1 DEF CreateUnit
<1>4. ASSUME NEW u \in Units, NEW n \in 0 .. MaxNumber, ChangeNumber(u, n)
      PROVE  IInv'
  BY <1>1, <1>2, <1>4, NumbersWhole DEF ChangeNumber
<1>5. ASSUME NEW u \in Units, NEW v \in Units, NEW n \in 1 .. MaxNumber, GiveMen(u, v, n)
      PROVE  IInv'
  <2>1. roster.number[u] - n \in Int /\ roster.number[v] + n \in Int
    BY <1>1
  <2>2. Whole(SetNumber(roster, v, roster.number[v] + n), hashed)
    BY <1>1, <2>1, NumbersWhole
  <2>3. Whole(TransferMen(roster, u, v, n), hashed)
    BY <2>1, <2>2, NumbersWhole DEF TransferMen
  <2>. QED  BY <1>2, <1>5, <2>3 DEF GiveMen
<1>6. ASSUME NEW u \in Units, NEW t \in Units, NEW n \in 1 .. MaxNumber, Recruit(u, t, n)
      PROVE  IInv'
  <2>1. CASE roster.number[u] = 0
    BY <1>1, <1>2, <1>6, <2>1, NumbersWhole DEF Recruit
  <2>2. CASE roster.number[u] # 0
    <3>1. PICK a, b, c : /\ a = Create(roster, t, roster.faction[u], n)
                         /\ b = SetNumber(a, u, a.number[u] + n)
                         /\ c = SetNumber(b, t, a.number[t] - n)
      OBVIOUS
    <3>2. t \in Units \ hashed /\ ~ roster.race[t] /\ u \in hashed
      BY <1>6, <2>2 DEF Recruit, Free
    <3>3. Whole(a, hashed \cup {t})
      BY <1>1, <3>1, <3>2, CreateWhole
    <3>4. a.number[u] + n \in Int /\ a.number[t] - n \in Int
      BY <1>1, <3>2, <3>3 DEF Whole, Sound, IsRoster
    <3>5. Whole(b, hashed \cup {t})
      BY <3>1, <3>3, <3>4, NumbersWhole
    <3>6. Whole(c, hashed \cup {t})
      BY <3>1, <3>4, <3>5, NumbersWhole
    <3>7. Whole(Erase(c, t), (hashed \cup {t}) \ {t})
      BY <3>6, EraseWhole
    <3>8. roster' = Erase(c, t) /\ hashed' = (hashed \cup {t}) \ {t}
      BY <1>6, <2>2, <3>1, <3>2 DEF Recruit, TransferMen
    <3>. QED  BY <1>2, <1>6, <3>7, <3>8 DEF Recruit
  <2>. QED  BY <2>1, <2>2
<1>7. ASSUME NEW u \in Units, NEW v \in Units, TransferUnit(u, v)
      PROVE  IInv'
  BY <1>1, <1>2, <1>7, SetFactionWhole DEF TransferUnit
<1>8. ASSUME NEW u \in Units, NEW f \in FactionsOrNone, ScriptFaction(u, f)
      PROVE  IInv'
  BY <1>1, <1>2, <1>8, SetFactionWhole DEF ScriptFaction, faction_alive
<1>9. ASSUME NEW m \in Units, NEW u \in Units, CreateFamiliar(m, u)
      PROVE  IInv'
  <2>1. Whole(Create(roster, u, roster.faction[m], 1), hashed \cup {u})
    BY <1>1, <1>9, CreateWhole DEF CreateFamiliar, Free
  <2>. QED  BY <1>2, <1>9, <2>1 DEF CreateFamiliar
<1>10. ASSUME NEW m \in Units, NEW u \in Units, Charm(m, u)
       PROVE  IInv'
  BY <1>1, <1>2, <1>10, SetFactionWhole DEF Charm
<1>11. ASSUME NEW u \in Units, Release(u)
       PROVE  IInv'
  BY <1>1, <1>2, <1>11, SetFactionWhole DEF Release
<1>12. ASSUME NEW f \in Factions, NEW ghosts \in SUBSET Units, DestroyFaction(f, ghosts)
       PROVE  IInv'
  <2>1. PICK s : s = Depopulate(roster, Listed(roster, f) \cup doom[f])
    OBVIOUS
  <2>2. Whole(s, hashed)
    BY <1>1, <2>1, DepopulateSound DEF Whole
  <2>3. s.race = roster.race
    BY <1>1, <2>1, DepopulateSound DEF Whole
  <2>4. CASE ghosts = {} /\ roster' = s
    BY <1>2, <1>12, <2>2, <2>4 DEF DestroyFaction
  <2>5. ASSUME NEW g \in ghosts, ghosts = {g}, Free(g), roster' = Create(s, g, Monsters, 1)
        PROVE  IInv'
    <3>1. Whole(Create(s, g, Monsters, 1), hashed \cup {g})
      BY <2>2, <2>3, <2>5, CreateWhole, RosterAssumption DEF Free
    <3>. QED  BY <1>2, <1>12, <2>5, <3>1 DEF DestroyFaction
  <2>. QED  BY <1>12, <2>1, <2>4, <2>5 DEF DestroyFaction
<1>13. ASSUME NEW u \in Units, RemoveNow(u)
       PROVE  IInv'
  BY <1>1, <1>2, <1>13, RemoveUnitWhole DEF RemoveNow
<1>14. CASE BeginSweep
  BY <1>1, <1>14 DEF BeginSweep, IInv, FileTyped, Stages
<1>15. ASSUME NEW u \in Units, Sweep(u)
       PROVE  IInv'
  <2>1. PICK s : s = IF roster.number[u] > 0 /\ ~ faction_alive(roster.faction[u])
                     THEN SetNumber(roster, u, 0) ELSE roster
    OBVIOUS
  <2>2. Whole(s, hashed)
    BY <1>1, <2>1, NumbersWhole
  <2>3. /\ u \in hashed /\ u \in todo /\ sweeping /\ todo' = todo \ {u}
        /\ UNCHANGED <<sweeping, phase, file>>
    BY <1>1, <1>15 DEF Stages, Sweep
  <2>4. hashed' = hashed \ {u} \/ hashed' = hashed
    BY <1>15 DEF Sweep, RemoveUnit
  <2>5. Stages' /\ FileTyped'
    BY <1>1, <2>3, <2>4 DEF Stages, FileTyped
  <2>6. CASE RemoveUnit(s, u)
    BY <2>2, <2>3, <2>5, <2>6, RemoveUnitWhole DEF IInv
  <2>7. CASE roster' = s /\ hashed' = hashed
    BY <2>2, <2>5, <2>7 DEF IInv
  <2>. QED  BY <1>15, <2>1, <2>6, <2>7 DEF Sweep
<1>16. CASE EndSweep
  BY <1>1, <1>16 DEF EndSweep, AfterSweep, IInv, FileTyped, Stages
<1>17. CASE BeginQuit
  BY <1>1, <1>17 DEF BeginQuit, IInv, FileTyped, Stages
<1>18. CASE BeginTurnEnd
  BY <1>1, <1>18 DEF BeginTurnEnd, IInv, FileTyped, Stages
<1>19. CASE SaveGame
  <2>1. Whole(roster, hashed)'
    BY <1>19, EmptyWhole DEF SaveGame
  <2>2. FileTyped'
    BY <1>1, <1>19 DEF SaveGame, FileTyped
  <2>3. Stages'
    BY <1>19 DEF SaveGame, Stages, EmptyRoster
  <2>. QED  BY <2>1, <2>2, <2>3 DEF IInv
<1>20. ASSUME NEW u \in Units, ReadUnit(u)
       PROVE  IInv'
  <2>1. u \in Units \ hashed /\ ~ roster.race[u] /\ file[u].number \in Int
        /\ file[u].faction \in Factions
    BY <1>1, <1>20 DEF ReadUnit, Stages, FileTyped, faction_alive
  <2>2. roster.faction[u] = NoFaction
    BY <1>1, <2>1 DEF Whole
  <2>3. PICK f, n : f = file[u].faction /\ n = file[u].number
    OBVIOUS
  <2>4. /\ Whole(Read(roster, u, f, n), hashed \cup {u})
        /\ SameRaces(roster, Read(roster, u, f, n), u)
    BY <1>1, <2>1, <2>2, <2>3, ReadWhole
  <2>5. Stages'
    BY <1>1, <1>20, <2>3, <2>4 DEF ReadUnit, Stages, SameRaces
  <2>. QED  BY <1>1, <1>20, <2>3, <2>4, <2>5 DEF ReadUnit, IInv, FileTyped
<1>21. CASE EndLoad
  BY <1>1, <1>21 DEF EndLoad, IInv, FileTyped, Stages
<1>22. CASE UNCHANGED vars
  BY <1>1, <1>22 DEF vars, IInv, Whole, FileTyped, Stages
<1>. QED
  BY <1>3, <1>4, <1>5, <1>6, <1>7, <1>8, <1>9, <1>10, <1>11, <1>12, <1>13, <1>14,
     <1>15, <1>16, <1>17, <1>18, <1>19, <1>20, <1>21, <1>22 DEF Next

(* IInv holds in every state. *)
THEOREM Invariance ==
  ASSUME ~ ClearedByScript
  PROVE  Spec => []IInv
<1>1. Init => IInv
  BY InitWhole
<1>2. IInv /\ [Next]_vars => IInv'
  BY NextWhole
<1>. QED  BY <1>1, <1>2, PTL DEF Spec

(* Every faction's list holds exactly its living units. *)
THEOREM CompleteLists ==
  ASSUME ~ ClearedByScript
  PROVE  Spec => []ListsAreComplete
<1>1. IInv => ListsAreComplete
  BY DEF IInv, Whole, Sound, Complete, MembersOf, ListsAreComplete, Members
<1>. QED  BY <1>1, Invariance, PTL

(* prevF is the inverse of nextF on these lists. *)
THEOREM SoundBackLinks ==
  ASSUME ~ ClearedByScript
  PROVE  Spec => []BackLinks
<1>1. IInv => BackLinks
  BY DEF IInv, Whole, Sound, Linked, BackLinks
<1>. QED  BY <1>1, Invariance, PTL

(* num_units is the number of a faction's living units. *)
THEOREM CountedUnits ==
  ASSUME ~ ClearedByScript
  PROVE  Spec => []UnitsCounted
<1>1. ASSUME IInv PROVE UnitsCounted
  <2>1. ASSUME NEW f \in Factions
        PROVE  {u \in MembersOf(roster, hashed, f) : roster.race[u]} = Members(f)
    BY <1>1 DEF IInv, Whole, MembersOf, Members
  <2>. QED  BY <1>1, <2>1 DEF IInv, Whole, Sound, Counted, UnitsCounted
<1>. QED  BY <1>1, Invariance, PTL

-----------------------------------------------------------------------------
(* Numbers, factions and races after each operator on the structs. *)

Same(s, t) == t.number = s.number /\ t.faction = s.faction /\ t.race = s.race

LEMMA SetNumberFields ==
  ASSUME NEW s, IsRoster(s), NEW u \in Units, NEW n \in Int
  PROVE  /\ IsRoster(SetNumber(s, u, n))
         /\ SetNumber(s, u, n).number = [s.number EXCEPT ![u] = n]
         /\ SetNumber(s, u, n).faction = s.faction
         /\ SetNumber(s, u, n).race = s.race
BY DEF IsRoster, Fields, SetNumber

LEMMA DepopulateFields ==
  ASSUME NEW s, IsRoster(s), NEW S
  PROVE  /\ IsRoster(Depopulate(s, S))
         /\ Depopulate(s, S).number = [v \in Units |-> IF v \in S THEN 0 ELSE s.number[v]]
         /\ Depopulate(s, S).faction = s.faction
         /\ Depopulate(s, S).race = s.race
BY DEF IsRoster, Fields, Depopulate

LEMMA SetRaceFields ==
  ASSUME NEW s, IsRoster(s), NEW u \in Units
  PROVE  /\ IsRoster(SetRace(s, u))
         /\ SetRace(s, u).number = s.number
         /\ SetRace(s, u).faction = s.faction
         /\ SetRace(s, u).race = [s.race EXCEPT ![u] = TRUE]
BY DEF IsRoster, Fields, SetRace

LEMMA SetFactionFields ==
  ASSUME NEW s, IsRoster(s), NEW u \in Units, NEW f \in Factions
  PROVE  /\ IsRoster(SetFaction(s, u, f))
         /\ SetFaction(s, u, f).number = s.number
         /\ SetFaction(s, u, f).faction = [s.faction EXCEPT ![u] = f]
         /\ SetFaction(s, u, f).race = s.race
<1>1. CASE s.faction[u] = f
  BY <1>1 DEF SetFaction, IsRoster
<1>2. CASE s.faction[u] # f
  <2>1. PICK t : t = Unlink(s, u)
    OBVIOUS
  <2>2. t.number = s.number /\ t.race = s.race
    BY <2>1 DEF Unlink, Bypass, IsRoster, Fields
  <2>3. IsRoster(t) /\ \A v \in Units \ {u} : t.faction[v] = s.faction[v]
    <3>1. CASE s.faction[u] \in Factions
      <4>1. PICK g, p, n : g = s.faction[u] /\ p = s.prevF[u] /\ n = s.nextF[u]
        OBVIOUS
      <4>2. IsRoster(t) /\ Unlinked(s, t, u, g, p, n)
        BY <2>1, <3>1, <4>1, UnlinkFields
      <4>. QED  BY <4>2 DEF Unlinked
    <3>2. CASE s.faction[u] \notin Factions
      BY <2>1, <3>2 DEF Unlink
    <3>. QED  BY <3>1, <3>2
  <2>4. IsRoster(Link(t, u, f))
    BY <2>3, LinkFields
  <2>5. /\ Link(t, u, f).number = t.number /\ Link(t, u, f).race = t.race
        /\ Link(t, u, f).faction = [t.faction EXCEPT ![u] = f]
    BY <2>3 DEF IsRoster, Link, Fields
  <2>6. SetFaction(s, u, f) = Link(t, u, f)
    BY <1>2, <2>1 DEF SetFaction
  <2>7. [t.faction EXCEPT ![u] = f] = [s.faction EXCEPT ![u] = f]
    BY <2>3 DEF IsRoster
  <2>. QED  BY <2>2, <2>4, <2>5, <2>6, <2>7
<1>. QED  BY <1>1, <1>2

LEMMA EraseNumbers ==
  ASSUME NEW s, IsRoster(s), NEW u \in Units
  PROVE  /\ Erase(s, u).number = [s.number EXCEPT ![u] = 0]
         /\ Erase(s, u).faction = s.faction
         /\ Erase(s, u).race = s.race
<1>1. PICK t : t = SetNumber(s, u, 0)
  OBVIOUS
<1>2. /\ DOMAIN t = Fields /\ t.number = [s.number EXCEPT ![u] = 0]
      /\ t.faction = s.faction /\ t.race = s.race
  BY <1>1 DEF IsRoster, Fields, SetNumber
<1>3. PICK b : b = Bypass(t, u)
  OBVIOUS
<1>4. DOMAIN b = Fields /\ Same(t, b)
  BY <1>2, <1>3 DEF Bypass, Fields, Same
<1>. QED  BY <1>1, <1>2, <1>3, <1>4 DEF Erase, Fields, Same

(* u is now a unit of f with n persons, and has a race. *)
Becomes(s, t, u, f, n) ==
  /\ IsRoster(t)
  /\ t.number = [s.number EXCEPT ![u] = n]
  /\ t.faction = [s.faction EXCEPT ![u] = f]
  /\ t.race = [s.race EXCEPT ![u] = TRUE]

(* create_unit, read_unit and make_zombie differ in their order alone. *)
LEMMA UnitFields ==
  ASSUME NEW s, IsRoster(s), NEW u \in Units, NEW f \in Factions, NEW n \in Int
  PROVE  /\ Becomes(s, Create(s, u, f, n), u, f, n)
         /\ Becomes(s, Read(s, u, f, n), u, f, n)
<1>1. PICK a, b, c : /\ a = SetRace(s, u)
                     /\ b = SetFaction(a, u, f)
                     /\ c = SetNumber(b, u, n)
  OBVIOUS
<1>2. IsRoster(a) /\ a.number = s.number /\ a.faction = s.faction
      /\ a.race = [s.race EXCEPT ![u] = TRUE]
  BY <1>1, SetRaceFields
<1>3. IsRoster(b) /\ b.number = s.number /\ b.race = a.race
      /\ b.faction = [s.faction EXCEPT ![u] = f]
  BY <1>1, <1>2, SetFactionFields
<1>4. Becomes(s, c, u, f, n)
  BY <1>1, <1>2, <1>3, SetNumberFields DEF Becomes
<1>5. PICK d, e, g : /\ d = SetFaction(s, u, f)
                     /\ e = SetNumber(d, u, n)
                     /\ g = SetRace(e, u)
  OBVIOUS
<1>6. IsRoster(d) /\ d.number = s.number /\ d.race = s.race
      /\ d.faction = [s.faction EXCEPT ![u] = f]
  BY <1>5, SetFactionFields
<1>7. IsRoster(e) /\ e.race = s.race /\ e.faction = d.faction
      /\ e.number = [s.number EXCEPT ![u] = n]
  BY <1>5, <1>6, SetNumberFields
<1>8. /\ IsRoster(g) /\ g.number = e.number /\ g.faction = e.faction
      /\ g.race = [e.race EXCEPT ![u] = TRUE]
  BY <1>5, <1>7, SetRaceFields
<1>9. Becomes(s, g, u, f, n)
  BY <1>6, <1>7, <1>8 DEF Becomes
<1>. QED  BY <1>1, <1>4, <1>5, <1>9 DEF Create, Read

(* n persons of u have become persons of v. *)
Transferred(s, t, u, v, n) ==
  /\ t.race = s.race
  /\ \A w \in Units : t.number[w] =
       IF w = u THEN s.number[w] - n ELSE IF w = v THEN s.number[w] + n ELSE s.number[w]

LEMMA TransferFields ==
  ASSUME NEW s, IsRoster(s), NEW u \in Units, NEW v \in Units, u # v, NEW n \in Int,
         NEW t, t = TransferMen(s, u, v, n)
  PROVE  IsRoster(t) /\ Transferred(s, t, u, v, n)
<1>1. PICK a : a = SetNumber(s, v, s.number[v] + n)
  OBVIOUS
<1>2. s.number[v] + n \in Int /\ s.number[u] - n \in Int
  BY DEF IsRoster
<1>3. IsRoster(a) /\ a.race = s.race /\ a.number = [s.number EXCEPT ![v] = s.number[v] + n]
  BY <1>1, <1>2, SetNumberFields
<1>4. /\ IsRoster(SetNumber(a, u, s.number[u] - n))
      /\ SetNumber(a, u, s.number[u] - n).race = a.race
      /\ SetNumber(a, u, s.number[u] - n).number = [a.number EXCEPT ![u] = s.number[u] - n]
  BY <1>2, <1>3, SetNumberFields
<1>5. PICK b : b = SetNumber(a, u, s.number[u] - n)
  OBVIOUS
<1>6. b = TransferMen(s, u, v, n)
  BY <1>1, <1>5 DEF TransferMen
<1>7. IsRoster(b) /\ b.race = s.race /\ b.number = [a.number EXCEPT ![u] = s.number[u] - n]
  BY <1>3, <1>4, <1>5
<1>8. \A w \in Units : b.number[w] =
        IF w = u THEN s.number[w] - n ELSE IF w = v THEN s.number[w] + n ELSE s.number[w]
  BY <1>3, <1>7 DEF IsRoster
<1>. QED  BY <1>3, <1>6, <1>7, <1>8 DEF Transferred

-----------------------------------------------------------------------------
(* The inductive invariant, relative to that of RosterProofs. *)

(* A unit whose end kills others is not killed by the end of another, and  *)
(* only a unit in use has such a trigger.                                  *)
Enchantments ==
  /\ doom \in [Units \cup Factions -> SUBSET Units]
  /\ \A v \in Units : \A u \in doom[v] : doom[u] = {}
  /\ \A u \in Units :
       doom[u] # {} => roster.race[u] \/ (phase = "load" /\ u \in DOMAIN file)

Natural(s) == \A u \in Units : s.number[u] >= 0

Naturals == Natural(roster) /\ \A u \in DOMAIN file : file[u].number >= 0

Lives(u) == roster.number[u] > 0 /\ faction_alive(roster.faction[u])

Doomed == UNION {doom[v] : v \in Units}

LivesOrDoomed(u) == Lives(u) \/ (roster.number[u] = 0 /\ u \in Doomed)

(* What the two sweeps of the turn's end have done so far. *)
Swept ==
  /\ phase = "ageing" /\ sweeping => \A u \in hashed \ todo : LivesOrDoomed(u)
  /\ phase = "ended" => \A u \in hashed : LivesOrDoomed(u)
  /\ phase = "ended" /\ sweeping => \A u \in hashed \ todo : Lives(u)
  /\ phase = "reported" => \A u \in hashed : Lives(u)

SInv == IInv /\ Enchantments /\ Naturals /\ Swept

-----------------------------------------------------------------------------
(* remove_unit: the units named by u's trigger lose their persons, the     *)
(* others keep theirs; u is gone, or one zombie of the monsters.           *)
Died(s, u) ==
  /\ \A v \in Units \ {u} :
       /\ roster'.number[v] = IF v \in doom[u] THEN 0 ELSE s.number[v]
       /\ roster'.faction[v] = s.faction[v]
  /\ hashed' \subseteq hashed
  /\ u \in hashed' => roster'.number[u] = 1 /\ roster'.faction[u] = Monsters

KeepsRaces(s, t) == \A v \in Units : s.race[v] => t.race[v]

RacesKept(s) == KeepsRaces(s, roster')

LEMMA RemoveUnitNumbers ==
  ASSUME NEW s, IsRoster(s), Natural(s), NEW u \in Units, RemoveUnit(s, u)
  PROVE  Died(s, u) /\ RacesKept(s) /\ Natural(roster')
<1>1. PICK t : t = Depopulate(s, doom[u])
  OBVIOUS
<1>2. /\ IsRoster(t) /\ t.faction = s.faction /\ t.race = s.race
      /\ \A v \in Units : t.number[v] = IF v \in doom[u] THEN 0 ELSE s.number[v]
  <2>1. t.number = [v \in Units |-> IF v \in doom[u] THEN 0 ELSE s.number[v]]
    BY <1>1, DepopulateFields
  <2>. QED  BY <1>1, <2>1, DepopulateFields
<1>3. CASE roster' = Erase(t, u) /\ hashed' = hashed \ {u}
  <2>1. /\ roster'.number = [t.number EXCEPT ![u] = 0]
        /\ roster'.faction = t.faction /\ roster'.race = t.race
    BY <1>2, <1>3, EraseNumbers
  <2>. QED  BY <1>2, <1>3, <2>1 DEF Died, RacesKept, KeepsRaces, Natural, IsRoster
<1>4. CASE roster' = Zombie(t, u) /\ hashed' = hashed
  <2>1. PICK a, b : a = SetFaction(t, u, Monsters) /\ b = SetNumber(a, u, 1)
    OBVIOUS
  <2>2. IsRoster(a) /\ a.number = t.number /\ a.race = t.race
        /\ a.faction = [t.faction EXCEPT ![u] = Monsters]
    BY <1>2, <2>1, SetFactionFields, RosterAssumption
  <2>3. IsRoster(b) /\ b.race = t.race /\ b.faction = a.faction
        /\ b.number = [t.number EXCEPT ![u] = 1]
    BY <2>1, <2>2, SetNumberFields
  <2>4. /\ roster'.number = b.number /\ roster'.faction = b.faction
        /\ roster'.race = [b.race EXCEPT ![u] = TRUE]
    BY <1>4, <2>1, <2>3, SetRaceFields DEF Zombie
  <2>. QED  BY <1>2, <1>4, <2>2, <2>3, <2>4 DEF Died, RacesKept, KeepsRaces, Natural, IsRoster
<1>. QED  BY <1>1, <1>3, <1>4 DEF RemoveUnit

(* The step of a sweep that removes u, or leaves it as it is. *)
LEMMA SweepNumbers ==
  ASSUME NEW u \in Units, Sweep(u), IsRoster(roster), Natural(roster), hashed \subseteq Units
  PROVE  /\ RacesKept(roster) /\ Natural(roster')
         /\ Lives(u) => /\ UNCHANGED <<roster, hashed>>
         /\ ~ Lives(u) => Died(roster, u)
<1>1. PICK s : s = IF roster.number[u] > 0 /\ ~ faction_alive(roster.faction[u])
                   THEN SetNumber(roster, u, 0) ELSE roster
  OBVIOUS
<1>2. CASE Lives(u)
  <2>1. s = roster /\ s.number[u] # 0
    BY <1>1, <1>2 DEF Lives, IsRoster
  <2>. QED  BY <1>1, <1>2, <2>1 DEF Sweep, Natural, RacesKept, KeepsRaces
<1>3. CASE ~ Lives(u)
  <2>1. /\ IsRoster(s) /\ s.number = [roster.number EXCEPT ![u] = 0]
        /\ s.faction = roster.faction /\ s.race = roster.race
    <3>1. CASE roster.number[u] > 0
      BY <1>1, <1>3, <3>1, SetNumberFields DEF Lives
    <3>2. CASE ~ (roster.number[u] > 0)
      <4>1. s = roster
        BY <1>1, <3>2
      <4>2. roster.number[u] = 0 /\ roster.number \in [Units -> Int]
        BY <3>2 DEF Natural, IsRoster
      <4>. QED  BY <4>1, <4>2
    <3>. QED  BY <3>1, <3>2
  <2>2. s.number[u] = 0 /\ Natural(s) /\ \A v \in Units \ {u} : s.number[v] = roster.number[v]
    BY <2>1 DEF Natural, IsRoster
  <2>3. RemoveUnit(s, u)
    BY <1>1, <2>2 DEF Sweep
  <2>4. Died(s, u) /\ RacesKept(s) /\ Natural(roster')
    BY <2>1, <2>2, <2>3, RemoveUnitNumbers
  <2>. QED  BY <1>3, <2>1, <2>2, <2>4 DEF Died, RacesKept, KeepsRaces
<1>. QED  BY <1>2, <1>3

(* A sweep never kills a unit it has passed that nothing is to kill, and   *)
(* the second one kills nobody it has passed.                              *)
LEMMA SweepSwept ==
  ASSUME NEW u \in Units, Sweep(u), SInv
  PROVE  Swept'
<1>1. /\ IsRoster(roster) /\ hashed \subseteq Units /\ Natural(roster)
      /\ Enchantments /\ Swept
  BY DEF SInv, IInv, Whole, Sound, Owned, Naturals
<1>2. /\ Lives(u) => /\ UNCHANGED <<roster, hashed>>
      /\ ~ Lives(u) => Died(roster, u)
  BY <1>1, SweepNumbers
<1>3. /\ todo' = todo \ {u} /\ u \in todo
      /\ UNCHANGED <<phase, sweeping, alive, doom>> /\ sweeping
  BY DEF Sweep
<1>4. hashed' \subseteq hashed
  BY <1>2 DEF Died
<1>5. u \in hashed' => Lives(u)'
  BY <1>2, <1>3, RosterAssumption DEF Died, Lives, faction_alive
<1>6. ASSUME NEW v \in hashed', v # u
      PROVE  \/ Lives(v) => Lives(v)'
             \/ v \in doom[u] /\ roster'.number[v] = 0
  BY <1>1, <1>2, <1>3, <1>4, <1>6 DEF Died, Lives, faction_alive
<1>7. ASSUME NEW v \in hashed', v # u, LivesOrDoomed(v)
      PROVE  LivesOrDoomed(v)'
  <2>1. CASE v \in doom[u] /\ roster'.number[v] = 0
    BY <1>3, <2>1 DEF LivesOrDoomed, Doomed
  <2>2. CASE roster.number[v] = 0 /\ v \in Doomed
    <3>1. roster'.number[v] = 0
      BY <1>1, <1>2, <1>4, <1>7, <2>2 DEF Died
    <3>. QED  BY <1>3, <2>2, <3>1 DEF LivesOrDoomed, Doomed
  <2>. QED  BY <1>6, <1>7, <2>1, <2>2 DEF LivesOrDoomed
<1>8. ASSUME phase = "ended", NEW v \in hashed', v # u, Lives(v)
      PROVE  Lives(v)'
  <2>1. CASE Lives(u)
    BY <1>2, <1>3, <1>8, <2>1 DEF Lives, faction_alive
  <2>2. CASE ~ Lives(u)
    <3>1. u \in Doomed
      BY <1>1, <1>8, <2>2, <1>3 DEF Swept, LivesOrDoomed, SInv, IInv, Stages
    <3>2. doom[u] = {}
      BY <1>1, <3>1 DEF Doomed, Enchantments
    <3>. QED  BY <1>6, <1>8, <3>2
  <2>. QED  BY <2>1, <2>2
<1>9. phase # "reported"
  BY <1>3 DEF SInv, IInv, Stages
<1>. QED
  BY <1>1, <1>3, <1>4, <1>5, <1>7, <1>8, <1>9 DEF Swept, LivesOrDoomed

-----------------------------------------------------------------------------
(* The game starts without enchantments and without units. *)
LEMMA InitSwept == Init => SInv
BY InitWhole DEF Init, SInv, Enchantments, Naturals, Natural, Swept, EmptyRoster

(* A unit that gets n persons and a race leaves the other numbers alone. *)
LEMMA BecomesNatural ==
  ASSUME NEW s, IsRoster(s), Natural(s), NEW u \in Units, NEW f, NEW n \in Nat,
         NEW t, Becomes(s, t, u, f, n)
  PROVE  Natural(t) /\ t.race[u] /\ KeepsRaces(s, t)
BY DEF Becomes, Natural, IsRoster, KeepsRaces

(* u_setfaction changes neither numbers nor races. *)
LEMMA MoveNatural ==
  ASSUME NEW s, IsRoster(s), Natural(s), NEW u \in Units, NEW f \in Factions,
         NEW t, t = SetFaction(s, u, f)
  PROVE  Natural(t) /\ KeepsRaces(s, t)
<1>1. t.number = s.number /\ t.race = s.race
  BY SetFactionFields
<1>. QED  BY <1>1 DEF Natural, KeepsRaces

(* Every operation keeps the invariant. *)
LEMMA NextSwept ==
  ASSUME ~ ClearedByScript, SInv, [Next]_vars
  PROVE  SInv'
<1> USE DEF Working
<1>1. /\ IInv' /\ IsRoster(roster) /\ Natural(roster) /\ hashed \subseteq Units
      /\ roster.number \in [Units -> Int] /\ roster.race \in [Units -> BOOLEAN]
      /\ \A u \in hashed : roster.race[u] /\ roster.faction[u] \in Factions
      /\ Enchantments /\ Naturals /\ Swept /\ Stages
      /\ 0 .. MaxNumber \subseteq Nat /\ 1 .. MaxNumber \subseteq Nat
  BY NextWhole DEF SInv, IInv, Whole, Sound, Owned, IsRoster, Naturals
<1> DEFINE Rest == /\ UNCHANGED <<file, phase, sweeping>>
                   /\ phase \in {"orders", "quit", "ageing"} /\ ~ sweeping
<1>2. ASSUME Natural(roster'), RacesKept(roster), Rest, doom' = doom
      PROVE  SInv'
  BY <1>1, <1>2 DEF SInv, Enchantments, Naturals, Natural, Swept, RacesKept, KeepsRaces
<1>3. ASSUME NEW u \in Units, NEW f \in Factions, NEW n \in 0 .. MaxNumber,
             CreateUnit(u, f, n)
      PROVE  SInv'
  <2>1. Becomes(roster, roster', u, f, n)
    BY <1>1, <1>3, UnitFields DEF CreateUnit
  <2>. QED  BY <1>1, <1>2, <1>3, <2>1, BecomesNatural DEF CreateUnit, RacesKept
<1>4. ASSUME NEW u \in Units, NEW n \in 0 .. MaxNumber, ChangeNumber(u, n)
      PROVE  SInv'
  <2>1. roster'.number = [roster.number EXCEPT ![u] = n] /\ roster'.race = roster.race
    BY <1>1, <1>4, SetNumberFields DEF ChangeNumber
  <2>. QED  BY <1>1, <1>2, <1>4, <2>1 DEF ChangeNumber, Natural, RacesKept, KeepsRaces
<1>5. ASSUME NEW u \in Units, NEW v \in Units, NEW n \in 1 .. MaxNumber, GiveMen(u, v, n)
      PROVE  SInv'
  <2>1. u # v /\ roster' = TransferMen(roster, u, v, n) /\ roster.number[u] >= n /\ n \in Int
    BY <1>1, <1>5 DEF GiveMen
  <2>2. Transferred(roster, roster', u, v, n)
    BY <1>1, <2>1, TransferFields
  <2>. QED  BY <1>1, <1>2, <1>5, <2>1, <2>2 DEF GiveMen, Natural, RacesKept, KeepsRaces, Transferred
<1>6. ASSUME NEW u \in Units, NEW t \in Units, NEW n \in 1 .. MaxNumber, Recruit(u, t, n)
      PROVE  SInv'
  <2>1. CASE roster.number[u] = 0
    <3>1. roster'.number = [roster.number EXCEPT ![u] = n] /\ roster'.race = roster.race
      BY <1>1, <1>6, <2>1, SetNumberFields DEF Recruit
    <3>. QED  BY <1>1, <1>2, <1>6, <3>1 DEF Recruit, Natural, RacesKept, KeepsRaces
  <2>2. CASE roster.number[u] # 0
    <3>1. PICK a, b : /\ a = Create(roster, t, roster.faction[u], n)
                      /\ b = TransferMen(a, t, u, n)
      OBVIOUS
    <3>2. u \in hashed /\ t # u /\ roster' = Erase(b, t)
      BY <1>6, <2>2, <3>1 DEF Recruit, Free
    <3>3. Becomes(roster, a, t, roster.faction[u], n)
      BY <1>1, <3>1, <3>2, UnitFields
    <3>4. IsRoster(a) /\ Natural(a) /\ a.number[t] = n
          /\ KeepsRaces(roster, a)
      <4>1. Natural(a) /\ KeepsRaces(roster, a)
        BY <1>1, <1>6, <3>3, BecomesNatural
      <4>2. IsRoster(a) /\ a.number = [roster.number EXCEPT ![t] = n]
        BY <3>3 DEF Becomes
      <4>3. a.number[t] = n
        BY <1>1, <1>6, <4>2 DEF IsRoster
      <4>. QED  BY <4>1, <4>2, <4>3
    <3>5. IsRoster(b) /\ Transferred(a, b, t, u, n)
      BY <1>1, <3>1, <3>2, <3>4, TransferFields
    <3>6. Natural(b) /\ b.race = a.race
      BY <1>1, <3>4, <3>5 DEF Natural, IsRoster, Transferred
    <3>7. roster'.number = [b.number EXCEPT ![t] = 0] /\ roster'.race = b.race
      BY <3>2, <3>5, EraseNumbers
    <3>8. Natural(roster') /\ RacesKept(roster)
      BY <3>4, <3>5, <3>6, <3>7 DEF Natural, RacesKept, IsRoster, KeepsRaces
    <3>. QED  BY <1>2, <1>6, <3>8 DEF Recruit
  <2>. QED  BY <2>1, <2>2
<1>7. ASSUME NEW u \in Units, NEW v \in Units, TransferUnit(u, v)
      PROVE  SInv'
  <2>1. PICK g \in Factions : roster' = SetFaction(roster, u, g)
    BY <1>1, <1>7 DEF TransferUnit
  <2>2. Natural(roster') /\ RacesKept(roster)
    BY <1>1, <2>1, MoveNatural DEF RacesKept
  <2>. QED  BY <1>2, <1>7, <2>2 DEF TransferUnit
<1>8. ASSUME NEW u \in Units, NEW f \in FactionsOrNone, ScriptFaction(u, f)
      PROVE  SInv'
  <2>1. PICK g \in Factions : roster' = SetFaction(roster, u, g)
    BY <1>1, <1>8 DEF ScriptFaction, faction_alive
  <2>2. Natural(roster') /\ RacesKept(roster)
    BY <1>1, <2>1, MoveNatural DEF RacesKept
  <2>. QED  BY <1>2, <1>8, <2>2 DEF ScriptFaction
<1>9. ASSUME NEW m \in Units, NEW u \in Units, CreateFamiliar(m, u)
      PROVE  SInv'
  <2>1. Becomes(roster, roster', u, roster.faction[m], 1)
    BY <1>1, <1>9, UnitFields DEF CreateFamiliar
  <2>2. Natural(roster') /\ roster'.race[u] /\ RacesKept(roster)
    BY <1>1, <2>1, BecomesNatural DEF RacesKept
  <2>3. /\ doom' = [doom EXCEPT ![m] = {u}] /\ m # u
        /\ ~ roster.race[u] /\ \A v \in Units : m \notin doom[v]
        /\ phase = "orders" /\ roster.race[m]
        /\ UNCHANGED <<file, phase, sweeping>> /\ ~ sweeping
    BY <1>1, <1>9 DEF CreateFamiliar, Free
  <2>4. doom[u] = {}
    BY <1>1, <2>3 DEF Enchantments
  <2>5. Enchantments'
    <3>1. doom' \in [Units \cup Factions -> SUBSET Units]
      BY <1>1, <2>3 DEF Enchantments
    <3>2. \A v \in Units : \A w \in doom'[v] : doom'[w] = {}
      BY <1>1, <2>3, <2>4 DEF Enchantments
    <3>3. \A v \in Units : doom'[v] # {} => roster'.race[v]
      BY <1>1, <2>2, <2>3 DEF Enchantments, RacesKept, KeepsRaces
    <3>. QED  BY <3>1, <3>2, <3>3 DEF Enchantments
  <2>. QED  BY <1>1, <2>2, <2>3, <2>5 DEF SInv, Naturals, Natural, Swept
<1>10. ASSUME NEW m \in Units, NEW u \in Units, Charm(m, u)
       PROVE  SInv'
  <2>1. Natural(roster') /\ RacesKept(roster)
    <3>1. PICK g \in Factions : roster' = SetFaction(roster, u, g)
      BY <1>10 DEF Charm
    <3>. QED  BY <1>1, <3>1, MoveNatural DEF RacesKept
  <2>2. /\ doom' \in [Units \cup Factions -> SUBSET Units]
        /\ \A v \in Units : doom'[v] = doom[v]
    BY <1>1, <1>10, RosterAssumption DEF Charm, Enchantments
  <2>3. phase = "orders" /\ UNCHANGED <<file, phase, sweeping>> /\ ~ sweeping
    BY <1>10 DEF Charm
  <2>4. Enchantments'
    BY <1>1, <2>1, <2>2, <2>3 DEF Enchantments, RacesKept, KeepsRaces
  <2>. QED  BY <1>1, <2>1, <2>3, <2>4 DEF SInv, Naturals, Natural, Swept
<1>11. ASSUME NEW u \in Units, Release(u)
       PROVE  SInv'
  <2>1. PICK g \in Factions : roster' = SetFaction(roster, u, g)
    BY <1>1, <1>11 DEF Release
  <2>2. Natural(roster') /\ RacesKept(roster)
    BY <1>1, <2>1, MoveNatural DEF RacesKept
  <2>. QED  BY <1>2, <1>11, <2>2 DEF Release
<1>12. ASSUME NEW f \in Factions, NEW ghosts \in SUBSET Units, DestroyFaction(f, ghosts)
       PROVE  SInv'
  <2>1. PICK s : s = Depopulate(roster, Listed(roster, f) \cup doom[f])
    OBVIOUS
  <2>2. /\ IsRoster(s) /\ s.race = roster.race
        /\ s.number = [v \in Units |-> IF v \in Listed(roster, f) \cup doom[f]
                                       THEN 0 ELSE roster.number[v]]
    BY <1>1, <2>1, DepopulateFields
  <2>3. Natural(s)
    BY <1>1, <2>2 DEF Natural
  <2>4. CASE roster' = s
    BY <1>2, <1>12, <2>2, <2>3, <2>4 DEF DestroyFaction, RacesKept, KeepsRaces
  <2>5. ASSUME NEW g \in ghosts, roster' = Create(s, g, Monsters, 1)
        PROVE  SInv'
    <3>1. Becomes(s, roster', g, Monsters, 1)
      BY <2>2, <2>5, UnitFields, RosterAssumption
    <3>2. Natural(roster') /\ RacesKept(roster)
      BY <2>2, <2>3, <3>1, BecomesNatural DEF RacesKept, KeepsRaces
    <3>. QED  BY <1>2, <1>12, <3>2 DEF DestroyFaction
  <2>. QED  BY <1>12, <2>1, <2>4, <2>5 DEF DestroyFaction
<1>13. ASSUME NEW u \in Units, RemoveNow(u)
       PROVE  SInv'
  BY <1>1, <1>2, <1>13, RemoveUnitNumbers DEF RemoveNow
<1>14. CASE BeginSweep
  BY <1>1, <1>14 DEF BeginSweep, SInv, Enchantments, Naturals, Natural, Swept,
     LivesOrDoomed, Lives, Doomed, faction_alive
<1>15. ASSUME NEW u \in Units, Sweep(u)
       PROVE  SInv'
  <2>1. RacesKept(roster) /\ Natural(roster')
    BY <1>1, <1>15, SweepNumbers
  <2>2. Swept'
    BY <1>15, SweepSwept
  <2>3. UNCHANGED <<doom, phase, file>>
    BY <1>15 DEF Sweep
  <2>4. Enchantments' /\ Naturals'
    BY <1>1, <2>1, <2>3 DEF Enchantments, Naturals, Natural, RacesKept, KeepsRaces
  <2>. QED  BY <1>1, <2>2, <2>4 DEF SInv
<1>16. CASE EndSweep
  <2>1. /\ UNCHANGED <<roster, hashed, doom, file, alive>> /\ ~ sweeping'
        /\ sweeping /\ todo = {} /\ phase' = AfterSweep[phase]
    BY <1>16 DEF EndSweep
  <2>2. /\ phase' = "ended" => phase = "ageing"
        /\ phase' = "reported" => phase = "ended"
        /\ phase # "load"
    BY <1>1, <2>1 DEF Stages, AfterSweep
  <2>3. Swept'
    BY <1>1, <2>1, <2>2 DEF Swept, LivesOrDoomed, Lives, Doomed, faction_alive
  <2>. QED  BY <1>1, <2>1, <2>2, <2>3 DEF SInv, Enchantments, Naturals, Natural
<1>17. CASE BeginQuit
  BY <1>1, <1>17 DEF BeginQuit, SInv, Enchantments, Naturals, Natural, Swept
<1>18. CASE BeginTurnEnd
  BY <1>1, <1>18 DEF BeginTurnEnd, SInv, Enchantments, Naturals, Natural, Swept
<1>19. CASE SaveGame
  <2>1. /\ \A v \in Units : doom'[v] = IF v \in hashed THEN doom[v] \cap hashed ELSE {}
        /\ doom' \in [Units \cup Factions -> SUBSET Units]
    BY <1>1, <1>19, RosterAssumption DEF SaveGame, faction_alive, Enchantments
  <2>2. phase' = "load" /\ DOMAIN file' = hashed /\ roster' = EmptyRoster
        /\ \A v \in hashed : file'[v].number = roster.number[v]
    BY <1>19 DEF SaveGame
  <2>3. Enchantments'
    BY <1>1, <2>1, <2>2 DEF Enchantments
  <2>4. Naturals' /\ Swept'
    BY <1>1, <2>2 DEF Naturals, Natural, EmptyRoster, Swept
  <2>. QED  BY <1>1, <2>3, <2>4 DEF SInv
<1>20. ASSUME NEW u \in Units, ReadUnit(u)
       PROVE  SInv'
  <2>1. file[u].faction \in Factions /\ file[u].number \in Nat
    BY <1>1, <1>20 DEF ReadUnit, faction_alive, Naturals, SInv, IInv, FileTyped
  <2>2. Becomes(roster, roster', u, file[u].faction, file[u].number)
    BY <1>1, <1>20, <2>1, UnitFields DEF ReadUnit
  <2>3. Natural(roster') /\ RacesKept(roster)
    BY <1>1, <2>1, <2>2, BecomesNatural DEF RacesKept
  <2>4. phase = "load" /\ UNCHANGED <<doom, phase, file, sweeping>>
    BY <1>20 DEF ReadUnit
  <2>5. Enchantments' /\ Naturals'
    BY <1>1, <2>3, <2>4 DEF Enchantments, Naturals, Natural, RacesKept, KeepsRaces
  <2>6. Swept'
    BY <2>4 DEF Swept
  <2>. QED  BY <1>1, <2>5, <2>6 DEF SInv
<1>21. CASE EndLoad
  BY <1>1, <1>21 DEF EndLoad, SInv, Enchantments, Naturals, Natural, Swept
<1>22. CASE UNCHANGED vars
  BY <1>1, <1>22 DEF vars, SInv, Enchantments, Naturals, Natural, Swept,
     LivesOrDoomed, Lives, Doomed, faction_alive
<1>. QED
  BY <1>3, <1>4, <1>5, <1>6, <1>7, <1>8, <1>9, <1>10, <1>11, <1>12, <1>13, <1>14,
     <1>15, <1>16, <1>17, <1>18, <1>19, <1>20, <1>21, <1>22 DEF Next

(* Every unit that is written has persons and a living faction, so what is *)
(* written can be read again: two sweeps of remove_empty_units are enough, *)
(* whatever order each takes the units in.                                 *)
THEOREM NoGhostsOnFile ==
  ASSUME ~ ClearedByScript
  PROVE  Spec => []WrittenUnitsLive
<1>1. Init => SInv
  BY InitSwept
<1>2. SInv /\ [Next]_vars => SInv'
  BY NextSwept
<1>3. SInv => WrittenUnitsLive
  BY DEF SInv, Swept, Lives, WrittenUnitsLive
<1>. QED  BY <1>1, <1>2, <1>3, PTL DEF Spec

-----------------------------------------------------------------------------
(* How many persons each faction has. *)

(* What each unit adds to num_people of f. *)
Counts(s, f) == [u \in Units |-> IF s.faction[u] = f /\ s.race[u] THEN s.number[u] ELSE 0]

IsStruct(s) ==
  s \in [faction : {s.faction}, race : {s.race}, number : {s.number}, nextF : {s.nextF},
         prevF : {s.prevF}, units : {s.units}, num_units : {s.num_units},
         num_people : {s.num_people}]

People(s) ==
  /\ IsStruct(s) /\ IsRoster(s)
  /\ s.num_people \in [Factions -> Int]
  /\ \A f \in Factions : s.num_people[f] = SumOf(Counts(s, f), Units)

(* t differs from s in nothing that is counted but in u. *)
OthersSame(s, t, u) ==
  \A v \in Units \ {u} :
    t.faction[v] = s.faction[v] /\ t.race[v] = s.race[v] /\ t.number[v] = s.number[v]

LEMMA CountsType ==
  ASSUME NEW s, IsRoster(s), NEW f
  PROVE  \A u \in Units : Counts(s, f)[u] \in Int
BY DEF IsRoster, Counts

(* A counter stays right if it changes by what the unit's share does.      *)
LEMMA OneUnitCounts ==
  ASSUME NEW s, People(s), NEW t, IsStruct(t), IsRoster(t), NEW u \in Units, OthersSame(s, t, u),
         t.num_people \in [Factions -> Int],
         \A f \in Factions :
           t.num_people[f] = s.num_people[f] + Counts(t, f)[u] - Counts(s, f)[u]
  PROVE  People(t)
<1>1. ASSUME NEW f \in Factions
      PROVE  t.num_people[f] = SumOf(Counts(t, f), Units)
  <2>1. PICK m, n : m = Counts(t, f) /\ n = Counts(s, f)
    OBVIOUS
  <2>2. \A v \in Units : n[v] \in Int /\ m[v] \in Int
    BY <2>1, CountsType DEF People
  <2>3. \A v \in Units \ {u} : m[v] = n[v]
    BY <2>1 DEF Counts, OthersSame
  <2>4. SumOf(m, Units) = SumOf(n, Units) + m[u] - n[u]
    BY <2>2, <2>3, SumChange, RosterAssumption
  <2>. QED  BY <2>1, <2>4 DEF People
<1>. QED  BY <1>1 DEF People

(* set_number *)
LEMMA SetNumberPeople ==
  ASSUME NEW s, People(s), NEW u \in Units, NEW n \in Int
  PROVE  People(SetNumber(s, u, n))
<1>1. PICK t : t = SetNumber(s, u, n)
  OBVIOUS
<1>2. PICK p : p = IF s.faction[u] \in Factions /\ s.race[u]
                   THEN [s.num_people EXCEPT ![s.faction[u]] = s.num_people[s.faction[u]] + n - s.number[u]]
                   ELSE s.num_people
  OBVIOUS
<1>3. t = [s EXCEPT !.num_people = p, !.number[u] = n]
  BY <1>1, <1>2 DEF SetNumber
<1>4. IsStruct(t) /\ t.num_people = p
  BY <1>3 DEF People, IsStruct
<1>5. /\ IsRoster(t) /\ t.number = [s.number EXCEPT ![u] = n]
      /\ t.faction = s.faction /\ t.race = s.race
  BY <1>1, SetNumberFields DEF People
<1>6. p \in [Factions -> Int]
  BY <1>2 DEF People, IsRoster
<1>7. OthersSame(s, t, u)
  BY <1>5 DEF OthersSame
<1>8. ASSUME NEW f \in Factions
      PROVE  p[f] = s.num_people[f] + Counts(t, f)[u] - Counts(s, f)[u]
  <2>1. t.number[u] = n /\ s.number[u] \in Int /\ s.num_people[f] \in Int
    BY <1>5 DEF People, IsRoster
  <2>2. CASE s.faction[u] = f /\ s.race[u]
    BY <1>2, <1>5, <2>1, <2>2 DEF Counts, People
  <2>3. CASE ~ (s.faction[u] = f /\ s.race[u])
    BY <1>2, <1>5, <2>1, <2>3 DEF Counts, People
  <2>. QED  BY <2>2, <2>3
<1>. QED  BY <1>1, <1>4, <1>5, <1>6, <1>7, <1>8, OneUnitCounts

(* u_setrace *)
LEMMA SetRacePeople ==
  ASSUME NEW s, People(s), NEW u \in Units
  PROVE  People(SetRace(s, u))
<1>1. PICK t : t = SetRace(s, u)
  OBVIOUS
<1>2. PICK f : f = s.faction[u]
  OBVIOUS
<1>3. /\ IsStruct(t)
      /\ t.num_people = IF f \in Factions /\ ~ s.race[u]
                        THEN [s.num_people EXCEPT ![f] = @ + s.number[u]] ELSE s.num_people
  BY <1>1, <1>2 DEF SetRace, People, IsStruct
<1>4. /\ IsRoster(t) /\ t.number = s.number /\ t.faction = s.faction
      /\ t.race = [s.race EXCEPT ![u] = TRUE]
  BY <1>1, SetRaceFields DEF People
<1>5. OthersSame(s, t, u) /\ t.race[u]
  BY <1>4 DEF OthersSame, People, IsRoster
<1>6. t.num_people \in [Factions -> Int]
  BY <1>3 DEF People, IsRoster
<1>7. ASSUME NEW g \in Factions
      PROVE  t.num_people[g] = s.num_people[g] + Counts(t, g)[u] - Counts(s, g)[u]
  <2>1. s.number[u] \in Int /\ s.num_people[g] \in Int
    BY DEF People, IsRoster
  <2>2. CASE s.faction[u] = g /\ s.race[u]
    BY <1>2, <1>3, <1>4, <1>5, <2>1, <2>2 DEF Counts, People
  <2>3. CASE s.faction[u] = g /\ ~ s.race[u]
    BY <1>2, <1>3, <1>4, <1>5, <2>1, <2>3 DEF Counts, People
  <2>4. CASE s.faction[u] # g
    BY <1>2, <1>3, <1>4, <1>5, <2>1, <2>4 DEF Counts, People
  <2>. QED  BY <2>2, <2>3, <2>4
<1>. QED  BY <1>1, <1>3, <1>4, <1>5, <1>6, <1>7, OneUnitCounts

(* the first half of u_setfaction *)
LEMMA UnlinkPeople ==
  ASSUME NEW s, People(s), NEW u \in Units
  PROVE  /\ People(Unlink(s, u))
         /\ Unlink(s, u).number = s.number /\ Unlink(s, u).race = s.race
         /\ \A v \in Units \ {u} : Unlink(s, u).faction[v] = s.faction[v]
         /\ Unlink(s, u).faction[u] \notin Factions
<1>1. PICK t, f : t = Unlink(s, u) /\ f = s.faction[u]
  OBVIOUS
<1>2. CASE f \notin Factions
  BY <1>1, <1>2 DEF Unlink
<1>3. CASE f \in Factions
  <2>1. PICK b : b = Bypass(s, u)
    OBVIOUS
  <2>2. IsStruct(b) /\ b.num_people = s.num_people /\ b.race = s.race /\ b.number = s.number
    BY <2>1 DEF Bypass, People, IsStruct
  <2>3. t = [b EXCEPT
          !.num_units[f]  = IF s.race[u] THEN @ - 1 ELSE @,
          !.num_people[f] = IF s.race[u] THEN @ - s.number[u] ELSE @,
          !.units[f]      = IF s.prevF[u] = NoUnit THEN s.nextF[u] ELSE @,
          !.faction[u]    = NoFaction]
    BY <1>1, <1>3, <2>1 DEF Unlink
  <2>4. /\ IsStruct(t) /\ t.race = s.race /\ t.number = s.number
        /\ t.num_people = [s.num_people EXCEPT ![f] = IF s.race[u] THEN @ - s.number[u] ELSE @]
    BY <2>2, <2>3 DEF IsStruct
  <2>5. IsRoster(t) /\ t.faction = [s.faction EXCEPT ![u] = NoFaction]
    <3>1. PICK p, n : p = s.prevF[u] /\ n = s.nextF[u]
      OBVIOUS
    <3>. QED  BY <1>1, <1>3, <3>1, UnlinkFields DEF People
  <2>6. OthersSame(s, t, u) /\ t.faction[u] = NoFaction
    BY <2>4, <2>5 DEF OthersSame, People, IsRoster
  <2>7. t.num_people \in [Factions -> Int]
    <3>1. s.num_people[f] - s.number[u] \in Int
      BY <1>3 DEF People, IsRoster
    <3>. QED  BY <2>4, <3>1 DEF People
  <2>8. ASSUME NEW g \in Factions
        PROVE  t.num_people[g] = s.num_people[g] + Counts(t, g)[u] - Counts(s, g)[u]
    <3>1. s.number[u] \in Int /\ s.num_people[g] \in Int
      BY DEF People, IsRoster
    <3>2. Counts(t, g)[u] = 0
      BY <2>6, RosterAssumption DEF Counts
    <3>3. Counts(s, g)[u] = IF f = g /\ s.race[u] THEN s.number[u] ELSE 0
      BY <1>1 DEF Counts
    <3>4. t.num_people[g] = IF f = g /\ s.race[u] THEN s.num_people[g] - s.number[u]
                                                 ELSE s.num_people[g]
      BY <1>3, <2>4 DEF People
    <3>. QED  BY <3>1, <3>2, <3>3, <3>4
  <2>9. People(t)
    BY <2>4, <2>5, <2>6, <2>7, <2>8, OneUnitCounts
  <2>. QED  BY <1>1, <2>4, <2>6, <2>9, RosterAssumption DEF OthersSame
<1>. QED  BY <1>2, <1>3

(* u_setfaction *)
LEMMA SetFactionPeople ==
  ASSUME NEW s, People(s), NEW u \in Units, NEW f \in Factions
  PROVE  People(SetFaction(s, u, f))
<1>1. CASE s.faction[u] = f
  BY <1>1 DEF SetFaction
<1>2. CASE s.faction[u] # f
  <2>1. PICK a, t : a = Unlink(s, u) /\ t = Link(a, u, f)
    OBVIOUS
  <2>2. People(a) /\ a.number = s.number /\ a.race = s.race /\ a.faction[u] \notin Factions
    BY <2>1, UnlinkPeople
  <2>3. IsRoster(t) /\ t.race = a.race /\ t.faction = [a.faction EXCEPT ![u] = f]
    <3>1. IsRoster(a)
      BY <2>2 DEF People
    <3>2. IsRoster(t) /\ Pushed(a, t, u, f)
      BY <2>1, <3>1, LinkFields
    <3>. QED  BY <3>2 DEF Pushed
  <2>4. /\ IsStruct(t) /\ t.number = a.number
        /\ t.num_people = [a.num_people EXCEPT ![f] = IF a.race[u] THEN @ + a.number[u] ELSE @]
    BY <2>1, <2>2 DEF Link, People, IsStruct
  <2>5. OthersSame(a, t, u) /\ t.faction[u] = f
    BY <2>2, <2>3, <2>4 DEF OthersSame, People, IsRoster
  <2>6. t.num_people \in [Factions -> Int]
    BY <2>2, <2>4 DEF People, IsRoster
  <2>7. ASSUME NEW g \in Factions
        PROVE  t.num_people[g] = a.num_people[g] + Counts(t, g)[u] - Counts(a, g)[u]
    <3>1. a.number[u] \in Int /\ a.num_people[g] \in Int
      BY <2>2 DEF People, IsRoster
    <3>2. Counts(a, g)[u] = 0
      BY <2>2 DEF Counts
    <3>3. Counts(t, g)[u] = IF f = g /\ a.race[u] THEN a.number[u] ELSE 0
      BY <2>3, <2>4, <2>5 DEF Counts
    <3>4. t.num_people[g] = IF f = g /\ a.race[u] THEN a.num_people[g] + a.number[u]
                                                 ELSE a.num_people[g]
      BY <2>2, <2>4 DEF People
    <3>. QED  BY <3>1, <3>2, <3>3, <3>4
  <2>8. People(t)
    BY <2>2, <2>3, <2>4, <2>5, <2>6, <2>7, OneUnitCounts
  <2>. QED  BY <1>2, <2>1, <2>8 DEF SetFaction
<1>. QED  BY <1>1, <1>2

(* Many units at a time: the killunit triggers and destroyfaction. *)
LEMMA DepopulatePeople ==
  ASSUME NEW s, People(s), NEW S \in SUBSET Units
  PROVE  People(Depopulate(s, S))
<1>1. PICK t : t = Depopulate(s, S)
  OBVIOUS
<1>2. /\ IsRoster(t) /\ t.number = [v \in Units |-> IF v \in S THEN 0 ELSE s.number[v]]
      /\ t.faction = s.faction /\ t.race = s.race
  BY <1>1, DepopulateFields DEF People
<1>3. /\ IsStruct(t)
      /\ t.num_people = [f \in Factions |-> s.num_people[f] - Persons(s, S, f)]
  BY <1>1 DEF Depopulate, People, IsStruct
<1>4. ASSUME NEW f \in Factions
      PROVE  t.num_people[f] \in Int /\ t.num_people[f] = SumOf(Counts(t, f), Units)
  <2>1. PICK m, n : m = Counts(t, f) /\ n = Counts(s, f)
    OBVIOUS
  <2>2. PICK D : D = {v \in S : s.faction[v] = f /\ s.race[v]}
    OBVIOUS
  <2>3. PICK E : E = Units \ D
    OBVIOUS
  <2>4. \A v \in Units : n[v] \in Int /\ m[v] \in Int
    BY <1>2, <2>1, CountsType DEF People
  <2>5. D \in SUBSET Units /\ E \in SUBSET Units /\ IsFiniteSet(D) /\ IsFiniteSet(E)
    BY <2>2, <2>3, FS_Subset, RosterAssumption
  <2>6. Persons(s, S, f) = SumOf(s.number, D)
    BY <2>2 DEF Persons, Sum, SumOf
  <2>7. \A v \in D : s.number[v] = n[v] /\ m[v] = 0
    BY <1>2, <2>1, <2>2, <2>5 DEF Counts
  <2>8. SumOf(n, D) = SumOf(s.number, D)
    <3>1. D \in SUBSET D /\ \A v \in D : n[v] \in Int
      BY <2>4, <2>5
    <3>. QED  BY <2>5, <2>7, <3>1, SumSupport
  <2>9. SumOf(n, Units) = SumOf(n, D) + SumOf(n, E)
    BY <2>3, <2>4, <2>5, SumSplit, RosterAssumption
  <2>10. \A v \in E : m[v] = n[v]
    BY <1>2, <2>1, <2>2, <2>3 DEF Counts
  <2>11. SumOf(m, Units) = SumOf(n, E)
    BY <2>3, <2>4, <2>5, <2>7, <2>10, SumSupport, RosterAssumption
  <2>12. SumOf(n, D) \in Int /\ SumOf(n, E) \in Int
    BY <2>4, <2>5, SumType
  <2>13. t.num_people[f] = SumOf(n, Units) - SumOf(s.number, D)
    BY <1>3, <2>1, <2>6 DEF People
  <2>. QED  BY <2>1, <2>8, <2>9, <2>11, <2>12, <2>13
<1>5. t.num_people \in [Factions -> Int]
  BY <1>3, <1>4
<1>. QED  BY <1>1, <1>2, <1>3, <1>4, <1>5 DEF People

(* erase_unit *)
LEMMA ErasePeople ==
  ASSUME NEW s, People(s), NEW u \in Units, s.faction[u] \in Factions
  PROVE  People(Erase(s, u))
<1>1. PICK q, b, t : q = SetNumber(s, u, 0) /\ b = Bypass(q, u) /\ t = Erase(s, u)
  OBVIOUS
<1>2. People(q) /\ q.number = [s.number EXCEPT ![u] = 0]
      /\ q.faction = s.faction /\ q.race = s.race
  BY <1>1, SetNumberPeople, SetNumberFields DEF People
<1>3. IsStruct(b) /\ b.num_people = q.num_people
  BY <1>1, <1>2 DEF Bypass, People, IsStruct
<1>4. IsStruct(t) /\ t.num_people = b.num_people
  <2>1. PICK c, h :
          /\ c = IF s.faction[u] \in Factions /\ s.race[u]
                 THEN [b.num_units EXCEPT ![s.faction[u]] = s.num_units[s.faction[u]] - 1]
                 ELSE b.num_units
          /\ h = IF s.faction[u] \in Factions /\ s.units[s.faction[u]] = u
                 THEN [b.units EXCEPT ![s.faction[u]] = s.nextF[u]] ELSE b.units
    OBVIOUS
  <2>2. t = [b EXCEPT !.num_units = c, !.units = h, !.nextF[u] = NoUnit, !.prevF[u] = NoUnit]
    BY <1>1, <2>1 DEF Erase
  <2>. QED  BY <1>3, <2>2 DEF IsStruct
<1>5. IsRoster(t)
  <2>1. PICK f, p, n : f = s.faction[u] /\ p = s.prevF[u] /\ n = s.nextF[u]
    OBVIOUS
  <2>. QED  BY <1>1, <2>1, EraseFields DEF People
<1>6. t.number = q.number /\ t.faction = q.faction /\ t.race = q.race
  BY <1>1, <1>2, EraseNumbers DEF People
<1>7. \A f \in Factions : Counts(t, f) = Counts(q, f)
  BY <1>6 DEF Counts
<1>. QED  BY <1>1, <1>2, <1>3, <1>4, <1>5, <1>7 DEF People

-----------------------------------------------------------------------------
(* create_unit, read_unit, make_zombie and transfermen *)
LEMMA UnitPeople ==
  ASSUME NEW s, People(s), NEW u \in Units, NEW f \in Factions, NEW n \in Int
  PROVE  People(Create(s, u, f, n)) /\ People(Read(s, u, f, n))
<1>1. PICK a, b, d, e : /\ a = SetRace(s, u) /\ b = SetFaction(a, u, f)
                        /\ d = SetFaction(s, u, f) /\ e = SetNumber(d, u, n)
  OBVIOUS
<1>2. People(a) /\ People(d)
  BY <1>1, SetRacePeople, SetFactionPeople
<1>3. People(b) /\ People(e)
  BY <1>1, <1>2, SetFactionPeople, SetNumberPeople
<1>4. People(SetNumber(b, u, n)) /\ People(SetRace(e, u))
  BY <1>3, SetNumberPeople, SetRacePeople
<1>. QED  BY <1>1, <1>4 DEF Create, Read

LEMMA ZombiePeople ==
  ASSUME NEW s, People(s), NEW u \in Units
  PROVE  People(Zombie(s, u))
BY UnitPeople, RosterAssumption DEF Zombie, Read

LEMMA TransferPeople ==
  ASSUME NEW s, People(s), NEW u \in Units, NEW v \in Units, NEW n \in Int
  PROVE  People(TransferMen(s, u, v, n))
<1>1. PICK a : a = SetNumber(s, v, s.number[v] + n)
  OBVIOUS
<1>2. s.number[v] + n \in Int /\ s.number[u] - n \in Int
  BY DEF People, IsRoster
<1>3. People(a)
  BY <1>1, <1>2, SetNumberPeople
<1>4. People(SetNumber(a, u, s.number[u] - n))
  BY <1>2, <1>3, SetNumberPeople
<1>. QED  BY <1>1, <1>4 DEF TransferMen

(* The empty game. *)
LEMMA EmptyPeople == People(EmptyRoster)
<1>1. PICK s : s = EmptyRoster
  OBVIOUS
<1>2. IsStruct(s) /\ IsRoster(s)
  BY <1>1, EmptyWhole DEF Whole, Sound, EmptyRoster, IsStruct
<1>3. \A f \in Factions : s.num_people[f] = 0 /\ \A u \in Units : Counts(s, f)[u] = 0
  BY <1>1 DEF EmptyRoster, Counts
<1>4. s.num_people \in [Factions -> Int]
  BY <1>1 DEF EmptyRoster
<1>5. ASSUME NEW f \in Factions
      PROVE  SumOf(Counts(s, f), Units) = 0
  <2>1. PICK n : n = Counts(s, f)
    OBVIOUS
  <2>2. \A u \in Units : n[u] = 0
    BY <1>3, <2>1
  <2>3. {} \in SUBSET Units /\ Units \ {} = Units
    OBVIOUS
  <2>4. SumOf(n, Units) = SumOf(n, {})
    BY <2>2, <2>3, SumSupport, RosterAssumption
  <2>. QED  BY <2>1, <2>4, SumPick, RosterAssumption
<1>. QED  BY <1>1, <1>2, <1>3, <1>4, <1>5 DEF People

-----------------------------------------------------------------------------
(* The inductive invariant.  Numbers that are not in use have no persons,  *)
(* so a counter counts the living units alone.                             *)
Vacant(s, H) == \A u \in Units \ H : s.number[u] = 0

OthersTyped ==
  /\ dead \in [Units -> FactionsOrNone]
  /\ alive \in [Factions -> BOOLEAN]
  /\ restore \in [Units -> FactionsOrNone]
  /\ phase \in Phases
  /\ sweeping \in BOOLEAN
  /\ todo \subseteq Units

PInv == SInv /\ People(roster) /\ Vacant(roster, hashed) /\ OthersTyped

LEMMA NextTyped ==
  ASSUME SInv, OthersTyped, [Next]_vars
  PROVE  OthersTyped'
<1> USE DEF OthersTyped, Phases
<1>1. /\ roster.faction \in [Units -> FactionsOrNone] /\ hashed \subseteq Units
      /\ NoFaction \in FactionsOrNone /\ Factions \subseteq FactionsOrNone
      /\ sweeping => phase \in {"orders", "quit", "ageing", "ended"}
  BY DEF SInv, IInv, Whole, Sound, IsRoster, Owned, FactionsOrNone, Stages
<1>2. ASSUME NEW u \in Units, NEW f \in Factions, NEW n \in 0 .. MaxNumber, CreateUnit(u, f, n)
      PROVE  OthersTyped'
  BY <1>2 DEF CreateUnit
<1>3. ASSUME NEW u \in Units, NEW n \in 0 .. MaxNumber, ChangeNumber(u, n)
      PROVE  OthersTyped'
  BY <1>3 DEF ChangeNumber
<1>4. ASSUME NEW u \in Units, NEW v \in Units, NEW n \in 1 .. MaxNumber, GiveMen(u, v, n)
      PROVE  OthersTyped'
  BY <1>4 DEF GiveMen
<1>5. ASSUME NEW u \in Units, NEW t \in Units, NEW n \in 1 .. MaxNumber, Recruit(u, t, n)
      PROVE  OthersTyped'
  BY <1>1, <1>5 DEF Recruit
<1>6. ASSUME NEW u \in Units, NEW v \in Units, TransferUnit(u, v)
      PROVE  OthersTyped'
  BY <1>6 DEF TransferUnit
<1>7. ASSUME NEW u \in Units, NEW f \in FactionsOrNone, ScriptFaction(u, f)
      PROVE  OthersTyped'
  BY <1>7 DEF ScriptFaction
<1>8. ASSUME NEW m \in Units, NEW u \in Units, CreateFamiliar(m, u)
      PROVE  OthersTyped'
  BY <1>8 DEF CreateFamiliar
<1>9. ASSUME NEW m \in Units, NEW u \in Units, Charm(m, u)
      PROVE  OthersTyped'
  BY <1>1, <1>9 DEF Charm
<1>10. ASSUME NEW u \in Units, Release(u)
       PROVE  OthersTyped'
  BY <1>1, <1>10 DEF Release
<1>11. ASSUME NEW f \in Factions, NEW ghosts \in SUBSET Units, DestroyFaction(f, ghosts)
       PROVE  OthersTyped'
  BY <1>11 DEF DestroyFaction
<1>12. ASSUME NEW s, NEW u \in Units, RemoveUnit(s, u)
       PROVE  dead' \in [Units -> FactionsOrNone]
  BY <1>1, <1>12 DEF RemoveUnit
<1>13. ASSUME NEW u \in Units, RemoveNow(u)
       PROVE  OthersTyped'
  BY <1>12, <1>13 DEF RemoveNow
<1>14. CASE BeginSweep
  BY <1>1, <1>14 DEF BeginSweep
<1>15. ASSUME NEW u \in Units, Sweep(u)
       PROVE  OthersTyped'
  BY <1>12, <1>15 DEF Sweep
<1>16. CASE EndSweep
  <2>1. phase' \in Phases
    BY <1>1, <1>16 DEF EndSweep, AfterSweep
  <2>. QED  BY <1>16, <2>1 DEF EndSweep
<1>17. CASE BeginQuit
  BY <1>17 DEF BeginQuit
<1>18. CASE BeginTurnEnd
  BY <1>18 DEF BeginTurnEnd
<1>19. CASE SaveGame
  BY <1>1, <1>19 DEF SaveGame
<1>20. ASSUME NEW u \in Units, ReadUnit(u)
       PROVE  OthersTyped'
  BY <1>20 DEF ReadUnit
<1>21. CASE EndLoad
  BY <1>21 DEF EndLoad
<1>22. CASE UNCHANGED vars
  BY <1>22 DEF vars
<1>. QED
  BY <1>2, <1>3, <1>4, <1>5, <1>6, <1>7, <1>8, <1>9, <1>10, <1>11, <1>13, <1>14,
     <1>15, <1>16, <1>17, <1>18, <1>19, <1>20, <1>21, <1>22 DEF Next

(* A unit that gets persons is in use, or is so from now on. *)
LEMMA BecomesVacant ==
  ASSUME NEW s, NEW H, Vacant(s, H), NEW u \in Units, NEW f, NEW n, NEW t,
         IsRoster(s), Becomes(s, t, u, f, n)
  PROVE  Vacant(t, H \cup {u})
BY DEF Becomes, Vacant, IsRoster

LEMMA DepopulateVacant ==
  ASSUME NEW s, NEW H, IsRoster(s), Vacant(s, H), NEW S
  PROVE  Vacant(Depopulate(s, S), H)
<1>1. Depopulate(s, S).number = [v \in Units |-> IF v \in S THEN 0 ELSE s.number[v]]
  BY DepopulateFields
<1>. QED  BY <1>1 DEF Vacant

LEMMA MovePeople ==
  ASSUME NEW s, NEW H, People(s), Vacant(s, H), NEW u \in Units, NEW f \in Factions,
         NEW t, t = SetFaction(s, u, f)
  PROVE  People(t) /\ Vacant(t, H)
<1>1. IsRoster(s)
  BY DEF People
<1>2. t.number = s.number
  BY <1>1, SetFactionFields
<1>3. People(t)
  BY SetFactionPeople
<1>. QED  BY <1>2, <1>3 DEF Vacant

(* remove_unit *)
LEMMA RemoveUnitPeople ==
  ASSUME NEW s, People(s), Vacant(s, hashed), NEW u \in hashed, hashed \subseteq Units,
         s.faction[u] \in Factions, doom[u] \in SUBSET Units, RemoveUnit(s, u)
  PROVE  People(roster') /\ Vacant(roster', hashed')
<1>1. PICK t : t = Depopulate(s, doom[u])
  OBVIOUS
<1>2. /\ People(t) /\ IsRoster(t) /\ t.faction = s.faction /\ Vacant(t, hashed) /\ u \in Units
  <2>1. IsRoster(s) /\ u \in Units
    BY DEF People
  <2>2. People(t) /\ Vacant(t, hashed)
    BY <1>1, <2>1, DepopulatePeople, DepopulateVacant
  <2>3. IsRoster(t) /\ t.faction = s.faction
    BY <1>1, <2>1, DepopulateFields
  <2>. QED  BY <2>1, <2>2, <2>3
<1>3. CASE roster' = Erase(t, u) /\ hashed' = hashed \ {u}
  <2>1. roster'.number = [t.number EXCEPT ![u] = 0]
    BY <1>2, <1>3, EraseNumbers
  <2>2. Vacant(roster', hashed')
    BY <1>2, <1>3, <2>1 DEF Vacant, IsRoster
  <2>. QED  BY <1>2, <1>3, <2>2, ErasePeople
<1>4. CASE roster' = Zombie(t, u) /\ hashed' = hashed
  <2>1. Becomes(t, roster', u, Monsters, 1)
    BY <1>2, <1>4, UnitFields, RosterAssumption DEF Zombie, Read
  <2>2. Vacant(roster', hashed \cup {u}) /\ hashed \cup {u} = hashed'
    BY <1>2, <1>4, <2>1, BecomesVacant
  <2>. QED  BY <1>2, <1>4, <2>2, ZombiePeople
<1>. QED  BY <1>1, <1>3, <1>4 DEF RemoveUnit

LEMMA InitPeople == Init => PInv
<1> SUFFICES ASSUME Init  PROVE PInv
  OBVIOUS
<1>1. SInv
  BY InitSwept
<1>2. People(roster)
  BY EmptyPeople DEF Init
<1>3. Vacant(roster, hashed)
  BY DEF Init, Vacant, EmptyRoster
<1>4. OthersTyped
  BY DEF Init, OthersTyped, Phases, FactionsOrNone
<1>. QED  BY <1>1, <1>2, <1>3, <1>4 DEF PInv

(* Every operation keeps the counters right. *)
LEMMA NextPeople ==
  ASSUME ~ ClearedByScript, PInv, [Next]_vars
  PROVE  PInv'
<1> USE DEF Working
<1> DEFINE Right == People(roster') /\ Vacant(roster', hashed')
<1>1. /\ SInv' /\ OthersTyped' /\ People(roster) /\ Vacant(roster, hashed)
      /\ IsRoster(roster) /\ hashed \subseteq Units
      /\ roster.number \in [Units -> Int]
      /\ \A u \in hashed : roster.faction[u] \in Factions
      /\ \A x \in Units \cup Factions : doom[x] \in SUBSET Units
      /\ 0 .. MaxNumber \subseteq Int /\ 1 .. MaxNumber \subseteq Int
      /\ FileTyped /\ (sweeping => todo \subseteq hashed)
  BY NextSwept, NextTyped
     DEF PInv, SInv, IInv, Whole, Sound, Owned, IsRoster, Enchantments, Stages
<1>2. SUFFICES Right
  BY <1>1 DEF PInv
<1>3. ASSUME NEW u \in Units, NEW f \in Factions, NEW n \in 0 .. MaxNumber, CreateUnit(u, f, n)
      PROVE  Right
  <2>1. roster' = Create(roster, u, f, n) /\ hashed' = hashed \cup {u} /\ n \in Int
    BY <1>1, <1>3 DEF CreateUnit
  <2>. QED  BY <1>1, <2>1, UnitFields, UnitPeople, BecomesVacant
<1>4. ASSUME NEW u \in Units, NEW n \in Int, u \in hashed,
             roster' = SetNumber(roster, u, n), hashed' = hashed
      PROVE  Right
  <2>1. People(roster')
    BY <1>1, <1>4, SetNumberPeople
  <2>2. roster'.number = [roster.number EXCEPT ![u] = n]
    BY <1>1, <1>4, SetNumberFields
  <2>3. Vacant(roster', hashed')
    BY <1>1, <1>4, <2>2 DEF Vacant
  <2>. QED  BY <2>1, <2>3
<1>5. ASSUME NEW u \in Units, NEW n \in 0 .. MaxNumber, ChangeNumber(u, n)
      PROVE  Right
  BY <1>1, <1>4, <1>5 DEF ChangeNumber
<1>6. ASSUME NEW u \in Units, NEW v \in Units, NEW n \in 1 .. MaxNumber, GiveMen(u, v, n)
      PROVE  Right
  <2>1. /\ u # v /\ u \in hashed /\ v \in hashed /\ hashed' = hashed /\ n \in Int
        /\ roster' = TransferMen(roster, u, v, n)
    BY <1>1, <1>6 DEF GiveMen
  <2>2. Transferred(roster, roster', u, v, n) /\ People(roster')
    BY <1>1, <2>1, TransferFields, TransferPeople
  <2>. QED  BY <1>1, <2>1, <2>2 DEF Transferred, Vacant
<1>7. ASSUME NEW u \in Units, NEW t \in Units, NEW n \in 1 .. MaxNumber, Recruit(u, t, n)
      PROVE  Right
  <2>1. CASE roster.number[u] = 0
    BY <1>1, <1>4, <1>7, <2>1 DEF Recruit
  <2>2. CASE roster.number[u] # 0
    <3>1. PICK a, b : /\ a = Create(roster, t, roster.faction[u], n)
                      /\ b = TransferMen(a, t, u, n)
      OBVIOUS
    <3>2. /\ u \in hashed /\ t # u /\ roster' = Erase(b, t) /\ hashed' = hashed /\ n \in Int
          /\ roster.faction[u] \in Factions
      BY <1>1, <1>7, <2>2, <3>1 DEF Recruit, Free
    <3>3. Becomes(roster, a, t, roster.faction[u], n) /\ People(a)
      BY <1>1, <3>1, <3>2, UnitFields, UnitPeople
    <3>4. IsRoster(a) /\ Vacant(a, hashed \cup {t}) /\ a.faction[t] \in Factions
      <4>1. IsRoster(a) /\ a.faction = [roster.faction EXCEPT ![t] = roster.faction[u]]
        BY <3>3 DEF Becomes
      <4>2. Vacant(a, hashed \cup {t})
        BY <1>1, <3>2, <3>3, BecomesVacant
      <4>. QED  BY <1>1, <3>2, <4>1, <4>2 DEF IsRoster
    <3>5. IsRoster(b) /\ Transferred(a, b, t, u, n) /\ People(b)
      BY <3>1, <3>2, <3>3, <3>4, TransferFields, TransferPeople
    <3>6. b.faction = a.faction
      <4>1. PICK c : c = SetNumber(a, u, a.number[u] + n)
        OBVIOUS
      <4>2. a.number[u] + n \in Int /\ a.number[t] - n \in Int
        BY <3>2, <3>4 DEF IsRoster
      <4>3. IsRoster(c) /\ c.faction = a.faction
        BY <3>4, <4>1, <4>2, SetNumberFields
      <4>4. PICK p : p = a.number[t] - n
        OBVIOUS
      <4>5. b = SetNumber(c, t, p) /\ p \in Int
        BY <3>1, <4>1, <4>2, <4>4 DEF TransferMen
      <4>6. b.faction = c.faction
        BY <3>2, <4>3, <4>5, SetNumberFields
      <4>. QED  BY <4>3, <4>6
    <3>7. People(roster') /\ roster'.number = [b.number EXCEPT ![t] = 0]
      BY <3>2, <3>4, <3>5, <3>6, ErasePeople, EraseNumbers
    <3>8. Vacant(roster', hashed)
      BY <3>2, <3>4, <3>5, <3>7 DEF Vacant, Transferred, IsRoster
    <3>. QED  BY <3>2, <3>7, <3>8
  <2>. QED  BY <2>1, <2>2
<1>8. ASSUME NEW u \in Units, NEW f \in Factions, roster' = SetFaction(roster, u, f), hashed' = hashed
      PROVE  Right
  BY <1>1, <1>8, MovePeople
<1>9. ASSUME NEW u \in Units, NEW v \in Units, TransferUnit(u, v)
      PROVE  Right
  BY <1>8, <1>9 DEF TransferUnit
<1>10. ASSUME NEW u \in Units, NEW f \in FactionsOrNone, ScriptFaction(u, f)
       PROVE  Right
  BY <1>8, <1>10 DEF ScriptFaction, faction_alive
<1>11. ASSUME NEW m \in Units, NEW u \in Units, CreateFamiliar(m, u)
       PROVE  Right
  <2>1. PICK f \in Factions : roster' = Create(roster, u, f, 1) /\ hashed' = hashed \cup {u}
    BY <1>11 DEF CreateFamiliar, faction_alive
  <2>. QED  BY <1>1, <2>1, UnitFields, UnitPeople, BecomesVacant
<1>12. ASSUME NEW m \in Units, NEW u \in Units, Charm(m, u)
       PROVE  Right
  BY <1>8, <1>12 DEF Charm
<1>13. ASSUME NEW u \in Units, Release(u)
       PROVE  Right
  BY <1>8, <1>13 DEF Release
<1>14. ASSUME NEW f \in Factions, NEW ghosts \in SUBSET Units, DestroyFaction(f, ghosts)
       PROVE  Right
  <2>1. PICK S, s : S = Listed(roster, f) \cup doom[f] /\ s = Depopulate(roster, S)
    OBVIOUS
  <2>2. S \in SUBSET Units
    BY <1>1, <2>1 DEF Listed, Reach
  <2>3. People(s) /\ Vacant(s, hashed) /\ IsRoster(s)
    BY <1>1, <2>1, <2>2, DepopulatePeople, DepopulateVacant, DepopulateFields
  <2>4. CASE roster' = s /\ ghosts = {}
    BY <1>14, <2>3, <2>4 DEF DestroyFaction
  <2>5. ASSUME NEW g \in ghosts, ghosts = {g}, roster' = Create(s, g, Monsters, 1)
        PROVE  Right
    <3>1. Becomes(s, roster', g, Monsters, 1) /\ People(roster')
      BY <2>3, <2>5, UnitFields, UnitPeople, RosterAssumption
    <3>2. Vacant(roster', hashed \cup {g}) /\ hashed' = hashed \cup {g}
      BY <1>14, <2>3, <2>5, <3>1, BecomesVacant DEF DestroyFaction
    <3>. QED  BY <3>1, <3>2
  <2>. QED  BY <1>14, <2>1, <2>4, <2>5 DEF DestroyFaction
<1>15. ASSUME NEW u \in Units, RemoveNow(u)
       PROVE  Right
  BY <1>1, <1>15, RemoveUnitPeople DEF RemoveNow
<1>16. ASSUME NEW u \in Units, Sweep(u)
       PROVE  Right
  <2>1. PICK s : s = IF roster.number[u] > 0 /\ ~ faction_alive(roster.faction[u])
                     THEN SetNumber(roster, u, 0) ELSE roster
    OBVIOUS
  <2>2. u \in hashed
    BY <1>1, <1>16 DEF Sweep
  <2>3. People(s) /\ Vacant(s, hashed) /\ s.faction = roster.faction
    <3>1. CASE s = roster
      BY <1>1, <3>1
    <3>2. CASE s = SetNumber(roster, u, 0)
      <4>1. 0 \in Int /\ u \in Units
        OBVIOUS
      <4>2. People(s)
        BY <1>1, <3>2, <4>1, SetNumberPeople
      <4>3. s.number = [roster.number EXCEPT ![u] = 0] /\ s.faction = roster.faction
        BY <1>1, <3>2, <4>1, SetNumberFields
      <4>. QED  BY <1>1, <4>2, <4>3 DEF Vacant
    <3>. QED  BY <2>1, <3>1, <3>2
  <2>4. CASE RemoveUnit(s, u)
    BY <1>1, <2>2, <2>3, <2>4, RemoveUnitPeople
  <2>5. CASE roster' = s /\ hashed' = hashed
    BY <2>3, <2>5
  <2>. QED  BY <1>16, <2>1, <2>4, <2>5 DEF Sweep
<1>17. CASE SaveGame
  <2>1. roster' = EmptyRoster /\ hashed' = {}
    BY <1>17 DEF SaveGame
  <2>2. Vacant(EmptyRoster, {})
    BY DEF Vacant, EmptyRoster
  <2>. QED  BY <2>1, <2>2, EmptyPeople
<1>18. ASSUME NEW u \in Units, ReadUnit(u)
       PROVE  Right
  <2>1. PICK f \in Factions, n \in Int :
          roster' = Read(roster, u, f, n) /\ hashed' = hashed \cup {u}
    BY <1>1, <1>18 DEF ReadUnit, faction_alive, FileTyped
  <2>. QED  BY <1>1, <2>1, UnitFields, UnitPeople, BecomesVacant
<1>19. CASE UNCHANGED <<roster, hashed>>
  BY <1>1, <1>19
<1>20. BeginSweep \/ EndSweep \/ BeginQuit \/ BeginTurnEnd \/ EndLoad \/ UNCHANGED vars
         => UNCHANGED <<roster, hashed>>
  BY DEF BeginSweep, EndSweep, BeginQuit, BeginTurnEnd, EndLoad, vars
<1>. QED
  BY <1>3, <1>5, <1>6, <1>7, <1>9, <1>10, <1>11, <1>12, <1>13, <1>14, <1>15, <1>16,
     <1>17, <1>18, <1>19, <1>20 DEF Next

(* What the invariant says of the structs is their type. *)
LEMMA PeopleTyped ==
  ASSUME PInv
  PROVE  TypeOK
<1>1. /\ IsStruct(roster) /\ IsRoster(roster) /\ roster.num_people \in [Factions -> Int]
      /\ roster.number \in [Units -> Nat] /\ hashed \subseteq Units /\ OthersTyped
      /\ doom \in [Units \cup Factions -> SUBSET Units]
  BY DEF PInv, People, SInv, IInv, Whole, Sound, Owned, IsRoster, Enchantments, Naturals, Natural
<1>. QED  BY <1>1 DEF TypeOK, IsStruct, IsRoster, OthersTyped

(* In every state each faction's num_units is the number of its living     *)
(* units and num_people the number of their persons, whatever sequence of  *)
(* set_number, u_setrace, u_setfaction and erase_unit led there.           *)
THEOREM RightCounters ==
  ASSUME ~ ClearedByScript
  PROVE  Spec => []CountersAreRight
<1>1. Init => PInv
  BY InitPeople
<1>2. PInv /\ [Next]_vars => PInv'
  BY NextPeople
<1>3. ASSUME PInv
      PROVE  \A f \in Factions : roster.num_people[f] = Sum(roster.number, Members(f))
  <2>1. TAKE f \in Factions
  <2>2. PICK n, M : n = Counts(roster, f) /\ M = Members(f)
    OBVIOUS
  <2>3. \A u \in Units : n[u] \in Int
    BY <1>3, <2>2, CountsType DEF PInv, People
  <2>4. M \in SUBSET Units /\ \A u \in M : n[u] = roster.number[u]
    BY <1>3, <2>2 DEF PInv, SInv, IInv, Whole, Sound, Owned, Members, Counts
  <2>5. \A u \in Units \ M : n[u] = 0
    BY <1>3, <2>2 DEF PInv, Vacant, Members, Counts
  <2>6. SumOf(n, Units) = SumOf(roster.number, M)
    BY <2>3, <2>4, <2>5, SumSupport, RosterAssumption
  <2>7. roster.num_people[f] = SumOf(n, Units)
    BY <1>3, <2>2 DEF PInv, People
  <2>. QED  BY <2>2, <2>6, <2>7 DEF Sum, SumOf
<1>4. PInv => CountersAreRight \/ ~ UnitsCounted
  BY <1>3, PeopleTyped DEF CountersAreRight
<1>. QED  BY <1>1, <1>2, <1>4, CountedUnits, PTL DEF Spec

-----------------------------------------------------------------------------
(* The lists as sequences: Roster implements FactionLists.                 *)
(*                                                                         *)
(* The function walk in ListFrom is defined by recursion; that there is    *)
(* one follows from the least number up to which there is none, and what   *)
(* it reads of a list from the shortest rest it does not read.             *)

(* What stands at a place of a list, or behind its end *)
At(L, i) == IF i \in DOMAIN L THEN L[i] ELSE NoUnit

(* The loop that starts at h and follows next reads L. *)
Walk(L, h, next) == h = At(L, 1) /\ \A i \in DOMAIN L : next[L[i]] = At(L, i + 1)

(* g is the recursive function behind ListFrom, up to n. *)
Walks(g, n, next) ==
  g = [k \in 0 .. n |->
         [u \in UnitsOrNone |-> IF u = NoUnit \/ k = 0 THEN << >>
                                ELSE << u >> \o g[k - 1][next[u]]]]

LEMMA ListIsWalk ==
  ASSUME NEW h, NEW next
  PROVE  ListFrom(h, next) = (CHOOSE g : Walks(g, Cardinality(Units), next))[Cardinality(Units)][h]
BY DEF ListFrom, Walks

(* There is such a function. *)
LEMMA WalksExists ==
  ASSUME NEW next
  PROVE  \A n \in Nat : \E g : Walks(g, n, next)
<1> DEFINE T == {n \in Nat : ~ \E g : Walks(g, n, next)}
<1>1. SUFFICES ASSUME T # {} PROVE FALSE
  OBVIOUS
<1>2. PICK m \in T : \A y \in T : m <= y
  BY <1>1, MinOf
<1>3. m # 0
  <2>1. PICK g : g = [k \in 0 .. 0 |-> [u \in UnitsOrNone |-> << >>]]
    OBVIOUS
  <2>2. \A k \in 0 .. 0 : k = 0
    OBVIOUS
  <2>3. g = [k \in 0 .. 0 |->
               [u \in UnitsOrNone |-> IF u = NoUnit \/ k = 0 THEN << >>
                                      ELSE << u >> \o g[k - 1][next[u]]]]
    BY <2>1, <2>2, Zenon
  <2>4. Walks(g, 0, next)
    BY <2>3 DEF Walks
  <2>. QED  BY <1>2, <2>4
<1>4. m - 1 \in Nat /\ m - 1 \notin T
  BY <1>2, <1>3
<1>5. PICK g : Walks(g, m - 1, next)
  BY <1>4
<1> DEFINE Line(k, a) == [u \in UnitsOrNone |-> IF u = NoUnit \/ k = 0 THEN << >>
                                                ELSE << u >> \o a[k - 1][next[u]]]
<1>6. PICK h : h = [k \in 0 .. m |-> IF k = m THEN Line(m, g) ELSE g[k]]
  OBVIOUS
<1>7. \A k \in 0 .. m : k # 0 => k - 1 \in 0 .. m - 1 /\ h[k - 1] = g[k - 1]
  <2>. SUFFICES ASSUME NEW k \in 0 .. m, k # 0
                PROVE  k - 1 \in 0 .. m - 1 /\ h[k - 1] = g[k - 1]
    OBVIOUS
  <2>1. k - 1 \in 0 .. m /\ k - 1 \in 0 .. m - 1 /\ k - 1 # m
    BY <1>2
  <2>. QED  BY <1>6, <2>1
<1>8. ASSUME NEW k \in 0 .. m  PROVE h[k] = Line(k, h)
  <2>1. Line(k, h) = Line(k, g)
    BY <1>7
  <2>2. CASE k = m
    BY <1>6, <2>1, <2>2
  <2>3. CASE k # m
    <3>1. k \in 0 .. m - 1
      BY <1>2, <2>3
    <3>2. g[k] = Line(k, g)
      BY <1>5, <3>1, Zenon DEF Walks
    <3>. QED  BY <1>6, <2>1, <2>3, <3>2, Zenon
  <2>. QED  BY <2>2, <2>3
<1>9. h = [k \in 0 .. m |-> Line(k, h)]
  BY <1>6, <1>8, Zenon
<1>10. Walks(h, m, next)
  BY <1>9 DEF Walks
<1>. QED  BY <1>2, <1>10

(* No list is longer than there are units. *)
LEMMA ListIsShort ==
  ASSUME NEW L \in Seq(Units), Once(L)
  PROVE  Len(L) \in Nat /\ Cardinality(Units) \in Nat /\ Len(L) <= Cardinality(Units)
<1>1. IsFiniteSet(Units) /\ Cardinality(Units) \in Nat
  BY RosterAssumption, FS_CardinalityType
<1>2. Len(L) \in Nat /\ IsFiniteSet(1 .. Len(L)) /\ Cardinality(1 .. Len(L)) = Len(L)
  <2>1. PICK l \in Nat : l = Len(L)
    OBVIOUS
  <2>2. IsFiniteSet(1 .. l) /\ Cardinality(1 .. l) = l
    BY FS_Interval
  <2>. QED  BY <2>1, <2>2
<1>3. L \in [1 .. Len(L) -> Units] /\ \A i, j \in 1 .. Len(L) : L[i] = L[j] => i = j
  BY DEF Once
<1>. QED  BY <1>1, <1>2, <1>3, FS_PigeonHole

(* A list without repetitions is read to its end. *)
LEMMA ListIsRead ==
  ASSUME NEW L \in Seq(Units), Once(L), NEW h, NEW next, Walk(L, h, next)
  PROVE  ListFrom(h, next) = L
<1>1. PICK N \in Nat : N = Cardinality(Units) /\ Len(L) <= N
  BY ListIsShort
<1>2. PICK g : Walks(g, N, next) /\ ListFrom(h, next) = g[N][h]
  <2>1. \E g : Walks(g, N, next)
    BY WalksExists
  <2>. QED  BY <1>1, <2>1, ListIsWalk
<1> DEFINE Line(k, a) == [u \in UnitsOrNone |-> IF u = NoUnit \/ k = 0 THEN << >>
                                                ELSE << u >> \o a[k - 1][next[u]]]
<1>3. ASSUME NEW k \in 0 .. N, NEW u \in UnitsOrNone
      PROVE  /\ u = NoUnit \/ k = 0 => g[k][u] = << >>
             /\ u # NoUnit /\ k # 0 => g[k][u] = << u >> \o g[k - 1][next[u]]
  <2>1. g[k] = Line(k, g)
    BY <1>2 DEF Walks
  <2>2. g[k][u] = IF u = NoUnit \/ k = 0 THEN << >> ELSE << u >> \o g[k - 1][next[u]]
    BY <2>1, Zenon
  <2>. QED  BY <2>2, Zenon
<1>4. PICK l \in Nat : l = Len(L) /\ l <= N /\ DOMAIN L = 1 .. l
  BY <1>1
<1> DEFINE Rest(j) == SubSeq(L, l - j + 1, l)
           T == {j \in 0 .. l : ~ \A k \in j .. N : g[k][At(L, l - j + 1)] = Rest(j)}
<1>5. T = {}
  <2>1. SUFFICES ASSUME T # {} PROVE FALSE
    OBVIOUS
  <2>2. PICK j \in T : \A y \in T : j <= y
    <3>1. T \subseteq Nat
      OBVIOUS
    <3>. HIDE DEF T
    <3>. QED  BY <2>1, <3>1, MinOf
  <2>3. j # 0
    <3>1. At(L, l - 0 + 1) = NoUnit
      BY <1>4 DEF At
    <3>2. Rest(0) = << >>
      BY <1>4
    <3>3. \A k \in 0 .. N : g[k][NoUnit] = << >>
      BY <1>3 DEF UnitsOrNone
    <3>. QED  BY <2>2, <3>1, <3>2, <3>3
  <2>4. j \in 1 .. l /\ j - 1 \in 0 .. l /\ j - 1 \notin T
    BY <2>2, <2>3
  <2>5. PICK i \in 1 .. l : i = l - j + 1 /\ l - (j - 1) + 1 = i + 1
    BY <2>4
  <2>6. /\ L[i] \in Units /\ next[L[i]] = At(L, i + 1) /\ At(L, i) = L[i]
        /\ L[i] \in UnitsOrNone /\ L[i] # NoUnit
    <3>1. i \in DOMAIN L /\ L[i] \in Units
      BY <1>4
    <3>. QED  BY <3>1, RosterAssumption DEF Walk, At, UnitsOrNone
  <2>7. ASSUME NEW k \in j .. N
        PROVE  g[k][At(L, i)] = Rest(j)
    <3>1. k \in 0 .. N /\ k # 0 /\ k - 1 \in (j - 1) .. N
      BY <2>4
    <3>2. g[k][L[i]] = << L[i] >> \o g[k - 1][At(L, i + 1)]
      <4>1. g[k][L[i]] = << L[i] >> \o g[k - 1][next[L[i]]]
        BY <1>3, <2>6, <3>1
      <4>. QED  BY <2>6, <4>1
    <3>3. g[k - 1][At(L, i + 1)] = SubSeq(L, i + 1, l)
      BY <2>4, <2>5, <3>1
    <3>4. << L[i] >> \o SubSeq(L, i + 1, l) = SubSeq(L, i, l)
      <4>. QED  BY <1>4, SubSeqRecursiveFirst
    <3>. QED  BY <2>5, <2>6, <3>2, <3>3, <3>4
  <2>. QED  BY <2>2, <2>5, <2>7
<1>6. l \in 0 .. l /\ N \in l .. N /\ l - l + 1 = 1
  BY <1>4
<1>7. g[N][At(L, 1)] = SubSeq(L, 1, l)
  BY <1>5, <1>6
<1>8. SubSeq(L, 1, l) = L
  BY <1>4
<1>. QED  BY <1>2, <1>7, <1>8 DEF Walk

-----------------------------------------------------------------------------
(* Taking one unit out of a list *)

Cut(L, k) == [i \in 1 .. Len(L) - 1 |-> IF i < k THEN L[i] ELSE L[i + 1]]

(* RemoveFirst, for lists without repetitions *)
LEMMA FirstIsCut ==
  ASSUME NEW L \in Seq(Units), Once(L), NEW u
  PROVE  /\ u \notin Range(L) => Orders!RemoveFirst(L, u) = L
         /\ \A k \in DOMAIN L : L[k] = u => Orders!RemoveFirst(L, u) = Cut(L, k)
<1>1. PICK l \in Nat : l = Len(L) /\ DOMAIN L = 1 .. l
  OBVIOUS
<1>2. CASE u \notin Range(L)
  <2>1. ~ \E i \in 1 .. Len(L) : L[i] = u
    BY <1>1, <1>2 DEF Range
  <2>2. Orders!RemoveFirst(L, u) = L
    BY <2>1 DEF Orders!RemoveFirst
  <2>3. \A k \in DOMAIN L : L[k] # u
    BY <1>2 DEF Range
  <2>. QED  BY <2>2, <2>3
<1>3. ASSUME NEW k \in DOMAIN L, L[k] = u
      PROVE  Orders!RemoveFirst(L, u) = Cut(L, k) /\ u \in Range(L)
  <2>1. {i \in 1 .. Len(L) : L[i] = u} = {k}
    BY <1>1, <1>3 DEF Once
  <2>2. Orders!SelectInSeq(L, LAMBDA v : v = u) = k
    <3>1. Orders!Min({k}) = k
      <4>1. k \in Int
        BY <1>1
      <4>. QED  BY <4>1 DEF Orders!Min
    <3>. QED  BY <2>1, <3>1 DEF Orders!SelectInSeq
  <2>3. Orders!RemoveFirst(L, u) = Orders!RemoveAt(L, k)
    BY <1>1, <1>3, <2>2 DEF Orders!RemoveFirst
  <2>4. PICK a, b, c : a = SubSeq(L, 1, k - 1) /\ b = SubSeq(L, k + 1, l) /\ c = a \o b
    OBVIOUS
  <2>5. k \in 1 .. l /\ k \in Nat
    BY <1>1
  <2>6. /\ a \in Seq(Units) /\ Len(a) = k - 1
        /\ \A i \in 1 .. k - 1 : a[i] = L[i]
    BY <1>1, <2>4, <2>5
  <2>7. /\ b \in Seq(Units) /\ Len(b) = l - k
        /\ \A i \in 1 .. l - k : b[i] = L[k + i]
    <3>1. PICK m \in 1 .. l + 1 : m = k + 1
      BY <2>5
    <3>2. /\ SubSeq(L, m, l) \in Seq(Units)
          /\ Len(SubSeq(L, m, l)) = IF m <= l THEN l - m + 1 ELSE 0
          /\ \A i \in 1 .. l - m + 1 : SubSeq(L, m, l)[i] = L[m + i - 1]
      <4>1. m \in 1 .. Len(L) + 1 /\ l \in (m - 1) .. Len(L)
        BY <1>1, <2>5, <3>1
      <4>. QED  BY <4>1, SubSeqProperties
    <3>3. (IF m <= l THEN l - m + 1 ELSE 0) = l - k /\ l - m + 1 = l - k
      BY <2>5, <3>1
    <3>4. \A i \in 1 .. l - k : m + i - 1 = k + i
      BY <2>5, <3>1
    <3>. QED  BY <2>4, <3>1, <3>2, <3>3, <3>4
  <2>8. /\ c \in Seq(Units) /\ Len(c) = l - 1
        /\ \A i \in 1 .. l - 1 : c[i] = IF i <= k - 1 THEN a[i] ELSE b[i - (k - 1)]
    <3>1. /\ a \o b \in Seq(Units) /\ Len(a \o b) = Len(a) + Len(b)
          /\ \A i \in 1 .. Len(a) + Len(b) :
               (a \o b)[i] = IF i <= Len(a) THEN a[i] ELSE b[i - Len(a)]
      BY <2>6, <2>7, ConcatProperties
    <3>2. Len(a) + Len(b) = l - 1
      BY <2>5, <2>6, <2>7
    <3>. QED  BY <2>4, <2>6, <3>1, <3>2
  <2>9. ASSUME NEW i \in 1 .. l - 1
        PROVE  c[i] = IF i < k THEN L[i] ELSE L[i + 1]
    <3>1. CASE i < k
      <4>1. i <= k - 1 /\ i \in 1 .. k - 1
        BY <2>5, <3>1
      <4>. QED  BY <2>6, <2>8, <3>1, <4>1
    <3>2. CASE ~ (i < k)
      <4>1. i - (k - 1) \in 1 .. l - k /\ k + (i - (k - 1)) = i + 1
        BY <1>1, <2>5, <3>2
      <4>2. c[i] = b[i - (k - 1)]
        <5>1. ~ (i <= k - 1)
          BY <2>5, <3>2
        <5>. QED  BY <2>8, <5>1
      <4>. QED  BY <2>7, <3>2, <4>1, <4>2
    <3>. QED  BY <3>1, <3>2
  <2>10. c = Cut(L, k)
    BY <1>1, <2>8, <2>9 DEF Cut
  <2>11. u \in Range(L)
    BY <1>3 DEF Range
  <2>. QED  BY <1>1, <2>3, <2>4, <2>10, <2>11 DEF Orders!RemoveAt
<1>. QED  BY <1>2, <1>3

LEMMA CutList ==
  ASSUME NEW L \in Seq(Units), Once(L), NEW k \in DOMAIN L
  PROVE  /\ Cut(L, k) \in Seq(Units) /\ Once(Cut(L, k))
         /\ Range(Cut(L, k)) = Range(L) \ {L[k]}
<1>1. PICK l \in Nat : l = Len(L) /\ DOMAIN L = 1 .. l /\ l >= 1
  OBVIOUS
<1>2. PICK c : c = Cut(L, k)
  OBVIOUS
<1>3. /\ DOMAIN c = 1 .. l - 1 /\ l - 1 \in Nat
      /\ \A i \in 1 .. l - 1 : c[i] = IF i < k THEN L[i] ELSE L[i + 1]
      /\ \A i \in 1 .. l - 1 : i \in 1 .. l /\ i + 1 \in 1 .. l
  BY <1>1, <1>2 DEF Cut
<1>4. c \in [1 .. l - 1 -> Units]
  BY <1>1, <1>2 DEF Cut
<1>5. c \in Seq(Units)
  BY <1>3, <1>4
<1> DEFINE old(i) == IF i < k THEN i ELSE i + 1
<1>6. ASSUME NEW i \in 1 .. l - 1
      PROVE  old(i) \in 1 .. l /\ old(i) # k /\ c[i] = L[old(i)]
  BY <1>1, <1>3
<1>7. Once(c)
  <2>1. ASSUME NEW i \in 1 .. l - 1, NEW j \in 1 .. l - 1, c[i] = c[j]
        PROVE  i = j
    <3>1. old(i) = old(j)
      <4>. HIDE DEF old
      <4>. QED  BY <1>1, <1>6, <2>1 DEF Once
    <3>. QED  BY <1>1, <3>1
  <2>. QED  BY <1>3, <2>1 DEF Once
<1>11. ASSUME NEW i \in 1 .. l - 1
       PROVE  c[i] \in Range(L) \ {L[k]}
  <2>. HIDE DEF old
  <2>. QED  BY <1>1, <1>6 DEF Once, Range
<1>8. ASSUME NEW i \in 1 .. l, i # k
      PROVE  L[i] \in Range(c)
  <2>1. CASE i < k
    <3>1. i \in 1 .. l - 1 /\ c[i] = L[i]
      BY <1>1, <1>3, <2>1
    <3>. QED  BY <1>3, <3>1 DEF Range
  <2>2. CASE i > k
    <3>1. i - 1 \in 1 .. l - 1 /\ c[i - 1] = L[(i - 1) + 1] /\ (i - 1) + 1 = i
      BY <1>1, <1>3, <2>2
    <3>. QED  BY <1>3, <3>1 DEF Range
  <2>. QED  BY <1>1, <1>8, <2>1, <2>2
<1>9. Range(c) \subseteq Range(L) \ {L[k]}
  BY <1>3, <1>11 DEF Range
<1>10. Range(L) \ {L[k]} \subseteq Range(c)
  BY <1>1, <1>8 DEF Range
<1>. QED  BY <1>2, <1>5, <1>7, <1>9, <1>10

(* A unit put in front and taken out again leaves nothing behind. *)
LEMMA PushList ==
  ASSUME NEW L \in Seq(Units), Once(L), NEW u \in Units, u \notin Range(L)
  PROVE  /\ << u >> \o L \in Seq(Units) /\ Once(<< u >> \o L)
         /\ Range(<< u >> \o L) = Range(L) \cup {u}
         /\ Len(<< u >> \o L) = Len(L) + 1 /\ (<< u >> \o L)[1] = u
         /\ \A i \in DOMAIN L : (<< u >> \o L)[i + 1] = L[i]
         /\ Orders!RemoveFirst(<< u >> \o L, u) = L
<1>1. PICK l \in Nat : l = Len(L) /\ DOMAIN L = 1 .. l
  OBVIOUS
<1>2. PICK c : c = << u >> \o L
  OBVIOUS
<1>3. << u >> \in Seq(Units) /\ Once(<< u >>) /\ Range(<< u >>) = {u}
  BY RangeOne DEF Once
<1>4. c \in Seq(Units) /\ Range(c) = Range(L) \cup {u}
  <2>1. PICK v \in Seq(Units) : v = << u >>
    BY <1>3
  <2>2. v \o L \in Seq(Units) /\ Range(v \o L) = Range(v) \cup Range(L)
    BY RangeJoin
  <2>. QED  BY <1>2, <1>3, <2>1, <2>2
<1>5. Once(c)
  BY <1>2, <1>3, OnceJoin
<1>6. Len(c) = l + 1 /\ c[1] = u /\ \A i \in 1 .. l : c[i + 1] = L[i]
  BY <1>1, <1>2
<1>7. Orders!RemoveFirst(c, u) = Cut(c, 1)
  <2>1. 1 \in DOMAIN c
    BY <1>4, <1>6
  <2>. QED  BY <1>4, <1>5, <1>6, <2>1, FirstIsCut
<1>8. Cut(c, 1) = L
  <2>1. Cut(c, 1) = [i \in 1 .. l |-> c[i + 1]]
    BY <1>6 DEF Cut
  <2>. QED  BY <1>1, <1>6, <2>1
<1>. QED  BY <1>1, <1>2, <1>4, <1>5, <1>6, <1>7, <1>8

-----------------------------------------------------------------------------
(* The lists o are what the pointers of s stand for. *)
Orderly(s, H, o) ==
  /\ o \in [Factions -> Seq(Units)]
  /\ \A f \in Factions :
       Walk(o[f], s.units[f], s.nextF) /\ Once(o[f]) /\ Range(o[f]) = MembersOf(s, H, f)

OrderOf(s) == [f \in Factions |-> ListFrom(s.units[f], s.nextF)]

Joined(o, u, f) == [o EXCEPT ![f] = << u >> \o @]
Left(o, u) == [f \in Factions |-> Orders!RemoveFirst(o[f], u)]

(* Nothing else does. *)
LEMMA OrderlyIsOrder ==
  ASSUME NEW s, NEW H, NEW o, Orderly(s, H, o)
  PROVE  OrderOf(s) = o
<1>1. \A f \in Factions : ListFrom(s.units[f], s.nextF) = o[f]
  BY ListIsRead DEF Orderly
<1>. QED  BY <1>1 DEF OrderOf, Orderly

(* What leaves the pointers and factions alone leaves the lists alone. *)
LEMMA SameOrder ==
  ASSUME NEW s, NEW H, NEW o, Orderly(s, H, o), NEW t,
         t.units = s.units, t.nextF = s.nextF, t.faction = s.faction
  PROVE  Orderly(t, H, o)
BY DEF Orderly, MembersOf

(* u_setfaction, second half: a unit goes to the front. *)
LEMMA LinkOrder ==
  ASSUME NEW s, NEW H, Sound(s, H), NEW o, Orderly(s, H, o),
         NEW u \in Units \ H, NEW f \in Factions
  PROVE  /\ Orderly(Link(s, u, f), H \cup {u}, Joined(o, u, f))
         /\ \A g \in Factions : u \notin Range(o[g])
<1>1. PICK t : t = Link(s, u, f)
  OBVIOUS
<1>2. IsRoster(s) /\ H \subseteq Units
  BY DEF Sound, Owned
<1>3. Pushed(s, t, u, f)
  BY <1>1, <1>2, LinkFields
<1>4. PICK q : q = Joined(o, u, f)
  OBVIOUS
<1>5. \A g \in Factions : u \notin Range(o[g]) /\ o[g] \in Seq(Units)
  BY DEF Orderly, MembersOf
<1>6. q \in [Factions -> Seq(Units)] /\ q[f] = << u >> \o o[f]
      /\ \A g \in Factions \ {f} : q[g] = o[g]
  <2>1. << u >> \o o[f] \in Seq(Units)
    BY <1>5, PushList DEF Orderly
  <2>. QED  BY <1>4, <2>1 DEF Joined, Orderly
<1>7. ASSUME NEW g \in Factions
      PROVE  Walk(q[g], t.units[g], t.nextF) /\ Once(q[g]) /\ Range(q[g]) = MembersOf(t, H \cup {u}, g)
  <2>1. PICK L : L = o[g] /\ L \in Seq(Units) /\ Once(L) /\ Range(L) = MembersOf(s, H, g)
                 /\ Walk(L, s.units[g], s.nextF) /\ u \notin Range(L)
    BY <1>5 DEF Orderly
  <2>2. \A i \in DOMAIN L : L[i] \in Units /\ L[i] # u
    BY <2>1 DEF Range
  <2>3. \A i \in DOMAIN L : t.nextF[L[i]] = At(L, i + 1)
    BY <1>2, <1>3, <2>1, <2>2 DEF Pushed, Walk, IsRoster
  <2>4. CASE g # f
    <3>1. t.units[g] = s.units[g] /\ q[g] = L
      BY <1>2, <1>3, <1>6, <2>1, <2>4 DEF Pushed, IsRoster
    <3>2. MembersOf(t, H \cup {u}, g) = MembersOf(s, H, g)
      BY <1>2, <1>3, <2>4 DEF Pushed, IsRoster, MembersOf
    <3>. QED  BY <2>1, <2>3, <3>1, <3>2 DEF Walk
  <2>5. CASE g = f
    <3>1. PICK c : c = q[f] /\ c = << u >> \o L
      BY <1>6, <2>1, <2>5
    <3>2. /\ c \in Seq(Units) /\ Once(c) /\ Range(c) = Range(L) \cup {u}
          /\ Len(c) = Len(L) + 1 /\ c[1] = u
          /\ \A i \in DOMAIN L : c[i + 1] = L[i]
      <4>1. u \in Units
        OBVIOUS
      <4>2. /\ << u >> \o L \in Seq(Units) /\ Once(<< u >> \o L)
            /\ Range(<< u >> \o L) = Range(L) \cup {u}
            /\ Len(<< u >> \o L) = Len(L) + 1 /\ (<< u >> \o L)[1] = u
            /\ \A i \in DOMAIN L : (<< u >> \o L)[i + 1] = L[i]
        BY <2>1, <4>1, PushList, Zenon
      <4>. QED  BY <3>1, <4>2, Zenon
    <3>3. /\ t.units[f] = u /\ t.nextF[u] = s.units[f]
          /\ MembersOf(t, H \cup {u}, f) = MembersOf(s, H, f) \cup {u}
      BY <1>2, <1>3 DEF Pushed, IsRoster, MembersOf
    <3>4. PICK l \in Nat : l = Len(L) /\ DOMAIN L = 1 .. l /\ DOMAIN c = 1 .. l + 1
      BY <2>1, <3>2
    <3>5. ASSUME NEW i \in 1 .. l + 1
          PROVE  At(c, i + 1) = At(L, i)
      <4>1. i + 1 \in DOMAIN c <=> i \in DOMAIN L
        BY <3>4
      <4>. QED  BY <3>2, <4>1 DEF At
    <3>6. ASSUME NEW i \in DOMAIN c
          PROVE  t.nextF[c[i]] = At(c, i + 1)
      <4>1. CASE i = 1
        BY <2>1, <2>5, <3>2, <3>3, <3>4, <3>5, <3>6, <4>1 DEF Walk
      <4>2. CASE i # 1
        <5>1. PICK j \in DOMAIN L : i = j + 1
          <6>1. i - 1 \in 1 .. l /\ i = (i - 1) + 1
            BY <3>4, <3>6, <4>2
          <6>. QED  BY <3>4, <6>1
        <5>2. c[i] = L[j] /\ j + 1 \in 1 .. l + 1
          BY <3>2, <3>4, <5>1
        <5>. QED  BY <2>3, <3>5, <5>1, <5>2
      <4>. QED  BY <4>1, <4>2
    <3>7. t.units[f] = At(c, 1)
      BY <3>2, <3>3, <3>4 DEF At
    <3>. QED  BY <2>1, <2>5, <3>1, <3>2, <3>3, <3>6, <3>7 DEF Walk
  <2>. QED  BY <2>4, <2>5
<1>. QED  BY <1>1, <1>4, <1>5, <1>6, <1>7 DEF Orderly

(* The neighbours of a unit are those on its list. *)
LEMMA Neighbours ==
  ASSUME NEW s, NEW H, Sound(s, H), NEW o, Orderly(s, H, o), NEW u \in H,
         NEW f, f = s.faction[u]
  PROVE  /\ f \in Factions
         /\ \E k \in DOMAIN o[f] :
              /\ o[f][k] = u /\ s.nextF[u] = At(o[f], k + 1)
              /\ k # 1 => k - 1 \in DOMAIN o[f] /\ s.prevF[u] = o[f][k - 1] /\ s.units[f] # u
              /\ k = 1 => s.prevF[u] = NoUnit /\ s.units[f] = u
<1>1. f \in Factions /\ u \in Units /\ H \subseteq Units /\ IsRoster(s)
  BY DEF Sound, Owned
<1>2. PICK L : L = o[f] /\ L \in Seq(Units) /\ Once(L) /\ Range(L) = MembersOf(s, H, f)
               /\ Walk(L, s.units[f], s.nextF)
  BY <1>1 DEF Orderly
<1>3. PICK l \in Nat : l = Len(L) /\ DOMAIN L = 1 .. l
  BY <1>2
<1>4. PICK k \in DOMAIN L : L[k] = u
  BY <1>2 DEF MembersOf, Range
<1>5. s.nextF[u] = At(L, k + 1)
  BY <1>2, <1>4 DEF Walk
<1>6. 1 \in DOMAIN L /\ s.units[f] = L[1]
  <2>1. 1 \in DOMAIN L
    BY <1>3, <1>4
  <2>. QED  BY <1>2, <2>1 DEF Walk, At
<1>7. CASE k = 1
  BY <1>1, <1>2, <1>4, <1>5, <1>6, <1>7 DEF Sound, Linked
<1>8. CASE k # 1
  <2>1. k - 1 \in DOMAIN L /\ (k - 1) + 1 = k
    BY <1>3, <1>4, <1>8
  <2>2. PICK v : v = L[k - 1] /\ v \in H
    BY <1>2, <2>1 DEF MembersOf, Range
  <2>3. s.nextF[v] = u
    BY <1>2, <1>4, <2>1, <2>2 DEF Walk, At
  <2>4. s.prevF[u] = v
    BY <1>1, <2>2, <2>3 DEF Sound, Linked
  <2>5. s.units[f] # u
    BY <1>2, <1>4, <1>6, <1>8 DEF Once
  <2>. QED  BY <1>1, <1>2, <1>4, <1>5, <1>8, <2>1, <2>2, <2>4, <2>5
<1>. QED  BY <1>7, <1>8

(* u_setfaction, first half, and erase_unit: the unit is taken out, and    *)
(* the others keep their order.                                            *)
LEMMA RemovedOrder ==
  ASSUME NEW s, NEW H, Sound(s, H), NEW o, Orderly(s, H, o), NEW u \in H,
         NEW t, NEW f, NEW p, NEW n, Removed(s, t, u, f, p, n)
  PROVE  Orderly(t, H \ {u}, Left(o, u))
<1>1. IsRoster(s) /\ H \subseteq Units /\ u \in Units /\ f \in Factions
  BY DEF Sound, Owned, Removed, Unlinked
<1>2. PICK k \in DOMAIN o[f] :
        /\ o[f][k] = u /\ n = At(o[f], k + 1)
        /\ k # 1 => k - 1 \in DOMAIN o[f] /\ p = o[f][k - 1] /\ s.units[f] # u
        /\ k = 1 => p = NoUnit /\ s.units[f] = u
  BY Neighbours DEF Removed, Unlinked
<1>3. ASSUME NEW g \in Factions
      PROVE  /\ o[g] \in Seq(Units) /\ Once(o[g]) /\ Range(o[g]) = MembersOf(s, H, g)
             /\ Walk(o[g], s.units[g], s.nextF)
             /\ \A i \in DOMAIN o[g] : o[g][i] \in H /\ o[g][i] \in Units /\ s.faction[o[g][i]] = g
             /\ MembersOf(t, H \ {u}, g) = MembersOf(s, H, g) \ {u}
             /\ Left(o, u)[g] = Orders!RemoveFirst(o[g], u)
  <2>1. /\ o[g] \in Seq(Units) /\ Once(o[g]) /\ Range(o[g]) = MembersOf(s, H, g)
        /\ Walk(o[g], s.units[g], s.nextF)
    BY DEF Orderly
  <2>2. \A i \in DOMAIN o[g] : o[g][i] \in H /\ o[g][i] \in Units /\ s.faction[o[g][i]] = g
    BY <1>1, <2>1 DEF MembersOf, Range
  <2>3. MembersOf(t, H \ {u}, g) = MembersOf(s, H, g) \ {u}
    BY <1>1 DEF MembersOf, Removed, Unlinked
  <2>. QED  BY <2>1, <2>2, <2>3 DEF Left
<1>4. \A v \in Units \ {u} : t.nextF[v] = IF v = p THEN n ELSE s.nextF[v]
  BY DEF Removed, Unlinked
<1>5. \A g \in Factions : t.units[g] = IF g = f /\ s.units[f] = u THEN n ELSE s.units[g]
  BY DEF Removed
<1>6. s.faction[u] = f
  BY DEF Removed
<1>7. ASSUME NEW g \in Factions, g # f
      PROVE  /\ Left(o, u)[g] = o[g] /\ MembersOf(t, H \ {u}, g) = MembersOf(s, H, g)
             /\ Walk(o[g], t.units[g], t.nextF)
  <2>1. u \notin Range(o[g]) /\ MembersOf(t, H \ {u}, g) = MembersOf(s, H, g)
    BY <1>3, <1>6, <1>7 DEF MembersOf
  <2>2. Left(o, u)[g] = o[g]
    BY <1>3, <2>1, FirstIsCut
  <2>3. \A i \in DOMAIN o[g] : o[g][i] # u /\ o[g][i] # p
    <3>1. p # NoUnit => s.faction[p] = f
      BY <1>1, <1>2, <1>3
    <3>. QED  BY <1>3, <1>6, <1>7, <3>1, RosterAssumption
  <2>4. \A i \in DOMAIN o[g] : t.nextF[o[g][i]] = s.nextF[o[g][i]]
    BY <1>3, <1>4, <2>3
  <2>. QED  BY <1>3, <1>5, <1>7, <2>1, <2>2, <2>4 DEF Walk
<1>8. PICK L : L = o[f] /\ L \in Seq(Units) /\ Once(L) /\ Range(L) = MembersOf(s, H, f)
               /\ Walk(L, s.units[f], s.nextF) /\ k \in DOMAIN L /\ L[k] = u
               /\ \A i \in DOMAIN L : L[i] \in Units
  BY <1>1, <1>2, <1>3
<1>9. PICK l \in Nat : l = Len(L) /\ DOMAIN L = 1 .. l /\ l >= 1 /\ k \in 1 .. l
  BY <1>8
<1>10. PICK c : c = Cut(L, k)
  OBVIOUS
<1>11. /\ c \in Seq(Units) /\ Once(c) /\ Range(c) = MembersOf(t, H \ {u}, f)
       /\ Left(o, u)[f] = c
  <2>1. c \in Seq(Units) /\ Once(c) /\ Range(c) = Range(L) \ {L[k]}
    BY <1>8, <1>10, CutList
  <2>2. Orders!RemoveFirst(L, u) = c
    BY <1>8, <1>10, FirstIsCut
  <2>3. Left(o, u)[f] = Orders!RemoveFirst(L, u)
        /\ MembersOf(t, H \ {u}, f) = MembersOf(s, H, f) \ {u}
    BY <1>1, <1>3, <1>8
  <2>. QED  BY <1>8, <2>1, <2>2, <2>3
<1>12. /\ DOMAIN c = 1 .. l - 1
       /\ \A i \in 1 .. l - 1 : c[i] = IF i < k THEN L[i] ELSE L[i + 1]
  BY <1>8, <1>9, <1>10 DEF Cut
<1>13. ASSUME NEW i \in 1 .. l
       PROVE  At(c, i) = IF i < k THEN L[i] ELSE At(L, i + 1)
  <2>1. i \in DOMAIN c <=> i + 1 \in DOMAIN L
    BY <1>9, <1>12
  <2>2. CASE i \in DOMAIN c
    BY <1>12, <2>1, <2>2 DEF At
  <2>3. CASE i \notin DOMAIN c
    <3>1. ~ (i < k)
      BY <1>9, <1>12, <2>3
    <3>. QED  BY <2>1, <2>3, <3>1 DEF At
  <2>. QED  BY <2>2, <2>3
<1>14. t.units[f] = At(c, 1)
  <2>1. 1 \in 1 .. l /\ 1 \in DOMAIN L /\ s.units[f] = L[1]
    <3>1. 1 \in 1 .. l /\ 1 \in DOMAIN L
      BY <1>9
    <3>. QED  BY <1>8, <3>1 DEF Walk, At
  <2>2. CASE k = 1
    BY <1>1, <1>2, <1>5, <1>8, <1>13, <2>1, <2>2
  <2>3. CASE k # 1
    <3>1. 1 < k
      BY <1>9, <2>3
    <3>. QED  BY <1>1, <1>2, <1>5, <1>13, <2>1, <2>3, <3>1
  <2>. QED  BY <2>2, <2>3
<1>15. ASSUME NEW i \in DOMAIN c
       PROVE  t.nextF[c[i]] = At(c, i + 1)
  <2>1. i \in 1 .. l - 1 /\ i \in 1 .. l /\ i + 1 \in 1 .. l
    BY <1>9, <1>12, <1>15
  <2>2. \A j \in DOMAIN L : s.nextF[L[j]] = At(L, j + 1)
    BY <1>8 DEF Walk
  <2>3. CASE i < k - 1
    <3>1. c[i] = L[i] /\ i + 1 < k /\ L[i] # u /\ L[i] # p /\ L[i] \in Units
      <4>1. i < k /\ i + 1 < k /\ i # k - 1 /\ k # 1 /\ i # k
        BY <1>9, <2>1, <2>3
      <4>2. c[i] = L[i] /\ L[i] # L[k] /\ L[i] # L[k - 1] /\ L[i] \in Units
        BY <1>2, <1>8, <1>9, <1>12, <2>1, <4>1 DEF Once
      <4>. QED  BY <1>2, <1>8, <4>1, <4>2
    <3>2. t.nextF[L[i]] = At(L, i + 1)
      BY <1>4, <1>9, <2>1, <2>2, <3>1
    <3>3. At(L, i + 1) = L[i + 1] /\ At(c, i + 1) = L[i + 1]
      BY <1>9, <1>13, <2>1, <3>1 DEF At
    <3>. QED  BY <3>1, <3>2, <3>3
  <2>4. CASE i = k - 1
    <3>1. i < k /\ k # 1 /\ i + 1 = k /\ i # k
      BY <1>9, <2>1, <2>4
    <3>2. c[i] = L[i] /\ L[i] = p /\ L[i] \in Units /\ L[i] # u
      BY <1>2, <1>8, <1>9, <1>12, <2>1, <2>4, <3>1 DEF Once
    <3>3. t.nextF[c[i]] = At(L, k + 1)
      BY <1>2, <1>4, <1>8, <3>2
    <3>4. At(c, k) = At(L, k + 1)
      BY <1>9, <1>13
    <3>. QED  BY <3>1, <3>3, <3>4
  <2>5. CASE i >= k
    <3>1. ~ (i < k) /\ ~ (i + 1 < k) /\ i + 1 # k /\ i + 1 # k - 1
      BY <1>9, <2>1, <2>5
    <3>2. c[i] = L[i + 1] /\ L[i + 1] \in Units /\ L[i + 1] # u
      BY <1>8, <1>9, <1>12, <2>1, <3>1 DEF Once
    <3>3. L[i + 1] # p
      BY <1>2, <1>8, <1>9, <2>1, <3>1, <3>2, RosterAssumption DEF Once
    <3>4. t.nextF[c[i]] = At(L, i + 1 + 1)
      BY <1>4, <1>9, <2>1, <2>2, <3>2, <3>3
    <3>. QED  BY <1>13, <2>1, <3>1, <3>4
  <2>6. i < k - 1 \/ i = k - 1 \/ i >= k
    BY <1>9, <2>1
  <2>. QED  BY <2>3, <2>4, <2>5, <2>6
<1>16. Walk(c, t.units[f], t.nextF)
  BY <1>14, <1>15 DEF Walk
<1>17. ASSUME NEW g \in Factions
       PROVE  /\ Left(o, u)[g] \in Seq(Units) /\ Once(Left(o, u)[g])
              /\ Range(Left(o, u)[g]) = MembersOf(t, H \ {u}, g)
              /\ Walk(Left(o, u)[g], t.units[g], t.nextF)
  BY <1>3, <1>7, <1>11, <1>16
<1>18. Left(o, u) \in [Factions -> Seq(Units)]
  BY <1>17 DEF Left
<1>. QED  BY <1>17, <1>18 DEF Orderly

-----------------------------------------------------------------------------
(* The operations *)

LEMMA UnlinkOrder ==
  ASSUME NEW s, NEW H, Sound(s, H), NEW o, Orderly(s, H, o), NEW u \in H
  PROVE  Orderly(Unlink(s, u), H \ {u}, Left(o, u))
<1>1. PICK t, f, p, n : /\ t = Unlink(s, u)
                        /\ f = s.faction[u] /\ p = s.prevF[u] /\ n = s.nextF[u]
  OBVIOUS
<1>2. IsRoster(s) /\ u \in Units /\ f \in Factions
  BY <1>1 DEF Sound, Owned
<1>3. /\ IsRoster(t)
      /\ Unlinked(s, t, u, f, p, n)
      /\ t.faction = [s.faction EXCEPT ![u] = NoFaction]
      /\ \A g \in Factions : t.units[g] = IF g = f /\ p = NoUnit THEN n ELSE s.units[g]
  BY <1>1, <1>2, UnlinkFields
<1>4. p = NoUnit <=> s.units[f] = u
  BY <1>1 DEF Sound, Linked
<1>5. Removed(s, t, u, f, p, n)
  BY <1>1, <1>3, <1>4 DEF Removed
<1>. QED  BY <1>1, <1>5, RemovedOrder

LEMMA EraseOrder ==
  ASSUME NEW s, NEW H, Sound(s, H), NEW o, Orderly(s, H, o), NEW u \in H
  PROVE  Orderly(Erase(s, u), H \ {u}, Left(o, u))
<1>1. PICK t, f, p, n : /\ t = Erase(s, u)
                        /\ f = s.faction[u] /\ p = s.prevF[u] /\ n = s.nextF[u]
  OBVIOUS
<1>2. IsRoster(s) /\ u \in Units /\ f \in Factions
  BY <1>1 DEF Sound, Owned
<1>3. /\ Unlinked(s, t, u, f, p, n)
      /\ \A g \in Factions : t.units[g] = IF g = f /\ s.units[f] = u THEN n ELSE s.units[g]
  BY <1>1, <1>2, EraseFields
<1>4. Removed(s, t, u, f, p, n)
  BY <1>1, <1>3 DEF Removed
<1>. QED  BY <1>1, <1>4, RemovedOrder

(* set_number and u_setrace touch no list. *)
LEMMA NumberOrder ==
  ASSUME NEW s, NEW H, IsRoster(s), NEW o, Orderly(s, H, o), NEW u \in Units, NEW n, NEW S
  PROVE  /\ Orderly(SetNumber(s, u, n), H, o)
         /\ Orderly(Depopulate(s, S), H, o)
         /\ Orderly(SetRace(s, u), H, o)
<1>1. /\ SetNumber(s, u, n).units = s.units /\ SetNumber(s, u, n).nextF = s.nextF
      /\ SetNumber(s, u, n).faction = s.faction
  BY DEF SetNumber, IsRoster, Fields
<1>2. /\ Depopulate(s, S).units = s.units /\ Depopulate(s, S).nextF = s.nextF
      /\ Depopulate(s, S).faction = s.faction
  BY DEF Depopulate, IsRoster, Fields
<1>3. /\ SetRace(s, u).units = s.units /\ SetRace(s, u).nextF = s.nextF
      /\ SetRace(s, u).faction = s.faction
  BY DEF SetRace, IsRoster, Fields
<1>. QED  BY <1>1, <1>2, <1>3, SameOrder

(* Who is on a list, and who on none *)
LEMMA OnLists ==
  ASSUME NEW s, NEW H, Sound(s, H), NEW o, Orderly(s, H, o), NEW u
  PROVE  /\ \A f \in Factions : Orders!Contains(o[f], u) <=> u \in H /\ s.faction[u] = f
         /\ (\E f \in Factions : Orders!Contains(o[f], u)) <=> u \in H
<1>1. ASSUME NEW f \in Factions
      PROVE  Orders!Contains(o[f], u) <=> u \in H /\ s.faction[u] = f
  <2>1. PICK L \in Seq(Units) : L = o[f] /\ Range(L) = MembersOf(s, H, f)
    BY DEF Orderly
  <2>2. Orders!Contains(L, u) <=> u \in Range(L)
    BY DEF Orders!Contains, Range
  <2>. QED  BY <2>1, <2>2 DEF MembersOf
<1>. QED  BY <1>1 DEF Sound, Owned

(* What the abstract specification allows the lists to do *)
Comes(o, q, u, f) ==
  /\ u \in Units /\ f \in Factions
  /\ ~ \E g \in Factions : Orders!Contains(o[g], u)
  /\ q = Joined(o, u, f)
Goes(o, q, u) ==
  /\ u \in Units /\ \E g \in Factions : Orders!Contains(o[g], u)
  /\ q = Left(o, u)
Changes(o, q, u, f) ==
  /\ u \in Units /\ f \in Factions
  /\ \E g \in Factions : Orders!Contains(o[g], u)
  /\ ~ Orders!Contains(o[f], u)
  /\ q = Joined(Left(o, u), u, f)
Allowed(o, q) ==
  \/ q = o
  \/ \E u, f : Comes(o, q, u, f) \/ Changes(o, q, u, f) \/ Goes(o, q, u)
  \/ q = [f \in Factions |-> << >>]

(* u_setfaction moves a listed unit, *)
LEMMA SetFactionOrder ==
  ASSUME NEW s, NEW H, Sound(s, H), NEW o, Orderly(s, H, o), NEW u \in H, NEW f \in Factions
  PROVE  \E q : Allowed(o, q) /\ Orderly(SetFaction(s, u, f), H, q)
<1>1. CASE s.faction[u] = f
  BY <1>1 DEF SetFaction, Allowed
<1>2. CASE s.faction[u] # f
  <2>1. PICK t, G, v : t = Unlink(s, u) /\ G = H \ {u} /\ v = Left(o, u)
    OBVIOUS
  <2>2. Sound(t, G) /\ Orderly(t, G, v)
    BY <2>1, UnlinkSound, UnlinkOrder
  <2>3. u \in Units \ G /\ G \cup {u} = H
    BY <2>1 DEF Sound, Owned
  <2>4. Orderly(Link(t, u, f), H, Joined(v, u, f))
    BY <2>2, <2>3, LinkOrder
  <2>5. Changes(o, Joined(v, u, f), u, f)
    <3>1. /\ Orders!Contains(o[f], u) <=> u \in H /\ s.faction[u] = f
          /\ (\E g \in Factions : Orders!Contains(o[g], u)) <=> u \in H
      BY OnLists
    <3>. QED  BY <1>2, <2>1, <2>3, <3>1 DEF Changes
  <2>6. SetFaction(s, u, f) = Link(t, u, f)
    BY <1>2, <2>1 DEF SetFaction
  <2>. QED  BY <2>4, <2>5, <2>6 DEF Allowed
<1>. QED  BY <1>1, <1>2

(* and puts one that is on no list in front. *)
LEMMA NewOrder ==
  ASSUME NEW s, NEW H, Sound(s, H), NEW o, Orderly(s, H, o), NEW u \in Units \ H,
         s.faction[u] = NoFaction, NEW f \in Factions
  PROVE  /\ Allowed(o, Joined(o, u, f))
         /\ Orderly(SetFaction(s, u, f), H \cup {u}, Joined(o, u, f))
         /\ Sound(SetFaction(s, u, f), H \cup {u})
<1>1. SetFaction(s, u, f) = Link(s, u, f)
  BY RosterAssumption DEF SetFaction, Unlink
<1>2. Comes(o, Joined(o, u, f), u, f)
  BY OnLists DEF Comes
<1>3. /\ Orderly(Link(s, u, f), H \cup {u}, Joined(o, u, f))
      /\ Sound(Link(s, u, f), H \cup {u})
  BY LinkOrder, LinkSound
<1>4. Allowed(o, Joined(o, u, f))
  BY <1>2 DEF Allowed
<1>. QED  BY <1>1, <1>3, <1>4

LEMMA CreateOrder ==
  ASSUME NEW s, NEW H, Whole(s, H), NEW o, Orderly(s, H, o),
         NEW u \in Units \ H, ~ s.race[u], NEW f \in Factions, NEW n
  PROVE  /\ Allowed(o, Joined(o, u, f))
         /\ Orderly(Create(s, u, f, n), H \cup {u}, Joined(o, u, f))
<1>1. PICK a, b : a = SetRace(s, u) /\ b = SetFaction(a, u, f)
  OBVIOUS
<1>2. Sound(s, H) /\ IsRoster(s) /\ s.faction[u] = NoFaction
  BY DEF Whole, Sound
<1>3. Sound(a, H) /\ a.faction = s.faction /\ Orderly(a, H, o)
  BY <1>1, <1>2, SetRaceSound, NumberOrder
<1>4. /\ Allowed(o, Joined(o, u, f)) /\ Orderly(b, H \cup {u}, Joined(o, u, f))
      /\ Sound(b, H \cup {u})
  BY <1>1, <1>2, <1>3, NewOrder
<1>. QED  BY <1>1, <1>4, NumberOrder DEF Create, Sound

LEMMA ReadOrder ==
  ASSUME NEW s, NEW H, Whole(s, H), NEW o, Orderly(s, H, o),
         NEW u \in Units \ H, s.faction[u] = NoFaction, NEW f \in Factions, NEW n \in Int
  PROVE  /\ Allowed(o, Joined(o, u, f))
         /\ Orderly(Read(s, u, f, n), H \cup {u}, Joined(o, u, f))
<1>1. PICK a, b : a = SetFaction(s, u, f) /\ b = SetNumber(a, u, n)
  OBVIOUS
<1>2. /\ Allowed(o, Joined(o, u, f)) /\ Orderly(a, H \cup {u}, Joined(o, u, f))
      /\ Sound(a, H \cup {u})
  BY <1>1, NewOrder DEF Whole
<1>3. Sound(b, H \cup {u}) /\ Orderly(b, H \cup {u}, Joined(o, u, f))
  BY <1>1, <1>2, SetNumberSound, NumberOrder DEF Sound
<1>. QED  BY <1>1, <1>2, <1>3, NumberOrder DEF Read, Sound

LEMMA ZombieOrder ==
  ASSUME NEW s, NEW H, Whole(s, H), NEW o, Orderly(s, H, o), NEW u \in H
  PROVE  \E q : Allowed(o, q) /\ Orderly(Zombie(s, u), H, q)
<1>1. PICK a, b : a = SetFaction(s, u, Monsters) /\ b = SetNumber(a, u, 1)
  OBVIOUS
<1>2. u \in Units /\ Whole(a, H)
  BY <1>1, SetFactionWhole, RosterAssumption DEF Whole, Sound, Owned
<1>3. PICK q : Allowed(o, q) /\ Orderly(a, H, q)
  BY <1>1, SetFactionOrder, RosterAssumption DEF Whole
<1>4. Whole(b, H) /\ Orderly(b, H, q)
  BY <1>1, <1>2, <1>3, NumbersWhole, NumberOrder DEF Whole, Sound
<1>5. Orderly(SetRace(b, u), H, q)
  BY <1>2, <1>4, NumberOrder DEF Whole, Sound
<1>. QED  BY <1>1, <1>3, <1>5 DEF Zombie

LEMMA EmptyOrder ==
  LET o == [f \in Factions |-> << >>]
  IN Orderly(EmptyRoster, {}, o)
<1> DEFINE o == [f \in Factions |-> << >>]
<1>1. o \in [Factions -> Seq(Units)]
  OBVIOUS
<1>2. ASSUME NEW f \in Factions
      PROVE  /\ Walk(o[f], EmptyRoster.units[f], EmptyRoster.nextF) /\ Once(o[f])
             /\ Range(o[f]) = MembersOf(EmptyRoster, {}, f)
  <2>1. o[f] = << >> /\ DOMAIN << >> = {} /\ EmptyRoster.units[f] = NoUnit
    BY DEF EmptyRoster
  <2>2. Walk(<< >>, NoUnit, EmptyRoster.nextF) /\ Once(<< >>)
    BY <2>1 DEF Walk, Once, At
  <2>. QED  BY <2>1, <2>2, RangeOne DEF MembersOf
<1>. QED  BY <1>1, <1>2 DEF Orderly

LEMMA RemoveUnitOrder ==
  ASSUME NEW s, Whole(s, hashed), NEW o, Orderly(s, hashed, o), NEW u \in hashed,
         RemoveUnit(s, u)
  PROVE  \E q : Allowed(o, q) /\ Orderly(roster', hashed', q)
<1>1. PICK t : t = Depopulate(s, doom[u])
  OBVIOUS
<1>2. Whole(t, hashed) /\ u \in Units /\ Orderly(t, hashed, o)
  BY <1>1, NumbersWhole, NumberOrder DEF Whole, Sound, Owned
<1>3. CASE roster' = Erase(t, u) /\ hashed' = hashed \ {u}
  <2>1. Orderly(Erase(t, u), hashed \ {u}, Left(o, u))
    BY <1>2, EraseOrder DEF Whole
  <2>2. Goes(o, Left(o, u), u)
    BY <1>2, OnLists DEF Whole, Goes
  <2>. QED  BY <1>3, <2>1, <2>2 DEF Allowed
<1>4. CASE roster' = Zombie(t, u) /\ hashed' = hashed
  BY <1>2, <1>4, ZombieOrder
<1>. QED  BY <1>1, <1>3, <1>4 DEF RemoveUnit

(* Every operation of the program does one of these things to the lists. *)
LEMMA NextOrder ==
  ASSUME ~ ClearedByScript, IInv, [Next]_vars, NEW o, Orderly(roster, hashed, o)
  PROVE  \E q : Allowed(o, q) /\ Orderly(roster', hashed', q)
<1> USE DEF Working
<1>1. /\ Whole(roster, hashed) /\ Sound(roster, hashed) /\ IsRoster(roster)
      /\ hashed \subseteq Units
      /\ \A u \in hashed : roster.faction[u] \in Factions
      /\ \A u \in Units : ~ roster.race[u] => roster.faction[u] = NoFaction
      /\ FileTyped /\ Stages
  BY DEF IInv, Whole, Sound, Owned
<1> DEFINE Right == \E q : Allowed(o, q) /\ Orderly(roster', hashed', q)
<1>2. ASSUME Orderly(roster', hashed', o)
      PROVE  Right
  BY <1>2 DEF Allowed
<1>3. ASSUME NEW u \in Units, NEW f \in Factions, NEW n \in 0 .. MaxNumber,
             CreateUnit(u, f, n)
      PROVE  Right
  <2>1. u \in Units \ hashed /\ ~ roster.race[u]
        /\ roster' = Create(roster, u, f, n) /\ hashed' = hashed \cup {u}
    BY <1>3 DEF CreateUnit, Free
  <2>. QED  BY <1>1, <2>1, CreateOrder
<1>4. ASSUME NEW u \in Units, NEW n \in 0 .. MaxNumber, ChangeNumber(u, n)
      PROVE  Right
  BY <1>1, <1>2, <1>4, NumberOrder DEF ChangeNumber
<1>5. ASSUME NEW u \in Units, NEW v \in Units, NEW n \in 1 .. MaxNumber, GiveMen(u, v, n)
      PROVE  Right
  <2>1. roster.number \in [Units -> Int] /\ n \in Int
    BY <1>1 DEF IsRoster
  <2>2. PICK k, a : /\ k = roster.number[v] + n /\ k \in Int
                    /\ a = SetNumber(roster, v, k)
    BY <2>1
  <2>3. Sound(a, hashed) /\ Orderly(a, hashed, o)
    BY <1>1, <2>2, SetNumberSound, NumberOrder
  <2>4. Orderly(TransferMen(roster, u, v, n), hashed, o)
    BY <2>2, <2>3, NumberOrder DEF TransferMen, Sound
  <2>. QED  BY <1>2, <1>5, <2>4 DEF GiveMen
<1>6. ASSUME NEW u \in Units, NEW t \in Units, NEW n \in 1 .. MaxNumber, Recruit(u, t, n)
      PROVE  Right
  <2>1. CASE roster.number[u] = 0
    BY <1>1, <1>2, <1>6, <2>1, NumberOrder DEF Recruit
  <2>2. CASE roster.number[u] # 0
    <3>1. PICK f, a, b, c : /\ f = roster.faction[u]
                            /\ a = Create(roster, t, f, n)
                            /\ b = SetNumber(a, u, a.number[u] + n)
                            /\ c = SetNumber(b, t, a.number[t] - n)
      OBVIOUS
    <3>a. PICK k, l : k = a.number[u] + n /\ l = a.number[t] - n
      OBVIOUS
    <3>2. t \in Units \ hashed /\ ~ roster.race[t] /\ u \in hashed /\ f \in Factions
      BY <1>1, <1>6, <2>2, <3>1 DEF Recruit, Free
    <3>b. PICK G : G = hashed \cup {t}
      OBVIOUS
    <3>3. G = hashed \cup {t} /\ G \ {t} = hashed /\ t \in G
      BY <3>2, <3>b
    <3>4. n \in Int
      OBVIOUS
    <3>5. Whole(a, G) /\ Orderly(a, G, Joined(o, t, f))
      BY <1>1, <3>1, <3>2, <3>3, <3>4, CreateWhole, CreateOrder
    <3>6. k \in Int /\ l \in Int /\ u \in Units /\ t \in Units
      BY <1>1, <3>2, <3>4, <3>5, <3>a DEF Whole, Sound, IsRoster
    <3>7. Whole(b, G) /\ Orderly(b, G, Joined(o, t, f))
      <4>1. b = SetNumber(a, u, k) /\ IsRoster(a)
        BY <3>1, <3>5, <3>a DEF Whole, Sound
      <4>. QED  BY <3>5, <3>6, <4>1, NumbersWhole, NumberOrder
    <3>8. Whole(c, G) /\ Orderly(c, G, Joined(o, t, f))
      <4>1. c = SetNumber(b, t, l)
        BY <3>1, <3>a
      <4>2. IsRoster(b)
        BY <3>7 DEF Whole, Sound
      <4>. QED  BY <3>6, <3>7, <4>1, <4>2, NumbersWhole, NumberOrder
    <3>9. Orderly(Erase(c, t), hashed, Left(Joined(o, t, f), t))
      BY <3>3, <3>8, EraseOrder DEF Whole
    <3>10. Left(Joined(o, t, f), t) = o
      <4>1. ASSUME NEW g \in Factions
            PROVE  Left(Joined(o, t, f), t)[g] = o[g]
        <5>1. o[g] \in Seq(Units) /\ Once(o[g]) /\ t \notin Range(o[g])
              /\ o \in [Factions -> Seq(Units)]
          <6>1. t \notin Range(o[g])
            BY <1>1, <3>2, LinkOrder
          <6>. QED  BY <6>1 DEF Orderly
        <5>2. Joined(o, t, f)[g] = IF g = f THEN << t >> \o o[g] ELSE o[g]
          BY <3>2, <5>1 DEF Joined
        <5>3. CASE g = f
          <6>1. Orders!RemoveFirst(<< t >> \o o[g], t) = o[g]
            BY <3>2, <5>1, PushList
          <6>. QED  BY <5>2, <5>3, <6>1 DEF Left
        <5>4. CASE g # f
          <6>1. Orders!RemoveFirst(o[g], t) = o[g]
            BY <5>1, FirstIsCut
          <6>. QED  BY <5>2, <5>4, <6>1 DEF Left
        <5>. QED  BY <5>3, <5>4
      <4>. QED  BY <4>1 DEF Left, Orderly
    <3>11. roster' = Erase(c, t) /\ hashed' = hashed
      BY <1>6, <2>2, <3>1, <3>2 DEF Recruit, TransferMen
    <3>. QED  BY <1>2, <3>9, <3>10, <3>11
  <2>. QED  BY <2>1, <2>2
<1>7. ASSUME NEW u \in Units, NEW v \in Units, TransferUnit(u, v)
      PROVE  Right
  BY <1>1, <1>7, SetFactionOrder DEF TransferUnit
<1>8. ASSUME NEW u \in Units, NEW f \in FactionsOrNone, ScriptFaction(u, f)
      PROVE  Right
  BY <1>1, <1>8, SetFactionOrder DEF ScriptFaction, faction_alive
<1>9. ASSUME NEW m \in Units, NEW u \in Units, CreateFamiliar(m, u)
      PROVE  Right
  <2>1. u \in Units \ hashed /\ ~ roster.race[u] /\ roster.faction[m] \in Factions
        /\ roster' = Create(roster, u, roster.faction[m], 1) /\ hashed' = hashed \cup {u}
    BY <1>1, <1>9 DEF CreateFamiliar, Free
  <2>. QED  BY <1>1, <2>1, CreateOrder
<1>10. ASSUME NEW m \in Units, NEW u \in Units, Charm(m, u)
       PROVE  Right
  BY <1>1, <1>10, SetFactionOrder DEF Charm
<1>11. ASSUME NEW u \in Units, Release(u)
       PROVE  Right
  BY <1>1, <1>11, SetFactionOrder DEF Release
<1>12. ASSUME NEW f \in Factions, NEW ghosts \in SUBSET Units, DestroyFaction(f, ghosts)
       PROVE  Right
  <2>1. PICK s : s = Depopulate(roster, Listed(roster, f) \cup doom[f])
    OBVIOUS
  <2>2. Whole(s, hashed) /\ s.race = roster.race
    BY <1>1, <2>1, DepopulateSound DEF Whole
  <2>3. Orderly(s, hashed, o)
    <3>1. \E w : w \in Units \/ Units = {}
      OBVIOUS
    <3>2. s.units = roster.units /\ s.nextF = roster.nextF /\ s.faction = roster.faction
      BY <1>1, <2>1 DEF Depopulate, IsRoster, Fields
    <3>. QED  BY <3>2, SameOrder
  <2>4. CASE ghosts = {} /\ roster' = s
    BY <1>2, <1>12, <2>3, <2>4 DEF DestroyFaction
  <2>5. ASSUME NEW g \in ghosts, ghosts = {g}, Free(g), roster' = Create(s, g, Monsters, 1)
        PROVE  Right
    <3>1. /\ Allowed(o, Joined(o, g, Monsters))
          /\ Orderly(Create(s, g, Monsters, 1), hashed \cup {g}, Joined(o, g, Monsters))
      BY <2>2, <2>3, <2>5, CreateOrder, RosterAssumption DEF Free
    <3>. QED  BY <1>12, <2>5, <3>1 DEF DestroyFaction
  <2>. QED  BY <1>12, <2>1, <2>4, <2>5 DEF DestroyFaction
<1>13. ASSUME NEW u \in Units, RemoveNow(u)
       PROVE  Right
  BY <1>1, <1>13, RemoveUnitOrder DEF RemoveNow
<1>14. ASSUME NEW u \in Units, Sweep(u)
       PROVE  Right
  <2>1. PICK s : s = IF roster.number[u] > 0 /\ ~ faction_alive(roster.faction[u])
                     THEN SetNumber(roster, u, 0) ELSE roster
    OBVIOUS
  <2>2. Whole(s, hashed) /\ Orderly(s, hashed, o)
    BY <1>1, <2>1, NumbersWhole, NumberOrder
  <2>3. u \in hashed
    BY <1>1, <1>14 DEF Stages, Sweep
  <2>4. CASE RemoveUnit(s, u)
    BY <2>2, <2>3, <2>4, RemoveUnitOrder
  <2>5. CASE roster' = s /\ hashed' = hashed
    BY <1>2, <2>2, <2>5
  <2>. QED  BY <1>14, <2>1, <2>4, <2>5 DEF Sweep
<1>15. CASE SaveGame
  <2>1. roster' = EmptyRoster /\ hashed' = {}
    BY <1>15 DEF SaveGame
  <2>2. PICK q : q = [f \in Factions |-> << >>] /\ Orderly(EmptyRoster, {}, q)
    BY EmptyOrder
  <2>. QED  BY <2>1, <2>2 DEF Allowed
<1>16. ASSUME NEW u \in Units, ReadUnit(u)
       PROVE  Right
  <2>1. PICK f, n : f = file[u].faction /\ n = file[u].number
    OBVIOUS
  <2>2. u \in Units \ hashed /\ ~ roster.race[u] /\ n \in Int /\ f \in Factions
        /\ roster' = Read(roster, u, f, n) /\ hashed' = hashed \cup {u}
    BY <1>1, <1>16, <2>1 DEF ReadUnit, Stages, FileTyped, faction_alive
  <2>. QED  BY <1>1, <2>2, ReadOrder
<1>17. CASE UNCHANGED <<roster, hashed>>
  BY <1>2, <1>17
<1>18. CASE BeginSweep \/ EndSweep \/ BeginQuit \/ BeginTurnEnd \/ EndLoad \/ UNCHANGED vars
  BY <1>17, <1>18 DEF BeginSweep, EndSweep, BeginQuit, BeginTurnEnd, EndLoad, vars
<1>. QED
  BY <1>3, <1>4, <1>5, <1>6, <1>7, <1>8, <1>9, <1>10, <1>11, <1>12, <1>13, <1>14,
     <1>15, <1>16, <1>18 DEF Next

(* Every step of the program is one of the abstract lists. *)
LEMMA StepIsStep ==
  ASSUME ~ ClearedByScript, IInv, IInv', [Next]_vars, Orderly(roster, hashed, Order)
  PROVE  Orderly(roster, hashed, Order)' /\ [Orders!Next]_Order
<1>1. PICK q : Allowed(Order, q) /\ Orderly(roster', hashed', q)
  BY NextOrder
<1>2. Order' = q
  <2>1. Order' = OrderOf(roster')
    BY DEF Order, OrderOf
  <2>. QED  BY <1>1, <2>1, OrderlyIsOrder
<1>8. Orderly(roster', hashed', Order')
  BY <1>1, <1>2
<1>3. Orderly(roster, hashed, Order)'
  BY <1>8
<1>4. ASSUME NEW u, NEW f, Comes(Order, q, u, f)  PROVE Orders!Next
  <2>1. Orders!Join(u, f)
    BY <1>2, <1>4 DEF Comes, Joined, Orders!Join, Orders!OnSomeList
  <2>. QED  BY <1>4, <2>1 DEF Comes, Orders!Next
<1>5. ASSUME NEW u, NEW f, Changes(Order, q, u, f)  PROVE Orders!Next
  <2>1. Left(Order, u) = Orders!Without(u)
    BY DEF Left, Orders!Without
  <2>2. Orders!Move(u, f)
    BY <1>2, <1>5, <2>1 DEF Changes, Joined, Orders!Move, Orders!OnSomeList
  <2>. QED  BY <1>5, <2>2 DEF Changes, Orders!Next
<1>6. ASSUME NEW u, Goes(Order, q, u)  PROVE Orders!Next
  <2>1. Left(Order, u) = Orders!Without(u)
    BY DEF Left, Orders!Without
  <2>2. Orders!Leave(u)
    BY <1>2, <1>6, <2>1 DEF Goes, Orders!Leave, Orders!OnSomeList
  <2>. QED  BY <1>6, <2>2 DEF Goes, Orders!Next
<1>7. ASSUME q = [f \in Factions |-> << >>]  PROVE Orders!Next
  BY <1>2, <1>7 DEF Orders!Next, Orders!Clear
<1>9. q = Order \/ Orders!Next
  BY <1>1, <1>4, <1>5, <1>6, <1>7 DEF Allowed
<1>. QED  BY <1>2, <1>3, <1>9

(* The lists of the factions, with their pointers forth and back, are      *)
(* sequences: units come in front, go from anywhere, and the others keep   *)
(* their order.                                                            *)
THEOREM ListsAreSequences ==
  ASSUME ~ ClearedByScript
  PROVE  Spec => ImplementsSequences
<1>1. ASSUME Init  PROVE Orderly(roster, hashed, Order) /\ Orders!Init
  <2>1. PICK q : q = [f \in Factions |-> << >>] /\ Orderly(EmptyRoster, {}, q)
    BY EmptyOrder
  <2>2. roster = EmptyRoster /\ hashed = {}
    BY <1>1 DEF Init
  <2>3. Order = q
    BY <2>1, <2>2, OrderlyIsOrder DEF Order, OrderOf
  <2>. QED  BY <2>1, <2>2, <2>3 DEF Orders!Init
<1>2. IInv /\ IInv' /\ Orderly(roster, hashed, Order) /\ [Next]_vars
        => Orderly(roster, hashed, Order)' /\ [Orders!Next]_Order
  BY StepIsStep
<1>3. Spec => []IInv
  BY Invariance
<1>. QED  BY <1>1, <1>2, <1>3, PTL DEF Spec, ImplementsSequences, Orders!Spec
=============================================================================
