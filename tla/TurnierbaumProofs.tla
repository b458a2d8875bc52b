--------------------------- MODULE TurnierbaumProofs ---------------------------
(***************************************************************************)
(* Proofs about module Turnierbaum, for any groups, bracket and requests.  *)
(***************************************************************************)
EXTENDS Turnierbaum, FiniteSetTheorems, SequenceTheorems, WellFoundedInduction, TLAPS

-----------------------------------------------------------------------------
(* Counting fixtures through: least elements, enumerations and what is defined along them. *)

\* A set of numbers that is not empty has a least member.
LEMMA Kleinstes ==
  ASSUME NEW T, T \subseteq Nat, T # {}
  PROVE  \E m \in T : \A n \in T : m <= n
<1> DEFINE R == OpToRel(<, Nat)
<1>1. IsWellFoundedOn(R, Nat)
  BY NatLessThanWellFounded
<1>2. \A x \in Nat, y \in Nat : <<y, x>> \in R <=> y < x
  BY DEF OpToRel
<1> HIDE DEF R
<1>3. PICK m \in T : \A n \in T : ~(<<n, m>> \in R)
  BY <1>1, WFMin
<1>4. ASSUME NEW n \in T PROVE m <= n
  <2>1. m \in Nat /\ n \in Nat
    OBVIOUS
  <2>2. ~(n < m)
    BY <1>2, <1>3, <2>1
  <2> QED BY <2>1, <2>2
<1> QED BY <1>4

\* R orders the members of S.
Ordnet(R, S) ==
  /\ \A x, y \in S : x # y => <<x, y>> \in R \/ <<y, x>> \in R
  /\ \A x, y \in S : <<x, y>> \in R => <<y, x>> \notin R
  /\ \A x, y, z \in S : <<x, y>> \in R /\ <<y, z>> \in R => <<x, z>> \in R

\* A finite ordered set that is not empty has a last member.
LEMMA Letzter ==
  ASSUME NEW R, NEW U, IsFiniteSet(U), Ordnet(R, U), NEW S \in SUBSET U, S # {}
  PROVE  \E m \in S : \A y \in S \ {m} : <<y, m>> \in R
<1> DEFINE Falsche == {T \in SUBSET U : T # {} /\ ~ \E m \in T : \A y \in T \ {m} : <<y, m>> \in R}
<1>1. SUFFICES ASSUME Falsche # {} PROVE FALSE
  BY DEF Falsche
<1>2. IsWellFoundedOn(StrictSubsetOrdering(U), SUBSET U)
  BY FS_FiniteSubsetsOfFinite, FS_StrictSubsetOrderingWellFounded
<1>3. Falsche \subseteq SUBSET U
  OBVIOUS
<1>4. \E T \in Falsche : \A V \in Falsche : <<V, T>> \notin StrictSubsetOrdering(U)
  <2> HIDE DEF Falsche
  <2> QED BY <1>1, <1>2, <1>3, WFMin
<1>5. PICK T \in Falsche : \A V \in Falsche : <<V, T>> \notin StrictSubsetOrdering(U)
  BY <1>4
<1>6. PICK x \in T : TRUE
  BY <1>5
<1>7. T \ {x} \notin Falsche
  BY <1>3, <1>5, <1>6 DEF StrictSubsetOrdering
<1>8. CASE T \ {x} = {}
  BY <1>5, <1>6, <1>8
<1>9. CASE T \ {x} # {}
  <2>1. PICK m \in T \ {x} : \A y \in (T \ {x}) \ {m} : <<y, m>> \in R
    BY <1>3, <1>5, <1>7, <1>9
  <2>2. m \in U /\ x \in U /\ m # x /\ T \subseteq U
    BY <1>5, <1>6, <2>1
  <2>3. CASE <<x, m>> \in R
    <3>1. \A y \in T \ {m} : <<y, m>> \in R
      BY <2>1, <2>3
    <3> QED BY <1>5, <2>1, <3>1
  <2>4. CASE <<m, x>> \in R
    <3>1. \A y \in T \ {x} : <<y, x>> \in R
      BY <2>1, <2>2, <2>4 DEF Ordnet
    <3> QED BY <1>5, <1>6, <3>1
  <2> QED BY <2>2, <2>3, <2>4 DEF Ordnet
<1> QED BY <1>8, <1>9

Aufzaehlung(R, S, s) ==
  /\ s \in [1..Cardinality(S) -> S]
  /\ \A i, j \in 1..Cardinality(S) : i < j => <<s[i], s[j]>> \in R

\* A finite ordered set can be enumerated in its order.
LEMMA Aufzaehlbar ==
  ASSUME NEW R, NEW U, IsFiniteSet(U), Ordnet(R, U)
  PROVE  \E s : Aufzaehlung(R, U, s)
<1> DEFINE Falsche == {T \in SUBSET U : ~ \E s : Aufzaehlung(R, T, s)}
<1>1. SUFFICES ASSUME Falsche # {} PROVE FALSE
  BY DEF Falsche
<1>2. IsWellFoundedOn(StrictSubsetOrdering(U), SUBSET U)
  BY FS_FiniteSubsetsOfFinite, FS_StrictSubsetOrderingWellFounded
<1>3. Falsche \subseteq SUBSET U
  OBVIOUS
<1>4. \E T \in Falsche : \A V \in Falsche : <<V, T>> \notin StrictSubsetOrdering(U)
  <2> HIDE DEF Falsche
  <2> QED BY <1>1, <1>2, <1>3, WFMin
<1>5. PICK T \in Falsche : \A V \in Falsche : <<V, T>> \notin StrictSubsetOrdering(U)
  BY <1>4
<1>6. IsFiniteSet(T) /\ Cardinality(T) \in Nat
  BY <1>5, FS_Subset, FS_CardinalityType
<1>7. CASE T = {}
  <2>1. Cardinality(T) = 0 /\ 1..0 = {}
    BY <1>7, FS_EmptySet
  <2>2. Aufzaehlung(R, T, [i \in 1..0 |-> i])
    BY <2>1 DEF Aufzaehlung
  <2> QED BY <1>5, <2>2
<1>8. CASE T # {}
  <2>1. PICK m \in T : \A y \in T \ {m} : <<y, m>> \in R
    BY <1>5, <1>8, Letzter
  <2>2. T \ {m} \notin Falsche
    BY <1>3, <1>5, <2>1 DEF StrictSubsetOrdering
  <2>3. PICK s : Aufzaehlung(R, T \ {m}, s)
    BY <1>5, <2>2
  <2> DEFINE n == Cardinality(T)
             t == [i \in 1..n |-> IF i = n THEN m ELSE s[i]]
  <2>4. Cardinality(T \ {m}) = n - 1
    BY <1>6, <2>1, FS_RemoveElement
  <2>5. s \in [1..(n - 1) -> T \ {m}] /\ \A i, j \in 1..(n - 1) : i < j => <<s[i], s[j]>> \in R
    BY <2>3, <2>4 DEF Aufzaehlung
  <2>6. \A i \in 1..n : i # n => i \in 1..(n - 1)
    BY <1>6
  <2>7. \A i \in 1..n : t[i] = IF i = n THEN m ELSE s[i]
    OBVIOUS
  <2>8. t \in [1..n -> T]
    BY <2>1, <2>5, <2>6
  <2>9. ASSUME NEW i \in 1..n, NEW j \in 1..n, i < j PROVE <<t[i], t[j]>> \in R
    <3>1. i # n /\ i \in 1..(n - 1)
      BY <1>6, <2>9
    <3>2. t[i] = s[i] /\ s[i] \in T \ {m}
      BY <2>5, <2>7, <3>1
    <3> HIDE DEF n, t
    <3>3. CASE j = n
      BY <2>1, <2>7, <3>2, <3>3
    <3>4. CASE j # n
      BY <2>5, <2>6, <2>7, <2>9, <3>1, <3>2, <3>4
    <3> QED BY <3>3, <3>4
  <2>10. Aufzaehlung(R, T, t)
    <3> HIDE DEF t
    <3> QED BY <2>8, <2>9 DEF Aufzaehlung
  <2> QED BY <1>5, <2>10
<1> QED BY <1>7, <1>8

\* An enumeration of a finite ordered set reaches every member.
LEMMA AufzaehlungTrifftAlle ==
  ASSUME NEW R, NEW S, IsFiniteSet(S), Ordnet(R, S), NEW s, Aufzaehlung(R, S, s), NEW x \in S
  PROVE  \E i \in 1..Cardinality(S) : s[i] = x
<1> DEFINE n == Cardinality(S)
<1>1. n \in Nat
  BY FS_CardinalityType
<1>2. s \in [1..n -> S]
  BY DEF Aufzaehlung
<1>3. ASSUME NEW i \in 1..n, NEW j \in 1..n, s[i] = s[j] PROVE i = j
  <2>1. s[i] \in S /\ <<s[i], s[i]>> \notin R
    BY <1>2 DEF Ordnet
  <2>2. ~(i < j) /\ ~(j < i)
    BY <1>3, <2>1 DEF Aufzaehlung
  <2>3. i \in Nat /\ j \in Nat
    BY <1>1
  <2> QED BY <2>2, <2>3
<1>4. s \in Injection(1..n, S)
  BY <1>2, <1>3 DEF Injection, IsInjective
<1>5. IsFiniteSet(1..n) /\ Cardinality(1..n) = n
  BY <1>1, FS_Interval
<1>6. s \in Surjection(1..n, S)
  BY <1>4, <1>5, FS_Injection
<1> QED BY <1>6 DEF Surjection

-----------------------------------------------------------------------------
(* The order of the pass, and the pass itself. *)

N == Cardinality(Nrn)

LEMMA NEndlich == N \in Nat
BY RundeAssumption, FS_CardinalityType DEF N

\* The pass takes every fixture once, round by round.
LEMMA ReiheGilt ==
  /\ Reihe \in [1..N -> Nrn]
  /\ \A i, j \in 1..N : i < j => Frueher(Reihe[i], Reihe[j])
  /\ \A k \in Nrn : \E i \in 1..N : Reihe[i] = k
<1> DEFINE R == {x \in Nrn \X Nrn : Frueher(x[1], x[2])}
<1>1. \A k, l \in Nrn : <<k, l>> \in R <=> Frueher(k, l)
  OBVIOUS
<1>2. \A k \in Nrn : k \in Nat /\ Runde[k] \in Nat
  BY RundeAssumption
<1>3. Ordnet(R, Nrn)
  <2> HIDE DEF R
  <2>1. \A k, l \in Nrn : k # l => Frueher(k, l) \/ Frueher(l, k)
    BY <1>2 DEF Frueher
  <2>2. \A k, l \in Nrn : Frueher(k, l) => ~Frueher(l, k)
    BY <1>2 DEF Frueher
  <2>3. \A k, l, m \in Nrn : Frueher(k, l) /\ Frueher(l, m) => Frueher(k, m)
    BY <1>2 DEF Frueher
  <2> QED BY <1>1, <2>1, <2>2, <2>3 DEF Ordnet
<1> HIDE DEF R
<1>4. \E s : Aufzaehlung(R, Nrn, s)
  BY <1>3, RundeAssumption, Aufzaehlbar
<1>5. \A s : Aufzaehlung(R, Nrn, s) <=>
               s \in [1..N -> Nrn] /\ \A i, j \in 1..N : i < j => Frueher(s[i], s[j])
  BY <1>1 DEF Aufzaehlung, N
<1>6. Reihe = CHOOSE s \in [1..N -> Nrn] : \A i, j \in 1..N : i < j => Frueher(s[i], s[j])
  BY DEF Reihe, Geordnet, N
<1>7. Reihe \in [1..N -> Nrn] /\ \A i, j \in 1..N : i < j => Frueher(Reihe[i], Reihe[j])
  BY <1>4, <1>5, <1>6
<1>8. Aufzaehlung(R, Nrn, Reihe)
  BY <1>5, <1>7
<1>9. \A k \in Nrn : \E i \in 1..N : Reihe[i] = k
  BY <1>3, <1>8, RundeAssumption, AufzaehlungTrifftAlle DEF N
<1> QED BY <1>7, <1>9

\* One step of the pass over a season whose shared sources are `geteilt`.
NeueSeiten(r, geteilt, k) ==
  [i \in Seiten |-> Besetzung(r.lage, geteilt, r.bewegt, r.lage.ko[k].quellen[i],
                              r.lage.ko[k].seiten[i])]

Schritt(geteilt, r, n) == Versetzt(r, Reihe[n], NeueSeiten(r, geteilt, Reihe[n]))

\* The pass is its steps, one after the other.
LEMMA AufgeloestGilt ==
  ASSUME NEW F
  PROVE  /\ Aufgeloest(F)[0] = [lage |-> F, bewegt |-> {}]
         /\ \A n \in 1..N : Aufgeloest(F)[n] = Schritt(Geteilt(F.ko), Aufgeloest(F)[n - 1], n)
<1> DEFINE start == [lage |-> F, bewegt |-> {}]
           S(r, n) == Schritt(Geteilt(F.ko), r, n)
           G(g, n) == g = [m \in 0..n |-> IF m = 0 THEN start ELSE S(g[m - 1], m)]
           Falsche == {n \in 0..N : ~ \E g : G(g, n)}
<1>1. N \in Nat
  BY NEndlich
<1>2. \E g : G(g, N)
  <2>1. SUFFICES ASSUME Falsche # {} PROVE FALSE
    <3>1. N \in 0..N
      BY <1>1
    <3> HIDE DEF G
    <3> QED BY <3>1
  <2>2. Falsche \subseteq Nat
    BY <1>1
  <2>3. PICK n \in Falsche : \A m \in Falsche : n <= m
    <3> HIDE DEF Falsche
    <3> QED BY <2>1, <2>2, Kleinstes
  <2>4. n \in Nat /\ n \in 0..N
    BY <2>2
  <2>5. CASE n = 0
    <3>1. G([m \in 0..0 |-> start], 0)
      <4>1. \A m \in 0..0 : m = 0
        OBVIOUS
      <4> HIDE DEF start, S
      <4> QED BY <4>1
    <3> QED BY <2>3, <2>5, <3>1
  <2>6. CASE n # 0
    <3>1. n - 1 \in 0..N /\ n - 1 \in Nat /\ ~(n <= n - 1)
      BY <1>1, <2>4, <2>6
    <3>2. n - 1 \notin Falsche
      <4> HIDE DEF Falsche
      <4> QED BY <2>3, <3>1
    <3>3. PICK g : G(g, n - 1)
      BY <3>1, <3>2
    <3> DEFINE h == [m \in 0..n |-> IF m = n THEN S(g[n - 1], n) ELSE g[m]]
    <3> HIDE DEF S, start
    <3>4. \A m \in 0..(n - 1) : g[m] = IF m = 0 THEN start ELSE S(g[m - 1], m)
      BY <3>3
    <3>5. ASSUME NEW m \in 0..n PROVE h[m] = IF m = 0 THEN start ELSE S(h[m - 1], m)
      <4>1. CASE m = n
        <5>1. h[m] = S(g[n - 1], n)
          BY <4>1
        <5>2. n - 1 \in 0..n /\ n - 1 # n
          BY <2>4, <2>6
        <5>3. h[n - 1] = g[n - 1]
          BY <5>2
        <5> QED BY <2>6, <4>1, <5>1, <5>3
      <4>2. CASE m # n /\ m # 0
        <5>1. m \in 0..(n - 1) /\ m - 1 \in 0..n /\ m - 1 # n
          BY <2>4, <4>2
        <5>2. h[m] = g[m] /\ h[m - 1] = g[m - 1]
          BY <4>2, <5>1
        <5> QED BY <3>4, <4>2, <5>1, <5>2
      <4>3. CASE m # n /\ m = 0
        <5>1. m \in 0..(n - 1) /\ h[m] = g[m]
          BY <2>4, <4>3
        <5> QED BY <3>4, <4>3, <5>1
      <4> QED BY <4>1, <4>2, <4>3
    <3>6. h = [m \in 0..n |-> h[m]]
      OBVIOUS
    <3>7. G(h, n)
      <4> HIDE DEF h
      <4> QED BY <3>5, <3>6
    <3> QED BY <2>3, <3>7
  <2> QED BY <2>5, <2>6
<1>3. Aufgeloest(F) = CHOOSE g : G(g, N)
  BY DEF Aufgeloest, Schritt, NeueSeiten, N
<1>4. G(Aufgeloest(F), N)
  <2> HIDE DEF G
  <2> QED BY <1>2, <1>3
<1> DEFINE a == Aufgeloest(F)
<1> HIDE DEF a
<1>5. a = [m \in 0..N |-> IF m = 0 THEN start ELSE S(a[m - 1], m)]
  BY <1>4 DEF a
<1> HIDE DEF S, start
<1>6. \A m \in 0..N : a[m] = IF m = 0 THEN start ELSE S(a[m - 1], m)
  BY <1>5
<1>7. a[0] = start /\ \A n \in 1..N : a[n] = S(a[n - 1], n)
  <2>1. 0 \in 0..N /\ \A n \in 1..N : n \in 0..N /\ n # 0
    BY <1>1
  <2> QED BY <1>6, <2>1
<1> QED BY <1>7 DEF a, S, start

-----------------------------------------------------------------------------
(* Documents and seasons of the right shape, and what the pass makes of them. *)

Quellform == {Ohne} \cup Platzquellen \cup Spielquellen
Spiele == [seiten : [Seiten -> Teams \cup {Leer}], quellen : [Seiten -> Quellform], stand : Staende]

\* A bracket fixture's document: a source of an earlier round, a result of its own sides.
GutesSpiel(k, d) ==
  /\ d \in Spiele
  /\ \A i \in Seiten : /\ d.quellen[i] \in Quellenwahl(k)
                       /\ d.quellen[i] \in Spielquellen => Runde[d.quellen[i].nr] < Runde[k]
                       /\ d.quellen[i] \in Platzquellen => \A l \in Nrn : Runde[k] <= Runde[l]
  /\ HatErgebnis(d.stand) => \A i \in Seiten : d.seiten[i] # Leer
  /\ HatErgebnis(d.stand) => d.stand = "remis" \/ \E i \in Seiten : d.stand = d.seiten[i]

GutesErgebnis(p, st) == st \in {"offen", "abgesagt", "remis"} \cup p

GuteLage(F) ==
  /\ F \in [gruppe : [Paarungen -> Staende], ko : [Nrn -> Spiele]]
  /\ \A p \in Paarungen : GutesErgebnis(p, F.gruppe[p])
  /\ \A k \in Nrn : GutesSpiel(k, F.ko[k])

LEMMA Quellenarten ==
  /\ \A q \in Platzquellen : q # Ohne /\ q.art = "gruppe" /\ q.gruppe \in DOMAIN Gruppen
  /\ \A q \in Spielquellen : q # Ohne /\ q.art = "spiel" /\ q.nr \in Nrn
  /\ \A k \in Nrn : Quellenwahl(k) \subseteq Quellform
<1>1. \A q \in Platzquellen : q # Ohne /\ q.art = "gruppe" /\ q.gruppe \in DOMAIN Gruppen
  BY NamenAssumption DEF Platzquellen
<1>2. \A q \in Spielquellen : q # Ohne /\ q.art = "spiel" /\ q.nr \in Nrn
  BY NamenAssumption DEF Spielquellen
<1>3. ASSUME NEW k \in Nrn, NEW q \in Quellenwahl(k) PROVE q \in Quellform
  <2>1. CASE q \in {Verdrahtung[l][i] : l \in Nrn, i \in Seiten}
    BY <2>1, VerdrahtungAssumption DEF Quellform
  <2>2. CASE q \in [art : {"spiel"}, nr : Nrn \ {k}, ausgang : {"sieger", "verlierer"}]
    BY <2>2 DEF Quellform, Spielquellen
  <2>3. CASE q = Ohne
    BY <2>3 DEF Quellform
  <2> QED BY <1>3, <2>1, <2>2, <2>3 DEF Quellenwahl
<1> QED BY <1>1, <1>2, <1>3

LEMMA Begegnung ==
  ASSUME NEW g \in DOMAIN Gruppen, NEW p \in Begegnungen[g]
  PROVE  p \in Paarungen /\ p \subseteq Gruppen[g] /\ p \subseteq Teams
BY DEF Begegnungen, Paarungen, Teams

LEMMA EinzigerIst ==
  ASSUME NEW S
  PROVE  Einziger(S) \in S \cup {Leer}
BY DEF Einziger

\* What a group hands on is one of its clubs, or nobody.
\* The results of one group, as the standings read them.
Tafel(F, g) == [p \in Begegnungen[g] |-> F.gruppe[p]]

LEMMA AbschlussIst ==
  ASSUME NEW F, GuteLage(F), NEW g \in DOMAIN Gruppen
  PROVE  /\ Tafel(F, g) \in Ergebnisse(g)
         /\ Abschluss(F, g) = [x \in 1..Cardinality(Platzierbar(Tafel(F, g), g)) |-> Platzierter(Tafel(F, g), g, x)]
<1> DEFINE e == Tafel(F, g)
<1>1. e \in Ergebnisse(g)
  <2>1. \A p \in Begegnungen[g] : p \in Paarungen /\ p \subseteq Gruppen[g]
    BY Begegnung
  <2>2. \A p \in Begegnungen[g] : e[p] \in {"offen", "abgesagt", "remis"} \cup p
    BY <2>1 DEF GuteLage, GutesErgebnis, Tafel
  <2>3. e \in [Begegnungen[g] -> {"offen", "abgesagt", "remis"} \cup Gruppen[g]]
    BY <2>1, <2>2 DEF Tafel
  <2> HIDE DEF e
  <2> QED BY <2>2, <2>3 DEF Ergebnisse
<1>2. Abschluss(F, g) = Entschieden[g][e]
  BY DEF Abschluss, Tafel
<1> HIDE DEF e
<1>3. Abschluss(F, g) = [x \in 1..Cardinality(Platzierbar(e, g)) |-> Platzierter(e, g, x)]
  BY <1>1, <1>2 DEF Entschieden
<1> QED BY <1>1, <1>3 DEF e

LEMMA AbschlussTyp ==
  ASSUME NEW F, GuteLage(F), NEW g \in DOMAIN Gruppen, NEW platz \in DOMAIN Abschluss(F, g)
  PROVE  Abschluss(F, g)[platz] \in Teams \cup {Leer}
<1> DEFINE e == Tafel(F, g)
<1>1. Abschluss(F, g) = [x \in 1..Cardinality(Platzierbar(e, g)) |-> Platzierter(e, g, x)]
  BY AbschlussIst
<1> HIDE DEF e
<1>2. Abschluss(F, g)[platz] = Platzierter(e, g, platz)
  BY <1>1
<1>3. Platzierter(e, g, platz) \in Gruppen[g] \cup {Leer}
  BY EinzigerIst DEF Platzierter
<1> QED BY <1>2, <1>3 DEF Teams

LEMMA AusgangTyp ==
  ASSUME NEW F, GuteLage(F), NEW bewegt, NEW q \in Spielquellen
  PROVE  Ausgang(F, bewegt, q) \in Teams \cup {Leer}
<1>1. q.nr \in Nrn
  BY Quellenarten
<1>2. F.ko[q.nr] \in Spiele
  BY <1>1 DEF GuteLage
<1>3. \A i \in Seiten : F.ko[q.nr].seiten[i] \in Teams \cup {Leer}
  BY <1>2 DEF Spiele
<1>4. Einziger({F.ko[q.nr].seiten[i] : i \in Seiten} \ {F.ko[q.nr].stand}) \in Teams \cup {Leer}
  BY <1>3, EinzigerIst
<1> QED BY <1>4 DEF Ausgang

LEMMA BesetzungTyp ==
  ASSUME NEW F, GuteLage(F), NEW geteilt, NEW bewegt, NEW q \in Quellform, NEW t \in Teams \cup {Leer}
  PROVE  Besetzung(F, geteilt, bewegt, q, t) \in Teams \cup {Leer}
<1>1. CASE ~Gepflegt(F, geteilt, q)
  BY <1>1 DEF Besetzung
<1>2. CASE Gepflegt(F, geteilt, q) /\ q \in Platzquellen
  <2>1. q.gruppe \in DOMAIN Gruppen /\ q.art = "gruppe" /\ q.platz \in DOMAIN Abschluss(F, q.gruppe)
    BY <1>2, Quellenarten DEF Gepflegt
  <2>2. Abschluss(F, q.gruppe)[q.platz] \in Teams \cup {Leer}
    BY <2>1, AbschlussTyp
  <2> QED BY <1>2, <2>1, <2>2 DEF Besetzung
<1>3. CASE Gepflegt(F, geteilt, q) /\ q \in Spielquellen
  BY <1>3, Quellenarten, AusgangTyp DEF Besetzung
<1> QED BY <1>1, <1>2, <1>3 DEF Quellform, Gepflegt

LEMMA EntwertetTyp ==
  ASSUME NEW st
  PROVE  Entwertet(st) \in {"abgesagt", "offen"} /\ Entwertet(st) \in Staende /\ ~HatErgebnis(Entwertet(st))
BY DEF Entwertet, Staende, HatErgebnis

LEMMA NeueSeitenTyp ==
  ASSUME NEW r, GuteLage(r.lage), NEW geteilt, NEW k \in Nrn
  PROVE  NeueSeiten(r, geteilt, k) \in [Seiten -> Teams \cup {Leer}]
<1>1. r.lage.ko[k] \in Spiele
  BY DEF GuteLage
<1>2. \A i \in Seiten : r.lage.ko[k].quellen[i] \in Quellform /\ r.lage.ko[k].seiten[i] \in Teams \cup {Leer}
  BY <1>1 DEF Spiele
<1> QED BY <1>2, BesetzungTyp DEF NeueSeiten

Still(r, k, neu) == neu = r.lage.ko[k].seiten \/ (neu[1] = neu[2] /\ neu[1] # Leer)

\* What one step leaves: only the fixture's own document moves, and its result goes along.
LEMMA VersetztGilt ==
  ASSUME NEW r, GuteLage(r.lage), NEW k \in Nrn, NEW neu \in [Seiten -> Teams \cup {Leer}]
  PROVE  /\ Still(r, k, neu) => Versetzt(r, k, neu) = r
         /\ ~Still(r, k, neu) =>
              /\ Versetzt(r, k, neu) = [lage |-> Versetzt(r, k, neu).lage, bewegt |-> r.bewegt \cup {k}]
              /\ GuteLage(Versetzt(r, k, neu).lage)
              /\ Versetzt(r, k, neu).lage.gruppe = r.lage.gruppe
              /\ \A l \in Nrn \ {k} : Versetzt(r, k, neu).lage.ko[l] = r.lage.ko[l]
              /\ Versetzt(r, k, neu).lage.ko[k] =
                   [seiten |-> neu, quellen |-> r.lage.ko[k].quellen, stand |-> Entwertet(r.lage.ko[k].stand)]
<1>1. Still(r, k, neu) => Versetzt(r, k, neu) = r
  BY DEF Versetzt, Still
<1>2. ASSUME ~Still(r, k, neu)
      PROVE  /\ Versetzt(r, k, neu) = [lage |-> Versetzt(r, k, neu).lage, bewegt |-> r.bewegt \cup {k}]
             /\ GuteLage(Versetzt(r, k, neu).lage)
             /\ Versetzt(r, k, neu).lage.gruppe = r.lage.gruppe
             /\ \A l \in Nrn \ {k} : Versetzt(r, k, neu).lage.ko[l] = r.lage.ko[l]
             /\ Versetzt(r, k, neu).lage.ko[k] =
                  [seiten |-> neu, quellen |-> r.lage.ko[k].quellen, stand |-> Entwertet(r.lage.ko[k].stand)]
  <2> DEFINE d == [seiten |-> neu, quellen |-> r.lage.ko[k].quellen, stand |-> Entwertet(r.lage.ko[k].stand)]
             H == [gruppe |-> r.lage.gruppe, ko |-> [r.lage.ko EXCEPT ![k] = d]]
  <2>1. r.lage = [gruppe |-> r.lage.gruppe, ko |-> r.lage.ko] /\ r.lage.ko \in [Nrn -> Spiele]
    BY DEF GuteLage
  <2>2. r.lage.ko[k] \in Spiele
    BY <2>1
  <2>6. Versetzt(r, k, neu) = [lage |-> H, bewegt |-> r.bewegt \cup {k}]
    BY <1>2, <2>1 DEF Versetzt, Still
  <2>7. d \in Spiele /\ d.seiten = neu /\ d.quellen = r.lage.ko[k].quellen /\ ~HatErgebnis(d.stand)
    BY <2>2, EntwertetTyp DEF Spiele
  <2>8. GutesSpiel(k, d)
    <3> HIDE DEF d
    <3> QED BY <2>7 DEF GuteLage, GutesSpiel
  <2> HIDE DEF d
  <2>9. H.ko \in [Nrn -> Spiele] /\ H.gruppe = r.lage.gruppe /\ H.ko[k] = d /\ \A l \in Nrn \ {k} : H.ko[l] = r.lage.ko[l]
    BY <2>1, <2>7
  <2>10. H \in [gruppe : [Paarungen -> Staende], ko : [Nrn -> Spiele]]
    BY <2>9 DEF GuteLage
  <2> HIDE DEF H
  <2>11. GuteLage(H)
    BY <2>8, <2>9, <2>10 DEF GuteLage
  <2> QED BY <2>6, <2>9, <2>11 DEF d
<1> QED BY <1>1, <1>2

-----------------------------------------------------------------------------
(* The pass, step by step. *)

LEMMA Induktion ==
  ASSUME NEW M \in Nat, NEW T, 0 \in T, \A n \in 1..M : n - 1 \in T => n \in T
  PROVE  \A n \in 0..M : n \in T
<1> DEFINE D == (0..M) \ T
<1>1. SUFFICES ASSUME D # {} PROVE FALSE
  OBVIOUS
<1>2. D \subseteq Nat
  OBVIOUS
<1>3. PICK m \in D : \A n \in D : m <= n
  <2> HIDE DEF D
  <2> QED BY <1>1, <1>2, Kleinstes
<1>4. m \in 1..M /\ m - 1 \in 0..M /\ ~(m <= m - 1)
  <2>1. m \in 0..M /\ m # 0
    OBVIOUS
  <2> QED BY <2>1
<1>5. m - 1 \in T
  BY <1>3, <1>4
<1> QED BY <1>4, <1>5

LEMMA ReiheOhneWiederholung ==
  ASSUME NEW i \in 1..N, NEW j \in 1..N
  PROVE  /\ Reihe[i] \in Nrn /\ Runde[Reihe[i]] \in Nat
         /\ i # j => Reihe[i] # Reihe[j]
         /\ Runde[Reihe[i]] < Runde[Reihe[j]] => i < j
<1>1. /\ Reihe[i] \in Nrn /\ Reihe[j] \in Nrn /\ i \in Nat /\ j \in Nat
      /\ Reihe[i] \in Nat /\ Reihe[j] \in Nat /\ Runde[Reihe[i]] \in Nat /\ Runde[Reihe[j]] \in Nat
  <2>1. Reihe[i] \in Nrn /\ Reihe[j] \in Nrn
    BY ReiheGilt
  <2>2. i \in Nat /\ j \in Nat
    BY NEndlich
  <2> QED BY <2>1, <2>2, RundeAssumption
<1>2. /\ i < j => Frueher(Reihe[i], Reihe[j])
      /\ j < i => Frueher(Reihe[j], Reihe[i])
  BY ReiheGilt
<1>3. i # j => Reihe[i] # Reihe[j]
  <2>1. ~Frueher(Reihe[i], Reihe[i]) /\ ~Frueher(Reihe[j], Reihe[j])
    BY <1>1 DEF Frueher
  <2>2. i # j => i < j \/ j < i
    BY <1>1
  <2> QED BY <1>2, <2>1, <2>2
<1>4. Runde[Reihe[i]] < Runde[Reihe[j]] => i < j
  BY <1>1, <1>2 DEF Frueher
<1> QED BY <1>1, <1>3, <1>4

\* What the pass has made of F so far: sources and groups stand, what did not move stands
\* whole, and what moved has no result.
Durchlauf(F, r) ==
  /\ r = [lage |-> r.lage, bewegt |-> r.bewegt]
  /\ GuteLage(r.lage)
  /\ r.lage.gruppe = F.gruppe
  /\ r.bewegt \subseteq Nrn
  /\ \A k \in Nrn : r.lage.ko[k].quellen = F.ko[k].quellen
  /\ \A k \in Nrn \ r.bewegt : r.lage.ko[k] = F.ko[k]
  /\ \A k \in r.bewegt : ~HatErgebnis(r.lage.ko[k].stand)

\* One step: the fixture stands, or takes its new sides without a result; no other moves.
Bewegung(r, s, k, neu) ==
  \/ Still(r, k, neu) /\ s = r
  \/ /\ ~Still(r, k, neu)
     /\ s.bewegt = r.bewegt \cup {k}
     /\ \A l \in Nrn \ {k} : s.lage.ko[l] = r.lage.ko[l]
     /\ s.lage.ko[k] = [seiten |-> neu, quellen |-> r.lage.ko[k].quellen,
                        stand |-> Entwertet(r.lage.ko[k].stand)]

LEMMA EinSchritt ==
  ASSUME NEW F, NEW r, Durchlauf(F, r), NEW k \in Nrn, NEW neu \in [Seiten -> Teams \cup {Leer}]
  PROVE  /\ Durchlauf(F, Versetzt(r, k, neu))
         /\ Bewegung(r, Versetzt(r, k, neu), k, neu)
<1> DEFINE s == Versetzt(r, k, neu)
<1>1. GuteLage(r.lage)
  BY DEF Durchlauf
<1>2. CASE Still(r, k, neu)
  <2>1. s = r
    BY ZenonT(40), <1>1, <1>2, VersetztGilt
  <2> QED BY <1>2, <2>1 DEF Bewegung
<1>3. CASE ~Still(r, k, neu)
  <2>1. /\ s = [lage |-> s.lage, bewegt |-> r.bewegt \cup {k}]
        /\ GuteLage(s.lage)
        /\ s.lage.gruppe = r.lage.gruppe
        /\ \A l \in Nrn \ {k} : s.lage.ko[l] = r.lage.ko[l]
        /\ s.lage.ko[k] =
             [seiten |-> neu, quellen |-> r.lage.ko[k].quellen, stand |-> Entwertet(r.lage.ko[k].stand)]
    BY <1>1, <1>3, VersetztGilt
  <2> HIDE DEF s
  <2>2. s.bewegt = r.bewegt \cup {k}
    BY <2>1
  <2>3. ~HatErgebnis(s.lage.ko[k].stand) /\ s.lage.ko[k].quellen = r.lage.ko[k].quellen
    BY <2>1, EntwertetTyp
  <2>4. Durchlauf(F, s)
    BY <2>1, <2>2, <2>3 DEF Durchlauf
  <2>5. Bewegung(r, s, k, neu)
    BY <1>3, <2>1, <2>2 DEF Bewegung
  <2> QED BY <2>4, <2>5 DEF s
<1> QED BY <1>2, <1>3

LEMMA DurchlaufGilt ==
  ASSUME NEW F, GuteLage(F)
  PROVE  \A n \in 0..N : Durchlauf(F, Aufgeloest(F)[n])
<1> DEFINE a == Aufgeloest(F)
           T == {n \in 0..N : Durchlauf(F, a[n])}
<1>1. N \in Nat
  BY NEndlich
<1>2. 0 \in T
  <2>1. a[0] = [lage |-> F, bewegt |-> {}] /\ 0 \in 0..N
    BY <1>1, AufgeloestGilt
  <2> HIDE DEF a
  <2>2. a[0].lage = F /\ a[0].bewegt = {}
    BY <2>1
  <2> QED BY <2>1, <2>2 DEF Durchlauf
<1>3. ASSUME NEW n \in 1..N, n - 1 \in T PROVE n \in T
  <2>1. a[n] = Schritt(Geteilt(F.ko), a[n - 1], n) /\ Durchlauf(F, a[n - 1]) /\ n \in 0..N
    <3>1. n \in 0..N
      BY <1>1
    <3>2. Durchlauf(F, a[n - 1])
      <4> HIDE DEF a
      <4> QED BY <1>3
    <3>3. a[n] = Schritt(Geteilt(F.ko), a[n - 1], n)
      BY AufgeloestGilt
    <3> QED BY <3>1, <3>2, <3>3
  <2>2. Reihe[n] \in Nrn
    BY ReiheGilt
  <2> HIDE DEF a
  <2>3. NeueSeiten(a[n - 1], Geteilt(F.ko), Reihe[n]) \in [Seiten -> Teams \cup {Leer}]
    BY <2>1, <2>2, NeueSeitenTyp DEF Durchlauf
  <2>4. Durchlauf(F, a[n])
    BY <2>1, <2>2, <2>3, EinSchritt DEF Schritt
  <2> QED BY <2>1, <2>4
<1> HIDE DEF T
<1>4. \A n \in 0..N : n \in T
  BY <1>1, <1>2, <1>3, Induktion
<1> QED BY <1>4 DEF T, a

LEMMA AufloesungGilt ==
  ASSUME NEW F, GuteLage(F)
  PROVE  Durchlauf(F, Aufloesung(F))
<1>1. N \in 0..N
  BY NEndlich
<1>2. Durchlauf(F, Aufgeloest(F)[N])
  BY <1>1, DurchlaufGilt
<1> QED BY <1>2 DEF Aufloesung, N

LEMMA SchrittGilt ==
  ASSUME NEW F, GuteLage(F), NEW n \in 1..N
  PROVE  Bewegung(Aufgeloest(F)[n - 1], Aufgeloest(F)[n], Reihe[n],
                  NeueSeiten(Aufgeloest(F)[n - 1], Geteilt(F.ko), Reihe[n]))
<1>1. n - 1 \in 0..N /\ Reihe[n] \in Nrn
  BY NEndlich, ReiheGilt
<1>2. Durchlauf(F, Aufgeloest(F)[n - 1])
  BY <1>1, DurchlaufGilt
<1>3. NeueSeiten(Aufgeloest(F)[n - 1], Geteilt(F.ko), Reihe[n]) \in [Seiten -> Teams \cup {Leer}]
  BY <1>1, <1>2, NeueSeitenTyp DEF Durchlauf
<1> QED BY <1>1, <1>2, <1>3, EinSchritt, AufgeloestGilt DEF Schritt

\* A step moves no fixture but its own.
LEMMA NurDieserSchritt ==
  ASSUME NEW F, GuteLage(F), NEW n \in 1..N, NEW j \in 1..N, j # n
  PROVE  /\ Aufgeloest(F)[n].lage.ko[Reihe[j]] = Aufgeloest(F)[n - 1].lage.ko[Reihe[j]]
         /\ Reihe[j] \in Aufgeloest(F)[n].bewegt <=> Reihe[j] \in Aufgeloest(F)[n - 1].bewegt
<1>1. Reihe[j] \in Nrn \ {Reihe[n]}
  BY ReiheOhneWiederholung
<1>2. Bewegung(Aufgeloest(F)[n - 1], Aufgeloest(F)[n], Reihe[n],
               NeueSeiten(Aufgeloest(F)[n - 1], Geteilt(F.ko), Reihe[n]))
  BY SchrittGilt
<1> QED BY <1>1, <1>2 DEF Bewegung

\* Before its step a fixture stands as the save left it, after its step as the pass leaves it.
LEMMA VorUndNach ==
  ASSUME NEW F, GuteLage(F), NEW j \in 1..N
  PROVE  /\ \A n \in 0..N : n < j => /\ Aufgeloest(F)[n].lage.ko[Reihe[j]] = F.ko[Reihe[j]]
                                     /\ Reihe[j] \notin Aufgeloest(F)[n].bewegt
         /\ \A n \in 0..N : n >= j =>
              /\ Aufgeloest(F)[n].lage.ko[Reihe[j]] = Aufgeloest(F)[j].lage.ko[Reihe[j]]
              /\ Reihe[j] \in Aufgeloest(F)[n].bewegt <=> Reihe[j] \in Aufgeloest(F)[j].bewegt
<1> DEFINE a == Aufgeloest(F)
           k == Reihe[j]
           Vorher(n) == n < j => a[n].lage.ko[k] = F.ko[k] /\ k \notin a[n].bewegt
           Nachher(n) == n >= j => /\ a[n].lage.ko[k] = a[j].lage.ko[k]
                                   /\ k \in a[n].bewegt <=> k \in a[j].bewegt
           T == {n \in 0..N : Vorher(n) /\ Nachher(n)}
<1>1. N \in Nat /\ j \in Nat /\ j >= 1
  BY NEndlich
<1>2. 0 \in T
  <2>1. a[0] = [lage |-> F, bewegt |-> {}]
    BY AufgeloestGilt
  <2> HIDE DEF a, k
  <2>2. a[0].lage = F /\ a[0].bewegt = {}
    BY <2>1
  <2> QED BY <1>1, <2>2
<1>3. ASSUME NEW n \in 1..N, n - 1 \in T PROVE n \in T
  <2>1. Vorher(n - 1) /\ Nachher(n - 1) /\ n \in 0..N /\ n - 1 \in Nat
    <3> HIDE DEF Vorher, Nachher
    <3> QED BY <1>1, <1>3
  <2>2. j # n => a[n].lage.ko[k] = a[n - 1].lage.ko[k] /\ (k \in a[n].bewegt <=> k \in a[n - 1].bewegt)
    BY NurDieserSchritt
  <2> HIDE DEF a, k
  <2>3. CASE j = n
    BY <1>1, <2>1, <2>3
  <2>4. CASE n < j
    BY <1>1, <2>1, <2>2, <2>4
  <2>5. CASE n > j
    BY <1>1, <2>1, <2>2, <2>5
  <2> QED BY <1>1, <2>1, <2>3, <2>4, <2>5
<1> HIDE DEF T
<1>4. \A n \in 0..N : n \in T
  BY <1>1, <1>2, <1>3, Induktion
<1> QED BY <1>4 DEF T

LEMMA GeteiltGleich ==
  ASSUME NEW b, NEW c, \A k \in Nrn : b[k].quellen = c[k].quellen
  PROVE  Geteilt(b) = Geteilt(c)
<1>1. \A k \in Nrn : Quellen(k, b) = Quellen(k, c)
  BY DEF Quellen
<1>2. UNION {Quellen(k, b) : k \in Nrn} = UNION {Quellen(k, c) : k \in Nrn}
  BY <1>1
<1>3. \A q : {k \in Nrn : q \in Quellen(k, b)} = {k \in Nrn : q \in Quellen(k, c)}
  BY <1>1
<1> QED BY <1>2, <1>3 DEF Geteilt

LEMMA AbschlussGleich ==
  ASSUME NEW F, NEW G, F.gruppe = G.gruppe
  PROVE  \A g : Abschluss(F, g) = Abschluss(G, g)
BY DEF Abschluss

\* Resolved so far, a fixture that feeds a later one tells it the same as the bracket the pass
\* leaves: nobody where its sides moved, its winner and loser where they stand.
LEMMA BesetzungGleich ==
  ASSUME NEW F, GuteLage(F), NEW n \in 1..N, NEW i \in Seiten, NEW t, NEW u,
         NEW q, q = F.ko[Reihe[n]].quellen[i],
         NEW r, r = Aufgeloest(F)[n - 1], NEW A, A = Aufloesung(F).lage
  PROVE  /\ Gepflegt(A, Geteilt(F.ko), q) => Besetzung(A, Geteilt(F.ko), {}, q, t)
                                               = Besetzung(r.lage, Geteilt(F.ko), r.bewegt, q, u)
         /\ ~Gepflegt(A, Geteilt(F.ko), q) => /\ Besetzung(A, Geteilt(F.ko), {}, q, t) = t
                                              /\ Besetzung(r.lage, Geteilt(F.ko), r.bewegt, q, u) = u
<1>1. n - 1 \in 0..N /\ N \in 0..N /\ n - 1 \in Nat /\ n \in Nat /\ N \in Nat
  BY NEndlich
<1>2. A = Aufgeloest(F)[N].lage
  BY DEF Aufloesung, N
<1> DEFINE a == Aufgeloest(F)
<1>12. Durchlauf(F, a[n - 1]) /\ Durchlauf(F, a[N])
  BY <1>1, DurchlaufGilt
<1>13. r = a[n - 1] /\ A = a[N].lage
  BY <1>2
<1> HIDE DEF a
<1>3. r.lage.gruppe = F.gruppe /\ A.gruppe = F.gruppe /\ GuteLage(r.lage) /\ GuteLage(A)
  BY <1>12, <1>13 DEF Durchlauf
<1>4. Gepflegt(A, Geteilt(F.ko), q) <=> Gepflegt(r.lage, Geteilt(F.ko), q)
  BY <1>3, AbschlussGleich DEF Gepflegt
<1>5. Reihe[n] \in Nrn
  BY ReiheGilt
<1>6. GutesSpiel(Reihe[n], F.ko[Reihe[n]])
  BY <1>5 DEF GuteLage
<1>7. q \in Quellform
  BY <1>6 DEF GutesSpiel, Spiele
<1>8. CASE ~Gepflegt(A, Geteilt(F.ko), q)
  BY <1>4, <1>8 DEF Besetzung
<1>9. CASE Gepflegt(A, Geteilt(F.ko), q) /\ q \in Platzquellen
  <2>1. q.art = "gruppe"
    BY <1>9, Quellenarten
  <2>2. Abschluss(A, q.gruppe) = Abschluss(r.lage, q.gruppe)
    BY <1>3, AbschlussGleich
  <2> QED BY <1>4, <1>9, <2>1, <2>2 DEF Besetzung
<1>10. CASE Gepflegt(A, Geteilt(F.ko), q) /\ q \in Spielquellen
  <2>1. q.nr \in Nrn /\ q.art # "gruppe" /\ Runde[q.nr] < Runde[Reihe[n]]
    BY <1>6, <1>10, Quellenarten DEF GutesSpiel
  <2>2. PICK j \in 1..N : Reihe[j] = q.nr
    BY <2>1, ReiheGilt
  <2>3. j < n /\ j \in Nat
    BY <1>1, <2>1, <2>2, ReiheOhneWiederholung
  <2>4. /\ r.lage.ko[q.nr] = A.ko[q.nr]
        /\ q.nr \in r.bewegt <=> q.nr \in Aufgeloest(F)[N].bewegt
    <3>1. n - 1 >= j /\ N >= j
      BY <1>1, <2>3
    <3>2. \A m \in 0..N : m >= j => /\ a[m].lage.ko[Reihe[j]] = a[j].lage.ko[Reihe[j]]
                                    /\ Reihe[j] \in a[m].bewegt <=> Reihe[j] \in a[j].bewegt
      BY VorUndNach DEF a
    <3>3. /\ a[n - 1].lage.ko[Reihe[j]] = a[j].lage.ko[Reihe[j]]
          /\ Reihe[j] \in a[n - 1].bewegt <=> Reihe[j] \in a[j].bewegt
          /\ a[N].lage.ko[Reihe[j]] = a[j].lage.ko[Reihe[j]]
          /\ Reihe[j] \in a[N].bewegt <=> Reihe[j] \in a[j].bewegt
      BY <1>1, <3>1, <3>2
    <3> QED BY <1>13, <2>2, <3>3 DEF a
  <2>5. q.nr \in r.bewegt => ~HatErgebnis(A.ko[q.nr].stand)
    BY <1>12, <1>13, <2>4 DEF Durchlauf, a
  <2>6. \A st : ~HatErgebnis(st) => st \notin Teams
    BY NamenAssumption DEF HatErgebnis
  <2>7. Ausgang(A, {}, q) = Ausgang(r.lage, r.bewegt, q)
    BY <2>4, <2>5, <2>6 DEF Ausgang
  <2> QED BY <1>4, <1>10, <2>1, <2>7 DEF Besetzung
<1> QED BY <1>7, <1>8, <1>9, <1>10 DEF Gepflegt, Quellform

\* A season the pass left is one the pass leaves alone.
LEMMA EinmalGenuegt ==
  ASSUME NEW F, GuteLage(F)
  PROVE  Aufloesung(Aufloesung(F).lage).bewegt = {}
<1> DEFINE a == Aufgeloest(F)
           A == a[N].lage
           b == Aufgeloest(A)
           fest == [lage |-> A, bewegt |-> {}]
           T == {n \in 0..N : b[n] = fest}
           g == Geteilt(F.ko)
<1>1. N \in Nat /\ N \in 0..N
  BY NEndlich
<1>2. Durchlauf(F, a[N])
  BY <1>1, DurchlaufGilt
<1>3. GuteLage(A)
  <2> HIDE DEF a
  <2> QED BY <1>2 DEF Durchlauf
<1>4. Geteilt(A.ko) = g
  <2>1. \A k \in Nrn : A.ko[k].quellen = F.ko[k].quellen
    <3> HIDE DEF a
    <3> QED BY <1>2 DEF Durchlauf
  <2> HIDE DEF A
  <2> QED BY <2>1, GeteiltGleich
<1>5. 0 \in T
  BY <1>1, AufgeloestGilt
<1>6. ASSUME NEW n \in 1..N, n - 1 \in T PROVE n \in T
  <2> DEFINE k == Reihe[n]
             r == a[n - 1]
             neu == NeueSeiten(r, g, k)
             neu2 == NeueSeiten(fest, g, k)
  <2>1. n \in 0..N /\ n - 1 \in 0..N /\ n - 1 < n /\ N >= n /\ k \in Nrn
    BY <1>1, ReiheGilt
  <2>2. b[n] = Versetzt(fest, k, neu2)
    <3>1. b[n] = Schritt(g, b[n - 1], n)
      BY <1>4, AufgeloestGilt
    <3>2. b[n - 1] = fest
      <4> HIDE DEF b, fest
      <4> QED BY <1>6
    <3> QED BY <3>1, <3>2 DEF Schritt
  <2>3. r.lage.ko[k] = F.ko[k]
    BY <2>1, VorUndNach
  <2>4. A.ko[k] = a[n].lage.ko[k]
    <3>1. \A m \in 0..N : m >= n => a[m].lage.ko[Reihe[n]] = a[n].lage.ko[Reihe[n]]
      BY VorUndNach
    <3> HIDE DEF a
    <3> QED BY <1>1, <2>1, <3>1
  <2>5. Bewegung(r, a[n], k, neu)
    BY SchrittGilt
  <2>6. A.ko[k].quellen = F.ko[k].quellen
    <3> HIDE DEF a
    <3> QED BY <1>2, <2>1 DEF Durchlauf
  <2>7. \A i \in Seiten :
          LET q == F.ko[k].quellen[i] IN
          /\ Gepflegt(A, g, q) => neu2[i] = neu[i]
          /\ ~Gepflegt(A, g, q) => neu2[i] = A.ko[k].seiten[i] /\ neu[i] = F.ko[k].seiten[i]
    <3> SUFFICES ASSUME NEW i \in Seiten
                 PROVE  LET q == F.ko[k].quellen[i] IN
                        /\ Gepflegt(A, g, q) => neu2[i] = neu[i]
                        /\ ~Gepflegt(A, g, q) => neu2[i] = A.ko[k].seiten[i] /\ neu[i] = F.ko[k].seiten[i]
      OBVIOUS
    <3> DEFINE q == F.ko[k].quellen[i]
    <3>1. A = Aufloesung(F).lage
      BY DEF Aufloesung, N
    <3>2. /\ Gepflegt(A, g, q) => Besetzung(A, g, {}, q, A.ko[k].seiten[i])
                                    = Besetzung(r.lage, g, r.bewegt, q, F.ko[k].seiten[i])
          /\ ~Gepflegt(A, g, q) => /\ Besetzung(A, g, {}, q, A.ko[k].seiten[i]) = A.ko[k].seiten[i]
                                   /\ Besetzung(r.lage, g, r.bewegt, q, F.ko[k].seiten[i]) = F.ko[k].seiten[i]
      BY <3>1, BesetzungGleich
    <3>3. neu[i] = Besetzung(r.lage, g, r.bewegt, q, F.ko[k].seiten[i])
      <4> HIDE DEF a, g
      <4> QED BY <2>3 DEF NeueSeiten
    <3>4. neu2[i] = Besetzung(A, g, {}, q, A.ko[k].seiten[i])
      <4> HIDE DEF a, g
      <4> QED BY <2>6 DEF NeueSeiten
    <3> HIDE DEF neu, neu2, a, g, k
    <3> QED BY <3>2, <3>3, <3>4
  <2>8. neu = [i \in Seiten |-> neu[i]] /\ neu2 = [i \in Seiten |-> neu2[i]]
    BY DEF NeueSeiten
  <2>9. A.ko[k].seiten = [i \in Seiten |-> A.ko[k].seiten[i]]
    <3> HIDE DEF A
    <3> QED BY <1>3, <2>1 DEF GuteLage, Spiele
  <2> HIDE DEF a, A, b, fest, neu, neu2, k, g, r
  <2>10. CASE Still(r, k, neu) /\ a[n] = r
    <3>1. A.ko[k] = F.ko[k]
      BY <2>3, <2>4, <2>10
    <3>2. neu2 = neu
      BY <2>7, <2>8, <3>1
    <3>3. neu = A.ko[k].seiten \/ (neu[1] = neu[2] /\ neu[1] # Leer)
      BY <2>3, <2>10, <3>1 DEF Still
    <3>4. Still(fest, k, neu2)
      BY <3>2, <3>3 DEF Still, fest
    <3> QED BY <2>1, <2>2, <3>4 DEF Versetzt, Still, T
  <2>11. CASE A.ko[k].seiten = neu
    <3>1. neu2 = neu
      BY <2>7, <2>8, <2>11
    <3>2. Still(fest, k, neu2)
      BY <2>11, <3>1 DEF Still, fest
    <3> QED BY <2>1, <2>2, <3>2 DEF Versetzt, Still, T
  <2> QED BY <2>4, <2>5, <2>10, <2>11 DEF Bewegung
<1> HIDE DEF T
<1>7. \A n \in 0..N : n \in T
  BY <1>1, <1>5, <1>6, Induktion
<1>8. b[N] = fest
  BY <1>1, <1>7 DEF T
<1>9. Aufloesung(Aufloesung(F).lage) = b[N]
  BY DEF Aufloesung, N
<1> HIDE DEF b
<1> QED BY <1>8, <1>9

-----------------------------------------------------------------------------
(* What one save makes of the season. *)

KeinDoppel(b) ==
  \A x, y \in Nrn \X Seiten :
    x # y /\ Runde[x[1]] = Runde[y[1]] /\ b[x[1]].seiten[x[2]] \in Teams
      => b[x[1]].seiten[x[2]] # b[y[1]].seiten[y[2]]

QuellenEinfach(b) ==
  \A x, y \in Nrn \X Seiten :
    x # y /\ b[x[1]].quellen[x[2]] # Ohne
      => b[x[1]].quellen[x[2]] # b[y[1]].quellen[y[2]]

\* A season whose requests ran one after the other: resolved, nobody twice in a round.
Sauber(F) == Doppelte(F.ko) = {} /\ QuellenEinfach(F.ko) /\ Aufloesung(F).bewegt = {}

LEMMA DoppelteLeer ==
  ASSUME NEW b
  PROVE  Doppelte(b) = {} <=> KeinDoppel(b)
<1> DEFINE Mit(r, t) == {x \in Nrn \X Seiten : Runde[x[1]] = r /\ b[x[1]].seiten[x[2]] = t}
<1>1. ASSUME NEW r, NEW t
      PROVE  IsFiniteSet(Mit(r, t)) /\ Cardinality(Mit(r, t)) \in Nat
  <2>1. IsFiniteSet(Seiten)
    <3>1. Seiten = {1} \cup {2}
      BY DEF Seiten
    <3>2. IsFiniteSet({1})
      BY FS_Singleton
    <3> QED BY <3>1, <3>2, FS_AddElement
  <2>2. IsFiniteSet(Nrn \X Seiten)
    BY <2>1, RundeAssumption, FS_Product
  <2>3. Mit(r, t) \subseteq Nrn \X Seiten
    OBVIOUS
  <2> HIDE DEF Mit
  <2> QED BY <2>2, <2>3, FS_Subset, FS_CardinalityType
<1>2. ASSUME NEW r, NEW t
      PROVE  Cardinality(Mit(r, t)) > 1 <=> \E x, y \in Mit(r, t) : x # y
  <2> DEFINE S == Mit(r, t)
  <2>0. IsFiniteSet(S) /\ Cardinality(S) \in Nat
    <3> HIDE DEF Mit
    <3> QED BY <1>1
  <2> HIDE DEF S
  <2>1. ASSUME Cardinality(S) > 1 PROVE \E x, y \in S : x # y
    <3>1. S # {} /\ \A x : S # {x}
      BY <2>0, <2>1, FS_EmptySet, FS_Singleton
    <3> QED BY <3>1
  <2>2. ASSUME NEW x \in S, NEW y \in S, x # y PROVE Cardinality(S) > 1
    <3>1. Cardinality(S) # 0
      BY <2>0, <2>2, FS_EmptySet
    <3>2. Cardinality(S) # 1
      BY <2>0, <2>2, FS_Singleton
    <3> QED BY <2>0, <3>1, <3>2
  <2> QED BY <2>1, <2>2 DEF S
<1>3. Doppelte(b) = {d \in {Runde[k] : k \in Nrn} \X Teams : Cardinality(Mit(d[1], d[2])) > 1}
  BY DEF Doppelte
<1>4. ASSUME Doppelte(b) = {}, NEW x \in Nrn \X Seiten, NEW y \in Nrn \X Seiten, x # y,
             Runde[x[1]] = Runde[y[1]], b[x[1]].seiten[x[2]] \in Teams,
             b[x[1]].seiten[x[2]] = b[y[1]].seiten[y[2]]
      PROVE  FALSE
  <2> DEFINE d == <<Runde[x[1]], b[x[1]].seiten[x[2]]>>
  <2>1. d \in {Runde[k] : k \in Nrn} \X Teams
    BY <1>4
  <2>2. x \in Mit(d[1], d[2]) /\ y \in Mit(d[1], d[2])
    BY <1>4
  <2> HIDE DEF Mit, d
  <2>3. Cardinality(Mit(d[1], d[2])) > 1
    BY <1>2, <1>4, <2>2
  <2> QED BY <1>3, <1>4, <2>1, <2>3
<1>5. ASSUME KeinDoppel(b), NEW d \in Doppelte(b) PROVE FALSE
  <2>1. d \in {Runde[k] : k \in Nrn} \X Teams /\ Cardinality(Mit(d[1], d[2])) > 1
    <3> HIDE DEF Mit
    <3> QED BY <1>3, <1>5
  <2>2. PICK x \in Mit(d[1], d[2]) : \E y \in Mit(d[1], d[2]) : x # y
    <3> HIDE DEF Mit
    <3> QED BY <1>2, <2>1
  <2>3. PICK y \in Mit(d[1], d[2]) : x # y
    BY <2>2
  <2>4. /\ x \in Nrn \X Seiten /\ y \in Nrn \X Seiten /\ Runde[x[1]] = Runde[y[1]]
        /\ b[x[1]].seiten[x[2]] = d[2] /\ b[y[1]].seiten[y[2]] = d[2] /\ d[2] \in Teams
    BY <2>1
  <2> HIDE DEF Mit
  <2> QED BY <1>5, <2>3, <2>4 DEF KeinDoppel
<1>6. KeinDoppel(b) => Doppelte(b) = {}
  BY <1>5
<1>7. Doppelte(b) = {} => KeinDoppel(b)
  BY <1>4 DEF KeinDoppel
<1> QED BY <1>6, <1>7

\* What a save may do to the season F: s is its answer.
GuteSpeicherung(F, s) ==
  /\ GuteLage(s.lage)
  /\ \A p \in Paarungen : <<"gruppe", p>> \notin s.schreibt => s.lage.gruppe[p] = F.gruppe[p]
  /\ \A k \in Nrn : <<"ko", k>> \notin s.schreibt => s.lage.ko[k] = F.ko[k]
  /\ s.erlaubt /\ Sauber(F) => Sauber(s.lage)

\* From the season the save applied, G, to the one the pass leaves.
LEMMA GespeichertGilt ==
  ASSUME NEW F, NEW G, GuteLage(G), NEW eigene, NEW frei, NEW benannt, NEW eintrag,
         \A p \in Paarungen : <<"gruppe", p>> \notin eigene => G.gruppe[p] = F.gruppe[p],
         \A k \in Nrn : <<"ko", k>> \notin eigene /\ k \notin frei => G.ko[k] = F.ko[k],
         Sauber(F) => Doppelte(G.ko) = {} /\ QuellenEinfach(G.ko)
  PROVE  GuteSpeicherung(F, Gespeichert(F, G, Aufloesung(G), eigene, frei, benannt, eintrag))
<1> DEFINE A == Aufloesung(G)
           s == Gespeichert(F, G, A, eigene, frei, benannt, eintrag)
<1>1. Durchlauf(G, A)
  BY AufloesungGilt
<1>2. s.lage = A.lage /\ s.erlaubt = Nachrueckbar(G, A)
      /\ s.schreibt = eigene \cup {<<"ko", l>> : l \in frei} \cup {<<"ko", k>> : k \in A.bewegt}
  BY DEF Gespeichert, Geschrieben
<1>3. Aufloesung(A.lage).bewegt = {}
  BY EinmalGenuegt
<1> HIDE DEF A, s
<1>4. \A p \in Paarungen : <<"gruppe", p>> \notin s.schreibt => s.lage.gruppe[p] = F.gruppe[p]
  BY <1>1, <1>2 DEF Durchlauf
<1>5. \A k \in Nrn : <<"ko", k>> \notin s.schreibt => s.lage.ko[k] = F.ko[k]
  BY <1>1, <1>2 DEF Durchlauf
<1>6. ASSUME s.erlaubt, Sauber(F) PROVE Sauber(s.lage)
  <2>1. Doppelte(A.lage.ko) = {}
    BY <1>2, <1>6 DEF Nachrueckbar
  <2>2. QuellenEinfach(A.lage.ko)
    <3>1. \A k \in Nrn : A.lage.ko[k].quellen = G.ko[k].quellen
      BY <1>1 DEF Durchlauf
    <3>2. QuellenEinfach(G.ko)
      BY <1>6
    <3>3. \A x \in Nrn \X Seiten : A.lage.ko[x[1]].quellen = G.ko[x[1]].quellen
      BY <3>1
    <3>4. ASSUME NEW x \in Nrn \X Seiten, NEW y \in Nrn \X Seiten, x # y, A.lage.ko[x[1]].quellen[x[2]] # Ohne
          PROVE  A.lage.ko[x[1]].quellen[x[2]] # A.lage.ko[y[1]].quellen[y[2]]
      <4>1. G.ko[x[1]].quellen[x[2]] # Ohne => G.ko[x[1]].quellen[x[2]] # G.ko[y[1]].quellen[y[2]]
        BY <3>2, <3>4 DEF QuellenEinfach
      <4> QED BY <3>3, <3>4, <4>1
    <3> QED BY <3>4 DEF QuellenEinfach
  <2> QED BY <1>2, <1>3, <2>1, <2>2 DEF Sauber
<1>7. GuteLage(s.lage)
  BY <1>1, <1>2 DEF Durchlauf
<1>8. GuteSpeicherung(F, s)
  BY <1>4, <1>5, <1>6, <1>7 DEF GuteSpeicherung
<1> QED BY <1>8 DEF s, A

-----------------------------------------------------------------------------
(* A group fixture's save, and a knockout fixture's. *)

\* The season with one group result recorded.
Gesetzt(F, p, st) == [F EXCEPT !.gruppe[p] = st]

LEMMA GesetztGilt ==
  ASSUME NEW F, GuteLage(F), NEW p \in Paarungen, NEW st, GutesErgebnis(p, st),
         NEW G, G = Gesetzt(F, p, st)
  PROVE  /\ GuteLage(G)
         /\ G.ko = F.ko
         /\ \A q \in Paarungen : G.gruppe[q] = IF q = p THEN st ELSE F.gruppe[q]
<1>1. st \in Staende
  BY DEF GutesErgebnis, Staende, Paarungen, Begegnungen, Teams
<1>2. F = [gruppe |-> F.gruppe, ko |-> F.ko] /\ F.gruppe \in [Paarungen -> Staende]
  BY DEF GuteLage
<1>3. G = [gruppe |-> [F.gruppe EXCEPT ![p] = st], ko |-> F.ko]
  BY <1>2 DEF Gesetzt
<1>4. /\ G.ko = F.ko /\ G.gruppe \in [Paarungen -> Staende]
      /\ \A q \in Paarungen : G.gruppe[q] = IF q = p THEN st ELSE F.gruppe[q]
  BY <1>1, <1>2, <1>3
<1>5. G \in [gruppe : [Paarungen -> Staende], ko : [Nrn -> Spiele]]
  BY <1>2, <1>3, <1>4 DEF GuteLage
<1>6. GuteLage(G)
  BY <1>4, <1>5 DEF GuteLage
<1> QED BY <1>4, <1>6

LEMMA GruppeGespeichertGilt ==
  ASSUME NEW F, GuteLage(F), NEW p \in Paarungen, NEW st, GutesErgebnis(p, st)
  PROVE  GuteSpeicherung(F, GruppeGespeichert(F, p, st))
<1> DEFINE G == Gesetzt(F, p, st)
           eigene == IF F.gruppe[p] = st THEN {} ELSE {<<"gruppe", p>>}
<1>1. /\ GuteLage(G)
      /\ G.ko = F.ko
      /\ \A q \in Paarungen : G.gruppe[q] = IF q = p THEN st ELSE F.gruppe[q]
  BY GesetztGilt
<1> HIDE DEF G
<1>2. \A q \in Paarungen : <<"gruppe", q>> \notin eigene => G.gruppe[q] = F.gruppe[q]
  BY <1>1
<1>3. Sauber(F) => Doppelte(G.ko) = {} /\ QuellenEinfach(G.ko)
  BY <1>1 DEF Sauber
<1> HIDE DEF eigene
<1>4. GuteSpeicherung(F, Gespeichert(F, G, Aufloesung(G), eigene, {}, {}, [paar |-> p, stand |-> F.gruppe[p]]))
  BY <1>1, <1>2, <1>3, GespeichertGilt
<1> QED BY <1>4 DEF GruppeGespeichert, eigene, G, Gesetzt

\* What a request can ask of fixture k.
GuteAnfrage(k, e) ==
  /\ e \in Spiele
  /\ \A i \in Seiten : e.quellen[i] \in Quellenwahl(k)
  /\ HatErgebnis(e.stand) => e.stand = "remis" \/ \E i \in Seiten : e.stand = e.seiten[i]

\* The document as the save composes it.
Verfasst(e) == [seiten |-> e.seiten, quellen |-> e.quellen, stand |-> Gewertet(e)]

\* _opening_round_rank: no fixture is of an earlier round.
LEMMA EroeffnungIst ==
  ASSUME NEW k \in Nrn
  PROVE  Eroeffnung <= Runde[k]
<1> DEFINE T == {Runde[l] : l \in Nrn}
<1>1. T \subseteq Nat /\ T # {}
  BY RundeAssumption
<1> HIDE DEF T
<1>2. \E r \in T : \A n \in T : r <= n
  BY <1>1, Kleinstes
<1> QED BY <1>2 DEF Eroeffnung, T

LEMMA VerfasstGilt ==
  ASSUME NEW F, GuteLage(F), NEW k \in Nrn, NEW e, GuteAnfrage(k, e), KoErlaubt(F, k, e)
  PROVE  GutesSpiel(k, Verfasst(e))
<1>1. e.seiten \in [Seiten -> Teams \cup {Leer}] /\ e.quellen \in [Seiten -> Quellform] /\ e.stand \in Staende
  BY DEF GuteAnfrage, Spiele
<1>2. Gewertet(e) \in {"offen", e.stand} /\ (HatErgebnis(Gewertet(e)) => \A i \in Seiten : e.seiten[i] # Leer)
  BY DEF Gewertet, HatErgebnis
<1>3. Verfasst(e) \in Spiele
  BY <1>1, <1>2 DEF Verfasst, Spiele, Staende
<1>4. ASSUME NEW i \in Seiten, e.quellen[i] \in Spielquellen
      PROVE  Runde[e.quellen[i].nr] < Runde[k]
  <2>1. GutesSpiel(k, F.ko[k])
    BY DEF GuteLage
  <2>2. CASE e.quellen[i] = F.ko[k].quellen[i]
    BY <1>4, <2>1, <2>2 DEF GutesSpiel
  <2>3. CASE e.quellen[i] # F.ko[k].quellen[i]
    BY <1>4, <2>3, Quellenarten DEF KoErlaubt, FehlverdrahtungFrei, Waehlbar
  <2> QED BY <2>2, <2>3
<1>9. ASSUME NEW i \in Seiten, e.quellen[i] \in Platzquellen
      PROVE  \A l \in Nrn : Runde[k] <= Runde[l]
  <2>1. GutesSpiel(k, F.ko[k])
    BY DEF GuteLage
  <2>2. CASE e.quellen[i] = F.ko[k].quellen[i]
    BY <1>9, <2>1, <2>2 DEF GutesSpiel
  <2>3. CASE e.quellen[i] # F.ko[k].quellen[i]
    <3>1. Runde[k] = Eroeffnung
      BY <1>9, <2>3, Quellenarten DEF KoErlaubt, FehlverdrahtungFrei, Waehlbar
    <3> QED BY <3>1, EroeffnungIst
  <2> QED BY <2>2, <2>3
<1>5. \A i \in Seiten : e.quellen[i] \in Quellenwahl(k)
  BY DEF GuteAnfrage
<1>6. HatErgebnis(Gewertet(e)) => Gewertet(e) = "remis" \/ \E i \in Seiten : Gewertet(e) = e.seiten[i]
  BY <1>2 DEF GuteAnfrage, HatErgebnis
<1> DEFINE d == Verfasst(e)
<1>7. d.seiten = e.seiten /\ d.quellen = e.quellen /\ d.stand = Gewertet(e)
  BY DEF Verfasst
<1> HIDE DEF d
<1>8. GutesSpiel(k, d)
  BY <1>2, <1>3, <1>4, <1>5, <1>6, <1>7, <1>9 DEF GutesSpiel, d
<1> QED BY <1>8 DEF d

\* The season with fixture k rewritten and the sides in the way released.
Angewandt(F, k, e) == Freigegeben([F EXCEPT !.ko[k] = Verfasst(e)], Belegte(F, k, e))

FreieNrn(F, k, e) == {x[1] : x \in Belegte(F, k, e)}

LEMMA AngewandtGilt ==
  ASSUME NEW F, GuteLage(F), NEW k \in Nrn, NEW e, GuteAnfrage(k, e), KoErlaubt(F, k, e),
         NEW G, G = Angewandt(F, k, e)
  PROVE  /\ GuteLage(G)
         /\ G.gruppe = F.gruppe
         /\ G.ko[k] = Verfasst(e)
         /\ \A l \in Nrn \ {k} :
              /\ l \notin FreieNrn(F, k, e) => G.ko[l] = F.ko[l]
              /\ G.ko[l].quellen = F.ko[l].quellen
              /\ \A i \in Seiten : G.ko[l].seiten[i] =
                   IF <<l, i>> \in Belegte(F, k, e) THEN Leer ELSE F.ko[l].seiten[i]
<1> DEFINE B == Belegte(F, k, e)
           d == Verfasst(e)
           D == [F EXCEPT !.ko[k] = d]
           frei(l) == [seiten |-> [i \in Seiten |-> IF <<l, i>> \in B THEN Leer ELSE F.ko[l].seiten[i]],
                       quellen |-> F.ko[l].quellen, stand |-> Entwertet(F.ko[l].stand)]
<1>1. GutesSpiel(k, d) /\ d \in Spiele
  BY VerfasstGilt DEF GutesSpiel
<1>2. F = [gruppe |-> F.gruppe, ko |-> F.ko] /\ F.ko \in [Nrn -> Spiele] /\ \A l \in Nrn : F.ko[l] \in Spiele
  BY DEF GuteLage
<1>3. B \subseteq (Nrn \ {k}) \X Seiten
  BY DEF Belegte
<1> HIDE DEF d, B
<1>4. D = [gruppe |-> F.gruppe, ko |-> [F.ko EXCEPT ![k] = d]]
  BY <1>2
<1>5. D.gruppe = F.gruppe /\ D.ko[k] = d /\ \A l \in Nrn : l # k => D.ko[l] = F.ko[l]
  BY <1>2, <1>4
<1> HIDE DEF D
<1> DEFINE neu == [l \in Nrn |->
              IF \E x \in B : x[1] = l
              THEN [seiten |-> [i \in Seiten |-> IF <<l, i>> \in B THEN Leer ELSE D.ko[l].seiten[i]],
                    quellen |-> D.ko[l].quellen, stand |-> Entwertet(D.ko[l].stand)]
              ELSE D.ko[l]]
<1>6. G = [D EXCEPT !.ko = neu]
  BY DEF Angewandt, Freigegeben, d, B, D
<1>7. G = [gruppe |-> F.gruppe, ko |-> neu]
  <2> HIDE DEF neu
  <2> QED BY <1>4, <1>6
<1>8. G.gruppe = F.gruppe /\ G.ko = neu
  BY <1>7
<1>9. neu[k] = d
  BY <1>3, <1>5
<1>10. ASSUME NEW l \in Nrn \ {k}
       PROVE  neu[l] = IF \E x \in B : x[1] = l THEN frei(l) ELSE F.ko[l]
  BY <1>5
<1>11. ASSUME NEW l \in Nrn \ {k}
       PROVE  /\ GutesSpiel(l, neu[l])
              /\ neu[l].quellen = F.ko[l].quellen
              /\ \A i \in Seiten : neu[l].seiten[i] = IF <<l, i>> \in B THEN Leer ELSE F.ko[l].seiten[i]
  <2>1. F.ko[l] \in Spiele /\ GutesSpiel(l, F.ko[l])
    BY <1>2 DEF GuteLage
  <2> HIDE DEF neu
  <2>2. CASE \E x \in B : x[1] = l
    <3> DEFINE f == frei(l)
    <3>1. f.quellen = F.ko[l].quellen /\ f.stand = Entwertet(F.ko[l].stand)
          /\ \A i \in Seiten : f.seiten[i] = IF <<l, i>> \in B THEN Leer ELSE F.ko[l].seiten[i]
      OBVIOUS
    <3>2. f \in Spiele
      BY <2>1, EntwertetTyp DEF Spiele
    <3> HIDE DEF f
    <3>3. GutesSpiel(l, f)
      BY <2>1, <3>1, <3>2, EntwertetTyp DEF GutesSpiel
    <3>4. neu[l] = f
      BY <1>10, <2>2 DEF f
    <3> QED BY <3>1, <3>3, <3>4
  <2>3. CASE ~ \E x \in B : x[1] = l
    <3>1. neu[l] = F.ko[l] /\ \A i \in Seiten : <<l, i>> \notin B
      BY <1>10, <2>3
    <3> QED BY <2>1, <3>1
  <2> QED BY <2>2, <2>3
<1>12. G \in [gruppe : [Paarungen -> Staende], ko : [Nrn -> Spiele]]
  <2>1. \A l \in Nrn : neu[l] \in Spiele
    <3> HIDE DEF neu
    <3> QED BY <1>1, <1>9, <1>11 DEF GutesSpiel
  <2>2. neu \in [Nrn -> Spiele]
    <3>1. neu = [l \in Nrn |-> neu[l]]
      OBVIOUS
    <3> HIDE DEF neu
    <3> QED BY <2>1, <3>1
  <2> HIDE DEF neu
  <2> QED BY <1>7, <2>2 DEF GuteLage
<1> HIDE DEF neu
<1>13. GuteLage(G)
  BY <1>1, <1>8, <1>9, <1>11, <1>12 DEF GuteLage
<1>14. \A l \in Nrn \ {k} : l \notin FreieNrn(F, k, e) => neu[l] = F.ko[l]
  BY <1>10 DEF FreieNrn, B
<1> QED BY <1>8, <1>9, <1>11, <1>13, <1>14 DEF d, B

\* Applied and released, no club stands twice in a round.
LEMMA AngewandtOhneDoppel ==
  ASSUME NEW F, GuteLage(F), NEW k \in Nrn, NEW e, GuteAnfrage(k, e), KoErlaubt(F, k, e),
         NEW G, G = Angewandt(F, k, e), KeinDoppel(F.ko)
  PROVE  KeinDoppel(G.ko)
<1> SUFFICES ASSUME NEW x \in Nrn \X Seiten, NEW y \in Nrn \X Seiten, x # y, Runde[x[1]] = Runde[y[1]],
                    G.ko[x[1]].seiten[x[2]] \in Teams,
                    G.ko[x[1]].seiten[x[2]] = G.ko[y[1]].seiten[y[2]]
             PROVE  FALSE
  BY DEF KeinDoppel
<1> DEFINE B == Belegte(F, k, e)
           t == G.ko[x[1]].seiten[x[2]]
<1>1. t # Leer /\ t \in Teams
  BY NamenAssumption
<1>2. /\ \A i \in Seiten : G.ko[k].seiten[i] = e.seiten[i]
      /\ \A l \in Nrn \ {k} : \A i \in Seiten : G.ko[l].seiten[i] =
           IF <<l, i>> \in B THEN Leer ELSE F.ko[l].seiten[i]
  <2>1. /\ G.ko[k] = Verfasst(e)
        /\ \A l \in Nrn \ {k} : \A i \in Seiten : G.ko[l].seiten[i] =
             IF <<l, i>> \in B THEN Leer ELSE F.ko[l].seiten[i]
    BY AngewandtGilt
  <2> QED BY <2>1 DEF Verfasst
<1>3. \A z \in Nrn \X Seiten : z[1] \in Nrn /\ z[2] \in Seiten /\ z = <<z[1], z[2]>>
  OBVIOUS
<1>4. ASSUME NEW z \in Nrn \X Seiten, z[1] # k, G.ko[z[1]].seiten[z[2]] = t
      PROVE  z \notin B /\ F.ko[z[1]].seiten[z[2]] = t
  <2> HIDE DEF B, t
  <2> QED BY <1>1, <1>2, <1>3, <1>4
<1>5. ASSUME NEW z \in Nrn \X Seiten, NEW w \in Nrn \X Seiten, z[1] # k, w[1] = k, Runde[z[1]] = Runde[w[1]],
             G.ko[z[1]].seiten[z[2]] = t, G.ko[w[1]].seiten[w[2]] = t
      PROVE  FALSE
  <2>1. z \notin B /\ F.ko[z[1]].seiten[z[2]] = t
    BY <1>4, <1>5
  <2>2. e.seiten[w[2]] = t /\ w[2] \in Seiten
    BY <1>2, <1>5
  <2>3. z \in (Nrn \ {k}) \X Seiten
    BY <1>3, <1>5
  <2> HIDE DEF t
  <2>4. z \in B
    BY <1>1, <1>5, <2>1, <2>2, <2>3 DEF Belegte
  <2> QED BY <2>1, <2>4
<1>6. G.ko[x[1]].seiten[x[2]] = t /\ G.ko[y[1]].seiten[y[2]] = t
  OBVIOUS
<1>7. CASE x[1] = k /\ y[1] = k
  <2>1. x[2] # y[2] /\ x[2] \in Seiten /\ y[2] \in Seiten
    BY <1>3, <1>7
  <2>2. e.seiten[x[2]] = t /\ e.seiten[y[2]] = t
    BY <1>2, <1>6, <1>7, <2>1
  <2>3. e.seiten[1] = t /\ e.seiten[2] = t
    BY <2>1, <2>2 DEF Seiten
  <2> QED BY <1>1, <2>3 DEF KoErlaubt, SpieltagFrei
<1>8. CASE x[1] # k /\ y[1] # k
  <2>1. F.ko[x[1]].seiten[x[2]] = t /\ F.ko[y[1]].seiten[y[2]] = t
    BY <1>4, <1>6, <1>8
  <2> QED BY <1>1, <2>1 DEF KeinDoppel
<1>9. CASE x[1] # k /\ y[1] = k
  BY <1>5, <1>6, <1>9
<1>10. CASE x[1] = k /\ y[1] # k
  BY <1>5, <1>6, <1>10
<1> QED BY <1>7, <1>8, <1>9, <1>10

\* Nor is a placing or an outcome handed to two slots.
LEMMA AngewandtQuellen ==
  ASSUME NEW F, GuteLage(F), NEW k \in Nrn, NEW e, GuteAnfrage(k, e), KoErlaubt(F, k, e),
         NEW G, G = Angewandt(F, k, e), QuellenEinfach(F.ko)
  PROVE  QuellenEinfach(G.ko)
<1> SUFFICES ASSUME NEW x \in Nrn \X Seiten, NEW y \in Nrn \X Seiten, x # y,
                    G.ko[x[1]].quellen[x[2]] # Ohne,
                    G.ko[x[1]].quellen[x[2]] = G.ko[y[1]].quellen[y[2]]
             PROVE  FALSE
  BY DEF QuellenEinfach
<1> DEFINE q == G.ko[x[1]].quellen[x[2]]
<1>1. /\ \A i \in Seiten : G.ko[k].quellen[i] = e.quellen[i]
      /\ \A l \in Nrn \ {k} : G.ko[l].quellen = F.ko[l].quellen
  <2>1. G.ko[k] = Verfasst(e) /\ \A l \in Nrn \ {k} : G.ko[l].quellen = F.ko[l].quellen
    BY AngewandtGilt
  <2> QED BY <2>1 DEF Verfasst
<1>2. \A z \in Nrn \X Seiten : z[1] \in Nrn /\ z[2] \in Seiten /\ z = <<z[1], z[2]>>
  OBVIOUS
<1>3. q # Ohne /\ G.ko[x[1]].quellen[x[2]] = q /\ G.ko[y[1]].quellen[y[2]] = q
  OBVIOUS
<1> HIDE DEF q
<1>4. ASSUME NEW i \in Seiten, e.quellen[i] = q, F.ko[k].quellen[i] # q
      PROVE  Waehlbar(F, k, i, e, q)
  BY <1>3, <1>4 DEF KoErlaubt, FehlverdrahtungFrei
<1>5. ASSUME NEW z \in Nrn \X Seiten, NEW w \in Nrn \X Seiten, z[1] # k, w[1] = k,
             G.ko[z[1]].quellen[z[2]] = q, G.ko[w[1]].quellen[w[2]] = q
      PROVE  FALSE
  <2>1. F.ko[z[1]].quellen[z[2]] = q /\ z[1] \in Nrn \ {k} /\ z[2] \in Seiten
    BY <1>1, <1>2, <1>5
  <2>2. e.quellen[w[2]] = q /\ w[2] \in Seiten
    BY <1>1, <1>2, <1>5
  <2>3. CASE F.ko[k].quellen[w[2]] = q
    <3>1. F.ko[w[1]].quellen[w[2]] = q /\ z # w
      BY <1>5, <2>3
    <3> QED BY <1>3, <2>1, <3>1 DEF QuellenEinfach
  <2>4. CASE F.ko[k].quellen[w[2]] # q
    <3>1. q \notin Quellen(z[1], F.ko)
      BY <1>4, <2>1, <2>2, <2>4 DEF Waehlbar
    <3>2. q \in Quellen(z[1], F.ko)
      BY <1>3, <2>1 DEF Quellen
    <3> QED BY <3>1, <3>2
  <2> QED BY <2>3, <2>4
<1>6. CASE x[1] = k /\ y[1] = k
  <2>1. x[2] # y[2] /\ x[2] \in Seiten /\ y[2] \in Seiten
    BY <1>2, <1>6
  <2>2. e.quellen[x[2]] = q /\ e.quellen[y[2]] = q
    BY <1>1, <1>3, <1>6, <2>1
  <2>3. e.quellen[1] = q /\ e.quellen[2] = q /\ 1 \in Seiten /\ 2 \in Seiten /\ 3 - 1 = 2 /\ 3 - 2 = 1
    BY <2>1, <2>2 DEF Seiten
  <2>4. F.ko[k].quellen[1] = q /\ F.ko[k].quellen[2] = q
    BY <1>4, <2>3 DEF Waehlbar
  <2>5. F.ko[x[1]].quellen[x[2]] = q /\ F.ko[y[1]].quellen[y[2]] = q
    BY <1>6, <2>1, <2>4 DEF Seiten
  <2> QED BY <1>3, <2>5 DEF QuellenEinfach
<1>7. CASE x[1] # k /\ y[1] # k
  <2>1. F.ko[x[1]].quellen[x[2]] = q /\ F.ko[y[1]].quellen[y[2]] = q
    BY <1>1, <1>2, <1>3, <1>7
  <2> QED BY <1>3, <2>1 DEF QuellenEinfach
<1>8. CASE x[1] # k /\ y[1] = k
  BY <1>3, <1>5, <1>8
<1>9. CASE x[1] = k /\ y[1] # k
  BY <1>3, <1>5, <1>9
<1> QED BY <1>6, <1>7, <1>8, <1>9

LEMMA KoGespeichertGilt ==
  ASSUME NEW F, GuteLage(F), NEW k \in Nrn, NEW e, GuteAnfrage(k, e)
  PROVE  GuteSpeicherung(F, KoGespeichert(F, k, e))
<1>1. CASE ~KoErlaubt(F, k, e)
  <2>1. KoGespeichert(F, k, e) = Abgelehnt(F)
    BY <1>1 DEF KoGespeichert
  <2>2. ~Abgelehnt(F).erlaubt /\ Abgelehnt(F).lage = F
    BY DEF Abgelehnt
  <2> QED BY <2>1, <2>2 DEF GuteSpeicherung
<1>2. CASE KoErlaubt(F, k, e)
  <2> DEFINE G == Angewandt(F, k, e)
             eigene == IF Verfasst(e) = F.ko[k] THEN {} ELSE {<<"ko", k>>}
             frei == FreieNrn(F, k, e)
             eintrag == KoEintrag(k, F.ko[k], Verfasst(e))
  <2>1. KoGespeichert(F, k, e) = Gespeichert(F, G, Aufloesung(G), eigene, frei, {k}, eintrag)
    BY <1>2 DEF KoGespeichert, Angewandt, Verfasst, FreieNrn
  <2>2. /\ GuteLage(G) /\ G.gruppe = F.gruppe /\ G.ko[k] = Verfasst(e)
        /\ \A l \in Nrn \ {k} : l \notin frei => G.ko[l] = F.ko[l]
    BY <1>2, AngewandtGilt
  <2>3. Sauber(F) => Doppelte(G.ko) = {} /\ QuellenEinfach(G.ko)
    <3>1. KeinDoppel(F.ko) => KeinDoppel(G.ko)
      BY <1>2, AngewandtOhneDoppel
    <3>2. QuellenEinfach(F.ko) => QuellenEinfach(G.ko)
      BY <1>2, AngewandtQuellen
    <3> HIDE DEF G
    <3> QED BY <3>1, <3>2, DoppelteLeer DEF Sauber
  <2> HIDE DEF G, frei, eintrag
  <2>4. \A l \in Nrn : <<"ko", l>> \notin eigene /\ l \notin frei => G.ko[l] = F.ko[l]
    BY <2>2
  <2>5. \A p \in Paarungen : <<"gruppe", p>> \notin eigene => G.gruppe[p] = F.gruppe[p]
    BY <2>2
  <2> HIDE DEF eigene
  <2> QED BY <2>1, <2>2, <2>3, <2>4, <2>5, GespeichertGilt
<1> QED BY <1>1, <1>2

-----------------------------------------------------------------------------
(* The report of a save, and its undo. *)

Gruppeneintraege == {z \in [paar : Paarungen, stand : Staende] : GutesErgebnis(z.paar, z.stand)}

Koeintraege ==
  {z \in [nr : Nrn, seiten : [Seiten -> Teams \cup {Leer}], stand : Staende,
          quellen : [Seiten -> Quellform \cup {Leer}]] :
     /\ \A i \in Seiten : z.quellen[i] \in Quellenwahl(z.nr) \cup {Leer}
     /\ HatErgebnis(z.stand) => z.stand = "remis" \/ \E i \in Seiten : z.stand = z.seiten[i]}

Eintraege == Gruppeneintraege \cup Koeintraege

LEMMA KoEintragTyp ==
  ASSUME NEW k \in Nrn, NEW alt, GutesSpiel(k, alt), NEW neu
  PROVE  KoEintrag(k, alt, neu) \in Koeintraege
<1> DEFINE q == ErsetzteQuellen(alt, neu)
           z == [nr |-> k, seiten |-> alt.seiten, stand |-> alt.stand, quellen |-> q]
<1>1. /\ alt.seiten \in [Seiten -> Teams \cup {Leer}] /\ alt.stand \in Staende
      /\ \A i \in Seiten : alt.quellen[i] \in Quellform
  BY DEF GutesSpiel, Spiele
<1>2. \A i \in Seiten : q[i] \in {Leer, alt.quellen[i]}
  BY DEF ErsetzteQuellen
<1>3. q \in [Seiten -> Quellform \cup {Leer}]
  <2>1. q = [i \in Seiten |-> q[i]]
    BY DEF ErsetzteQuellen
  <2> HIDE DEF q
  <2> QED BY <1>1, <1>2, <2>1
<1> HIDE DEF q
<1>4. z \in [nr : Nrn, seiten : [Seiten -> Teams \cup {Leer}], stand : Staende,
             quellen : [Seiten -> Quellform \cup {Leer}]]
  BY <1>1, <1>3
<1>5. z.nr = k /\ z.seiten = alt.seiten /\ z.stand = alt.stand /\ z.quellen = q
  OBVIOUS
<1> HIDE DEF z
<1>6. z \in Koeintraege
  BY <1>2, <1>4, <1>5 DEF Koeintraege, GutesSpiel
<1> QED BY <1>6 DEF z, q, KoEintrag

\* The entries of the fixtures S, in the order nrn.
Abfolge(F, S, n, nrn) ==
  /\ nrn \in [1..n -> S]
  /\ Mitbewegte(F, S) = [j \in 1..n |-> KoEintrag(nrn[j], F.ko[nrn[j]], F.ko[nrn[j]])]

LEMMA MitbewegteSind ==
  ASSUME NEW F, NEW S \in SUBSET Nrn
  PROVE  \E n \in Nat : \E nrn : Abfolge(F, S, n, nrn)
<1> DEFINE R == {x \in S \X S : x[1] < x[2]}
           nrn == Geordnet(S, <)
           n == Cardinality(S)
<1>1. IsFiniteSet(S) /\ n \in Nat /\ S \subseteq Nat
  BY RundeAssumption, FS_Subset, FS_CardinalityType
<1>2. \A x, y \in S : <<x, y>> \in R <=> x < y
  OBVIOUS
<1> HIDE DEF R, n
<1>3. Ordnet(R, S)
  BY <1>1, <1>2 DEF Ordnet
<1>4. PICK s : Aufzaehlung(R, S, s)
  BY <1>1, <1>3, Aufzaehlbar
<1>5. s \in [1..n -> S] /\ \A i, j \in 1..n : i < j => s[i] < s[j]
  BY <1>2, <1>4 DEF Aufzaehlung, n
<1>6. nrn = CHOOSE t \in [1..n -> S] : \A i, j \in 1..n : i < j => t[i] < t[j]
  BY DEF Geordnet, n
<1>7. nrn \in [1..n -> S]
  BY <1>5, <1>6
<1>8. Mitbewegte(F, S) = [j \in 1..n |-> KoEintrag(nrn[j], F.ko[nrn[j]], F.ko[nrn[j]])]
  BY <1>7 DEF Mitbewegte
<1> HIDE DEF nrn
<1>9. Abfolge(F, S, n, nrn)
  BY <1>7, <1>8 DEF Abfolge
<1> QED BY <1>1, <1>9

\* The named fixture's entry leads, and the ones behind it name no source.
Angefuehrt(F, eintrag, b) ==
  /\ b # <<>> /\ b[1] = eintrag
  /\ \A n \in 2..Len(b) : \E k \in Nrn : b[n] = KoEintrag(k, F.ko[k], F.ko[k])

LEMMA BerichtIst ==
  ASSUME NEW F, GuteLage(F), NEW eintrag, NEW S \in SUBSET Nrn, NEW b, b = Bericht(F, eintrag, S)
  PROVE  b \in Seq({eintrag} \cup Koeintraege) /\ Angefuehrt(F, eintrag, b)
<1>1. PICK n \in Nat : \E nrn : Abfolge(F, S, n, nrn)
  BY MitbewegteSind
<1>2. PICK nrn : /\ nrn \in [1..n -> S]
                 /\ Mitbewegte(F, S) = [j \in 1..n |-> KoEintrag(nrn[j], F.ko[nrn[j]], F.ko[nrn[j]])]
  BY <1>1 DEF Abfolge
<1> DEFINE m == Mitbewegte(F, S)
<1>3. \A j \in 1..n : nrn[j] \in Nrn /\ m[j] = KoEintrag(nrn[j], F.ko[nrn[j]], F.ko[nrn[j]])
  BY <1>2
<1>4. \A j \in 1..n : m[j] \in Koeintraege
  BY <1>3, KoEintragTyp DEF GuteLage
<1>5. m = [j \in 1..n |-> m[j]]
  BY <1>2
<1>6. b = <<eintrag>> \o m
  BY DEF Bericht
<1> HIDE DEF m
<1>7. m \in Seq(Koeintraege) /\ Len(m) = n
  BY <1>1, <1>4, <1>5
<1>8. Len(b) = n + 1 /\ b[1] = eintrag /\ \A j \in 2..Len(b) : b[j] = m[j - 1] /\ j - 1 \in 1..n
  BY <1>1, <1>6, <1>7
<1>9. b \in Seq({eintrag} \cup Koeintraege)
  BY <1>6, <1>7
<1>10. b # <<>>
  BY <1>1, <1>8
<1> QED BY <1>3, <1>8, <1>9, <1>10 DEF Angefuehrt

LEMMA GruppenBericht ==
  ASSUME NEW F, GuteLage(F), NEW p \in Paarungen, NEW st, GutesErgebnis(p, st)
  PROVE  LET eintrag == [paar |-> p, stand |-> F.gruppe[p]]
         IN  /\ eintrag \in Gruppeneintraege
             /\ \E S \in SUBSET Nrn : GruppeGespeichert(F, p, st).bericht = Bericht(F, eintrag, S)
<1> DEFINE G == Gesetzt(F, p, st)
           eintrag == [paar |-> p, stand |-> F.gruppe[p]]
           A == Aufloesung(G)
<1>1. eintrag \in Gruppeneintraege
  BY DEF GuteLage, Gruppeneintraege
<1>2. GuteLage(G)
  BY GesetztGilt
<1>3. A.bewegt \subseteq Nrn
  <2>1. Durchlauf(G, A)
    BY <1>2, AufloesungGilt
  <2> HIDE DEF A, G
  <2> QED BY <2>1 DEF Durchlauf
<1>4. GruppeGespeichert(F, p, st).bericht = Bericht(F, eintrag, ({} \cup A.bewegt) \ {})
  BY DEF GruppeGespeichert, Gespeichert, Gesetzt
<1> HIDE DEF A, eintrag
<1>5. ({} \cup A.bewegt) \ {} \in SUBSET Nrn
  BY <1>3
<1> QED BY <1>1, <1>4, <1>5 DEF eintrag

LEMMA KoBericht ==
  ASSUME NEW F, GuteLage(F), NEW k \in Nrn, NEW e, GuteAnfrage(k, e)
  PROVE  KoGespeichert(F, k, e).bericht \in Seq(Koeintraege)
<1>1. CASE ~KoErlaubt(F, k, e)
  <2>1. KoGespeichert(F, k, e).bericht = <<>>
    BY <1>1 DEF KoGespeichert, Abgelehnt
  <2> QED BY <2>1
<1>2. CASE KoErlaubt(F, k, e)
  <2> DEFINE G == Angewandt(F, k, e)
             A == Aufloesung(G)
             eintrag == KoEintrag(k, F.ko[k], Verfasst(e))
             S == (FreieNrn(F, k, e) \cup A.bewegt) \ {k}
  <2>1. GuteLage(G)
    BY <1>2, AngewandtGilt
  <2>2. A.bewegt \subseteq Nrn
    <3>1. Durchlauf(G, A)
      BY <2>1, AufloesungGilt
    <3> HIDE DEF A, G
    <3> QED BY <3>1 DEF Durchlauf
  <2>3. FreieNrn(F, k, e) \subseteq Nrn
    BY DEF FreieNrn, Belegte
  <2>4. KoGespeichert(F, k, e).bericht = Bericht(F, eintrag, S)
    BY <1>2 DEF KoGespeichert, Angewandt, Verfasst, FreieNrn, Gespeichert
  <2>5. eintrag \in Koeintraege
    BY KoEintragTyp DEF GuteLage
  <2>6. S \in SUBSET Nrn
    BY <2>2, <2>3
  <2> HIDE DEF A, eintrag, S
  <2>7. Bericht(F, eintrag, S) \in Seq({eintrag} \cup Koeintraege)
    BY <2>6, BerichtIst
  <2>8. {eintrag} \cup Koeintraege = Koeintraege
    BY <2>5
  <2> QED BY <2>4, <2>7, <2>8
<1> QED BY <1>1, <1>2

\* What a save reports is a sequence of entries.
LEMMA BerichtTyp ==
  ASSUME NEW F, GuteLage(F)
  PROVE  /\ \A p \in Paarungen : \A st : GutesErgebnis(p, st) => GruppeGespeichert(F, p, st).bericht \in Seq(Eintraege)
         /\ \A k \in Nrn : \A e : GuteAnfrage(k, e) => KoGespeichert(F, k, e).bericht \in Seq(Eintraege)
<1>1. ASSUME NEW p \in Paarungen, NEW st, GutesErgebnis(p, st)
      PROVE  GruppeGespeichert(F, p, st).bericht \in Seq(Eintraege)
  <2> DEFINE eintrag == [paar |-> p, stand |-> F.gruppe[p]]
             b == GruppeGespeichert(F, p, st).bericht
  <2>1. eintrag \in Gruppeneintraege /\ \E S \in SUBSET Nrn : b = Bericht(F, eintrag, S)
    BY <1>1, GruppenBericht
  <2> HIDE DEF eintrag, b
  <2>2. b \in Seq({eintrag} \cup Koeintraege)
    BY <2>1, BerichtIst
  <2>3. {eintrag} \cup Koeintraege \subseteq Eintraege
    BY <2>1 DEF Eintraege
  <2> QED BY <2>2, <2>3 DEF b
<1>2. ASSUME NEW k \in Nrn, NEW e, GuteAnfrage(k, e)
      PROVE  KoGespeichert(F, k, e).bericht \in Seq(Eintraege)
  <2> DEFINE b == KoGespeichert(F, k, e).bericht
  <2>1. b \in Seq(Koeintraege)
    BY <1>2, KoBericht
  <2> HIDE DEF b
  <2>2. Koeintraege \subseteq Eintraege
    BY DEF Eintraege
  <2> QED BY <2>1, <2>2 DEF b
<1> QED BY <1>1, <1>2

\* One entry of an undo.
Einzeln(F, z) ==
  IF "paar" \in DOMAIN z THEN GruppeGespeichert(F, z.paar, z.stand)
  ELSE KoGespeichert(F, z.nr, Vervollstaendigt(F, z))

\* A stored entry, completed, is a request for its fixture.
LEMMA KoEintragAnfrage ==
  ASSUME NEW F, GuteLage(F), NEW z \in Koeintraege
  PROVE  z.nr \in Nrn /\ "paar" \notin DOMAIN z /\ GuteAnfrage(z.nr, Vervollstaendigt(F, z))
<1> DEFINE e == Vervollstaendigt(F, z)
<1>1. z \in [nr : Nrn, seiten : [Seiten -> Teams \cup {Leer}], stand : Staende,
             quellen : [Seiten -> Quellform \cup {Leer}]]
  BY DEF Koeintraege
<1>2. "paar" \notin DOMAIN z /\ z.nr \in Nrn /\ z.seiten \in [Seiten -> Teams \cup {Leer}] /\ z.stand \in Staende
  BY <1>1
<1>3. GutesSpiel(z.nr, F.ko[z.nr])
  BY <1>2 DEF GuteLage
<1>4. \A i \in Seiten : e.quellen[i] \in Quellenwahl(z.nr)
  BY <1>3 DEF Koeintraege, GutesSpiel, Vervollstaendigt
<1>5. /\ e.seiten = z.seiten /\ e.stand = z.stand
      /\ e = [seiten |-> e.seiten, stand |-> e.stand, quellen |-> e.quellen]
      /\ e.quellen = [i \in Seiten |-> e.quellen[i]]
  BY DEF Vervollstaendigt
<1> HIDE DEF e
<1>6. e \in Spiele
  <2>1. e.quellen \in [Seiten -> Quellform]
    BY <1>2, <1>4, <1>5, Quellenarten
  <2> QED BY <1>2, <1>5, <2>1 DEF Spiele
<1>7. GuteAnfrage(z.nr, e)
  BY <1>4, <1>5, <1>6 DEF GuteAnfrage, Koeintraege
<1> QED BY <1>2, <1>7 DEF e

LEMMA EinzelnGilt ==
  ASSUME NEW F, GuteLage(F), NEW z \in Eintraege
  PROVE  GuteSpeicherung(F, Einzeln(F, z))
<1>1. CASE z \in Gruppeneintraege
  <2>1. z.paar \in Paarungen /\ GutesErgebnis(z.paar, z.stand) /\ "paar" \in DOMAIN z
    BY <1>1 DEF Gruppeneintraege
  <2> QED BY <2>1, GruppeGespeichertGilt DEF Einzeln
<1>2. CASE z \in Koeintraege
  BY <1>2, KoEintragAnfrage, KoGespeichertGilt DEF Einzeln
<1> QED BY <1>1, <1>2 DEF Eintraege

\* An undo is its entries, one after the other.
LEMMA NachspielGilt ==
  ASSUME NEW F, NEW z \in Seq(Eintraege)
  PROVE  /\ Nachspiel(F, z)[0] = [erlaubt |-> TRUE, lage |-> F, schreibt |-> {}]
         /\ \A n \in 1..Len(z) : Nachspiel(F, z)[n] =
              Nachgespielt(Nachspiel(F, z)[n - 1], Einzeln(Nachspiel(F, z)[n - 1].lage, z[n]))
<1> DEFINE start == [erlaubt |-> TRUE, lage |-> F, schreibt |-> {}]
           M == Len(z)
           S(r, n) == Nachgespielt(r, Einzeln(r.lage, z[n]))
           G(g, n) == g = [m \in 0..n |-> IF m = 0 THEN start ELSE S(g[m - 1], m)]
           Falsche == {n \in 0..M : ~ \E g : G(g, n)}
<1>1. M \in Nat
  OBVIOUS
<1> HIDE DEF M
<1>2. \E g : G(g, M)
  <2>1. SUFFICES ASSUME Falsche # {} PROVE FALSE
    <3>1. M \in 0..M
      BY <1>1
    <3> HIDE DEF G
    <3> QED BY <3>1
  <2>2. Falsche \subseteq Nat
    BY <1>1
  <2>3. PICK n \in Falsche : \A m \in Falsche : n <= m
    <3> HIDE DEF Falsche
    <3> QED BY <2>1, <2>2, Kleinstes
  <2>4. n \in Nat /\ n \in 0..M
    BY <2>2
  <2>5. CASE n = 0
    <3>1. G([m \in 0..0 |-> start], 0)
      <4>1. \A m \in 0..0 : m = 0
        OBVIOUS
      <4> HIDE DEF start, S
      <4> QED BY <4>1
    <3> QED BY <2>3, <2>5, <3>1
  <2>6. CASE n # 0
    <3>1. n - 1 \in 0..M /\ n - 1 \in Nat /\ ~(n <= n - 1)
      BY <1>1, <2>4, <2>6
    <3>2. n - 1 \notin Falsche
      <4> HIDE DEF Falsche
      <4> QED BY <2>3, <3>1
    <3>3. PICK g : G(g, n - 1)
      BY <3>1, <3>2
    <3> DEFINE h == [m \in 0..n |-> IF m = n THEN S(g[n - 1], n) ELSE g[m]]
    <3> HIDE DEF S, start
    <3>4. \A m \in 0..(n - 1) : g[m] = IF m = 0 THEN start ELSE S(g[m - 1], m)
      BY <3>3
    <3>5. ASSUME NEW m \in 0..n PROVE h[m] = IF m = 0 THEN start ELSE S(h[m - 1], m)
      <4>1. CASE m = n
        <5>1. h[m] = S(g[n - 1], n)
          BY <4>1
        <5>2. n - 1 \in 0..n /\ n - 1 # n
          BY <2>4, <2>6
        <5>3. h[n - 1] = g[n - 1]
          BY <5>2
        <5> QED BY <2>6, <4>1, <5>1, <5>3
      <4>2. CASE m # n /\ m # 0
        <5>1. m \in 0..(n - 1) /\ m - 1 \in 0..n /\ m - 1 # n
          BY <2>4, <4>2
        <5>2. h[m] = g[m] /\ h[m - 1] = g[m - 1]
          BY <4>2, <5>1
        <5> QED BY <3>4, <4>2, <5>1, <5>2
      <4>3. CASE m # n /\ m = 0
        <5>1. m \in 0..(n - 1) /\ h[m] = g[m]
          BY <2>4, <4>3
        <5> QED BY <3>4, <4>3, <5>1
      <4> QED BY <4>1, <4>2, <4>3
    <3>6. h = [m \in 0..n |-> h[m]]
      OBVIOUS
    <3>7. G(h, n)
      <4> HIDE DEF h
      <4> QED BY <3>5, <3>6
    <3> QED BY <2>3, <3>7
  <2> QED BY <2>5, <2>6
<1>3. Nachspiel(F, z) = CHOOSE g : G(g, M)
  BY DEF Nachspiel, Einzeln, M
<1>4. G(Nachspiel(F, z), M)
  <2> HIDE DEF G
  <2> QED BY <1>2, <1>3
<1> DEFINE a == Nachspiel(F, z)
<1> HIDE DEF a
<1>5. a = [m \in 0..M |-> IF m = 0 THEN start ELSE S(a[m - 1], m)]
  BY <1>4 DEF a
<1> HIDE DEF S, start
<1>6. \A m \in 0..M : a[m] = IF m = 0 THEN start ELSE S(a[m - 1], m)
  BY <1>5
<1>7. a[0] = start /\ \A n \in 1..M : a[n] = S(a[n - 1], n)
  <2>1. 0 \in 0..M /\ \A n \in 1..M : n \in 0..M /\ n # 0
    BY <1>1
  <2> QED BY <1>6, <2>1
<1> QED BY <1>7 DEF a, S, start, M

\* One save after another is a save.
LEMMA NacheinanderGilt ==
  ASSUME NEW F, NEW r, GuteSpeicherung(F, r), NEW s, GuteSpeicherung(r.lage, s)
  PROVE  GuteSpeicherung(F, Nachgespielt(r, s))
<1> DEFINE t == Nachgespielt(r, s)
<1>1. t.erlaubt = (r.erlaubt /\ s.erlaubt) /\ t.lage = s.lage /\ t.schreibt = r.schreibt \cup s.schreibt
  BY DEF Nachgespielt
<1> HIDE DEF t
<1>2. GuteSpeicherung(F, t)
  BY <1>1 DEF GuteSpeicherung
<1> QED BY <1>2 DEF t

LEMMA NachspielGut ==
  ASSUME NEW F, GuteLage(F), NEW z \in Seq(Eintraege)
  PROVE  \A n \in 0..Len(z) : GuteSpeicherung(F, Nachspiel(F, z)[n])
<1> DEFINE a == Nachspiel(F, z)
           M == Len(z)
           T == {n \in 0..M : GuteSpeicherung(F, a[n])}
<1>1. M \in Nat /\ M \in 0..M /\ \A n \in 1..M : z[n] \in Eintraege
  OBVIOUS
<1>2. a[0] = [erlaubt |-> TRUE, lage |-> F, schreibt |-> {}]
      /\ \A n \in 1..M : a[n] = Nachgespielt(a[n - 1], Einzeln(a[n - 1].lage, z[n]))
  BY NachspielGilt
<1> HIDE DEF a, M
<1>3. 0 \in T
  <2>1. a[0].lage = F
    BY <1>2
  <2> QED BY <1>1, <2>1 DEF GuteSpeicherung
<1>4. ASSUME NEW n \in 1..M, n - 1 \in T PROVE n \in T
  <2>1. GuteSpeicherung(F, a[n - 1]) /\ n \in 0..M
    BY <1>1, <1>4
  <2>2. GuteSpeicherung(a[n - 1].lage, Einzeln(a[n - 1].lage, z[n]))
    BY <1>1, <2>1, EinzelnGilt DEF GuteSpeicherung
  <2>3. GuteSpeicherung(F, a[n])
    BY <1>2, <2>1, <2>2, NacheinanderGilt
  <2> QED BY <2>1, <2>3
<1> HIDE DEF T
<1>5. \A n \in 0..M : n \in T
  BY <1>1, <1>3, <1>4, Induktion
<1> QED BY <1>5 DEF T, a, M

LEMMA ZurueckgenommenGilt ==
  ASSUME NEW F, GuteLage(F), NEW z \in Seq(Eintraege)
  PROVE  GuteSpeicherung(F, Zurueckgenommen(F, z))
<1>1. Len(z) \in 0..Len(z)
  OBVIOUS
<1> QED BY <1>1, NachspielGut DEF Zurueckgenommen

-----------------------------------------------------------------------------
(* The drawn season: nothing decided, nobody placed. *)

\* Where no group fixture has a result, every one of them can still be called off, and a table
\* without fixtures places nobody.
LEMMA NiemandPlatziert ==
  ASSUME NEW F, GuteLage(F), \A p \in Paarungen : F.gruppe[p] \in {"offen", "abgesagt"},
         NEW g \in DOMAIN Gruppen, NEW platz \in DOMAIN Abschluss(F, g)
  PROVE  Abschluss(F, g)[platz] = Leer
<1> DEFINE e == [p \in Begegnungen[g] |-> F.gruppe[p]]
           f == [p \in Begegnungen[g] |-> "abgesagt"]
           ab == [p \in OffenePaarungen(e, g) |-> "abgesagt"]
<1>1. \A p \in Begegnungen[g] : p \in Paarungen /\ p \subseteq Gruppen[g]
  BY Begegnung
<1>2. \A p \in Begegnungen[g] : e[p] \in {"offen", "abgesagt"}
  BY <1>1
<1>3. e \in Ergebnisse(g)
  <2>1. e \in [Begegnungen[g] -> {"offen", "abgesagt", "remis"} \cup Gruppen[g]]
    BY <1>2
  <2> HIDE DEF e
  <2> QED BY <1>2, <2>1 DEF Ergebnisse
<1>4. Abschluss(F, g) = [x \in 1..Cardinality(Platzierbar(e, g)) |-> Platzierter(e, g, x)]
  <2>1. Abschluss(F, g) = Entschieden[g][e]
    BY DEF Abschluss
  <2> HIDE DEF e
  <2> QED BY <1>3, <2>1 DEF Entschieden
<1>5. Abschluss(F, g)[platz] = Platzierter(e, g, platz)
  <2> HIDE DEF e
  <2> QED BY <1>4
<1> HIDE DEF e
<1>6. f \in Endungen(e, g)
  <2>1. ab \in [OffenePaarungen(e, g) -> Gruppen[g] \cup {"remis", "abgesagt"}]
        /\ \A p \in OffenePaarungen(e, g) : ab[p] \in p \cup {"remis", "abgesagt"}
    OBVIOUS
  <2>2. f = [p \in Begegnungen[g] |-> IF p \in OffenePaarungen(e, g) THEN ab[p] ELSE e[p]]
    BY <1>2 DEF OffenePaarungen
  <2> HIDE DEF f, ab
  <2> QED BY <2>1, <2>2 DEF Endungen
<1>7. Platzierbar(f, g) = {}
  BY DEF Platzierbar
<1> HIDE DEF f
<1>8. {t \in Gruppen[g] : \A h \in Endungen(e, g) : StehtAuf(e, h, g, platz, t)} = {}
  BY <1>6, <1>7 DEF StehtAuf
<1> QED BY <1>5, <1>8 DEF Platzierter, Einziger

\* A season as the draw leaves it.
Gezogen(F) ==
  /\ F = [gruppe |-> F.gruppe, ko |-> F.ko]
  /\ F.gruppe \in [Paarungen -> {"offen", "abgesagt"}]
  /\ F.ko = [k \in Nrn |-> [seiten |-> [i \in Seiten |-> Leer], quellen |-> Verdrahtung[k], stand |-> "offen"]]

LEMMA GezogenGut ==
  ASSUME NEW F, Gezogen(F)
  PROVE  GuteLage(F)
<1> DEFINE d(k) == [seiten |-> [i \in Seiten |-> Leer], quellen |-> Verdrahtung[k], stand |-> "offen"]
<1>1. \A k \in Nrn : F.ko[k] = d(k)
  BY DEF Gezogen
<1>2. ASSUME NEW k \in Nrn PROVE GutesSpiel(k, d(k))
  <2>1. Verdrahtung[k] \in [Seiten -> Quellform]
    BY VerdrahtungAssumption DEF Quellform
  <2>2. d(k) \in Spiele
    BY <2>1 DEF Spiele, Staende
  <2>3. \A i \in Seiten : Verdrahtung[k][i] \in Quellenwahl(k)
    BY DEF Quellenwahl
  <2>4. \A i \in Seiten :
          /\ Verdrahtung[k][i] \in Spielquellen => Runde[Verdrahtung[k][i].nr] < Runde[k]
          /\ Verdrahtung[k][i] \in Platzquellen => \A l \in Nrn : Runde[k] <= Runde[l]
    BY VerdrahtungAssumption
  <2>5. ~HatErgebnis("offen")
    BY DEF HatErgebnis
  <2> QED BY <2>2, <2>3, <2>4, <2>5 DEF GutesSpiel
<1>3. \A k \in Nrn : GutesSpiel(k, F.ko[k])
  BY <1>1, <1>2
<1>4. F.ko \in [Nrn -> Spiele]
  <2>1. \A k \in Nrn : F.ko[k] \in Spiele
    BY <1>3 DEF GutesSpiel
  <2> QED BY <2>1 DEF Gezogen
<1>5. \A p \in Paarungen : GutesErgebnis(p, F.gruppe[p])
  BY DEF Gezogen, GutesErgebnis
<1>6. F.gruppe \in [Paarungen -> Staende]
  BY DEF Gezogen, Staende
<1>7. F \in [gruppe : [Paarungen -> Staende], ko : [Nrn -> Spiele]]
  BY <1>4, <1>6 DEF Gezogen
<1> QED BY <1>3, <1>5, <1>7 DEF GuteLage

LEMMA GezogenSauber ==
  ASSUME NEW F, Gezogen(F)
  PROVE  Sauber(F)
<1> DEFINE a == Aufgeloest(F)
           start == [lage |-> F, bewegt |-> {}]
           g == Geteilt(F.ko)
           T == {n \in 0..N : a[n] = start}
<1>1. GuteLage(F) /\ N \in Nat
  BY GezogenGut, NEndlich
<1>2. \A k \in Nrn : /\ F.ko[k].seiten = [i \in Seiten |-> Leer]
                     /\ F.ko[k].quellen = Verdrahtung[k] /\ F.ko[k].stand = "offen"
  BY DEF Gezogen
<1>3. ASSUME NEW k \in Nrn, NEW i \in Seiten, NEW q, q = F.ko[k].quellen[i]
      PROVE  Besetzung(F, g, {}, q, Leer) = Leer
  <2>1. q \in Quellform
    BY <1>1, <1>3 DEF GuteLage, Spiele
  <2>2. CASE ~Gepflegt(F, g, q)
    BY <2>2 DEF Besetzung
  <2>3. CASE Gepflegt(F, g, q) /\ q \in Platzquellen
    <3>1. q.art = "gruppe" /\ q.gruppe \in DOMAIN Gruppen /\ q.platz \in DOMAIN Abschluss(F, q.gruppe)
      BY <2>3, Quellenarten DEF Gepflegt
    <3>2. \A p \in Paarungen : F.gruppe[p] \in {"offen", "abgesagt"}
      BY DEF Gezogen
    <3>3. Abschluss(F, q.gruppe)[q.platz] = Leer
      BY <1>1, <3>1, <3>2, NiemandPlatziert
    <3> QED BY <2>3, <3>1, <3>3 DEF Besetzung
  <2>4. CASE Gepflegt(F, g, q) /\ q \in Spielquellen
    <3>1. q.art # "gruppe" /\ q.nr \in Nrn
      BY <2>4, Quellenarten
    <3>2. F.ko[q.nr].stand \notin Teams
      BY <1>2, <3>1, NamenAssumption
    <3> QED BY <2>4, <3>1, <3>2 DEF Besetzung, Ausgang
  <2> QED BY <2>1, <2>2, <2>3, <2>4 DEF Gepflegt, Quellform
<1> HIDE DEF g
<1>4. 0 \in T
  BY <1>1, AufgeloestGilt
<1>5. ASSUME NEW n \in 1..N, n - 1 \in T PROVE n \in T
  <2>1. n \in 0..N /\ Reihe[n] \in Nrn
    BY <1>1, ReiheGilt
  <2>2. a[n - 1] = start
    <3> HIDE DEF a, start
    <3> QED BY <1>5
  <2>3. a[n] = Schritt(g, a[n - 1], n)
    BY AufgeloestGilt DEF g
  <2>4. NeueSeiten(start, g, Reihe[n]) = F.ko[Reihe[n]].seiten
    <3>1. NeueSeiten(start, g, Reihe[n]) = [i \in Seiten |-> Besetzung(F, g, {}, F.ko[Reihe[n]].quellen[i], F.ko[Reihe[n]].seiten[i])]
      BY DEF NeueSeiten
    <3>2. \A i \in Seiten : F.ko[Reihe[n]].seiten[i] = Leer
      BY <1>2, <2>1
    <3>3. \A i \in Seiten : Besetzung(F, g, {}, F.ko[Reihe[n]].quellen[i], F.ko[Reihe[n]].seiten[i]) = Leer
      BY <1>3, <2>1, <3>2
    <3> QED BY <1>2, <2>1, <3>1, <3>3
  <2> HIDE DEF a
  <2>5. a[n] = start
    BY <2>2, <2>3, <2>4 DEF Schritt, Versetzt
  <2> QED BY <2>1, <2>5
<1> HIDE DEF T
<1>6. \A n \in 0..N : n \in T
  BY <1>1, <1>4, <1>5, Induktion
<1>7. a[N] = start
  BY <1>1, <1>6 DEF T
<1>8. Aufloesung(F).bewegt = {}
  <2>1. Aufloesung(F) = a[N]
    BY DEF Aufloesung, N
  <2> HIDE DEF a
  <2> QED BY <1>7, <2>1
<1>9. KeinDoppel(F.ko)
  <2>1. \A x \in Nrn \X Seiten : F.ko[x[1]].seiten[x[2]] = Leer
    BY <1>2
  <2> QED BY <2>1, NamenAssumption DEF KeinDoppel
<1>10. QuellenEinfach(F.ko)
  <2>1. \A x \in Nrn \X Seiten : F.ko[x[1]].quellen[x[2]] = Verdrahtung[x[1]][x[2]]
    BY <1>2
  <2>2. ASSUME NEW x \in Nrn \X Seiten, NEW y \in Nrn \X Seiten, x # y, F.ko[x[1]].quellen[x[2]] # Ohne
        PROVE  F.ko[x[1]].quellen[x[2]] # F.ko[y[1]].quellen[y[2]]
    <3>1. Verdrahtung[x[1]][x[2]] # Ohne => Verdrahtung[x[1]][x[2]] # Verdrahtung[y[1]][y[2]]
      BY <2>2, VerdrahtungAssumption
    <3> QED BY <2>1, <2>2, <3>1
  <2> QED BY <2>2 DEF QuellenEinfach
<1> QED BY <1>8, <1>9, <1>10, DoppelteLeer DEF Sauber

-----------------------------------------------------------------------------
(* The invariant. *)

\* The season L once a transaction has written the documents it holds.
Danach(L, op) ==
  [gruppe |-> [p \in Paarungen |-> IF p \in DOMAIN op.gruppe THEN op.gruppe[p] ELSE L.gruppe[p]],
   ko |-> [k \in Nrn |-> IF k \in DOMAIN op.ko THEN op.ko[k] ELSE L.ko[k]]]

\* The documents a transaction holds, and the report of its save.
GuterOp(op) ==
  /\ \A p \in DOMAIN op.gruppe : p \in Paarungen /\ GutesErgebnis(p, op.gruppe[p])
  /\ \A k \in DOMAIN op.ko : k \in Nrn /\ GutesSpiel(k, op.ko[k])
  /\ op.beleg.eintraege \in Seq(Eintraege)

TxGut(t) == t = Frei \/ (t.phase = "bereit" /\ GuterOp(t.op))

\* However requests overlap, each document is of one write.
DokumenteInv ==
  /\ betrieb \in Betriebe
  /\ GuteLage(Lage)
  /\ beleg = [a \in Akteure |-> beleg[a]]
  /\ \A a \in Akteure : beleg[a].eintraege \in Seq(Eintraege)
  /\ tx = [a \in Akteure |-> tx[a]]
  /\ \A a \in Akteure : TxGut(tx[a])

\* Where they do not, the one under way leaves a season as clean as it found.
EinzelnInv ==
  ~betrieb.zugleich =>
    /\ Sauber(Lage)
    /\ \A a \in Akteure : tx[a] # Frei =>
         /\ Sauber(Danach(Lage, tx[a].op))
         /\ \A b \in Akteure \ {a} : tx[b] = Frei

Inv == DokumenteInv /\ EinzelnInv

LEMMA DanachGut ==
  ASSUME NEW L, GuteLage(L), NEW op, GuterOp(op)
  PROVE  GuteLage(Danach(L, op))
<1> DEFINE H == Danach(L, op)
<1>1. \A p \in Paarungen : H.gruppe[p] = IF p \in DOMAIN op.gruppe THEN op.gruppe[p] ELSE L.gruppe[p]
  BY DEF Danach
<1>2. \A k \in Nrn : H.ko[k] = IF k \in DOMAIN op.ko THEN op.ko[k] ELSE L.ko[k]
  BY DEF Danach
<1>3. /\ H = [gruppe |-> H.gruppe, ko |-> H.ko]
      /\ H.gruppe = [p \in Paarungen |-> H.gruppe[p]] /\ H.ko = [k \in Nrn |-> H.ko[k]]
  BY DEF Danach
<1> HIDE DEF H
<1>4. \A p \in Paarungen : GutesErgebnis(p, H.gruppe[p]) /\ H.gruppe[p] \in Staende
  <2>1. \A p \in Paarungen : GutesErgebnis(p, H.gruppe[p])
    BY <1>1 DEF GuteLage, GuterOp
  <2>2. \A p \in Paarungen : p \subseteq Teams
    BY DEF Paarungen, Begegnungen, Teams
  <2> QED BY <2>1, <2>2 DEF GutesErgebnis, Staende
<1>5. \A k \in Nrn : GutesSpiel(k, H.ko[k]) /\ H.ko[k] \in Spiele
  <2>1. \A k \in Nrn : GutesSpiel(k, H.ko[k])
    BY <1>2 DEF GuteLage, GuterOp
  <2> QED BY <2>1 DEF GutesSpiel
<1>6. H.gruppe \in [Paarungen -> Staende] /\ H.ko \in [Nrn -> Spiele]
  BY <1>3, <1>4, <1>5
<1>7. H \in [gruppe : [Paarungen -> Staende], ko : [Nrn -> Spiele]]
  BY <1>3, <1>6
<1> QED BY <1>4, <1>5, <1>7 DEF GuteLage, H

\* A transaction that begins would leave the season it judged.
LEMMA BeginntSetzt ==
  ASSUME Inv, NEW a \in Akteure, NEW art, NEW r, GuteSpeicherung(Lage, r), Beginnt(a, art, r),
         NEW t, t = tx'[a]
  PROVE  /\ r.erlaubt /\ tx[a] = Frei
         /\ betrieb.zugleich \/ \A b \in Akteure \ {a} : tx[b] = Frei /\ beleg[b] = KeinBeleg
         /\ Lage' = Lage /\ beleg' = beleg /\ betrieb' = betrieb
         /\ tx' = [b \in Akteure |-> tx'[b]] /\ \A b \in Akteure \ {a} : tx'[b] = tx[b]
         /\ t.phase = "bereit"
         /\ \A p \in DOMAIN t.op.gruppe : p \in Paarungen /\ t.op.gruppe[p] = r.lage.gruppe[p]
         /\ \A k \in DOMAIN t.op.ko : k \in Nrn /\ t.op.ko[k] = r.lage.ko[k]
         /\ Danach(Lage, t.op) = r.lage
         /\ t.op.beleg.eintraege = <<>> \/ (art = "speichern" /\ t.op.beleg.eintraege = r.bericht)
<1> DEFINE op == [art |-> art,
                  gruppe |-> [p \in {q \in Paarungen : <<"gruppe", q>> \in r.schreibt} |-> r.lage.gruppe[p]],
                  ko |-> [k \in {l \in Nrn : <<"ko", l>> \in r.schreibt} |-> r.lage.ko[k]],
                  beleg |-> IF betrieb.ruecknahme /\ art = "speichern"
                            THEN [eintraege |-> r.bericht, vorher |-> Lage, nachher |-> r.lage]
                            ELSE KeinBeleg]
<1>1. /\ r.erlaubt /\ tx[a] = Frei
      /\ betrieb.zugleich \/ \A b \in Akteure \ {a} : tx[b] = Frei /\ beleg[b] = KeinBeleg
      /\ tx' = [tx EXCEPT ![a] = Bereit(op, r.schreibt)]
      /\ gruppe' = gruppe /\ ko' = ko /\ beleg' = beleg /\ betrieb' = betrieb
  BY DEF Beginnt, daten
<1>2. op.beleg.eintraege = <<>> \/ (art = "speichern" /\ op.beleg.eintraege = r.bericht)
  BY DEF KeinBeleg
<1>3. GuteLage(r.lage)
  BY DEF GuteSpeicherung, Inv, DokumenteInv
<1>4. /\ \A p : p \in DOMAIN op.gruppe <=> p \in Paarungen /\ <<"gruppe", p>> \in r.schreibt
      /\ \A p \in DOMAIN op.gruppe : op.gruppe[p] = r.lage.gruppe[p]
      /\ \A k : k \in DOMAIN op.ko <=> k \in Nrn /\ <<"ko", k>> \in r.schreibt
      /\ \A k \in DOMAIN op.ko : op.ko[k] = r.lage.ko[k]
  OBVIOUS
<1> HIDE DEF op
<1>5. Danach(Lage, op) = r.lage
  <2>1. \A p \in Paarungen : (IF p \in DOMAIN op.gruppe THEN op.gruppe[p] ELSE Lage.gruppe[p]) = r.lage.gruppe[p]
    BY <1>4 DEF GuteSpeicherung
  <2>2. \A k \in Nrn : (IF k \in DOMAIN op.ko THEN op.ko[k] ELSE Lage.ko[k]) = r.lage.ko[k]
    BY <1>4 DEF GuteSpeicherung
  <2>3. /\ r.lage = [gruppe |-> r.lage.gruppe, ko |-> r.lage.ko]
        /\ r.lage.gruppe = [p \in Paarungen |-> r.lage.gruppe[p]]
        /\ r.lage.ko = [k \in Nrn |-> r.lage.ko[k]]
    BY <1>3 DEF GuteLage
  <2>4. Danach(Lage, op).gruppe = r.lage.gruppe /\ Danach(Lage, op).ko = r.lage.ko
    BY <2>1, <2>2, <2>3 DEF Danach
  <2>5. Danach(Lage, op) = [gruppe |-> Danach(Lage, op).gruppe, ko |-> Danach(Lage, op).ko]
    BY DEF Danach
  <2> QED BY <2>3, <2>4, <2>5
<1>6. Lage' = Lage
  BY <1>1 DEF Lage
<1>7. /\ tx' = [b \in Akteure |-> tx'[b]] /\ tx'[a] = Bereit(op, r.schreibt)
      /\ \A b \in Akteure \ {a} : tx'[b] = tx[b]
  <2>1. tx = [b \in Akteure |-> tx[b]]
    BY DEF Inv, DokumenteInv
  <2> QED BY <1>1, <2>1
<1>8. t.phase = "bereit" /\ t.op = op
  BY <1>7 DEF Bereit
<1>9. /\ \A p \in DOMAIN op.gruppe : p \in Paarungen /\ op.gruppe[p] = r.lage.gruppe[p]
      /\ \A k \in DOMAIN op.ko : k \in Nrn /\ op.ko[k] = r.lage.ko[k]
  BY <1>4
<1>10. t.op.beleg.eintraege = <<>> \/ (art = "speichern" /\ t.op.beleg.eintraege = r.bericht)
  BY <1>2, <1>8
<1>11. Danach(Lage, t.op) = r.lage
  BY <1>5, <1>8
<1>12. betrieb' = betrieb /\ beleg' = beleg
  BY <1>1
<1>13. r.erlaubt /\ tx[a] = Frei /\ (betrieb.zugleich \/ \A b \in Akteure \ {a} : tx[b] = Frei /\ beleg[b] = KeinBeleg)
  BY <1>1
<1> QED BY <1>6, <1>7, <1>8, <1>9, <1>10, <1>11, <1>12, <1>13

\* It holds good documents.
LEMMA BeginntGilt ==
  ASSUME Inv, NEW a \in Akteure, NEW art, NEW r, GuteSpeicherung(Lage, r),
         art = "speichern" => r.bericht \in Seq(Eintraege), Beginnt(a, art, r)
  PROVE  Inv'
<1> DEFINE t == tx'[a]
<1>1. /\ r.erlaubt /\ tx[a] = Frei
      /\ betrieb.zugleich \/ \A b \in Akteure \ {a} : tx[b] = Frei /\ beleg[b] = KeinBeleg
      /\ Lage' = Lage /\ beleg' = beleg /\ betrieb' = betrieb
      /\ tx' = [b \in Akteure |-> tx'[b]] /\ \A b \in Akteure \ {a} : tx'[b] = tx[b]
      /\ t.phase = "bereit"
      /\ \A p \in DOMAIN t.op.gruppe : p \in Paarungen /\ t.op.gruppe[p] = r.lage.gruppe[p]
      /\ \A k \in DOMAIN t.op.ko : k \in Nrn /\ t.op.ko[k] = r.lage.ko[k]
      /\ Danach(Lage, t.op) = r.lage
      /\ t.op.beleg.eintraege = <<>> \/ (art = "speichern" /\ t.op.beleg.eintraege = r.bericht)
  BY BeginntSetzt
<1> HIDE DEF t
<1>2. GuteLage(r.lage)
  BY DEF GuteSpeicherung, Inv, DokumenteInv
<1>3. GuterOp(t.op)
  <2>1. t.op.beleg.eintraege \in Seq(Eintraege)
    <3>1. <<>> \in Seq(Eintraege)
      OBVIOUS
    <3>2. art = "speichern" => r.bericht \in Seq(Eintraege)
      OBVIOUS
    <3> QED BY <1>1, <3>1, <3>2
  <2>2. \A p \in DOMAIN t.op.gruppe : p \in Paarungen /\ GutesErgebnis(p, t.op.gruppe[p])
    BY <1>1, <1>2 DEF GuteLage
  <2>3. \A k \in DOMAIN t.op.ko : k \in Nrn /\ GutesSpiel(k, t.op.ko[k])
    BY <1>1, <1>2 DEF GuteLage
  <2> QED BY <2>1, <2>2, <2>3 DEF GuterOp
<1>4. DokumenteInv'
  <2>1. \A b \in Akteure : TxGut(tx'[b])
    BY <1>1, <1>3 DEF TxGut, Inv, DokumenteInv, t
  <2> QED BY <1>1, <2>1 DEF Inv, DokumenteInv
<1>5. EinzelnInv'
  <2>1. SUFFICES ASSUME ~betrieb.zugleich
                 PROVE  /\ Sauber(Lage)
                        /\ \A b \in Akteure : tx'[b] # Frei =>
                             /\ Sauber(Danach(Lage, tx'[b].op))
                             /\ \A c \in Akteure \ {b} : tx'[c] = Frei
    BY <1>1 DEF EinzelnInv
  <2>2. Sauber(Lage)
    BY <2>1 DEF Inv, EinzelnInv
  <2>3. Sauber(r.lage)
    BY <1>1, <2>2 DEF GuteSpeicherung
  <2>4. \A b \in Akteure \ {a} : tx'[b] = Frei
    BY <1>1, <2>1
  <2>5. Sauber(Danach(Lage, tx'[a].op))
    BY <1>1, <2>3 DEF t
  <2> QED BY <2>2, <2>4, <2>5
<1> QED BY <1>4, <1>5 DEF Inv

\* Every request the model enumerates is one a client can send.
LEMMA AnfragenGut ==
  ASSUME DokumenteInv, NEW k \in Nrn, NEW e \in Anfragen(k)
  PROVE  GuteAnfrage(k, e)
<1> DEFINE alt == ko[k]
<1>1. GutesSpiel(k, alt) /\ alt \in Spiele
  BY DEF DokumenteInv, GuteLage, Lage, GutesSpiel
<1> HIDE DEF alt
<1>2. /\ alt = [seiten |-> alt.seiten, quellen |-> alt.quellen, stand |-> alt.stand]
      /\ alt.seiten \in [Seiten -> Teams \cup {Leer}] /\ alt.quellen \in [Seiten -> Quellform]
      /\ \A i \in Seiten : alt.quellen[i] \in Quellenwahl(k)
  BY <1>1 DEF GutesSpiel, Spiele
<1>3. betrieb.ereignisse \subseteq {"abgesagt", "remis"} /\ UNION betrieb.paarungen \subseteq Teams
  <2>1. betrieb \in Betriebe
    BY DEF DokumenteInv
  <2>2. betrieb.ereignisse \subseteq {"abgesagt", "remis"} /\ betrieb.paarungen \subseteq Paarungen
    BY <2>1, BoundsAssumption
  <2> QED BY <2>2 DEF Paarungen, Begegnungen, Teams
<1>4. ASSUME NEW s \in [Seiten -> Teams \cup {Leer}], NEW st \in Moegliche(s)
      PROVE  /\ st \in Staende
             /\ HatErgebnis(st) => st = "remis" \/ \E i \in Seiten : st = s[i]
  <2>1. CASE st \in {"offen", "abgesagt", "remis"}
    BY <2>1 DEF Staende, HatErgebnis
  <2>2. CASE st \in {s[i] : i \in Seiten} \ {Leer}
    BY <2>2 DEF Staende
  <2> QED BY <1>3, <2>1, <2>2 DEF Moegliche
<1>5. ASSUME NEW s \in [Seiten -> Teams \cup {Leer}], NEW st \in Moegliche(s),
             NEW q \in [Seiten -> Quellform], \A i \in Seiten : q[i] \in Quellenwahl(k),
             e = [seiten |-> s, quellen |-> q, stand |-> st]
      PROVE  GuteAnfrage(k, e)
  <2>1. e.seiten = s /\ e.quellen = q /\ e.stand = st
    BY <1>5
  <2>2. e \in Spiele
    BY <1>4, <1>5 DEF Spiele
  <2> QED BY <1>4, <1>5, <2>1, <2>2 DEF GuteAnfrage
<1>6. CASE \E st \in Moegliche(alt.seiten) : e = [alt EXCEPT !.stand = st]
  <2>1. PICK st \in Moegliche(alt.seiten) : e = [alt EXCEPT !.stand = st]
    BY <1>6
  <2>2. e = [seiten |-> alt.seiten, quellen |-> alt.quellen, stand |-> st]
    BY <1>2, <2>1
  <2> QED BY <1>2, <1>5, <2>1, <2>2
<1>7. CASE \E i \in Seiten : \E t \in (UNION betrieb.paarungen) \cup {Leer} : \E q \in Quellenwahl(k) :
             \E st \in Moegliche([alt.seiten EXCEPT ![i] = t]) :
               e = [seiten |-> [alt.seiten EXCEPT ![i] = t], quellen |-> [alt.quellen EXCEPT ![i] = q], stand |-> st]
  <2>1. PICK i \in Seiten : \E t \in (UNION betrieb.paarungen) \cup {Leer} : \E q \in Quellenwahl(k) :
             \E st \in Moegliche([alt.seiten EXCEPT ![i] = t]) :
               e = [seiten |-> [alt.seiten EXCEPT ![i] = t], quellen |-> [alt.quellen EXCEPT ![i] = q], stand |-> st]
    BY <1>7
  <2>2. PICK t \in (UNION betrieb.paarungen) \cup {Leer}, q \in Quellenwahl(k) :
             \E st \in Moegliche([alt.seiten EXCEPT ![i] = t]) :
               e = [seiten |-> [alt.seiten EXCEPT ![i] = t], quellen |-> [alt.quellen EXCEPT ![i] = q], stand |-> st]
    BY <2>1
  <2>3. [alt.seiten EXCEPT ![i] = t] \in [Seiten -> Teams \cup {Leer}]
    <3>1. t \in Teams \cup {Leer}
      BY <1>3
    <3> QED BY <1>2, <3>1
  <2>4. /\ [alt.quellen EXCEPT ![i] = q] \in [Seiten -> Quellform]
        /\ \A j \in Seiten : [alt.quellen EXCEPT ![i] = q][j] \in Quellenwahl(k)
    BY <1>2, Quellenarten
  <2> QED BY <1>5, <2>2, <2>3, <2>4
<1>8. \/ \E st \in Moegliche(alt.seiten) : e = [alt EXCEPT !.stand = st]
      \/ \E i \in Seiten : \E t \in (UNION betrieb.paarungen) \cup {Leer} : \E q \in Quellenwahl(k) :
           \E st \in Moegliche([alt.seiten EXCEPT ![i] = t]) :
             e = [seiten |-> [alt.seiten EXCEPT ![i] = t], quellen |-> [alt.quellen EXCEPT ![i] = q], stand |-> st]
  <2> DEFINE Ergebnis == {[alt EXCEPT !.stand = st] : st \in Moegliche(alt.seiten)}
             Hand(i, t, q) == {[seiten |-> [alt.seiten EXCEPT ![i] = t],
                                quellen |-> [alt.quellen EXCEPT ![i] = q], stand |-> st] :
                                 st \in Moegliche([alt.seiten EXCEPT ![i] = t])}
             Handgriffe == UNION {Hand(i, t, q) :
                             i \in Seiten, t \in (UNION betrieb.paarungen) \cup {Leer}, q \in Quellenwahl(k)}
  <2>1. Anfragen(k) = Ergebnis \cup (IF k \notin betrieb.handgriffe THEN {} ELSE Handgriffe)
    BY DEF Anfragen, alt
  <2>2. e \in Ergebnis \/ e \in Handgriffe
    <3> HIDE DEF Ergebnis, Handgriffe
    <3> QED BY <2>1
  <2>3. e \in Ergebnis => \E st \in Moegliche(alt.seiten) : e = [alt EXCEPT !.stand = st]
    OBVIOUS
  <2>4. ASSUME e \in Handgriffe
        PROVE  \E i \in Seiten : \E t \in (UNION betrieb.paarungen) \cup {Leer} : \E q \in Quellenwahl(k) :
                 \E st \in Moegliche([alt.seiten EXCEPT ![i] = t]) :
                   e = [seiten |-> [alt.seiten EXCEPT ![i] = t], quellen |-> [alt.quellen EXCEPT ![i] = q], stand |-> st]
    <3>1. \E i \in Seiten : \E t \in (UNION betrieb.paarungen) \cup {Leer} : \E q \in Quellenwahl(k) : e \in Hand(i, t, q)
      <4> HIDE DEF Hand
      <4> QED BY <2>4
    <3> QED BY <3>1
  <2> HIDE DEF Ergebnis, Handgriffe
  <2> QED BY <2>2, <2>3, <2>4
<1> QED BY <1>6, <1>7, <1>8

LEMMA InvAnfang ==
  ASSUME Init
  PROVE  Inv
<1>1. Gezogen(Lage)
  <2>1. /\ gruppe = [p \in Paarungen |-> IF p \in betrieb.abgesagt THEN "abgesagt" ELSE "offen"]
        /\ ko = [k \in Nrn |-> [seiten |-> [i \in Seiten |-> Leer], quellen |-> Verdrahtung[k], stand |-> "offen"]]
    BY DEF Init
  <2>2. Lage = [gruppe |-> gruppe, ko |-> ko] /\ Lage.gruppe = gruppe /\ Lage.ko = ko
    BY DEF Lage
  <2>3. gruppe \in [Paarungen -> {"offen", "abgesagt"}]
    BY <2>1
  <2> QED BY <2>1, <2>2, <2>3 DEF Gezogen
<1>2. \A a \in Akteure : beleg[a].eintraege \in Seq(Eintraege) /\ tx[a] = Frei
  <2>1. \A a \in Akteure : beleg[a] = KeinBeleg /\ tx[a] = Frei
    BY DEF Init
  <2>2. KeinBeleg.eintraege = <<>>
    BY DEF KeinBeleg
  <2>3. KeinBeleg.eintraege \in Seq(Eintraege)
    BY <2>2
  <2> QED BY <2>1, <2>3
<1>3. DokumenteInv
  BY <1>1, <1>2, GezogenGut DEF DokumenteInv, TxGut, Init
<1>4. EinzelnInv
  BY <1>1, <1>2, GezogenSauber DEF EinzelnInv
<1> QED BY <1>3, <1>4 DEF Inv

LEMMA InvBeginne ==
  ASSUME Inv, NEW a \in Akteure, Beginne(a)
  PROVE  Inv'
<1>1. DokumenteInv /\ GuteLage(Lage)
  BY DEF Inv, DokumenteInv
<1>2. ASSUME NEW p \in betrieb.paarungen, NEW st \in {"offen"} \cup betrieb.ereignisse \cup p,
             BeginneGruppenspiel(a, p, st)
      PROVE  Inv'
  <2>1. p \in Paarungen /\ GutesErgebnis(p, st)
    BY <1>1, BoundsAssumption DEF DokumenteInv, GutesErgebnis
  <2>2. GuteSpeicherung(Lage, GruppeGespeichert(Lage, p, st))
        /\ GruppeGespeichert(Lage, p, st).bericht \in Seq(Eintraege)
    BY <1>1, <2>1, GruppeGespeichertGilt, BerichtTyp
  <2> QED BY <1>2, <2>2, BeginntGilt DEF BeginneGruppenspiel
<1>3. ASSUME NEW k \in Nrn, NEW e \in Anfragen(k), BeginneKoSpiel(a, k, e)
      PROVE  Inv'
  <2>1. GuteAnfrage(k, e)
    BY <1>1, AnfragenGut
  <2>2. GuteSpeicherung(Lage, KoGespeichert(Lage, k, e)) /\ KoGespeichert(Lage, k, e).bericht \in Seq(Eintraege)
    BY <1>1, <2>1, KoGespeichertGilt, BerichtTyp
  <2> QED BY <1>3, <2>2, BeginntGilt DEF BeginneKoSpiel
<1>4. ASSUME BeginneRuecknahme(a)
      PROVE  Inv'
  <2>1. beleg[a].eintraege \in Seq(Eintraege)
    BY <1>1 DEF DokumenteInv
  <2>2. GuteSpeicherung(Lage, Zurueckgenommen(Lage, beleg[a].eintraege))
    BY <1>1, <2>1, ZurueckgenommenGilt
  <2>3. "zuruecknehmen" # "speichern"
    OBVIOUS
  <2> QED BY <1>4, <2>2, <2>3, BeginntGilt DEF BeginneRuecknahme
<1> QED BY <1>2, <1>3, <1>4 DEF Beginne

LEMMA InvSchreibe ==
  ASSUME Inv, NEW a \in Akteure, Schreibe(a)
  PROVE  Inv'
<1> DEFINE op == tx[a].op
<1>1. DokumenteInv /\ GuteLage(Lage) /\ tx = [b \in Akteure |-> tx[b]]
  BY DEF Inv, DokumenteInv
<1>2. tx[a].phase = "bereit" /\ tx[a] # Frei /\ GuterOp(op)
  BY <1>1 DEF Schreibe, DokumenteInv, TxGut, Frei
<1>3. /\ Lage' = Danach(Lage, op)
      /\ betrieb' = betrieb
      /\ beleg' = [beleg EXCEPT ![a] = op.beleg]
      /\ tx' = [b \in Akteure |-> IF b = a \/ Kollidiert(tx[a], tx[b]) THEN Frei ELSE tx[b]]
  BY <1>1 DEF Schreibe, Festgeschrieben, Lage, Danach
<1> HIDE DEF op
<1>4. GuteLage(Lage')
  BY <1>1, <1>2, <1>3, DanachGut
<1>5. beleg' = [b \in Akteure |-> beleg'[b]] /\ \A b \in Akteure : beleg'[b].eintraege \in Seq(Eintraege)
  BY <1>1, <1>2, <1>3 DEF DokumenteInv, GuterOp
<1>6. tx' = [b \in Akteure |-> tx'[b]] /\ \A b \in Akteure : tx'[b] \in {Frei, tx[b]} /\ tx'[a] = Frei
  BY <1>3
<1>7. DokumenteInv'
  BY <1>1, <1>3, <1>4, <1>5, <1>6 DEF DokumenteInv, TxGut
<1>8. EinzelnInv'
  <2>1. ASSUME ~betrieb.zugleich
        PROVE  Sauber(Lage') /\ \A b \in Akteure : tx'[b] = Frei
    <3>1. Sauber(Danach(Lage, op)) /\ \A b \in Akteure \ {a} : tx[b] = Frei
      BY <1>2, <2>1 DEF Inv, EinzelnInv, op
    <3> QED BY <1>3, <1>6, <3>1
  <2> QED BY <1>3, <2>1 DEF EinzelnInv
<1> QED BY <1>7, <1>8 DEF Inv

LEMMA InvAbbruch ==
  ASSUME Inv, NEW a \in Akteure, Abbruch(a)
  PROVE  Inv'
<1>1. tx' = [tx EXCEPT ![a] = Frei] /\ Lage' = Lage /\ beleg' = beleg /\ betrieb' = betrieb
  BY DEF Abbruch, daten, Lage
<1>2. tx = [b \in Akteure |-> tx[b]]
  BY DEF Inv, DokumenteInv
<1>3. tx' = [b \in Akteure |-> tx'[b]] /\ \A b \in Akteure : tx'[b] = IF b = a THEN Frei ELSE tx[b]
  BY <1>1, <1>2
<1>4. DokumenteInv'
  BY <1>1, <1>3 DEF Inv, DokumenteInv, TxGut
<1>5. EinzelnInv'
  BY <1>1, <1>3 DEF Inv, EinzelnInv
<1> QED BY <1>4, <1>5 DEF Inv

LEMMA InvSchritt ==
  ASSUME Inv, [Next]_vars
  PROVE  Inv'
<1>1. CASE UNCHANGED vars
  BY <1>1 DEF Inv, DokumenteInv, EinzelnInv, vars, daten, Lage
<1>2. CASE Next
  BY <1>2, InvBeginne, InvSchreibe, InvAbbruch DEF Next
<1> QED BY <1>1, <1>2

LEMMA InvGilt == Spec => []Inv
<1>1. Init => Inv
  BY InvAnfang
<1>2. Inv /\ [Next]_vars => Inv'
  BY InvSchritt
<1> QED BY <1>1, <1>2, PTL DEF Spec

-----------------------------------------------------------------------------
(* What the invariant says. *)

\* However requests overlap, results, sides and sources keep their shapes and name only what
\* the season has: no save and no undo writes a side, a source or a result of another kind.
THEOREM Typkorrekt == Spec => []TypeOK
<1>1. Inv => TypeOK
  <2> SUFFICES ASSUME Inv PROVE TypeOK
    OBVIOUS
  <2>1. gruppe \in [Paarungen -> Staende] /\ \A k \in Nrn : GutesSpiel(k, ko[k])
    BY DEF Inv, DokumenteInv, GuteLage, Lage
  <2>2. \A k \in Nrn :
          /\ ko[k].stand \in Staende
          /\ \A i \in Seiten : ko[k].seiten[i] \in Teams \cup {Leer} /\ ko[k].quellen[i] \in Quellenwahl(k)
    BY <2>1 DEF GutesSpiel, Spiele
  <2>3. \A a \in Akteure : tx[a].phase \in {"frei", "bereit"}
    BY DEF Inv, DokumenteInv, TxGut, Frei
  <2> QED BY <2>1, <2>2, <2>3 DEF TypeOK
<1> QED BY <1>1, InvGilt, PTL

\* However saves, releases, resolutions and undos overlap, a result on the bracket was played
\* by the two clubs standing there.
THEOREM ErgebnisseGehoerenDenSeiten == Spec => []ErgebnisGehoertDenSeiten
<1>1. Inv => ErgebnisGehoertDenSeiten
  <2> SUFFICES ASSUME Inv PROVE ErgebnisGehoertDenSeiten
    OBVIOUS
  <2>1. \A k \in Nrn : GutesSpiel(k, ko[k])
    BY DEF Inv, DokumenteInv, GuteLage, Lage
  <2> QED BY <2>1 DEF ErgebnisGehoertDenSeiten, GutesSpiel
<1> QED BY <1>1, InvGilt, PTL

\* Where a season's requests come one after the other, no club stands twice in a round and no
\* placing or outcome is handed on twice: what a payload fields is released elsewhere, what the
\* resolution brings is refused, and a source is taken only where no other slot names it.
THEOREM JederEinmal == Spec => [](~betrieb.zugleich => JederStehtEinmal)
<1>1. Inv => (~betrieb.zugleich => JederStehtEinmal)
  <2> SUFFICES ASSUME Inv, ~betrieb.zugleich PROVE JederStehtEinmal
    OBVIOUS
  <2>1. Doppelte(ko) = {} /\ QuellenEinfach(ko)
    BY DEF Inv, EinzelnInv, Sauber, Lage
  <2> QED BY <2>1 DEF JederStehtEinmal, NiemandSpieltZweimal, QuelleSpeistEinmal, QuellenEinfach
<1> QED BY <1>1, InvGilt, PTL

\* Then too every save and every undo, of however many entries, leaves a bracket a second
\* resolution would not touch.
THEOREM BaumBleibtAufgeloest == Spec => [](~betrieb.zugleich => BaumIstAufgeloest)
<1>1. Inv => (~betrieb.zugleich => BaumIstAufgeloest)
  BY DEF Inv, EinzelnInv, Sauber, BaumIstAufgeloest
<1> QED BY <1>1, InvGilt, PTL

-----------------------------------------------------------------------------
(* The standings: what is decided stays decided. *)

LEMMA ZahlenTyp ==
  ASSUME NEW g \in DOMAIN Gruppen, NEW f, NEW S, NEW t
  PROVE  /\ Siege(f, g, S, t) \in Nat /\ Unentschieden(f, g, S, t) \in Nat
         /\ Niederlagen(f, g, S, t) \in Nat /\ Punkte(f, g, S, t) \in Nat
<1>1. IsFiniteSet(Begegnungen[g])
  <2>1. IsFiniteSet(SUBSET Gruppen[g])
    BY GruppenAssumption, FS_SUBSET
  <2>2. Begegnungen[g] \in SUBSET (SUBSET Gruppen[g])
    BY DEF Begegnungen
  <2> QED BY <2>1, <2>2, FS_Subset
<1>2. \A T : T \subseteq Begegnungen[g] => Cardinality(T) \in Nat
  BY <1>1, FS_Subset, FS_CardinalityType
<1>3. Siege(f, g, S, t) \in Nat
  BY <1>2 DEF Siege
<1>4. Unentschieden(f, g, S, t) \in Nat
  BY <1>2 DEF Unentschieden
<1>5. Niederlagen(f, g, S, t) \in Nat
  BY <1>2 DEF Niederlagen
<1> QED BY <1>3, <1>4, <1>5 DEF Punkte

\* The order of the keys is one: no key stands before itself, and it is transitive.
LEMMA HoeherOrdnet ==
  ASSUME NEW n \in Nat, NEW a \in [1 .. n -> Int], NEW b \in [1 .. n -> Int], NEW c \in [1 .. n -> Int]
  PROVE  ~Hoeher(a, a) /\ (Hoeher(a, b) /\ Hoeher(b, c) => Hoeher(a, c))
<1>1. ~Hoeher(a, a)
  BY DEF Hoeher
<1>2. ASSUME Hoeher(a, b), Hoeher(b, c) PROVE Hoeher(a, c)
  <2>1. PICK i \in 1 .. n : a[i] > b[i] /\ \A j \in 1 .. i - 1 : a[j] = b[j]
    BY <1>2 DEF Hoeher
  <2>2. PICK k \in 1 .. n : b[k] > c[k] /\ \A j \in 1 .. k - 1 : b[j] = c[j]
    BY <1>2 DEF Hoeher
  <2>3. CASE i <= k
    <3>1. a[i] > c[i] /\ \A j \in 1 .. i - 1 : a[j] = c[j]
      BY <2>1, <2>2, <2>3
    <3> QED BY <3>1 DEF Hoeher
  <2>4. CASE k < i
    <3>1. a[k] > c[k] /\ \A j \in 1 .. k - 1 : a[j] = c[j]
      BY <2>1, <2>2, <2>4
    <3> QED BY <3>1 DEF Hoeher
  <2> QED BY <2>3, <2>4
<1> QED BY <1>1, <1>2

\* Every club's key has five entries, whichever criterion leads.
LEMMA RangTyp ==
  ASSUME NEW g \in DOMAIN Gruppen, NEW f, NEW band, NEW t
  PROVE  Rang(f, g, band, t) \in [1 .. 5 -> Int]
<1> DEFINE Zahlen(n) == {s \in Seq(Int) : Len(s) = n}
<1>1. \A n, m \in 1 .. 5 : \A s \in Zahlen(n), r \in Zahlen(m) : s \o r \in Zahlen(n + m)
  <2> TAKE n \in 1 .. 5, m \in 1 .. 5
  <2> TAKE s \in Zahlen(n), r \in Zahlen(m)
  <2>1. s \in Seq(Int) /\ r \in Seq(Int) /\ Len(s) = n /\ Len(r) = m
    OBVIOUS
  <2>2. s \o r \in Seq(Int) /\ Len(s \o r) = Len(s) + Len(r)
    BY <2>1, ConcatProperties
  <2> QED BY <2>1, <2>2
<1>2. \A x \in Int : <<x>> \in Zahlen(1)
  OBVIOUS
<1>3. \A x, y \in Int : <<x, y>> \in Zahlen(2)
  OBVIOUS
<1>4. <<0, 0, 0>> \in Zahlen(3)
  OBVIOUS
<1>5. \A s \in Zahlen(5) : s \in [1 .. 5 -> Int]
  <2> TAKE s \in Zahlen(5)
  <2>1. s \in Seq(Int) /\ Len(s) = 5
    OBVIOUS
  <2>2. s \in [1 .. Len(s) -> Int]
    BY <2>1, LenProperties
  <2> QED BY <2>1, <2>2
<1> HIDE DEF Zahlen
<1> DEFINE tore(S) == Torschluessel(f, g, S, t)
<1>6. \A S : tore(S) \in Zahlen(2)
  <2> TAKE S
  <2>1. Siege(f, g, S, t) - Niederlagen(f, g, S, t) \in Int /\ Siege(f, g, S, t) \in Int
    BY ZahlenTyp
  <2> QED BY <1>3, <2>1 DEF Torschluessel
<1> HIDE DEF tore
<1>7. \A S : Vergleich(f, g, S, t) \in Zahlen(3)
  <2> TAKE S
  <2>1. <<Punkte(f, g, S, t)>> \in Zahlen(1)
    BY <1>2, ZahlenTyp
  <2>2. <<Punkte(f, g, S, t)>> \o tore(S) \in Zahlen(1 + 2)
    BY <1>1, <1>6, <2>1
  <2> QED BY <2>2 DEF tore, Vergleich
<1>8. \A s \in Zahlen(3), r \in Zahlen(2) : s \o r \in Zahlen(5) /\ r \o s \in Zahlen(5)
  <2> TAKE s \in Zahlen(3), r \in Zahlen(2)
  <2>1. s \o r \in Zahlen(3 + 2) /\ r \o s \in Zahlen(2 + 3)
    BY <1>1
  <2> QED BY <2>1
<1> DEFINE gleichauf == {v \in band : Torschluessel(f, g, Gruppen[g], v) = tore(Gruppen[g])}
<1>9. Rang(f, g, band, t) =
        IF tiebreak_order = "direkter_vergleich" /\ AlleTrafenSich(f, g, band)
        THEN Vergleich(f, g, band, t) \o tore(Gruppen[g])
        ELSE tore(Gruppen[g])
               \o (IF AlleTrafenSich(f, g, gleichauf) THEN Vergleich(f, g, gleichauf, t) ELSE <<0, 0, 0>>)
  BY DEF Rang, tore
<1> HIDE DEF gleichauf
<1>10. Rang(f, g, band, t) \in Zahlen(5)
  BY <1>4, <1>6, <1>7, <1>8, <1>9
<1> QED BY <1>5, <1>10

\* Of two clubs at most one stands before the other, and standing before is transitive.
LEMMA VorOrdnet ==
  ASSUME NEW g \in DOMAIN Gruppen, NEW e, NEW f, NEW t \in Gruppen[g], NEW u \in Gruppen[g], NEW v \in Gruppen[g]
  PROVE  /\ ~(Vor(e, f, g, t, u) /\ Vor(e, f, g, u, t))
         /\ Vor(e, f, g, t, u) /\ Vor(e, f, g, u, v) => Vor(e, f, g, t, v)
<1> DEFINE P(x) == Punkte(f, g, Gruppen[g], x)
           band(x) == {w \in Gruppen[g] : P(w) = P(x)}
           R(x, y) == Rang(f, g, band(x), y)
           Fest(x) == \A p \in OffenePaarungen(e, g) : p \cap band(x) = {}
           Knapp(x, y) == P(x) = P(y) /\ Fest(x) /\ Hoeher(R(x, x), R(x, y))
<1>1. \A x : P(x) \in Nat
  BY ZahlenTyp
<1>2. \A x, y \in Gruppen[g] : Vor(e, f, g, x, y) <=> P(x) > P(y) \/ Knapp(x, y)
  BY DEF Vor
<1>3. \A x, y : P(x) = P(y) => band(x) = band(y)
  OBVIOUS
<1>4. \A x, y : P(x) = P(y) => Fest(x) = Fest(y) /\ R(x, x) = R(y, x) /\ R(x, y) = R(y, y)
  BY <1>3
<1>5. \A x, y : R(x, y) \in [1 .. 5 -> Int]
  BY RangTyp
<1>6. \A x, y : Knapp(x, y) => P(x) = P(y) /\ Fest(x) /\ Hoeher(R(x, x), R(x, y))
  OBVIOUS
<1>7. \A x, y : P(x) = P(y) /\ Fest(x) /\ Hoeher(R(x, x), R(x, y)) => Knapp(x, y)
  OBVIOUS
<1>8. \A x, y, z : P(x) = P(y) => R(x, z) = R(y, z)
  BY <1>3
<1> HIDE DEF P, band, R, Fest, Knapp
<1>9. ASSUME NEW x, NEW y, NEW z, Knapp(x, y), Knapp(y, z) PROVE Knapp(x, z) /\ z # x
  <2>1. P(x) = P(y) /\ P(y) = P(z) /\ Fest(x) /\ Hoeher(R(x, x), R(x, y)) /\ Hoeher(R(y, y), R(y, z))
    BY <1>6, <1>9
  <2>2. R(y, y) = R(x, y) /\ R(y, z) = R(x, z)
    BY <1>8, <2>1
  <2> DEFINE a == R(x, x)
             b == R(x, y)
             c == R(x, z)
  <2>3. a \in [1 .. 5 -> Int] /\ b \in [1 .. 5 -> Int] /\ c \in [1 .. 5 -> Int]
    BY <1>5
  <2>4. Hoeher(a, b) /\ Hoeher(b, c) /\ 5 \in Nat
    BY <2>1, <2>2
  <2> HIDE DEF a, b, c
  <2>5. Hoeher(a, c) /\ ~Hoeher(a, a)
    BY <2>3, <2>4, HoeherOrdnet
  <2>6. Hoeher(R(x, x), R(x, z)) /\ ~Hoeher(R(x, x), R(x, x))
    BY <2>5 DEF a, c
  <2> QED BY <1>7, <2>1, <2>6
<1>10. ASSUME Vor(e, f, g, t, u), Vor(e, f, g, u, t) PROVE FALSE
  <2>1. P(t) \in Nat /\ P(u) \in Nat
    BY <1>1
  <2>2. Knapp(t, u) /\ Knapp(u, t)
    BY <1>2, <1>6, <1>10, <2>1
  <2> QED BY <1>9, <2>2
<1>11. ASSUME Vor(e, f, g, t, u), Vor(e, f, g, u, v) PROVE Vor(e, f, g, t, v)
  <2>1. P(t) \in Nat /\ P(u) \in Nat /\ P(v) \in Nat
    BY <1>1
  <2>2. P(t) > P(v) \/ (Knapp(t, u) /\ Knapp(u, v))
    BY <1>2, <1>6, <1>11, <2>1
  <2> QED BY <1>2, <1>9, <2>2
<1> QED BY <1>10, <1>11

\* One club stands on a placing under one ending.
LEMMA EinerStehtAuf ==
  ASSUME NEW g \in DOMAIN Gruppen, NEW e, NEW f, NEW platz,
         NEW t, StehtAuf(e, f, g, platz, t), NEW u, StehtAuf(e, f, g, platz, u)
  PROVE  t = u
<1> DEFINE D(x) == {w \in Platzierbar(f, g) \ {x} : Vor(e, f, g, w, x)}
<1>1. /\ Platzierbar(f, g) \subseteq Gruppen[g] /\ t \in Platzierbar(f, g) /\ u \in Platzierbar(f, g)
      /\ Cardinality(D(t)) = platz - 1 /\ Cardinality(D(u)) = platz - 1
      /\ t # u => Vor(e, f, g, t, u) \/ Vor(e, f, g, u, t)
  BY DEF StehtAuf, Platzierbar
<1>2. ASSUME NEW x \in Platzierbar(f, g), NEW y \in Platzierbar(f, g), x # y, Vor(e, f, g, x, y)
      PROVE  Cardinality(D(x)) # Cardinality(D(y))
  <2>1. IsFiniteSet(Gruppen[g])
    BY GruppenAssumption
  <2>2. D(x) \in SUBSET Gruppen[g] /\ D(y) \in SUBSET Gruppen[g] /\ x \notin D(x)
    BY <1>1
  <2>3. \A w \in D(x) : w \in D(y)
    <3> SUFFICES ASSUME NEW w \in D(x) PROVE w \in D(y)
      OBVIOUS
    <3>1. w \in Platzierbar(f, g) /\ w # x /\ Vor(e, f, g, w, x) /\ w \in Gruppen[g] /\ x \in Gruppen[g] /\ y \in Gruppen[g]
      BY <1>1
    <3>2. w # y
      BY <1>2, <3>1, VorOrdnet
    <3>3. Vor(e, f, g, w, y)
      BY <1>2, <3>1, <3>2, VorOrdnet
    <3> QED BY <3>1, <3>2, <3>3
  <2>4. x \in D(y)
    BY <1>2
  <2> DEFINE A == D(x)
             B == D(y)
  <2>5. IsFiniteSet(A) /\ IsFiniteSet(B) /\ A \cup {x} \subseteq B /\ x \notin A
    <3>1. A \in SUBSET Gruppen[g] /\ B \in SUBSET Gruppen[g] /\ x \notin A
      BY <2>2
    <3>2. A \cup {x} \subseteq B
      BY <2>3, <2>4
    <3> HIDE DEF A, B
    <3> QED BY <2>1, <3>1, <3>2, FS_Subset
  <2> HIDE DEF A, B
  <2>6. Cardinality(A \cup {x}) = Cardinality(A) + 1 /\ Cardinality(A) \in Nat
    BY <2>5, FS_AddElement, FS_CardinalityType
  <2>7. Cardinality(A \cup {x}) <= Cardinality(B) /\ Cardinality(B) \in Nat
    BY <2>5, FS_Subset, FS_CardinalityType
  <2>8. Cardinality(A) # Cardinality(B)
    BY <2>6, <2>7
  <2> QED BY <2>8 DEF A, B
<1> HIDE DEF D
<1> QED BY <1>1, <1>2

\* An ending of a group with one fixture more on record is an ending of the
\* group before it, and there is one.
LEMMA EndungVorher ==
  ASSUME NEW g \in DOMAIN Gruppen, NEW e \in Ergebnisse(g), NEW p \in Begegnungen[g], e[p] = "offen",
         NEW st \in {"abgesagt", "remis"} \cup p
  PROVE  LET d == [e EXCEPT ![p] = st]
         IN  /\ OffenePaarungen(d, g) = OffenePaarungen(e, g) \ {p}
             /\ Endungen(d, g) \subseteq Endungen(e, g)
             /\ Endungen(d, g) # {}
<1> DEFINE d == [e EXCEPT ![p] = st]
           Wahl(offen) == {f \in [offen -> Gruppen[g] \cup {"remis", "abgesagt"}] :
                             \A q \in offen : f[q] \in q \cup {"remis", "abgesagt"}}
           Ende(gr, offen, h) == [q \in Begegnungen[g] |-> IF q \in offen THEN h[q] ELSE gr[q]]
           vor == OffenePaarungen(e, g)
           nach == OffenePaarungen(d, g)
<1>1. \A q \in Begegnungen[g] : q \subseteq Gruppen[g]
  BY DEF Begegnungen
<1>2. st # "offen"
  <2>1. p \subseteq Teams
    BY <1>1 DEF Teams
  <2> QED BY <2>1, NamenAssumption
<1>3. DOMAIN e = Begegnungen[g] /\ d[p] = st /\ \A q \in Begegnungen[g] \ {p} : d[q] = e[q]
  BY DEF Ergebnisse
<1>4. nach = vor \ {p} /\ p \in vor /\ vor \subseteq Begegnungen[g]
  BY <1>2, <1>3 DEF OffenePaarungen
<1>5. Endungen(e, g) = {Ende(e, vor, h) : h \in Wahl(vor)} /\ Endungen(d, g) = {Ende(d, nach, h) : h \in Wahl(nach)}
  BY DEF Endungen
<1> HIDE DEF d, vor, nach
<1>6. ASSUME NEW h \in Wahl(nach) PROVE Ende(d, nach, h) \in Endungen(e, g)
  <2> DEFINE k == [q \in vor |-> IF q = p THEN st ELSE h[q]]
  <2>1. \A q \in vor \ {p} : q \in nach
    BY <1>4
  <2>2. st \in Gruppen[g] \cup {"remis", "abgesagt"} /\ st \in p \cup {"remis", "abgesagt"}
    BY <1>1
  <2>3. k \in Wahl(vor)
    BY <2>1, <2>2
  <2>4. \A q \in Begegnungen[g] : (IF q \in nach THEN h[q] ELSE d[q]) = (IF q \in vor THEN k[q] ELSE e[q])
    BY <1>3, <1>4
  <2>5. Ende(d, nach, h) = Ende(e, vor, k)
    BY <2>4
  <2> HIDE DEF k, Wahl, Ende
  <2> QED BY <1>5, <2>3, <2>5
<1>7. Wahl(nach) # {}
  <2>1. [q \in nach |-> "remis"] \in Wahl(nach)
    OBVIOUS
  <2> QED BY <2>1
<1>8. Endungen(d, g) # {} /\ Endungen(d, g) \subseteq Endungen(e, g)
  <2> HIDE DEF Wahl, Ende
  <2> QED BY <1>5, <1>6, <1>7
<1> QED BY <1>4, <1>8 DEF d, vor, nach

\* A club standing on a placing at the end stands on it too when a fixture
\* of the group was already on record: fewer fixtures left only decides more.
LEMMA StehtWeiter ==
  ASSUME NEW g \in DOMAIN Gruppen, NEW e, NEW d, NEW f, NEW platz, NEW t,
         OffenePaarungen(d, g) \subseteq OffenePaarungen(e, g), StehtAuf(e, f, g, platz, t)
  PROVE  StehtAuf(d, f, g, platz, t)
<1> DEFINE andere == Platzierbar(f, g) \ {t}
<1>1. \A x, y : Vor(e, f, g, x, y) => Vor(d, f, g, x, y)
  BY DEF Vor
<1>2. /\ t \in Platzierbar(f, g) /\ Platzierbar(f, g) \subseteq Gruppen[g]
      /\ \A u \in andere : Vor(e, f, g, t, u) \/ Vor(e, f, g, u, t)
      /\ Cardinality({u \in andere : Vor(e, f, g, u, t)}) = platz - 1
  BY DEF StehtAuf, Platzierbar
<1>3. \A u \in andere : Vor(d, f, g, u, t) => Vor(e, f, g, u, t)
  <2> SUFFICES ASSUME NEW u \in andere, Vor(d, f, g, u, t), ~Vor(e, f, g, u, t) PROVE FALSE
    OBVIOUS
  <2>1. Vor(d, f, g, t, u)
    BY <1>1, <1>2
  <2>2. u \in Gruppen[g] /\ t \in Gruppen[g] /\ t # u
    BY <1>2
  <2> QED BY <2>1, <2>2, VorOrdnet
<1>4. {u \in andere : Vor(d, f, g, u, t)} = {u \in andere : Vor(e, f, g, u, t)}
  BY <1>1, <1>3
<1>5. \A u \in andere : Vor(d, f, g, t, u) \/ Vor(d, f, g, u, t)
  BY <1>1, <1>2
<1> QED BY <1>2, <1>4, <1>5 DEF StehtAuf

\* DecidedStanding: a placing the group has decided is not moved by the next
\* fixture of the group going on record, whatever its event: the seat the
\* bracket has filled from it keeps its club as the group is played out.
THEOREM EinmalPlatziertBleibt ==
  ASSUME NEW g \in DOMAIN Gruppen, NEW e \in Ergebnisse(g), NEW p \in Begegnungen[g], e[p] = "offen",
         NEW st \in {"abgesagt", "remis"} \cup p, NEW platz, Platzierter(e, g, platz) # Leer
  PROVE  Platzierter([e EXCEPT ![p] = st], g, platz) = Platzierter(e, g, platz)
<1> DEFINE d == [e EXCEPT ![p] = st]
           Feste(x) == {t \in Gruppen[g] : \A f \in Endungen(x, g) : StehtAuf(x, f, g, platz, t)}
<1>1. /\ OffenePaarungen(d, g) \subseteq OffenePaarungen(e, g)
      /\ Endungen(d, g) \subseteq Endungen(e, g) /\ Endungen(d, g) # {}
  <2> HIDE DEF d
  <2>1. /\ OffenePaarungen(d, g) = OffenePaarungen(e, g) \ {p}
        /\ Endungen(d, g) \subseteq Endungen(e, g) /\ Endungen(d, g) # {}
    BY EndungVorher DEF d
  <2> QED BY <2>1
<1>2. Platzierter(e, g, platz) = Einziger(Feste(e)) /\ Platzierter(d, g, platz) = Einziger(Feste(d))
  BY DEF Platzierter
<1>3. Feste(e) # {}
  BY <1>2 DEF Einziger
<1> HIDE DEF d
<1>4. Feste(e) \subseteq Feste(d)
  BY <1>1, StehtWeiter
<1>5. \A t, u \in Feste(d) : t = u
  <2> SUFFICES ASSUME NEW t \in Feste(d), NEW u \in Feste(d) PROVE t = u
    OBVIOUS
  <2>1. PICK f \in Endungen(d, g) : TRUE
    BY <1>1
  <2>2. StehtAuf(d, f, g, platz, t) /\ StehtAuf(d, f, g, platz, u)
    BY <2>1
  <2> QED BY <2>2, EinerStehtAuf
<1>6. Feste(d) = Feste(e)
  BY <1>3, <1>4, <1>5
<1> QED BY <1>2, <1>6 DEF d

-----------------------------------------------------------------------------
(* A placing handed on stays, one request after the other. *)

\* Whoever is placed is one of those who may be, so the table offers the placing.
LEMMA PlatzReicht ==
  ASSUME NEW g \in DOMAIN Gruppen, NEW e, NEW f \in Endungen(e, g), NEW platz \in Nat, NEW t, StehtAuf(e, f, g, platz, t)
  PROVE  platz <= Cardinality(Platzierbar(e, g))
<1> DEFINE vorn == {u \in Platzierbar(f, g) \ {t} : Vor(e, f, g, u, t)}
           S == Platzierbar(f, g)
           E == Platzierbar(e, g)
<1>1. IsFiniteSet(Gruppen[g]) /\ S \subseteq Gruppen[g] /\ E \subseteq Gruppen[g]
  BY GruppenAssumption DEF Platzierbar
<1>2. \A p \in Begegnungen[g] : f[p] # "abgesagt" => e[p] # "abgesagt"
  BY DEF Endungen, OffenePaarungen
<1>3. S \subseteq E
  BY <1>2 DEF Platzierbar
<1>4. t \in S /\ Cardinality(vorn) = platz - 1
  BY DEF StehtAuf
<1>5. vorn \subseteq S /\ t \notin vorn
  OBVIOUS
<1> HIDE DEF vorn, S, E
<1>6. IsFiniteSet(S) /\ IsFiniteSet(E) /\ IsFiniteSet(vorn)
  BY <1>1, <1>5, FS_Subset
<1>7. Cardinality(vorn \cup {t}) = platz
  <2>1. Cardinality(vorn \cup {t}) = Cardinality(vorn) + 1
    BY <1>5, <1>6, FS_AddElement
  <2> QED BY <1>4, <2>1
<1>8. vorn \cup {t} \subseteq E
  BY <1>3, <1>4, <1>5
<1>9. Cardinality(vorn \cup {t}) <= Cardinality(E)
  BY <1>6, <1>8, FS_Subset
<1> QED BY <1>7, <1>9 DEF E

\* With a fixture more on record the table offers no placing it did not, and keeps each it had decided.
LEMMA EntschiedenesBleibt ==
  ASSUME NEW F, GuteLage(F), NEW p \in Paarungen, F.gruppe[p] = "offen", NEW st \in {"abgesagt", "remis"} \cup p,
         NEW G, G = Gesetzt(F, p, st), NEW g \in DOMAIN Gruppen, NEW platz \in Nat \ {0}
  PROVE  /\ platz \in DOMAIN Abschluss(G, g) => platz \in DOMAIN Abschluss(F, g)
         /\ platz \in DOMAIN Abschluss(F, g) /\ Abschluss(F, g)[platz] # Leer
              => platz \in DOMAIN Abschluss(G, g) /\ Abschluss(G, g)[platz] = Abschluss(F, g)[platz]
<1>1. GutesErgebnis(p, st)
  BY DEF GutesErgebnis
<1>2. GuteLage(G) /\ \A q \in Paarungen : G.gruppe[q] = IF q = p THEN st ELSE F.gruppe[q]
  BY <1>1, GesetztGilt
<1> DEFINE e == Tafel(F, g)
           d == Tafel(G, g)
<1>3. \A q \in Begegnungen[g] : q \in Paarungen /\ e[q] = F.gruppe[q] /\ d[q] = G.gruppe[q]
  BY Begegnung DEF Tafel
<1>4. /\ e \in Ergebnisse(g)
      /\ Abschluss(F, g) = [x \in 1..Cardinality(Platzierbar(e, g)) |-> Platzierter(e, g, x)]
      /\ Abschluss(G, g) = [x \in 1..Cardinality(Platzierbar(d, g)) |-> Platzierter(d, g, x)]
  BY <1>2, AbschlussIst
<1>5. DOMAIN e = Begegnungen[g] /\ d = [q \in Begegnungen[g] |-> d[q]]
  BY DEF Tafel
<1> HIDE DEF e, d
<1>6. CASE p \notin Begegnungen[g]
  <2>1. \A q \in Begegnungen[g] : d[q] = e[q]
    BY <1>2, <1>3, <1>6
  <2>2. d = e
    BY <2>1 DEF d, e, Tafel
  <2> QED BY <1>4, <2>2
<1>7. CASE p \in Begegnungen[g]
  <2>1. d = [e EXCEPT ![p] = st] /\ e[p] = "offen"
    BY <1>2, <1>3, <1>5, <1>7
  <2>2. Platzierbar(d, g) \subseteq Platzierbar(e, g)
    <3>1. \A q \in Begegnungen[g] : d[q] # "abgesagt" => e[q] # "abgesagt"
      BY <1>2, <1>3, <2>1
    <3> QED BY <3>1 DEF Platzierbar
  <2> DEFINE D == Cardinality(Platzierbar(d, g))
             E == Cardinality(Platzierbar(e, g))
  <2>3. D \in Nat /\ E \in Nat /\ D <= E
    <3>1. IsFiniteSet(Gruppen[g]) /\ Platzierbar(e, g) \subseteq Gruppen[g]
      BY GruppenAssumption DEF Platzierbar
    <3> QED BY <2>2, <3>1, FS_Subset, FS_CardinalityType
  <2> HIDE DEF D, E
  <2>4. platz \in DOMAIN Abschluss(G, g) => platz \in DOMAIN Abschluss(F, g)
    BY <1>4, <2>3 DEF D, E
  <2>5. ASSUME platz \in DOMAIN Abschluss(F, g), Abschluss(F, g)[platz] # Leer
        PROVE  platz \in DOMAIN Abschluss(G, g) /\ Abschluss(G, g)[platz] = Abschluss(F, g)[platz]
    <3>1. Platzierter(e, g, platz) = Abschluss(F, g)[platz]
      BY <1>4, <2>5
    <3>2. Platzierter(d, g, platz) = Platzierter(e, g, platz)
      <4>1. e[p] = "offen" /\ e \in Ergebnisse(g) /\ Platzierter(e, g, platz) # Leer
        BY <1>4, <2>1, <2>5, <3>1
      <4>2. Platzierter([e EXCEPT ![p] = st], g, platz) = Platzierter(e, g, platz)
        BY <1>7, <4>1, EinmalPlatziertBleibt
      <4> QED BY <2>1, <4>2
    <3>3. PICK f \in Endungen(d, g) : TRUE
      <4>1. e[p] = "offen" /\ e \in Ergebnisse(g)
        BY <1>4, <2>1
      <4>2. Endungen([e EXCEPT ![p] = st], g) # {}
        BY <1>7, <4>1, EndungVorher
      <4> QED BY <2>1, <4>2
    <3>4. PICK t : StehtAuf(d, f, g, platz, t)
      BY <2>5, <3>1, <3>2, <3>3 DEF Platzierter, Einziger
    <3>5. platz <= D
      BY <3>4, PlatzReicht DEF D
    <3> QED BY <1>4, <2>3, <3>1, <3>2, <3>5 DEF D
  <2> QED BY <2>4, <2>5
<1> QED BY <1>6, <1>7

\* What the resolution makes of one fixture: nothing, or the sides its step gave it.
LEMMA AmEnde ==
  ASSUME NEW F, GuteLage(F), NEW k \in Nrn
  PROVE  \E n \in 1..N :
           LET r == Aufgeloest(F)[n - 1]
               A == Aufloesung(F)
               neu == NeueSeiten(r, Geteilt(F.ko), k)
           IN  /\ r.lage.ko[k] = F.ko[k] /\ r.lage.gruppe = F.gruppe
               /\ \/ Still(r, k, neu) /\ k \notin A.bewegt /\ A.lage.ko[k] = F.ko[k]
                  \/ ~Still(r, k, neu) /\ k \in A.bewegt /\ A.lage.ko[k].seiten = neu
<1> DEFINE a == Aufgeloest(F)
<1>1. PICK n \in 1..N : Reihe[n] = k
  BY ReiheGilt
<1>2. N \in Nat /\ n \in 0..N /\ n - 1 \in 0..N /\ N \in 0..N /\ n - 1 < n /\ n >= n /\ N >= n
  BY NEndlich
<1>3. Aufloesung(F) = a[N]
  BY DEF Aufloesung, N
<1>4. Bewegung(a[n - 1], a[n], k, NeueSeiten(a[n - 1], Geteilt(F.ko), k))
  BY <1>1, SchrittGilt
<1>5. /\ a[n - 1].lage.ko[k] = F.ko[k] /\ k \notin a[n - 1].bewegt
      /\ a[N].lage.ko[k] = a[n].lage.ko[k] /\ (k \in a[N].bewegt <=> k \in a[n].bewegt)
  <2>1. /\ \A m \in 0..N : m < n => a[m].lage.ko[Reihe[n]] = F.ko[Reihe[n]] /\ Reihe[n] \notin a[m].bewegt
        /\ \A m \in 0..N : m >= n => /\ a[m].lage.ko[Reihe[n]] = a[n].lage.ko[Reihe[n]]
                                     /\ Reihe[n] \in a[m].bewegt <=> Reihe[n] \in a[n].bewegt
    BY VorUndNach
  <2> HIDE DEF a
  <2> QED BY <1>1, <1>2, <2>1
<1>6. a[n - 1].lage.gruppe = F.gruppe
  <2>1. Durchlauf(F, a[n - 1])
    BY <1>2, DurchlaufGilt
  <2> HIDE DEF a
  <2> QED BY <2>1 DEF Durchlauf
<1> DEFINE r == a[n - 1]
           neu == NeueSeiten(r, Geteilt(F.ko), k)
<1> HIDE DEF a
<1>7. \/ Still(r, k, neu) /\ k \notin a[N].bewegt /\ a[N].lage.ko[k] = F.ko[k]
      \/ ~Still(r, k, neu) /\ k \in a[N].bewegt /\ a[N].lage.ko[k].seiten = neu
  <2> HIDE DEF neu
  <2> QED BY <1>4, <1>5 DEF Bewegung, neu
<1> QED BY <1>3, <1>5, <1>6, <1>7 DEF a

\* A side nobody feeds is nobody's but the administrator's.
LEMMA OhneQuelleBleibt ==
  ASSUME NEW F, GuteLage(F), NEW k \in Nrn, NEW i \in Seiten, F.ko[k].quellen[i] = Ohne
  PROVE  Aufloesung(F).lage.ko[k].seiten[i] = F.ko[k].seiten[i]
<1> DEFINE A == Aufloesung(F)
<1>1. PICK n \in 1..N :
        LET r == Aufgeloest(F)[n - 1]
            neu == NeueSeiten(r, Geteilt(F.ko), k)
        IN  /\ r.lage.ko[k] = F.ko[k]
            /\ A.lage.ko[k] = F.ko[k] \/ A.lage.ko[k].seiten = neu
  BY AmEnde
<1> DEFINE r == Aufgeloest(F)[n - 1]
           neu == NeueSeiten(r, Geteilt(F.ko), k)
<1>2. r.lage.ko[k] = F.ko[k] /\ (A.lage.ko[k] = F.ko[k] \/ A.lage.ko[k].seiten = neu)
  BY <1>1
<1> HIDE DEF r, A
<1>3. neu[i] = F.ko[k].seiten[i]
  BY <1>2 DEF NeueSeiten, Besetzung, Gepflegt
<1> HIDE DEF neu
<1> QED BY <1>2, <1>3 DEF A

\* A fixture that waits for no other: what the standings make of its sides.
Platzseiten(F, k) ==
  [i \in Seiten |-> Besetzung(F, Geteilt(F.ko), {}, F.ko[k].quellen[i], F.ko[k].seiten[i])]

LEMMA PlatzspielGilt ==
  ASSUME NEW F, GuteLage(F), NEW k \in Nrn, \A i \in Seiten : F.ko[k].quellen[i] \notin Spielquellen,
         NEW neu, neu = Platzseiten(F, k)
  PROVE  LET steht == neu = F.ko[k].seiten \/ (neu[1] = neu[2] /\ neu[1] # Leer)
         IN  \/ steht /\ k \notin Aufloesung(F).bewegt /\ Aufloesung(F).lage.ko[k] = F.ko[k]
             \/ ~steht /\ k \in Aufloesung(F).bewegt /\ Aufloesung(F).lage.ko[k].seiten = neu
<1> DEFINE A == Aufloesung(F)
           r(n) == Aufgeloest(F)[n - 1]
           s(n) == NeueSeiten(r(n), Geteilt(F.ko), k)
<1>1. PICK n \in 1..N :
        /\ r(n).lage.ko[k] = F.ko[k] /\ r(n).lage.gruppe = F.gruppe
        /\ \/ Still(r(n), k, s(n)) /\ k \notin A.bewegt /\ A.lage.ko[k] = F.ko[k]
           \/ ~Still(r(n), k, s(n)) /\ k \in A.bewegt /\ A.lage.ko[k].seiten = s(n)
  BY AmEnde
<1>2. ASSUME NEW i \in Seiten PROVE s(n)[i] = neu[i]
  <2> DEFINE q == F.ko[k].quellen[i]
             x == r(n)
  <2>1. q \in {Ohne} \cup Platzquellen
    BY DEF GuteLage, Spiele, Quellform
  <2>2. x.lage.ko[k] = F.ko[k] /\ x.lage.gruppe = F.gruppe
    BY <1>1
  <2>3. s(n)[i] = Besetzung(x.lage, Geteilt(F.ko), x.bewegt, q, F.ko[k].seiten[i])
    BY <2>2 DEF NeueSeiten
  <2>4. neu[i] = Besetzung(F, Geteilt(F.ko), {}, q, F.ko[k].seiten[i])
    BY DEF Platzseiten
  <2> HIDE DEF x, q, s
  <2>5. q = Ohne \/ q.art = "gruppe"
    BY <2>1, Quellenarten
  <2>6. Abschluss(x.lage, q.gruppe) = Abschluss(F, q.gruppe)
    BY <2>2, AbschlussGleich
  <2> QED BY <2>3, <2>4, <2>5, <2>6 DEF Besetzung, Gepflegt
<1>3. s(n) = [i \in Seiten |-> s(n)[i]] /\ neu = [i \in Seiten |-> neu[i]]
  BY DEF NeueSeiten, Platzseiten
<1> HIDE DEF r, s, A
<1>4. s(n) = neu
  BY <1>2, <1>3
<1> QED BY <1>1, <1>4 DEF Still, A

\* In the opening round no fixture waits for another.
LEMMA PlatzInDerErsten ==
  ASSUME NEW F, GuteLage(F), NEW k \in Nrn, NEW i \in Seiten, F.ko[k].quellen[i] \in Platzquellen
  PROVE  \A j \in Seiten : F.ko[k].quellen[j] \notin Spielquellen
<1> SUFFICES ASSUME NEW j \in Seiten, F.ko[k].quellen[j] \in Spielquellen PROVE FALSE
  OBVIOUS
<1>1. GutesSpiel(k, F.ko[k])
  BY DEF GuteLage
<1>2. F.ko[k].quellen[j].nr \in Nrn
  BY Quellenarten
<1>3. Runde[k] <= Runde[F.ko[k].quellen[j].nr] /\ Runde[F.ko[k].quellen[j].nr] < Runde[k]
  BY <1>1, <1>2 DEF GutesSpiel
<1>4. Runde[k] \in Nat /\ Runde[F.ko[k].quellen[j].nr] \in Nat
  BY <1>2, RundeAssumption
<1> QED BY <1>3, <1>4

\* Nobody leaves a slot that a placing fills.
Standhaft(F, H) ==
  \A k \in Nrn : \A i \in Seiten :
    F.ko[k].quellen[i] \in Platzquellen /\ F.ko[k].seiten[i] # Leer => H.ko[k].seiten[i] = F.ko[k].seiten[i]

\* One fixture more of a group on record moves nobody out of a slot a placing fills: whoever
\* the standings decided they decide still, and a fixture the pass left alone because both of its
\* sides fall to one club has the same two sides to give.
LEMMA PlaetzeBleiben ==
  ASSUME NEW F, GuteLage(F), Aufloesung(F).bewegt = {}, NEW p \in Paarungen, F.gruppe[p] = "offen",
         NEW st \in {"abgesagt", "remis"} \cup p, NEW G, G = Gesetzt(F, p, st)
  PROVE  Standhaft(F, Aufloesung(G).lage)
<1>1. GuteLage(G) /\ G.ko = F.ko
  <2>1. GutesErgebnis(p, st)
    BY DEF GutesErgebnis
  <2> QED BY <2>1, GesetztGilt
<1> SUFFICES ASSUME NEW k \in Nrn, NEW i \in Seiten, F.ko[k].quellen[i] \in Platzquellen, F.ko[k].seiten[i] # Leer
             PROVE  Aufloesung(G).lage.ko[k].seiten[i] = F.ko[k].seiten[i]
  BY DEF Standhaft
<1> DEFINE alt == Platzseiten(F, k)
           neu == Platzseiten(G, k)
           A == Aufloesung(G)
           s == F.ko[k].seiten
<1>2. \A j \in Seiten : F.ko[k].quellen[j] \notin Spielquellen
  BY PlatzInDerErsten
<1>3. alt = s \/ (alt[1] = alt[2] /\ alt[1] # Leer)
  BY <1>2, PlatzspielGilt
<1>4. \/ A.lage.ko[k] = F.ko[k]
      \/ A.lage.ko[k].seiten = neu /\ ~(neu[1] = neu[2] /\ neu[1] # Leer)
  BY <1>1, <1>2, PlatzspielGilt
<1>5. ASSUME NEW j \in Seiten, alt[j] # Leer PROVE neu[j] = alt[j]
  <2> DEFINE q == F.ko[k].quellen[j]
             g == Geteilt(F.ko)
  <2>1. alt[j] = Besetzung(F, g, {}, q, s[j]) /\ neu[j] = Besetzung(G, g, {}, q, s[j])
    BY <1>1 DEF Platzseiten
  <2>2. q \in {Ohne} \cup Platzquellen
    BY <1>2 DEF GuteLage, Spiele, Quellform
  <2> HIDE DEF q, g, s, alt, neu
  <2>3. CASE q = Ohne
    BY <2>1, <2>3 DEF Besetzung, Gepflegt
  <2>4. CASE q \in Platzquellen
    <3>1. q.art = "gruppe" /\ q.gruppe \in DOMAIN Gruppen /\ q.platz \in Nat \ {0}
      BY <2>4, Quellenarten DEF Platzquellen
    <3>2. /\ q.platz \in DOMAIN Abschluss(G, q.gruppe) => q.platz \in DOMAIN Abschluss(F, q.gruppe)
          /\ q.platz \in DOMAIN Abschluss(F, q.gruppe) /\ Abschluss(F, q.gruppe)[q.platz] # Leer
               => /\ q.platz \in DOMAIN Abschluss(G, q.gruppe)
                  /\ Abschluss(G, q.gruppe)[q.platz] = Abschluss(F, q.gruppe)[q.platz]
      BY <3>1, EntschiedenesBleibt
    <3> QED BY <1>5, <2>1, <3>1, <3>2 DEF Besetzung, Gepflegt
  <2> QED BY <2>2, <2>3, <2>4
<1> HIDE DEF alt, neu, A, s
<1>6. CASE alt = s
  <2>1. neu[i] = s[i]
    BY <1>5, <1>6 DEF s
  <2> QED BY <1>4, <2>1 DEF A, s
<1>7. CASE alt[1] = alt[2] /\ alt[1] # Leer
  <2>1. neu[1] = alt[1] /\ neu[2] = alt[2]
    BY <1>5, <1>7 DEF Seiten
  <2>2. A.lage.ko[k] = F.ko[k]
    BY <1>4, <1>7, <2>1
  <2> QED BY <2>2 DEF A, s
<1> QED BY <1>3, <1>6, <1>7

\* A knockout save leaves the group results as they are.
LEMMA KoHaeltGruppe ==
  ASSUME NEW F, GuteLage(F), NEW k \in Nrn, NEW e, GuteAnfrage(k, e)
  PROVE  KoGespeichert(F, k, e).lage.gruppe = F.gruppe
<1> DEFINE G == Angewandt(F, k, e)
<1>1. CASE ~KoErlaubt(F, k, e)
  BY <1>1 DEF KoGespeichert, Abgelehnt
<1>2. CASE KoErlaubt(F, k, e)
  <2>1. GuteLage(G) /\ G.gruppe = F.gruppe
    BY <1>2, AngewandtGilt
  <2>2. KoGespeichert(F, k, e).lage = Aufloesung(G).lage
    BY <1>2 DEF KoGespeichert, Gespeichert, Angewandt, Verfasst
  <2> HIDE DEF G
  <2>3. Durchlauf(G, Aufloesung(G))
    BY <2>1, AufloesungGilt
  <2> QED BY <2>1, <2>2, <2>3 DEF Durchlauf
<1> QED BY <1>1, <1>2

\* An entry that puts a result back and names no other club for the sides nobody feeds.
NurErgebnis(z, L) ==
  \A i \in Seiten : /\ z.quellen[i] = Leer
                    /\ L.ko[z.nr].quellen[i] = Ohne => z.seiten[i] = L.ko[z.nr].seiten[i]

\* The sources stand, and the clubs that are there by hand.
VonHandGleich(F, H) ==
  \A k \in Nrn : /\ H.ko[k].quellen = F.ko[k].quellen
                 /\ \A i \in Seiten : F.ko[k].quellen[i] = Ohne => H.ko[k].seiten[i] = F.ko[k].seiten[i]

\* Accepted, such an entry moves nobody by hand: find_wiring_refusal has seen that the maintained
\* sides are the stored ones, and a clean round holds none of its clubs elsewhere.
LEMMA EintragSetztNichtUm ==
  ASSUME NEW R, GuteLage(R), KeinDoppel(R.ko), NEW z \in Koeintraege, NurErgebnis(z, R),
         NEW e, e = Vervollstaendigt(R, z), GuteAnfrage(z.nr, e), KoErlaubt(R, z.nr, e),
         NEW G, G = Angewandt(R, z.nr, e)
  PROVE  \A l \in Nrn : G.ko[l].quellen = R.ko[l].quellen /\ G.ko[l].seiten = R.ko[l].seiten
<1> DEFINE k == z.nr
<1>1. k \in Nrn /\ z.seiten \in [Seiten -> Teams \cup {Leer}]
  BY DEF Koeintraege
<1>2. /\ e.seiten = z.seiten
      /\ e.quellen = [i \in Seiten |-> IF z.quellen[i] = Leer THEN R.ko[k].quellen[i] ELSE z.quellen[i]]
  BY DEF Vervollstaendigt
<1>3. \A l \in Nrn : /\ R.ko[l].seiten \in [Seiten -> Teams \cup {Leer}]
                     /\ R.ko[l].quellen = [i \in Seiten |-> R.ko[l].quellen[i]]
  BY DEF GuteLage, Spiele
<1> HIDE DEF k
<1>4. e.quellen = R.ko[k].quellen
  BY <1>1, <1>2, <1>3 DEF NurErgebnis, k
<1>5. \A i \in Seiten : e.seiten[i] = R.ko[k].seiten[i]
  <2> SUFFICES ASSUME NEW i \in Seiten PROVE e.seiten[i] = R.ko[k].seiten[i]
    OBVIOUS
  <2>1. CASE R.ko[k].quellen[i] = Ohne
    BY <1>2, <2>1 DEF NurErgebnis, k
  <2>2. CASE R.ko[k].quellen[i] # Ohne
    BY <1>4, <2>2 DEF KoErlaubt, FehlverdrahtungFrei, k
  <2> QED BY <2>1, <2>2
<1>6. e.seiten = R.ko[k].seiten
  <2>1. e.seiten = [i \in Seiten |-> e.seiten[i]] /\ R.ko[k].seiten = [i \in Seiten |-> R.ko[k].seiten[i]]
    BY <1>1, <1>2, <1>3
  <2> QED BY <1>5, <2>1
<1>7. Belegte(R, k, e) = {}
  <2> SUFFICES ASSUME NEW x \in Belegte(R, k, e) PROVE FALSE
    OBVIOUS
  <2>1. /\ x \in (Nrn \ {k}) \X Seiten /\ Runde[x[1]] = Runde[k] /\ R.ko[x[1]].seiten[x[2]] # Leer
        /\ \E i \in Seiten : e.seiten[i] = R.ko[x[1]].seiten[x[2]]
    BY DEF Belegte
  <2>2. PICK i \in Seiten : R.ko[k].seiten[i] = R.ko[x[1]].seiten[x[2]]
    BY <1>5, <2>1
  <2> DEFINE y == <<k, i>>
  <2>3. y \in Nrn \X Seiten /\ y[1] = k /\ y[2] = i /\ x # y /\ x \in Nrn \X Seiten
    BY <1>1, <2>1
  <2>4. R.ko[x[1]].seiten[x[2]] \in Teams
    BY <1>3, <2>1
  <2> HIDE DEF y
  <2> QED BY <2>1, <2>2, <2>3, <2>4 DEF KeinDoppel
<1>8. /\ G.ko[k] = Verfasst(e)
      /\ \A l \in Nrn \ {k} : /\ l \notin FreieNrn(R, k, e) => G.ko[l] = R.ko[l]
  BY <1>1, AngewandtGilt DEF k
<1>9. FreieNrn(R, k, e) = {}
  BY <1>7 DEF FreieNrn
<1>10. Verfasst(e).seiten = e.seiten /\ Verfasst(e).quellen = e.quellen
  BY DEF Verfasst
<1> QED BY <1>4, <1>6, <1>8, <1>9, <1>10

LEMMA EintragHaelt ==
  ASSUME NEW R, GuteLage(R), Sauber(R), NEW z \in Koeintraege, NurErgebnis(z, R), Einzeln(R, z).erlaubt
  PROVE  VonHandGleich(R, Einzeln(R, z).lage) /\ Standhaft(R, Einzeln(R, z).lage)
<1> DEFINE e == Vervollstaendigt(R, z)
           G == Angewandt(R, z.nr, e)
           A == Aufloesung(G)
<1>1. z.nr \in Nrn /\ "paar" \notin DOMAIN z
  BY DEF Koeintraege
<1>2. GuteAnfrage(z.nr, e)
  BY KoEintragAnfrage
<1>3. Einzeln(R, z) = KoGespeichert(R, z.nr, e)
  BY <1>1 DEF Einzeln
<1> HIDE DEF e
<1>4. KoErlaubt(R, z.nr, e)
  BY <1>3 DEF KoGespeichert, Abgelehnt
<1>5. Einzeln(R, z).lage = A.lage
  BY <1>3, <1>4 DEF KoGespeichert, Gespeichert, Angewandt, Verfasst
<1>6. GuteLage(G) /\ G.gruppe = R.gruppe
  BY <1>1, <1>2, <1>4, AngewandtGilt
<1>7. \A l \in Nrn : G.ko[l].quellen = R.ko[l].quellen /\ G.ko[l].seiten = R.ko[l].seiten
  BY <1>2, <1>4, DoppelteLeer, EintragSetztNichtUm DEF Sauber, e
<1> HIDE DEF G
<1>8. Geteilt(G.ko) = Geteilt(R.ko)
  BY <1>7, GeteiltGleich
<1>9. VonHandGleich(R, A.lage)
  <2>1. \A l \in Nrn : A.lage.ko[l].quellen = G.ko[l].quellen
    BY <1>6, AufloesungGilt DEF Durchlauf
  <2>2. \A l \in Nrn : \A i \in Seiten : G.ko[l].quellen[i] = Ohne => A.lage.ko[l].seiten[i] = G.ko[l].seiten[i]
    BY <1>6, OhneQuelleBleibt
  <2> QED BY <1>7, <2>1, <2>2 DEF VonHandGleich
<1>10. Standhaft(R, A.lage)
  <2> SUFFICES ASSUME NEW l \in Nrn, NEW i \in Seiten, R.ko[l].quellen[i] \in Platzquellen
               PROVE  A.lage.ko[l].seiten[i] = R.ko[l].seiten[i]
    BY DEF Standhaft
  <2> DEFINE alt == Platzseiten(R, l)
             neu == Platzseiten(G, l)
  <2>1. (\A j \in Seiten : R.ko[l].quellen[j] \notin Spielquellen) /\ (\A j \in Seiten : G.ko[l].quellen[j] \notin Spielquellen)
    BY <1>7, PlatzInDerErsten
  <2>2. alt = R.ko[l].seiten \/ (alt[1] = alt[2] /\ alt[1] # Leer)
    BY <2>1, PlatzspielGilt DEF Sauber
  <2>3. neu = alt
    <3>1. ASSUME NEW j \in Seiten
          PROVE  Besetzung(G, Geteilt(G.ko), {}, G.ko[l].quellen[j], G.ko[l].seiten[j])
                   = Besetzung(R, Geteilt(R.ko), {}, R.ko[l].quellen[j], R.ko[l].seiten[j])
      <4> DEFINE q == R.ko[l].quellen[j]
      <4>1. q \in {Ohne} \cup Platzquellen
        BY <2>1 DEF GuteLage, Spiele, Quellform
      <4>2. q = Ohne \/ q.art = "gruppe"
        BY <4>1, Quellenarten
      <4>3. Abschluss(G, q.gruppe) = Abschluss(R, q.gruppe)
        BY <1>6, AbschlussGleich
      <4> HIDE DEF q
      <4> QED BY <1>7, <1>8, <4>2, <4>3 DEF Besetzung, Gepflegt, q
    <3> QED BY <3>1 DEF Platzseiten
  <2>4. \/ A.lage.ko[l] = G.ko[l]
        \/ ~(neu = G.ko[l].seiten \/ (neu[1] = neu[2] /\ neu[1] # Leer))
    BY <1>6, <2>1, PlatzspielGilt
  <2> HIDE DEF alt, neu, A
  <2> QED BY <1>7, <2>2, <2>3, <2>4
<1> QED BY <1>5, <1>9, <1>10

\* The property, of two seasons: playing on takes nobody out of a slot a placing fills.
Fest(F, H) ==
  H.gruppe # F.gruppe /\ (\A p \in Paarungen : H.gruppe[p] # F.gruppe[p] => F.gruppe[p] = "offen")
    => Standhaft(F, H)

\* A report fits the season its save left: of a knockout save, knockout entries; of a group
\* save, its fixture's first, then those that put results back.
Passt(z, L) ==
  \/ \A n \in 1..Len(z) : z[n] \in Koeintraege
  \/ /\ z # <<>> /\ z[1] \in Gruppeneintraege
     /\ \A n \in 2..Len(z) : z[n] \in Koeintraege /\ NurErgebnis(z[n], L)

LEMMA GruppeFest ==
  ASSUME NEW F, GuteLage(F), Sauber(F), NEW p \in Paarungen, NEW st, GutesErgebnis(p, st),
         NEW H, H = GruppeGespeichert(F, p, st).lage
  PROVE  /\ \A q \in Paarungen : H.gruppe[q] = IF q = p THEN st ELSE F.gruppe[q]
         /\ F.gruppe[p] = "offen" /\ st # "offen" => Standhaft(F, H)
         /\ VonHandGleich(F, H)
<1> DEFINE G == Gesetzt(F, p, st)
           A == Aufloesung(G)
<1>1. GuteLage(G) /\ G.ko = F.ko /\ \A q \in Paarungen : G.gruppe[q] = IF q = p THEN st ELSE F.gruppe[q]
  BY GesetztGilt
<1>2. H = A.lage
  BY DEF GruppeGespeichert, Gespeichert, Gesetzt
<1>3. F.gruppe[p] = "offen" /\ st # "offen" => Standhaft(F, A.lage)
  BY PlaetzeBleiben DEF Sauber, GutesErgebnis
<1> HIDE DEF G
<1>4. A.lage.gruppe = G.gruppe /\ \A k \in Nrn : A.lage.ko[k].quellen = G.ko[k].quellen
  BY <1>1, AufloesungGilt DEF Durchlauf
<1>5. \A k \in Nrn : \A i \in Seiten : G.ko[k].quellen[i] = Ohne => A.lage.ko[k].seiten[i] = G.ko[k].seiten[i]
  BY <1>1, OhneQuelleBleibt
<1> HIDE DEF A
<1> QED BY <1>1, <1>2, <1>3, <1>4, <1>5 DEF VonHandGleich

LEMMA HaeltWeiter ==
  ASSUME NEW F, NEW R, NEW H, VonHandGleich(F, R), VonHandGleich(R, H), Standhaft(F, R), Standhaft(R, H)
  PROVE  VonHandGleich(F, H) /\ Standhaft(F, H)
BY DEF VonHandGleich, Standhaft

\* An undo takes nobody out of such a slot either: it plays on where the save it undoes took a
\* result back, and the entries behind that put results back.
LEMMA RuecknahmeFest ==
  ASSUME NEW F, GuteLage(F), Sauber(F), NEW z \in Seq(Eintraege), Passt(z, F), Zurueckgenommen(F, z).erlaubt
  PROVE  Fest(F, Zurueckgenommen(F, z).lage)
<1> DEFINE a == Nachspiel(F, z)
           M == Len(z)
<1>1. M \in Nat /\ M \in 0..M /\ \A n \in 1..M : z[n] \in Eintraege /\ n - 1 \in 0..M /\ n \in 0..M /\ n \in Nat
  OBVIOUS
<1>2. a[0] = [erlaubt |-> TRUE, lage |-> F, schreibt |-> {}]
      /\ \A n \in 1..M : a[n] = Nachgespielt(a[n - 1], Einzeln(a[n - 1].lage, z[n]))
  BY NachspielGilt
<1>3. Zurueckgenommen(F, z) = a[M]
  BY DEF Zurueckgenommen
<1>4. \A n \in 0..M : GuteSpeicherung(F, a[n])
  BY NachspielGut
<1>5. z # <<>> => 1 \in 1..M
  OBVIOUS
<1> HIDE DEF a, M
<1>6. \A n \in 0..M : GuteLage(a[n].lage) /\ (a[n].erlaubt => Sauber(a[n].lage))
  BY <1>4 DEF GuteSpeicherung
<1>7. \A n \in 1..M : /\ a[n].lage = Einzeln(a[n - 1].lage, z[n]).lage
                      /\ a[n].erlaubt = (a[n - 1].erlaubt /\ Einzeln(a[n - 1].lage, z[n]).erlaubt)
  <2>1. \A r, s : Nachgespielt(r, s).lage = s.lage /\ Nachgespielt(r, s).erlaubt = (r.erlaubt /\ s.erlaubt)
    BY DEF Nachgespielt
  <2> QED BY <1>2, <2>1
<1>8. ASSUME NEW n \in 1..M, z[n] \in Koeintraege PROVE a[n].lage.gruppe = a[n - 1].lage.gruppe
  <2>1. GuteLage(a[n - 1].lage)
    BY <1>1, <1>6
  <2>2. /\ z[n].nr \in Nrn /\ "paar" \notin DOMAIN z[n]
        /\ GuteAnfrage(z[n].nr, Vervollstaendigt(a[n - 1].lage, z[n]))
    BY <1>8, <2>1, KoEintragAnfrage
  <2> QED BY <1>7, <2>1, <2>2, KoHaeltGruppe DEF Einzeln
<1>9. CASE \A n \in 1..M : z[n] \in Koeintraege
  <2> DEFINE T == {n \in 0..M : a[n].lage.gruppe = F.gruppe}
  <2>1. 0 \in T
    BY <1>1, <1>2
  <2>2. \A n \in 1..M : n - 1 \in T => n \in T
    BY <1>1, <1>8, <1>9
  <2> HIDE DEF T
  <2>3. \A n \in 0..M : n \in T
    BY <1>1, <2>1, <2>2, Induktion
  <2> QED BY <1>1, <1>3, <2>3 DEF T, Fest
<1>10. CASE z # <<>> /\ z[1] \in Gruppeneintraege /\ \A n \in 2..M : z[n] \in Koeintraege /\ NurErgebnis(z[n], F)
  <2> DEFINE p == z[1].paar
             st == z[1].stand
  <2>1. p \in Paarungen /\ GutesErgebnis(p, st) /\ "paar" \in DOMAIN z[1]
    BY <1>10 DEF Gruppeneintraege
  <2>2. a[1].lage = GruppeGespeichert(F, p, st).lage
    <3>1. a[1].lage = Einzeln(a[0].lage, z[1]).lage
      BY <1>5, <1>7, <1>10
    <3> QED BY <1>2, <2>1, <3>1 DEF Einzeln
  <2> HIDE DEF p, st
  <2>3. /\ \A q \in Paarungen : a[1].lage.gruppe[q] = IF q = p THEN st ELSE F.gruppe[q]
        /\ F.gruppe[p] = "offen" /\ st # "offen" => Standhaft(F, a[1].lage)
        /\ VonHandGleich(F, a[1].lage)
    BY <2>1, <2>2, GruppeFest
  <2> DEFINE T == {n \in 0..M : n # 0 => a[n].lage.gruppe = a[1].lage.gruppe}
  <2>4. \A n \in 0..M : n \in T
    <3>1. 0 \in T
      BY <1>1
    <3>2. \A n \in 1..M : n - 1 \in T => n \in T
      <4> SUFFICES ASSUME NEW n \in 1..M, n - 1 \in T PROVE n \in T
        OBVIOUS
      <4>1. CASE n = 1
        BY <1>1, <4>1
      <4>2. CASE n # 1
        <5>1. n \in 2..M /\ n - 1 # 0
          BY <1>1, <4>2
        <5> QED BY <1>1, <1>8, <1>10, <5>1
      <4> QED BY <4>1, <4>2
    <3> HIDE DEF T
    <3> QED BY <1>1, <3>1, <3>2, Induktion
  <2>5. M # 0 /\ a[M].lage.gruppe = a[1].lage.gruppe
    BY <1>1, <1>5, <1>10, <2>4
  <2>6. SUFFICES ASSUME a[M].lage.gruppe # F.gruppe,
                        \A q \in Paarungen : a[M].lage.gruppe[q] # F.gruppe[q] => F.gruppe[q] = "offen"
                 PROVE  Standhaft(F, a[M].lage)
    BY <1>3 DEF Fest
  <2>7. F.gruppe[p] = "offen" /\ st # "offen"
    <3>1. a[1].lage.gruppe = [q \in Paarungen |-> a[1].lage.gruppe[q]] /\ F.gruppe = [q \in Paarungen |-> F.gruppe[q]]
      BY <1>1, <1>5, <1>6, <1>10 DEF GuteLage
    <3>2. st # F.gruppe[p]
      BY <2>3, <2>5, <2>6, <3>1
    <3>3. F.gruppe[p] = "offen"
      BY <2>1, <2>3, <2>5, <2>6, <3>2
    <3> QED BY <3>2, <3>3
  <2> DEFINE U == {n \in 0..M : n # 0 /\ a[n].erlaubt => VonHandGleich(F, a[n].lage) /\ Standhaft(F, a[n].lage)}
  <2>8. \A n \in 0..M : n \in U
    <3>1. 0 \in U
      BY <1>1
    <3>2. \A n \in 1..M : n - 1 \in U => n \in U
      <4> SUFFICES ASSUME NEW n \in 1..M, n - 1 \in U, a[n].erlaubt
                   PROVE  VonHandGleich(F, a[n].lage) /\ Standhaft(F, a[n].lage)
        BY <1>1
      <4>1. CASE n = 1
        BY <2>3, <2>7, <4>1
      <4>2. CASE n # 1
        <5> DEFINE R == a[n - 1].lage
        <5>1. n \in 2..M /\ n - 1 # 0 /\ n - 1 \in 0..M
          BY <1>1, <4>2
        <5>2. a[n - 1].erlaubt /\ Einzeln(R, z[n]).erlaubt /\ a[n].lage = Einzeln(R, z[n]).lage
          BY <1>7
        <5>3. GuteLage(R) /\ Sauber(R)
          BY <1>6, <5>1, <5>2
        <5>4. VonHandGleich(F, R) /\ Standhaft(F, R)
          BY <5>1, <5>2
        <5>5. z[n] \in Koeintraege /\ z[n].nr \in Nrn /\ NurErgebnis(z[n], F)
          BY <1>10, <5>1 DEF Koeintraege
        <5> HIDE DEF R
        <5>6. NurErgebnis(z[n], R)
          BY SMTT(30), <5>4, <5>5 DEF NurErgebnis, VonHandGleich
        <5>7. VonHandGleich(R, a[n].lage) /\ Standhaft(R, a[n].lage)
          BY <5>2, <5>3, <5>5, <5>6, EintragHaelt
        <5> QED BY <5>4, <5>7, HaeltWeiter
      <4> QED BY <4>1, <4>2
    <3> HIDE DEF U
    <3> QED BY <1>1, <3>1, <3>2, Induktion
  <2> QED BY <1>1, <1>3, <2>5, <2>8
<1> QED BY <1>9, <1>10 DEF Passt, M

\* What a group save reports fits the season it leaves, and nobody leaves a slot a placing fills.
LEMMA GruppeNacheinander ==
  ASSUME NEW F, GuteLage(F), Sauber(F), NEW p \in Paarungen, NEW st, GutesErgebnis(p, st),
         NEW r, r = GruppeGespeichert(F, p, st)
  PROVE  Fest(F, r.lage) /\ Passt(r.bericht, r.lage)
<1> DEFINE H == r.lage
           b == r.bericht
           eintrag == [paar |-> p, stand |-> F.gruppe[p]]
<1>1. /\ \A q \in Paarungen : H.gruppe[q] = IF q = p THEN st ELSE F.gruppe[q]
      /\ F.gruppe[p] = "offen" /\ st # "offen" => Standhaft(F, H)
      /\ VonHandGleich(F, H)
  BY GruppeFest
<1>2. GuteLage(H)
  BY GruppeGespeichertGilt DEF GuteSpeicherung
<1>3. eintrag \in Gruppeneintraege /\ \E S \in SUBSET Nrn : b = Bericht(F, eintrag, S)
  BY GruppenBericht
<1> HIDE DEF H, b, eintrag
<1>4. Fest(F, H)
  <2>1. SUFFICES ASSUME H.gruppe # F.gruppe,
                        \A q \in Paarungen : H.gruppe[q] # F.gruppe[q] => F.gruppe[q] = "offen"
                 PROVE  Standhaft(F, H)
    BY DEF Fest
  <2>2. H.gruppe = [q \in Paarungen |-> H.gruppe[q]] /\ F.gruppe = [q \in Paarungen |-> F.gruppe[q]]
    BY <1>2 DEF GuteLage
  <2>3. st # F.gruppe[p]
    BY <1>1, <2>1, <2>2
  <2>4. F.gruppe[p] = "offen"
    BY <1>1, <2>1, <2>3
  <2> QED BY <1>1, <2>3, <2>4
<1>5. Passt(b, H)
  <2>1. /\ b # <<>> /\ b[1] = eintrag
        /\ \A n \in 2..Len(b) : \E k \in Nrn : b[n] = KoEintrag(k, F.ko[k], F.ko[k])
    <3>1. PICK S \in SUBSET Nrn : b = Bericht(F, eintrag, S)
      BY <1>3
    <3>2. Angefuehrt(F, eintrag, b)
      BY <3>1, BerichtIst
    <3> QED BY <3>2 DEF Angefuehrt
  <2>2. ASSUME NEW n \in 2..Len(b) PROVE b[n] \in Koeintraege /\ NurErgebnis(b[n], H)
    <3>1. PICK k \in Nrn : b[n] = KoEintrag(k, F.ko[k], F.ko[k])
      BY <2>1
    <3> DEFINE z == KoEintrag(k, F.ko[k], F.ko[k])
    <3>2. z \in Koeintraege
      BY KoEintragTyp DEF GuteLage
    <3>3. z.nr = k /\ z.seiten = F.ko[k].seiten /\ \A i \in Seiten : z.quellen[i] = Leer
      BY DEF KoEintrag, ErsetzteQuellen
    <3> HIDE DEF z
    <3>4. NurErgebnis(z, H)
      BY <1>1, <3>3 DEF NurErgebnis, VonHandGleich
    <3> QED BY <3>1, <3>2, <3>4 DEF z
  <2> QED BY <1>3, <2>1, <2>2 DEF Passt
<1> QED BY <1>4, <1>5 DEF H, b

\* So does what a knockout save reports, which leaves the group results alone.
LEMMA KoNacheinander ==
  ASSUME NEW F, GuteLage(F), NEW k \in Nrn, NEW e, GuteAnfrage(k, e), NEW r, r = KoGespeichert(F, k, e)
  PROVE  Fest(F, r.lage) /\ Passt(r.bericht, r.lage)
<1>1. r.lage.gruppe = F.gruppe
  BY KoHaeltGruppe
<1>2. r.bericht \in Seq(Koeintraege)
  BY KoBericht
<1> QED BY <1>1, <1>2 DEF Fest, Passt

\* One request after the other, the season holds still between a save and its undo.
NacheinanderInv ==
  ~betrieb.zugleich =>
    /\ \A a \in Akteure : Passt(beleg[a].eintraege, Lage)
    /\ \A a \in Akteure : tx[a] # Frei =>
         /\ Fest(Lage, Danach(Lage, tx[a].op))
         /\ Passt(tx[a].op.beleg.eintraege, Danach(Lage, tx[a].op))
         /\ \A b \in Akteure \ {a} : beleg[b].eintraege = <<>>

LEMMA LeerPasst == \A L : Passt(<<>>, L)
BY DEF Passt

LEMMA NacheinanderBeginnt ==
  ASSUME Inv, NacheinanderInv, NEW a \in Akteure, NEW art, NEW r, GuteSpeicherung(Lage, r), Beginnt(a, art, r),
         ~betrieb.zugleich => Fest(Lage, r.lage),
         ~betrieb.zugleich /\ art = "speichern" => Passt(r.bericht, r.lage)
  PROVE  NacheinanderInv'
<1> DEFINE t == tx'[a]
<1>1. /\ betrieb.zugleich \/ \A b \in Akteure \ {a} : tx[b] = Frei /\ beleg[b] = KeinBeleg
      /\ Lage' = Lage /\ beleg' = beleg /\ betrieb' = betrieb
      /\ \A b \in Akteure \ {a} : tx'[b] = tx[b]
      /\ Danach(Lage, t.op) = r.lage
      /\ t.op.beleg.eintraege = <<>> \/ (art = "speichern" /\ t.op.beleg.eintraege = r.bericht)
  BY BeginntSetzt
<1> HIDE DEF t
<1>2. SUFFICES ASSUME ~betrieb.zugleich
               PROVE  /\ \A b \in Akteure : Passt(beleg[b].eintraege, Lage)
                      /\ \A b \in Akteure : tx'[b] # Frei =>
                           /\ Fest(Lage, Danach(Lage, tx'[b].op))
                           /\ Passt(tx'[b].op.beleg.eintraege, Danach(Lage, tx'[b].op))
                           /\ \A c \in Akteure \ {b} : beleg[c].eintraege = <<>>
  BY <1>1 DEF NacheinanderInv
<1>3. \A b \in Akteure : Passt(beleg[b].eintraege, Lage)
  BY <1>2 DEF NacheinanderInv
<1>4. \A b \in Akteure \ {a} : tx'[b] = Frei /\ beleg[b].eintraege = <<>>
  BY <1>1, <1>2 DEF KeinBeleg
<1>5. Fest(Lage, Danach(Lage, t.op)) /\ Passt(t.op.beleg.eintraege, Danach(Lage, t.op))
  BY <1>1, <1>2, LeerPasst
<1> QED BY <1>3, <1>4, <1>5 DEF t

LEMMA NacheinanderBeginne ==
  ASSUME Inv, NacheinanderInv, NEW a \in Akteure, Beginne(a)
  PROVE  NacheinanderInv'
<1>1. DokumenteInv /\ GuteLage(Lage) /\ (~betrieb.zugleich => Sauber(Lage))
  BY DEF Inv, DokumenteInv, EinzelnInv
<1>2. ASSUME NEW p \in betrieb.paarungen, NEW st \in {"offen"} \cup betrieb.ereignisse \cup p,
             BeginneGruppenspiel(a, p, st)
      PROVE  NacheinanderInv'
  <2>1. p \in Paarungen /\ GutesErgebnis(p, st)
    BY <1>1, BoundsAssumption DEF DokumenteInv, GutesErgebnis
  <2> DEFINE r == GruppeGespeichert(Lage, p, st)
  <2>2. GuteSpeicherung(Lage, r)
    BY <1>1, <2>1, GruppeGespeichertGilt
  <2>3. ~betrieb.zugleich => Fest(Lage, r.lage) /\ Passt(r.bericht, r.lage)
    BY <1>1, <2>1, GruppeNacheinander
  <2>4. Beginnt(a, "speichern", r)
    BY <1>2 DEF BeginneGruppenspiel
  <2> HIDE DEF r
  <2> QED BY <2>2, <2>3, <2>4, NacheinanderBeginnt
<1>3. ASSUME NEW k \in Nrn, NEW e \in Anfragen(k), BeginneKoSpiel(a, k, e)
      PROVE  NacheinanderInv'
  <2>1. GuteAnfrage(k, e)
    BY <1>1, AnfragenGut
  <2> DEFINE r == KoGespeichert(Lage, k, e)
  <2>2. GuteSpeicherung(Lage, r)
    BY <1>1, <2>1, KoGespeichertGilt
  <2>3. Fest(Lage, r.lage) /\ Passt(r.bericht, r.lage)
    BY <1>1, <2>1, KoNacheinander
  <2>4. Beginnt(a, "speichern", r)
    BY <1>3 DEF BeginneKoSpiel
  <2> HIDE DEF r
  <2> QED BY <2>2, <2>3, <2>4, NacheinanderBeginnt
<1>4. ASSUME BeginneRuecknahme(a)
      PROVE  NacheinanderInv'
  <2> DEFINE z == beleg[a].eintraege
             r == Zurueckgenommen(Lage, z)
  <2>1. z \in Seq(Eintraege) /\ (~betrieb.zugleich => Passt(z, Lage))
    BY <1>1 DEF DokumenteInv, NacheinanderInv
  <2>2. Beginnt(a, "zuruecknehmen", r)
    BY <1>4 DEF BeginneRuecknahme
  <2>3. r.erlaubt
    BY <2>2 DEF Beginnt
  <2>4. GuteSpeicherung(Lage, r)
    BY <1>1, <2>1, ZurueckgenommenGilt
  <2>5. ~betrieb.zugleich => Fest(Lage, r.lage)
    BY <1>1, <2>1, <2>3, RuecknahmeFest
  <2>6. "zuruecknehmen" # "speichern"
    OBVIOUS
  <2> HIDE DEF r, z
  <2> QED BY <2>2, <2>4, <2>5, <2>6, NacheinanderBeginnt
<1> QED BY <1>2, <1>3, <1>4 DEF Beginne

LEMMA NacheinanderSchreibe ==
  ASSUME Inv, NacheinanderInv, NEW a \in Akteure, Schreibe(a)
  PROVE  NacheinanderInv' /\ (~betrieb.zugleich => Fest(Lage, Lage'))
<1> DEFINE op == tx[a].op
<1>1. tx = [b \in Akteure |-> tx[b]] /\ beleg = [b \in Akteure |-> beleg[b]]
  BY DEF Inv, DokumenteInv
<1>2. tx[a] # Frei
  BY DEF Schreibe, Frei
<1>3. /\ Lage' = Danach(Lage, op)
      /\ betrieb' = betrieb
      /\ beleg' = [beleg EXCEPT ![a] = op.beleg]
      /\ tx' = [b \in Akteure |-> IF b = a \/ Kollidiert(tx[a], tx[b]) THEN Frei ELSE tx[b]]
  BY <1>1 DEF Schreibe, Festgeschrieben, Lage, Danach
<1> HIDE DEF op
<1>4. /\ \A b \in Akteure : beleg'[b] = IF b = a THEN op.beleg ELSE beleg[b]
      /\ \A b \in Akteure : tx'[b] \in {Frei, tx[b]}
      /\ tx'[a] = Frei
  BY <1>1, <1>3
<1>5. ASSUME ~betrieb.zugleich
      PROVE  /\ Fest(Lage, Lage')
             /\ \A b \in Akteure : tx'[b] = Frei /\ Passt(beleg'[b].eintraege, Lage')
  <2>1. /\ Fest(Lage, Danach(Lage, op)) /\ Passt(op.beleg.eintraege, Danach(Lage, op))
        /\ \A b \in Akteure \ {a} : beleg[b].eintraege = <<>>
    BY <1>2, <1>5 DEF NacheinanderInv, op
  <2>2. \A b \in Akteure \ {a} : tx[b] = Frei
    BY <1>2, <1>5 DEF Inv, EinzelnInv
  <2> QED BY <1>3, <1>4, <2>1, <2>2, LeerPasst
<1> QED BY <1>3, <1>5 DEF NacheinanderInv

LEMMA NacheinanderAbbruch ==
  ASSUME Inv, NacheinanderInv, NEW a \in Akteure, Abbruch(a)
  PROVE  NacheinanderInv'
<1>1. tx' = [tx EXCEPT ![a] = Frei] /\ Lage' = Lage /\ beleg' = beleg /\ betrieb' = betrieb
  BY DEF Abbruch, daten, Lage
<1>2. tx = [b \in Akteure |-> tx[b]]
  BY DEF Inv, DokumenteInv
<1>3. \A b \in Akteure : tx'[b] = IF b = a THEN Frei ELSE tx[b]
  BY <1>1, <1>2
<1> QED BY <1>1, <1>3 DEF NacheinanderInv

LEMMA NacheinanderAnfang ==
  ASSUME Init
  PROVE  NacheinanderInv
<1>1. \A a \in Akteure : beleg[a].eintraege = <<>> /\ tx[a] = Frei
  BY DEF Init, KeinBeleg
<1> QED BY <1>1, LeerPasst DEF NacheinanderInv

\* One step of requests that do not overlap.
LEMMA SchrittFest ==
  ASSUME Inv, NacheinanderInv, [Next]_vars
  PROVE  NacheinanderInv' /\ betrieb' = betrieb /\ (~betrieb.zugleich => Fest(Lage, Lage'))
<1>1. Lage' = Lage => Fest(Lage, Lage')
  BY DEF Fest
<1>2. CASE UNCHANGED vars
  <2>1. Lage' = Lage /\ tx' = tx /\ beleg' = beleg /\ betrieb' = betrieb
    BY <1>2 DEF vars, daten, Lage
  <2> QED BY <1>1, <2>1 DEF NacheinanderInv
<1>3. ASSUME NEW a \in Akteure, Beginne(a)
      PROVE  Lage' = Lage /\ betrieb' = betrieb
  BY <1>3 DEF Beginne, BeginneGruppenspiel, BeginneKoSpiel, BeginneRuecknahme, Beginnt, daten, Lage
<1>4. ASSUME NEW a \in Akteure, Abbruch(a)
      PROVE  Lage' = Lage /\ betrieb' = betrieb
  BY <1>4 DEF Abbruch, daten, Lage
<1>5. ASSUME NEW a \in Akteure, Schreibe(a)
      PROVE  betrieb' = betrieb
  BY <1>5 DEF Schreibe
<1> QED BY <1>1, <1>2, <1>3, <1>4, <1>5, NacheinanderBeginne, NacheinanderSchreibe, NacheinanderAbbruch DEF Next

\* One request after the other, a placing handed on is one no result still to come can take
\* away: a save or an undo that only records group fixtures nobody had decided moves no club
\* out of a slot a placing filled (DecidedStanding.by_platz, resolve_bracket).
THEOREM EingesetztesBleibt == Spec /\ ~betrieb.zugleich => EingesetztesStehtFest
<1> DEFINE Geschieht ==
      gruppe' # gruppe /\ (\A p \in Paarungen : gruppe'[p] # gruppe[p] => gruppe[p] = "offen")
        => \A k \in Nrn : \A i \in Seiten :
             LET q == ko[k].quellen[i]
                 vomPlatz == q # Ohne /\ ko'[k].quellen[i] = q /\ q.art = "gruppe"
             IN vomPlatz /\ ko[k].seiten[i] # Leer
                  => ko'[k].seiten[i] = ko[k].seiten[i]
<1>1. Init => NacheinanderInv
  BY NacheinanderAnfang
<1>2. Inv /\ NacheinanderInv /\ [Next]_vars => NacheinanderInv'
  BY SchrittFest
<1>3. Inv /\ NacheinanderInv /\ ~betrieb.zugleich /\ [Next]_vars => (~betrieb.zugleich)'
  BY SchrittFest
<1>4. Inv /\ NacheinanderInv /\ ~betrieb.zugleich /\ [Next]_vars => [Geschieht]_vars
  <2> SUFFICES ASSUME Inv, NacheinanderInv, ~betrieb.zugleich, [Next]_vars,
                      gruppe' # gruppe, \A p \in Paarungen : gruppe'[p] # gruppe[p] => gruppe[p] = "offen",
                      NEW k \in Nrn, NEW i \in Seiten, NEW q, q = ko[k].quellen[i],
                      q # Ohne, q.art = "gruppe", ko[k].seiten[i] # Leer
               PROVE  ko'[k].seiten[i] = ko[k].seiten[i]
    OBVIOUS
  <2>1. Fest(Lage, Lage')
    BY SchrittFest
  <2>2. Lage.gruppe = gruppe /\ Lage'.gruppe = gruppe' /\ Lage.ko = ko /\ Lage'.ko = ko'
    BY DEF Lage
  <2>3. q \in Quellform
    BY <2>2 DEF Inv, DokumenteInv, GuteLage, Spiele
  <2>4. q \in Platzquellen
    BY <2>3, Quellenarten DEF Quellform
  <2> HIDE DEF Geschieht
  <2>5. Standhaft(Lage, Lage')
    BY <2>1, <2>2 DEF Fest
  <2> QED BY <2>2, <2>4, <2>5 DEF Standhaft
<1>5. [][Geschieht]_vars => EingesetztesStehtFest
  BY DEF EingesetztesStehtFest
<1> HIDE DEF Geschieht
<1> QED BY <1>1, <1>2, <1>3, <1>4, <1>5, InvGilt, PTL DEF Spec

-----------------------------------------------------------------------------
(* The undo of a save: what the pass leaves alone. *)

LEMMA NichtsGeteilt ==
  ASSUME NEW b, QuellenEinfach(b)
  PROVE  Geteilt(b) = {}
<1> SUFFICES ASSUME NEW q \in Geteilt(b) PROVE FALSE
  OBVIOUS
<1> DEFINE S == {k \in Nrn : q \in Quellen(k, b)}
<1>1. Cardinality(S) > 1
  BY DEF Geteilt
<1>2. \A k, l \in S : k = l
  <2> SUFFICES ASSUME NEW k \in S, NEW l \in S, k # l PROVE FALSE
    OBVIOUS
  <2>1. PICK i \in Seiten : b[k].quellen[i] = q /\ q # Ohne
    BY DEF Quellen
  <2>2. PICK j \in Seiten : b[l].quellen[j] = q
    BY DEF Quellen
  <2> DEFINE x == <<k, i>>
             y == <<l, j>>
  <2>3. x \in Nrn \X Seiten /\ y \in Nrn \X Seiten /\ x # y /\ x[1] = k /\ x[2] = i /\ y[1] = l /\ y[2] = j
    OBVIOUS
  <2> HIDE DEF x, y
  <2> QED BY <2>1, <2>2, <2>3 DEF QuellenEinfach
<1> HIDE DEF S
<1>3. CASE S = {}
  BY <1>1, <1>3, FS_EmptySet
<1>4. CASE S # {}
  <2>1. PICK k \in S : TRUE
    BY <1>4
  <2>2. S = {k}
    BY <1>2, <2>1
  <2> QED BY <1>1, <2>2, FS_Singleton
<1> QED BY <1>3, <1>4

\* What the pass finds for a fixture, told of the bracket the pass leaves.
Endseiten(F, k) ==
  [i \in Seiten |-> Besetzung(Aufloesung(F).lage, Geteilt(F.ko), Aufloesung(F).bewegt,
                              F.ko[k].quellen[i], F.ko[k].seiten[i])]

EinVerein(s) == s[1] = s[2] /\ s[1] # Leer

LEMMA EndseitenGelten ==
  ASSUME NEW F, GuteLage(F), NEW k \in Nrn
  PROVE  LET A == Aufloesung(F)
             s == Endseiten(F, k)
         IN  \/ (s = F.ko[k].seiten \/ EinVerein(s)) /\ k \notin A.bewegt /\ A.lage.ko[k] = F.ko[k]
             \/ ~(s = F.ko[k].seiten \/ EinVerein(s)) /\ k \in A.bewegt /\ A.lage.ko[k].seiten = s
<1> DEFINE a == Aufgeloest(F)
<1>1. PICK n \in 1..N : Reihe[n] = k
  BY ReiheGilt
<1>2. N \in Nat /\ n \in Nat /\ n \in 0..N /\ n - 1 \in 0..N /\ N \in 0..N /\ n - 1 < n /\ n >= n /\ N >= n /\ n - 1 \in Nat
  BY NEndlich
<1>3. Aufloesung(F) = a[N]
  BY DEF Aufloesung, N
<1>4. Bewegung(a[n - 1], a[n], k, NeueSeiten(a[n - 1], Geteilt(F.ko), k))
  BY <1>1, SchrittGilt
<1>5. \A j \in 1..N : /\ \A m \in 0..N : m < j => a[m].lage.ko[Reihe[j]] = F.ko[Reihe[j]] /\ Reihe[j] \notin a[m].bewegt
                      /\ \A m \in 0..N : m >= j => /\ a[m].lage.ko[Reihe[j]] = a[j].lage.ko[Reihe[j]]
                                                   /\ Reihe[j] \in a[m].bewegt <=> Reihe[j] \in a[j].bewegt
  BY VorUndNach
<1>6. Durchlauf(F, a[n - 1]) /\ Durchlauf(F, a[N])
  BY <1>2, DurchlaufGilt
<1> HIDE DEF a
<1>7. /\ a[n - 1].lage.ko[k] = F.ko[k] /\ k \notin a[n - 1].bewegt
      /\ a[N].lage.ko[k] = a[n].lage.ko[k] /\ (k \in a[N].bewegt <=> k \in a[n].bewegt)
  BY <1>1, <1>2, <1>5
<1> DEFINE r == a[n - 1]
           neu == NeueSeiten(r, Geteilt(F.ko), k)
           s == Endseiten(F, k)
<1>8. ASSUME NEW i \in Seiten PROVE neu[i] = s[i]
  <2> DEFINE q == F.ko[k].quellen[i]
             t == F.ko[k].seiten[i]
             g == Geteilt(F.ko)
             A == a[N]
  <2>1. neu[i] = Besetzung(r.lage, g, r.bewegt, q, t)
    BY <1>7 DEF NeueSeiten
  <2>2. s[i] = Besetzung(A.lage, g, A.bewegt, q, t)
    BY <1>3 DEF Endseiten
  <2>3. GutesSpiel(k, F.ko[k]) /\ q \in Quellform
    BY DEF GuteLage, GutesSpiel, Spiele
  <2>4. r.lage.gruppe = A.lage.gruppe
    BY <1>6 DEF Durchlauf
  <2>5. \A h : Abschluss(r.lage, h) = Abschluss(A.lage, h)
    BY <2>4, AbschlussGleich
  <2>6. ASSUME q \in Spielquellen
        PROVE  r.lage.ko[q.nr] = A.lage.ko[q.nr] /\ (q.nr \in r.bewegt <=> q.nr \in A.bewegt)
    <3>1. q.nr \in Nrn /\ Runde[q.nr] < Runde[k]
      BY <2>3, <2>6, Quellenarten DEF GutesSpiel
    <3>2. PICK j \in 1..N : Reihe[j] = q.nr
      BY <3>1, ReiheGilt
    <3>3. j < n /\ j \in Nat
      BY <1>1, <1>2, <3>1, <3>2, ReiheOhneWiederholung
    <3>4. n - 1 >= j /\ N >= j
      BY <1>2, <3>3
    <3>5. /\ a[n - 1].lage.ko[Reihe[j]] = a[j].lage.ko[Reihe[j]]
          /\ Reihe[j] \in a[n - 1].bewegt <=> Reihe[j] \in a[j].bewegt
          /\ a[N].lage.ko[Reihe[j]] = a[j].lage.ko[Reihe[j]]
          /\ Reihe[j] \in a[N].bewegt <=> Reihe[j] \in a[j].bewegt
      BY <1>2, <1>5, <3>4
    <3> QED BY <3>2, <3>5
  <2> HIDE DEF neu, s, q, t, g, r, A
  <2>7. CASE q \in Spielquellen
    <3>1. q.art # "gruppe" /\ q # Ohne
      BY <2>7, Quellenarten
    <3>2. Ausgang(r.lage, r.bewegt, q) = Ausgang(A.lage, A.bewegt, q)
      BY <2>6, <2>7 DEF Ausgang
    <3> QED BY <2>1, <2>2, <3>1, <3>2 DEF Besetzung, Gepflegt
  <2>8. CASE q \in Platzquellen
    <3>1. q.art = "gruppe"
      BY <2>8, Quellenarten
    <3> QED BY <2>1, <2>2, <2>5, <3>1 DEF Besetzung, Gepflegt
  <2>9. CASE q = Ohne
    BY <2>1, <2>2, <2>9 DEF Besetzung, Gepflegt
  <2> QED BY <2>3, <2>7, <2>8, <2>9 DEF Quellform
<1>9. neu = [i \in Seiten |-> neu[i]] /\ s = [i \in Seiten |-> s[i]]
  BY DEF NeueSeiten, Endseiten
<1> HIDE DEF neu, s
<1>10. neu = s
  BY <1>8, <1>9
<1>11. \/ Still(r, k, neu) /\ k \notin a[N].bewegt /\ a[N].lage.ko[k] = F.ko[k]
       \/ ~Still(r, k, neu) /\ k \in a[N].bewegt /\ a[N].lage.ko[k].seiten = neu
  BY <1>4, <1>7 DEF Bewegung, neu
<1>12. Still(r, k, neu) <=> (s = F.ko[k].seiten \/ EinVerein(s))
  BY <1>7, <1>10 DEF Still, EinVerein
<1> QED BY <1>3, <1>10, <1>11, <1>12 DEF s

\* A clean season: each fixture has the sides its sources decide, unless they decide one club twice.
LEMMA SauberRuht ==
  ASSUME NEW F, GuteLage(F), Sauber(F), NEW k \in Nrn
  PROVE  Platzseiten(F, k) = F.ko[k].seiten \/ EinVerein(Platzseiten(F, k))
<1> DEFINE A == Aufloesung(F)
<1>1. A.bewegt = {} /\ Durchlauf(F, A)
  BY AufloesungGilt DEF Sauber
<1>2. Endseiten(F, k) = F.ko[k].seiten \/ EinVerein(Endseiten(F, k))
  BY <1>1, EndseitenGelten
<1> HIDE DEF A
<1>3. A.lage.gruppe = F.gruppe /\ \A l \in Nrn : A.lage.ko[l] = F.ko[l]
  BY <1>1 DEF Durchlauf
<1>4. ASSUME NEW i \in Seiten, NEW q, q = F.ko[k].quellen[i]
      PROVE  Besetzung(A.lage, Geteilt(F.ko), {}, q, F.ko[k].seiten[i])
               = Besetzung(F, Geteilt(F.ko), {}, q, F.ko[k].seiten[i])
  <2>1. q \in Quellform
    BY <1>4 DEF GuteLage, Spiele
  <2>2. \A h : Abschluss(A.lage, h) = Abschluss(F, h)
    BY <1>3, AbschlussGleich
  <2>3. q \in Spielquellen => q.nr \in Nrn /\ q.art # "gruppe"
    BY Quellenarten
  <2>4. q \in Platzquellen => q.art = "gruppe"
    BY Quellenarten
  <2>5. q \in Spielquellen => Ausgang(A.lage, {}, q) = Ausgang(F, {}, q)
    BY <1>3, <2>3 DEF Ausgang
  <2> QED BY <2>1, <2>2, <2>3, <2>4, <2>5 DEF Besetzung, Gepflegt, Quellform
<1>5. Endseiten(F, k) = Platzseiten(F, k)
  BY <1>1, <1>4 DEF Endseiten, Platzseiten, A
<1> QED BY <1>2, <1>5

\* Whom a match sends on stood in it, and it sends its winner and its loser apart.
LEMMA AusgangStand ==
  ASSUME NEW F, GuteLage(F), NEW q \in Spielquellen, Ausgang(F, {}, q) # Leer
  PROVE  /\ \E i \in Seiten : F.ko[q.nr].seiten[i] = Ausgang(F, {}, q)
         /\ F.ko[q.nr].stand \in Teams
         /\ q.ausgang = "sieger" <=> Ausgang(F, {}, q) = F.ko[q.nr].stand
<1> DEFINE d == F.ko[q.nr]
           S == {d.seiten[i] : i \in Seiten} \ {d.stand}
<1>1. q.nr \in Nrn
  BY Quellenarten
<1>2. GutesSpiel(q.nr, d) /\ d.stand \in Teams
  BY <1>1 DEF GuteLage, Ausgang
<1> HIDE DEF d
<1>3. HatErgebnis(d.stand) /\ d.stand # "remis"
  BY <1>2, NamenAssumption DEF HatErgebnis
<1>4. \E i \in Seiten : d.stand = d.seiten[i]
  BY <1>2, <1>3 DEF GutesSpiel
<1>5. Ausgang(F, {}, q) = IF q.ausgang = "sieger" THEN d.stand ELSE Einziger(S)
  BY <1>2 DEF Ausgang, d
<1>6. q.ausgang # "sieger" => Ausgang(F, {}, q) \in S
  BY <1>5, EinzigerIst
<1> QED BY <1>2, <1>4, <1>5, <1>6 DEF d

\* A fixture fed from one round is sent two clubs, for nobody stands twice in that round.
LEMMA ZweiVereine ==
  ASSUME NEW F, GuteLage(F), Sauber(F), AusEinerRunde(F.ko), NEW k \in Nrn,
         \A i \in Seiten : F.ko[k].quellen[i] \in Spielquellen
  PROVE  Platzseiten(F, k) = F.ko[k].seiten
<1> SUFFICES ASSUME EinVerein(Platzseiten(F, k)) PROVE FALSE
  BY SauberRuht
<1> DEFINE s == Platzseiten(F, k)
           c == s[1]
           q(i) == F.ko[k].quellen[i]
<1>1. 1 \in Seiten /\ 2 \in Seiten /\ s[1] = c /\ s[2] = c /\ c # Leer
  BY DEF EinVerein, Seiten
<1>2. KeinDoppel(F.ko) /\ QuellenEinfach(F.ko) /\ Geteilt(F.ko) = {}
  BY DoppelteLeer, NichtsGeteilt DEF Sauber
<1>3. ASSUME NEW i \in Seiten PROVE q(i) \in Spielquellen /\ q(i).nr \in Nrn /\ Ausgang(F, {}, q(i)) = c
  <2>1. q(i) \in Spielquellen /\ q(i).nr \in Nrn /\ q(i).art # "gruppe" /\ q(i) # Ohne
    BY Quellenarten
  <2>2. s[i] = Besetzung(F, {}, {}, q(i), F.ko[k].seiten[i])
    BY <1>2 DEF Platzseiten
  <2>3. s[i] = c
    BY <1>1 DEF Seiten
  <2> HIDE DEF s, c, q
  <2> QED BY <2>1, <2>2, <2>3 DEF Besetzung, Gepflegt
<1> HIDE DEF s, c
<1>4. ASSUME NEW i \in Seiten
      PROVE  \E m \in Seiten : F.ko[q(i).nr].seiten[m] = c
  <2>1. q(i) \in Spielquellen /\ Ausgang(F, {}, q(i)) = c
    BY <1>3
  <2> HIDE DEF q
  <2> QED BY <1>1, <2>1, AusgangStand
<1>5. Runde[q(1).nr] = Runde[q(2).nr]
  BY <1>1, <1>3 DEF AusEinerRunde
<1>6. q(1) # q(2)
  <2> DEFINE x == <<k, 1>>
             y == <<k, 2>>
  <2>1. x \in Nrn \X Seiten /\ y \in Nrn \X Seiten /\ x # y /\ x[1] = k /\ x[2] = 1 /\ y[1] = k /\ y[2] = 2
    BY <1>1
  <2>2. F.ko[k].quellen[1] # Ohne
    BY <1>1, <1>3, Quellenarten
  <2> HIDE DEF x, y
  <2> QED BY <1>2, <2>1, <2>2 DEF QuellenEinfach
<1>7. CASE q(1).nr # q(2).nr
  <2>1. PICK m \in Seiten : F.ko[q(1).nr].seiten[m] = c
    BY <1>1, <1>4
  <2>2. PICK n \in Seiten : F.ko[q(2).nr].seiten[n] = c
    BY <1>1, <1>4
  <2> DEFINE x == <<q(1).nr, m>>
             y == <<q(2).nr, n>>
  <2>3. x \in Nrn \X Seiten /\ y \in Nrn \X Seiten /\ x # y
        /\ x[1] = q(1).nr /\ x[2] = m /\ y[1] = q(2).nr /\ y[2] = n
    BY <1>1, <1>3, <1>7
  <2>4. F.ko[q(1).nr].seiten[m] \in Teams
    <3>1. F.ko[q(1).nr] \in Spiele
      BY <1>1, <1>3 DEF GuteLage
    <3> QED BY <1>1, <2>1, <3>1 DEF Spiele
  <2> HIDE DEF x, y, q
  <2> QED BY <1>2, <1>5, <2>1, <2>2, <2>3, <2>4 DEF KeinDoppel
<1>8. CASE q(1).nr = q(2).nr
  <2>1. q(1) \in Spielquellen /\ q(2) \in Spielquellen /\ Ausgang(F, {}, q(1)) = c /\ Ausgang(F, {}, q(2)) = c
    BY <1>1, <1>3
  <2> HIDE DEF q
  <2>2. (q(1).ausgang = "sieger" <=> c = F.ko[q(1).nr].stand) /\ (q(2).ausgang = "sieger" <=> c = F.ko[q(2).nr].stand)
    BY <1>1, <2>1, AusgangStand
  <2>3. \A x \in Spielquellen : x = [art |-> "spiel", nr |-> x.nr, ausgang |-> x.ausgang]
                                /\ x.ausgang \in {"sieger", "verlierer"}
    BY DEF Spielquellen
  <2>4. q(1).ausgang = q(2).ausgang
    BY <1>8, <2>1, <2>2, <2>3
  <2>5. q(1) = q(2)
    BY <1>8, <2>1, <2>3, <2>4
  <2> QED BY <1>6, <2>5 DEF q
<1> QED BY <1>7, <1>8

\* Nobody comes from a match that is not decided, or whose sides have moved.
LEMMA NiemandKommt ==
  ASSUME NEW L, GuteLage(L), Geteilt(L.ko) = {}, NEW k \in Nrn, NEW i \in Seiten,
         NEW q, q = L.ko[k].quellen[i], q \in Spielquellen,
         q.nr \in Aufloesung(L).bewegt \/ L.ko[q.nr].stand \notin Teams
  PROVE  Endseiten(L, k)[i] = Leer
<1> DEFINE A == Aufloesung(L)
<1>1. q.nr \in Nrn /\ q.art # "gruppe" /\ q # Ohne
  BY Quellenarten
<1>2. Durchlauf(L, A)
  BY AufloesungGilt
<1>3. Endseiten(L, k)[i] = Besetzung(A.lage, {}, A.bewegt, q, L.ko[k].seiten[i])
  BY DEF Endseiten
<1> HIDE DEF A
<1>4. q.nr \notin A.bewegt => A.lage.ko[q.nr] = L.ko[q.nr]
  BY <1>1, <1>2 DEF Durchlauf
<1>5. q.nr \in A.bewegt \/ A.lage.ko[q.nr].stand \notin Teams
  BY <1>4 DEF A
<1> QED BY <1>1, <1>3, <1>5 DEF Besetzung, Gepflegt, Ausgang

\* Fixture n stands in L as in F, and L's resolution leaves it.
Unbewegt(F, L, n) == n \notin Aufloesung(L).bewegt /\ L.ko[n] = F.ko[n]

\* A side decided by what has not changed is decided as it was.
LEMMA WieVorher ==
  ASSUME NEW F, GuteLage(F), Geteilt(F.ko) = {}, NEW L, GuteLage(L), Geteilt(L.ko) = {}, L.gruppe = F.gruppe,
         NEW k \in Nrn, L.ko[k].quellen = F.ko[k].quellen, NEW i \in Seiten,
         F.ko[k].quellen[i] \in Spielquellen => Unbewegt(F, L, F.ko[k].quellen[i].nr),
         F.ko[k].quellen[i] \notin Spielquellen =>
           L.ko[k].seiten[i] = F.ko[k].seiten[i] \/ Gepflegt(F, {}, F.ko[k].quellen[i])
  PROVE  Endseiten(L, k)[i] = Platzseiten(F, k)[i]
<1> DEFINE A == Aufloesung(L)
           q == F.ko[k].quellen[i]
<1>1. Durchlauf(L, A)
  BY AufloesungGilt
<1>2. Endseiten(L, k)[i] = Besetzung(A.lage, {}, A.bewegt, q, L.ko[k].seiten[i])
  BY DEF Endseiten
<1>3. Platzseiten(F, k)[i] = Besetzung(F, {}, {}, q, F.ko[k].seiten[i])
  BY DEF Platzseiten
<1>4. q \in Spielquellen => q.nr \notin A.bewegt /\ L.ko[q.nr] = F.ko[q.nr]
  BY DEF Unbewegt
<1>0. q \notin Spielquellen => L.ko[k].seiten[i] = F.ko[k].seiten[i] \/ Gepflegt(F, {}, q)
  OBVIOUS
<1> HIDE DEF A
<1>5. q \in Quellform
  BY DEF GuteLage, Spiele
<1> HIDE DEF q
<1>6. \A h : Abschluss(A.lage, h) = Abschluss(F, h)
  BY <1>1, AbschlussGleich DEF Durchlauf
<1>7. CASE q \in Spielquellen
  <2>1. q.nr \in Nrn /\ q.art # "gruppe" /\ q # Ohne
    BY <1>7, Quellenarten
  <2>2. q.nr \notin A.bewegt /\ A.lage.ko[q.nr] = F.ko[q.nr]
    BY <1>1, <1>4, <1>7, <2>1 DEF Durchlauf
  <2>3. Ausgang(A.lage, A.bewegt, q) = Ausgang(F, {}, q)
    BY <2>2 DEF Ausgang
  <2> QED BY <1>2, <1>3, <2>1, <2>3 DEF Besetzung, Gepflegt
<1>8. CASE q \notin Spielquellen
  <2>1. q = Ohne \/ q.art = "gruppe"
    BY <1>5, <1>8, Quellenarten DEF Quellform
  <2>2. Gepflegt(A.lage, {}, q) <=> Gepflegt(F, {}, q)
    BY <1>6 DEF Gepflegt
  <2> QED BY <1>0, <1>2, <1>3, <1>6, <1>8, <2>1, <2>2 DEF Besetzung, Gepflegt
<1> QED BY <1>7, <1>8

\* A fixture of D fed by one outside D has nobody on that side, and waits for a match without a winner.
Wartet(F, L, D) ==
  \A k \in D : \A i \in Seiten :
    F.ko[k].quellen[i] \in Spielquellen /\ F.ko[k].quellen[i].nr \notin D
      => F.ko[k].seiten[i] = Leer /\ L.ko[F.ko[k].quellen[i].nr].stand \notin Teams

\* The fixtures that stand as in the clean season F, whatever is pending
\* behind them, are not moved by the resolution.
LEMMA ErledigtesRuht ==
  ASSUME NEW F, GuteLage(F), Sauber(F), AusEinerRunde(F.ko),
         NEW L, GuteLage(L), L.gruppe = F.gruppe, Geteilt(L.ko) = {},
         NEW D \in SUBSET Nrn, \A k \in D : L.ko[k] = F.ko[k], Wartet(F, L, D)
  PROVE  \A k \in D : k \notin Aufloesung(L).bewegt
<1> DEFINE B == Aufloesung(L).bewegt
           R == {Runde[k] : k \in D \cap B}
<1>1. SUFFICES ASSUME R # {} PROVE FALSE
  OBVIOUS
<1>2. R \subseteq Nat
  BY RundeAssumption
<1>3. PICK r \in R : \A x \in R : r <= x
  <2> HIDE DEF R
  <2> QED BY <1>1, <1>2, Kleinstes
<1>4. PICK k \in D \cap B : \A l \in D \cap B : Runde[k] <= Runde[l]
  BY <1>3
<1>5. k \in Nrn /\ k \in B /\ k \in D /\ L.ko[k] = F.ko[k] /\ Geteilt(F.ko) = {}
  BY NichtsGeteilt, <1>4 DEF Sauber
<1> DEFINE s == Endseiten(L, k)
           p == Platzseiten(F, k)
           q(i) == F.ko[k].quellen[i]
           offen(i) == q(i) \in Spielquellen /\ q(i).nr \notin D
<1>6. \A i \in Seiten : q(i) \in Spielquellen => q(i).nr \in Nrn /\ Runde[q(i).nr] < Runde[k] /\ q(i) \in Quellform
  BY <1>5, Quellenarten DEF GuteLage, GutesSpiel, Quellform
<1>7. ASSUME NEW i \in Seiten, ~offen(i) PROVE s[i] = p[i]
  <2>1. q(i) \in Spielquellen => q(i).nr \notin B /\ L.ko[q(i).nr] = F.ko[q(i).nr]
    <3> SUFFICES ASSUME q(i) \in Spielquellen PROVE q(i).nr \notin B /\ L.ko[q(i).nr] = F.ko[q(i).nr]
      OBVIOUS
    <3>1. q(i).nr \in D /\ q(i).nr \in Nrn /\ Runde[q(i).nr] < Runde[k]
      BY <1>6, <1>7
    <3>2. Runde[q(i).nr] \in Nat /\ Runde[k] \in Nat
      BY <1>5, <3>1, RundeAssumption
    <3> HIDE DEF q, B
    <3> QED BY <1>4, <3>1, <3>2
  <2>2. q(i) \in Spielquellen => Unbewegt(F, L, q(i).nr)
    BY <2>1 DEF Unbewegt
  <2>3. L.ko[k].quellen = F.ko[k].quellen /\ L.ko[k].seiten[i] = F.ko[k].seiten[i]
    BY <1>5
  <2> HIDE DEF B, R
  <2> QED BY <1>5, <2>2, <2>3, WieVorher
<1>8. ASSUME NEW i \in Seiten, offen(i) PROVE s[i] = Leer /\ F.ko[k].seiten[i] = Leer
  <2>1. F.ko[k].seiten[i] = Leer /\ L.ko[q(i).nr].stand \notin Teams
    BY <1>5, <1>8 DEF Wartet
  <2> QED BY <1>5, <1>8, <2>1, NiemandKommt
<1>9. p = F.ko[k].seiten \/ EinVerein(p)
  BY <1>5, SauberRuht
<1>10. ~(s = F.ko[k].seiten \/ EinVerein(s))
  BY <1>5, EndseitenGelten
<1>11. /\ s = [i \in Seiten |-> s[i]] /\ p = [i \in Seiten |-> p[i]]
       /\ F.ko[k].seiten = [i \in Seiten |-> F.ko[k].seiten[i]]
  <2>1. F.ko[k].seiten = [i \in Seiten |-> F.ko[k].seiten[i]]
    BY <1>5 DEF GuteLage, Spiele
  <2> QED BY <2>1 DEF Endseiten, Platzseiten
<1>12. PICK i \in Seiten : offen(i)
  <2> SUFFICES ASSUME \A i \in Seiten : ~offen(i) PROVE FALSE
    OBVIOUS
  <2>1. \A i \in Seiten : s[i] = p[i]
    BY <1>7
  <2> HIDE DEF s, p, offen
  <2>2. s = p
    BY <1>11, <2>1
  <2> QED BY <1>9, <1>10, <2>2
<1>13. \E j \in Seiten : s[j] # F.ko[k].seiten[j]
  <2> HIDE DEF s
  <2> QED BY <1>10, <1>11
<1>14. PICK j \in Seiten : s[j] # F.ko[k].seiten[j]
  BY <1>13
<1>15. ~offen(j) /\ s[j] = p[j] /\ p[j] # F.ko[k].seiten[j]
  BY <1>7, <1>8, <1>14
<1>16. q(j) \in Spielquellen
  <2>1. q(j) \in Quellform
    BY <1>5 DEF GuteLage, Spiele
  <2>2. q(j) # Ohne
    <3>1. p[j] = Besetzung(F, {}, {}, q(j), F.ko[k].seiten[j])
      BY <1>5 DEF Platzseiten
    <3> HIDE DEF p
    <3> QED BY <1>15, <3>1 DEF Besetzung, Gepflegt
  <2>3. q(j) \notin Platzquellen
    BY <1>5, <1>12, PlatzInDerErsten
  <2> QED BY <2>1, <2>2, <2>3 DEF Quellform
<1>17. i # j
  BY <1>12, <1>15
<1>18. \A m \in Seiten : F.ko[k].quellen[m] \in Spielquellen
  <2>1. \A m \in Seiten : m = i \/ m = j
    BY <1>17 DEF Seiten
  <2> QED BY <1>12, <1>16, <2>1
<1>19. p = F.ko[k].seiten
  BY <1>5, <1>18, ZweiVereine
<1> QED BY <1>15, <1>19

\* Under some ending every fixture left is drawn.
LEMMA EinEnde ==
  ASSUME NEW e, NEW g \in DOMAIN Gruppen
  PROVE  Endungen(e, g) # {}
<1> DEFINE offen == OffenePaarungen(e, g)
           h == [p \in offen |-> "remis"]
<1>1. h \in [offen -> Gruppen[g] \cup {"remis", "abgesagt"}] /\ \A p \in offen : h[p] \in p \cup {"remis", "abgesagt"}
  OBVIOUS
<1> HIDE DEF h, offen
<1>2. [p \in Begegnungen[g] |-> IF p \in offen THEN h[p] ELSE e[p]] \in Endungen(e, g)
  BY <1>1 DEF Endungen, offen
<1> QED BY <1>2

\* No club is decided for two placings.
LEMMA EinPlatzJeVerein ==
  ASSUME NEW F, GuteLage(F), NEW q \in Platzquellen, NEW s \in Platzquellen,
         q.platz \in DOMAIN Abschluss(F, q.gruppe), s.platz \in DOMAIN Abschluss(F, s.gruppe),
         NEW c, c # Leer, Abschluss(F, q.gruppe)[q.platz] = c, Abschluss(F, s.gruppe)[s.platz] = c
  PROVE  q = s
<1> DEFINE Auf(g, platz) == {t \in Gruppen[g] : \A f \in Endungen(Tafel(F, g), g) : StehtAuf(Tafel(F, g), f, g, platz, t)}
<1>1. \A x \in Platzquellen : /\ x = [art |-> "gruppe", gruppe |-> x.gruppe, platz |-> x.platz]
                              /\ x.gruppe \in DOMAIN Gruppen /\ x.platz \in Nat
  BY DEF Platzquellen
<1>2. ASSUME NEW x \in Platzquellen, x.platz \in DOMAIN Abschluss(F, x.gruppe), Abschluss(F, x.gruppe)[x.platz] = c
      PROVE  c \in Auf(x.gruppe, x.platz)
  <2> DEFINE g == x.gruppe
             e == Tafel(F, g)
  <2>1. Abschluss(F, g) = [y \in 1..Cardinality(Platzierbar(e, g)) |-> Platzierter(e, g, y)]
    BY <1>1, AbschlussIst
  <2>2. Platzierter(e, g, x.platz) = Einziger(Auf(g, x.platz))
    BY DEF Platzierter
  <2> HIDE DEF e, g, Auf
  <2>3. Abschluss(F, g)[x.platz] = Platzierter(e, g, x.platz)
    BY <1>2, <2>1 DEF g
  <2>4. Einziger(Auf(g, x.platz)) = c
    BY <1>2, <2>2, <2>3 DEF g
  <2> QED BY <2>4, EinzigerIst DEF g
<1>3. c \in Auf(q.gruppe, q.platz) /\ c \in Auf(s.gruppe, s.platz)
  BY <1>2
<1>4. q.gruppe = s.gruppe
  <2>1. c \in Gruppen[q.gruppe] \cap Gruppen[s.gruppe]
    BY <1>3
  <2> QED BY <1>1, <2>1, GruppenAssumption
<1> DEFINE g == q.gruppe
           e == Tafel(F, g)
<1>5. g \in DOMAIN Gruppen
  BY <1>1
<1>6. PICK f \in Endungen(e, g) : TRUE
  BY <1>5, EinEnde
<1>7. StehtAuf(e, f, g, q.platz, c) /\ StehtAuf(e, f, g, s.platz, c)
  BY <1>3, <1>4, <1>6
<1> HIDE DEF e, g
<1>8. q.platz - 1 = s.platz - 1
  BY <1>7 DEF StehtAuf
<1>9. q.platz = s.platz
  BY <1>1, <1>8
<1> QED BY <1>1, <1>4, <1>9

\* A bracket as the draw wires it, with nobody twice in a round and resolved.
GuterStand(F) == GuteLage(F) /\ Sauber(F) /\ AusEinerRunde(F.ko)

\* Every slot maintained, and nobody there by hand.
Voll(F) == AllesGepflegt(F) /\ NiemandVonHand(F)

LEMMA VollGepflegt ==
  ASSUME NEW F, GuterStand(F), Voll(F), NEW k \in Nrn, NEW i \in Seiten, F.ko[k].quellen[i] # Ohne
  PROVE  Gepflegt(F, {}, F.ko[k].quellen[i])
<1>1. F.ko[k].quellen[i] \in Quellen(k, F.ko)
  BY DEF Quellen
<1>2. Geteilt(F.ko) = {}
  BY NichtsGeteilt DEF GuterStand, Sauber
<1> QED BY <1>1, <1>2 DEF Voll, NiemandVonHand, AllesGepflegt

\* Then every fixture holds the clubs its sources decide.
LEMMA WieEntschieden ==
  ASSUME NEW F, GuterStand(F), Voll(F), NEW k \in Nrn
  PROVE  Platzseiten(F, k) = F.ko[k].seiten
<1> SUFFICES ASSUME EinVerein(Platzseiten(F, k)) PROVE FALSE
  BY SauberRuht DEF GuterStand
<1> DEFINE s == Platzseiten(F, k)
           q(i) == F.ko[k].quellen[i]
<1>1. 1 \in Seiten /\ 2 \in Seiten /\ s[1] = s[2] /\ s[1] # Leer /\ Seiten = {1, 2}
  BY DEF EinVerein, Seiten
<1>2. Geteilt(F.ko) = {} /\ QuellenEinfach(F.ko) /\ GuteLage(F)
  BY NichtsGeteilt DEF GuterStand, Sauber
<1>3. \A i \in Seiten : s[i] = Besetzung(F, {}, {}, q(i), F.ko[k].seiten[i])
  BY <1>2 DEF Platzseiten
<1> HIDE DEF s
<1>4. ASSUME NEW i \in Seiten PROVE q(i) \in Quellform /\ q(i) # Ohne
  <2>1. q(i) \in Quellform
    BY <1>2 DEF GuteLage, Spiele
  <2>2. s[i] # Leer
    BY <1>1, <1>4
  <2>3. q(i) = Ohne => s[i] = F.ko[k].seiten[i] /\ F.ko[k].seiten[i] = Leer
    BY <1>3 DEF Besetzung, Gepflegt, Voll, NiemandVonHand
  <2> QED BY <2>1, <2>2, <2>3
<1>5. CASE \A i \in Seiten : q(i) \in Spielquellen
  <2>1. Platzseiten(F, k) = F.ko[k].seiten
    BY <1>5, ZweiVereine DEF GuterStand
  <2>2. KeinDoppel(F.ko)
    BY DoppelteLeer DEF GuterStand, Sauber
  <2> DEFINE x == <<k, 1>>
             y == <<k, 2>>
  <2>3. x \in Nrn \X Seiten /\ y \in Nrn \X Seiten /\ x # y /\ x[1] = k /\ x[2] = 1 /\ y[1] = k /\ y[2] = 2
    BY <1>1
  <2>4. F.ko[k].seiten[1] \in Teams
    BY <1>1, <1>2, <2>1 DEF s, GuteLage, Spiele
  <2> HIDE DEF x, y
  <2> QED BY <1>1, <2>1, <2>2, <2>3, <2>4 DEF s, KeinDoppel
<1>6. CASE \E i \in Seiten : q(i) \in Platzquellen
  <2>1. \A i \in Seiten : q(i) \in Platzquellen
    <3>1. \A j \in Seiten : q(j) \notin Spielquellen
      BY <1>2, <1>6, PlatzInDerErsten
    <3> QED BY <1>4, <3>1 DEF Quellform
  <2>2. ASSUME NEW i \in Seiten
        PROVE  q(i).platz \in DOMAIN Abschluss(F, q(i).gruppe) /\ Abschluss(F, q(i).gruppe)[q(i).platz] = s[1]
    <3>1. q(i).art = "gruppe" /\ Gepflegt(F, {}, q(i))
      BY <1>4, <2>1, Quellenarten, VollGepflegt
    <3>2. s[i] = s[1]
      BY <1>1
    <3> HIDE DEF q
    <3> QED BY <1>3, <3>1, <3>2 DEF Besetzung, Gepflegt, q
  <2>3. q(1) = q(2)
    <3>1. /\ q(1) \in Platzquellen /\ q(2) \in Platzquellen
          /\ q(1).platz \in DOMAIN Abschluss(F, q(1).gruppe) /\ q(2).platz \in DOMAIN Abschluss(F, q(2).gruppe)
          /\ Abschluss(F, q(1).gruppe)[q(1).platz] = s[1] /\ Abschluss(F, q(2).gruppe)[q(2).platz] = s[1]
      BY <1>1, <2>1, <2>2
    <3> HIDE DEF q
    <3> QED BY <1>1, <1>2, <3>1, EinPlatzJeVerein
  <2> DEFINE x == <<k, 1>>
             y == <<k, 2>>
  <2>4. x \in Nrn \X Seiten /\ y \in Nrn \X Seiten /\ x # y /\ x[1] = k /\ x[2] = 1 /\ y[1] = k /\ y[2] = 2
    BY <1>1
  <2>5. F.ko[k].quellen[1] # Ohne
    BY <1>1, <1>4
  <2> HIDE DEF x, y
  <2> QED BY <1>2, <2>3, <2>4, <2>5 DEF QuellenEinfach
<1> QED BY <1>4, <1>5, <1>6 DEF Quellform

\* A fixture's side waits for one that is not in D.
Ausstehend(F, D, k, i) == F.ko[k].quellen[i] \in Spielquellen /\ F.ko[k].quellen[i].nr \notin D

\* On the way back to F: the fixtures D stand as they did; the others have no result, and
\* whoever stood there by hand stands there or nobody does.
ZurueckBis(F, L, D) ==
  /\ GuteLage(L) /\ L.gruppe = F.gruppe /\ D \subseteq Nrn
  /\ \A k \in Nrn : L.ko[k].quellen = F.ko[k].quellen
  /\ \A k \in D : L.ko[k] = F.ko[k]
  /\ \A k \in Nrn \ D :
       /\ ~HatErgebnis(L.ko[k].stand)
       /\ \A i \in Seiten : F.ko[k].quellen[i] = Ohne => L.ko[k].seiten[i] \in {F.ko[k].seiten[i], Leer}
  /\ \A k \in D : \A i \in Seiten : Ausstehend(F, D, k, i) => F.ko[k].seiten[i] = Leer

\* No side holds another club than in F, and one that waits for nobody holds the same.
Besetzt(F, R, D) ==
  \A k \in Nrn : \A i \in Seiten :
    /\ R.ko[k].seiten[i] \in {F.ko[k].seiten[i], Leer}
    /\ ~Ausstehend(F, D, k, i) => R.ko[k].seiten[i] = F.ko[k].seiten[i]

LEMMA KeinSieger ==
  ASSUME NEW st, ~HatErgebnis(st)
  PROVE  st \notin Teams
BY NamenAssumption DEF HatErgebnis

LEMMA ZurueckRuht ==
  ASSUME NEW F, GuterStand(F), NEW L, NEW D, ZurueckBis(F, L, D)
  PROVE  Geteilt(F.ko) = {} /\ Geteilt(L.ko) = {} /\ \A k \in D : k \notin Aufloesung(L).bewegt
<1>1. Geteilt(F.ko) = {} /\ GuteLage(F) /\ Sauber(F) /\ AusEinerRunde(F.ko)
  BY NichtsGeteilt DEF GuterStand, Sauber
<1>2. Geteilt(L.ko) = {}
  BY <1>1, GeteiltGleich DEF ZurueckBis
<1>3. Wartet(F, L, D)
  <2> SUFFICES ASSUME NEW k \in D, NEW i \in Seiten, Ausstehend(F, D, k, i)
               PROVE  F.ko[k].seiten[i] = Leer /\ L.ko[F.ko[k].quellen[i].nr].stand \notin Teams
    BY DEF Wartet, Ausstehend
  <2>1. F.ko[k].quellen[i].nr \in Nrn \ D
    BY Quellenarten DEF Ausstehend
  <2> QED BY <2>1, KeinSieger DEF ZurueckBis
<1> QED BY <1>1, <1>2, <1>3, ErledigtesRuht DEF ZurueckBis

\* The resolution does not lead astray.
LEMMA BaumZiehtNach ==
  ASSUME NEW F, GuterStand(F), NEW L, NEW D, ZurueckBis(F, L, D), NEW R, R = Aufloesung(L).lage
  PROVE  ZurueckBis(F, R, D)
<1> DEFINE B == Aufloesung(L).bewegt
<1>1. \A k \in D : k \notin B
  BY ZurueckRuht
<1>2. Durchlauf(L, Aufloesung(L))
  BY AufloesungGilt DEF ZurueckBis
<1>3. /\ GuteLage(R) /\ R.gruppe = L.gruppe /\ \A k \in Nrn : R.ko[k].quellen = L.ko[k].quellen
      /\ \A k \in Nrn \ B : R.ko[k] = L.ko[k]
      /\ \A k \in B : ~HatErgebnis(R.ko[k].stand)
  BY <1>2 DEF Durchlauf
<1> HIDE DEF B
<1>4. \A k \in Nrn : \A i \in Seiten : L.ko[k].quellen[i] = Ohne => R.ko[k].seiten[i] = L.ko[k].seiten[i]
  BY OhneQuelleBleibt DEF ZurueckBis
<1>5. ASSUME NEW k \in Nrn \ D
      PROVE  /\ ~HatErgebnis(R.ko[k].stand)
             /\ \A i \in Seiten : F.ko[k].quellen[i] = Ohne => R.ko[k].seiten[i] \in {F.ko[k].seiten[i], Leer}
  <2>1. k \in Nrn \ B => R.ko[k] = L.ko[k]
    BY <1>3
  <2>2. ~HatErgebnis(L.ko[k].stand)
    BY DEF ZurueckBis
  <2>3. ~HatErgebnis(R.ko[k].stand)
    BY <1>3, <2>1, <2>2
  <2>4. /\ k \in Nrn /\ L.ko[k].quellen = F.ko[k].quellen
        /\ \A i \in Seiten : F.ko[k].quellen[i] = Ohne => L.ko[k].seiten[i] \in {F.ko[k].seiten[i], Leer}
    BY DEF ZurueckBis
  <2>5. \A i \in Seiten : F.ko[k].quellen[i] = Ohne => R.ko[k].seiten[i] \in {F.ko[k].seiten[i], Leer}
    BY <1>4, <2>4
  <2> QED BY <2>3, <2>5
<1>6. \A k \in D : R.ko[k] = F.ko[k]
  BY <1>1, <1>3 DEF ZurueckBis
<1> QED BY <1>3, <1>5, <1>6 DEF ZurueckBis

\* A bracket whose slots are all maintained it fills as it was.
LEMMA BaumBesetzt ==
  ASSUME NEW F, GuterStand(F), Voll(F), NEW L, NEW D, ZurueckBis(F, L, D), NEW R, R = Aufloesung(L).lage
  PROVE  Besetzt(F, R, D)
<1>1. /\ Geteilt(F.ko) = {} /\ Geteilt(L.ko) = {} /\ GuteLage(F) /\ GuteLage(L) /\ KeinDoppel(F.ko)
      /\ \A k \in D : k \notin Aufloesung(L).bewegt
  <2>1. Geteilt(F.ko) = {} /\ Geteilt(L.ko) = {} /\ \A k \in D : k \notin Aufloesung(L).bewegt
    BY ZurueckRuht
  <2>2. GuteLage(F) /\ GuteLage(L) /\ KeinDoppel(F.ko)
    BY DoppelteLeer DEF GuterStand, ZurueckBis, Sauber
  <2> QED BY <2>1, <2>2
<1> SUFFICES ASSUME NEW k \in Nrn
             PROVE  \A i \in Seiten : /\ R.ko[k].seiten[i] \in {F.ko[k].seiten[i], Leer}
                                      /\ ~Ausstehend(F, D, k, i) => R.ko[k].seiten[i] = F.ko[k].seiten[i]
  BY DEF Besetzt
<1> DEFINE s == Endseiten(L, k)
           q(i) == F.ko[k].quellen[i]
<1>2. \A i \in Seiten : q(i) \in Quellform /\ L.ko[k].quellen = F.ko[k].quellen
  BY <1>1 DEF GuteLage, Spiele, ZurueckBis
<1>3. ASSUME NEW i \in Seiten, Ausstehend(F, D, k, i) PROVE s[i] = Leer
  <2>1. q(i) \in Spielquellen /\ q(i).nr \in Nrn \ D
    BY <1>3, Quellenarten DEF Ausstehend
  <2>2. L.ko[q(i).nr].stand \notin Teams
    BY <2>1, KeinSieger DEF ZurueckBis
  <2> QED BY <1>1, <1>2, <2>1, <2>2, NiemandKommt
<1>4. ASSUME NEW i \in Seiten, ~Ausstehend(F, D, k, i) PROVE s[i] = F.ko[k].seiten[i]
  <2>1. q(i) \in Spielquellen => q(i).nr \notin Aufloesung(L).bewegt /\ L.ko[q(i).nr] = F.ko[q(i).nr]
    BY <1>1, <1>4 DEF Ausstehend, ZurueckBis
  <2>2. q(i) \notin Spielquellen => L.ko[k].seiten[i] = F.ko[k].seiten[i] \/ Gepflegt(F, {}, q(i))
    <3>1. CASE q(i) = Ohne
      <4>1. F.ko[k].seiten[i] = Leer
        BY <3>1 DEF Voll, NiemandVonHand
      <4>2. CASE k \in D
        BY <4>2 DEF ZurueckBis
      <4>3. CASE k \notin D
        BY <3>1, <4>1, <4>3 DEF ZurueckBis
      <4> QED BY <4>2, <4>3
    <3>2. CASE q(i) # Ohne
      BY <3>2, VollGepflegt
    <3> QED BY <3>1, <3>2
  <2>3. L.gruppe = F.gruppe
    BY DEF ZurueckBis
  <2>4. q(i) \in Spielquellen => Unbewegt(F, L, q(i).nr)
    BY <2>1 DEF Unbewegt
  <2>5. L.ko[k].quellen = F.ko[k].quellen
    BY <1>2, <1>4
  <2>6. GuteLage(F) /\ Geteilt(F.ko) = {} /\ GuteLage(L) /\ Geteilt(L.ko) = {}
    BY <1>1
  <2>7. Endseiten(L, k)[i] = Platzseiten(F, k)[i]
    BY <1>4, <2>2, <2>3, <2>4, <2>5, <2>6, WieVorher
  <2> QED BY <2>7, WieEntschieden
<1>5. ~EinVerein(s)
  <2> SUFFICES ASSUME EinVerein(s) PROVE FALSE
    OBVIOUS
  <2>1. 1 \in Seiten /\ 2 \in Seiten /\ s[1] = s[2] /\ s[1] # Leer
    BY DEF EinVerein, Seiten
  <2>2. s[1] = F.ko[k].seiten[1] /\ s[2] = F.ko[k].seiten[2]
    BY <1>3, <1>4, <2>1
  <2>3. F.ko[k].seiten[1] \in Teams
    BY <1>1, <2>1, <2>2 DEF GuteLage, Spiele
  <2> DEFINE x == <<k, 1>>
             y == <<k, 2>>
  <2>4. x \in Nrn \X Seiten /\ y \in Nrn \X Seiten /\ x # y /\ x[1] = k /\ x[2] = 1 /\ y[1] = k /\ y[2] = 2
    BY <2>1
  <2> HIDE DEF x, y, s
  <2> QED BY ZenonT(40), <1>1, <2>1, <2>2, <2>3, <2>4 DEF KeinDoppel
<1>6. R.ko[k].seiten = s
  BY <1>1, <1>5, EndseitenGelten
<1> HIDE DEF s
<1> QED BY <1>3, <1>4, <1>6

-----------------------------------------------------------------------------
(* One entry of the undo puts its fixture back. *)

\* The season R, with fixture k as F has it.
Eingesetzt(R, F, k) == [R EXCEPT !.ko[k] = F.ko[k]]

LEMMA EingesetztGilt ==
  ASSUME NEW F, GuteLage(F), NEW R, GuteLage(R), NEW k \in Nrn
  PROVE  /\ GuteLage(Eingesetzt(R, F, k))
         /\ Eingesetzt(R, F, k).gruppe = R.gruppe
         /\ Eingesetzt(R, F, k).ko[k] = F.ko[k]
         /\ \A l \in Nrn \ {k} : Eingesetzt(R, F, k).ko[l] = R.ko[l]
<1> DEFINE G == Eingesetzt(R, F, k)
<1>1. R = [gruppe |-> R.gruppe, ko |-> R.ko] /\ R.ko \in [Nrn -> Spiele] /\ F.ko[k] \in Spiele
  BY DEF GuteLage
<1>2. G = [gruppe |-> R.gruppe, ko |-> [R.ko EXCEPT ![k] = F.ko[k]]]
  BY <1>1 DEF Eingesetzt
<1>3. /\ G.gruppe = R.gruppe /\ G.ko[k] = F.ko[k] /\ G.ko \in [Nrn -> Spiele]
      /\ \A l \in Nrn \ {k} : G.ko[l] = R.ko[l]
  BY <1>1, <1>2
<1>4. G \in [gruppe : [Paarungen -> Staende], ko : [Nrn -> Spiele]]
  BY <1>1, <1>2, <1>3 DEF GuteLage
<1>5. GuteLage(G)
  BY <1>3, <1>4 DEF GuteLage
<1> QED BY <1>3, <1>5

\* Nobody it fields stands elsewhere in the round, where the sides in its way hold whom they held.
LEMMA NiemandImWeg ==
  ASSUME NEW F, GuteLage(F), KeinDoppel(F.ko), NEW R, NEW k \in Nrn, NEW e, e.seiten = F.ko[k].seiten,
         \A x \in Belegte(R, k, e) : R.ko[x[1]].seiten[x[2]] \in {F.ko[x[1]].seiten[x[2]], Leer}
  PROVE  Belegte(R, k, e) = {}
<1> SUFFICES ASSUME NEW x \in Belegte(R, k, e) PROVE FALSE
  OBVIOUS
<1>1. /\ x \in (Nrn \ {k}) \X Seiten /\ Runde[x[1]] = Runde[k] /\ R.ko[x[1]].seiten[x[2]] # Leer
      /\ \E i \in Seiten : e.seiten[i] = R.ko[x[1]].seiten[x[2]]
  BY DEF Belegte
<1>2. PICK i \in Seiten : F.ko[k].seiten[i] = F.ko[x[1]].seiten[x[2]]
  BY <1>1
<1> DEFINE y == <<k, i>>
<1>3. y \in Nrn \X Seiten /\ y[1] = k /\ y[2] = i /\ x # y /\ x \in Nrn \X Seiten
  <2>1. x \in (Nrn \ {k}) \X Seiten /\ x[1] \in Nrn \ {k}
    BY <1>1
  <2>2. y[1] = k /\ y[2] = i
    OBVIOUS
  <2>3. x[1] # y[1]
    BY <2>1, <2>2
  <2>4. x # y
    BY <2>3
  <2>5. x \in Nrn \X Seiten
    BY <2>1
  <2>6. y \in Nrn \X Seiten
    OBVIOUS
  <2> QED BY <2>2, <2>4, <2>5, <2>6
<1>4. F.ko[x[1]].seiten[x[2]] \in Teams
  <2>1. F.ko[x[1]] \in Spiele
    BY <1>1 DEF GuteLage
  <2>2. F.ko[x[1]].seiten[x[2]] # Leer
    BY <1>1
  <2> QED BY <1>1, <2>1, <2>2 DEF Spiele
<1> HIDE DEF y
<1> QED BY <1>1, <1>2, <1>3, <1>4 DEF KeinDoppel

\* Nothing is released then: the fixture is put back, and the resolution does the rest.
LEMMA SetztEin ==
  ASSUME NEW F, GuteLage(F), NEW R, GuteLage(R), NEW k \in Nrn, NEW e, Verfasst(e) = F.ko[k],
         KoErlaubt(R, k, e), Belegte(R, k, e) = {}, NEW G, G = Eingesetzt(R, F, k)
  PROVE  /\ KoGespeichert(R, k, e).lage = Aufloesung(G).lage
         /\ KoGespeichert(R, k, e).erlaubt = Nachrueckbar(G, Aufloesung(G))
<1>1. G = [gruppe |-> G.gruppe, ko |-> G.ko] /\ G.ko = [l \in Nrn |-> G.ko[l]]
  <2>1. GuteLage(G)
    BY EingesetztGilt
  <2> QED BY <2>1 DEF GuteLage
<1>2. Angewandt(R, k, e) = Freigegeben(G, {})
  BY DEF Angewandt, Eingesetzt
<1>3. Freigegeben(G, {}) = [G EXCEPT !.ko = [l \in Nrn |-> G.ko[l]]]
  BY DEF Freigegeben
<1>4. [G EXCEPT !.ko = [l \in Nrn |-> G.ko[l]]] = G
  <2>1. [G EXCEPT !.ko = G.ko] = G
    BY <1>1
  <2> QED BY <1>1, <2>1
<1>5. Angewandt(R, k, e) = G
  BY <1>2, <1>3, <1>4
<1>6. KoGespeichert(R, k, e) =
        Gespeichert(R, Angewandt(R, k, e), Aufloesung(Angewandt(R, k, e)),
                    IF Verfasst(e) = R.ko[k] THEN {} ELSE {<<"ko", k>>}, FreieNrn(R, k, e), {k},
                    KoEintrag(k, R.ko[k], Verfasst(e)))
  BY DEF KoGespeichert, Angewandt, Verfasst, FreieNrn
<1> QED BY <1>5, <1>6 DEF Gespeichert

\* It is accepted where the fixture has its clubs and sources back already.
LEMMA EintragErlaubt ==
  ASSUME NEW F, GuteLage(F), KeinDoppel(F.ko), NEW R, GuteLage(R), NEW k \in Nrn, NEW e,
         e.seiten = F.ko[k].seiten, R.ko[k].seiten = F.ko[k].seiten, e.quellen = R.ko[k].quellen,
         Belegte(R, k, e) = {}
  PROVE  KoErlaubt(R, k, e)
<1>1. FehlverdrahtungFrei(R, k, e)
  BY DEF FehlverdrahtungFrei
<1>2. NimmtKeinErgebnis(R, k, e)
  BY DEF NimmtKeinErgebnis
<1>3. SpieltagFrei(R, k, e)
  <2>1. e.seiten[1] = e.seiten[2] => e.seiten[1] = Leer
    <3> SUFFICES ASSUME F.ko[k].seiten[1] = F.ko[k].seiten[2], F.ko[k].seiten[1] # Leer PROVE FALSE
      OBVIOUS
    <3> DEFINE x == <<k, 1>>
               y == <<k, 2>>
    <3>1. x \in Nrn \X Seiten /\ y \in Nrn \X Seiten /\ x # y /\ x[1] = k /\ x[2] = 1 /\ y[1] = k /\ y[2] = 2
      BY DEF Seiten
    <3>2. F.ko[k] \in Spiele
      BY DEF GuteLage
    <3>3. F.ko[k].seiten[1] \in Teams
      BY <3>2 DEF Spiele, Seiten
    <3> HIDE DEF x, y
    <3> QED BY <3>1, <3>3 DEF KeinDoppel
  <2> QED BY <2>1 DEF SpieltagFrei
<1> QED BY <1>1, <1>2, <1>3 DEF KoErlaubt

\* A bracket that holds no other club than F has nobody twice in a round.
LEMMA BesetztOhneDoppel ==
  ASSUME NEW F, GuteLage(F), KeinDoppel(F.ko), NEW R, NEW D, Besetzt(F, R, D)
  PROVE  Doppelte(R.ko) = {}
<1>1. ASSUME NEW x \in Nrn \X Seiten, NEW y \in Nrn \X Seiten, x # y, Runde[x[1]] = Runde[y[1]],
             R.ko[x[1]].seiten[x[2]] \in Teams, R.ko[x[1]].seiten[x[2]] = R.ko[y[1]].seiten[y[2]]
      PROVE  FALSE
  <2>1. R.ko[x[1]].seiten[x[2]] # Leer
    BY <1>1, NamenAssumption
  <2>2. R.ko[x[1]].seiten[x[2]] = F.ko[x[1]].seiten[x[2]] /\ R.ko[y[1]].seiten[y[2]] = F.ko[y[1]].seiten[y[2]]
    BY <1>1, <2>1 DEF Besetzt
  <2> QED BY <1>1, <2>2 DEF KeinDoppel
<1>2. KeinDoppel(R.ko)
  BY <1>1 DEF KeinDoppel
<1> QED BY <1>2, DoppelteLeer

\* Completed off a fixture whose sources are the ones the save left, an entry is the document the save found.
LEMMA EintragIstVorher ==
  ASSUME NEW F, GuteLage(F), NEW R, GuteLage(R), NEW k \in Nrn, NEW neu, R.ko[k].quellen = neu.quellen
  PROVE  LET z == KoEintrag(k, F.ko[k], neu) IN
         /\ z \in Koeintraege /\ GuteAnfrage(k, Vervollstaendigt(R, z))
         /\ Einzeln(R, z) = KoGespeichert(R, k, Vervollstaendigt(R, z))
         /\ Vervollstaendigt(R, z).seiten = F.ko[k].seiten
         /\ Vervollstaendigt(R, z).quellen = F.ko[k].quellen
         /\ Verfasst(Vervollstaendigt(R, z)) = F.ko[k]
<1> DEFINE d == F.ko[k]
           z == KoEintrag(k, d, neu)
           e == Vervollstaendigt(R, z)
<1>1. GutesSpiel(k, d) /\ d \in Spiele
  BY DEF GuteLage
<1>2. z \in Koeintraege
  BY <1>1, KoEintragTyp
<1>3. z.nr = k /\ z.seiten = d.seiten /\ z.stand = d.stand /\ z.quellen = ErsetzteQuellen(d, neu)
  BY DEF KoEintrag
<1>4. GuteAnfrage(k, e) /\ "paar" \notin DOMAIN z
  BY <1>2, <1>3, KoEintragAnfrage
<1>5. Einzeln(R, z) = KoGespeichert(R, k, e)
  BY <1>3, <1>4 DEF Einzeln
<1> HIDE DEF d
<1>6. /\ e.seiten = d.seiten /\ e.stand = d.stand
      /\ e.quellen = [i \in Seiten |-> IF z.quellen[i] = Leer THEN R.ko[k].quellen[i] ELSE z.quellen[i]]
  BY <1>3 DEF Vervollstaendigt
<1>7. d.quellen = [i \in Seiten |-> d.quellen[i]] /\ (\A i \in Seiten : d.quellen[i] # Leer)
      /\ d = [seiten |-> d.seiten, quellen |-> d.quellen, stand |-> d.stand]
  BY <1>1, NamenAssumption DEF Spiele, Quellform
<1>8. \A i \in Seiten : e.quellen[i] = d.quellen[i]
  BY <1>3, <1>6, <1>7 DEF ErsetzteQuellen
<1>9. e.quellen = d.quellen
  BY <1>6, <1>7, <1>8
<1>10. Gewertet(e) = d.stand
  <2>1. Gewertet(e) = IF HatErgebnis(d.stand) /\ Leer \in {d.seiten[i] : i \in Seiten} THEN "offen" ELSE d.stand
    BY <1>6 DEF Gewertet
  <2>2. HatErgebnis(d.stand) => Leer \notin {d.seiten[i] : i \in Seiten}
    BY <1>1 DEF GutesSpiel
  <2> QED BY <2>1, <2>2
<1>11. Verfasst(e) = d
  BY <1>6, <1>7, <1>9, <1>10 DEF Verfasst
<1> QED BY <1>2, <1>4, <1>5, <1>6, <1>9, <1>11 DEF d

\* A fixture fed by none but those D put back is the next to be put back.
LEMMA EintragZurueck ==
  ASSUME NEW F, GuterStand(F), NEW D, NEW R, ZurueckBis(F, R, D), Voll(F) => Besetzt(F, R, D),
         NEW k \in Nrn, k \notin D, \A i \in Seiten : ~Ausstehend(F, D, k, i)
  PROVE  LET z == KoEintrag(k, F.ko[k], F.ko[k]) IN
         /\ ZurueckBis(F, Eingesetzt(R, F, k), D \cup {k})
         /\ Einzeln(R, z).erlaubt => Einzeln(R, z).lage = Aufloesung(Eingesetzt(R, F, k)).lage
         /\ Voll(F) => Einzeln(R, z).erlaubt
<1> DEFINE G == Eingesetzt(R, F, k)
           z == KoEintrag(k, F.ko[k], F.ko[k])
           e == Vervollstaendigt(R, z)
           B == Belegte(R, k, e)
<1>1. GuteLage(F) /\ KeinDoppel(F.ko)
  BY DoppelteLeer DEF GuterStand, Sauber
<1>2. ZurueckBis(F, R, D)
  OBVIOUS
<1>3. GuteLage(R) /\ \A l \in Nrn : R.ko[l].quellen = F.ko[l].quellen
  BY <1>2 DEF ZurueckBis
<1>4. /\ GuteLage(G) /\ G.gruppe = R.gruppe /\ G.ko[k] = F.ko[k]
      /\ \A l \in Nrn \ {k} : G.ko[l] = R.ko[l]
  BY <1>1, <1>3, EingesetztGilt
<1>5. /\ Einzeln(R, z) = KoGespeichert(R, k, e) /\ GuteAnfrage(k, e)
      /\ e.seiten = F.ko[k].seiten /\ e.quellen = F.ko[k].quellen /\ Verfasst(e) = F.ko[k]
  BY <1>1, <1>3, EintragIstVorher
<1> HIDE DEF G, e, z
<1>6. ZurueckBis(F, G, D \cup {k})
  <2>1. /\ GuteLage(G) /\ G.gruppe = F.gruppe /\ D \cup {k} \subseteq Nrn
        /\ \A l \in Nrn : G.ko[l].quellen = F.ko[l].quellen
        /\ \A l \in D \cup {k} : G.ko[l] = F.ko[l]
    BY <1>2, <1>3, <1>4 DEF ZurueckBis
  <2>2. \A l \in Nrn \ (D \cup {k}) :
          /\ ~HatErgebnis(G.ko[l].stand)
          /\ \A i \in Seiten : F.ko[l].quellen[i] = Ohne => G.ko[l].seiten[i] \in {F.ko[l].seiten[i], Leer}
    BY <1>2, <1>4 DEF ZurueckBis
  <2>3. ASSUME NEW l \in D \cup {k}, NEW i \in Seiten, Ausstehend(F, D \cup {k}, l, i)
        PROVE  F.ko[l].seiten[i] = Leer
    BY <1>2, <2>3 DEF ZurueckBis, Ausstehend
  <2> QED BY <2>1, <2>2, <2>3 DEF ZurueckBis
<1>7. ASSUME KoErlaubt(R, k, e) PROVE B = {}
  <2>1. ASSUME NEW x \in B PROVE R.ko[x[1]].seiten[x[2]] \in {F.ko[x[1]].seiten[x[2]], Leer}
    <3>1. x[1] \in Nrn /\ x[2] \in Seiten /\ R.ko[x[1]].quellen[x[2]] = Ohne
      BY <1>7, <2>1 DEF KoErlaubt, SpieltagFrei, Belegte
    <3>2. F.ko[x[1]].quellen[x[2]] = Ohne
      BY <1>3, <3>1
    <3>3. CASE x[1] \in D
      BY <1>2, <3>3 DEF ZurueckBis
    <3>4. CASE x[1] \notin D
      BY <1>2, <3>1, <3>2, <3>4 DEF ZurueckBis
    <3> QED BY <3>3, <3>4
  <2> HIDE DEF B
  <2>2. \A x \in B : R.ko[x[1]].seiten[x[2]] \in {F.ko[x[1]].seiten[x[2]], Leer}
    BY <2>1
  <2> QED BY <1>1, <1>5, <2>2, NiemandImWeg DEF B
<1>8. ASSUME Einzeln(R, z).erlaubt PROVE Einzeln(R, z).lage = Aufloesung(G).lage
  <2>1. KoErlaubt(R, k, e)
    BY <1>5, <1>8 DEF KoGespeichert, Abgelehnt
  <2> QED BY <1>1, <1>3, <1>5, <1>7, <2>1, SetztEin DEF G
<1>9. ASSUME Voll(F) PROVE Einzeln(R, z).erlaubt
  <2>1. Besetzt(F, R, D)
    BY <1>9
  <2>2. B = {}
    <3>1. \A x \in B : R.ko[x[1]].seiten[x[2]] \in {F.ko[x[1]].seiten[x[2]], Leer}
      BY <2>1 DEF Besetzt, Belegte
    <3> HIDE DEF B
    <3> QED BY <1>1, <1>5, <3>1, NiemandImWeg DEF B
  <2>3. R.ko[k].seiten = F.ko[k].seiten
    <3>1. \A i \in Seiten : R.ko[k].seiten[i] = F.ko[k].seiten[i]
      BY <2>1 DEF Besetzt
    <3>2. R.ko[k] \in Spiele /\ F.ko[k] \in Spiele
      BY <1>1, <1>3 DEF GuteLage
    <3>3. R.ko[k].seiten = [i \in Seiten |-> R.ko[k].seiten[i]] /\ F.ko[k].seiten = [i \in Seiten |-> F.ko[k].seiten[i]]
      BY <3>2 DEF Spiele
    <3> QED BY <3>1, <3>3
  <2>4. KoErlaubt(R, k, e)
    BY <1>1, <1>3, <1>5, <2>2, <2>3, EintragErlaubt
  <2>5. Einzeln(R, z).erlaubt = Nachrueckbar(G, Aufloesung(G))
    BY <1>1, <1>3, <1>5, <2>2, <2>4, SetztEin DEF G
  <2>6. Doppelte(Aufloesung(G).lage.ko) = {}
    BY <1>1, <1>6, <1>9, BaumBesetzt, BesetztOhneDoppel
  <2> QED BY <2>5, <2>6 DEF Nachrueckbar
<1> QED BY <1>6, <1>8, <1>9 DEF G, z

-----------------------------------------------------------------------------
(* What a save leaves to put back. *)

\* The fixtures a save of G moves beside the ones it rewrites, `benannt`.
Bewegte(G, frei, benannt) == (frei \cup Aufloesung(G).bewegt) \ benannt

\* G is F with `benannt` rewritten and sides of `frei` released.
Veraendert(F, G, frei, benannt) ==
  /\ GuteLage(G) /\ QuellenEinfach(G.ko) /\ benannt \subseteq Nrn /\ frei \subseteq Nrn \ benannt
  /\ \A l \in Nrn \ benannt : l \notin frei => G.ko[l] = F.ko[l]
  /\ \A l \in frei : /\ G.ko[l].quellen = F.ko[l].quellen /\ ~HatErgebnis(G.ko[l].stand)
                     /\ \A i \in Seiten : F.ko[l].quellen[i] = Ohne => G.ko[l].seiten[i] \in {F.ko[l].seiten[i], Leer}
  /\ \A k \in benannt : \A i \in Seiten :
       F.ko[k].quellen[i] \in Spielquellen => F.ko[k].quellen[i].nr \notin Bewegte(G, frei, benannt)

\* L is the season H with F's group results and with `benannt` as in F.
Zurueckgesetzt(F, H, L, benannt) ==
  /\ GuteLage(L) /\ L.gruppe = F.gruppe
  /\ \A k \in benannt : L.ko[k] = F.ko[k]
  /\ \A k \in Nrn \ benannt : L.ko[k] = H.ko[k]

\* With its own result taken back, a save has left every fixture as in F but the ones it moved.
LEMMA NachDemSpeichern ==
  ASSUME NEW F, GuterStand(F), NEW G, NEW frei, NEW benannt, Veraendert(F, G, frei, benannt),
         NEW L, Zurueckgesetzt(F, Aufloesung(G).lage, L, benannt)
  PROVE  Bewegte(G, frei, benannt) \in SUBSET Nrn /\ ZurueckBis(F, L, Nrn \ Bewegte(G, frei, benannt))
<1> DEFINE S == Bewegte(G, frei, benannt)
<1>a. /\ GuteLage(G) /\ QuellenEinfach(G.ko) /\ benannt \subseteq Nrn /\ frei \subseteq Nrn \ benannt
      /\ \A l \in Nrn \ benannt : l \notin frei => G.ko[l] = F.ko[l]
      /\ \A l \in frei : /\ G.ko[l].quellen = F.ko[l].quellen /\ ~HatErgebnis(G.ko[l].stand)
                         /\ \A i \in Seiten : F.ko[l].quellen[i] = Ohne => G.ko[l].seiten[i] \in {F.ko[l].seiten[i], Leer}
  BY DEF Veraendert
<1>b. \A k \in benannt : \A i \in Seiten : F.ko[k].quellen[i] \in Spielquellen => F.ko[k].quellen[i].nr \notin S
  BY DEF Veraendert
<1>c. /\ GuteLage(L) /\ L.gruppe = F.gruppe /\ \A k \in benannt : L.ko[k] = F.ko[k]
      /\ \A k \in Nrn \ benannt : L.ko[k] = Aufloesung(G).lage.ko[k]
      /\ S = (frei \cup Aufloesung(G).bewegt) \ benannt
  BY DEF Zurueckgesetzt, Bewegte
<1> HIDE DEF S
<1> DEFINE A == Aufloesung(G)
           H == A.lage
           D == Nrn \ S
<1>1. Durchlauf(G, A)
  BY <1>a, AufloesungGilt
<1>2. /\ \A k \in Nrn \ benannt : L.ko[k] = H.ko[k]
      /\ S = (frei \cup A.bewegt) \ benannt
  BY <1>c
<1>3. \A k \in Nrn : \A i \in Seiten : G.ko[k].quellen[i] = Ohne => H.ko[k].seiten[i] = G.ko[k].seiten[i]
  BY <1>a, OhneQuelleBleibt
<1> HIDE DEF A
<1>4. /\ A.bewegt \subseteq Nrn /\ \A k \in Nrn : H.ko[k].quellen = G.ko[k].quellen
      /\ \A k \in Nrn \ A.bewegt : H.ko[k] = G.ko[k]
      /\ \A k \in A.bewegt : ~HatErgebnis(H.ko[k].stand)
  BY <1>1 DEF Durchlauf
<1> HIDE DEF H
<1>5. S \in SUBSET Nrn
  BY <1>a, <1>2, <1>4
<1>6. \A k \in Nrn \ benannt : G.ko[k].quellen = F.ko[k].quellen
  BY <1>a
<1>7. \A k \in Nrn : L.ko[k].quellen = F.ko[k].quellen
  BY <1>c, <1>2, <1>4, <1>6
<1>8. \A k \in D : L.ko[k] = F.ko[k]
  <2> SUFFICES ASSUME NEW k \in D PROVE L.ko[k] = F.ko[k]
    OBVIOUS
  <2>1. CASE k \in benannt
    BY <1>c, <2>1
  <2>2. CASE k \notin benannt
    <3>1. k \notin frei /\ k \notin A.bewegt
      BY <1>2, <2>2
    <3> QED BY <1>a, <1>2, <1>4, <2>2, <3>1
  <2> QED BY <2>1, <2>2
<1>9. ASSUME NEW k \in Nrn \ D
      PROVE  /\ ~HatErgebnis(L.ko[k].stand)
             /\ \A i \in Seiten : F.ko[k].quellen[i] = Ohne => L.ko[k].seiten[i] \in {F.ko[k].seiten[i], Leer}
  <2>1. k \in Nrn \ benannt /\ (k \in frei \/ k \in A.bewegt) /\ L.ko[k] = H.ko[k]
    BY <1>a, <1>2, <1>9
  <2>2. ~HatErgebnis(H.ko[k].stand)
    BY <1>a, <1>4, <2>1
  <2>3. ASSUME NEW i \in Seiten, F.ko[k].quellen[i] = Ohne PROVE L.ko[k].seiten[i] \in {F.ko[k].seiten[i], Leer}
    <3>1. L.ko[k].seiten[i] = G.ko[k].seiten[i]
      BY <1>3, <1>6, <2>1, <2>3
    <3> QED BY <1>a, <2>1, <2>3, <3>1
  <2> QED BY <2>1, <2>2, <2>3
<1>10. ASSUME NEW k \in D, NEW i \in Seiten, Ausstehend(F, D, k, i) PROVE F.ko[k].seiten[i] = Leer
  <2> DEFINE q == F.ko[k].quellen[i]
             s == Endseiten(G, k)
  <2>1. q \in Spielquellen /\ q.nr \in Nrn /\ q.nr \in S /\ k \in Nrn
    BY <1>10, Quellenarten DEF Ausstehend
  <2>2. k \notin benannt /\ k \notin frei /\ k \notin A.bewegt /\ G.ko[k] = F.ko[k]
    BY <1>a, <1>b, <1>2, <2>1
  <2>3. q.nr \in A.bewegt \/ G.ko[q.nr].stand \notin Teams
    BY <1>a, <1>2, <2>1, KeinSieger
  <2>4. Geteilt(G.ko) = {}
    BY <1>a, NichtsGeteilt
  <2>5. s[i] = Leer
    <3>1. q = G.ko[k].quellen[i] /\ (q.nr \in Aufloesung(G).bewegt \/ G.ko[q.nr].stand \notin Teams)
      BY <2>2, <2>3 DEF A
    <3> HIDE DEF q
    <3> QED BY SMTT(30), <1>a, <2>1, <2>4, <3>1, NiemandKommt
  <2>6. s = G.ko[k].seiten \/ EinVerein(s)
    BY <1>a, <2>1, <2>2, EndseitenGelten DEF A
  <2> HIDE DEF s, q
  <2>7. ~EinVerein(s)
    BY <2>5 DEF EinVerein, Seiten
  <2> QED BY <2>2, <2>5, <2>6, <2>7
<1>11. ZurueckBis(F, L, D)
  BY <1>c, <1>7, <1>8, <1>9, <1>10 DEF ZurueckBis
<1> QED BY <1>5, <1>11 DEF S

\* What an undo meets: H as the save left it, whose report names the fixtures S behind the entry z;
\* with z played the season is L, resolved.
ErsterEintrag(F, H, z, S, L) ==
  /\ S \in SUBSET Nrn /\ ZurueckBis(F, L, Nrn \ S)
  /\ Einzeln(H, z).erlaubt => Einzeln(H, z).lage = Aufloesung(L).lage

LEMMA GruppeErster ==
  ASSUME NEW F, GuterStand(F), NEW p \in Paarungen, NEW st, GutesErgebnis(p, st)
  PROVE  LET s == GruppeGespeichert(F, p, st)
             z == [paar |-> p, stand |-> F.gruppe[p]]
         IN  \E S, L : /\ ErsterEintrag(F, s.lage, z, S, L) /\ s.bericht = Bericht(F, z, S)
                       /\ Voll(F) => Einzeln(s.lage, z).erlaubt
<1> DEFINE G == Gesetzt(F, p, st)
           A == Aufloesung(G)
           H == A.lage
           L == Gesetzt(H, p, F.gruppe[p])
           S == Bewegte(G, {}, {})
           s == GruppeGespeichert(F, p, st)
           z == [paar |-> p, stand |-> F.gruppe[p]]
<1>1. GuteLage(F) /\ KeinDoppel(F.ko) /\ QuellenEinfach(F.ko)
  BY DoppelteLeer DEF GuterStand, Sauber
<1>2. GuteLage(G) /\ G.ko = F.ko /\ \A q \in Paarungen : G.gruppe[q] = IF q = p THEN st ELSE F.gruppe[q]
  BY <1>1, GesetztGilt
<1>3. s.lage = H /\ s.bericht = Bericht(F, z, S)
  BY DEF GruppeGespeichert, Gespeichert, Gesetzt, Bewegte
<1>4. Einzeln(H, z).lage = Aufloesung(L).lage /\ Einzeln(H, z).erlaubt = Nachrueckbar(L, Aufloesung(L))
  <2>1. "paar" \in DOMAIN z /\ z.paar = p /\ z.stand = F.gruppe[p]
    OBVIOUS
  <2> HIDE DEF z, H
  <2>2. Einzeln(H, z) = GruppeGespeichert(H, p, F.gruppe[p])
    BY <2>1 DEF Einzeln
  <2> QED BY <2>2 DEF GruppeGespeichert, Gespeichert, Gesetzt
<1>5. Durchlauf(G, A)
  BY <1>2, AufloesungGilt
<1> HIDE DEF G, z, s
<1>6. GuteLage(H) /\ H.gruppe = G.gruppe
  BY <1>5 DEF Durchlauf
<1>7. GutesErgebnis(p, F.gruppe[p])
  BY <1>1 DEF GuteLage
<1>8. /\ GuteLage(L) /\ L.ko = H.ko
      /\ \A q \in Paarungen : L.gruppe[q] = IF q = p THEN F.gruppe[p] ELSE H.gruppe[q]
  BY <1>6, <1>7, GesetztGilt
<1>9. L.gruppe = F.gruppe
  <2>1. \A q \in Paarungen : L.gruppe[q] = F.gruppe[q]
    BY <1>2, <1>6, <1>8
  <2>2. L.gruppe \in [Paarungen -> Staende] /\ F.gruppe \in [Paarungen -> Staende]
    BY <1>1, <1>8 DEF GuteLage
  <2> QED BY <2>1, <2>2
<1> HIDE DEF L, H
<1>10. S \in SUBSET Nrn /\ ZurueckBis(F, L, Nrn \ S)
  <2>1. QuellenEinfach(G.ko) /\ \A k \in Nrn : G.ko[k] = F.ko[k]
    BY <1>1, <1>2
  <2>2. \A k \in Nrn \ {} : L.ko[k] = Aufloesung(G).lage.ko[k]
    BY <1>8 DEF H
  <2>3. Veraendert(F, G, {}, {})
    BY <1>2, <2>1 DEF Veraendert
  <2>4. Zurueckgesetzt(F, Aufloesung(G).lage, L, {})
    BY <1>8, <1>9, <2>2 DEF Zurueckgesetzt
  <2> QED BY <2>3, <2>4, NachDemSpeichern
<1>11. ErsterEintrag(F, H, z, S, L)
  BY <1>4, <1>10 DEF ErsterEintrag
<1>12. Voll(F) => Einzeln(H, z).erlaubt
  <2> SUFFICES ASSUME Voll(F) PROVE Einzeln(H, z).erlaubt
    OBVIOUS
  <2>1. Besetzt(F, Aufloesung(L).lage, Nrn \ S)
    BY <1>10, BaumBesetzt
  <2>2. Doppelte(Aufloesung(L).lage.ko) = {}
    BY <1>1, <2>1, BesetztOhneDoppel
  <2> QED BY <1>4, <2>2 DEF Nachrueckbar
<1> QED BY <1>3, <1>11, <1>12 DEF s, z

\* A fixture one of whose sides is released keeps no result.
LEMMA FreigegebenOhneErgebnis ==
  ASSUME NEW F, GuteLage(F), NEW k \in Nrn, NEW e, NEW l \in Nrn, l \in FreieNrn(F, k, e)
  PROVE  ~HatErgebnis(Angewandt(F, k, e).ko[l].stand)
<1> DEFINE B == Belegte(F, k, e)
           X == [F EXCEPT !.ko[k] = Verfasst(e)]
<1>1. \E x \in B : x[1] = l
  BY DEF FreieNrn
<1>4. X = [gruppe |-> F.gruppe, ko |-> [F.ko EXCEPT ![k] = Verfasst(e)]]
  BY DEF GuteLage
<1> HIDE DEF B, X
<1>2. Freigegeben(X, B).ko[l].stand = Entwertet(X.ko[l].stand)
  <2> DEFINE neu == [m \in Nrn |->
               IF \E x \in B : x[1] = m
               THEN [seiten |-> [i \in Seiten |-> IF <<m, i>> \in B THEN Leer ELSE X.ko[m].seiten[i]],
                     quellen |-> X.ko[m].quellen, stand |-> Entwertet(X.ko[m].stand)]
               ELSE X.ko[m]]
  <2>1. neu[l].stand = Entwertet(X.ko[l].stand)
    BY <1>1
  <2> HIDE DEF neu
  <2>2. Freigegeben(X, B) = [X EXCEPT !.ko = neu]
    BY DEF Freigegeben, neu
  <2>3. [X EXCEPT !.ko = neu].ko = neu
    BY <1>4
  <2> QED BY <2>1, <2>2, <2>3
<1>3. Angewandt(F, k, e) = Freigegeben(X, B)
  BY DEF Angewandt, X, B
<1> QED BY <1>2, <1>3, EntwertetTyp

\* A save moves no fixture of an earlier round, and one that leaves its fixture's clubs and
\* sources alone none of its own round.
LEMMA FruehereRuhen ==
  ASSUME NEW F, GuterStand(F), NEW G, GuteLage(G), QuellenEinfach(G.ko), G.gruppe = F.gruppe,
         NEW k \in Nrn, NEW D \in SUBSET Nrn, \A l \in D : l # k /\ Runde[l] <= Runde[k] /\ G.ko[l] = F.ko[l],
         \A l \in D : \A m \in Nrn : Runde[m] < Runde[l] => m \in D
  PROVE  \A l \in D : l \notin Aufloesung(G).bewegt
<1>1. Wartet(F, G, D)
  <2> SUFFICES ASSUME NEW l \in D, NEW i \in Seiten, F.ko[l].quellen[i] \in Spielquellen, F.ko[l].quellen[i].nr \notin D
               PROVE  FALSE
    BY DEF Wartet
  <2>1. GutesSpiel(l, F.ko[l])
    BY DEF GuterStand, GuteLage
  <2>2. F.ko[l].quellen[i].nr \in Nrn /\ Runde[F.ko[l].quellen[i].nr] < Runde[l]
    BY <2>1, Quellenarten DEF GutesSpiel
  <2> QED BY <2>2
<1>2. Geteilt(G.ko) = {}
  BY NichtsGeteilt
<1> QED BY <1>1, <1>2, ErledigtesRuht DEF GuterStand

\* The save changes the fixture's result, and neither its clubs nor its sources.
NurStand(F, k, e) == e.seiten = F.ko[k].seiten /\ e.quellen = F.ko[k].quellen

\* What a knockout save does to the season.
LEMMA KoVeraendert ==
  ASSUME NEW F, GuterStand(F), NEW k \in Nrn, NEW e, GuteAnfrage(k, e), KoErlaubt(F, k, e)
  PROVE  Veraendert(F, Angewandt(F, k, e), FreieNrn(F, k, e), {k})
<1> DEFINE G == Angewandt(F, k, e)
           frei == FreieNrn(F, k, e)
<1>1. GuteLage(F) /\ KeinDoppel(F.ko) /\ QuellenEinfach(F.ko)
  BY DoppelteLeer DEF GuterStand, Sauber
<1>2. /\ GuteLage(G) /\ G.gruppe = F.gruppe
      /\ \A l \in Nrn \ {k} : /\ l \notin frei => G.ko[l] = F.ko[l]
                              /\ G.ko[l].quellen = F.ko[l].quellen
                              /\ \A i \in Seiten : G.ko[l].seiten[i] =
                                   IF <<l, i>> \in Belegte(F, k, e) THEN Leer ELSE F.ko[l].seiten[i]
  BY <1>1, AngewandtGilt
<1>3. QuellenEinfach(G.ko)
  BY <1>1, AngewandtQuellen
<1>4. frei \subseteq Nrn \ {k} /\ \A l \in frei : Runde[l] = Runde[k]
  BY DEF FreieNrn, Belegte
<1>5. \A l \in frei : ~HatErgebnis(G.ko[l].stand)
  BY <1>1, <1>4, FreigegebenOhneErgebnis
<1> HIDE DEF G, frei
<1> DEFINE D == {l \in Nrn : Runde[l] < Runde[k]}
<1>6. \A l \in Nrn : Runde[l] \in Nat
  BY RundeAssumption
<1>7. \A l \in D : l \notin Aufloesung(G).bewegt
  <2>1. \A l \in D : l # k /\ Runde[l] <= Runde[k] /\ G.ko[l] = F.ko[l]
    BY <1>2, <1>4, <1>6
  <2>2. \A l \in D : \A m \in Nrn : Runde[m] < Runde[l] => m \in D
    BY <1>6
  <2>3. D \in SUBSET Nrn
    OBVIOUS
  <2> HIDE DEF D
  <2> QED BY <1>2, <1>3, <2>1, <2>2, <2>3, FruehereRuhen
<1>8. ASSUME NEW i \in Seiten, F.ko[k].quellen[i] \in Spielquellen
      PROVE  F.ko[k].quellen[i].nr \notin Bewegte(G, frei, {k})
  <2>1. GutesSpiel(k, F.ko[k])
    BY <1>1 DEF GuteLage
  <2>2. F.ko[k].quellen[i].nr \in Nrn /\ Runde[F.ko[k].quellen[i].nr] < Runde[k]
    BY <1>8, <2>1, Quellenarten DEF GutesSpiel
  <2>3. F.ko[k].quellen[i].nr \notin frei
    BY <1>4, <1>6, <2>2
  <2> QED BY <1>7, <2>2, <2>3 DEF Bewegte
<1>9. \A l \in frei : \A i \in Seiten : F.ko[l].quellen[i] = Ohne => G.ko[l].seiten[i] \in {F.ko[l].seiten[i], Leer}
  BY <1>2, <1>4
<1>10. Veraendert(F, G, frei, {k})
  BY <1>2, <1>3, <1>4, <1>5, <1>8, <1>9 DEF Veraendert
<1> QED BY <1>10 DEF G, frei

\* A result recorded moves nothing in its own round.
LEMMA ErgebnisRuht ==
  ASSUME NEW F, GuterStand(F), NEW k \in Nrn, NEW e, GuteAnfrage(k, e), KoErlaubt(F, k, e), NurStand(F, k, e)
  PROVE  LET H == Aufloesung(Angewandt(F, k, e)).lage IN
         /\ \A l \in Nrn \ {k} : Runde[l] = Runde[k] => H.ko[l] = F.ko[l]
         /\ Voll(F) => H.ko[k].seiten = F.ko[k].seiten
<1> DEFINE G == Angewandt(F, k, e)
           A == Aufloesung(G)
           D == {l \in Nrn \ {k} : Runde[l] <= Runde[k]}
<1>1. GuteLage(F) /\ KeinDoppel(F.ko) /\ QuellenEinfach(F.ko)
  BY DoppelteLeer DEF GuterStand, Sauber
<1>2. Belegte(F, k, e) = {}
  <2>1. \A x \in Belegte(F, k, e) : F.ko[x[1]].seiten[x[2]] \in {F.ko[x[1]].seiten[x[2]], Leer}
    OBVIOUS
  <2> QED BY <1>1, <2>1, NiemandImWeg DEF NurStand
<1>3. FreieNrn(F, k, e) = {}
  BY <1>2 DEF FreieNrn
<1>4. /\ GuteLage(G) /\ G.gruppe = F.gruppe /\ G.ko[k] = Verfasst(e)
      /\ \A l \in Nrn \ {k} : G.ko[l] = F.ko[l]
  BY <1>1, <1>3, AngewandtGilt
<1>5. QuellenEinfach(G.ko)
  BY <1>1, AngewandtQuellen
<1>6. Durchlauf(G, A)
  BY <1>4, AufloesungGilt
<1>7. G.ko[k].seiten = F.ko[k].seiten /\ G.ko[k].quellen = F.ko[k].quellen
  BY <1>4 DEF Verfasst, NurStand
<1> HIDE DEF G
<1>8. \A l \in Nrn : Runde[l] \in Nat
  BY RundeAssumption
<1>9. \A l \in D : l \notin A.bewegt
  <2>1. \A l \in D : l # k /\ Runde[l] <= Runde[k] /\ G.ko[l] = F.ko[l]
    BY <1>4
  <2>2. \A l \in D : \A m \in Nrn : Runde[m] < Runde[l] => m \in D
    <3> SUFFICES ASSUME NEW l \in D, NEW m \in Nrn, Runde[m] < Runde[l] PROVE m \in D
      OBVIOUS
    <3>1. Runde[l] <= Runde[k] /\ Runde[m] \in Nat /\ Runde[l] \in Nat /\ Runde[k] \in Nat
      BY <1>8
    <3>2. Runde[m] <= Runde[k] /\ Runde[m] # Runde[k]
      BY <3>1
    <3> QED BY <3>2
  <2>3. D \in SUBSET Nrn
    OBVIOUS
  <2> HIDE DEF D, A
  <2> QED BY <1>4, <1>5, <2>1, <2>2, <2>3, FruehereRuhen DEF A
<1> HIDE DEF A
<1>10. \A l \in D : A.lage.ko[l] = F.ko[l]
  BY <1>4, <1>6, <1>9 DEF Durchlauf
<1>11. \A l \in Nrn \ {k} : Runde[l] = Runde[k] => A.lage.ko[l] = F.ko[l]
  BY <1>8, <1>10
<1>12. ASSUME Voll(F) PROVE A.lage.ko[k].seiten = F.ko[k].seiten
  <2> DEFINE s == Endseiten(G, k)
  <2>1. Geteilt(F.ko) = {} /\ Geteilt(G.ko) = {}
    BY <1>1, <1>5, NichtsGeteilt
  <2>2. ASSUME NEW i \in Seiten PROVE s[i] = F.ko[k].seiten[i]
    <3> DEFINE q == F.ko[k].quellen[i]
    <3>1. q \in Spielquellen => q.nr \notin A.bewegt /\ G.ko[q.nr] = F.ko[q.nr]
      <4> SUFFICES ASSUME q \in Spielquellen PROVE q.nr \notin A.bewegt /\ G.ko[q.nr] = F.ko[q.nr]
        OBVIOUS
      <4>1. GutesSpiel(k, F.ko[k])
        BY <1>1 DEF GuteLage
      <4>2. q.nr \in Nrn /\ Runde[q.nr] < Runde[k]
        BY <4>1, Quellenarten DEF GutesSpiel
      <4> HIDE DEF q
      <4>3. q.nr \in D /\ q.nr # k
        BY <1>8, <4>2
      <4> QED BY <1>4, <1>9, <4>2, <4>3
    <3>2. s[i] = Platzseiten(F, k)[i]
      <4>1. G.ko[k].seiten[i] = F.ko[k].seiten[i]
        BY <1>7
      <4>2. q \in Spielquellen => Unbewegt(F, G, q.nr)
        BY <3>1 DEF Unbewegt, A
      <4> QED BY <1>1, <1>4, <1>7, <2>1, <4>1, <4>2, WieVorher
    <3>3. Platzseiten(F, k) = F.ko[k].seiten
      BY <1>12, WieEntschieden
    <3> QED BY <3>2, <3>3
  <2>3. s = [i \in Seiten |-> s[i]] /\ F.ko[k].seiten = [i \in Seiten |-> F.ko[k].seiten[i]]
    <3>1. F.ko[k] \in Spiele
      BY <1>1 DEF GuteLage
    <3> QED BY <3>1 DEF Endseiten, Spiele
  <2> HIDE DEF s
  <2>4. s = G.ko[k].seiten
    BY <1>7, <2>2, <2>3
  <2>5. A.lage.ko[k] = G.ko[k]
    BY <1>4, <2>4, EndseitenGelten DEF A, s
  <2> QED BY <1>7, <2>5
<1> QED BY <1>11, <1>12 DEF A, G

LEMMA KoErster ==
  ASSUME NEW F, GuterStand(F), NEW k \in Nrn, NEW e, GuteAnfrage(k, e), KoErlaubt(F, k, e)
  PROVE  LET s == KoGespeichert(F, k, e)
             z == KoEintrag(k, F.ko[k], Verfasst(e))
         IN  \E S, L : /\ ErsterEintrag(F, s.lage, z, S, L) /\ s.bericht = Bericht(F, z, S)
                       /\ Voll(F) /\ NurStand(F, k, e) => Einzeln(s.lage, z).erlaubt
<1> DEFINE G == Angewandt(F, k, e)
           frei == FreieNrn(F, k, e)
           H == Aufloesung(G).lage
           L == Eingesetzt(H, F, k)
           S == Bewegte(G, frei, {k})
           s == KoGespeichert(F, k, e)
           z == KoEintrag(k, F.ko[k], Verfasst(e))
           f == Vervollstaendigt(H, z)
<1>1. GuteLage(F) /\ KeinDoppel(F.ko) /\ QuellenEinfach(F.ko)
  BY DoppelteLeer DEF GuterStand, Sauber
<1>2. Veraendert(F, G, frei, {k}) /\ G.gruppe = F.gruppe /\ G.ko[k].quellen = Verfasst(e).quellen
  BY <1>1, KoVeraendert, AngewandtGilt
<1>3. s.lage = H /\ s.bericht = Bericht(F, z, S)
  BY DEF KoGespeichert, Gespeichert, Angewandt, Verfasst, FreieNrn, Bewegte
<1>4. NurStand(F, k, e) => /\ \A l \in Nrn \ {k} : Runde[l] = Runde[k] => H.ko[l] = F.ko[l]
                           /\ Voll(F) => H.ko[k].seiten = F.ko[k].seiten
  BY ErgebnisRuht
<1>5. GuteLage(G)
  BY <1>2 DEF Veraendert
<1> HIDE DEF G, frei, s
<1>6. GuteLage(H) /\ H.gruppe = F.gruppe /\ \A l \in Nrn : H.ko[l].quellen = G.ko[l].quellen
  BY <1>2, <1>5, AufloesungGilt DEF Durchlauf
<1>7. /\ Einzeln(H, z) = KoGespeichert(H, k, f) /\ GuteAnfrage(k, f)
      /\ f.seiten = F.ko[k].seiten /\ f.quellen = F.ko[k].quellen /\ Verfasst(f) = F.ko[k]
  <2> HIDE DEF H
  <2>1. H.ko[k].quellen = Verfasst(e).quellen
    BY <1>2, <1>6
  <2> QED BY <1>1, <1>6, <2>1, EintragIstVorher
<1>8. /\ GuteLage(L) /\ L.gruppe = H.gruppe /\ L.ko[k] = F.ko[k]
      /\ \A l \in Nrn \ {k} : L.ko[l] = H.ko[l]
  <2> HIDE DEF H
  <2> QED BY <1>1, <1>6, EingesetztGilt
<1> HIDE DEF z, f, L
<1>9. S \in SUBSET Nrn /\ ZurueckBis(F, L, Nrn \ S)
  <2>1. Zurueckgesetzt(F, H, L, {k})
    BY <1>6, <1>8 DEF Zurueckgesetzt
  <2> QED BY <1>2, <2>1, NachDemSpeichern
<1> HIDE DEF S, H
<1>10. ASSUME KoErlaubt(H, k, f) PROVE Belegte(H, k, f) = {}
  <2>1. ASSUME NEW x \in Belegte(H, k, f) PROVE H.ko[x[1]].seiten[x[2]] \in {F.ko[x[1]].seiten[x[2]], Leer}
    <3>1. x[1] \in Nrn \ {k} /\ x[2] \in Seiten /\ H.ko[x[1]].quellen[x[2]] = Ohne
      BY <1>10, <2>1 DEF KoErlaubt, SpieltagFrei, Belegte
    <3>2. L.ko[x[1]] = H.ko[x[1]]
      BY <1>8, <3>1
    <3>3. F.ko[x[1]].quellen[x[2]] = Ohne
      BY <1>9, <3>1, <3>2 DEF ZurueckBis
    <3>4. CASE x[1] \notin S
      BY <1>9, <3>1, <3>2, <3>4 DEF ZurueckBis
    <3>5. CASE x[1] \in S
      BY <1>9, <3>1, <3>2, <3>3, <3>5 DEF ZurueckBis
    <3> QED BY <3>4, <3>5
  <2> QED BY <1>1, <1>7, <2>1, NiemandImWeg
<1>11. ASSUME Einzeln(H, z).erlaubt PROVE Einzeln(H, z).lage = Aufloesung(L).lage
  <2>1. KoErlaubt(H, k, f)
    BY <1>7, <1>11 DEF KoGespeichert, Abgelehnt
  <2> QED BY <1>1, <1>6, <1>7, <1>10, <2>1, SetztEin DEF L
<1>12. ASSUME Voll(F), NurStand(F, k, e) PROVE Einzeln(H, z).erlaubt
  <2>1. Belegte(H, k, f) = {}
    <3>1. \A x \in Belegte(H, k, f) : H.ko[x[1]].seiten[x[2]] \in {F.ko[x[1]].seiten[x[2]], Leer}
      BY <1>4, <1>12 DEF Belegte
    <3> QED BY <1>1, <1>7, <3>1, NiemandImWeg
  <2>2. H.ko[k].seiten = F.ko[k].seiten /\ f.quellen = H.ko[k].quellen
    BY <1>2, <1>4, <1>6, <1>7, <1>12 DEF NurStand, Verfasst
  <2>3. KoErlaubt(H, k, f)
    BY <1>1, <1>6, <1>7, <2>1, <2>2, EintragErlaubt
  <2>4. Einzeln(H, z).erlaubt = Nachrueckbar(L, Aufloesung(L))
    BY <1>1, <1>6, <1>7, <2>1, <2>3, SetztEin DEF L
  <2>5. Doppelte(Aufloesung(L).lage.ko) = {}
    BY <1>1, <1>9, <1>12, BaumBesetzt, BesetztOhneDoppel
  <2> QED BY <2>4, <2>5 DEF Nachrueckbar
<1>13. ErsterEintrag(F, H, z, S, L)
  BY <1>9, <1>11 DEF ErsterEintrag
<1> QED BY <1>3, <1>12, <1>13 DEF s, z

-----------------------------------------------------------------------------
(* The undo, entry by entry. *)

\* The fixtures S in the order of their numbers.
Nummern(S, n, nrn) ==
  /\ nrn \in [1..n -> S]
  /\ \A i, j \in 1..n : i < j => nrn[i] < nrn[j]
  /\ \A k \in S : \E j \in 1..n : nrn[j] = k

\* A report names its fixture first, then the others in that order.
Geordneter(F, z, S, b, n, nrn) ==
  /\ Nummern(S, n, nrn)
  /\ Len(b) = n + 1 /\ b[1] = z
  /\ \A j \in 1..n : b[j + 1] = KoEintrag(nrn[j], F.ko[nrn[j]], F.ko[nrn[j]])

LEMMA BerichtGeordnet ==
  ASSUME NEW F, NEW S \in SUBSET Nrn, NEW z
  PROVE  \E n \in Nat : \E nrn : Geordneter(F, z, S, Bericht(F, z, S), n, nrn)
<1> DEFINE R == {x \in S \X S : x[1] < x[2]}
           nrn == Geordnet(S, <)
           n == Cardinality(S)
           m == Mitbewegte(F, S)
<1>1. IsFiniteSet(S) /\ n \in Nat /\ S \subseteq Nat
  BY RundeAssumption, FS_Subset, FS_CardinalityType
<1>2. \A x, y \in S : <<x, y>> \in R <=> x < y
  OBVIOUS
<1> HIDE DEF R, n
<1>3. Ordnet(R, S)
  BY <1>1, <1>2 DEF Ordnet
<1>4. PICK s : Aufzaehlung(R, S, s)
  BY <1>1, <1>3, Aufzaehlbar
<1>5. s \in [1..n -> S] /\ \A i, j \in 1..n : i < j => s[i] < s[j]
  BY <1>2, <1>4 DEF Aufzaehlung, n
<1>6. nrn = CHOOSE t \in [1..n -> S] : \A i, j \in 1..n : i < j => t[i] < t[j]
  BY DEF Geordnet, n
<1>7. nrn \in [1..n -> S] /\ \A i, j \in 1..n : i < j => nrn[i] < nrn[j]
  BY <1>5, <1>6
<1>8. m = [j \in 1..n |-> KoEintrag(nrn[j], F.ko[nrn[j]], F.ko[nrn[j]])]
  BY <1>7 DEF Mitbewegte
<1>9. Bericht(F, z, S) = <<z>> \o m
  BY DEF Bericht
<1> HIDE DEF nrn, m
<1>10. Aufzaehlung(R, S, nrn)
  BY <1>2, <1>7 DEF Aufzaehlung, n
<1>11. \A k \in S : \E j \in 1..n : nrn[j] = k
  BY <1>1, <1>3, <1>10, AufzaehlungTrifftAlle DEF n
<1> DEFINE M == {m[j] : j \in 1..n}
<1>12. m \in Seq(M) /\ Len(m) = n
  <2>1. m = [j \in 1..n |-> m[j]]
    BY <1>8
  <2>2. \A j \in 1..n : m[j] \in M
    OBVIOUS
  <2> HIDE DEF M
  <2> QED BY <1>1, <2>1, <2>2
<1> HIDE DEF M
<1>13. /\ Len(<<z>> \o m) = n + 1 /\ (<<z>> \o m)[1] = z
       /\ \A j \in 1..n : (<<z>> \o m)[j + 1] = m[j]
  BY <1>1, <1>12
<1>14. \A j \in 1..n : m[j] = KoEintrag(nrn[j], F.ko[nrn[j]], F.ko[nrn[j]])
  BY <1>8
<1> DEFINE b == Bericht(F, z, S)
<1>15. Len(b) = n + 1 /\ b[1] = z /\ \A j \in 1..n : b[j + 1] = m[j]
  BY <1>9, <1>13
<1> HIDE DEF b
<1>16. Geordneter(F, z, S, b, n, nrn)
  BY <1>7, <1>11, <1>14, <1>15 DEF Geordneter, Nummern
<1> QED BY <1>1, <1>16 DEF b

\* The fixtures that stand as in F once m entries are played.
Erledigt(S, nrn, m) == (Nrn \ S) \cup {nrn[j] : j \in 1..(m - 1)}

\* A match that feeds another has the smaller number, so it is put back before it.
LEMMA QuellenZuerst ==
  ASSUME NEW F, GuteLage(F), NEW S \in SUBSET Nrn, NEW n \in Nat, NEW nrn, Nummern(S, n, nrn), NEW m \in 1..n
  PROVE  /\ nrn[m] \in Nrn /\ nrn[m] \notin Erledigt(S, nrn, m)
         /\ \A i \in Seiten : ~Ausstehend(F, Erledigt(S, nrn, m), nrn[m], i)
<1> DEFINE k == nrn[m]
           D == Erledigt(S, nrn, m)
<1>1. \A j \in 1..n : nrn[j] \in S /\ nrn[j] \in Nrn /\ nrn[j] \in Nat /\ Runde[nrn[j]] \in Nat
  BY RundeAssumption DEF Nummern
<1>2. k \notin D
  <2> SUFFICES ASSUME NEW j \in 1..(m - 1), nrn[j] = k PROVE FALSE
    BY <1>1 DEF Erledigt
  <2>1. j \in 1..n /\ j < m
    OBVIOUS
  <2>2. nrn[j] < nrn[m]
    BY <2>1 DEF Nummern
  <2> QED BY <1>1, <2>1, <2>2
<1>3. ASSUME NEW i \in Seiten PROVE ~Ausstehend(F, D, k, i)
  <2> SUFFICES ASSUME Ausstehend(F, D, k, i) PROVE FALSE
    OBVIOUS
  <2> DEFINE l == F.ko[k].quellen[i].nr
  <2>1. l \in Nrn /\ l \notin D /\ Runde[l] < Runde[k] /\ l \in Nat /\ Runde[l] \in Nat
    <3>1. GutesSpiel(k, F.ko[k])
      BY <1>1 DEF GuteLage
    <3>2. l \in Nrn /\ l \notin D /\ Runde[l] < Runde[k]
      BY <3>1, Quellenarten DEF Ausstehend, GutesSpiel
    <3> QED BY <3>2, RundeAssumption
  <2>2. l < k
    <3>1. k \in Nrn /\ k \in Nat /\ Runde[k] \in Nat
      BY <1>1
    <3> HIDE DEF l, k
    <3>2. ~(k < l) /\ k # l
      BY <2>1, <3>1, RundeAssumption
    <3> QED BY <2>1, <3>1, <3>2
  <2>3. l \in S
    BY <2>1 DEF Erledigt
  <2>4. PICK j \in 1..n : nrn[j] = l
    BY <2>3 DEF Nummern
  <2>5. j < m
    <3>1. ~(m < j) /\ m # j
      BY <1>1, <2>2, <2>4 DEF Nummern
    <3> QED BY <3>1
  <2>6. j \in 1..(m - 1)
    BY <2>5
  <2> QED BY <2>1, <2>4, <2>6 DEF Erledigt
<1> QED BY <1>1, <1>2, <1>3

\* R is a season on the way back, resolved.
Unterwegs(F, R, D) == \E L : ZurueckBis(F, L, D) /\ R = Aufloesung(L).lage

LEMMA UnterwegsGilt ==
  ASSUME NEW F, GuterStand(F), NEW R, NEW D, Unterwegs(F, R, D)
  PROVE  ZurueckBis(F, R, D) /\ (Voll(F) => Besetzt(F, R, D))
<1>1. PICK L : ZurueckBis(F, L, D) /\ R = Aufloesung(L).lage
  BY DEF Unterwegs
<1> QED BY <1>1, BaumZiehtNach, BaumBesetzt

\* A season with every fixture back is the season itself.
LEMMA AllesZurueck ==
  ASSUME NEW F, GuteLage(F), NEW R, ZurueckBis(F, R, Nrn)
  PROVE  R = F
<1>1. GuteLage(R) /\ R.gruppe = F.gruppe /\ \A k \in Nrn : R.ko[k] = F.ko[k]
  BY DEF ZurueckBis
<1>2. R.ko \in [Nrn -> Spiele] /\ F.ko \in [Nrn -> Spiele]
  BY <1>1 DEF GuteLage
<1>3. R.ko = F.ko
  BY <1>1, <1>2
<1>4. R = [gruppe |-> R.gruppe, ko |-> R.ko] /\ F = [gruppe |-> F.gruppe, ko |-> F.ko]
  BY <1>1 DEF GuteLage
<1> QED BY <1>1, <1>3, <1>4

\* What m entries of an undo have achieved.
Weit(F, H, z, a, D) ==
  /\ a.erlaubt => Unterwegs(F, a.lage, D)
  /\ Voll(F) /\ Einzeln(H, z).erlaubt => a.erlaubt

LEMMA NaechsterEintrag ==
  ASSUME NEW F, GuterStand(F), NEW H, NEW z, NEW a, NEW D, Weit(F, H, z, a, D),
         NEW k \in Nrn, k \notin D, \A i \in Seiten : ~Ausstehend(F, D, k, i)
  PROVE  Weit(F, H, z, Nachgespielt(a, Einzeln(a.lage, KoEintrag(k, F.ko[k], F.ko[k]))), D \cup {k})
<1> DEFINE s == Einzeln(a.lage, KoEintrag(k, F.ko[k], F.ko[k]))
           c == Nachgespielt(a, s)
           L == Eingesetzt(a.lage, F, k)
<1>1. c.erlaubt = (a.erlaubt /\ s.erlaubt) /\ c.lage = s.lage
  BY DEF Nachgespielt
<1>2. ASSUME a.erlaubt
      PROVE  /\ ZurueckBis(F, L, D \cup {k})
             /\ s.erlaubt => s.lage = Aufloesung(L).lage
             /\ Voll(F) => s.erlaubt
  <2>1. ZurueckBis(F, a.lage, D) /\ (Voll(F) => Besetzt(F, a.lage, D))
    BY <1>2, UnterwegsGilt DEF Weit
  <2> QED BY <2>1, EintragZurueck
<1> HIDE DEF s, c, L
<1>3. c.erlaubt => Unterwegs(F, c.lage, D \cup {k})
  BY <1>1, <1>2 DEF Unterwegs
<1>4. Voll(F) /\ Einzeln(H, z).erlaubt => c.erlaubt
  BY <1>1, <1>2 DEF Weit
<1>5. Weit(F, H, z, c, D \cup {k})
  BY <1>3, <1>4 DEF Weit
<1> QED BY <1>5 DEF c, s

\* Accepted, the undo of a report gives back the season before; and it is accepted where every
\* slot was maintained and the entry of the saved fixture is.
LEMMA RuecknahmeTrifft ==
  ASSUME NEW F, GuterStand(F), NEW H, NEW z, NEW S, NEW L, ErsterEintrag(F, H, z, S, L),
         NEW b, b = Bericht(F, z, S), b \in Seq(Eintraege)
  PROVE  /\ Zurueckgenommen(H, b).erlaubt => Zurueckgenommen(H, b).lage = F
         /\ Voll(F) /\ Einzeln(H, z).erlaubt => Zurueckgenommen(H, b).erlaubt
<1> DEFINE a == Nachspiel(H, b)
           M == Len(b)
<1>1. GuteLage(F) /\ S \in SUBSET Nrn
  BY DEF GuterStand, ErsterEintrag
<1>2. PICK n \in Nat : \E nrn : Geordneter(F, z, S, Bericht(F, z, S), n, nrn)
  BY <1>1, BerichtGeordnet
<1>3. PICK nrn : Geordneter(F, z, S, b, n, nrn)
  BY <1>2
<1>4. /\ Nummern(S, n, nrn) /\ M = n + 1 /\ b[1] = z
      /\ \A j \in 1..n : b[j + 1] = KoEintrag(nrn[j], F.ko[nrn[j]], F.ko[nrn[j]])
  BY <1>3 DEF Geordneter
<1>5. a[0] = [erlaubt |-> TRUE, lage |-> H, schreibt |-> {}]
      /\ \A m \in 1..M : a[m] = Nachgespielt(a[m - 1], Einzeln(a[m - 1].lage, b[m]))
  BY NachspielGilt
<1> HIDE DEF a, M
<1> DEFINE D(m) == Erledigt(S, nrn, m)
           T == {m \in 0..n : Weit(F, H, z, a[m + 1], D(m + 1))}
<1>6. 0 \in T
  <2>1. a[1] = Nachgespielt(a[0], Einzeln(H, z))
    <3>1. 1 \in 1..M /\ 1 - 1 = 0
      BY <1>4
    <3>2. a[0].lage = H
      BY <1>5
    <3> QED BY <1>4, <1>5, <3>1, <3>2
  <2>2. a[1].erlaubt = (TRUE /\ Einzeln(H, z).erlaubt) /\ a[1].lage = Einzeln(H, z).lage
    BY <1>5, <2>1 DEF Nachgespielt
  <2>3. D(1) = Nrn \ S
    <3>1. 1..(1 - 1) = {}
      OBVIOUS
    <3> QED BY <3>1 DEF Erledigt
  <2> HIDE DEF D
  <2>4. a[1].erlaubt => Unterwegs(F, a[1].lage, D(1))
    BY <2>2, <2>3 DEF ErsterEintrag, Unterwegs
  <2>5. Weit(F, H, z, a[1], D(1))
    BY <2>2, <2>4 DEF Weit
  <2> QED BY <2>5
<1>7. ASSUME NEW m \in 1..n, m - 1 \in T PROVE m \in T
  <2>1. Weit(F, H, z, a[m], D(m))
    <3>1. (m - 1) + 1 = m
      OBVIOUS
    <3> HIDE DEF D
    <3> QED BY <1>7, <3>1
  <2>2. /\ nrn[m] \in Nrn /\ nrn[m] \notin D(m) /\ D(m + 1) = D(m) \cup {nrn[m]}
        /\ \A i \in Seiten : ~Ausstehend(F, D(m), nrn[m], i)
    <3>1. m \in 1..n /\ n \in Nat /\ S \in SUBSET Nrn /\ Nummern(S, n, nrn) /\ GuteLage(F)
      BY <1>1, <1>4
    <3>2. nrn[m] \in Nrn /\ nrn[m] \notin D(m)
      BY <3>1, QuellenZuerst
    <3>3. D(m + 1) = D(m) \cup {nrn[m]}
      <4>1. 1..((m + 1) - 1) = (1..(m - 1)) \cup {m}
        OBVIOUS
      <4> QED BY <4>1 DEF Erledigt
    <3>4. \A i \in Seiten : ~Ausstehend(F, D(m), nrn[m], i)
      BY <3>1, QuellenZuerst
    <3> QED BY <3>2, <3>3, <3>4
  <2>3. a[m + 1] = Nachgespielt(a[m], Einzeln(a[m].lage, KoEintrag(nrn[m], F.ko[nrn[m]], F.ko[nrn[m]])))
    <3>1. m + 1 \in 1..M /\ (m + 1) - 1 = m
      BY <1>4
    <3> QED BY <1>4, <1>5, <3>1
  <2> HIDE DEF D
  <2>4. Weit(F, H, z, a[m + 1], D(m + 1))
    <3> DEFINE k == nrn[m]
               c == Nachgespielt(a[m], Einzeln(a[m].lage, KoEintrag(k, F.ko[k], F.ko[k])))
    <3>1. k \in Nrn /\ k \notin D(m) /\ \A i \in Seiten : ~Ausstehend(F, D(m), k, i)
      BY <2>2
    <3>2. Weit(F, H, z, c, D(m) \cup {k})
      <4> HIDE DEF k
      <4> QED BY <2>1, <3>1, NaechsterEintrag
    <3> QED BY <2>2, <2>3, <3>2
  <2> QED BY <2>4
<1>8. n \in T
  <2> HIDE DEF T
  <2>1. \A m \in 0..n : m \in T
    BY <1>6, <1>7, Induktion
  <2> QED BY <2>1
<1>9. Weit(F, H, z, a[M], Nrn)
  <2>1. D(n + 1) = Nrn
    <3>1. \A k \in S : \E j \in 1..((n + 1) - 1) : nrn[j] = k
      BY <1>4 DEF Nummern
    <3>2. \A j \in 1..((n + 1) - 1) : nrn[j] \in Nrn
      BY <1>1, <1>4 DEF Nummern
    <3> QED BY <1>1, <3>1, <3>2 DEF Erledigt
  <2> HIDE DEF D
  <2> QED BY <1>4, <1>8, <2>1
<1>10. a[M].erlaubt => a[M].lage = F
  <2> SUFFICES ASSUME a[M].erlaubt PROVE a[M].lage = F
    OBVIOUS
  <2>1. ZurueckBis(F, a[M].lage, Nrn)
    BY <1>9, UnterwegsGilt DEF Weit
  <2> QED BY <1>1, <2>1, AllesZurueck
<1>11. Voll(F) /\ Einzeln(H, z).erlaubt => a[M].erlaubt
  BY <1>9 DEF Weit
<1>12. Zurueckgenommen(H, b) = a[M]
  BY DEF Zurueckgenommen, a, M
<1> QED BY <1>10, <1>11, <1>12


\* The undo of a save over the season H it left, whose report is z: accepted, it leaves F, the
\* season the save found; and it is accepted where mehr holds.
Stellt(F, H, z, mehr) ==
  /\ Zurueckgenommen(H, z).erlaubt => Zurueckgenommen(H, z).lage = F
  /\ mehr => Zurueckgenommen(H, z).erlaubt

LEMMA GruppeStelltHer ==
  ASSUME NEW F, GuterStand(F), NEW p \in Paarungen, NEW st, GutesErgebnis(p, st)
  PROVE  Stellt(F, GruppeGespeichert(F, p, st).lage, GruppeGespeichert(F, p, st).bericht, Voll(F))
<1> DEFINE s == GruppeGespeichert(F, p, st)
           z == [paar |-> p, stand |-> F.gruppe[p]]
<1>1. PICK S, L : /\ ErsterEintrag(F, s.lage, z, S, L) /\ s.bericht = Bericht(F, z, S)
                  /\ Voll(F) => Einzeln(s.lage, z).erlaubt
  BY GruppeErster
<1>2. s.bericht \in Seq(Eintraege)
  BY BerichtTyp DEF GuterStand
<1> HIDE DEF s, z
<1>3. /\ Zurueckgenommen(s.lage, s.bericht).erlaubt => Zurueckgenommen(s.lage, s.bericht).lage = F
      /\ Voll(F) /\ Einzeln(s.lage, z).erlaubt => Zurueckgenommen(s.lage, s.bericht).erlaubt
  BY <1>1, <1>2, RuecknahmeTrifft
<1>4. Stellt(F, s.lage, s.bericht, Voll(F))
  BY <1>1, <1>3 DEF Stellt
<1> QED BY <1>4 DEF s

LEMMA KoStelltHer ==
  ASSUME NEW F, GuterStand(F), NEW k \in Nrn, NEW e, GuteAnfrage(k, e), KoGespeichert(F, k, e).erlaubt
  PROVE  Stellt(F, KoGespeichert(F, k, e).lage, KoGespeichert(F, k, e).bericht, Voll(F) /\ NurStand(F, k, e))
<1> DEFINE s == KoGespeichert(F, k, e)
           z == KoEintrag(k, F.ko[k], Verfasst(e))
<1>0. KoErlaubt(F, k, e)
  BY DEF KoGespeichert, Abgelehnt
<1>1. PICK S, L : /\ ErsterEintrag(F, s.lage, z, S, L) /\ s.bericht = Bericht(F, z, S)
                  /\ Voll(F) /\ NurStand(F, k, e) => Einzeln(s.lage, z).erlaubt
  BY <1>0, KoErster
<1>2. s.bericht \in Seq(Eintraege)
  BY BerichtTyp DEF GuterStand
<1> HIDE DEF s, z
<1>3. /\ Zurueckgenommen(s.lage, s.bericht).erlaubt => Zurueckgenommen(s.lage, s.bericht).lage = F
      /\ Voll(F) /\ Einzeln(s.lage, z).erlaubt => Zurueckgenommen(s.lage, s.bericht).erlaubt
  BY <1>1, <1>2, RuecknahmeTrifft
<1>4. Stellt(F, s.lage, s.bericht, Voll(F) /\ NurStand(F, k, e))
  BY <1>1, <1>3 DEF Stellt
<1> QED BY <1>4 DEF s


\* Where the save left the sources and nobody stands on a side by hand, before it or behind it, it
\* changed the result alone.
LEMMA NurStandGespeichert ==
  ASSUME NEW F, GuteLage(F), NEW k \in Nrn, NEW e, GuteAnfrage(k, e), KoErlaubt(F, k, e), NiemandVonHand(F),
         NiemandVonHand(KoGespeichert(F, k, e).lage),
         \A l \in Nrn : KoGespeichert(F, k, e).lage.ko[l].quellen = F.ko[l].quellen
  PROVE  NurStand(F, k, e)
<1> DEFINE G == Angewandt(F, k, e)
           A == Aufloesung(G)
           s == KoGespeichert(F, k, e)
<1>1. GuteLage(G) /\ G.ko[k] = Verfasst(e)
  BY AngewandtGilt
<1>2. s.lage = A.lage
  BY DEF KoGespeichert, Gespeichert, Angewandt, Verfasst
<1>3. G.ko[k].quellen = e.quellen /\ G.ko[k].seiten = e.seiten
  BY <1>1 DEF Verfasst
<1>4. /\ F.ko[k].seiten = [i \in Seiten |-> F.ko[k].seiten[i]]
      /\ e.seiten = [i \in Seiten |-> e.seiten[i]]
  BY DEF GuteLage, GuteAnfrage, Spiele
<1>5. FehlverdrahtungFrei(F, k, e)
  BY DEF KoErlaubt
<1>6. NiemandVonHand(s.lage) /\ s.lage.ko[k].quellen = F.ko[k].quellen
  OBVIOUS
<1> HIDE DEF G, s
<1>7. A.lage.ko[k].quellen = G.ko[k].quellen
  BY <1>1, AufloesungGilt DEF Durchlauf
<1>8. \A i \in Seiten : G.ko[k].quellen[i] = Ohne => A.lage.ko[k].seiten[i] = G.ko[k].seiten[i]
  BY <1>1, OhneQuelleBleibt
<1> HIDE DEF A
<1>9. e.quellen = F.ko[k].quellen
  BY <1>2, <1>3, <1>6, <1>7
<1>10. ASSUME NEW i \in Seiten
       PROVE  e.seiten[i] = F.ko[k].seiten[i]
  <2>1. CASE e.quellen[i] = Ohne
    <3>1. A.lage.ko[k].quellen[i] = Ohne
      BY <1>2, <1>6, <1>9, <2>1
    <3>2. A.lage.ko[k].seiten[i] = Leer
      BY <1>2, <1>6, <3>1 DEF NiemandVonHand
    <3>3. e.seiten[i] = Leer
      BY <1>3, <1>8, <2>1, <3>2
    <3>4. F.ko[k].seiten[i] = Leer
      BY <1>9, <2>1 DEF NiemandVonHand
    <3> QED BY <3>3, <3>4
  <2>2. CASE e.quellen[i] # Ohne
    BY <1>5, <2>2 DEF FehlverdrahtungFrei
  <2> QED BY <2>1, <2>2
<1>11. e.seiten = F.ko[k].seiten
  BY <1>4, <1>10
<1> QED BY <1>9, <1>11 DEF NurStand

-----------------------------------------------------------------------------
(* Every kept report. *)

\* What a kept report b promises, undone over the season its save left.
Belegt(b) ==
  LET r == Zurueckgenommen(b.nachher, b.eintraege) IN
  AusEinerRunde(b.vorher.ko) =>
    /\ r.erlaubt => r.lage = b.vorher
    /\ AllesGepflegt(b.vorher) /\ NurErgebnisse(b) => r.erlaubt

LEMMA GruppeBelegt ==
  ASSUME NEW F, GuteLage(F), Sauber(F), NEW p \in Paarungen, NEW st, GutesErgebnis(p, st),
         NEW s, s = GruppeGespeichert(F, p, st)
  PROVE  Belegt([eintraege |-> s.bericht, vorher |-> F, nachher |-> s.lage])
<1> DEFINE b == [eintraege |-> s.bericht, vorher |-> F, nachher |-> s.lage]
<1>1. b.eintraege = s.bericht /\ b.vorher = F /\ b.nachher = s.lage
  OBVIOUS
<1>2. AusEinerRunde(F.ko) => Stellt(F, s.lage, s.bericht, Voll(F))
  BY GruppeStelltHer DEF GuterStand
<1> HIDE DEF b
<1>3. AllesGepflegt(F) /\ NurErgebnisse(b) => Voll(F)
  BY <1>1 DEF Voll, NurErgebnisse
<1>4. Belegt(b)
  BY <1>1, <1>2, <1>3 DEF Belegt, Stellt
<1> QED BY <1>4 DEF b

LEMMA KoBelegt ==
  ASSUME NEW F, GuteLage(F), Sauber(F), NEW k \in Nrn, NEW e, GuteAnfrage(k, e),
         NEW s, s = KoGespeichert(F, k, e), s.erlaubt
  PROVE  Belegt([eintraege |-> s.bericht, vorher |-> F, nachher |-> s.lage])
<1> DEFINE b == [eintraege |-> s.bericht, vorher |-> F, nachher |-> s.lage]
<1>1. b.eintraege = s.bericht /\ b.vorher = F /\ b.nachher = s.lage
  OBVIOUS
<1>2. AusEinerRunde(F.ko) => Stellt(F, s.lage, s.bericht, Voll(F) /\ NurStand(F, k, e))
  BY KoStelltHer DEF GuterStand
<1>3. KoErlaubt(F, k, e)
  BY DEF KoGespeichert, Abgelehnt
<1> HIDE DEF b
<1>4. AllesGepflegt(F) /\ NurErgebnisse(b) => Voll(F) /\ NurStand(F, k, e)
  BY <1>1, <1>3, NurStandGespeichert DEF Voll, NurErgebnisse
<1>5. Belegt(b)
  BY <1>1, <1>2, <1>4 DEF Belegt, Stellt
<1> QED BY <1>5 DEF b

\* One request after the other, a kept report is of the season as it stands.
BelegInv ==
  ~betrieb.zugleich =>
    \A a \in Akteure :
      /\ beleg[a].eintraege # <<>> => Belegt(beleg[a]) /\ beleg[a].nachher = Lage
      /\ tx[a] # Frei /\ tx[a].op.beleg.eintraege # <<>> =>
           Belegt(tx[a].op.beleg) /\ tx[a].op.beleg.nachher = Danach(Lage, tx[a].op)

\* The report a save keeps.
LEMMA BeginntBeleg ==
  ASSUME Inv, NEW a \in Akteure, NEW art, NEW r, Beginnt(a, art, r), tx'[a].op.beleg.eintraege # <<>>
  PROVE  art = "speichern" /\ tx'[a].op.beleg = [eintraege |-> r.bericht, vorher |-> Lage, nachher |-> r.lage]
<1> DEFINE op == [art |-> art,
                  gruppe |-> [p \in {q \in Paarungen : <<"gruppe", q>> \in r.schreibt} |-> r.lage.gruppe[p]],
                  ko |-> [k \in {l \in Nrn : <<"ko", l>> \in r.schreibt} |-> r.lage.ko[k]],
                  beleg |-> IF betrieb.ruecknahme /\ art = "speichern"
                            THEN [eintraege |-> r.bericht, vorher |-> Lage, nachher |-> r.lage]
                            ELSE KeinBeleg]
<1>1. tx' = [tx EXCEPT ![a] = Bereit(op, r.schreibt)]
  BY DEF Beginnt
<1>2. tx = [b \in Akteure |-> tx[b]]
  BY DEF Inv, DokumenteInv
<1>3. op.beleg = IF betrieb.ruecknahme /\ art = "speichern"
                 THEN [eintraege |-> r.bericht, vorher |-> Lage, nachher |-> r.lage] ELSE KeinBeleg
  OBVIOUS
<1> HIDE DEF op
<1>4. tx'[a].op = op
  BY <1>1, <1>2 DEF Bereit
<1>5. KeinBeleg.eintraege = <<>>
  BY DEF KeinBeleg
<1> QED BY <1>3, <1>4, <1>5

LEMMA BelegBeginnt ==
  ASSUME Inv, BelegInv, NEW a \in Akteure, NEW art, NEW r, GuteSpeicherung(Lage, r), Beginnt(a, art, r),
         ~betrieb.zugleich /\ art = "speichern"
           => Belegt([eintraege |-> r.bericht, vorher |-> Lage, nachher |-> r.lage])
  PROVE  BelegInv'
<1> DEFINE t == tx'[a]
<1>1. /\ betrieb.zugleich \/ \A b \in Akteure \ {a} : tx[b] = Frei /\ beleg[b] = KeinBeleg
      /\ Lage' = Lage /\ beleg' = beleg /\ betrieb' = betrieb
      /\ \A b \in Akteure \ {a} : tx'[b] = tx[b]
      /\ Danach(Lage, t.op) = r.lage
  BY BeginntSetzt
<1> HIDE DEF t
<1>2. SUFFICES ASSUME ~betrieb.zugleich
               PROVE  \A b \in Akteure :
                        /\ beleg[b].eintraege # <<>> => Belegt(beleg[b]) /\ beleg[b].nachher = Lage
                        /\ tx'[b] # Frei /\ tx'[b].op.beleg.eintraege # <<>> =>
                             Belegt(tx'[b].op.beleg) /\ tx'[b].op.beleg.nachher = Danach(Lage, tx'[b].op)
  BY <1>1 DEF BelegInv
<1>3. \A b \in Akteure : beleg[b].eintraege # <<>> => Belegt(beleg[b]) /\ beleg[b].nachher = Lage
  BY <1>2 DEF BelegInv
<1>4. \A b \in Akteure \ {a} : tx'[b] = Frei
  BY <1>1, <1>2
<1>5. ASSUME t.op.beleg.eintraege # <<>>
      PROVE  Belegt(t.op.beleg) /\ t.op.beleg.nachher = Danach(Lage, t.op)
  <2>1. art = "speichern" /\ t.op.beleg = [eintraege |-> r.bericht, vorher |-> Lage, nachher |-> r.lage]
    BY <1>5, BeginntBeleg DEF t
  <2>2. t.op.beleg.nachher = r.lage
    BY <2>1
  <2> QED BY <1>1, <1>2, <2>1, <2>2
<1> QED BY <1>3, <1>4, <1>5 DEF t

LEMMA BelegBeginne ==
  ASSUME Inv, BelegInv, NEW a \in Akteure, Beginne(a)
  PROVE  BelegInv'
<1>1. DokumenteInv /\ GuteLage(Lage) /\ (~betrieb.zugleich => Sauber(Lage))
  BY DEF Inv, DokumenteInv, EinzelnInv
<1>2. ASSUME NEW p \in betrieb.paarungen, NEW st \in {"offen"} \cup betrieb.ereignisse \cup p,
             BeginneGruppenspiel(a, p, st)
      PROVE  BelegInv'
  <2>1. p \in Paarungen /\ GutesErgebnis(p, st)
    BY <1>1, BoundsAssumption DEF DokumenteInv, GutesErgebnis
  <2> DEFINE r == GruppeGespeichert(Lage, p, st)
  <2>2. GuteSpeicherung(Lage, r)
    BY <1>1, <2>1, GruppeGespeichertGilt
  <2>3. ~betrieb.zugleich => Belegt([eintraege |-> r.bericht, vorher |-> Lage, nachher |-> r.lage])
    BY <1>1, <2>1, GruppeBelegt
  <2>4. Beginnt(a, "speichern", r)
    BY <1>2 DEF BeginneGruppenspiel
  <2> HIDE DEF r
  <2> QED BY <2>2, <2>3, <2>4, BelegBeginnt
<1>3. ASSUME NEW k \in Nrn, NEW e \in Anfragen(k), BeginneKoSpiel(a, k, e)
      PROVE  BelegInv'
  <2>1. GuteAnfrage(k, e)
    BY <1>1, AnfragenGut
  <2> DEFINE r == KoGespeichert(Lage, k, e)
  <2>2. GuteSpeicherung(Lage, r)
    BY <1>1, <2>1, KoGespeichertGilt
  <2>3. Beginnt(a, "speichern", r)
    BY <1>3 DEF BeginneKoSpiel
  <2>4. r.erlaubt
    BY <2>3 DEF Beginnt
  <2>5. ~betrieb.zugleich => Belegt([eintraege |-> r.bericht, vorher |-> Lage, nachher |-> r.lage])
    BY <1>1, <2>1, <2>4, KoBelegt
  <2> HIDE DEF r
  <2> QED BY <2>2, <2>3, <2>5, BelegBeginnt
<1>4. ASSUME BeginneRuecknahme(a)
      PROVE  BelegInv'
  <2> DEFINE z == beleg[a].eintraege
             r == Zurueckgenommen(Lage, z)
  <2>1. z \in Seq(Eintraege)
    BY <1>1 DEF DokumenteInv
  <2>2. Beginnt(a, "zuruecknehmen", r)
    BY <1>4 DEF BeginneRuecknahme
  <2>3. GuteSpeicherung(Lage, r)
    BY <1>1, <2>1, ZurueckgenommenGilt
  <2>4. "zuruecknehmen" # "speichern"
    OBVIOUS
  <2> HIDE DEF r, z
  <2> QED BY <2>2, <2>3, <2>4, BelegBeginnt
<1> QED BY <1>2, <1>3, <1>4 DEF Beginne

LEMMA BelegSchreibe ==
  ASSUME Inv, NacheinanderInv, BelegInv, NEW a \in Akteure, Schreibe(a)
  PROVE  BelegInv'
<1> DEFINE op == tx[a].op
<1>1. tx = [b \in Akteure |-> tx[b]] /\ beleg = [b \in Akteure |-> beleg[b]]
  BY DEF Inv, DokumenteInv
<1>2. tx[a] # Frei
  BY DEF Schreibe, Frei
<1>3. /\ Lage' = Danach(Lage, op)
      /\ betrieb' = betrieb
      /\ beleg' = [beleg EXCEPT ![a] = op.beleg]
      /\ tx' = [b \in Akteure |-> IF b = a \/ Kollidiert(tx[a], tx[b]) THEN Frei ELSE tx[b]]
  BY <1>1 DEF Schreibe, Festgeschrieben, Lage, Danach
<1> HIDE DEF op
<1>4. /\ \A b \in Akteure : beleg'[b] = IF b = a THEN op.beleg ELSE beleg[b]
      /\ \A b \in Akteure : tx'[b] \in {Frei, tx[b]}
      /\ tx'[a] = Frei
  BY <1>1, <1>3
<1>5. ASSUME ~betrieb.zugleich
      PROVE  \A b \in Akteure :
               /\ beleg'[b].eintraege # <<>> => Belegt(beleg'[b]) /\ beleg'[b].nachher = Lage'
               /\ tx'[b] = Frei
  <2>1. \A b \in Akteure \ {a} : beleg[b].eintraege = <<>>
    BY <1>2, <1>5 DEF NacheinanderInv
  <2>2. \A b \in Akteure \ {a} : tx[b] = Frei
    BY <1>2, <1>5 DEF Inv, EinzelnInv
  <2>3. op.beleg.eintraege # <<>> => Belegt(op.beleg) /\ op.beleg.nachher = Danach(Lage, op)
    BY <1>2, <1>5 DEF BelegInv, op
  <2> QED BY <1>3, <1>4, <2>1, <2>2, <2>3
<1> QED BY <1>3, <1>5 DEF BelegInv

LEMMA BelegAbbruch ==
  ASSUME Inv, BelegInv, NEW a \in Akteure, Abbruch(a)
  PROVE  BelegInv'
<1>1. tx' = [tx EXCEPT ![a] = Frei] /\ Lage' = Lage /\ beleg' = beleg /\ betrieb' = betrieb
  BY DEF Abbruch, daten, Lage
<1>2. tx = [b \in Akteure |-> tx[b]]
  BY DEF Inv, DokumenteInv
<1>3. \A b \in Akteure : tx'[b] = IF b = a THEN Frei ELSE tx[b]
  BY <1>1, <1>2
<1> QED BY <1>1, <1>3 DEF BelegInv

LEMMA BelegAnfang ==
  ASSUME Init
  PROVE  BelegInv
<1>1. \A a \in Akteure : beleg[a].eintraege = <<>> /\ tx[a] = Frei
  BY DEF Init, KeinBeleg
<1> QED BY <1>1 DEF BelegInv

LEMMA BelegSchritt ==
  ASSUME Inv, NacheinanderInv, BelegInv, [Next]_vars
  PROVE  BelegInv'
<1>1. CASE UNCHANGED vars
  <2>1. Lage' = Lage /\ tx' = tx /\ beleg' = beleg /\ betrieb' = betrieb
    BY <1>1 DEF vars, daten, Lage
  <2> QED BY <2>1 DEF BelegInv
<1>2. CASE Next
  BY <1>2, BelegBeginne, BelegSchreibe, BelegAbbruch DEF Next
<1> QED BY <1>1, <1>2

\* One request after the other, an undo that is accepted gives back the season the undone save
\* found, clubs, results and sources through every later round, whether the save recorded a result
\* or edited sides and sources by hand; and no judgement refuses it where the save recorded a
\* result and every slot was maintained (report_prior_paarungen, PATCH /spiele/paarungen).
THEOREM UndoStelltHer == Spec /\ ~betrieb.zugleich => []RuecknahmeStelltHer
<1>1. BelegInv /\ ~betrieb.zugleich => RuecknahmeStelltHer
  BY DEF BelegInv, Belegt, RuecknahmeStelltHer
<1>2. Inv /\ NacheinanderInv /\ ~betrieb.zugleich /\ [Next]_vars => (~betrieb.zugleich)'
  BY SchrittFest
<1>3. Init => NacheinanderInv /\ BelegInv
  BY NacheinanderAnfang, BelegAnfang
<1>4. Inv /\ NacheinanderInv /\ BelegInv /\ [Next]_vars => (NacheinanderInv /\ BelegInv)'
  BY SchrittFest, BelegSchritt
<1> QED BY <1>1, <1>2, <1>3, <1>4, InvGilt, PTL DEF Spec
=============================================================================
