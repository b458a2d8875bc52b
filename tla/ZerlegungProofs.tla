--------------------------- MODULE ZerlegungProofs ---------------------------
(***************************************************************************)
(* Proofs about module Zerlegung, for any rows, page and share, and any    *)
(* number of failures no row carries.                                      *)
(***************************************************************************)
EXTENDS Zerlegung, FiniteSetTheorems, SequenceTheorems, TLAPS

-----------------------------------------------------------------------------
(* The inductive invariant, told of what the rows carry a, the stored rows ze and the *)
(* call L, so that it can be carried along the parts of one step.                     *)

Arten == {"heil", "unlesbar", "giftig", "stehend"}
Staende == {"fern", "faellig", "spaet", "getan", "fort"}

Lauf == [schuldet : BOOLEAN, phase : {"seite", "teilen", "fertig", "fehler"}, stapel : Seq(SUBSET Zeilen),
         gelesen : Nat, bewegt : BOOLEAN, liegen : BOOLEAN, gelungen : BOOLEAN, rest : 0..Anteil,
         beantwortet : SUBSET Zeilen, ungewiss : SUBSET Zeilen, weggelegt : [Zeilen -> 0..2],
         stoerungen : Nat]

Getane(ze) == {z \in Zeilen : ze[z] = "getan"}

\* A row still to be attempted is unwritten, and was not passed over unless its judge raises.
Unversucht(a, ze, L, z) == ze[z] # "getan" /\ (L.weggelegt[z] = 0 \/ a[z] = "unlesbar")

\* The halves still to be attempted are disjoint, and hold rows nobody wrote.
StapelStimmt(a, ze, L) ==
  \A i \in 1..Len(L.stapel) :
    /\ L.stapel[i] # {} /\ \A z \in L.stapel[i] : Unversucht(a, ze, L, z)
    /\ \A j \in 1..Len(L.stapel) : i # j => L.stapel[i] \cap L.stapel[j] = {}

\* A row passed over stands, and fails alone unless a failure no row carries came between.
WeggelegtStimmt(a, ze, L) ==
  \A z \in Zeilen : L.weggelegt[z] # 0 =>
    /\ ze[z] # "getan"
    /\ L.stoerungen = 0 => a[z] \in {"unlesbar", "giftig"}

\* A page read whole and taken apart has each sound row that is due in a half to come.
DrainStimmt(a, ze, L) ==
  ~L.schuldet /\ L.stoerungen = 0 =>
    \A z \in Zeilen : a[z] = "heil" /\ ze[z] = "faellig" =>
      /\ L.phase = "teilen" /\ L.gelesen <= Seite => \E i \in 1..Len(L.stapel) : z \in L.stapel[i]
      /\ L.phase # "fertig"

\* What a call that owes messages wrote, its answer carries or the deadline cut; and its
\* share pays for it.
SchuldStimmt(ze, L) ==
  L.schuldet =>
    /\ Getane(ze) \subseteq L.ungewiss \cup L.beantwortet
    /\ ~L.gelungen => L.beantwortet = {}
    /\ L.phase = "fehler" => ~L.gelungen
    /\ Cardinality(Getane(ze)) <= Anteil
    /\ L.phase \in {"seite", "teilen"} => Cardinality(Getane(ze)) + L.rest <= Anteil
    /\ L.phase = "seite" => L.rest = Anteil

LaufStimmt(a, ze, L) ==
  /\ L \in Lauf
  /\ L.phase # "teilen" => L.stapel = <<>>
  /\ StapelStimmt(a, ze, L) /\ WeggelegtStimmt(a, ze, L)
  /\ DrainStimmt(a, ze, L) /\ SchuldStimmt(ze, L)

IInv == art \in [Zeilen -> Arten] /\ zeile \in [Zeilen -> Staende] /\ LaufStimmt(art, zeile, lauf)

-----------------------------------------------------------------------------
(* Finite sets of rows, and the first of them. *)

LEMMA Endlich ==
  ASSUME NEW S \in SUBSET Zeilen
  PROVE  IsFiniteSet(S) /\ Cardinality(S) \in Nat /\ (Cardinality(S) = 0 <=> S = {}) /\ S \subseteq Nat
<1>1. IsFiniteSet(S) /\ S \subseteq Nat
  BY ZeilenAssumption, FS_Subset
<1> QED BY <1>1, FS_CardinalityType, FS_EmptySet

LEMMA Teilmenge ==
  ASSUME NEW S \in SUBSET Zeilen, NEW T \in SUBSET S
  PROVE  Cardinality(T) <= Cardinality(S)
BY Endlich, FS_Subset

\* A set of rows has a last one: one smallest among those without would have none itself.
LEMMA Letzte ==
  ASSUME NEW S \in SUBSET Zeilen, S # {}
  PROVE  \E m \in S : \A y \in S : y <= m
<1> DEFINE Ohne == {T \in SUBSET Zeilen : T # {} /\ ~ \E m \in T : \A y \in T : y <= m}
<1>1. SUFFICES ASSUME Ohne # {} PROVE FALSE
  BY DEF Ohne
<1>2. IsWellFoundedOn(StrictSubsetOrdering(Zeilen), SUBSET Zeilen)
  BY ZeilenAssumption, FS_FiniteSubsetsOfFinite, FS_StrictSubsetOrderingWellFounded
<1>3. Ohne \subseteq SUBSET Zeilen
  OBVIOUS
<1>4. \E T \in Ohne : \A U \in Ohne : <<U, T>> \notin StrictSubsetOrdering(Zeilen)
  <2> HIDE DEF Ohne
  <2> QED BY <1>1, <1>2, <1>3, WFMin
<1>5. PICK T \in Ohne : \A U \in Ohne : <<U, T>> \notin StrictSubsetOrdering(Zeilen)
  BY <1>4
<1>6. PICK x \in T : x \in Nat
  BY Endlich, <1>5
<1>7. T \ {x} \notin Ohne
  BY <1>3, <1>5, <1>6 DEF StrictSubsetOrdering
<1>8. CASE T \ {x} = {}
  BY <1>5, <1>6, <1>8
<1>9. CASE T \ {x} # {}
  <2>1. PICK m \in T \ {x} : \A y \in T \ {x} : y <= m
    BY <1>3, <1>5, <1>7, <1>9
  <2>2. T \subseteq Nat
    BY <1>5, Endlich
  <2>3. \E k \in T : \A y \in T : y <= k
    <3>1. CASE x <= m
      BY <2>1, <2>2, <3>1
    <3>2. CASE m <= x
      BY <1>6, <2>1, <2>2, <3>2
    <3> QED BY <1>6, <2>1, <2>2, <3>1, <3>2
  <2> QED BY <1>5, <2>3
<1> QED BY <1>8, <1>9

\* The first n rows are at most n, some where there are any, and not all where there are
\* more.
LEMMA ErsteStimmt ==
  ASSUME NEW S \in SUBSET Zeilen, NEW n \in Nat
  PROVE  /\ Erste(S, n) \subseteq S /\ Cardinality(Erste(S, n)) <= n
         /\ n > 0 /\ S # {} => Erste(S, n) # {}
         /\ n < Cardinality(S) => S \ Erste(S, n) # {}
<1> DEFINE E == Erste(S, n)
           Vor(z) == {y \in S : y < z}
<1>1. E \subseteq S /\ E \subseteq Zeilen /\ S \subseteq Nat
  BY Endlich DEF Erste
<1>2. \A z \in E : Cardinality(Vor(z)) < n
  BY DEF Erste
<1>3. Cardinality(E) <= n
  <2>1. CASE E = {}
    BY <2>1, Endlich
  <2>2. CASE E # {}
    <3>1. PICK m \in E : \A y \in E : y <= m
      <4> HIDE DEF E
      <4> QED BY <1>1, <2>2, Letzte
    <3>2. m \in Nat /\ m \in S /\ m \in Zeilen
      BY <1>1, <3>1
    <3>3. E \subseteq Vor(m) \cup {m}
      <4>1. ASSUME NEW y \in E PROVE y \in S /\ (y < m \/ y = m)
        <5>1. y \in S /\ y \in Nat /\ y <= m
          BY <1>1, <3>1
        <5> QED BY <3>2, <5>1
      <4> QED BY <4>1
    <3>4. Vor(m) \in SUBSET Zeilen /\ Vor(m) \cup {m} \in SUBSET Zeilen
      BY <3>2
    <3>5. m \notin Vor(m)
      BY <3>2
    <3>6. Cardinality(Vor(m)) < n
      BY <1>2, <3>1
    <3>7. Cardinality(E) \in Nat
      BY <1>1, Endlich
    <3> HIDE DEF E, Vor
    <3>8. Cardinality(Vor(m)) \in Nat /\ Cardinality(Vor(m) \cup {m}) = Cardinality(Vor(m)) + 1
      BY <3>4, <3>5, Endlich, FS_AddElement
    <3>9. Cardinality(E) <= Cardinality(Vor(m) \cup {m})
      BY <3>3, <3>4, Teilmenge
    <3> QED BY <3>6, <3>7, <3>8, <3>9
  <2> QED BY <2>1, <2>2
<1>4. ASSUME n > 0, S # {} PROVE E # {}
  <2>1. \E x \in S : \A y \in S : <<y, x>> \notin OpToRel(<, Nat)
    BY <1>1, <1>4, WFMin, NatLessThanWellFounded, Zenon
  <2>2. PICK x \in S : \A y \in S : <<y, x>> \notin OpToRel(<, Nat)
    BY <2>1
  <2>3. \A y \in S : ~ (y < x)
    BY <1>1, <2>2, Zenon DEF OpToRel
  <2>4. Vor(x) = {}
    BY <2>3
  <2>5. Cardinality(Vor(x)) < n
    BY <1>4, <2>4, FS_EmptySet
  <2> QED BY <2>2, <2>5 DEF Erste
<1>5. ASSUME n < Cardinality(S) PROVE S \ E # {}
  <2>1. E # S
    BY <1>3, <1>5, Endlich
  <2> QED BY <1>1, <2>1
<1> QED BY <1>1, <1>3, <1>4, <1>5

-----------------------------------------------------------------------------
(* The stack of halves. *)

LEMMA Gestapelt ==
  ASSUME NEW t \in Seq(SUBSET Zeilen), NEW A \in SUBSET Zeilen, NEW B \in SUBSET Zeilen
  PROVE  LET u == <<A, B>> \o t IN
         /\ u \in Seq(SUBSET Zeilen) /\ Len(u) = Len(t) + 2 /\ u[1] = A /\ u[2] = B
         /\ \A i \in 1..Len(t) : u[i + 2] = t[i]
         /\ \A i \in 1..Len(u) : i = 1 \/ i = 2 \/ (i - 2 \in 1..Len(t) /\ u[i] = t[i - 2])
<1> DEFINE ab == <<A, B>>
           u == ab \o t
<1>1. ab \in Seq(SUBSET Zeilen) /\ Len(ab) = 2 /\ ab[1] = A /\ ab[2] = B /\ Len(t) \in Nat
  BY LenProperties
<1> HIDE DEF ab
<1>2. /\ u \in Seq(SUBSET Zeilen) /\ Len(u) = 2 + Len(t)
      /\ \A i \in 1 .. 2 + Len(t) : u[i] = IF i <= 2 THEN ab[i] ELSE t[i - 2]
  <2>1. /\ u \in Seq(SUBSET Zeilen) /\ Len(u) = Len(ab) + Len(t)
        /\ \A i \in 1 .. Len(ab) + Len(t) : u[i] = IF i <= Len(ab) THEN ab[i] ELSE t[i - Len(ab)]
    BY <1>1, ConcatProperties, Zenon
  <2> HIDE DEF u
  <2> QED BY <1>1, <2>1
<1> HIDE DEF u
<1>3. u[1] = A /\ u[2] = B
  BY <1>1, <1>2
<1>4. \A i \in 1..Len(t) : u[i + 2] = t[i]
  <2> TAKE i \in 1..Len(t)
  <2>1. i + 2 \in 1 .. 2 + Len(t) /\ ~(i + 2 <= 2) /\ i + 2 - 2 = i
    BY <1>1
  <2> QED BY <1>2, <2>1
<1>5. \A i \in 1..Len(u) : i = 1 \/ i = 2 \/ (i - 2 \in 1..Len(t) /\ u[i] = t[i - 2])
  BY <1>1, <1>2
<1> QED BY <1>1, <1>2, <1>3, <1>4, <1>5 DEF u, ab

LEMMA Abgenommen ==
  ASSUME NEW t \in Seq(SUBSET Zeilen), t # <<>>
  PROVE  /\ Tail(t) \in Seq(SUBSET Zeilen) /\ Head(t) \in SUBSET Zeilen /\ Head(t) = t[1] /\ 1 \in 1..Len(t)
         /\ \A i \in 1..Len(Tail(t)) : i + 1 \in 1..Len(t) /\ Tail(t)[i] = t[i + 1]
         /\ \A i \in 1..Len(t) : i = 1 \/ (i - 1 \in 1..Len(Tail(t)) /\ Tail(t)[i - 1] = t[i])
<1>1. /\ Tail(t) \in Seq(SUBSET Zeilen) /\ Head(t) \in SUBSET Zeilen /\ Len(Tail(t)) = Len(t) - 1
      /\ \A i \in 1 .. Len(Tail(t)) : Tail(t)[i] = t[i+1]
      /\ Len(t) \in Nat \ {0} /\ Head(t) = t[1]
  BY HeadTailProperties, EmptySeq
<1>2. \A i \in 1..Len(t) : i = 1 \/ (i - 1 \in 1..Len(Tail(t)) /\ Tail(t)[i - 1] = t[i])
  <2> SUFFICES ASSUME NEW i \in 1..Len(t), i # 1 PROVE i - 1 \in 1..Len(Tail(t)) /\ Tail(t)[i - 1] = t[i]
    OBVIOUS
  <2>1. i - 1 \in 1..Len(Tail(t)) /\ (i - 1) + 1 = i
    BY <1>1
  <2> QED BY <1>1, <2>1
<1> QED BY <1>1, <1>2

-----------------------------------------------------------------------------
(* What the parts of an attempt do to the call. *)

LEMMA WeggelegtTyp ==
  ASSUME NEW L \in Lauf, NEW S \in SUBSET Zeilen
  PROVE  LET M == Weggelegt(L, S) IN
         /\ M \in Lauf /\ M.schuldet = L.schuldet /\ M.phase = L.phase /\ M.stapel = L.stapel
         /\ M.gelesen = L.gelesen /\ M.gelungen = L.gelungen /\ M.rest = L.rest
         /\ M.beantwortet = L.beantwortet /\ M.ungewiss = L.ungewiss /\ M.stoerungen = L.stoerungen
         /\ \A y \in Zeilen : M.weggelegt[y] # 0 <=> L.weggelegt[y] # 0 \/ y \in S
<1> DEFINE w == [z \in Zeilen |-> L.weggelegt[z] + IF z \in S /\ L.weggelegt[z] < 2 THEN 1 ELSE 0]
           M == [L EXCEPT !.weggelegt = w, !.liegen = L.liegen \/ S # {}]
<1>1. \A z \in Zeilen : L.weggelegt[z] \in 0..2
  BY DEF Lauf
<1>2. w \in [Zeilen -> 0..2] /\ \A y \in Zeilen : w[y] # 0 <=> L.weggelegt[y] # 0 \/ y \in S
  BY <1>1
<1>3. (L.liegen \/ S # {}) \in BOOLEAN
  BY Zenon
<1>4. Weggelegt(L, S) = M
  BY DEF Weggelegt
<1> HIDE DEF w
<1>5. /\ M \in Lauf /\ M.schuldet = L.schuldet /\ M.phase = L.phase /\ M.stapel = L.stapel
      /\ M.gelesen = L.gelesen /\ M.gelungen = L.gelungen /\ M.rest = L.rest
      /\ M.beantwortet = L.beantwortet /\ M.ungewiss = L.ungewiss /\ M.stoerungen = L.stoerungen
      /\ M.weggelegt = w
  BY <1>2, <1>3 DEF Lauf
<1> HIDE DEF M
<1> QED BY <1>2, <1>4, <1>5

\* A row alone is passed over; more are two halves, on top of those to come.
GeteiltIst(L, V, M) ==
  /\ M \in Lauf /\ M.schuldet = L.schuldet /\ M.phase = L.phase
  /\ M.gelesen = L.gelesen /\ M.gelungen = L.gelungen /\ M.rest = L.rest
  /\ M.beantwortet = L.beantwortet /\ M.ungewiss = L.ungewiss /\ M.stoerungen = L.stoerungen
  /\ \/ /\ M.stapel = L.stapel
        /\ \E z \in Zeilen : V = {z} /\ \A y \in Zeilen : M.weggelegt[y] # 0 <=> L.weggelegt[y] # 0 \/ y = z
     \/ /\ M.weggelegt = L.weggelegt
        /\ \E A, B \in SUBSET Zeilen :
             /\ A # {} /\ B # {} /\ A \cap B = {} /\ A \cup B = V /\ M.stapel = <<A, B>> \o L.stapel

LEMMA GeteiltTyp ==
  ASSUME NEW L \in Lauf, NEW V \in SUBSET Zeilen, V # {}
  PROVE  GeteiltIst(L, V, Geteilt(L, V))
<1> DEFINE k == Cardinality(V) \div 2
           A == Erste(V, k)
           B == V \ A
<1>1. Cardinality(V) \in Nat /\ Cardinality(V) # 0
  BY Endlich
<1>2. CASE Cardinality(V) = 1
  <2>1. \E z : V = {z}
    BY <1>2, Endlich, FS_Singleton
  <2>2. PICK z \in Zeilen : V = {z}
    BY <2>1
  <2>3. Geteilt(L, V) = Weggelegt(L, V)
    BY <1>2 DEF Geteilt
  <2> DEFINE M == Weggelegt(L, V)
  <2>4. /\ M \in Lauf /\ M.schuldet = L.schuldet /\ M.phase = L.phase /\ M.stapel = L.stapel
        /\ M.gelesen = L.gelesen /\ M.gelungen = L.gelungen /\ M.rest = L.rest
        /\ M.beantwortet = L.beantwortet /\ M.ungewiss = L.ungewiss /\ M.stoerungen = L.stoerungen
        /\ \A y \in Zeilen : M.weggelegt[y] # 0 <=> L.weggelegt[y] # 0 \/ y \in V
    BY WeggelegtTyp
  <2> HIDE DEF M
  <2>5. \E x \in Zeilen : V = {x} /\ \A y \in Zeilen : M.weggelegt[y] # 0 <=> L.weggelegt[y] # 0 \/ y = x
    BY <2>2, <2>4
  <2>6. GeteiltIst(L, V, M)
    BY <2>4, <2>5 DEF GeteiltIst
  <2> QED BY <2>3, <2>6 DEF M
<1>3. CASE Cardinality(V) # 1
  <2>1. k \in Nat /\ k > 0 /\ k < Cardinality(V)
    BY <1>1, <1>3
  <2> HIDE DEF k
  <2>2. A \subseteq V /\ A # {} /\ B # {}
    BY <2>1, ErsteStimmt
  <2>3. Geteilt(L, V) = [L EXCEPT !.stapel = <<A, B>> \o L.stapel]
    BY <1>3 DEF Geteilt, k
  <2>4. /\ A \in SUBSET Zeilen /\ B \in SUBSET Zeilen /\ A # {} /\ B # {} /\ A \cap B = {} /\ A \cup B = V
    BY <2>2
  <2> HIDE DEF A, B
  <2>5. <<A, B>> \o L.stapel \in Seq(SUBSET Zeilen)
    BY <2>4, Gestapelt DEF Lauf
  <2> DEFINE s == <<A, B>> \o L.stapel
             M == [L EXCEPT !.stapel = s]
  <2> HIDE DEF s
  <2>6. /\ M \in Lauf /\ M.schuldet = L.schuldet /\ M.phase = L.phase
        /\ M.gelesen = L.gelesen /\ M.gelungen = L.gelungen /\ M.rest = L.rest
        /\ M.beantwortet = L.beantwortet /\ M.ungewiss = L.ungewiss /\ M.stoerungen = L.stoerungen
        /\ M.weggelegt = L.weggelegt /\ M.stapel = s
    BY <2>5 DEF Lauf, s
  <2>7. Geteilt(L, V) = M
    BY <2>3 DEF s
  <2> HIDE DEF M
  <2>8. GeteiltIst(L, V, M)
    BY <2>4, <2>6 DEF s, GeteiltIst
  <2> QED BY <2>7, <2>8
<1> QED BY <1>2, <1>3

LEMMA GenommenStimmt ==
  ASSUME NEW S \in SUBSET Zeilen, NEW n \in Nat
  PROVE  /\ Genommen(S, n) \subseteq S
         /\ \A z \in Genommen(S, n) : art[z] \in {"heil", "giftig"}
         /\ lauf.schuldet => Cardinality(Genommen(S, n)) <= n
         /\ ~lauf.schuldet => \A z \in S : art[z] = "heil" => z \in Genommen(S, n)
<1> DEFINE W == {z \in S : art[z] \in {"heil", "giftig"}}
<1>1. W \in SUBSET Zeilen /\ W \subseteq S /\ \A z \in W : art[z] \in {"heil", "giftig"}
  OBVIOUS
<1>2. CASE lauf.schuldet
  <2>1. Genommen(S, n) = Erste(W, n)
    BY <1>2 DEF Genommen
  <2> HIDE DEF W
  <2> QED BY <1>1, <1>2, <2>1, ErsteStimmt
<1>3. CASE ~lauf.schuldet
  BY <1>3 DEF Genommen
<1> QED BY <1>2, <1>3

-----------------------------------------------------------------------------
(* An attempt. *)

\* What an attempt over the rows S, writing up to n, starts from.
Bereit(L, S, n) ==
  /\ art \in [Zeilen -> Arten] /\ zeile \in [Zeilen -> Staende]
  /\ L \in Lauf /\ S \in SUBSET Zeilen /\ n \in Nat /\ L.schuldet = lauf.schuldet
  /\ StapelStimmt(art, zeile, L) /\ WeggelegtStimmt(art, zeile, L)
  /\ \A z \in S : Unversucht(art, zeile, L, z)
  /\ \A i \in 1..Len(L.stapel) : S \cap L.stapel[i] = {}
  /\ L.schuldet => /\ Getane(zeile) \subseteq L.ungewiss \cup L.beantwortet
                   /\ ~L.gelungen => L.beantwortet = {}
                   /\ n = L.rest /\ Cardinality(Getane(zeile)) + n <= Anteil

LEMMA GezaehltStimmt ==
  ASSUME NEW L, NEW S, NEW n, NEW ausgang, Bereit(L, S, n)
  PROVE  LET M == Gezaehlt(L, ausgang, S, n) IN
         /\ Bereit(M, S, n) /\ M.phase = L.phase /\ M.stapel = L.stapel /\ M.gelesen = L.gelesen
         /\ M.gelungen = L.gelungen
         /\ M.stoerungen = 0 => L.stoerungen = 0 /\ ~Stoerung(ausgang, S, n)
<1> DEFINE s == L.stoerungen + IF Stoerung(ausgang, S, n) THEN 1 ELSE 0
           M == [L EXCEPT !.stoerungen = s]
<1>1. L \in Lauf /\ L.stoerungen \in Nat
  BY DEF Bereit, Lauf
<1>2. s \in Nat /\ (s = 0 => L.stoerungen = 0 /\ ~Stoerung(ausgang, S, n))
  BY <1>1
<1>3. Gezaehlt(L, ausgang, S, n) = M
  BY DEF Gezaehlt
<1> HIDE DEF s
<1>4. /\ M \in Lauf /\ M.schuldet = L.schuldet /\ M.phase = L.phase /\ M.stapel = L.stapel
      /\ M.gelesen = L.gelesen /\ M.gelungen = L.gelungen /\ M.rest = L.rest
      /\ M.beantwortet = L.beantwortet /\ M.ungewiss = L.ungewiss /\ M.weggelegt = L.weggelegt
      /\ M.stoerungen = s
  BY <1>1, <1>2 DEF Lauf
<1> HIDE DEF M
<1>5. StapelStimmt(art, zeile, M) /\ \A z \in S : Unversucht(art, zeile, M, z)
  BY <1>4 DEF Bereit, StapelStimmt, Unversucht
<1>6. WeggelegtStimmt(art, zeile, M)
  BY <1>2, <1>4 DEF Bereit, WeggelegtStimmt
<1>7. Bereit(M, S, n)
  BY <1>4, <1>5, <1>6 DEF Bereit
<1> QED BY <1>2, <1>3, <1>4, <1>7

\* An attempt that commits: what it took is written, and answered.
LEMMA GelingtStimmt ==
  ASSUME NEW L, NEW S, NEW n, Bereit(L, S, n)
  PROVE  LET R == Weggelegt(Geschrieben(L, S, n), Verweigert(S))
             ze == Getan(S, n)
         IN  /\ R \in Lauf /\ R.schuldet = L.schuldet /\ R.phase = L.phase /\ R.stapel = L.stapel
             /\ R.gelesen = L.gelesen /\ R.stoerungen = L.stoerungen /\ R.gelungen
             /\ StapelStimmt(art, ze, R) /\ WeggelegtStimmt(art, ze, R)
             /\ R.schuldet => /\ Getane(ze) \subseteq R.ungewiss \cup R.beantwortet
                              /\ Cardinality(Getane(ze)) + R.rest <= Anteil
                              /\ Cardinality(Getane(ze)) <= Anteil
<1> DEFINE G == Genommen(S, n)
           ze == Getan(S, n)
           r == IF lauf.schuldet THEN L.rest - Cardinality(G) ELSE L.rest
           b == L.bewegt \/ G # {}
           M == [L EXCEPT !.gelungen = TRUE, !.beantwortet = L.beantwortet \cup G, !.bewegt = b, !.rest = r]
           R == Weggelegt(M, Verweigert(S))
<1>1. /\ L \in Lauf /\ S \in SUBSET Zeilen /\ n \in Nat /\ L.schuldet = lauf.schuldet
      /\ zeile \in [Zeilen -> Staende]
  BY DEF Bereit
<1>2. /\ G \subseteq S /\ \A z \in G : art[z] \in {"heil", "giftig"}
      /\ lauf.schuldet => Cardinality(G) <= n
  BY <1>1, GenommenStimmt
<1>3. G \in SUBSET Zeilen /\ Cardinality(G) \in Nat /\ Verweigert(S) \in SUBSET Zeilen
  BY <1>1, <1>2, Endlich DEF Verweigert
<1>4. r \in 0..Anteil
  BY <1>1, <1>2, <1>3, SeitenAssumption DEF Bereit, Lauf
<1>5. b \in BOOLEAN
  BY Zenon
<1>6. Geschrieben(L, S, n) = M
  BY DEF Geschrieben
<1>7. \A z \in Zeilen : ze[z] = IF z \in G THEN "getan" ELSE zeile[z]
  BY DEF Getan
<1>8. Getane(ze) = Getane(zeile) \cup G
  BY <1>3, <1>7 DEF Getane
<1>9. lauf.schuldet => Cardinality(Getane(ze)) + r <= Anteil /\ Cardinality(Getane(ze)) <= Anteil
  <2> SUFFICES ASSUME lauf.schuldet PROVE Cardinality(Getane(ze)) + r <= Anteil /\ Cardinality(Getane(ze)) <= Anteil
    OBVIOUS
  <2>1. /\ IsFiniteSet(Getane(zeile)) /\ Cardinality(Getane(zeile)) \in Nat
        /\ IsFiniteSet(G)
        /\ Cardinality(Getane(zeile) \cap G) \in Nat
    BY <1>3, Endlich DEF Getane
  <2>2. Cardinality(Getane(zeile) \cup G) = Cardinality(Getane(zeile)) + Cardinality(G) - Cardinality(Getane(zeile) \cap G)
    BY <2>1, FS_Union
  <2>3. Cardinality(Getane(zeile)) + n <= Anteil /\ n = L.rest
    BY <1>1 DEF Bereit
  <2>4. r = n - Cardinality(G)
    BY <2>3
  <2> HIDE DEF G, ze, r
  <2> QED BY <1>1, <1>2, <1>3, <1>8, <2>1, <2>2, <2>3, <2>4, SeitenAssumption
<1> HIDE DEF G, r, b
<1>10. /\ M \in Lauf /\ M.schuldet = L.schuldet /\ M.phase = L.phase /\ M.stapel = L.stapel
       /\ M.gelesen = L.gelesen /\ M.gelungen /\ M.rest = r /\ M.weggelegt = L.weggelegt
       /\ M.beantwortet = L.beantwortet \cup G /\ M.ungewiss = L.ungewiss /\ M.stoerungen = L.stoerungen
  BY <1>1, <1>3, <1>4, <1>5 DEF Lauf
<1> HIDE DEF M
<1>11. /\ R \in Lauf /\ R.schuldet = L.schuldet /\ R.phase = L.phase /\ R.stapel = L.stapel
       /\ R.gelesen = L.gelesen /\ R.gelungen /\ R.rest = r
       /\ R.beantwortet = L.beantwortet \cup G /\ R.ungewiss = L.ungewiss /\ R.stoerungen = L.stoerungen
       /\ \A y \in Zeilen : R.weggelegt[y] # 0 <=> L.weggelegt[y] # 0 \/ y \in Verweigert(S)
  BY <1>3, <1>10, WeggelegtTyp
<1> HIDE DEF R
<1>12. StapelStimmt(art, ze, R)
  <2>1. ASSUME NEW i \in 1..Len(L.stapel), NEW z \in L.stapel[i]
        PROVE  Unversucht(art, ze, R, z)
    <3>1. z \in Zeilen /\ z \notin S /\ Unversucht(art, zeile, L, z)
      BY <1>1, <2>1, ElementOfSeq DEF Bereit, StapelStimmt, Lauf
    <3> QED BY <1>2, <1>7, <1>11, <3>1 DEF Unversucht, Verweigert
  <2> QED BY <1>11, <2>1 DEF Bereit, StapelStimmt
<1>13. WeggelegtStimmt(art, ze, R)
  <2>1. ASSUME NEW z \in Zeilen, R.weggelegt[z] # 0
        PROVE  ze[z] # "getan" /\ (R.stoerungen = 0 => art[z] \in {"unlesbar", "giftig"})
    <3>1. CASE z \in Verweigert(S)
      <4>1. art[z] = "unlesbar" /\ zeile[z] # "getan"
        BY <3>1 DEF Verweigert, Bereit, Unversucht
      <4> QED BY <1>2, <1>7, <4>1
    <3>2. CASE z \notin Verweigert(S)
      <4>1. L.weggelegt[z] # 0 /\ z \notin Verweigert(S)
        BY <1>11, <2>1, <3>2
      <4>2. z \notin G
        <5>1. ASSUME z \in G PROVE FALSE
          <6>1. z \in S /\ art[z] # "unlesbar"
            BY <1>2, <5>1
          <6> QED BY <4>1, <6>1 DEF Bereit, Unversucht
        <5> QED BY <5>1
      <4> QED BY <1>7, <1>11, <4>1, <4>2 DEF Bereit, WeggelegtStimmt
    <3> QED BY <3>1, <3>2
  <2> QED BY <2>1 DEF WeggelegtStimmt
<1>14. R.schuldet => Getane(ze) \subseteq R.ungewiss \cup R.beantwortet
  BY <1>8, <1>11 DEF Bereit
<1> QED BY <1>1, <1>6, <1>9, <1>11, <1>12, <1>13, <1>14 DEF R

\* An attempt that ends the call: nothing of it is left to do, and what was written before is
\* answered.
LEMMA AbgebrochenStimmt ==
  ASSUME NEW L, NEW S, NEW n, Bereit(L, S, n), NEW U \in {{}, Genommen(S, n)},
         NEW ze, ze = IF U = {} THEN zeile ELSE Getan(S, n)
  PROVE  LaufStimmt(art, ze, Abgebrochen([L EXCEPT !.ungewiss = @ \cup U]))
<1> DEFINE f == IF lauf.schuldet /\ L.gelungen THEN "fertig" ELSE "fehler"
           R == [L EXCEPT !.ungewiss = L.ungewiss \cup U, !.phase = f, !.stapel = <<>>]
<1>1. /\ L \in Lauf /\ S \in SUBSET Zeilen /\ n \in Nat /\ L.schuldet = lauf.schuldet
      /\ zeile \in [Zeilen -> Staende]
  BY DEF Bereit
<1>2. /\ U \subseteq S /\ \A z \in U : art[z] \in {"heil", "giftig"}
      /\ lauf.schuldet => Cardinality(U) <= n
  BY <1>1, GenommenStimmt, FS_EmptySet
<1>3. U \in SUBSET Zeilen /\ Cardinality(U) \in Nat
  BY <1>1, <1>2, Endlich
<1>4. \A z \in Zeilen : ze[z] = IF z \in U THEN "getan" ELSE zeile[z]
  BY DEF Getan
<1>5. Getane(ze) = Getane(zeile) \cup U
  BY <1>3, <1>4 DEF Getane
<1>6. <<>> \in Seq(SUBSET Zeilen) /\ Len(<<>>) = 0
  BY EmptySeq
<1>7. f \in {"fertig", "fehler"}
  OBVIOUS
<1>8. /\ R \in Lauf /\ R.schuldet = L.schuldet /\ R.phase = f /\ R.stapel = <<>>
      /\ R.gelungen = L.gelungen /\ R.rest = L.rest /\ R.weggelegt = L.weggelegt
      /\ R.beantwortet = L.beantwortet /\ R.ungewiss = L.ungewiss \cup U /\ R.stoerungen = L.stoerungen
  BY <1>1, <1>3, <1>6, <1>7 DEF Lauf
<1>9. Abgebrochen([L EXCEPT !.ungewiss = L.ungewiss \cup U]) = R
  BY <1>1 DEF Abgebrochen, Lauf
<1> HIDE DEF R
<1>10. StapelStimmt(art, ze, R)
  BY <1>6, <1>8 DEF StapelStimmt
<1>11. WeggelegtStimmt(art, ze, R)
  <2>1. ASSUME NEW z \in Zeilen, L.weggelegt[z] # 0 PROVE z \notin U
    BY <1>2, <2>1 DEF Bereit, Unversucht
  <2> QED BY <1>4, <1>8, <2>1 DEF Bereit, WeggelegtStimmt
<1>12. DrainStimmt(art, ze, R)
  BY <1>1, <1>8 DEF DrainStimmt
<1>13. SchuldStimmt(ze, R)
  <2> SUFFICES ASSUME lauf.schuldet PROVE SchuldStimmt(ze, R)
    BY <1>1, <1>8 DEF SchuldStimmt
  <2>1. /\ IsFiniteSet(Getane(zeile)) /\ Cardinality(Getane(zeile)) \in Nat /\ IsFiniteSet(U)
        /\ Cardinality(Getane(zeile) \cap U) \in Nat
    BY <1>3, Endlich DEF Getane
  <2>2. Cardinality(Getane(zeile) \cup U) = Cardinality(Getane(zeile)) + Cardinality(U) - Cardinality(Getane(zeile) \cap U)
    BY <2>1, FS_Union
  <2>3. Cardinality(Getane(zeile)) + n <= Anteil
    BY <1>1 DEF Bereit
  <2>4. Cardinality(Getane(ze)) <= Anteil
    <3>1. Cardinality(U) <= n
      BY <1>2
    <3>2. Cardinality(Getane(ze)) = Cardinality(Getane(zeile) \cup U)
      BY <1>5
    <3> QED BY <1>1, <1>3, <2>1, <2>2, <2>3, <3>1, <3>2, SeitenAssumption
  <2>5. Getane(ze) \subseteq R.ungewiss \cup R.beantwortet /\ (~R.gelungen => R.beantwortet = {})
    BY <1>1, <1>5, <1>8 DEF Bereit
  <2>6. R.phase = "fehler" => ~R.gelungen
    BY <1>8
  <2> QED BY <1>7, <1>8, <2>4, <2>5, <2>6 DEF SchuldStimmt
<1> QED BY <1>7, <1>8, <1>9, <1>10, <1>11, <1>12, <1>13 DEF LaufStimmt

\* An attempt a row carries: what it took is two halves to come, or passed over alone.
LEMMA GetragenStimmt ==
  ASSUME NEW L, NEW S, NEW n, NEW ausgang, Bereit(L, S, n), Moeglich(ausgang, S, n), Getragen(ausgang),
         L.stoerungen = 0 => ~Stoerung(ausgang, S, n)
  PROVE  LET R == Zerlegt(L, ausgang, S, n) IN
         /\ R \in Lauf /\ R.schuldet = L.schuldet /\ R.phase = L.phase
         /\ R.gelesen = L.gelesen /\ R.gelungen = L.gelungen /\ R.rest = L.rest
         /\ R.beantwortet = L.beantwortet /\ R.ungewiss = L.ungewiss /\ R.stoerungen = L.stoerungen
         /\ StapelStimmt(art, zeile, R) /\ WeggelegtStimmt(art, zeile, R)
         /\ \A i \in 1..Len(L.stapel) : \E j \in 1..Len(R.stapel) : R.stapel[j] = L.stapel[i]
         /\ ~L.schuldet /\ R.stoerungen = 0 =>
              \A z \in S : art[z] = "heil" => \E j \in 1..Len(R.stapel) : z \in R.stapel[j]
<1> DEFINE V == Verdaechtige(ausgang, S, n)
           N == Verweigert(S)
           W == Weggelegt(L, N)
           R == Geteilt(W, V)
<1>1. /\ L \in Lauf /\ S \in SUBSET Zeilen /\ n \in Nat /\ L.schuldet = lauf.schuldet
      /\ L.stapel \in Seq(SUBSET Zeilen) /\ Len(L.stapel) \in Nat
  BY LenProperties DEF Bereit, Lauf
<1>2. /\ \A z \in S : Unversucht(art, zeile, L, z)
      /\ \A i \in 1..Len(L.stapel) : S \cap L.stapel[i] = {}
      /\ StapelStimmt(art, zeile, L) /\ WeggelegtStimmt(art, zeile, L)
  BY DEF Bereit
<1>3. V \subseteq S /\ V # {}
  <2>1. Genommen(S, n) \subseteq S
    BY <1>1, GenommenStimmt
  <2>2. CASE ausgang = "schreiben"
    BY <2>1, <2>2 DEF Moeglich, Verdaechtige
  <2>3. CASE ausgang = "urteil"
    BY <2>3 DEF Moeglich, Verdaechtige
  <2> QED BY <2>2, <2>3 DEF Getragen
<1>4. L.stoerungen = 0 => V = Genommen(S, n) /\ \E z \in V : art[z] = "giftig"
  BY DEF Stoerung, Getragen, Verdaechtige
<1>5. L.stoerungen = 0 /\ ~L.schuldet => \A z \in S : art[z] = "heil" => z \in V
  BY <1>1, <1>4, GenommenStimmt
<1>6. N \in SUBSET Zeilen /\ N \subseteq S /\ \A z \in N : art[z] = "unlesbar"
  BY <1>1 DEF Verweigert
<1>7. /\ W \in Lauf /\ W.schuldet = L.schuldet /\ W.phase = L.phase /\ W.stapel = L.stapel
      /\ W.gelesen = L.gelesen /\ W.gelungen = L.gelungen /\ W.rest = L.rest
      /\ W.beantwortet = L.beantwortet /\ W.ungewiss = L.ungewiss /\ W.stoerungen = L.stoerungen
      /\ \A y \in Zeilen : W.weggelegt[y] # 0 <=> L.weggelegt[y] # 0 \/ y \in N
  <2> HIDE DEF N
  <2> QED BY <1>1, <1>6, WeggelegtTyp
<1>8. V \in SUBSET Zeilen
  BY <1>1, <1>3
<1> HIDE DEF V, N, W
<1>9. GeteiltIst(W, V, R)
  BY <1>3, <1>7, <1>8, GeteiltTyp
<1> HIDE DEF R
<1>10. /\ R \in Lauf /\ R.schuldet = L.schuldet /\ R.phase = L.phase
       /\ R.gelesen = L.gelesen /\ R.gelungen = L.gelungen /\ R.rest = L.rest
       /\ R.beantwortet = L.beantwortet /\ R.ungewiss = L.ungewiss /\ R.stoerungen = L.stoerungen
  BY <1>7, <1>9 DEF GeteiltIst
<1> DEFINE Teile == /\ StapelStimmt(art, zeile, R) /\ WeggelegtStimmt(art, zeile, R)
                    /\ \A i \in 1..Len(L.stapel) : \E j \in 1..Len(R.stapel) : R.stapel[j] = L.stapel[i]
                    /\ ~L.schuldet /\ R.stoerungen = 0 =>
                         \A z \in S : art[z] = "heil" => \E j \in 1..Len(R.stapel) : z \in R.stapel[j]
<1>11. \A y \in Zeilen : y \in S => zeile[y] # "getan"
  BY <1>2 DEF Unversucht
\* A row passed over is one passed over before, one its judge raised for, or one in V.
<1>12. ASSUME NEW y \in Zeilen, L.weggelegt[y] # 0 \/ y \in N
       PROVE  zeile[y] # "getan" /\ (L.stoerungen = 0 => art[y] \in {"unlesbar", "giftig"})
  BY <1>2, <1>6, <1>11, <1>12 DEF WeggelegtStimmt
<1>13. ASSUME NEW i \in 1..Len(L.stapel), NEW y \in L.stapel[i]
       PROVE  y \in Zeilen /\ y \notin S /\ Unversucht(art, zeile, L, y)
  BY <1>1, <1>2, ElementOfSeq DEF StapelStimmt
<1>14. ASSUME /\ R.stapel = L.stapel
              /\ \E z \in Zeilen : V = {z} /\ \A y \in Zeilen : R.weggelegt[y] # 0 <=> W.weggelegt[y] # 0 \/ y = z
       PROVE  Teile
  <2>1. PICK z \in Zeilen : V = {z} /\ \A y \in Zeilen : R.weggelegt[y] # 0 <=> W.weggelegt[y] # 0 \/ y = z
    BY <1>14
  <2>2. z \in S /\ (L.stoerungen = 0 => art[z] = "giftig")
    BY <1>3, <1>4, <2>1
  <2>3. ASSUME NEW i \in 1..Len(R.stapel), NEW y \in R.stapel[i] PROVE Unversucht(art, zeile, R, y)
    <3>1. y \in Zeilen /\ y \notin S /\ Unversucht(art, zeile, L, y)
      BY <1>13, <1>14
    <3>2. R.weggelegt[y] # 0 <=> L.weggelegt[y] # 0
      BY <1>6, <1>7, <2>1, <2>2, <3>1
    <3> QED BY <3>1, <3>2 DEF Unversucht
  <2>4. StapelStimmt(art, zeile, R)
    BY <1>2, <1>14, <2>3 DEF StapelStimmt
  <2>5. WeggelegtStimmt(art, zeile, R)
    <3>1. ASSUME NEW y \in Zeilen, R.weggelegt[y] # 0
          PROVE  zeile[y] # "getan" /\ (R.stoerungen = 0 => art[y] \in {"unlesbar", "giftig"})
      <4>1. L.weggelegt[y] # 0 \/ y \in N \/ y = z
        BY <1>7, <2>1, <3>1
      <4>2. CASE y = z
        BY <1>10, <1>11, <2>2, <4>2
      <4> QED BY <1>10, <1>12, <4>1, <4>2
    <3> QED BY <3>1 DEF WeggelegtStimmt
  <2>6. ~L.schuldet /\ R.stoerungen = 0 => \A y \in S : art[y] # "heil"
    BY <1>5, <1>10, <2>1, <2>2
  <2>7. \A i \in 1..Len(L.stapel) : \E j \in 1..Len(R.stapel) : R.stapel[j] = L.stapel[i]
    BY <1>14
  <2> QED BY <2>4, <2>5, <2>6, <2>7
<1>15. ASSUME /\ R.weggelegt = W.weggelegt
              /\ \E A, B \in SUBSET Zeilen :
                   /\ A # {} /\ B # {} /\ A \cap B = {} /\ A \cup B = V /\ R.stapel = <<A, B>> \o L.stapel
       PROVE  Teile
  <2>1. PICK A, B \in SUBSET Zeilen :
          A # {} /\ B # {} /\ A \cap B = {} /\ A \cup B = V /\ R.stapel = <<A, B>> \o L.stapel
    BY <1>15
  <2> DEFINE k == Len(L.stapel)
             u == R.stapel
  <2>2. /\ Len(u) = k + 2 /\ u[1] = A /\ u[2] = B
        /\ \A i \in 1..k : u[i + 2] = L.stapel[i]
        /\ \A i \in 1..Len(u) : i = 1 \/ i = 2 \/ (i - 2 \in 1..k /\ u[i] = L.stapel[i - 2])
    BY <1>1, <2>1, Gestapelt
  <2>3. ASSUME NEW i \in 1..Len(u), NEW y \in u[i] PROVE Unversucht(art, zeile, R, y)
    <3>1. y \in Zeilen /\ Unversucht(art, zeile, L, y) /\ (y \in S \/ y \notin N)
      <4>1. CASE i = 1 \/ i = 2
        BY <1>1, <1>2, <1>3, <2>1, <2>2, <2>3, <4>1
      <4>2. CASE i - 2 \in 1..k /\ u[i] = L.stapel[i - 2]
        BY <1>6, <1>13, <2>3, <4>2
      <4> QED BY <2>2, <4>1, <4>2
    <3>2. R.weggelegt[y] # 0 <=> L.weggelegt[y] # 0 \/ y \in N
      BY <1>7, <1>15, <3>1
    <3>3. R.weggelegt[y] # 0 => art[y] = "unlesbar"
      BY <1>6, <3>1, <3>2 DEF Unversucht
    <3>4. R.weggelegt[y] = 0 \/ art[y] = "unlesbar"
      BY <3>3
    <3> QED BY <3>1, <3>4 DEF Unversucht
  <2>4. ASSUME NEW i \in 1..Len(u) PROVE u[i] # {}
    <3>1. CASE i - 2 \in 1..k /\ u[i] = L.stapel[i - 2]
      BY <1>2, <3>1 DEF StapelStimmt
    <3> QED BY <2>1, <2>2, <3>1
  <2>5. ASSUME NEW i \in 1..Len(u), NEW j \in 1..Len(u), i # j PROVE u[i] \cap u[j] = {}
    <3>1. \A e \in 1..k : A \cap L.stapel[e] = {} /\ B \cap L.stapel[e] = {}
      BY <1>2, <1>3, <2>1
    <3>2. CASE i = 1 \/ i = 2
      BY <2>1, <2>2, <2>5, <3>1, <3>2
    <3>3. CASE j = 1 \/ j = 2
      BY <2>1, <2>2, <2>5, <3>1, <3>3
    <3>4. CASE ~(i = 1 \/ i = 2) /\ ~(j = 1 \/ j = 2)
      <4>1. i - 2 \in 1..k /\ j - 2 \in 1..k /\ i - 2 # j - 2 /\ u[i] = L.stapel[i - 2] /\ u[j] = L.stapel[j - 2]
        BY <2>2, <2>5, <3>4
      <4>2. L.stapel[i - 2] \cap L.stapel[j - 2] = {}
        BY <1>2, <4>1 DEF StapelStimmt
      <4> QED BY <4>1, <4>2
    <3> QED BY <3>2, <3>3, <3>4
  <2>6. StapelStimmt(art, zeile, R)
    BY <2>3, <2>4, <2>5 DEF StapelStimmt
  <2>7. WeggelegtStimmt(art, zeile, R)
    <3>1. ASSUME NEW y \in Zeilen, R.weggelegt[y] # 0
          PROVE  zeile[y] # "getan" /\ (R.stoerungen = 0 => art[y] \in {"unlesbar", "giftig"})
      BY <1>7, <1>10, <1>12, <1>15, <3>1
    <3> QED BY <3>1 DEF WeggelegtStimmt
  <2>8. \A i \in 1..k : i + 2 \in 1..Len(u)
    BY <1>1, <2>2
  <2>9. 1 \in 1..Len(u) /\ 2 \in 1..Len(u)
    BY <1>1, <2>2
  <2>10. ~L.schuldet /\ R.stoerungen = 0 =>
           \A y \in S : art[y] = "heil" => \E j \in 1..Len(u) : y \in u[j]
    BY <1>5, <1>10, <2>1, <2>2, <2>9
  <2>11. \A i \in 1..k : \E j \in 1..Len(u) : u[j] = L.stapel[i]
    BY <2>2, <2>8
  <2> QED BY <2>6, <2>7, <2>10, <2>11
<1>16. Teile
  <2>1. W.stapel = L.stapel
    BY <1>7
  <2> HIDE DEF Teile
  <2>2. CASE /\ R.stapel = W.stapel
             /\ \E z \in Zeilen : V = {z} /\ \A y \in Zeilen : R.weggelegt[y] # 0 <=> W.weggelegt[y] # 0 \/ y = z
    BY <1>14, <2>1, <2>2
  <2>3. CASE /\ R.weggelegt = W.weggelegt
             /\ \E A, B \in SUBSET Zeilen :
                  /\ A # {} /\ B # {} /\ A \cap B = {} /\ A \cup B = V /\ R.stapel = <<A, B>> \o W.stapel
    BY <1>15, <2>1, <2>3
  <2> QED BY <1>9, <2>2, <2>3 DEF GeteiltIst
<1> QED BY <1>10, <1>16 DEF R, W, N, V, Zerlegt

\* Each sound row that is due is one the attempt reads or one of a half to come.
Offen(L, S) ==
  ~L.schuldet /\ L.stoerungen = 0 /\ L.gelesen <= Seite =>
    \A z \in Zeilen : art[z] = "heil" /\ zeile[z] = "faellig" =>
      z \in S \/ \E i \in 1..Len(L.stapel) : z \in L.stapel[i]

\* The call L, but for the phase it has come to.
Bis(L, p, M) ==
  /\ M \in Lauf /\ M.phase = p /\ M.schuldet = L.schuldet /\ M.stapel = L.stapel
  /\ M.gelesen = L.gelesen /\ M.gelungen = L.gelungen /\ M.rest = L.rest
  /\ M.beantwortet = L.beantwortet /\ M.ungewiss = L.ungewiss
  /\ M.weggelegt = L.weggelegt /\ M.stoerungen = L.stoerungen

LEMMA PhaseTyp ==
  ASSUME NEW L \in Lauf, NEW p \in {"seite", "teilen", "fertig", "fehler"}
  PROVE  Bis(L, p, [L EXCEPT !.phase = p])
BY DEF Lauf, Bis

LEMMA PhaseStimmt ==
  ASSUME NEW L, NEW S, NEW n, NEW p, NEW M, Bereit(L, S, n), Offen(L, S), Bis(L, p, M)
  PROVE  Bereit(M, S, n) /\ Offen(M, S)
<1>1. StapelStimmt(art, zeile, M) /\ WeggelegtStimmt(art, zeile, M)
  BY DEF Bereit, Bis, StapelStimmt, WeggelegtStimmt, Unversucht
<1>2. \A z \in S : Unversucht(art, zeile, M, z)
  BY DEF Bereit, Bis, Unversucht
<1>3. Bereit(M, S, n)
  BY <1>1, <1>2 DEF Bereit, Bis
<1>4. Offen(M, S)
  BY DEF Offen, Bis
<1> QED BY <1>3, <1>4

LEMMA GetragenLauf ==
  ASSUME NEW L, NEW S, NEW n, NEW ausgang, Bereit(L, S, n), Moeglich(ausgang, S, n), Getragen(ausgang),
         L.stoerungen = 0 => ~Stoerung(ausgang, S, n), Offen(L, S), L.phase = "teilen"
  PROVE  LaufStimmt(art, zeile, Zerlegt(L, ausgang, S, n))
<1> DEFINE R == Zerlegt(L, ausgang, S, n)
<1>1. /\ R \in Lauf /\ R.schuldet = L.schuldet /\ R.phase = L.phase
      /\ R.gelesen = L.gelesen /\ R.gelungen = L.gelungen /\ R.rest = L.rest
      /\ R.beantwortet = L.beantwortet /\ R.ungewiss = L.ungewiss /\ R.stoerungen = L.stoerungen
      /\ StapelStimmt(art, zeile, R) /\ WeggelegtStimmt(art, zeile, R)
      /\ \A i \in 1..Len(L.stapel) : \E j \in 1..Len(R.stapel) : R.stapel[j] = L.stapel[i]
      /\ ~L.schuldet /\ R.stoerungen = 0 =>
           \A z \in S : art[z] = "heil" => \E j \in 1..Len(R.stapel) : z \in R.stapel[j]
  BY GetragenStimmt
<1> HIDE DEF R
<1>2. DrainStimmt(art, zeile, R)
  <2> SUFFICES ASSUME ~L.schuldet, L.stoerungen = 0, L.gelesen <= Seite,
                      NEW z \in Zeilen, art[z] = "heil", zeile[z] = "faellig"
               PROVE  \E j \in 1..Len(R.stapel) : z \in R.stapel[j]
    BY <1>1 DEF DrainStimmt
  <2>1. z \in S \/ \E i \in 1..Len(L.stapel) : z \in L.stapel[i]
    BY DEF Offen
  <2>2. CASE \E i \in 1..Len(L.stapel) : z \in L.stapel[i]
    BY <1>1, <2>2
  <2> QED BY <1>1, <2>1, <2>2
<1>3. SchuldStimmt(zeile, R)
  <2> SUFFICES ASSUME L.schuldet PROVE SchuldStimmt(zeile, R)
    BY <1>1 DEF SchuldStimmt
  <2>1. /\ Getane(zeile) \subseteq L.ungewiss \cup L.beantwortet /\ (~L.gelungen => L.beantwortet = {})
        /\ n = L.rest /\ n \in Nat /\ Cardinality(Getane(zeile)) + n <= Anteil
    BY DEF Bereit
  <2>2. Cardinality(Getane(zeile)) \in Nat
    BY Endlich DEF Getane
  <2>3. Cardinality(Getane(zeile)) <= Anteil
    BY <2>1, <2>2, SeitenAssumption
  <2> QED BY <1>1, <2>1, <2>3 DEF SchuldStimmt
<1> QED BY <1>1, <1>2, <1>3 DEF LaufStimmt, R

LEMMA GelingtLauf ==
  ASSUME NEW L, NEW S, NEW n, Bereit(L, S, n), Offen(L, S), NEW M, NEW p \in {"seite", "teilen", "fertig"},
         Bis(Weggelegt(Geschrieben(L, S, n), Verweigert(S)), p, M),
         p # "teilen" => L.stapel = <<>>,
         p = "seite" => ~L.schuldet,
         p = "fertig" => L.schuldet \/ L.gelesen <= Seite
  PROVE  LaufStimmt(art, Getan(S, n), M)
<1> DEFINE R == Weggelegt(Geschrieben(L, S, n), Verweigert(S))
           ze == Getan(S, n)
<1>1. /\ R \in Lauf /\ R.schuldet = L.schuldet /\ R.phase = L.phase /\ R.stapel = L.stapel
      /\ R.gelesen = L.gelesen /\ R.stoerungen = L.stoerungen /\ R.gelungen
      /\ StapelStimmt(art, ze, R) /\ WeggelegtStimmt(art, ze, R)
      /\ R.schuldet => /\ Getane(ze) \subseteq R.ungewiss \cup R.beantwortet
                       /\ Cardinality(Getane(ze)) + R.rest <= Anteil
                       /\ Cardinality(Getane(ze)) <= Anteil
  BY GelingtStimmt
<1>2. Bis(R, p, M)
  OBVIOUS
<1>3. /\ S \in SUBSET Zeilen /\ n \in Nat /\ L.schuldet = lauf.schuldet /\ L.stapel \in Seq(SUBSET Zeilen)
  BY DEF Bereit, Lauf
<1>4. ASSUME NEW z \in Zeilen, ze[z] = "faellig" PROVE zeile[z] = "faellig" /\ z \notin Genommen(S, n)
  BY <1>4 DEF Getan
<1> HIDE DEF R, ze
<1>5. StapelStimmt(art, ze, M) /\ WeggelegtStimmt(art, ze, M)
  BY <1>1, <1>2 DEF Bis, StapelStimmt, WeggelegtStimmt, Unversucht
<1>6. DrainStimmt(art, ze, M)
  <2> SUFFICES ASSUME ~L.schuldet, L.stoerungen = 0, NEW z \in Zeilen, art[z] = "heil", ze[z] = "faellig"
               PROVE  /\ p = "teilen" /\ L.gelesen <= Seite => \E j \in 1..Len(L.stapel) : z \in L.stapel[j]
                      /\ p # "fertig"
    BY <1>1, <1>2 DEF DrainStimmt, Bis
  <2>1. zeile[z] = "faellig" /\ z \notin S
    BY <1>3, <1>4, GenommenStimmt
  <2>2. L.gelesen <= Seite => \E i \in 1..Len(L.stapel) : z \in L.stapel[i]
    BY <2>1 DEF Offen
  <2>3. L.stapel = <<>> => 1..Len(L.stapel) = {}
    BY EmptySeq
  <2> QED BY <2>2, <2>3
<1>7. SchuldStimmt(ze, M)
  BY <1>1, <1>2 DEF SchuldStimmt, Bis
<1>8. M.phase # "teilen" => M.stapel = <<>>
  BY <1>1, <1>2 DEF Bis
<1> QED BY <1>2, <1>5, <1>6, <1>7, <1>8 DEF LaufStimmt, Bis, ze

\* What an attempt that neither commits nor is carried by a row leaves.
LEMMA AbgebrochenLauf ==
  ASSUME NEW L, NEW S, NEW n, NEW ausgang \in Ausgaenge, Bereit(L, S, n), Moeglich(ausgang, S, n),
         ausgang # "gelingt"
  PROVE  LaufStimmt(art, IF ausgang \in {"gelingt", "ungewiss"} THEN Getan(S, n) ELSE zeile,
                    Abgebrochen([L EXCEPT !.ungewiss = @ \cup IF ausgang = "ungewiss" THEN Genommen(S, n) ELSE {}]))
<1> DEFINE U == IF ausgang = "ungewiss" THEN Genommen(S, n) ELSE {}
           ze == IF ausgang \in {"gelingt", "ungewiss"} THEN Getan(S, n) ELSE zeile
<1>1. U \in {{}, Genommen(S, n)}
  OBVIOUS
<1>2. ze = IF U = {} THEN zeile ELSE Getan(S, n)
  BY DEF Moeglich
<1> HIDE DEF U, ze
<1>3. LaufStimmt(art, ze, Abgebrochen([L EXCEPT !.ungewiss = @ \cup U]))
  BY <1>1, <1>2, AbgebrochenStimmt
<1> QED BY <1>3 DEF U, ze

LEMMA GetanTyp ==
  ASSUME NEW S, NEW n, zeile \in [Zeilen -> Staende]
  PROVE  Getan(S, n) \in [Zeilen -> Staende]
BY DEF Getan, Staende

\* Before a page is read the call has no half, and its share is whole.
LEMMA SeiteStimmt ==
  ASSUME IInv, lauf.phase = "seite", NEW S \in Lesbar(Seitenzeilen)
  PROVE  LET M == [lauf EXCEPT !.gelesen = Cardinality(S), !.bewegt = FALSE, !.liegen = FALSE] IN
         /\ Bereit(M, S, Anteil) /\ Offen(M, S)
         /\ M.stapel = <<>> /\ M.gelesen = Cardinality(S) /\ M.stoerungen = lauf.stoerungen
         /\ M.schuldet = lauf.schuldet
<1> DEFINE M == [lauf EXCEPT !.gelesen = Cardinality(S), !.bewegt = FALSE, !.liegen = FALSE]
<1>1. /\ lauf \in Lauf /\ lauf.stapel = <<>> /\ WeggelegtStimmt(art, zeile, lauf) /\ SchuldStimmt(zeile, lauf)
      /\ art \in [Zeilen -> Arten] /\ zeile \in [Zeilen -> Staende]
  BY DEF IInv, LaufStimmt
<1>2. Seitenzeilen \in SUBSET Zeilen /\ \A z \in Seitenzeilen : zeile[z] # "getan" /\ lauf.weggelegt[z] = 0
  BY DEF Seitenzeilen, Faellige
<1>3. S \subseteq Seitenzeilen /\ (~lauf.schuldet => S = Seitenzeilen \/ Cardinality(S) = Seite + 1)
  <2>1. Erste(Seitenzeilen, Seite + 1) \subseteq Seitenzeilen
    BY DEF Erste
  <2> QED BY <2>1 DEF Lesbar
<1>4. S \in SUBSET Zeilen /\ Cardinality(S) \in Nat
  BY <1>2, <1>3, Endlich
<1>5. /\ M \in Lauf /\ M.schuldet = lauf.schuldet /\ M.stapel = <<>> /\ M.gelesen = Cardinality(S)
      /\ M.gelungen = lauf.gelungen /\ M.rest = lauf.rest /\ M.beantwortet = lauf.beantwortet
      /\ M.ungewiss = lauf.ungewiss /\ M.weggelegt = lauf.weggelegt /\ M.stoerungen = lauf.stoerungen
  BY <1>1, <1>4 DEF Lauf
<1> HIDE DEF M
<1>6. 1..Len(M.stapel) = {}
  BY <1>5, EmptySeq
<1>7. StapelStimmt(art, zeile, M) /\ WeggelegtStimmt(art, zeile, M)
  BY <1>1, <1>5, <1>6 DEF StapelStimmt, WeggelegtStimmt
<1>8. \A z \in S : Unversucht(art, zeile, M, z)
  BY <1>2, <1>3, <1>5 DEF Unversucht
<1>9. lauf.schuldet => /\ Getane(zeile) \subseteq M.ungewiss \cup M.beantwortet
                       /\ ~M.gelungen => M.beantwortet = {}
                       /\ Anteil = M.rest /\ Cardinality(Getane(zeile)) + Anteil <= Anteil
  BY <1>1, <1>5 DEF SchuldStimmt
<1>10. Bereit(M, S, Anteil)
  BY <1>1, <1>4, <1>5, <1>6, <1>7, <1>8, <1>9, SeitenAssumption DEF Bereit
<1>11. Offen(M, S)
  <2> SUFFICES ASSUME ~lauf.schuldet, lauf.stoerungen = 0, Cardinality(S) <= Seite,
                      NEW z \in Zeilen, art[z] = "heil", zeile[z] = "faellig"
               PROVE  z \in S
    BY <1>5 DEF Offen
  <2>1. S = Seitenzeilen
    BY <1>3, SeitenAssumption
  <2>2. lauf.weggelegt[z] = 0
    BY <1>1 DEF WeggelegtStimmt
  <2> QED BY <2>1, <2>2 DEF Seitenzeilen, Faellige
<1> QED BY <1>5, <1>10, <1>11 DEF M

LEMMA VersucheStimmt ==
  ASSUME IInv, Versuche
  PROVE  IInv'
<1>1. PICK S \in Lesbar(Seitenzeilen), ausgang \in Ausgaenge :
        LET L == Gezaehlt([lauf EXCEPT !.gelesen = Cardinality(S), !.bewegt = FALSE, !.liegen = FALSE],
                          ausgang, S, Anteil) IN
        /\ Moeglich(ausgang, S, Anteil)
        /\ zeile' = IF ausgang \in {"gelingt", "ungewiss"} THEN Getan(S, Anteil) ELSE zeile
        /\ lauf' =
             IF ausgang = "gelingt"
             THEN NachDerSeite(Weggelegt(Geschrieben(L, S, Anteil), Verweigert(S)), Cardinality(S))
             ELSE IF Getragen(ausgang)
             THEN Zerlegt([L EXCEPT !.phase = "teilen"], ausgang, S, Anteil)
             ELSE Abgebrochen([L EXCEPT !.ungewiss = @ \cup IF ausgang = "ungewiss" THEN Genommen(S, Anteil) ELSE {}])
  BY DEF Versuche
<1> DEFINE n == Anteil
           M == [lauf EXCEPT !.gelesen = Cardinality(S), !.bewegt = FALSE, !.liegen = FALSE]
           L == Gezaehlt(M, ausgang, S, n)
<1>2. lauf.phase = "seite" /\ art' = art
  BY DEF Versuche
<1>3. /\ Bereit(M, S, n) /\ Offen(M, S) /\ M.stapel = <<>> /\ M.gelesen = Cardinality(S)
      /\ M.schuldet = lauf.schuldet
  BY <1>2, SeiteStimmt
<1> HIDE DEF M
<1>4. /\ Bereit(L, S, n) /\ L.stapel = <<>> /\ L.gelesen = Cardinality(S)
      /\ L.stoerungen = 0 => M.stoerungen = 0 /\ ~Stoerung(ausgang, S, n)
  BY <1>3, GezaehltStimmt
<1>5. L \in Lauf /\ L.schuldet = lauf.schuldet /\ S \in SUBSET Zeilen /\ zeile \in [Zeilen -> Staende]
      /\ art \in [Zeilen -> Arten]
  BY <1>4 DEF Bereit
<1> HIDE DEF L
<1>6. Offen(L, S)
  BY <1>3, <1>4, <1>5 DEF Offen
<1>7. /\ Moeglich(ausgang, S, n)
      /\ zeile' = IF ausgang \in {"gelingt", "ungewiss"} THEN Getan(S, n) ELSE zeile
      /\ ausgang = "gelingt" =>
           lauf' = NachDerSeite(Weggelegt(Geschrieben(L, S, n), Verweigert(S)), Cardinality(S))
      /\ ausgang # "gelingt" /\ Getragen(ausgang) =>
           lauf' = Zerlegt([L EXCEPT !.phase = "teilen"], ausgang, S, n)
      /\ ausgang # "gelingt" /\ ~Getragen(ausgang) =>
           lauf' = Abgebrochen([L EXCEPT !.ungewiss = @ \cup IF ausgang = "ungewiss" THEN Genommen(S, n) ELSE {}])
  BY <1>1 DEF L, M
<1> HIDE DEF n
<1>8. n = Anteil
  BY DEF n
<1>9. LaufStimmt(art, zeile', lauf')
  <2>1. CASE ausgang = "gelingt"
    <3> DEFINE R == Weggelegt(Geschrieben(L, S, n), Verweigert(S))
               p == IF lauf.schuldet \/ Cardinality(S) <= Seite THEN "fertig" ELSE "seite"
    <3>1. R \in Lauf /\ R.schuldet = L.schuldet
      BY <1>4, GelingtStimmt
    <3>2. lauf' = [R EXCEPT !.phase = p] /\ p \in {"seite", "teilen", "fertig"} /\ p # "teilen"
      BY <1>7, <2>1 DEF NachDerSeite
    <3>3. (p = "seite" => ~L.schuldet) /\ (p = "fertig" => L.schuldet \/ L.gelesen <= Seite)
      BY <1>4, <1>5
    <3>4. zeile' = Getan(S, n)
      BY <1>7, <2>1
    <3> HIDE DEF R, p
    <3>5. Bis(R, p, lauf')
      BY <3>1, <3>2, PhaseTyp
    <3>6. Bis(Weggelegt(Geschrieben(L, S, n), Verweigert(S)), p, lauf')
      BY <3>5 DEF R
    <3>7. LaufStimmt(art, Getan(S, n), lauf')
      BY <1>4, <1>6, <3>2, <3>3, <3>6, GelingtLauf
    <3> QED BY <3>4, <3>7
  <2>2. CASE ausgang # "gelingt" /\ Getragen(ausgang)
    <3> DEFINE T == [L EXCEPT !.phase = "teilen"]
    <3>1. Bis(L, "teilen", T)
      BY <1>5, PhaseTyp
    <3>2. zeile' = zeile /\ lauf' = Zerlegt(T, ausgang, S, n)
      BY <1>7, <2>2 DEF Getragen
    <3> HIDE DEF T
    <3>3. Bereit(T, S, n) /\ Offen(T, S)
      BY <1>4, <1>6, <3>1, PhaseStimmt
    <3>4. T.phase = "teilen" /\ (T.stoerungen = 0 => ~Stoerung(ausgang, S, n))
      BY <1>4, <3>1 DEF Bis
    <3>5. LaufStimmt(art, zeile, Zerlegt(T, ausgang, S, n))
      BY <1>7, <2>2, <3>3, <3>4, GetragenLauf
    <3> QED BY <3>2, <3>5
  <2>3. CASE ausgang # "gelingt" /\ ~Getragen(ausgang)
    BY <1>4, <1>7, <2>3, AbgebrochenLauf
  <2> QED BY <2>1, <2>2, <2>3
<1>10. zeile' \in [Zeilen -> Staende]
  BY <1>5, <1>7, GetanTyp
<1> QED BY <1>2, <1>5, <1>9, <1>10 DEF IInv, LaufStimmt, StapelStimmt, WeggelegtStimmt, Unversucht, DrainStimmt, SchuldStimmt, Getane

\* A half is taken off the stack; the rows decided since are none of its attempt.
LEMMA HaelfteStimmt ==
  ASSUME IInv, lauf.phase = "teilen", lauf.stapel # <<>>
  PROVE  LET S == Head(lauf.stapel) \cap Faellige
             M == [lauf EXCEPT !.stapel = Tail(@)]
         IN  /\ Bereit(M, S, lauf.rest) /\ Offen(M, S) /\ M.phase = "teilen" /\ M.schuldet = lauf.schuldet
             /\ LaufStimmt(art, zeile, M) \/ ~lauf.schuldet
<1> DEFINE H == Head(lauf.stapel)
           S == H \cap Faellige
           t == Tail(lauf.stapel)
           M == [lauf EXCEPT !.stapel = t]
<1>1. /\ lauf \in Lauf /\ StapelStimmt(art, zeile, lauf) /\ WeggelegtStimmt(art, zeile, lauf)
      /\ DrainStimmt(art, zeile, lauf) /\ SchuldStimmt(zeile, lauf)
      /\ art \in [Zeilen -> Arten] /\ zeile \in [Zeilen -> Staende]
      /\ lauf.stapel \in Seq(SUBSET Zeilen)
  BY DEF IInv, LaufStimmt, Lauf
<1>2. /\ t \in Seq(SUBSET Zeilen) /\ H \in SUBSET Zeilen /\ H = lauf.stapel[1] /\ 1 \in 1..Len(lauf.stapel)
      /\ \A i \in 1..Len(t) : i + 1 \in 1..Len(lauf.stapel) /\ t[i] = lauf.stapel[i + 1]
      /\ \A i \in 1..Len(lauf.stapel) : i = 1 \/ (i - 1 \in 1..Len(t) /\ t[i - 1] = lauf.stapel[i])
  BY <1>1, Abgenommen
<1> HIDE DEF H, t
<1>3. /\ M \in Lauf /\ M.schuldet = lauf.schuldet /\ M.phase = lauf.phase /\ M.stapel = t
      /\ M.gelesen = lauf.gelesen
      /\ M.gelungen = lauf.gelungen /\ M.rest = lauf.rest /\ M.beantwortet = lauf.beantwortet
      /\ M.ungewiss = lauf.ungewiss /\ M.weggelegt = lauf.weggelegt /\ M.stoerungen = lauf.stoerungen
  BY <1>1, <1>2 DEF Lauf
<1> HIDE DEF M
<1>4. StapelStimmt(art, zeile, M)
  <2>1. ASSUME NEW i \in 1..Len(t) PROVE t[i] # {} /\ \A z \in t[i] : Unversucht(art, zeile, M, z)
    <3>1. i + 1 \in 1..Len(lauf.stapel) /\ t[i] = lauf.stapel[i + 1]
      BY <1>2
    <3>2. /\ lauf.stapel[i + 1] # {}
          /\ \A z \in lauf.stapel[i + 1] : Unversucht(art, zeile, lauf, z)
      BY <1>1, <3>1 DEF StapelStimmt
    <3> QED BY <1>3, <3>1, <3>2 DEF Unversucht
  <2>2. ASSUME NEW i \in 1..Len(t), NEW j \in 1..Len(t), i # j PROVE t[i] \cap t[j] = {}
    <3>1. i + 1 \in 1..Len(lauf.stapel) /\ j + 1 \in 1..Len(lauf.stapel) /\ i + 1 # j + 1
          /\ t[i] = lauf.stapel[i + 1] /\ t[j] = lauf.stapel[j + 1]
      BY <1>2, <2>2
    <3>2. lauf.stapel[i + 1] \cap lauf.stapel[j + 1] = {}
      BY <1>1, <3>1 DEF StapelStimmt
    <3> QED BY <3>1, <3>2
  <2> QED BY <1>3, <2>1, <2>2 DEF StapelStimmt
<1>5. WeggelegtStimmt(art, zeile, M) /\ SchuldStimmt(zeile, M)
  BY <1>1, <1>3 DEF WeggelegtStimmt, SchuldStimmt
<1>6. S \subseteq H /\ S \in SUBSET Zeilen
  BY <1>2
<1>7. \A z \in S : Unversucht(art, zeile, M, z)
  BY <1>1, <1>2, <1>3 DEF StapelStimmt, Unversucht
<1>8. ASSUME NEW i \in 1..Len(t) PROVE S \cap t[i] = {}
  <2>1. i + 1 \in 1..Len(lauf.stapel) /\ i + 1 # 1 /\ t[i] = lauf.stapel[i + 1]
    BY <1>2
  <2>2. lauf.stapel[1] \cap lauf.stapel[i + 1] = {}
    BY <1>1, <1>2, <2>1 DEF StapelStimmt
  <2> QED BY <1>2, <1>6, <2>1, <2>2
<1>9. lauf.rest \in Nat
  BY <1>1 DEF Lauf
<1>10. Bereit(M, S, lauf.rest)
  BY <1>1, <1>3, <1>4, <1>5, <1>6, <1>7, <1>8, <1>9 DEF Bereit, SchuldStimmt
<1>11. Offen(M, S)
  <2> SUFFICES ASSUME ~lauf.schuldet, lauf.stoerungen = 0, lauf.gelesen <= Seite,
                      NEW z \in Zeilen, art[z] = "heil", zeile[z] = "faellig"
               PROVE  z \in S \/ \E i \in 1..Len(t) : z \in t[i]
    BY <1>3 DEF Offen
  <2>1. PICK i \in 1..Len(lauf.stapel) : z \in lauf.stapel[i]
    BY <1>1 DEF DrainStimmt
  <2>2. CASE i = 1
    BY <1>2, <2>1, <2>2 DEF Faellige
  <2> QED BY <1>2, <2>1, <2>2
<1>12. LaufStimmt(art, zeile, M) \/ ~lauf.schuldet
  BY <1>3, <1>4, <1>5 DEF LaufStimmt, DrainStimmt
<1> QED BY <1>3, <1>10, <1>11, <1>12 DEF M, S, H, t

LEMMA VersucheHaelfteStimmt ==
  ASSUME IInv, VersucheHaelfte
  PROVE  IInv'
<1> DEFINE n == lauf.rest
           S == Head(lauf.stapel) \cap Faellige
           M == [lauf EXCEPT !.stapel = Tail(@)]
<1>1. lauf.phase = "teilen" /\ lauf.stapel # <<>> /\ art' = art
  BY DEF VersucheHaelfte
<1>2. /\ Bereit(M, S, n) /\ Offen(M, S) /\ M.phase = "teilen" /\ M.schuldet = lauf.schuldet
      /\ LaufStimmt(art, zeile, M) \/ ~lauf.schuldet
  BY <1>1, HaelfteStimmt
<1>3. art \in [Zeilen -> Arten] /\ zeile \in [Zeilen -> Staende]
  BY DEF IInv
<1>4. IF lauf.schuldet /\ n = 0
      THEN lauf' = M /\ UNCHANGED zeile
      ELSE \E ausgang \in Ausgaenge :
        LET L == Gezaehlt(M, ausgang, S, n) IN
        /\ Moeglich(ausgang, S, n)
        /\ zeile' = IF ausgang \in {"gelingt", "ungewiss"} THEN Getan(S, n) ELSE zeile
        /\ lauf' =
             IF ausgang = "gelingt" THEN Weggelegt(Geschrieben(L, S, n), Verweigert(S))
             ELSE IF Getragen(ausgang) THEN Zerlegt(L, ausgang, S, n)
             ELSE Abgebrochen([L EXCEPT !.ungewiss = @ \cup IF ausgang = "ungewiss" THEN Genommen(S, n) ELSE {}])
  BY DEF VersucheHaelfte
<1> HIDE DEF n, S, M
<1>5. CASE lauf.schuldet /\ n = 0
  <2>1. LaufStimmt(art, zeile', lauf') /\ zeile' = zeile
    BY <1>2, <1>4, <1>5
  <2> QED BY <1>1, <1>3, <2>1 DEF IInv, LaufStimmt, StapelStimmt, WeggelegtStimmt, Unversucht, DrainStimmt, SchuldStimmt, Getane
<1>6. CASE ~(lauf.schuldet /\ n = 0)
  <2>1. PICK ausgang \in Ausgaenge :
        LET L == Gezaehlt(M, ausgang, S, n) IN
        /\ Moeglich(ausgang, S, n)
        /\ zeile' = IF ausgang \in {"gelingt", "ungewiss"} THEN Getan(S, n) ELSE zeile
        /\ lauf' =
             IF ausgang = "gelingt" THEN Weggelegt(Geschrieben(L, S, n), Verweigert(S))
             ELSE IF Getragen(ausgang) THEN Zerlegt(L, ausgang, S, n)
             ELSE Abgebrochen([L EXCEPT !.ungewiss = @ \cup IF ausgang = "ungewiss" THEN Genommen(S, n) ELSE {}])
    BY <1>4, <1>6
  <2> DEFINE L == Gezaehlt(M, ausgang, S, n)
  <2>2. /\ Bereit(L, S, n) /\ L.phase = "teilen" /\ L.stapel = M.stapel /\ L.gelesen = M.gelesen
        /\ L.stoerungen = 0 => M.stoerungen = 0 /\ ~Stoerung(ausgang, S, n)
    BY <1>2, GezaehltStimmt
  <2>3. /\ Moeglich(ausgang, S, n)
        /\ zeile' = IF ausgang \in {"gelingt", "ungewiss"} THEN Getan(S, n) ELSE zeile
        /\ ausgang = "gelingt" => lauf' = Weggelegt(Geschrieben(L, S, n), Verweigert(S))
        /\ ausgang # "gelingt" /\ Getragen(ausgang) => lauf' = Zerlegt(L, ausgang, S, n)
        /\ ausgang # "gelingt" /\ ~Getragen(ausgang) =>
             lauf' = Abgebrochen([L EXCEPT !.ungewiss = @ \cup IF ausgang = "ungewiss" THEN Genommen(S, n) ELSE {}])
    BY <2>1
  <2> HIDE DEF L
  <2>4. Offen(L, S)
    BY <1>2, <2>2 DEF Offen, Bereit
  <2>5. LaufStimmt(art, zeile', lauf')
    <3>1. CASE ausgang = "gelingt"
      <4> DEFINE R == Weggelegt(Geschrieben(L, S, n), Verweigert(S))
      <4>1. R \in Lauf /\ R.phase = "teilen"
        BY <2>2, GelingtStimmt
      <4> HIDE DEF R
      <4>2. Bis(R, "teilen", R)
        BY <4>1 DEF Bis
      <4>3. Bis(Weggelegt(Geschrieben(L, S, n), Verweigert(S)), "teilen", R)
        BY <4>2 DEF R
      <4>4. LaufStimmt(art, Getan(S, n), R)
        BY <2>2, <2>4, <4>3, GelingtLauf
      <4>5. lauf' = R /\ zeile' = Getan(S, n)
        BY <2>3, <3>1 DEF R
      <4> QED BY <4>4, <4>5
    <3>2. CASE ausgang # "gelingt" /\ Getragen(ausgang)
      <4>1. zeile' = zeile
        BY <2>3, <3>2 DEF Getragen
      <4>2. LaufStimmt(art, zeile, Zerlegt(L, ausgang, S, n))
        BY <2>2, <2>3, <2>4, <3>2, GetragenLauf
      <4> QED BY <2>3, <3>2, <4>1, <4>2
    <3>3. CASE ausgang # "gelingt" /\ ~Getragen(ausgang)
      BY <2>2, <2>3, <3>3, AbgebrochenLauf
    <3> QED BY <3>1, <3>2, <3>3
  <2>6. zeile' \in [Zeilen -> Staende]
    BY <1>3, <2>3, GetanTyp
  <2> QED BY <1>1, <1>3, <2>5, <2>6 DEF IInv, LaufStimmt, StapelStimmt, WeggelegtStimmt, Unversucht, DrainStimmt, SchuldStimmt, Getane
<1> QED BY <1>5, <1>6

LEMMA HaeltAnStimmt ==
  ASSUME IInv, HaeltAn
  PROVE  IInv'
<1> DEFINE M == [lauf EXCEPT !.stapel = <<>>]
<1>1. lauf.phase = "teilen" /\ lauf.schuldet /\ lauf' = M /\ art' = art /\ zeile' = zeile
  BY DEF HaeltAn
<1>2. lauf \in Lauf /\ WeggelegtStimmt(art, zeile, lauf) /\ SchuldStimmt(zeile, lauf)
      /\ art \in [Zeilen -> Arten] /\ zeile \in [Zeilen -> Staende]
  BY DEF IInv, LaufStimmt
<1>3. /\ M \in Lauf /\ M.schuldet = lauf.schuldet /\ M.phase = lauf.phase /\ M.stapel = <<>>
      /\ M.gelungen = lauf.gelungen /\ M.rest = lauf.rest /\ M.beantwortet = lauf.beantwortet
      /\ M.ungewiss = lauf.ungewiss /\ M.weggelegt = lauf.weggelegt /\ M.stoerungen = lauf.stoerungen
  BY <1>2, EmptySeq DEF Lauf
<1> HIDE DEF M
<1>4. 1..Len(M.stapel) = {}
  BY <1>3, EmptySeq
<1>5. StapelStimmt(art, zeile, M) /\ WeggelegtStimmt(art, zeile, M) /\ SchuldStimmt(zeile, M)
      /\ DrainStimmt(art, zeile, M)
  BY <1>1, <1>2, <1>3, <1>4 DEF StapelStimmt, WeggelegtStimmt, SchuldStimmt, DrainStimmt
<1>6. LaufStimmt(art, zeile, lauf')
  BY <1>1, <1>3, <1>5 DEF LaufStimmt
<1> QED BY <1>1, <1>2, <1>6 DEF IInv, LaufStimmt, StapelStimmt, WeggelegtStimmt, Unversucht, DrainStimmt, SchuldStimmt, Getane

LEMMA SchliesseTeilungStimmt ==
  ASSUME IInv, SchliesseTeilung
  PROVE  IInv'
<1> DEFINE p == IF ~lauf.schuldet /\ lauf.gelesen > Seite /\ ~lauf.bewegt /\ ~lauf.liegen THEN "fehler"
                ELSE IF lauf.schuldet \/ lauf.gelesen <= Seite THEN "fertig" ELSE "seite"
           M == [lauf EXCEPT !.phase = p]
<1>1. lauf.phase = "teilen" /\ lauf.stapel = <<>> /\ art' = art /\ zeile' = zeile
  BY DEF SchliesseTeilung
<1>2. /\ lauf \in Lauf /\ WeggelegtStimmt(art, zeile, lauf) /\ SchuldStimmt(zeile, lauf)
      /\ DrainStimmt(art, zeile, lauf)
      /\ art \in [Zeilen -> Arten] /\ zeile \in [Zeilen -> Staende]
  BY DEF IInv, LaufStimmt
<1>3. lauf' = M
  <2>1. CASE p = "fehler"
    <3>1. Abgebrochen(lauf) = [lauf EXCEPT !.phase = "fehler", !.stapel = <<>>]
      BY <2>1 DEF Abgebrochen
    <3>2. [lauf EXCEPT !.phase = "fehler", !.stapel = <<>>] = [lauf EXCEPT !.phase = "fehler"]
      BY <1>1, <1>2 DEF Lauf
    <3> QED BY <2>1, <3>1, <3>2 DEF SchliesseTeilung
  <2>2. CASE p # "fehler"
    BY <2>2 DEF SchliesseTeilung, NachDerSeite
  <2> QED BY <2>1, <2>2
<1>4. p \in {"seite", "fertig", "fehler"} /\ (lauf.schuldet => p = "fertig")
      /\ (p = "fertig" => lauf.schuldet \/ lauf.gelesen <= Seite)
  OBVIOUS
<1> HIDE DEF p
<1>5. Bis(lauf, p, M)
  BY <1>2, <1>4, PhaseTyp
<1> HIDE DEF M
<1>6. 1..Len(M.stapel) = {} /\ 1..Len(lauf.stapel) = {}
  BY <1>1, <1>5, EmptySeq DEF Bis
<1>7. StapelStimmt(art, zeile, M) /\ WeggelegtStimmt(art, zeile, M)
  BY <1>2, <1>5, <1>6 DEF StapelStimmt, WeggelegtStimmt, Bis
<1>8. DrainStimmt(art, zeile, M)
  BY <1>1, <1>2, <1>4, <1>5, <1>6 DEF DrainStimmt, Bis
<1>9. SchuldStimmt(zeile, M)
  BY <1>2, <1>4, <1>5 DEF SchuldStimmt, Bis
<1>10. LaufStimmt(art, zeile, lauf')
  BY <1>1, <1>3, <1>5, <1>7, <1>8, <1>9 DEF LaufStimmt, Bis
<1> QED BY <1>1, <1>2, <1>10 DEF IInv, LaufStimmt, StapelStimmt, WeggelegtStimmt, Unversucht, DrainStimmt, SchuldStimmt, Getane

\* Whoever decides a row, and the day that makes one due, only take rows from those due before.
LEMMA VonAussen ==
  ASSUME IInv, NEW x \in Zeilen, Entzieht(x) \/ WirdFaellig(x)
  PROVE  IInv'
<1>1. /\ art' = art /\ lauf' = lauf /\ zeile[x] # "getan" /\ LaufStimmt(art, zeile, lauf)
      /\ art \in [Zeilen -> Arten] /\ zeile \in [Zeilen -> Staende]
      /\ \E neu \in {"fort", "spaet"} : zeile' = [zeile EXCEPT ![x] = neu]
  BY DEF Entzieht, WirdFaellig, IInv
<1>2. zeile' \in [Zeilen -> Staende]
  BY <1>1 DEF Staende
<1>3. \A z \in Zeilen : (zeile'[z] = "getan" <=> zeile[z] = "getan") /\ (zeile'[z] = "faellig" => zeile[z] = "faellig")
  BY <1>1
<1>4. Getane(zeile') = Getane(zeile)
  BY <1>3 DEF Getane
<1>5. ASSUME NEW i \in 1..Len(lauf.stapel), NEW z \in lauf.stapel[i] PROVE Unversucht(art, zeile', lauf, z)
  <2>1. z \in Zeilen /\ Unversucht(art, zeile, lauf, z)
    BY <1>1, <1>5, ElementOfSeq DEF LaufStimmt, StapelStimmt, Lauf
  <2> QED BY <1>3, <2>1 DEF Unversucht
<1>6. StapelStimmt(art, zeile', lauf)
  BY <1>1, <1>5 DEF LaufStimmt, StapelStimmt
<1>7. WeggelegtStimmt(art, zeile', lauf) /\ DrainStimmt(art, zeile', lauf)
  BY <1>1, <1>3 DEF LaufStimmt, WeggelegtStimmt, DrainStimmt
<1>8. SchuldStimmt(zeile', lauf)
  BY <1>1, <1>4 DEF LaufStimmt, SchuldStimmt
<1>9. LaufStimmt(art, zeile', lauf')
  BY <1>1, <1>6, <1>7, <1>8 DEF LaufStimmt
<1> QED BY <1>1, <1>2, <1>9 DEF IInv, LaufStimmt, StapelStimmt, WeggelegtStimmt, Unversucht, DrainStimmt, SchuldStimmt, Getane

LEMMA InitStimmt ==
  ASSUME Init
  PROVE  IInv
<1> DEFINE w == [z \in Zeilen |-> 0]
<1>1. PICK schuldet \in BOOLEAN :
        lauf = [schuldet |-> schuldet, phase |-> "seite", stapel |-> <<>>, gelesen |-> 0,
                bewegt |-> FALSE, liegen |-> FALSE, gelungen |-> FALSE, rest |-> Anteil,
                beantwortet |-> {}, ungewiss |-> {}, weggelegt |-> w, stoerungen |-> 0]
  BY DEF Init
<1>2. art \in [Zeilen -> Arten] /\ zeile = [z \in Zeilen |-> IF z \in Spaete THEN "fern" ELSE "faellig"]
  BY DEF Init, Arten
<1>3. w \in [Zeilen -> 0..2] /\ (\A z \in Zeilen : w[z] = 0) /\ Anteil \in 0..Anteil
  BY SeitenAssumption
<1> HIDE DEF w
<1>4. /\ lauf \in Lauf /\ lauf.phase = "seite" /\ lauf.stapel = <<>> /\ ~lauf.gelungen /\ lauf.rest = Anteil
      /\ lauf.beantwortet = {} /\ lauf.weggelegt = w
  BY <1>1, <1>3, EmptySeq DEF Lauf
<1>5. zeile \in [Zeilen -> Staende] /\ \A z \in Zeilen : zeile[z] # "getan"
  BY <1>2 DEF Staende
<1>6. 1..Len(lauf.stapel) = {}
  BY <1>4, EmptySeq
<1>7. StapelStimmt(art, zeile, lauf) /\ WeggelegtStimmt(art, zeile, lauf) /\ DrainStimmt(art, zeile, lauf)
  BY <1>3, <1>4, <1>6 DEF StapelStimmt, WeggelegtStimmt, DrainStimmt
<1>8. SchuldStimmt(zeile, lauf)
  <2>1. Getane(zeile) = {} /\ Cardinality(Getane(zeile)) = 0
    BY <1>5, FS_EmptySet DEF Getane
  <2> QED BY <1>4, <2>1, SeitenAssumption DEF SchuldStimmt
<1> QED BY <1>2, <1>4, <1>5, <1>7, <1>8 DEF IInv, LaufStimmt

LEMMA NextStimmt ==
  ASSUME IInv, [Next]_vars
  PROVE  IInv'
<1>1. CASE Versuche
  BY <1>1, VersucheStimmt
<1>2. CASE VersucheHaelfte
  BY <1>2, VersucheHaelfteStimmt
<1>3. CASE HaeltAn
  BY <1>3, HaeltAnStimmt
<1>4. CASE SchliesseTeilung
  BY <1>4, SchliesseTeilungStimmt
<1>5. CASE \E z \in Zeilen : Entzieht(z) \/ WirdFaellig(z)
  BY <1>5, VonAussen
<1>6. CASE UNCHANGED vars
  BY <1>6 DEF vars, IInv, LaufStimmt, StapelStimmt, WeggelegtStimmt, Unversucht, DrainStimmt, SchuldStimmt, Getane
<1> QED BY <1>1, <1>2, <1>3, <1>4, <1>5, <1>6 DEF Next, Laufschritt

-----------------------------------------------------------------------------
LEMMA Induktion == Spec => []IInv
<1> QED BY InitStimmt, NextStimmt, PTL DEF Spec

LEMMA IInvTypOK ==
  ASSUME IInv
  PROVE  TypeOK
<1>1. /\ lauf \in Lauf /\ lauf.stapel \in Seq(SUBSET Zeilen) /\ StapelStimmt(art, zeile, lauf)
      /\ art \in [Zeilen -> Arten] /\ zeile \in [Zeilen -> Staende]
  BY DEF IInv, LaufStimmt, Lauf
<1>2. DOMAIN lauf.stapel = 1..Len(lauf.stapel)
  BY <1>1, LenProperties
<1>3. lauf.phase \in {"seite", "teilen", "fertig", "fehler"} /\ lauf.rest \in 0..Anteil
  BY <1>1 DEF Lauf
<1>4. \A i \in DOMAIN lauf.stapel :
        /\ lauf.stapel[i] # {} /\ \A z \in lauf.stapel[i] : zeile[z] # "getan"
        /\ \A j \in DOMAIN lauf.stapel : i # j => lauf.stapel[i] \cap lauf.stapel[j] = {}
  BY <1>1, <1>2 DEF StapelStimmt, Unversucht
<1> QED BY <1>1, <1>3, <1>4 DEF TypeOK, Arten, Staende

LEMMA IInvLiegenbleibt ==
  ASSUME IInv
  PROVE  NurDasFehlerhafteBleibtLiegen
<1>1. lauf \in Lauf /\ WeggelegtStimmt(art, zeile, lauf) /\ DrainStimmt(art, zeile, lauf)
  BY DEF IInv, LaufStimmt
<1>2. \A z \in Zeilen : lauf.weggelegt[z] > 0 => lauf.weggelegt[z] # 0
  BY <1>1 DEF Lauf
<1>3. NurFehlerhafteLiegen /\ WeggelegteBleibenStehen
  BY <1>1, <1>2 DEF WeggelegtStimmt, NurFehlerhafteLiegen, WeggelegteBleibenStehen
<1>4. NiemandWirdAufgehalten
  BY <1>1 DEF DrainStimmt, NiemandWirdAufgehalten
<1> QED BY <1>3, <1>4 DEF NurDasFehlerhafteBleibtLiegen

LEMMA IInvSchuld ==
  ASSUME IInv
  PROVE  SchuldIstBeglichen
<1>1. lauf \in Lauf /\ SchuldStimmt(zeile, lauf)
  BY DEF IInv, LaufStimmt
<1>2. GeschriebenesWirdBeantwortet
  BY <1>1 DEF SchuldStimmt, GeschriebenesWirdBeantwortet, Ende, Getane
<1>3. AnteilWirdGehalten
  BY <1>1 DEF SchuldStimmt, AnteilWirdGehalten, Getane
<1> QED BY <1>2, <1>3 DEF SchuldIstBeglichen

\* `isolate` keeps its rows in disjoint parts that nobody wrote: no half is attempted twice.
THEOREM Typkorrekt == Spec => []TypeOK
BY Induktion, IInvTypOK, PTL

\* Invariant I720: a sweep passes over only a row that fails alone, never writes such a row
\* after all, and a drain undisturbed leaves no sound row that was due.
THEOREM NurFehlerhaftesLiegt == Spec => []NurDasFehlerhafteBleibtLiegen
BY Induktion, IInvLiegenbleibt, PTL

\* Invariant I323: a clock that owes messages answers what its halves committed, and writes
\* no more than the pass's share, whatever fails in between.
THEOREM SchuldWirdBeglichen == Spec => []SchuldIstBeglichen
BY Induktion, IInvSchuld, PTL

=============================================================================
