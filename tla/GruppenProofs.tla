---------------------------- MODULE GruppenProofs ----------------------------
(***************************************************************************)
(* Proofs about module Gruppen, for any number of clubs and requests and   *)
(* any shapes of the groups.                                               *)
(***************************************************************************)
EXTENDS Gruppen, FiniteSetTheorems, TLAPS

-----------------------------------------------------------------------------
(* The inductive invariant.  An open transaction judged a snapshot; what it
   judged still holds when it commits, because whoever would falsify it writes
   one of the documents it writes too.  Urteil says, per kind, what was judged
   and which documents it claims. *)

HatPlatz(g) == g \in Angebotene(regeln) /\ Cardinality(Besetzung(g)) < regeln.plaetze

AlleAngeboten(r) == \A t \in Teams : Gemeldet(t) => zeile[t].gruppe \in Angebotene(r)

UrteilEintritt(op, W) ==
  /\ op.t \in Teams /\ op.t \notin ruht /\ ~Gemeldet(op.t) /\ HatPlatz(op.g)
  /\ SaisonDok \in W /\ TeamDok(op.t) \in W /\ ZeileDok(op.t) \in W

UrteilWechsel(op, W) ==
  /\ op.t \in Teams /\ Gemeldet(op.t) /\ zeile[op.t].gruppe # op.g /\ HatPlatz(op.g)
  /\ SaisonDok \in W /\ ZeileDok(op.t) \in W

UrteilAustritt(op, W) ==
  op.t \in Teams /\ op.wert \in BOOLEAN /\ ZeileDok(op.t) \in W

\* The fixtures a swap or a replacement fields anew: open ones, which it writes.
Umbesetzbar(op, W) ==
  \A k \in DOMAIN op.seiten :
    /\ SpielDok(k) \in W
    /\ k \in DOMAIN spiel /\ ~HatStattgefunden(k)
    /\ op.seiten[k] \subseteq Teams

UrteilTausch(op, W) ==
  /\ op.t \in Teams /\ op.u \in Teams /\ op.t # op.u
  /\ op.gu # 0 /\ op.gt # 0 /\ op.gt # op.gu
  /\ zeile[op.t].gruppe = op.gu /\ zeile[op.u].gruppe = op.gt
  /\ ZeileDok(op.t) \in W /\ ZeileDok(op.u) \in W
  /\ Umbesetzbar(op, W)
  /\ \A k \in DOMAIN op.seiten : \A x \in op.seiten[k] \ spiel[k].seiten :
       x \in {op.t, op.u} /\ ~zeile[x].austritt

UrteilErsatz(op, W) ==
  /\ op.t \in Teams /\ op.u \in Teams /\ op.t # op.u
  /\ op.g # 0 /\ zeile[op.t].gruppe = op.g /\ ~Gemeldet(op.u) /\ op.u \notin ruht
  /\ ZeileDok(op.t) \in W /\ ZeileDok(op.u) \in W /\ TeamDok(op.u) \in W
  /\ Umbesetzbar(op, W)

UrteilRuhestand(op, W) ==
  op.t \in Teams /\ (Gemeldet(op.t) => status = "past") /\ TeamDok(op.t) \in W

UrteilRueckkehr(op, W) == op.t \in Teams /\ TeamDok(op.t) \in W

UrteilRegeln(op, W) ==
  /\ op.r \in Regelwerke /\ DOMAIN spiel = {}
  /\ \A g \in Angebotene(op.r) : Cardinality(Besetzung(g)) <= op.r.plaetze
  /\ AlleAngeboten(op.r)
  /\ SaisonDok \in W

SchreibtAlleSpiele(W) == SaisonDok \in W /\ \A k \in DOMAIN spiel : SpielDok(k) \in W

UrteilZiehung(op, W) ==
  /\ op.r \in Regelwerke /\ GruppenVoll(op.r)
  /\ \A k \in op.runden : k \subseteq Teams
  /\ \A k \in DOMAIN spiel : ~HatStattgefunden(k)
  /\ SchreibtAlleSpiele(W)

UrteilSpiel(op, W) == op.k \in DOMAIN spiel /\ op.stand \in Staende /\ SpielDok(op.k) \in W

UrteilStatus(op, W) == op.neu \in {"active", "past"} /\ status # "past" /\ SaisonDok \in W

Urteil(op, W) ==
  /\ op.art = "eintritt" => UrteilEintritt(op, W)
  /\ op.art = "wechsel" => UrteilWechsel(op, W)
  /\ op.art = "austritt" => UrteilAustritt(op, W)
  /\ op.art = "tausch" => UrteilTausch(op, W)
  /\ op.art = "ersatz" => UrteilErsatz(op, W)
  /\ op.art = "ruhestand" => UrteilRuhestand(op, W)
  /\ op.art = "rueckkehr" => UrteilRueckkehr(op, W)
  /\ op.art = "regeln" => UrteilRegeln(op, W)
  /\ op.art = "ziehen" => UrteilZiehung(op, W)
  /\ op.art = "loeschen" => SchreibtAlleSpiele(W)
  /\ op.art = "spiel" => UrteilSpiel(op, W)
  /\ op.art = "status" => UrteilStatus(op, W)

UrteileStimmen ==
  /\ DOMAIN tx = Akteure
  /\ \A a \in Akteure :
       tx[a] = Frei \/ (tx[a].phase = "bereit" /\ Urteil(tx[a].op, tx[a].schreibt))

PlatzInv == TypeOK /\ UrteileStimmen /\ PlaetzeStimmen

-----------------------------------------------------------------------------
\* The sizes of the groups.

LEMMA BesetzungEndlich ==
  ASSUME NEW g
  PROVE  IsFiniteSet(Besetzung(g)) /\ Cardinality(Besetzung(g)) \in Nat
<1>1. IsFiniteSet(Besetzung(g))
  BY TeamsAssumption, FS_Subset DEF Besetzung
<1> QED BY <1>1, FS_CardinalityType

LEMMA BesetzungLeer ==
  ASSUME NEW g
  PROVE  Cardinality(Besetzung(g)) = 0 <=> \A t \in Teams : zeile[t].gruppe # g
<1>1. Cardinality(Besetzung(g)) = 0 <=> Besetzung(g) = {}
  BY BesetzungEndlich, FS_EmptySet
<1> QED BY <1>1 DEF Besetzung

\* Every club stands in a group on offer when no group beside those has a member.
LEMMA AngebotenHeisst ==
  ASSUME TypeOK, NEW r
  PROVE  AlleAngeboten(r) <=>
           \A g \in Nat \ {0} : g \notin Angebotene(r) => Cardinality(Besetzung(g)) = 0
<1>1. ASSUME AlleAngeboten(r), NEW g \in Nat \ {0}, g \notin Angebotene(r)
      PROVE  Cardinality(Besetzung(g)) = 0
  BY <1>1, BesetzungLeer DEF AlleAngeboten, Gemeldet
<1>2. ASSUME \A g \in Nat \ {0} : g \notin Angebotene(r) => Cardinality(Besetzung(g)) = 0,
             NEW t \in Teams, Gemeldet(t)
      PROVE  zeile[t].gruppe \in Angebotene(r)
  <2>1. zeile[t].gruppe \in Nat \ {0}
    BY <1>2 DEF TypeOK, Gemeldet
  <2> QED BY <1>2, <2>1, BesetzungLeer
<1> QED BY <1>1, <1>2 DEF AlleAngeboten

\* It stays so while every group keeps its size.
LEMMA AngebotenBleibt ==
  ASSUME TypeOK, TypeOK', NEW r, AlleAngeboten(r),
         \A g \in Nat \ {0} : Cardinality(Besetzung(g)') = Cardinality(Besetzung(g))
  PROVE  AlleAngeboten(r)'
<1>1. \A g \in Nat \ {0} : g \notin Angebotene(r) => Cardinality(Besetzung(g)') = 0
  BY AngebotenHeisst
<1>2. ASSUME NEW t \in Teams, zeile'[t].gruppe # 0
      PROVE  zeile'[t].gruppe \in Angebotene(r)
  <2>1. PICK g \in Nat \ {0} : g = zeile'[t].gruppe
    BY <1>2 DEF TypeOK
  <2>2. t \in Besetzung(g)'
    BY <2>1 DEF Besetzung
  <2>3. IsFiniteSet(Besetzung(g)')
    BY TeamsAssumption, FS_Subset DEF Besetzung
  <2>4. Cardinality(Besetzung(g)') # 0
    BY <2>2, <2>3, FS_EmptySet
  <2> QED BY <1>1, <2>1, <2>4
<1> QED BY <1>2 DEF AlleAngeboten, Gemeldet, Angebotene

LEMMA RegelwerkTyp ==
  ASSUME NEW r \in Regelwerke
  PROVE  r.gruppen \in Nat \ {0} /\ r.plaetze \in Nat \ {0, 1} /\ Angebotene(r) \subseteq Nat \ {0}
<1>1. r \in [gruppen : Nat \ {0}, plaetze : Nat \ {0, 1}]
  BY RegelwerkeAssumption
<1> QED BY <1>1 DEF Angebotene

\* One element out, another one in.
LEMMA Ausgewechselt ==
  ASSUME NEW S, IsFiniteSet(S), NEW x \in S, NEW y, y \notin S
  PROVE  Cardinality((S \ {x}) \cup {y}) = Cardinality(S)
<1>1. IsFiniteSet(S \ {x}) /\ Cardinality(S \ {x}) = Cardinality(S) - 1
  BY FS_RemoveElement
<1>2. Cardinality((S \ {x}) \cup {y}) = Cardinality(S \ {x}) + 1
  BY <1>1, FS_AddElement
<1>3. Cardinality(S) \in Nat
  BY FS_CardinalityType
<1> QED BY <1>1, <1>2, <1>3

-----------------------------------------------------------------------------
\* What a commit leaves alone: every document it does not write.

NurEigenes(W) ==
  /\ SaisonDok \notin W =>
       /\ status' = status /\ regeln' = regeln /\ DOMAIN spiel' = DOMAIN spiel
       /\ \A g \in Nat \ {0} : Cardinality(Besetzung(g)') = Cardinality(Besetzung(g))
  /\ \A t \in Teams : ZeileDok(t) \notin W => zeile'[t] = zeile[t]
  /\ \A t \in Teams : TeamDok(t) \notin W =>
       (t \in ruht' <=> t \in ruht) /\ (zeile'[t].gruppe # 0 => zeile[t].gruppe # 0)
  /\ \A k \in DOMAIN spiel : SpielDok(k) \notin W => k \in DOMAIN spiel' /\ spiel'[k] = spiel[k]
  /\ status = "past" => status' = "past"

\* What an open transaction judged outlives the commit of one that shares no document.
LEMMA UrteilUeberlebt ==
  ASSUME TypeOK, TypeOK', NEW op, NEW W, NEW V, Urteil(op, W), NurEigenes(V), W \cap V = {}
  PROVE  Urteil(op, W)'
<1> DEFINE Platz == \A g \in Nat \ {0} : Cardinality(Besetzung(g)') = Cardinality(Besetzung(g))
<1>s. SaisonDok \in W => /\ status' = status /\ regeln' = regeln
                         /\ DOMAIN spiel' = DOMAIN spiel /\ Platz
  BY DEF NurEigenes
<1>z. \A t \in Teams : ZeileDok(t) \in W => zeile'[t] = zeile[t]
  BY DEF NurEigenes
<1>t. \A t \in Teams : TeamDok(t) \in W =>
        (t \in ruht' <=> t \in ruht) /\ (zeile'[t].gruppe # 0 => zeile[t].gruppe # 0)
  BY DEF NurEigenes
<1>k. \A k \in DOMAIN spiel : SpielDok(k) \in W => k \in DOMAIN spiel' /\ spiel'[k] = spiel[k]
  BY DEF NurEigenes
<1>g. ASSUME NEW g, HatPlatz(g), SaisonDok \in W PROVE HatPlatz(g)'
  <2>1. g \in Nat \ {0}
    BY <1>g, RegelwerkTyp DEF HatPlatz, TypeOK
  <2> QED BY <1>g, <1>s, <2>1 DEF HatPlatz
<1>a. ASSUME NEW r, AlleAngeboten(r), SaisonDok \in W PROVE AlleAngeboten(r)'
  BY <1>a, <1>s, AngebotenBleibt
<1>b. ASSUME Umbesetzbar(op, W) PROVE Umbesetzbar(op, W)'
  BY <1>b, <1>k DEF Umbesetzbar, HatStattgefunden
<1>1. UrteilEintritt(op, W) => UrteilEintritt(op, W)'
  BY <1>z, <1>t, <1>g DEF UrteilEintritt, Gemeldet
<1>2. UrteilWechsel(op, W) => UrteilWechsel(op, W)'
  BY <1>z, <1>g DEF UrteilWechsel, Gemeldet
<1>3. UrteilAustritt(op, W) => UrteilAustritt(op, W)'
  BY DEF UrteilAustritt
<1>4. UrteilTausch(op, W) => UrteilTausch(op, W)'
  <2> SUFFICES ASSUME UrteilTausch(op, W) PROVE UrteilTausch(op, W)'
    OBVIOUS
  <2>1. Umbesetzbar(op, W)'
    BY <1>b DEF UrteilTausch
  <2>2. zeile'[op.t] = zeile[op.t] /\ zeile'[op.u] = zeile[op.u]
    BY <1>z DEF UrteilTausch
  <2>3. \A k \in DOMAIN op.seiten : spiel'[k] = spiel[k]
    BY <1>k DEF UrteilTausch, Umbesetzbar
  <2>4. \A k \in DOMAIN op.seiten : \A x \in op.seiten[k] \ spiel'[k].seiten :
          x \in {op.t, op.u} /\ ~zeile'[x].austritt
    BY <2>2, <2>3 DEF UrteilTausch
  <2> QED BY <2>1, <2>2, <2>4 DEF UrteilTausch
<1>5. UrteilErsatz(op, W) => UrteilErsatz(op, W)'
  BY <1>z, <1>t, <1>b DEF UrteilErsatz, Gemeldet
<1>6. UrteilRuhestand(op, W) => UrteilRuhestand(op, W)'
  BY <1>t DEF UrteilRuhestand, Gemeldet, NurEigenes
<1>7. UrteilRueckkehr(op, W) => UrteilRueckkehr(op, W)'
  BY DEF UrteilRueckkehr
<1>8. UrteilRegeln(op, W) => UrteilRegeln(op, W)'
  <2> SUFFICES ASSUME UrteilRegeln(op, W) PROVE UrteilRegeln(op, W)'
    OBVIOUS
  <2>1. SaisonDok \in W /\ op.r \in Regelwerke
    BY DEF UrteilRegeln
  <2>2. \A g \in Angebotene(op.r) : Cardinality(Besetzung(g)') <= op.r.plaetze
    BY <1>s, <2>1, RegelwerkTyp DEF UrteilRegeln
  <2>3. AlleAngeboten(op.r)'
    BY <1>a, <2>1 DEF UrteilRegeln
  <2> QED BY <1>s, <2>1, <2>2, <2>3 DEF UrteilRegeln, Angebotene
<1>d. SchreibtAlleSpiele(W) => SchreibtAlleSpiele(W)'
  BY <1>s DEF SchreibtAlleSpiele
<1>9. UrteilZiehung(op, W) => UrteilZiehung(op, W)'
  <2> SUFFICES ASSUME UrteilZiehung(op, W) PROVE UrteilZiehung(op, W)'
    OBVIOUS
  <2>1. SaisonDok \in W /\ op.r \in Regelwerke
    BY DEF UrteilZiehung, SchreibtAlleSpiele
  <2>2. \A g \in Angebotene(op.r) : Cardinality(Besetzung(g)') = op.r.plaetze
    BY <1>s, <2>1, RegelwerkTyp DEF UrteilZiehung, GruppenVoll
  <2>3. AlleAngeboten(op.r)'
    BY <1>a, <2>1 DEF UrteilZiehung, GruppenVoll, AlleAngeboten
  <2>4. GruppenVoll(op.r)'
    BY <2>2, <2>3 DEF GruppenVoll, AlleAngeboten, Angebotene
  <2>5. \A k \in DOMAIN spiel' : ~HatStattgefunden(k)'
    BY <1>s, <1>k, <2>1 DEF UrteilZiehung, SchreibtAlleSpiele, HatStattgefunden
  <2> QED BY <1>d, <2>1, <2>4, <2>5 DEF UrteilZiehung
<1>10. UrteilSpiel(op, W) => UrteilSpiel(op, W)'
  BY <1>k DEF UrteilSpiel
<1>11. UrteilStatus(op, W) => UrteilStatus(op, W)'
  BY <1>s DEF UrteilStatus
<1> QED BY <1>1, <1>2, <1>3, <1>4, <1>5, <1>6, <1>7, <1>8, <1>9, <1>10, <1>11, <1>d DEF Urteil


\* An actor about to commit holds an operation of its kind, and its judgement stands.
LEMMA BringtUrteil ==
  ASSUME UrteileStimmen, NEW a \in Akteure, NEW art, Bringt(a, art)
  PROVE  tx[a].op.art = art /\ Urteil(tx[a].op, tx[a].schreibt)
<1>1. tx[a] # Frei
  BY DEF Bringt, Frei
<1> QED BY <1>1 DEF Bringt, UrteileStimmen

\* A group none of whose clubs moves, and none moves to.
LEMMA BesetzungBleibt ==
  ASSUME NEW g, \A z \in Teams : zeile'[z].gruppe = g <=> zeile[z].gruppe = g
  PROVE  Besetzung(g)' = Besetzung(g)
BY DEF Besetzung

\* A group that loses one club and gains another.
LEMMA BesetzungGewechselt ==
  ASSUME NEW g, NEW x \in Teams, NEW y \in Teams,
         zeile[x].gruppe = g, zeile[y].gruppe # g, zeile'[x].gruppe # g, zeile'[y].gruppe = g,
         \A z \in Teams \ {x, y} : zeile'[z].gruppe = zeile[z].gruppe
  PROVE  /\ Besetzung(g)' = (Besetzung(g) \ {x}) \cup {y}
         /\ Cardinality(Besetzung(g)') = Cardinality(Besetzung(g))
<1>1. Besetzung(g)' = (Besetzung(g) \ {x}) \cup {y}
  BY DEF Besetzung
<1>2. x \in Besetzung(g) /\ y \notin Besetzung(g)
  BY DEF Besetzung
<1> QED BY <1>1, <1>2, BesetzungEndlich, Ausgewechselt

\* A swap or a replacement leaves every group its size.
LEMMA TauschHaeltGroesse ==
  ASSUME TypeOK, UrteileStimmen, NEW a \in Akteure, SchreibeTausch(a)
  PROVE  /\ \A z \in Teams \ {tx[a].op.t, tx[a].op.u} : zeile'[z] = zeile[z]
         /\ zeile'[tx[a].op.t] = [zeile[tx[a].op.t] EXCEPT !.gruppe = tx[a].op.gt]
         /\ zeile'[tx[a].op.u] = [zeile[tx[a].op.u] EXCEPT !.gruppe = tx[a].op.gu]
         /\ \A g \in Nat \ {0} : Cardinality(Besetzung(g)') = Cardinality(Besetzung(g))
<1> DEFINE op == tx[a].op
<1>1. UrteilTausch(op, tx[a].schreibt)
  BY BringtUrteil DEF SchreibeTausch, Urteil
<1>2. zeile' = [zeile EXCEPT ![op.t].gruppe = op.gt, ![op.u].gruppe = op.gu]
  BY DEF SchreibeTausch
<1> HIDE DEF op
<1>3. /\ op.t \in Teams /\ op.u \in Teams /\ op.t # op.u /\ op.gt # op.gu
      /\ zeile[op.t].gruppe = op.gu /\ zeile[op.u].gruppe = op.gt
  BY <1>1 DEF UrteilTausch
<1>4. /\ \A z \in Teams \ {op.t, op.u} : zeile'[z] = zeile[z]
      /\ zeile'[op.t] = [zeile[op.t] EXCEPT !.gruppe = op.gt]
      /\ zeile'[op.u] = [zeile[op.u] EXCEPT !.gruppe = op.gu]
  BY <1>2, <1>3 DEF TypeOK
<1>5. zeile'[op.t].gruppe = op.gt /\ zeile'[op.u].gruppe = op.gu
  BY <1>3, <1>4 DEF TypeOK
<1>6. ASSUME NEW g \in Nat \ {0} PROVE Cardinality(Besetzung(g)') = Cardinality(Besetzung(g))
  <2>1. CASE g = op.gu
    <3>1. \A z \in Teams \ {op.t, op.u} : zeile'[z].gruppe = zeile[z].gruppe
      BY <1>4
    <3> QED BY <1>3, <1>5, <2>1, <3>1, BesetzungGewechselt
  <2>2. CASE g = op.gt
    <3>1. \A z \in Teams \ {op.u, op.t} : zeile'[z].gruppe = zeile[z].gruppe
      BY <1>4
    <3> QED BY <1>3, <1>5, <2>2, <3>1, BesetzungGewechselt
  <2>3. CASE g # op.gu /\ g # op.gt
    <3>1. \A z \in Teams : zeile'[z].gruppe = g <=> zeile[z].gruppe = g
      BY <1>3, <1>4, <1>5, <2>3
    <3> QED BY <3>1, BesetzungBleibt
  <2> QED BY <2>1, <2>2, <2>3
<1> QED BY <1>4, <1>6 DEF op

LEMMA ErsatzHaeltGroesse ==
  ASSUME TypeOK, UrteileStimmen, NEW a \in Akteure, SchreibeErsatz(a)
  PROVE  /\ \A z \in Teams \ {tx[a].op.t, tx[a].op.u} : zeile'[z] = zeile[z]
         /\ zeile'[tx[a].op.t] = [gruppe |-> 0, austritt |-> FALSE]
         /\ zeile'[tx[a].op.u] = [gruppe |-> tx[a].op.g, austritt |-> FALSE]
         /\ \A g \in Nat \ {0} : Cardinality(Besetzung(g)') = Cardinality(Besetzung(g))
<1> DEFINE op == tx[a].op
<1>1. UrteilErsatz(op, tx[a].schreibt)
  BY BringtUrteil DEF SchreibeErsatz, Urteil
<1>2. zeile' = [zeile EXCEPT ![op.t] = [gruppe |-> 0, austritt |-> FALSE],
                             ![op.u] = [gruppe |-> op.g, austritt |-> FALSE]]
  BY DEF SchreibeErsatz
<1> HIDE DEF op
<1>3. /\ op.t \in Teams /\ op.u \in Teams /\ op.t # op.u /\ op.g # 0
      /\ zeile[op.t].gruppe = op.g /\ zeile[op.u].gruppe = 0
  BY <1>1 DEF UrteilErsatz, Gemeldet
<1>4. /\ \A z \in Teams \ {op.t, op.u} : zeile'[z] = zeile[z]
      /\ zeile'[op.t] = [gruppe |-> 0, austritt |-> FALSE]
      /\ zeile'[op.u] = [gruppe |-> op.g, austritt |-> FALSE]
  BY <1>2, <1>3 DEF TypeOK
<1>6. ASSUME NEW g \in Nat \ {0} PROVE Cardinality(Besetzung(g)') = Cardinality(Besetzung(g))
  <2>1. CASE g = op.g
    <3>1. zeile'[op.t].gruppe # g /\ zeile'[op.u].gruppe = g /\ zeile[op.u].gruppe # g
      BY <1>3, <1>4, <2>1
    <3> QED BY <1>3, <1>4, <2>1, <3>1, BesetzungGewechselt
  <2>2. CASE g # op.g
    <3>1. \A z \in Teams : zeile'[z].gruppe = g <=> zeile[z].gruppe = g
      BY <1>3, <1>4, <2>2
    <3> QED BY <3>1, BesetzungBleibt
  <2> QED BY <2>1, <2>2
<1> QED BY <1>4, <1>6 DEF op

LEMMA UmbesetztTyp ==
  ASSUME TypeOK, NEW op, NEW W, Umbesetzbar(op, W), spiel' = Umbesetzt(op)
  PROVE  /\ DOMAIN spiel' = DOMAIN spiel
         /\ \A k \in DOMAIN spiel :
              /\ k \notin DOMAIN op.seiten => spiel'[k] = spiel[k]
              /\ k \in DOMAIN op.seiten => spiel'[k] = [spiel[k] EXCEPT !.seiten = op.seiten[k]]
              /\ spiel'[k] \in [seiten : SUBSET Teams, stand : Staende]
              /\ SpielDok(k) \notin W => spiel'[k] = spiel[k]
<1>1. /\ DOMAIN spiel' = DOMAIN spiel
      /\ \A k \in DOMAIN spiel :
           spiel'[k] = IF k \in DOMAIN op.seiten
                       THEN [spiel[k] EXCEPT !.seiten = op.seiten[k]] ELSE spiel[k]
  BY DEF Umbesetzt
<1>2. ASSUME NEW k \in DOMAIN spiel, k \in DOMAIN op.seiten
      PROVE  [spiel[k] EXCEPT !.seiten = op.seiten[k]] \in [seiten : SUBSET Teams, stand : Staende]
  <2>1. spiel[k] \in [seiten : SUBSET Teams, stand : Staende] /\ op.seiten[k] \in SUBSET Teams
    BY <1>2 DEF TypeOK, Umbesetzbar
  <2> QED BY <2>1
<1> QED BY <1>1, <1>2 DEF TypeOK, Umbesetzbar


LEMMA CommitSchreibtNurEigenes ==
  ASSUME TypeOK, UrteileStimmen, NEW a \in Akteure, Schreibe(a)
  PROVE  NurEigenes(tx[a].schreibt)
<1> DEFINE op == tx[a].op
           W == tx[a].schreibt
           Groessen == \A g \in Nat \ {0} : Cardinality(Besetzung(g)') = Cardinality(Besetzung(g))
<1>1. CASE SchreibeEintritt(a)
  <2>1. UrteilEintritt(op, W)
    BY <1>1, BringtUrteil DEF SchreibeEintritt, Urteil
  <2>2. \A z \in Teams \ {op.t} : zeile'[z] = zeile[z]
    BY <1>1 DEF SchreibeEintritt, TypeOK
  <2> QED BY <1>1, <2>1, <2>2 DEF SchreibeEintritt, UrteilEintritt, NurEigenes
<1>2. CASE SchreibeWechsel(a)
  <2>1. UrteilWechsel(op, W)
    BY <1>2, BringtUrteil DEF SchreibeWechsel, Urteil
  <2>2. \A z \in Teams \ {op.t} : zeile'[z] = zeile[z]
    BY <1>2 DEF SchreibeWechsel, TypeOK
  <2> QED BY <1>2, <2>1, <2>2 DEF SchreibeWechsel, UrteilWechsel, NurEigenes, Gemeldet
<1>3. CASE SchreibeAustritt(a)
  <2>1. UrteilAustritt(op, W)
    BY <1>3, BringtUrteil DEF SchreibeAustritt, Urteil
  <2>2. /\ \A z \in Teams \ {op.t} : zeile'[z] = zeile[z]
        /\ zeile'[op.t] = [zeile[op.t] EXCEPT !.austritt = op.wert]
    BY <1>3, <2>1 DEF SchreibeAustritt, TypeOK, UrteilAustritt
  <2>3. \A z \in Teams : zeile'[z].gruppe = zeile[z].gruppe
    BY <2>1, <2>2 DEF TypeOK, UrteilAustritt
  <2>4. Groessen
    BY <2>3, BesetzungBleibt
  <2> QED BY <1>3, <2>1, <2>2, <2>3, <2>4 DEF SchreibeAustritt, UrteilAustritt, NurEigenes
<1>4. CASE SchreibeTausch(a)
  <2>1. UrteilTausch(op, W)
    BY <1>4, BringtUrteil DEF SchreibeTausch, Urteil
  <2>2. /\ Groessen
        /\ \A z \in Teams \ {op.t, op.u} : zeile'[z] = zeile[z]
    BY <1>4, TauschHaeltGroesse
  <2>3. /\ DOMAIN spiel' = DOMAIN spiel
        /\ \A k \in DOMAIN spiel : SpielDok(k) \notin W => spiel'[k] = spiel[k]
    <3>1. spiel' = Umbesetzt(op) /\ Umbesetzbar(op, W)
      BY <1>4, <2>1 DEF SchreibeTausch, UrteilTausch
    <3> HIDE DEF op, W
    <3> QED BY <3>1, UmbesetztTyp
  <2>4. \A z \in Teams : zeile'[z].gruppe # 0 => zeile[z].gruppe # 0
    BY <2>1, <2>2 DEF UrteilTausch
  <2> HIDE DEF op, W, Groessen
  <2>5. status' = status /\ regeln' = regeln /\ ruht' = ruht
    BY <1>4 DEF SchreibeTausch
  <2>6. \A t \in Teams : ZeileDok(t) \notin W => zeile'[t] = zeile[t]
    BY <2>1, <2>2 DEF UrteilTausch
  <2>7. NurEigenes(W)
    BY <2>2, <2>3, <2>4, <2>5, <2>6 DEF NurEigenes, Groessen
  <2> QED BY <2>7 DEF W
<1>5. CASE SchreibeErsatz(a)
  <2>1. UrteilErsatz(op, W)
    BY <1>5, BringtUrteil DEF SchreibeErsatz, Urteil
  <2>2. /\ Groessen
        /\ \A z \in Teams \ {op.t, op.u} : zeile'[z] = zeile[z]
        /\ zeile'[op.t] = [gruppe |-> 0, austritt |-> FALSE]
    BY <1>5, ErsatzHaeltGroesse
  <2>3. /\ DOMAIN spiel' = DOMAIN spiel
        /\ \A k \in DOMAIN spiel : SpielDok(k) \notin W => spiel'[k] = spiel[k]
    <3>1. spiel' = Umbesetzt(op) /\ Umbesetzbar(op, W)
      BY <1>5, <2>1 DEF SchreibeErsatz, UrteilErsatz
    <3> HIDE DEF op, W
    <3> QED BY <3>1, UmbesetztTyp
  <2> HIDE DEF op, W, Groessen
  <2>4. \A z \in Teams : TeamDok(z) \notin W => (zeile'[z].gruppe # 0 => zeile[z].gruppe # 0)
    BY <2>1, <2>2 DEF UrteilErsatz
  <2>5. status' = status /\ regeln' = regeln /\ ruht' = ruht
    BY <1>5 DEF SchreibeErsatz
  <2>6. \A t \in Teams : ZeileDok(t) \notin W => zeile'[t] = zeile[t]
    BY <2>1, <2>2 DEF UrteilErsatz
  <2>7. NurEigenes(W)
    BY <2>2, <2>3, <2>4, <2>5, <2>6 DEF NurEigenes, Groessen
  <2> QED BY <2>7 DEF W
<1>6. CASE SchreibeRuhestand(a)
  <2>1. UrteilRuhestand(op, W)
    BY <1>6, BringtUrteil DEF SchreibeRuhestand, Urteil
  <2>2. Groessen
    BY <1>6, BesetzungBleibt DEF SchreibeRuhestand
  <2> QED BY <1>6, <2>1, <2>2 DEF SchreibeRuhestand, UrteilRuhestand, NurEigenes
<1>7. CASE SchreibeRueckkehr(a)
  <2>1. UrteilRueckkehr(op, W)
    BY <1>7, BringtUrteil DEF SchreibeRueckkehr, Urteil
  <2>2. Groessen
    BY <1>7, BesetzungBleibt DEF SchreibeRueckkehr
  <2> QED BY <1>7, <2>1, <2>2 DEF SchreibeRueckkehr, UrteilRueckkehr, NurEigenes
<1>8. CASE SchreibeRegeln(a)
  <2>1. UrteilRegeln(op, W)
    BY <1>8, BringtUrteil DEF SchreibeRegeln, Urteil
  <2> QED BY <1>8, <2>1 DEF SchreibeRegeln, UrteilRegeln, NurEigenes
<1>9. CASE SchreibeZiehung(a)
  <2>1. UrteilZiehung(op, W)
    BY <1>9, BringtUrteil DEF SchreibeZiehung, Urteil
  <2>2. SchreibtAlleSpiele(W) /\ UNCHANGED <<status, zeile, ruht>>
    BY <1>9, <2>1 DEF SchreibeZiehung, UrteilZiehung
  <2> QED BY <2>2 DEF SchreibtAlleSpiele, NurEigenes
<1>10. CASE SchreibeLoeschung(a)
  <2>1. SchreibtAlleSpiele(W)
    BY <1>10, BringtUrteil DEF SchreibeLoeschung, Urteil
  <2>2. UNCHANGED <<status, zeile, ruht>>
    BY <1>10 DEF SchreibeLoeschung
  <2> QED BY <2>1, <2>2 DEF SchreibtAlleSpiele, NurEigenes
<1>11. CASE SchreibeSpiel(a)
  <2>1. UrteilSpiel(op, W)
    BY <1>11, BringtUrteil DEF SchreibeSpiel, Urteil
  <2>2. Groessen /\ UNCHANGED <<status, regeln, zeile, ruht>>
    BY <1>11, BesetzungBleibt DEF SchreibeSpiel
  <2>3. /\ DOMAIN spiel' = DOMAIN spiel
        /\ \A k \in DOMAIN spiel : k # op.k => spiel'[k] = spiel[k]
    BY <1>11 DEF SchreibeSpiel
  <2> QED BY <2>1, <2>2, <2>3 DEF UrteilSpiel, NurEigenes
<1>12. CASE SchreibeStatus(a)
  <2>1. UrteilStatus(op, W)
    BY <1>12, BringtUrteil DEF SchreibeStatus, Urteil
  <2> QED BY <1>12, <2>1 DEF SchreibeStatus, UrteilStatus, NurEigenes
<1> QED BY <1>1, <1>2, <1>3, <1>4, <1>5, <1>6, <1>7, <1>8, <1>9, <1>10, <1>11, <1>12 DEF Schreibe


\* A commit frees its actor and every actor it collides with.
LEMMA TxSchreibt ==
  ASSUME UrteileStimmen, NEW a \in Akteure, Schreibt(a)
  PROVE  /\ DOMAIN tx' = Akteure
         /\ tx'[a] = Frei
         /\ \A b \in Akteure :
              \/ tx'[b] = Frei
              \/ tx'[b] = tx[b] /\ tx[b].schreibt \cap tx[a].schreibt = {}
<1>1. tx' = [b \in Akteure |-> IF b = a \/ Kollidiert(tx[a], tx[b]) THEN Frei ELSE tx[b]]
  BY DEF Schreibt, Festgeschrieben, UrteileStimmen
<1> QED BY <1>1 DEF Kollidiert

LEMMA SchreibeSchreibt ==
  ASSUME NEW a \in Akteure, Schreibe(a)
  PROVE  Schreibt(a)
BY DEF Schreibe, SchreibeEintritt, SchreibeWechsel, SchreibeAustritt, SchreibeTausch,
   SchreibeErsatz, SchreibeRuhestand, SchreibeRueckkehr, SchreibeRegeln, SchreibeZiehung,
   SchreibeLoeschung, SchreibeSpiel, SchreibeStatus

\* The types of the documents.
DatenTyp ==
  /\ status \in {"future", "active", "past"}
  /\ regeln \in Regelwerke
  /\ zeile \in [Teams -> [gruppe : Nat, austritt : BOOLEAN]]
  /\ ruht \subseteq Teams
  /\ \A k \in DOMAIN spiel : /\ k \subseteq Teams
                             /\ spiel[k] \in [seiten : SUBSET Teams, stand : Staende]

LEMMA CommitDatenTyp ==
  ASSUME TypeOK, UrteileStimmen, NEW a \in Akteure, Schreibe(a)
  PROVE  DatenTyp'
<1> DEFINE op == tx[a].op
           W == tx[a].schreibt
<1>t. /\ DatenTyp
      /\ \A g : HatPlatz(g) => g \in Nat
  BY RegelwerkTyp DEF TypeOK, DatenTyp, HatPlatz
<1>1. CASE SchreibeEintritt(a)
  <2>1. UrteilEintritt(op, W)
    BY <1>1, BringtUrteil DEF SchreibeEintritt, Urteil
  <2>2. [gruppe |-> op.g, austritt |-> FALSE] \in [gruppe : Nat, austritt : BOOLEAN]
    BY <1>t, <2>1 DEF UrteilEintritt
  <2>3. zeile' = [zeile EXCEPT ![op.t] = [gruppe |-> op.g, austritt |-> FALSE]]
    BY <1>1 DEF SchreibeEintritt
  <2>4. zeile' \in [Teams -> [gruppe : Nat, austritt : BOOLEAN]]
    BY <1>t, <2>2, <2>3 DEF DatenTyp
  <2> QED
    BY <1>1, <1>t, <2>4 DEF SchreibeEintritt, DatenTyp
<1>2. CASE SchreibeWechsel(a)
  <2>1. UrteilWechsel(op, W)
    BY <1>2, BringtUrteil DEF SchreibeWechsel, Urteil
  <2>2. op.g \in Nat /\ zeile' = [zeile EXCEPT ![op.t].gruppe = op.g]
    BY <1>2, <1>t, <2>1 DEF SchreibeWechsel, UrteilWechsel
  <2> HIDE DEF op
  <2>3. zeile' \in [Teams -> [gruppe : Nat, austritt : BOOLEAN]]
    BY <1>t, <2>2 DEF DatenTyp
  <2> QED
    BY <1>2, <1>t, <2>3 DEF SchreibeWechsel, DatenTyp
<1>3. CASE SchreibeAustritt(a)
  <2>1. UrteilAustritt(op, W)
    BY <1>3, BringtUrteil DEF SchreibeAustritt, Urteil
  <2>2. op.wert \in BOOLEAN /\ zeile' = [zeile EXCEPT ![op.t].austritt = op.wert]
    BY <1>3, <2>1 DEF SchreibeAustritt, UrteilAustritt
  <2> HIDE DEF op
  <2>3. zeile' \in [Teams -> [gruppe : Nat, austritt : BOOLEAN]]
    BY <1>t, <2>2 DEF DatenTyp
  <2> QED
    BY <1>3, <1>t, <2>3 DEF SchreibeAustritt, DatenTyp
<1>4. CASE SchreibeTausch(a)
  <2>1. UrteilTausch(op, W)
    BY <1>4, BringtUrteil DEF SchreibeTausch, Urteil
  <2>2. op.gt \in Nat /\ op.gu \in Nat
    BY <1>t, <2>1 DEF UrteilTausch, DatenTyp
  <2>3. zeile' = [zeile EXCEPT ![op.t].gruppe = op.gt, ![op.u].gruppe = op.gu]
    BY <1>4 DEF SchreibeTausch
  <2>4. spiel' = Umbesetzt(op) /\ Umbesetzbar(op, W)
    BY <1>4, <2>1 DEF SchreibeTausch, UrteilTausch
  <2> HIDE DEF op, W
  <2>5. zeile' \in [Teams -> [gruppe : Nat, austritt : BOOLEAN]]
    <3> DEFINE z1 == [zeile EXCEPT ![op.t].gruppe = op.gt]
    <3>1. z1 \in [Teams -> [gruppe : Nat, austritt : BOOLEAN]]
      BY <1>t, <2>2 DEF DatenTyp
    <3>2. zeile' = [z1 EXCEPT ![op.u].gruppe = op.gu]
      BY <2>3
    <3> HIDE DEF z1
    <3> QED BY <2>2, <3>1, <3>2
  <2>6. \A k \in DOMAIN spiel' : k \subseteq Teams
                                  /\ spiel'[k] \in [seiten : SUBSET Teams, stand : Staende]
    BY <1>t, <2>4, UmbesetztTyp DEF DatenTyp
  <2> QED
    BY <1>4, <1>t, <2>5, <2>6 DEF SchreibeTausch, DatenTyp
<1>5. CASE SchreibeErsatz(a)
  <2>1. UrteilErsatz(op, W)
    BY <1>5, BringtUrteil DEF SchreibeErsatz, Urteil
  <2>2. op.g \in Nat
    BY <1>t, <2>1 DEF UrteilErsatz, DatenTyp
  <2>3. zeile' = [zeile EXCEPT ![op.t] = [gruppe |-> 0, austritt |-> FALSE],
                               ![op.u] = [gruppe |-> op.g, austritt |-> FALSE]]
    BY <1>5 DEF SchreibeErsatz
  <2>4. spiel' = Umbesetzt(op) /\ Umbesetzbar(op, W)
    BY <1>5, <2>1 DEF SchreibeErsatz, UrteilErsatz
  <2> HIDE DEF op, W
  <2>5. zeile' \in [Teams -> [gruppe : Nat, austritt : BOOLEAN]]
    BY <1>t, <2>2, <2>3 DEF DatenTyp
  <2>6. \A k \in DOMAIN spiel' : k \subseteq Teams
                                  /\ spiel'[k] \in [seiten : SUBSET Teams, stand : Staende]
    BY <1>t, <2>4, UmbesetztTyp DEF DatenTyp
  <2> QED
    BY <1>5, <1>t, <2>5, <2>6 DEF SchreibeErsatz, DatenTyp
<1>6. CASE SchreibeRuhestand(a)
  <2>1. op.t \in Teams
    BY <1>6, BringtUrteil DEF SchreibeRuhestand, Urteil, UrteilRuhestand
  <2> QED
    BY <1>6, <1>t, <2>1 DEF SchreibeRuhestand, DatenTyp
<1>7. CASE SchreibeRueckkehr(a)
  <2> QED
    BY <1>7, <1>t DEF SchreibeRueckkehr, DatenTyp
<1>8. CASE SchreibeRegeln(a)
  <2>1. op.r \in Regelwerke
    BY <1>8, BringtUrteil DEF SchreibeRegeln, Urteil, UrteilRegeln
  <2> QED
    BY <1>8, <1>t, <2>1 DEF SchreibeRegeln, DatenTyp
<1>9. CASE SchreibeZiehung(a)
  <2>1. UrteilZiehung(op, W)
    BY <1>9, BringtUrteil DEF SchreibeZiehung, Urteil
  <2>2. spiel' = [k \in op.runden \cup {Endspiel} |-> [seiten |-> k, stand |-> "offen"]]
    BY <1>9 DEF SchreibeZiehung
  <2>3. \A k \in DOMAIN spiel' : k \subseteq Teams
                                  /\ spiel'[k] \in [seiten : SUBSET Teams, stand : Staende]
    BY <2>1, <2>2 DEF UrteilZiehung, Staende, Endspiel
  <2>4. op.r \in Regelwerke /\ regeln' = op.r /\ UNCHANGED <<status, zeile, ruht>>
    BY <1>9, <2>1 DEF SchreibeZiehung, UrteilZiehung
  <2> QED
    BY <1>t, <2>3, <2>4 DEF DatenTyp
<1>10. CASE SchreibeLoeschung(a)
  <2> QED
    BY <1>10, <1>t DEF SchreibeLoeschung, DatenTyp
<1>11. CASE SchreibeSpiel(a)
  <2>1. UrteilSpiel(op, W)
    BY <1>11, BringtUrteil DEF SchreibeSpiel, Urteil
  <2>2. spiel' = [spiel EXCEPT ![op.k].stand = op.stand]
    BY <1>11 DEF SchreibeSpiel
  <2> HIDE DEF op, W
  <2>3. \A k \in DOMAIN spiel' : k \subseteq Teams
                                  /\ spiel'[k] \in [seiten : SUBSET Teams, stand : Staende]
    BY <1>t, <2>1, <2>2 DEF UrteilSpiel, DatenTyp
  <2> QED
    BY <1>11, <1>t, <2>3 DEF SchreibeSpiel, DatenTyp
<1>12. CASE SchreibeStatus(a)
  <2>1. op.neu \in {"active", "past"}
    BY <1>12, BringtUrteil DEF SchreibeStatus, Urteil, UrteilStatus
  <2> QED
    BY <1>12, <1>t, <2>1 DEF SchreibeStatus, DatenTyp
<1> QED BY <1>1, <1>2, <1>3, <1>4, <1>5, <1>6, <1>7, <1>8, <1>9, <1>10, <1>11, <1>12
        DEF Schreibe

LEMMA CommitTyp ==
  ASSUME TypeOK, UrteileStimmen, NEW a \in Akteure, Schreibe(a)
  PROVE  TypeOK'
<1>1. \A b \in Akteure : tx'[b].phase \in {"frei", "bereit"}
  BY SchreibeSchreibt, TxSchreibt DEF TypeOK, Frei
<1> QED BY <1>1, CommitDatenTyp DEF TypeOK, DatenTyp


-----------------------------------------------------------------------------
\* The places after a commit.

Fuellung == GruppenNieUeberfuellt /\ GezogeneGruppenSindVoll

\* A commit that leaves the rules and every group's size alone and draws nothing.
LEMMA GroessenHalten ==
  ASSUME TypeOK, TypeOK', Fuellung, regeln' = regeln,
         DOMAIN spiel' = DOMAIN spiel \/ DOMAIN spiel' = {},
         \A g \in Nat \ {0} : Cardinality(Besetzung(g)') = Cardinality(Besetzung(g))
  PROVE  Fuellung'
<1>1. AlleAngeboten(regeln) /\ \A g \in Angebotene(regeln) : g \in Nat \ {0}
  BY RegelwerkTyp DEF Fuellung, GruppenNieUeberfuellt, AlleAngeboten, TypeOK
<1>2. AlleAngeboten(regeln)'
  BY <1>1, AngebotenBleibt DEF AlleAngeboten, Angebotene
<1>3. GruppenNieUeberfuellt'
  BY <1>1, <1>2 DEF Fuellung, GruppenNieUeberfuellt, AlleAngeboten, Angebotene
<1>4. GezogeneGruppenSindVoll'
  BY <1>1, <1>2 DEF Fuellung, GezogeneGruppenSindVoll, GruppenVoll, AlleAngeboten, Angebotene
<1> QED BY <1>3, <1>4 DEF Fuellung

\* Where a group has a place left nothing is drawn.
LEMMA PlatzHeisstUngezogen ==
  ASSUME TypeOK, Fuellung, NEW g, HatPlatz(g)
  PROVE  DOMAIN spiel = {}
<1>1. Cardinality(Besetzung(g)) \in Nat /\ regeln.plaetze \in Nat
  BY BesetzungEndlich, RegelwerkTyp DEF TypeOK
<1>2. DOMAIN spiel # {} => Cardinality(Besetzung(g)) = regeln.plaetze
  BY Zenon DEF Fuellung, GezogeneGruppenSindVoll, GruppenVoll, HatPlatz
<1>3. Cardinality(Besetzung(g)) < regeln.plaetze
  BY DEF HatPlatz
<1>4. Cardinality(Besetzung(g)) # regeln.plaetze
  BY <1>1, <1>3
<1> QED BY <1>2, <1>4

\* A club comes to a group with a place left; what it may leave shrinks.
LEMMA EinerKommt ==
  ASSUME TypeOK, Fuellung, NEW t \in Teams, NEW g, HatPlatz(g), zeile[t].gruppe # g,
         zeile'[t].gruppe = g, \A z \in Teams \ {t} : zeile'[z] = zeile[z],
         regeln' = regeln, spiel' = spiel
  PROVE  Fuellung'
<1>1. /\ Cardinality(Besetzung(g)) \in Nat /\ regeln.plaetze \in Nat
      /\ Cardinality(Besetzung(g)) < regeln.plaetze
  BY BesetzungEndlich, RegelwerkTyp DEF TypeOK, HatPlatz
<1>2. Cardinality(Besetzung(g)') <= regeln.plaetze
  <2>1. Besetzung(g)' = Besetzung(g) \cup {t} /\ t \notin Besetzung(g)
    BY DEF Besetzung
  <2>2. Cardinality(Besetzung(g) \cup {t}) = Cardinality(Besetzung(g)) + 1
    BY <2>1, BesetzungEndlich, FS_AddElement
  <2> QED BY <1>1, <2>1, <2>2
<1>3. ASSUME NEW h \in Angebotene(regeln), h # g
      PROVE  Cardinality(Besetzung(h)') <= regeln.plaetze
  <2>1. Besetzung(h)' \in SUBSET Besetzung(h)
    BY <1>3 DEF Besetzung
  <2>2. Cardinality(Besetzung(h)') <= Cardinality(Besetzung(h))
    BY <2>1, BesetzungEndlich, FS_Subset
  <2>3. Cardinality(Besetzung(h)) <= regeln.plaetze
    BY <1>3 DEF Fuellung, GruppenNieUeberfuellt
  <2>4. Cardinality(Besetzung(h)) \in Nat /\ Cardinality(Besetzung(h)') \in Nat
    BY <2>1, BesetzungEndlich, FS_Subset, FS_CardinalityType
  <2> QED BY <1>1, <2>2, <2>3, <2>4
<1>4. GruppenNieUeberfuellt'
  <2>1. \A z \in Teams : zeile'[z].gruppe # 0 => zeile'[z].gruppe \in Angebotene(regeln)
    BY DEF Fuellung, GruppenNieUeberfuellt, Gemeldet, HatPlatz
  <2> QED BY <1>2, <1>3, <2>1 DEF GruppenNieUeberfuellt, Gemeldet, Angebotene
<1>5. GezogeneGruppenSindVoll'
  BY PlatzHeisstUngezogen DEF GezogeneGruppenSindVoll
<1> QED BY <1>4, <1>5 DEF Fuellung

LEMMA CommitHaeltFuellung ==
  ASSUME PlatzInv, NEW a \in Akteure, Schreibe(a)
  PROVE  Fuellung'
<1> DEFINE op == tx[a].op
           W == tx[a].schreibt
           Groessen == \A g \in Nat \ {0} : Cardinality(Besetzung(g)') = Cardinality(Besetzung(g))
<1>i. TypeOK /\ TypeOK' /\ UrteileStimmen /\ Fuellung
  BY CommitTyp DEF PlatzInv, PlaetzeStimmen, Fuellung
<1>b. ASSUME \A z \in Teams : zeile'[z].gruppe = zeile[z].gruppe PROVE Groessen
  BY <1>b, BesetzungBleibt
<1>1. CASE SchreibeEintritt(a)
  <2>1. UrteilEintritt(op, W)
    BY <1>i, <1>1, BringtUrteil DEF SchreibeEintritt, Urteil
  <2>2. /\ zeile' = [zeile EXCEPT ![op.t] = [gruppe |-> op.g, austritt |-> FALSE]]
        /\ regeln' = regeln /\ spiel' = spiel
    BY <1>1 DEF SchreibeEintritt
  <2> HIDE DEF op, W
  <2>3. /\ op.t \in Teams /\ HatPlatz(op.g) /\ zeile[op.t].gruppe = 0
        /\ op.g # 0
    BY <1>i, <2>1, RegelwerkTyp DEF UrteilEintritt, Gemeldet, HatPlatz, TypeOK
  <2>4. zeile'[op.t].gruppe = op.g /\ \A z \in Teams \ {op.t} : zeile'[z] = zeile[z]
    BY <1>i, <2>2, <2>3 DEF TypeOK
  <2> QED BY <1>i, <2>2, <2>3, <2>4, EinerKommt
<1>2. CASE SchreibeWechsel(a)
  <2>1. UrteilWechsel(op, W)
    BY <1>i, <1>2, BringtUrteil DEF SchreibeWechsel, Urteil
  <2>2. /\ zeile' = [zeile EXCEPT ![op.t].gruppe = op.g]
        /\ regeln' = regeln /\ spiel' = spiel
    BY <1>2 DEF SchreibeWechsel
  <2> HIDE DEF op, W
  <2>3. /\ op.t \in Teams /\ HatPlatz(op.g) /\ zeile[op.t].gruppe # op.g
    BY <2>1 DEF UrteilWechsel
  <2>4. zeile'[op.t].gruppe = op.g /\ \A z \in Teams \ {op.t} : zeile'[z] = zeile[z]
    BY <1>i, <2>2, <2>3 DEF TypeOK
  <2> QED BY <1>i, <2>2, <2>3, <2>4, EinerKommt
<1>3. CASE SchreibeAustritt(a)
  <2>1. /\ zeile' = [zeile EXCEPT ![op.t].austritt = op.wert]
        /\ regeln' = regeln /\ spiel' = spiel
    BY <1>3 DEF SchreibeAustritt
  <2> HIDE DEF op
  <2>2. \A z \in Teams : zeile'[z].gruppe = zeile[z].gruppe
    BY <1>i, <2>1 DEF TypeOK
  <2> QED BY <1>i, <1>b, <2>1, <2>2, GroessenHalten
<1>4. CASE SchreibeTausch(a)
  <2>1. regeln' = regeln /\ DOMAIN spiel' = DOMAIN spiel
    BY <1>4 DEF SchreibeTausch, Umbesetzt
  <2>2. Groessen
    BY <1>i, <1>4, TauschHaeltGroesse
  <2> QED BY <1>i, <2>1, <2>2, GroessenHalten
<1>5. CASE SchreibeErsatz(a)
  <2>1. regeln' = regeln /\ DOMAIN spiel' = DOMAIN spiel
    BY <1>5 DEF SchreibeErsatz, Umbesetzt
  <2>2. Groessen
    BY <1>i, <1>5, ErsatzHaeltGroesse
  <2> QED BY <1>i, <2>1, <2>2, GroessenHalten
<1>6. CASE SchreibeRegeln(a)
  <2>1. UrteilRegeln(op, W)
    BY <1>i, <1>6, BringtUrteil DEF SchreibeRegeln, Urteil
  <2>2. regeln' = op.r /\ zeile' = zeile /\ spiel' = spiel
    BY <1>6 DEF SchreibeRegeln
  <2> QED BY <2>1, <2>2 DEF UrteilRegeln, Fuellung, GruppenNieUeberfuellt,
          GezogeneGruppenSindVoll, Angebotene, Besetzung, AlleAngeboten, Gemeldet
<1>7. CASE SchreibeZiehung(a)
  <2>1. UrteilZiehung(op, W)
    BY <1>i, <1>7, BringtUrteil DEF SchreibeZiehung, Urteil
  <2>2. regeln' = op.r /\ zeile' = zeile
    BY <1>7 DEF SchreibeZiehung
  <2>3. GruppenVoll(regeln)'
    BY <2>1, <2>2 DEF UrteilZiehung, GruppenVoll, Angebotene, Besetzung, Gemeldet
  <2>4. regeln'.plaetze \in Nat
    BY <1>i, RegelwerkTyp DEF TypeOK
  <2> QED BY <2>3, <2>4 DEF Fuellung, GruppenNieUeberfuellt, GezogeneGruppenSindVoll, GruppenVoll
<1>8. CASE SchreibeRuhestand(a) \/ SchreibeRueckkehr(a) \/ SchreibeStatus(a)
  <2>1. regeln' = regeln /\ spiel' = spiel /\ zeile' = zeile
    BY <1>8 DEF SchreibeRuhestand, SchreibeRueckkehr, SchreibeStatus
  <2> QED BY <1>i, <1>b, <2>1, GroessenHalten
<1>9. CASE SchreibeLoeschung(a) \/ SchreibeSpiel(a)
  <2>1. regeln' = regeln /\ zeile' = zeile
    BY <1>9 DEF SchreibeLoeschung, SchreibeSpiel
  <2>2. DOMAIN spiel' = DOMAIN spiel \/ DOMAIN spiel' = {}
    BY <1>9 DEF SchreibeLoeschung, SchreibeSpiel
  <2> QED BY <1>i, <1>b, <2>1, <2>2, GroessenHalten
<1> QED BY <1>1, <1>2, <1>3, <1>4, <1>5, <1>6, <1>7, <1>8, <1>9 DEF Schreibe


LEMMA CommitHaeltRuhende ==
  ASSUME PlatzInv, NEW a \in Akteure, Schreibe(a)
  PROVE  KeinRuhendesTeamIstGemeldet'
<1> DEFINE op == tx[a].op
           W == tx[a].schreibt
<1>i. TypeOK /\ UrteileStimmen /\ KeinRuhendesTeamIstGemeldet
  BY DEF PlatzInv, PlaetzeStimmen
<1>k. \A t \in Teams : t \in ruht /\ zeile[t].gruppe # 0 => status = "past"
  BY <1>i DEF KeinRuhendesTeamIstGemeldet, Gemeldet
<1> SUFFICES ASSUME NEW t \in Teams, t \in ruht', zeile'[t].gruppe # 0
             PROVE  status' = "past"
  BY CommitTyp, <1>i DEF KeinRuhendesTeamIstGemeldet, Gemeldet, TypeOK
<1>1. CASE SchreibeEintritt(a)
  <2>1. UrteilEintritt(op, W)
    BY <1>i, <1>1, BringtUrteil DEF SchreibeEintritt, Urteil
  <2>2. t # op.t => zeile'[t] = zeile[t]
    BY <1>1, <1>i DEF SchreibeEintritt, TypeOK
  <2> QED BY <1>1, <1>k, <2>1, <2>2 DEF SchreibeEintritt, UrteilEintritt
<1>2. CASE SchreibeWechsel(a)
  <2>1. UrteilWechsel(op, W)
    BY <1>i, <1>2, BringtUrteil DEF SchreibeWechsel, Urteil
  <2>2. t # op.t => zeile'[t] = zeile[t]
    BY <1>2, <1>i DEF SchreibeWechsel, TypeOK
  <2> QED BY <1>2, <1>k, <2>1, <2>2 DEF SchreibeWechsel, UrteilWechsel, Gemeldet
<1>3. CASE SchreibeAustritt(a)
  <2>1. zeile' = [zeile EXCEPT ![op.t].austritt = op.wert]
    BY <1>3 DEF SchreibeAustritt
  <2> HIDE DEF op
  <2>2. zeile'[t].gruppe = zeile[t].gruppe
    BY <1>i, <2>1 DEF TypeOK
  <2> QED BY <1>3, <1>k, <2>2 DEF SchreibeAustritt
<1>4. CASE SchreibeTausch(a)
  <2>1. UrteilTausch(op, W)
    BY <1>i, <1>4, BringtUrteil DEF SchreibeTausch, Urteil
  <2>2. t \notin {op.t, op.u} => zeile'[t] = zeile[t]
    BY <1>4, <1>i, TauschHaeltGroesse
  <2>3. status' = status /\ ruht' = ruht
    BY <1>4 DEF SchreibeTausch
  <2> QED BY <1>k, <2>1, <2>2, <2>3 DEF UrteilTausch
<1>5. CASE SchreibeErsatz(a)
  <2>1. UrteilErsatz(op, W)
    BY <1>i, <1>5, BringtUrteil DEF SchreibeErsatz, Urteil
  <2>2. /\ t \notin {op.t, op.u} => zeile'[t] = zeile[t]
        /\ zeile'[op.t] = [gruppe |-> 0, austritt |-> FALSE]
    BY <1>5, <1>i, ErsatzHaeltGroesse
  <2>3. status' = status /\ ruht' = ruht
    BY <1>5 DEF SchreibeErsatz
  <2> QED BY <1>k, <2>1, <2>2, <2>3 DEF UrteilErsatz
<1>6. CASE SchreibeRuhestand(a)
  <2>1. UrteilRuhestand(op, W)
    BY <1>i, <1>6, BringtUrteil DEF SchreibeRuhestand, Urteil
  <2> QED BY <1>6, <1>k, <2>1 DEF SchreibeRuhestand, UrteilRuhestand, Gemeldet
<1>7. CASE SchreibeRueckkehr(a) \/ SchreibeRegeln(a) \/ SchreibeZiehung(a) \/ SchreibeLoeschung(a)
            \/ SchreibeSpiel(a)
  BY <1>7, <1>k DEF SchreibeRueckkehr, SchreibeRegeln, SchreibeZiehung, SchreibeLoeschung,
                    SchreibeSpiel
<1>8. CASE SchreibeStatus(a)
  <2>1. UrteilStatus(op, W)
    BY <1>i, <1>8, BringtUrteil DEF SchreibeStatus, Urteil
  <2> QED BY <1>8, <1>k, <2>1 DEF SchreibeStatus, UrteilStatus
<1> QED BY <1>1, <1>2, <1>3, <1>4, <1>5, <1>6, <1>7, <1>8 DEF Schreibe

-----------------------------------------------------------------------------
\* What the snapshot bears out when a transaction opens.

LEMMA RuheUrteilt ==
  ASSUME TypeOK, UNCHANGED daten, TypeOK', NEW op, NEW W, Urteil(op, W)
  PROVE  Urteil(op, W)'
<1>1. \A g : Besetzung(g)' = Besetzung(g)
  BY DEF Besetzung, daten
<1>2. NurEigenes({})
  BY <1>1 DEF NurEigenes, daten
<1> QED BY <1>2, UrteilUeberlebt

LEMMA BeginntUrteilt ==
  ASSUME PlatzInv, NEW a \in Akteure, NEW op, NEW W, Urteil(op, W), Beginnt(a, op, W)
  PROVE  PlatzInv'
<1>1. /\ DOMAIN tx' = Akteure
      /\ tx'[a] = Bereit(op, W) /\ \A b \in Akteure : b # a => tx'[b] = tx[b]
  BY DEF Beginnt, PlatzInv, UrteileStimmen
<1>2. UNCHANGED daten
  BY DEF Beginnt
<1>3. tx'[a].phase = "bereit" /\ tx'[a].op = op /\ tx'[a].schreibt = W
  BY <1>1 DEF Bereit
<1>4. TypeOK'
  BY <1>1, <1>2, <1>3 DEF PlatzInv, TypeOK, daten
<1>5. ASSUME NEW b \in Akteure
      PROVE  tx'[b] = Frei \/ (tx'[b].phase = "bereit" /\ Urteil(tx[b].op, tx[b].schreibt)')
  <2>1. CASE b = a
    <3>1. Urteil(op, W)'
      BY <1>2, <1>4, RuheUrteilt DEF PlatzInv
    <3> QED BY <1>3, <2>1, <3>1 DEF Urteil
  <2>2. CASE b # a /\ tx[b] # Frei
    <3>1. PICK o, V : o = tx[b].op /\ V = tx[b].schreibt
      OBVIOUS
    <3>2. Urteil(o, V)'
      BY <1>2, <1>4, <2>2, <3>1, RuheUrteilt DEF PlatzInv, UrteileStimmen
    <3>3. tx'[b].op = o /\ tx'[b].schreibt = V /\ tx'[b].phase = "bereit"
      BY <1>1, <2>2, <3>1 DEF PlatzInv, UrteileStimmen
    <3> QED BY <3>2, <3>3
  <2> QED BY <1>1, <2>1, <2>2
<1>6. PlaetzeStimmen'
  BY <1>2 DEF daten, PlatzInv, PlaetzeStimmen, GruppenNieUeberfuellt, GezogeneGruppenSindVoll,
     KeinRuhendesTeamIstGemeldet, GruppenVoll, Besetzung, Angebotene, Gemeldet
<1> QED BY <1>1, <1>4, <1>5, <1>6 DEF PlatzInv, UrteileStimmen


\* A judgement of the one kind its operation is of is its judgement.
LEMMA UrteilNachArt ==
  ASSUME NEW op, NEW W,
         \/ op.art = "eintritt" /\ UrteilEintritt(op, W)
         \/ op.art = "wechsel" /\ UrteilWechsel(op, W)
         \/ op.art = "austritt" /\ UrteilAustritt(op, W)
         \/ op.art = "tausch" /\ UrteilTausch(op, W)
         \/ op.art = "ersatz" /\ UrteilErsatz(op, W)
         \/ op.art = "ruhestand" /\ UrteilRuhestand(op, W)
         \/ op.art = "rueckkehr" /\ UrteilRueckkehr(op, W)
         \/ op.art = "regeln" /\ UrteilRegeln(op, W)
         \/ op.art = "ziehen" /\ UrteilZiehung(op, W)
         \/ op.art = "loeschen" /\ SchreibtAlleSpiele(W)
         \/ op.art = "spiel" /\ UrteilSpiel(op, W)
         \/ op.art = "status" /\ UrteilStatus(op, W)
  PROVE  Urteil(op, W)
BY DEF Urteil

\* The sides a swap and a replacement give the fixtures they hold.
LEMMA SeitenTyp ==
  ASSUME TypeOK, NEW k \in DOMAIN spiel, NEW t \in Teams, NEW u \in Teams
  PROVE  /\ Getauscht(spiel[k].seiten, t, u) \subseteq Teams
         /\ Ersetzt(spiel[k].seiten, t, u) \subseteq Teams
         /\ Getauscht(spiel[k].seiten, t, u) \ spiel[k].seiten \subseteq {t, u}
         /\ t \in Getauscht(spiel[k].seiten, t, u) => u \in spiel[k].seiten
         /\ t # u /\ u \in Getauscht(spiel[k].seiten, t, u) => t \in spiel[k].seiten
BY DEF TypeOK, Getauscht, Ersetzt

LEMMA RundenTyp ==
  ASSUME NEW r, NEW k \in Runden(r)
  PROVE  k \subseteq Teams
BY DEF Runden, Paare, Besetzung

LEMMA BeginneTauschUrteilt ==
  ASSUME PlatzInv, NEW a \in Akteure, NEW t \in Teams, NEW u \in Teams, BeginneTausch(a, t, u)
  PROVE  PlatzInv'
<1> DEFINE seiten == [k \in SpieleVon(t) \cup SpieleVon(u) |-> Getauscht(spiel[k].seiten, t, u)]
           op == [art |-> "tausch", t |-> t, u |-> u,
                  gt |-> zeile[u].gruppe, gu |-> zeile[t].gruppe, seiten |-> seiten]
           W == SchreibtTausch(t, u)
<1>1. Beginnt(a, op, W)
  BY DEF BeginneTausch
<1>2. /\ op.art = "tausch" /\ op.t = t /\ op.u = u
      /\ op.gt = zeile[u].gruppe /\ op.gu = zeile[t].gruppe /\ op.seiten = seiten
  OBVIOUS
<1>3. /\ DOMAIN seiten = SpieleVon(t) \cup SpieleVon(u)
      /\ \A k \in DOMAIN seiten : seiten[k] = Getauscht(spiel[k].seiten, t, u)
      /\ DOMAIN seiten \subseteq DOMAIN spiel
  BY DEF SpieleVon
<1>4. \A k \in DOMAIN seiten : SpielDok(k) \in W
  BY <1>3 DEF SchreibtTausch
<1>5. ZeileDok(t) \in W /\ ZeileDok(u) \in W
  BY DEF SchreibtTausch
<1>t. TypeOK
  BY DEF PlatzInv
<1> HIDE DEF op, W, seiten
<1>6. Umbesetzbar(op, W)
  BY <1>2, <1>3, <1>4, <1>t, SeitenTyp DEF Umbesetzbar, BeginneTausch
<1>7. ASSUME NEW k \in DOMAIN seiten, NEW x \in seiten[k] \ spiel[k].seiten
      PROVE  x \in {t, u} /\ ~zeile[x].austritt
  <2>1. k \in DOMAIN spiel /\ seiten[k] = Getauscht(spiel[k].seiten, t, u) /\ t # u
    BY <1>3 DEF BeginneTausch
  <2>2. x \in {t, u}
    BY <1>7, <1>t, <2>1, SeitenTyp
  <2>3. x = t => k \in SpieleVon(u)
    BY <1>7, <1>t, <2>1, SeitenTyp DEF SpieleVon
  <2>4. x = u => k \in SpieleVon(t)
    BY <1>7, <1>t, <2>1, SeitenTyp DEF SpieleVon
  <2>5. ~TrifftAusgetretene(t, u)
    BY DEF BeginneTausch
  <2> QED BY <2>2, <2>3, <2>4, <2>5 DEF TrifftAusgetretene
<1>8. UrteilTausch(op, W)
  BY <1>2, <1>5, <1>6, <1>7 DEF UrteilTausch, BeginneTausch, Gemeldet
<1>9. Urteil(op, W)
  BY <1>2, <1>8, UrteilNachArt
<1> QED BY <1>1, <1>9, BeginntUrteilt

LEMMA BeginneErsatzUrteilt ==
  ASSUME PlatzInv, NEW a \in Akteure, NEW t \in Teams, NEW u \in Teams, BeginneErsatz(a, t, u)
  PROVE  PlatzInv'
<1> DEFINE seiten == [k \in SpieleVon(t) |-> Ersetzt(spiel[k].seiten, t, u)]
           op == [art |-> "ersatz", t |-> t, u |-> u, g |-> zeile[t].gruppe, seiten |-> seiten]
           W == SchreibtErsatz(t, u)
<1>1. Beginnt(a, op, W)
  BY DEF BeginneErsatz
<1>2. /\ op.art = "ersatz" /\ op.t = t /\ op.u = u
      /\ op.g = zeile[t].gruppe /\ op.seiten = seiten
  OBVIOUS
<1>3. /\ DOMAIN seiten = SpieleVon(t)
      /\ \A k \in DOMAIN seiten : seiten[k] = Ersetzt(spiel[k].seiten, t, u)
      /\ DOMAIN seiten \subseteq DOMAIN spiel
  BY DEF SpieleVon
<1>4. \A k \in DOMAIN seiten : SpielDok(k) \in W
  BY <1>3 DEF SchreibtErsatz
<1>5. ZeileDok(t) \in W /\ ZeileDok(u) \in W /\ TeamDok(u) \in W
  BY DEF SchreibtErsatz
<1>t. TypeOK
  BY DEF PlatzInv
<1> HIDE DEF op, W, seiten
<1>6. Umbesetzbar(op, W)
  BY <1>2, <1>3, <1>4, <1>t, SeitenTyp DEF Umbesetzbar, BeginneErsatz
<1>7. UrteilErsatz(op, W)
  BY <1>2, <1>5, <1>6 DEF UrteilErsatz, BeginneErsatz, Gemeldet
<1>8. Urteil(op, W)
  BY <1>2, <1>7, UrteilNachArt
<1> QED BY <1>1, <1>8, BeginntUrteilt

LEMMA BeginneRegelnUrteilt ==
  ASSUME PlatzInv, NEW a \in Akteure, NEW r \in Regelwerke, BeginneRegeln(a, r)
  PROVE  PlatzInv'
<1> DEFINE op == [art |-> "regeln", r |-> r]
<1>1. Beginnt(a, op, {SaisonDok}) /\ op.art = "regeln" /\ op.r = r
  BY DEF BeginneRegeln
<1> HIDE DEF op
<1>2. /\ TypeOK /\ GruppenNieUeberfuellt
      /\ regeln.gruppen \in Nat /\ regeln.plaetze \in Nat /\ r.gruppen \in Nat /\ r.plaetze \in Nat
  BY RegelwerkTyp DEF PlatzInv, PlaetzeStimmen, TypeOK
<1>3. AlleAngeboten(r)
  <2>1. CASE r.gruppen < regeln.gruppen
    BY <2>1 DEF BeginneRegeln, PasstZurBesetzung, AlleAngeboten
  <2>2. CASE ~(r.gruppen < regeln.gruppen)
    <3>1. Angebotene(regeln) \subseteq Angebotene(r)
      BY <1>2, <2>2 DEF Angebotene
    <3> QED BY <1>2, <3>1 DEF GruppenNieUeberfuellt, AlleAngeboten
  <2> QED BY <2>1, <2>2
<1>4. ASSUME NEW g \in Angebotene(r) PROVE Cardinality(Besetzung(g)) <= r.plaetze
  <2>1. CASE g \in Angebotene(regeln) /\ r.plaetze < regeln.plaetze
    BY <2>1 DEF BeginneRegeln, PasstZurBesetzung
  <2>2. CASE g \in Angebotene(regeln) /\ ~(r.plaetze < regeln.plaetze)
    <3>1. Cardinality(Besetzung(g)) <= regeln.plaetze
      BY <1>2, <2>2 DEF GruppenNieUeberfuellt
    <3> QED BY <1>2, <2>2, <3>1, BesetzungEndlich
  <2>3. CASE g \notin Angebotene(regeln)
    <3>1. g \in Nat \ {0}
      BY RegelwerkTyp
    <3>2. \A t \in Teams : zeile[t].gruppe # g
      BY <1>2, <2>3, <3>1 DEF GruppenNieUeberfuellt, Gemeldet
    <3>3. Cardinality(Besetzung(g)) = 0
      BY <3>2, BesetzungLeer
    <3> QED BY <1>2, <3>3
  <2> QED BY <2>1, <2>2, <2>3
<1>5. UrteilRegeln(op, {SaisonDok})
  BY <1>1, <1>3, <1>4 DEF UrteilRegeln, BeginneRegeln
<1>6. Urteil(op, {SaisonDok})
  BY <1>1, <1>5, UrteilNachArt
<1> QED BY <1>1, <1>6, BeginntUrteilt


LEMMA BeginneZiehungUrteilt ==
  ASSUME PlatzInv, NEW a \in Akteure, NEW r \in Regelwerke, NEW ersetzt \in BOOLEAN,
         BeginneZiehung(a, r, ersetzt)
  PROVE  PlatzInv'
<1> DEFINE op == [art |-> "ziehen", r |-> r, runden |-> Runden(r)]
<1>1. Beginnt(a, op, SchreibtPlan) /\ op.art = "ziehen" /\ op.r = r /\ op.runden = Runden(r)
  BY DEF BeginneZiehung
<1> HIDE DEF op
<1>2. \A k \in op.runden : k \subseteq Teams
  BY <1>1, RundenTyp
<1>3. \A k \in DOMAIN spiel : ~HatStattgefunden(k)
  BY DEF BeginneZiehung, Planungsfenster, HaeltEintrag, HatStattgefunden
<1>4. SchreibtAlleSpiele(SchreibtPlan)
  BY DEF SchreibtAlleSpiele, SchreibtPlan
<1>5. GruppenVoll(r)
  BY DEF BeginneZiehung
<1>6. Urteil(op, SchreibtPlan)
  BY <1>1, <1>2, <1>3, <1>4, <1>5, UrteilNachArt DEF UrteilZiehung
<1> QED BY <1>1, <1>6, BeginntUrteilt

LEMMA BeginneWahrt ==
  ASSUME PlatzInv, NEW a \in Akteure, Beginne(a)
  PROVE  PlatzInv'
<1>1. ASSUME NEW t \in Teams, NEW g, BeginneEintritt(a, t, g) PROVE PlatzInv'
  <2> DEFINE op == [art |-> "eintritt", t |-> t, g |-> g]
  <2>1. Beginnt(a, op, SchreibtEintritt(t)) /\ op.art = "eintritt" /\ op.t = t /\ op.g = g
    BY <1>1 DEF BeginneEintritt
  <2> HIDE DEF op
  <2>2. UrteilEintritt(op, SchreibtEintritt(t))
    BY <1>1, <2>1 DEF UrteilEintritt, SchreibtEintritt, BeginneEintritt, DarfInGruppe, HatPlatz
  <2> QED BY <2>1, <2>2, UrteilNachArt, BeginntUrteilt
<1>2. ASSUME NEW t \in Teams, NEW g, BeginneWechsel(a, t, g) PROVE PlatzInv'
  <2> DEFINE op == [art |-> "wechsel", t |-> t, g |-> g]
  <2>1. Beginnt(a, op, SchreibtWechsel(t)) /\ op.art = "wechsel" /\ op.t = t /\ op.g = g
    BY <1>2 DEF BeginneWechsel
  <2> HIDE DEF op
  <2>2. UrteilWechsel(op, SchreibtWechsel(t))
    BY <1>2, <2>1 DEF UrteilWechsel, SchreibtWechsel, BeginneWechsel, DarfInGruppe, HatPlatz
  <2> QED BY <2>1, <2>2, UrteilNachArt, BeginntUrteilt
<1>3. ASSUME NEW t \in Teams, BeginneAustritt(a, t) PROVE PlatzInv'
  <2> DEFINE wert == ~zeile[t].austritt
             op == [art |-> "austritt", t |-> t, wert |-> wert]
  <2>1. Beginnt(a, op, SchreibtAustritt(t)) /\ op.art = "austritt" /\ op.t = t /\ op.wert = wert
    BY <1>3 DEF BeginneAustritt
  <2>2. wert \in BOOLEAN
    OBVIOUS
  <2> HIDE DEF op, wert
  <2>3. UrteilAustritt(op, SchreibtAustritt(t))
    BY <2>1, <2>2 DEF UrteilAustritt, SchreibtAustritt
  <2> QED BY <2>1, <2>3, UrteilNachArt, BeginntUrteilt
<1>4. ASSUME NEW t \in Teams, BeginneRuhestand(a, t) PROVE PlatzInv'
  <2> DEFINE op == [art |-> "ruhestand", t |-> t]
  <2>1. Beginnt(a, op, {TeamDok(t)}) /\ op.art = "ruhestand" /\ op.t = t
    BY <1>4 DEF BeginneRuhestand
  <2> HIDE DEF op
  <2>2. UrteilRuhestand(op, {TeamDok(t)})
    BY <1>4, <2>1 DEF UrteilRuhestand, BeginneRuhestand
  <2> QED BY <2>1, <2>2, UrteilNachArt, BeginntUrteilt
<1>5. ASSUME NEW t \in Teams, BeginneRueckkehr(a, t) PROVE PlatzInv'
  <2> DEFINE op == [art |-> "rueckkehr", t |-> t]
  <2>1. Beginnt(a, op, {TeamDok(t)}) /\ op.art = "rueckkehr" /\ op.t = t
    BY <1>5 DEF BeginneRueckkehr
  <2> HIDE DEF op
  <2>2. UrteilRueckkehr(op, {TeamDok(t)})
    BY <2>1 DEF UrteilRueckkehr
  <2> QED BY <2>1, <2>2, UrteilNachArt, BeginntUrteilt
<1>6. CASE BeginneLoeschung(a)
  <2> DEFINE op == [art |-> "loeschen"]
  <2>1. Beginnt(a, op, SchreibtPlan) /\ op.art = "loeschen"
    BY <1>6 DEF BeginneLoeschung
  <2> HIDE DEF op
  <2>2. SchreibtAlleSpiele(SchreibtPlan)
    BY DEF SchreibtAlleSpiele, SchreibtPlan
  <2> QED BY <2>1, <2>2, UrteilNachArt, BeginntUrteilt
<1>7. ASSUME NEW k \in DOMAIN spiel, NEW stand \in Staende, BeginneSpiel(a, k, stand)
      PROVE  PlatzInv'
  <2> DEFINE op == [art |-> "spiel", k |-> k, stand |-> stand]
  <2>1. Beginnt(a, op, {SpielDok(k)}) /\ op.art = "spiel" /\ op.k = k /\ op.stand = stand
    BY <1>7 DEF BeginneSpiel
  <2> HIDE DEF op
  <2>2. UrteilSpiel(op, {SpielDok(k)})
    BY <2>1 DEF UrteilSpiel
  <2> QED BY <2>1, <2>2, UrteilNachArt, BeginntUrteilt
<1>8. CASE BeginneAktivierung(a) \/ BeginneAbschluss(a)
  <2>1. PICK op : /\ Beginnt(a, op, {SaisonDok}) /\ op.art = "status"
                  /\ op.neu \in {"active", "past"} /\ status # "past"
    <3>1. CASE BeginneAktivierung(a)
      <4> DEFINE o == [art |-> "status", neu |-> "active"]
      <4>1. Beginnt(a, o, {SaisonDok}) /\ o.art = "status" /\ o.neu = "active" /\ status # "past"
        BY <3>1 DEF BeginneAktivierung
      <4> HIDE DEF o
      <4> QED BY <4>1
    <3>2. CASE BeginneAbschluss(a)
      <4> DEFINE o == [art |-> "status", neu |-> "past"]
      <4>1. Beginnt(a, o, {SaisonDok}) /\ o.art = "status" /\ o.neu = "past" /\ status # "past"
        BY <3>2 DEF BeginneAbschluss
      <4> HIDE DEF o
      <4> QED BY <4>1
    <3> QED BY <1>8, <3>1, <3>2
  <2>2. UrteilStatus(op, {SaisonDok})
    BY <2>1 DEF UrteilStatus
  <2> QED BY <2>1, <2>2, UrteilNachArt, BeginntUrteilt
<1> QED BY <1>1, <1>2, <1>3, <1>4, <1>5, <1>6, <1>7, <1>8, BeginneTauschUrteilt,
           BeginneErsatzUrteilt, BeginneRegelnUrteilt, BeginneZiehungUrteilt DEF Beginne

-----------------------------------------------------------------------------
\* Every step keeps the invariant.

LEMMA CommitWahrt ==
  ASSUME PlatzInv, NEW a \in Akteure, Schreibe(a)
  PROVE  PlatzInv'
<1>1. TypeOK /\ TypeOK' /\ UrteileStimmen
  BY CommitTyp DEF PlatzInv
<1>2. PICK V : V = tx[a].schreibt /\ NurEigenes(V)
  BY <1>1, CommitSchreibtNurEigenes
<1>3. ASSUME NEW b \in Akteure, tx'[b] # Frei
      PROVE  tx'[b].phase = "bereit" /\ Urteil(tx[b].op, tx[b].schreibt)'
  <2>1. tx'[b] = tx[b] /\ tx[b].schreibt \cap V = {}
    BY <1>1, <1>2, <1>3, SchreibeSchreibt, TxSchreibt
  <2>2. PICK o, W : o = tx[b].op /\ W = tx[b].schreibt
    OBVIOUS
  <2>3. Urteil(o, W) /\ tx[b].phase = "bereit"
    BY <1>1, <1>3, <2>1, <2>2 DEF UrteileStimmen
  <2>4. Urteil(o, W)'
    BY <1>1, <1>2, <2>1, <2>2, <2>3, UrteilUeberlebt
  <2> QED BY <2>1, <2>2, <2>3, <2>4
<1>4. UrteileStimmen'
  BY <1>1, <1>3, SchreibeSchreibt, TxSchreibt DEF UrteileStimmen, Frei
<1> QED BY <1>1, <1>4, CommitHaeltFuellung, CommitHaeltRuhende
        DEF PlatzInv, PlaetzeStimmen, Fuellung

LEMMA AbbruchWahrt ==
  ASSUME PlatzInv, NEW a \in Akteure, Abbruch(a)
  PROVE  PlatzInv'
<1>1. /\ DOMAIN tx' = Akteure
      /\ tx'[a] = Frei /\ \A b \in Akteure : b # a => tx'[b] = tx[b]
  BY DEF Abbruch, PlatzInv, UrteileStimmen
<1>2. UNCHANGED daten
  BY DEF Abbruch
<1>3. TypeOK'
  BY <1>1, <1>2 DEF PlatzInv, TypeOK, daten, Frei
<1>4. ASSUME NEW b \in Akteure, tx'[b] # Frei
      PROVE  tx'[b].phase = "bereit" /\ Urteil(tx[b].op, tx[b].schreibt)'
  <2>1. tx'[b] = tx[b]
    BY <1>1, <1>4
  <2>2. PICK o, W : o = tx[b].op /\ W = tx[b].schreibt
    OBVIOUS
  <2>3. Urteil(o, W) /\ tx[b].phase = "bereit"
    BY <1>4, <2>1, <2>2 DEF PlatzInv, UrteileStimmen
  <2>4. Urteil(o, W)'
    BY <1>2, <1>3, <2>3, RuheUrteilt DEF PlatzInv
  <2> QED BY <2>1, <2>2, <2>3, <2>4
<1>5. UrteileStimmen'
  BY <1>1, <1>4 DEF UrteileStimmen
<1>6. PlaetzeStimmen'
  BY <1>2 DEF daten, PlatzInv, PlaetzeStimmen, GruppenNieUeberfuellt, GezogeneGruppenSindVoll,
     KeinRuhendesTeamIstGemeldet, GruppenVoll, Besetzung, Angebotene, Gemeldet
<1> QED BY <1>3, <1>5, <1>6 DEF PlatzInv

LEMMA PlatzSchritt == PlatzInv /\ [Next]_vars => PlatzInv'
<1>1. ASSUME PlatzInv, UNCHANGED vars PROVE PlatzInv'
  <2>1. UNCHANGED daten /\ tx' = tx
    BY <1>1 DEF vars
  <2>2. TypeOK'
    BY <1>1, <2>1 DEF PlatzInv, TypeOK, daten
  <2>3. ASSUME NEW b \in Akteure, tx[b] # Frei
        PROVE  tx'[b].phase = "bereit" /\ Urteil(tx[b].op, tx[b].schreibt)'
    <3>1. PICK o, W : o = tx[b].op /\ W = tx[b].schreibt
      OBVIOUS
    <3>2. Urteil(o, W) /\ tx[b].phase = "bereit"
      BY <1>1, <2>3, <3>1 DEF PlatzInv, UrteileStimmen
    <3>3. Urteil(o, W)'
      BY <1>1, <2>1, <2>2, <3>2, RuheUrteilt DEF PlatzInv
    <3> QED BY <2>1, <3>1, <3>2, <3>3
  <2>4. UrteileStimmen'
    BY <1>1, <2>1, <2>3 DEF PlatzInv, UrteileStimmen
  <2>5. PlaetzeStimmen'
    BY <1>1, <2>1 DEF daten, PlatzInv, PlaetzeStimmen, GruppenNieUeberfuellt,
       GezogeneGruppenSindVoll, KeinRuhendesTeamIstGemeldet, GruppenVoll, Besetzung,
       Angebotene, Gemeldet
  <2> QED BY <2>2, <2>4, <2>5 DEF PlatzInv
<1> QED BY <1>1, BeginneWahrt, CommitWahrt, AbbruchWahrt DEF Next

LEMMA PlatzAnfang == Init => PlatzInv
<1> SUFFICES ASSUME Init PROVE PlatzInv
  OBVIOUS
<1>1. /\ DOMAIN tx = Akteure /\ \A a \in Akteure : tx[a] = Frei
      /\ status = "future" /\ regeln \in Regelwerke /\ ruht = {} /\ DOMAIN spiel = {}
      /\ zeile = [t \in Teams |-> [gruppe |-> 0, austritt |-> FALSE]]
  BY DEF Init
<1>2. \A t \in Teams : zeile[t] = [gruppe |-> 0, austritt |-> FALSE]
  BY <1>1
<1>3. TypeOK
  BY <1>1 DEF TypeOK, Frei
<1>4. \A g \in Angebotene(regeln) : Cardinality(Besetzung(g)) <= regeln.plaetze
  <2> SUFFICES ASSUME NEW g \in Angebotene(regeln)
               PROVE  Cardinality(Besetzung(g)) <= regeln.plaetze
    OBVIOUS
  <2>1. g # 0 /\ regeln.plaetze \in Nat
    BY <1>1, RegelwerkTyp
  <2>2. \A t \in Teams : zeile[t].gruppe # g
    BY <1>2, <2>1
  <2>3. Cardinality(Besetzung(g)) = 0
    BY <2>2, BesetzungLeer
  <2> QED BY <2>1, <2>3
<1>5. PlaetzeStimmen
  BY <1>1, <1>2, <1>4 DEF PlaetzeStimmen, GruppenNieUeberfuellt, GezogeneGruppenSindVoll,
     KeinRuhendesTeamIstGemeldet, Gemeldet
<1> QED BY <1>1, <1>3, <1>5 DEF PlatzInv, UrteileStimmen

-----------------------------------------------------------------------------
\* TypeOK holds of every state the program reaches: rows, rules and fixtures keep
\* the shapes teams/schemas.py and the draw give them, however requests overlap.
THEOREM Typkorrekt == Spec => []TypeOK
<1>1. PlatzInv => TypeOK
  BY DEF PlatzInv
<1> QED BY <1>1, PlatzAnfang, PlatzSchritt, PTL DEF Spec

\* For any number of clubs and concurrent requests no group is overfilled, a drawn
\* season's groups are exactly full, and no club out of the league holds a row in a
\* season still open: every request that could break it writes a document of those
\* that judged it, though a swap, a replacement and a retirement write no season.
THEOREM PlaetzeGehenAuf == Spec => []PlaetzeStimmen
<1>1. PlatzInv => PlaetzeStimmen
  BY DEF PlatzInv
<1> QED BY <1>1, PlatzAnfang, PlatzSchritt, PTL DEF Spec


LEMMA TauschTrifftNiemand ==
  ASSUME PlatzInv, NEW a \in Akteure, SchreibeTausch(a),
         NEW k \in DOMAIN spiel, NEW t \in Teams, t \in spiel'[k].seiten \ spiel[k].seiten
  PROVE  ~zeile'[t].austritt
<1> DEFINE op == tx[a].op
           W == tx[a].schreibt
<1>1. UrteilTausch(op, W)
  BY BringtUrteil DEF SchreibeTausch, Urteil, PlatzInv
<1>2. spiel' = Umbesetzt(op) /\ Umbesetzbar(op, W)
  BY <1>1 DEF SchreibeTausch, UrteilTausch
<1>3. /\ zeile'[op.t] = [zeile[op.t] EXCEPT !.gruppe = op.gt]
      /\ zeile'[op.u] = [zeile[op.u] EXCEPT !.gruppe = op.gu]
  BY TauschHaeltGroesse DEF PlatzInv
<1> HIDE DEF op, W
<1>4. k \in DOMAIN op.seiten => spiel'[k] = [spiel[k] EXCEPT !.seiten = op.seiten[k]]
  BY <1>2, UmbesetztTyp DEF PlatzInv
<1>5. k \notin DOMAIN op.seiten => spiel'[k] = spiel[k]
  BY <1>2, UmbesetztTyp DEF PlatzInv
<1>6. k \in DOMAIN op.seiten /\ t \in op.seiten[k] \ spiel[k].seiten
  BY <1>4, <1>5 DEF PlatzInv, TypeOK
<1>7. t \in {op.t, op.u} /\ ~zeile[t].austritt
  BY <1>1, <1>6 DEF UrteilTausch
<1> QED BY <1>3, <1>7 DEF PlatzInv, TypeOK

LEMMA CommitLaesstErgebnisse ==
  ASSUME PlatzInv, NEW a \in Akteure, Schreibe(a),
         NEW k \in DOMAIN spiel, k \in DOMAIN spiel', HatStattgefunden(k)
  PROVE  spiel'[k].seiten = spiel[k].seiten
<1> DEFINE op == tx[a].op
           W == tx[a].schreibt
<1>i. TypeOK /\ UrteileStimmen
  BY DEF PlatzInv
<1>1. CASE SchreibeTausch(a)
  <2>1. spiel' = Umbesetzt(op) /\ Umbesetzbar(op, W)
    BY <1>1, <1>i, BringtUrteil DEF SchreibeTausch, Urteil, UrteilTausch
  <2> HIDE DEF op, W
  <2> QED BY <1>i, <2>1, UmbesetztTyp DEF Umbesetzbar
<1>2. CASE SchreibeErsatz(a)
  <2>1. spiel' = Umbesetzt(op) /\ Umbesetzbar(op, W)
    BY <1>2, <1>i, BringtUrteil DEF SchreibeErsatz, Urteil, UrteilErsatz
  <2> HIDE DEF op, W
  <2> QED BY <1>i, <2>1, UmbesetztTyp DEF Umbesetzbar
<1>3. CASE SchreibeZiehung(a)
  BY <1>3, <1>i, BringtUrteil DEF SchreibeZiehung, Urteil, UrteilZiehung
<1>4. CASE SchreibeLoeschung(a)
  BY <1>4 DEF SchreibeLoeschung
<1>5. CASE SchreibeSpiel(a)
  <2>1. spiel' = [spiel EXCEPT ![op.k].stand = op.stand]
    BY <1>5 DEF SchreibeSpiel
  <2> HIDE DEF op
  <2> QED BY <1>i, <2>1 DEF TypeOK
<1>6. CASE spiel' = spiel
  BY <1>6
<1> QED BY <1>1, <1>2, <1>3, <1>4, <1>5, <1>6 DEF Schreibe, SchreibeEintritt, SchreibeWechsel,
    SchreibeAustritt, SchreibeRuhestand, SchreibeRueckkehr, SchreibeRegeln, SchreibeStatus

\* No result changes hands and no swap fields a club that has left, for any number of
\* overlapping requests: a swap or a replacement writes every fixture it judged open
\* and the rows whose exits it judged.
THEOREM NurOffenesWirdUmbesetzt == Spec => UmbesetztWirdNurOffenes
<1>1. ASSUME PlatzInv, [Next]_vars
      PROVE  [ErgebnisBleibtBeiSeinenTeams /\ TauschSetztNiemandAusgetretenen]_vars
  <2>1. ASSUME NEW a \in Akteure, Beginne(a) \/ Abbruch(a) PROVE spiel' = spiel
    BY <2>1 DEF Beginne, Beginnt, Abbruch, daten, BeginneEintritt, BeginneWechsel, BeginneAustritt,
       BeginneRuhestand, BeginneRueckkehr, BeginneTausch, BeginneErsatz, BeginneRegeln,
       BeginneZiehung, BeginneLoeschung, BeginneSpiel, BeginneAktivierung, BeginneAbschluss
  <2>2. ASSUME Next PROVE ErgebnisBleibtBeiSeinenTeams
    BY <1>1, <2>1, <2>2, CommitLaesstErgebnisse DEF Next, ErgebnisBleibtBeiSeinenTeams
  <2>3. TauschSetztNiemandAusgetretenen
    BY <1>1, TauschTrifftNiemand DEF TauschSetztNiemandAusgetretenen
  <2> QED BY <1>1, <2>2, <2>3
<1> QED BY <1>1, PlatzAnfang, PlatzSchritt, PTL DEF Spec, UmbesetztWirdNurOffenes


-----------------------------------------------------------------------------
(* The round robins, where the requests of a history run one after the other.
   One transaction is open at a time, so what it read is what stands; a swap
   and a replacement then rename two clubs everywhere at once, in the rows and
   in the fixtures, and a renamed round robin is one of the renamed groups. *)

NurEiner ==
  ~betrieb.zugleich =>
    \A a \in Akteure, b \in Akteure : tx[a] # Frei /\ tx[b] # Frei => a = b

\* What an open transaction carries is what its documents say.
Gelesen(op) ==
  /\ op.art = "tausch" =>
       op.seiten = [k \in SpieleVon(op.t) \cup SpieleVon(op.u) |->
                      Getauscht(spiel[k].seiten, op.t, op.u)]
  /\ op.art = "ersatz" =>
       op.seiten = [k \in SpieleVon(op.t) |-> Ersetzt(spiel[k].seiten, op.t, op.u)]
  /\ op.art = "ziehen" => op.runden = Runden(op.r)

RundenInv ==
  /\ PlatzInv
  /\ NurEiner
  /\ ~betrieb.zugleich => \A a \in Akteure : Gelesen(tx[a].op)
  /\ GruppenSindRunden

LEMMA PaareHeissen ==
  ASSUME NEW S, IsFiniteSet(S), NEW p
  PROVE  p \in Paare(S) <=> \E x \in S, y \in S : x # y /\ p = {x, y}
<1>1. ASSUME p \in Paare(S) PROVE \E x \in S, y \in S : x # y /\ p = {x, y}
  <2>1. p \in SUBSET S /\ Cardinality(p) = 2
    BY <1>1 DEF Paare
  <2>2. IsFiniteSet(p) /\ p # {}
    BY <2>1, FS_Subset, FS_EmptySet
  <2>3. PICK x \in p : TRUE
    BY <2>2
  <2>4. IsFiniteSet(p \ {x}) /\ Cardinality(p \ {x}) = 1
    BY <2>1, <2>2, <2>3, FS_RemoveElement
  <2>5. PICK y : p \ {x} = {y}
    BY <2>4, FS_Singleton
  <2> QED BY <2>1, <2>3, <2>5
<1>2. ASSUME NEW x \in S, NEW y \in S, x # y, p = {x, y} PROVE p \in Paare(S)
  <2>1. IsFiniteSet({x}) /\ Cardinality({x}) = 1
    BY FS_Singleton
  <2>2. Cardinality({x} \cup {y}) = 2
    BY <1>2, <2>1, FS_AddElement
  <2>3. {x} \cup {y} = p
    BY <1>2
  <2> QED BY <1>2, <2>2, <2>3 DEF Paare
<1> QED BY <1>1, <1>2

\* Two clubs meet in the group phase when they stand in one group on offer.
LEMMA RundenHeissen ==
  ASSUME NEW r, NEW p
  PROVE  p \in Runden(r) <=>
           \E x \in Teams, y \in Teams :
             /\ x # y /\ p = {x, y}
             /\ zeile[x].gruppe = zeile[y].gruppe /\ zeile[x].gruppe \in Angebotene(r)
<1>1. \A g : p \in Paare(Besetzung(g)) <=>
               \E x \in Besetzung(g), y \in Besetzung(g) : x # y /\ p = {x, y}
  BY BesetzungEndlich, PaareHeissen
<1>2. p \in Runden(r) <=> \E g \in Angebotene(r) : p \in Paare(Besetzung(g))
  BY DEF Runden
<1> QED BY <1>1, <1>2 DEF Besetzung

LEMMA RundenHeissenDanach ==
  ASSUME NEW r, NEW p
  PROVE  p \in Runden(r)' <=>
           \E x \in Teams, y \in Teams :
             /\ x # y /\ p = {x, y}
             /\ zeile'[x].gruppe = zeile'[y].gruppe /\ zeile'[x].gruppe \in Angebotene(r)
<1>1. ASSUME NEW g PROVE IsFiniteSet(Besetzung(g)')
  BY TeamsAssumption, FS_Subset DEF Besetzung
<1>2. \A g : p \in Paare(Besetzung(g)') <=>
               \E x \in Besetzung(g)', y \in Besetzung(g)' : x # y /\ p = {x, y}
  BY <1>1, PaareHeissen
<1>3. p \in Runden(r)' <=> \E g \in Angebotene(r) : p \in Paare(Besetzung(g)')
  BY DEF Runden, Paare, Angebotene
<1> QED BY <1>2, <1>3 DEF Besetzung

LEMMA GetauschtZweimal ==
  ASSUME NEW S, NEW t, NEW u
  PROVE  Getauscht(Getauscht(S, t, u), t, u) = S
BY DEF Getauscht

LEMMA GetauschtOhneBeide ==
  ASSUME NEW S, NEW t, NEW u, t \notin S, u \notin S
  PROVE  Getauscht(S, t, u) = S
BY DEF Getauscht

LEMMA GetauschtIstErsetzt ==
  ASSUME NEW S, NEW t, NEW u, u \notin S
  PROVE  Getauscht(S, t, u) = Ersetzt(S, t, u)
BY DEF Getauscht, Ersetzt

Umbenannt(x, t, u) == IF x = t THEN u ELSE IF x = u THEN t ELSE x

LEMMA GetauschtesPaar ==
  ASSUME NEW x, NEW y, NEW t, NEW u
  PROVE  Getauscht({x, y}, t, u) = {Umbenannt(x, t, u), Umbenannt(y, t, u)}
BY DEF Getauscht, Umbenannt

\* Two clubs renamed in every group: the round robins are renamed with them.
LEMMA UmbenannteRunden ==
  ASSUME NEW t \in Teams, NEW u \in Teams, t # u, NEW r,
         zeile'[t].gruppe = zeile[u].gruppe, zeile'[u].gruppe = zeile[t].gruppe,
         \A z \in Teams \ {t, u} : zeile'[z].gruppe = zeile[z].gruppe
  PROVE  Runden(r)' = {Getauscht(p, t, u) : p \in Runden(r)}
<1> DEFINE s(x) == Umbenannt(x, t, u)
<1>1. \A x \in Teams : s(x) \in Teams /\ s(s(x)) = x /\ zeile'[s(x)].gruppe = zeile[x].gruppe
  BY DEF Umbenannt
<1>2. \A x, y : Getauscht({x, y}, t, u) = {s(x), s(y)}
  BY GetauschtesPaar
<1> HIDE DEF s
<1>3. ASSUME NEW p \in Runden(r) PROVE Getauscht(p, t, u) \in Runden(r)'
  <2>1. PICK x \in Teams, y \in Teams :
          /\ x # y /\ p = {x, y}
          /\ zeile[x].gruppe = zeile[y].gruppe /\ zeile[x].gruppe \in Angebotene(r)
    BY RundenHeissen
  <2>2. /\ s(x) \in Teams /\ s(y) \in Teams /\ s(x) # s(y)
        /\ zeile'[s(x)].gruppe = zeile'[s(y)].gruppe /\ zeile'[s(x)].gruppe \in Angebotene(r)
        /\ Getauscht(p, t, u) = {s(x), s(y)}
    BY <1>1, <1>2, <2>1
  <2> QED BY <2>2, RundenHeissenDanach
<1>4. ASSUME NEW q \in Runden(r)' PROVE \E p \in Runden(r) : q = Getauscht(p, t, u)
  <2>1. PICK x \in Teams, y \in Teams :
          /\ x # y /\ q = {x, y}
          /\ zeile'[x].gruppe = zeile'[y].gruppe /\ zeile'[x].gruppe \in Angebotene(r)
    BY RundenHeissenDanach
  <2>2. /\ s(x) \in Teams /\ s(y) \in Teams /\ s(x) # s(y)
        /\ zeile[s(x)].gruppe = zeile[s(y)].gruppe /\ zeile[s(x)].gruppe \in Angebotene(r)
    <3>1. zeile'[s(s(x))].gruppe = zeile[s(x)].gruppe /\ zeile'[s(s(y))].gruppe = zeile[s(y)].gruppe
      BY <1>1
    <3> QED BY <1>1, <2>1, <3>1
  <2>3. {s(x), s(y)} \in Runden(r)
    BY <2>2, RundenHeissen
  <2>4. Getauscht({s(x), s(y)}, t, u) = q
    BY <1>1, <1>2, <2>1
  <2> QED BY <2>3, <2>4
<1> QED BY <1>3, <1>4


\* The fixtures of the groups are their round robins.
SindRunden ==
  LET gruppenspiele == DOMAIN spiel \ {Endspiel} IN
  /\ {spiel[k].seiten : k \in gruppenspiele} = Runden(regeln)
  /\ \A k, l \in gruppenspiele : spiel[k].seiten = spiel[l].seiten => k = l

\* Two clubs renamed in the rows and in every fixture of a group.
LEMMA UmbenanntBleibenRunden ==
  ASSUME SindRunden, NEW t \in Teams, NEW u \in Teams, t # u, regeln' = regeln,
         zeile'[t].gruppe = zeile[u].gruppe, zeile'[u].gruppe = zeile[t].gruppe,
         \A z \in Teams \ {t, u} : zeile'[z].gruppe = zeile[z].gruppe,
         DOMAIN spiel' = DOMAIN spiel,
         \A k \in DOMAIN spiel \ {Endspiel} :
           spiel'[k].seiten = Getauscht(spiel[k].seiten, t, u)
  PROVE  SindRunden'
<1> DEFINE G == DOMAIN spiel \ {Endspiel}
<1>1. {spiel[k].seiten : k \in G} = Runden(regeln)
  BY DEF SindRunden
<1>2. PICK r : r = regeln /\ regeln' = r
  OBVIOUS
<1>3. Runden(r)' = {Getauscht(p, t, u) : p \in Runden(r)}
  BY UmbenannteRunden
<1>4. {spiel'[k].seiten : k \in G} = {Getauscht(p, t, u) : p \in {spiel[k].seiten : k \in G}}
  OBVIOUS
<1>5. {spiel'[k].seiten : k \in G} = Runden(r)'
  BY <1>1, <1>2, <1>3, <1>4
<1>6. ASSUME NEW k \in G, NEW l \in G, spiel'[k].seiten = spiel'[l].seiten PROVE k = l
  <2>1. Getauscht(spiel[k].seiten, t, u) = Getauscht(spiel[l].seiten, t, u)
    BY <1>6
  <2>2. spiel[k].seiten = spiel[l].seiten
    BY <2>1, GetauschtZweimal
  <2> QED BY <2>2 DEF SindRunden
<1> QED BY <1>2, <1>5, <1>6, Zenon DEF SindRunden, Endspiel


\* A fixture of the round robins fields two entered clubs.
LEMMA SpieltGemeldet ==
  ASSUME PlatzInv, SindRunden, NEW k \in DOMAIN spiel \ {Endspiel}, NEW x \in spiel[k].seiten
  PROVE  x \in Teams /\ Gemeldet(x)
<1>1. spiel[k].seiten \in Runden(regeln)
  BY DEF SindRunden
<1>2. Angebotene(regeln) \subseteq Nat \ {0}
  BY RegelwerkTyp DEF PlatzInv, TypeOK
<1> QED BY <1>1, <1>2, RundenHeissen DEF Gemeldet

LEMMA TauschHaeltRunden ==
  ASSUME PlatzInv, SindRunden, NEW a \in Akteure, SchreibeTausch(a), Gelesen(tx[a].op)
  PROVE  SindRunden'
<1> DEFINE op == tx[a].op
           W == tx[a].schreibt
<1>1. UrteilTausch(op, W) /\ op.art = "tausch"
  BY BringtUrteil DEF SchreibeTausch, Urteil, PlatzInv
<1>2. spiel' = Umbesetzt(op) /\ Umbesetzbar(op, W) /\ regeln' = regeln
  BY <1>1 DEF SchreibeTausch, UrteilTausch
<1>3. /\ \A z \in Teams \ {op.t, op.u} : zeile'[z] = zeile[z]
      /\ zeile'[op.t] = [zeile[op.t] EXCEPT !.gruppe = op.gt]
      /\ zeile'[op.u] = [zeile[op.u] EXCEPT !.gruppe = op.gu]
  BY TauschHaeltGroesse DEF PlatzInv
<1>4. op.seiten = [k \in SpieleVon(op.t) \cup SpieleVon(op.u) |->
                     Getauscht(spiel[k].seiten, op.t, op.u)]
  BY <1>1 DEF Gelesen
<1> HIDE DEF op, W
<1>5. PICK t, u : t = op.t /\ u = op.u
  OBVIOUS
<1>6. /\ t \in Teams /\ u \in Teams /\ t # u
      /\ op.gu = zeile[t].gruppe /\ op.gt = zeile[u].gruppe
  BY <1>1, <1>5 DEF UrteilTausch
<1>7. zeile'[t].gruppe = zeile[u].gruppe /\ zeile'[u].gruppe = zeile[t].gruppe
  BY <1>3, <1>5, <1>6 DEF PlatzInv, TypeOK
<1>8. ASSUME NEW k \in DOMAIN spiel \ {Endspiel}
      PROVE  spiel'[k].seiten = Getauscht(spiel[k].seiten, t, u)
  <2>1. CASE k \in SpieleVon(t) \cup SpieleVon(u)
    <3>1. k \in DOMAIN op.seiten /\ op.seiten[k] = Getauscht(spiel[k].seiten, t, u)
      BY <1>4, <1>5, <2>1
    <3>2. spiel'[k] = [spiel[k] EXCEPT !.seiten = op.seiten[k]]
      BY <1>2, <3>1, UmbesetztTyp DEF PlatzInv
    <3> QED BY <3>1, <3>2 DEF PlatzInv, TypeOK
  <2>2. CASE k \notin SpieleVon(t) \cup SpieleVon(u)
    <3>1. k \notin DOMAIN op.seiten
      BY <1>4, <1>5, <2>2
    <3>2. spiel'[k] = spiel[k]
      BY <1>2, <3>1, UmbesetztTyp DEF PlatzInv
    <3>3. t \notin spiel[k].seiten /\ u \notin spiel[k].seiten
      BY <2>2 DEF SpieleVon
    <3> QED BY <3>2, <3>3, GetauschtOhneBeide
  <2> QED BY <2>1, <2>2
<1>9. DOMAIN spiel' = DOMAIN spiel
  BY <1>2 DEF Umbesetzt
<1>10. \A z \in Teams \ {t, u} : zeile'[z].gruppe = zeile[z].gruppe
  BY <1>3, <1>5
<1> QED BY <1>2, <1>6, <1>7, <1>8, <1>9, <1>10, UmbenanntBleibenRunden

LEMMA ErsatzHaeltRunden ==
  ASSUME PlatzInv, SindRunden, NEW a \in Akteure, SchreibeErsatz(a), Gelesen(tx[a].op)
  PROVE  SindRunden'
<1> DEFINE op == tx[a].op
           W == tx[a].schreibt
<1>1. UrteilErsatz(op, W) /\ op.art = "ersatz"
  BY BringtUrteil DEF SchreibeErsatz, Urteil, PlatzInv
<1>2. spiel' = Umbesetzt(op) /\ Umbesetzbar(op, W) /\ regeln' = regeln
  BY <1>1 DEF SchreibeErsatz, UrteilErsatz
<1>3. /\ \A z \in Teams \ {op.t, op.u} : zeile'[z] = zeile[z]
      /\ zeile'[op.t] = [gruppe |-> 0, austritt |-> FALSE]
      /\ zeile'[op.u] = [gruppe |-> op.g, austritt |-> FALSE]
  BY ErsatzHaeltGroesse DEF PlatzInv
<1>4. op.seiten = [k \in SpieleVon(op.t) |-> Ersetzt(spiel[k].seiten, op.t, op.u)]
  BY <1>1 DEF Gelesen
<1> HIDE DEF op, W
<1>5. PICK t, u : t = op.t /\ u = op.u
  OBVIOUS
<1>6. /\ t \in Teams /\ u \in Teams /\ t # u
      /\ op.g = zeile[t].gruppe /\ zeile[u].gruppe = 0
  BY <1>1, <1>5 DEF UrteilErsatz, Gemeldet
<1>7. zeile'[t].gruppe = zeile[u].gruppe /\ zeile'[u].gruppe = zeile[t].gruppe
  BY <1>3, <1>5, <1>6
<1>8. ASSUME NEW k \in DOMAIN spiel \ {Endspiel}
      PROVE  spiel'[k].seiten = Getauscht(spiel[k].seiten, t, u)
  <2>0. u \notin spiel[k].seiten
    BY <1>6, <1>8, SpieltGemeldet DEF Gemeldet
  <2>1. CASE k \in SpieleVon(t)
    <3>1. k \in DOMAIN op.seiten /\ op.seiten[k] = Ersetzt(spiel[k].seiten, t, u)
      BY <1>4, <1>5, <2>1
    <3>2. spiel'[k] = [spiel[k] EXCEPT !.seiten = op.seiten[k]]
      BY <1>2, <3>1, UmbesetztTyp DEF PlatzInv
    <3>3. spiel'[k].seiten = op.seiten[k]
      BY <3>2 DEF PlatzInv, TypeOK
    <3> QED BY <2>0, <3>1, <3>3, GetauschtIstErsetzt
  <2>2. CASE k \notin SpieleVon(t)
    <3>1. k \notin DOMAIN op.seiten
      BY <1>4, <1>5, <2>2
    <3>2. spiel'[k] = spiel[k]
      BY <1>2, <3>1, UmbesetztTyp DEF PlatzInv
    <3>3. t \notin spiel[k].seiten
      BY <2>2 DEF SpieleVon
    <3> QED BY <2>0, <3>2, <3>3, GetauschtOhneBeide
  <2> QED BY <2>1, <2>2
<1>9. DOMAIN spiel' = DOMAIN spiel
  BY <1>2 DEF Umbesetzt
<1>10. \A z \in Teams \ {t, u} : zeile'[z].gruppe = zeile[z].gruppe
  BY <1>3, <1>5
<1> QED BY <1>2, <1>6, <1>7, <1>8, <1>9, <1>10, UmbenanntBleibenRunden

\* Rows that keep their groups keep the round robins of any shape.
LEMMA RundenBleiben ==
  ASSUME NEW r, \A z \in Teams : zeile'[z].gruppe = zeile[z].gruppe
  PROVE  Runden(r)' = Runden(r)
<1>1. ASSUME NEW p \in Runden(r) PROVE p \in Runden(r)'
  <2>1. PICK x \in Teams, y \in Teams :
          /\ x # y /\ p = {x, y}
          /\ zeile[x].gruppe = zeile[y].gruppe /\ zeile[x].gruppe \in Angebotene(r)
    BY RundenHeissen
  <2>2. zeile'[x].gruppe = zeile'[y].gruppe /\ zeile'[x].gruppe \in Angebotene(r)
    BY <2>1
  <2> QED BY <2>1, <2>2, RundenHeissenDanach
<1>2. ASSUME NEW p \in Runden(r)' PROVE p \in Runden(r)
  <2>1. PICK x \in Teams, y \in Teams :
          /\ x # y /\ p = {x, y}
          /\ zeile'[x].gruppe = zeile'[y].gruppe /\ zeile'[x].gruppe \in Angebotene(r)
    BY RundenHeissenDanach
  <2>2. zeile[x].gruppe = zeile[y].gruppe /\ zeile[x].gruppe \in Angebotene(r)
    BY <2>1
  <2> QED BY <2>1, <2>2, RundenHeissen
<1> QED BY <1>1, <1>2

\* Rows that keep their groups, rules and sides that stay: the round robins stay.
LEMMA RundenStehen ==
  ASSUME SindRunden, regeln' = regeln, DOMAIN spiel' = DOMAIN spiel,
         \A k \in DOMAIN spiel : spiel'[k].seiten = spiel[k].seiten,
         \A z \in Teams : zeile'[z].gruppe = zeile[z].gruppe
  PROVE  SindRunden'
<1>1. PICK r : r = regeln /\ regeln' = r
  OBVIOUS
<1>2. Runden(r)' = Runden(r)
  BY RundenBleiben
<1>3. {spiel'[k].seiten : k \in DOMAIN spiel \ {Endspiel}}
        = {spiel[k].seiten : k \in DOMAIN spiel \ {Endspiel}}
  OBVIOUS
<1>4. {spiel'[k].seiten : k \in DOMAIN spiel \ {Endspiel}} = Runden(r)'
  BY <1>1, <1>2, <1>3 DEF SindRunden
<1>5. \A k, l \in DOMAIN spiel \ {Endspiel} : spiel'[k].seiten = spiel'[l].seiten => k = l
  BY DEF SindRunden
<1> QED BY <1>1, <1>4, <1>5, Zenon DEF SindRunden, Endspiel

\* The round robins a draw inserts.
LEMMA ZiehungZiehtRunden ==
  ASSUME PlatzInv, NEW a \in Akteure, SchreibeZiehung(a), Gelesen(tx[a].op)
  PROVE  SindRunden'
<1> DEFINE op == tx[a].op
<1>1. op.runden = Runden(op.r)
  BY BringtUrteil DEF SchreibeZiehung, PlatzInv, Gelesen
<1>2. /\ spiel' = [k \in op.runden \cup {Endspiel} |-> [seiten |-> k, stand |-> "offen"]]
      /\ regeln' = op.r /\ zeile' = zeile
  BY DEF SchreibeZiehung
<1> HIDE DEF op
<1>3. PICK r : r = op.r
  OBVIOUS
<1>4. Runden(r)' = Runden(r)
  BY <1>2, RundenBleiben
<1>5. Endspiel \notin Runden(r)
  BY RundenHeissen DEF Endspiel
<1>6. DOMAIN spiel' \ {Endspiel} = Runden(r)
  BY <1>1, <1>2, <1>3, <1>5
<1>7. \A k \in Runden(r) : spiel'[k].seiten = k
  BY <1>1, <1>2, <1>3
<1>8. {spiel'[k].seiten : k \in Runden(r)} = Runden(r)
  BY <1>7
<1>9. \A k, l \in Runden(r) : spiel'[k].seiten = spiel'[l].seiten => k = l
  BY <1>7
<1>10. regeln' = r
  BY <1>2, <1>3
<1> QED BY <1>4, <1>6, <1>8, <1>9, <1>10, Zenon DEF SindRunden, Endspiel


\* What an operation carries from its snapshot, as its handler read it.
LEMMA BeginneLiest ==
  ASSUME NEW a \in Akteure, Beginne(a)
  PROVE  \E op, W : Beginnt(a, op, W) /\ Gelesen(op)
<1>1. ASSUME NEW t \in Teams, NEW u \in Teams, BeginneTausch(a, t, u)
      PROVE  \E op, W : Beginnt(a, op, W) /\ Gelesen(op)
  <2> DEFINE S == [k \in SpieleVon(t) \cup SpieleVon(u) |-> Getauscht(spiel[k].seiten, t, u)]
             op == [art |-> "tausch", t |-> t, u |-> u,
                    gt |-> zeile[u].gruppe, gu |-> zeile[t].gruppe, seiten |-> S]
  <2>1. Beginnt(a, op, SchreibtTausch(t, u))
    BY <1>1 DEF BeginneTausch
  <2>2. op.art = "tausch" /\ op.t = t /\ op.u = u /\ op.seiten = S
    OBVIOUS
  <2> HIDE DEF op
  <2>3. Gelesen(op)
    BY <2>2 DEF Gelesen
  <2> QED BY <2>1, <2>3
<1>2. ASSUME NEW t \in Teams, NEW u \in Teams, BeginneErsatz(a, t, u)
      PROVE  \E op, W : Beginnt(a, op, W) /\ Gelesen(op)
  <2> DEFINE S == [k \in SpieleVon(t) |-> Ersetzt(spiel[k].seiten, t, u)]
             op == [art |-> "ersatz", t |-> t, u |-> u, g |-> zeile[t].gruppe, seiten |-> S]
  <2>1. Beginnt(a, op, SchreibtErsatz(t, u))
    BY <1>2 DEF BeginneErsatz
  <2>2. op.art = "ersatz" /\ op.t = t /\ op.u = u /\ op.seiten = S
    OBVIOUS
  <2> HIDE DEF op
  <2>3. Gelesen(op)
    BY <2>2 DEF Gelesen
  <2> QED BY <2>1, <2>3
<1>3. ASSUME NEW r \in Regelwerke, NEW ersetzt \in BOOLEAN, BeginneZiehung(a, r, ersetzt)
      PROVE  \E op, W : Beginnt(a, op, W) /\ Gelesen(op)
  <2> DEFINE op == [art |-> "ziehen", r |-> r, runden |-> Runden(r)]
  <2>1. Beginnt(a, op, SchreibtPlan)
    BY <1>3 DEF BeginneZiehung
  <2>2. op.art = "ziehen" /\ op.r = r /\ op.runden = Runden(r)
    OBVIOUS
  <2> HIDE DEF op
  <2>3. Gelesen(op)
    BY <2>2 DEF Gelesen
  <2> QED BY <2>1, <2>3
<1>4. ASSUME NEW op, NEW W, Beginnt(a, op, W), op.art \notin {"tausch", "ersatz", "ziehen"}
      PROVE  \E o, V : Beginnt(a, o, V) /\ Gelesen(o)
  <2>1. Gelesen(op)
    BY <1>4 DEF Gelesen
  <2> QED BY <1>4, <2>1
<1>5. ASSUME NEW t \in Teams, NEW g, BeginneEintritt(a, t, g) \/ BeginneWechsel(a, t, g)
      PROVE  \E op, W : Beginnt(a, op, W) /\ op.art \notin {"tausch", "ersatz", "ziehen"}
  <2> DEFINE o(art) == [art |-> art, t |-> t, g |-> g]
  <2>1. \A art : o(art).art = art
    OBVIOUS
  <2>2. \E art \in {"eintritt", "wechsel"} : \E W : Beginnt(a, o(art), W)
    BY <1>5, Zenon DEF BeginneEintritt, BeginneWechsel
  <2> HIDE DEF o
  <2> QED BY <2>1, <2>2
<1>6. ASSUME NEW t \in Teams,
             BeginneAustritt(a, t) \/ BeginneRuhestand(a, t) \/ BeginneRueckkehr(a, t)
      PROVE  \E op, W : Beginnt(a, op, W) /\ op.art \notin {"tausch", "ersatz", "ziehen"}
  <2> DEFINE o(art) == [art |-> art, t |-> t]
             p == [art |-> "austritt", t |-> t, wert |-> ~zeile[t].austritt]
  <2>1. (\A art : o(art).art = art) /\ p.art = "austritt"
    OBVIOUS
  <2>2. (\E art \in {"ruhestand", "rueckkehr"} : \E W : Beginnt(a, o(art), W)) \/ \E W : Beginnt(a, p, W)
    BY <1>6, Zenon DEF BeginneAustritt, BeginneRuhestand, BeginneRueckkehr
  <2> HIDE DEF o, p
  <2> QED BY <2>1, <2>2
<1>7. ASSUME NEW r \in Regelwerke, BeginneRegeln(a, r)
      PROVE  \E op, W : Beginnt(a, op, W) /\ op.art \notin {"tausch", "ersatz", "ziehen"}
  <2> DEFINE op == [art |-> "regeln", r |-> r]
  <2>1. Beginnt(a, op, {SaisonDok}) /\ op.art = "regeln"
    BY <1>7 DEF BeginneRegeln
  <2> HIDE DEF op
  <2> QED BY <2>1
<1>8. ASSUME NEW k \in DOMAIN spiel, NEW stand \in Staende, BeginneSpiel(a, k, stand)
      PROVE  \E op, W : Beginnt(a, op, W) /\ op.art \notin {"tausch", "ersatz", "ziehen"}
  <2> DEFINE op == [art |-> "spiel", k |-> k, stand |-> stand]
  <2>1. Beginnt(a, op, {SpielDok(k)}) /\ op.art = "spiel"
    BY <1>8 DEF BeginneSpiel
  <2> HIDE DEF op
  <2> QED BY <2>1
<1>9. ASSUME BeginneLoeschung(a) \/ BeginneAktivierung(a) \/ BeginneAbschluss(a)
      PROVE  \E op, W : Beginnt(a, op, W) /\ op.art \notin {"tausch", "ersatz", "ziehen"}
  <2> DEFINE o(neu) == [art |-> "status", neu |-> neu]
             p == [art |-> "loeschen"]
  <2>1. (\A neu : o(neu).art = "status") /\ p.art = "loeschen"
    OBVIOUS
  <2>2. (\E neu, W : Beginnt(a, o(neu), W)) \/ \E W : Beginnt(a, p, W)
    BY <1>9, Zenon DEF BeginneLoeschung, BeginneAktivierung, BeginneAbschluss
  <2> HIDE DEF o, p
  <2> QED BY <2>1, <2>2
<1> QED BY <1>1, <1>2, <1>3, <1>4, <1>5, <1>6, <1>7, <1>8, <1>9, Zenon DEF Beginne

LEMMA BeginneHaeltRunden ==
  ASSUME RundenInv, NEW a \in Akteure, Beginne(a)
  PROVE  RundenInv'
<1>1. PICK op, W : Beginnt(a, op, W) /\ Gelesen(op)
  BY BeginneLiest
<1>2. DOMAIN tx = Akteure /\ UNCHANGED daten /\ betrieb' = betrieb
  BY <1>1 DEF RundenInv, PlatzInv, UrteileStimmen, Beginnt, daten
<1>3. tx'[a] = Bereit(op, W) /\ \A b \in Akteure : b # a => tx'[b] = tx[b]
  BY <1>1, <1>2 DEF Beginnt
<1>4. ~betrieb.zugleich => \A b \in Akteure : tx[b] = Frei
  BY <1>1 DEF Beginnt
<1>5. NurEiner'
  BY <1>2, <1>3, <1>4 DEF NurEiner
<1>6. ASSUME ~betrieb.zugleich, NEW b \in Akteure PROVE Gelesen(tx[b].op)'
  <2>1. CASE b = a
    <3>1. tx'[b].op = op
      BY <1>3, <2>1 DEF Bereit
    <3>2. \A r : Runden(r)' = Runden(r)
      BY <1>2 DEF daten, Runden, Paare, Besetzung, Angebotene
    <3>3. \A t : SpieleVon(t)' = SpieleVon(t)
      BY <1>2 DEF daten, SpieleVon
    <3>4. Gelesen(op)'
      BY <1>1, <1>2, <3>2, <3>3 DEF Gelesen, daten
    <3> QED BY <3>1, <3>4
  <2>2. CASE b # a
    <3>1. tx'[b].op.art = "keiner"
      BY <1>3, <1>4, <1>6, <2>2 DEF Frei, KeinOp
    <3> QED BY <3>1 DEF Gelesen
  <2> QED BY <2>1, <2>2
<1>7. GruppenSindRunden'
  BY <1>2 DEF RundenInv, GruppenSindRunden, daten, Runden, Paare, Besetzung, Angebotene, Endspiel
<1> QED BY <1>2, <1>5, <1>6, <1>7, BeginneWahrt DEF RundenInv

\* The only open transaction ends.
LEMMA KeinerOffen ==
  ASSUME RundenInv, NEW a \in Akteure, tx[a] # Frei, betrieb' = betrieb,
         DOMAIN tx' = Akteure, tx'[a] = Frei,
         \A b \in Akteure : tx'[b] = Frei \/ tx'[b] = tx[b]
  PROVE  NurEiner' /\ (~betrieb.zugleich => \A b \in Akteure : Gelesen(tx[b].op))'
<1>1. ASSUME ~betrieb.zugleich PROVE \A b \in Akteure : tx'[b] = Frei
  BY <1>1 DEF RundenInv, NurEiner
<1>2. NurEiner'
  BY <1>1 DEF NurEiner
<1>3. ASSUME ~betrieb.zugleich, NEW b \in Akteure PROVE Gelesen(tx[b].op)'
  <2>1. tx'[b].op.art = "keiner"
    BY <1>1, <1>3 DEF Frei, KeinOp
  <2> QED BY <2>1 DEF Gelesen
<1> QED BY <1>2, <1>3

LEMMA CommitSchreibtRunden ==
  ASSUME RundenInv, ~betrieb.zugleich, NEW a \in Akteure, Schreibe(a), DOMAIN spiel' # {}
  PROVE  SindRunden'
<1> DEFINE op == tx[a].op
           W == tx[a].schreibt
<1>i. PlatzInv /\ TypeOK /\ Gelesen(tx[a].op)
  BY DEF RundenInv, PlatzInv
<1>r. DOMAIN spiel # {} => SindRunden
  BY DEF RundenInv, GruppenSindRunden, SindRunden
<1>1. ASSUME SchreibeEintritt(a) \/ SchreibeWechsel(a) PROVE FALSE
  <2>1. HatPlatz(op.g) /\ spiel' = spiel
    BY <1>i, <1>1, BringtUrteil DEF SchreibeEintritt, SchreibeWechsel, Urteil, UrteilEintritt,
       UrteilWechsel, PlatzInv
  <2> QED BY <1>i, <2>1, PlatzHeisstUngezogen DEF PlatzInv, PlaetzeStimmen, Fuellung
<1>2. CASE SchreibeAustritt(a)
  <2>1. /\ zeile' = [zeile EXCEPT ![op.t].austritt = op.wert]
        /\ regeln' = regeln /\ spiel' = spiel
    BY <1>2 DEF SchreibeAustritt
  <2> HIDE DEF op
  <2>2. \A z \in Teams : zeile'[z].gruppe = zeile[z].gruppe
    BY <1>i, <2>1 DEF TypeOK
  <2> QED BY <1>r, <2>1, <2>2, RundenStehen
<1>3. CASE SchreibeTausch(a)
  BY <1>i, <1>r, <1>3, TauschHaeltRunden DEF SchreibeTausch, Umbesetzt
<1>4. CASE SchreibeErsatz(a)
  BY <1>i, <1>r, <1>4, ErsatzHaeltRunden DEF SchreibeErsatz, Umbesetzt
<1>5. CASE SchreibeRuhestand(a) \/ SchreibeRueckkehr(a) \/ SchreibeStatus(a)
  <2>1. zeile' = zeile /\ regeln' = regeln /\ spiel' = spiel
    BY <1>5 DEF SchreibeRuhestand, SchreibeRueckkehr, SchreibeStatus
  <2> QED BY <1>r, <2>1, RundenStehen
<1>6. ASSUME SchreibeRegeln(a) PROVE FALSE
  BY <1>i, <1>6, BringtUrteil DEF SchreibeRegeln, Urteil, UrteilRegeln, PlatzInv
<1>7. CASE SchreibeZiehung(a)
  BY <1>i, <1>7, ZiehungZiehtRunden
<1>8. ASSUME SchreibeLoeschung(a) PROVE FALSE
  BY <1>8 DEF SchreibeLoeschung
<1>9. CASE SchreibeSpiel(a)
  <2>1. /\ spiel' = [spiel EXCEPT ![op.k].stand = op.stand]
        /\ regeln' = regeln /\ zeile' = zeile
    BY <1>9 DEF SchreibeSpiel
  <2> HIDE DEF op
  <2>2. DOMAIN spiel' = DOMAIN spiel
    BY <2>1
  <2>3. ASSUME NEW k \in DOMAIN spiel PROVE spiel'[k].seiten = spiel[k].seiten
    BY <1>i, <2>1, <2>3 DEF TypeOK
  <2> QED BY <1>r, <2>1, <2>2, <2>3, RundenStehen
<1> QED BY <1>1, <1>2, <1>3, <1>4, <1>5, <1>6, <1>7, <1>8, <1>9, Zenon DEF Schreibe

LEMMA RundenSchritt == RundenInv /\ [Next]_vars => RundenInv'
<1>1. ASSUME RundenInv, NEW a \in Akteure, Schreibe(a) PROVE RundenInv'
  <2>0. tx[a].phase = "bereit"
    BY <1>1, Zenon DEF Schreibe, Bringt, SchreibeEintritt, SchreibeWechsel, SchreibeAustritt,
       SchreibeTausch, SchreibeErsatz, SchreibeRuhestand, SchreibeRueckkehr, SchreibeRegeln,
       SchreibeZiehung, SchreibeLoeschung, SchreibeSpiel, SchreibeStatus
  <2>1. tx[a] # Frei /\ betrieb' = betrieb
    BY <1>1, <2>0, SchreibeSchreibt DEF Schreibt, Frei
  <2>2. /\ DOMAIN tx' = Akteure /\ tx'[a] = Frei
        /\ \A b \in Akteure : tx'[b] = Frei \/ tx'[b] = tx[b]
    BY <1>1, SchreibeSchreibt, TxSchreibt DEF RundenInv, PlatzInv
  <2>3. GruppenSindRunden'
    BY <1>1, <2>1, CommitSchreibtRunden DEF GruppenSindRunden, SindRunden
  <2> QED BY <1>1, <2>1, <2>2, <2>3, KeinerOffen, CommitWahrt DEF RundenInv
<1>2. ASSUME RundenInv, NEW a \in Akteure, Abbruch(a) PROVE RundenInv'
  <2>1. /\ tx[a] # Frei /\ UNCHANGED daten /\ betrieb' = betrieb
        /\ DOMAIN tx' = Akteure /\ tx'[a] = Frei
        /\ \A b \in Akteure : tx'[b] = Frei \/ tx'[b] = tx[b]
    BY <1>2 DEF Abbruch, daten, RundenInv, PlatzInv, UrteileStimmen
  <2>2. GruppenSindRunden'
    BY <1>2, <2>1 DEF RundenInv, GruppenSindRunden, daten, Runden, Paare, Besetzung, Angebotene,
       Endspiel
  <2> QED BY <1>2, <2>1, <2>2, KeinerOffen, AbbruchWahrt DEF RundenInv
<1>3. ASSUME RundenInv, UNCHANGED vars PROVE RundenInv'
  <2>1. UNCHANGED daten /\ tx' = tx
    BY <1>3 DEF vars
  <2>2. (~betrieb.zugleich => \A b \in Akteure : Gelesen(tx[b].op))'
    <3>1. \A r : Runden(r)' = Runden(r)
      BY <2>1 DEF daten, Runden, Paare, Besetzung, Angebotene
    <3>2. \A t : SpieleVon(t)' = SpieleVon(t)
      BY <2>1 DEF daten, SpieleVon
    <3> QED BY <1>3, <2>1, <3>1, <3>2 DEF RundenInv, Gelesen, daten
  <2>3. GruppenSindRunden' /\ NurEiner'
    BY <1>3, <2>1 DEF RundenInv, GruppenSindRunden, NurEiner, daten, Runden, Paare, Besetzung,
       Angebotene, Endspiel
  <2> QED BY <1>3, <2>2, <2>3, PlatzSchritt DEF RundenInv
<1> QED BY <1>1, <1>2, <1>3, BeginneHaeltRunden DEF Next

LEMMA RundenAnfang == Init => RundenInv
<1> SUFFICES ASSUME Init PROVE RundenInv
  OBVIOUS
<1>1. \A a \in Akteure : tx[a] = Frei /\ tx[a].op.art = "keiner"
  BY DEF Init, Frei, KeinOp
<1>2. DOMAIN spiel = {}
  BY DEF Init
<1> QED BY <1>1, <1>2, PlatzAnfang DEF RundenInv, NurEiner, Gelesen, GruppenSindRunden

\* In a season whose requests run one after the other the fixtures stay exactly the
\* round robins of its groups, for any number of clubs and of swaps and replacements.
THEOREM GezogenesBleibtRunde == Spec => []GruppenSindRunden
<1>1. RundenInv => GruppenSindRunden
  BY DEF RundenInv
<1> QED BY <1>1, RundenAnfang, RundenSchritt, PTL DEF Spec
=============================================================================
