----------------------------- MODULE SaisonProofs -----------------------------
(***************************************************************************)
(* Proofs about module Saison, for any number of seasons, fixtures,        *)
(* persons and concurrent requests.                                        *)
(***************************************************************************)
EXTENDS Saison, TLAPS

\* What an operation of each kind carries.
LEMMA OpFelder ==
  ASSUME NEW op \in Ops
  PROVE  /\ op.art \in {"anlegen", "regeln", "ziehen"} => op.s \in Saisons /\ op.form \in Formen
         /\ op.art \in {"loeschen", "bericht", "datieren", "spiel", "aktivieren"} => op.s \in Saisons
         /\ op.art \in {"ziehen", "loeschen"} => op.berichte \in SUBSET Nrn
         /\ op.art = "bericht" => op.nr \in Nrn
         /\ op.art = "aktivieren" => /\ op.neu \in BOOLEAN
                                     /\ op.abgeloest \in SUBSET Saisons
                                     /\ op.erloschen \in SUBSET Personen
         /\ op.art = "spiel" => /\ DOMAIN op.staende \in SUBSET Nrn
                                /\ op.staende \in [DOMAIN op.staende -> Staende]
         /\ op.art = "sperren" => op.p \in Personen /\ op.bis \in Nat
         /\ op.art = "entsperren" => op.p \in Personen
<1>1. CASE op \in [art : {"anlegen", "regeln"}, s : Saisons, form : Formen]
  BY <1>1
<1>2. CASE op \in [art : {"ziehen"}, s : Saisons, form : Formen, berichte : SUBSET Nrn]
  BY <1>2
<1>3. CASE op \in [art : {"loeschen"}, s : Saisons, berichte : SUBSET Nrn]
  BY <1>3
<1>4. CASE op \in [art : {"aktivieren"}, s : Saisons, neu : BOOLEAN,
                   abgeloest : SUBSET Saisons, erloschen : SUBSET Personen]
  BY <1>4
<1>5. CASE op \in [art : {"spiel"}, s : Saisons, staende : UNION {[nrn -> Staende] : nrn \in SUBSET Nrn}]
  <2>1. PICK nrn \in SUBSET Nrn : op.staende \in [nrn -> Staende]
    BY <1>5
  <2> QED BY <1>5, <2>1
<1>6. CASE op \in [art : {"bericht"}, s : Saisons, nr : Nrn]
  BY <1>6
<1>7. CASE op \in [art : {"datieren"}, s : Saisons]
  BY <1>7
<1>8. CASE op \in [art : {"sperren"}, p : Personen, bis : Nat]
  BY <1>8
<1>9. CASE op \in [art : {"entsperren"}, p : Personen]
  BY <1>9
<1> QED BY <1>1, <1>2, <1>3, <1>4, <1>5, <1>6, <1>7, <1>8, <1>9 DEF Ops

-----------------------------------------------------------------------------
\* Type correctness.

\* Opening a transaction keeps the actors' records in shape.
LEMMA TxBeginnt ==
  ASSUME TypeOK, NEW a \in Akteure, NEW op \in Ops, NEW W,
         Beginnt(a, op, W) \/ BeginntMitNachfrage(a, op, W)
  PROVE  TypeOK'
<1>1. tx' = [tx EXCEPT ![a] = Bereit(op, W)] \/ tx' = [tx EXCEPT ![a] = Offen(op, W)]
  BY DEF Beginnt, BeginntMitNachfrage
<1>2. DOMAIN tx' = Akteure /\ \A b \in Akteure : b # a => tx'[b] = tx[b]
  BY <1>1 DEF TypeOK
<1>3. tx'[a].phase \in {"offen", "bereit"} /\ tx'[a].op = op
  BY <1>1 DEF TypeOK, Bereit, Offen
<1>4. TxTyp'
  BY <1>2, <1>3 DEF TypeOK, TxTyp
<1>5. UNCHANGED daten
  BY DEF Beginnt, BeginntMitNachfrage
<1> QED BY <1>2, <1>4, <1>5 DEF TypeOK, daten

\* So does a commit, which frees some of them.
LEMMA TxSchreibt ==
  ASSUME TypeOK, NEW a \in Akteure, Schreibt(a)
  PROVE  /\ DOMAIN tx' = Akteure
         /\ TxTyp'
         /\ tx'[a] = Frei
         /\ \A b \in Akteure : tx'[b] = Frei \/ (tx'[b] = tx[b] /\ ~Kollidiert(tx[a], tx[b]))
<1>1. tx' = [b \in Akteure |-> IF b = a \/ Kollidiert(tx[a], tx[b]) THEN Frei ELSE tx[b]]
  BY DEF Schreibt, Festgeschrieben, TypeOK
<1> QED BY <1>1 DEF TypeOK, TxTyp

\* An actor about to commit holds an operation of its kind.
LEMMA BringtOp ==
  ASSUME TypeOK, NEW a \in Akteure, NEW art, Bringt(a, art)
  PROVE  tx[a].op \in Ops /\ tx[a].op.art = art
<1>1. tx[a] # Frei
  BY DEF Bringt, Frei
<1> QED BY <1>1 DEF Bringt, TypeOK, TxTyp

LEMMA TypErhalten ==
  ASSUME TypeOK, [Next]_vars
  PROVE  TypeOK'
<1>1. CASE UNCHANGED vars
  BY <1>1 DEF vars, daten, TypeOK, TxTyp
<1>2. ASSUME NEW a \in Akteure, Beginne(a)
      PROVE  TypeOK'
  <2>1. ASSUME NEW s \in Saisons, NEW form \in Formen,
               BeginneAnlegen(a, s, form) \/ BeginneRegeln(a, s, form)
        PROVE  TypeOK'
    <3>1. [art |-> "anlegen", s |-> s, form |-> form] \in Ops
      BY DEF Ops
    <3>2. [art |-> "regeln", s |-> s, form |-> form] \in Ops
      BY DEF Ops
    <3> QED BY <2>1, <3>1, <3>2, TxBeginnt DEF BeginneAnlegen, BeginneRegeln
  <2>2. ASSUME NEW s \in Saisons, NEW form \in Formen, NEW ersetzt \in BOOLEAN,
               BeginneZiehung(a, s, form, ersetzt)
        PROVE  TypeOK'
    <3>1. [art |-> "ziehen", s |-> s, form |-> form, berichte |-> Berichte(s)] \in Ops
      BY DEF Ops, Berichte
    <3> QED BY <2>2, <3>1, TxBeginnt DEF BeginneZiehung
  <2>3. ASSUME NEW s \in Saisons, BeginneLoeschung(a, s)
        PROVE  TypeOK'
    <3>1. [art |-> "loeschen", s |-> s, berichte |-> Berichte(s)] \in Ops
      BY DEF Ops, Berichte
    <3> QED BY <2>3, <3>1, TxBeginnt DEF BeginneLoeschung
  <2>4. ASSUME NEW s \in Saisons, BeginneAktivierung(a, s)
        PROVE  TypeOK'
    <3> DEFINE op == [art |-> "aktivieren", s |-> s, neu |-> saison[s].status = "future",
                      abgeloest |-> Amtierende(s), erloschen |-> Erloschene(s)]
    <3>1. (saison[s].status = "future") \in BOOLEAN
      OBVIOUS
    <3>2. Amtierende(s) \in SUBSET Saisons /\ Erloschene(s) \in SUBSET Personen
      BY DEF Amtierende, Erloschene
    <3>3. op \in Ops
      BY <3>1, <3>2 DEF Ops
    <3>4. \E W : Beginnt(a, op, W) \/ BeginntMitNachfrage(a, op, W)
      BY <2>4 DEF BeginneAktivierung
    <3> HIDE DEF op
    <3> QED BY <3>3, <3>4, TxBeginnt
  <2>5. ASSUME NEW s \in Saisons, NEW nr \in Nrn, NEW neu \in Staende,
               NEW mit \in SUBSET (KoNrn \ {nr}), BeginneSpielSpeichern(a, s, nr, neu, mit)
        PROVE  TypeOK'
    <3>1. PICK f \in Aufloesungen(s, mit) :
            Beginnt(a, [art |-> "spiel", s |-> s,
                        staende |-> [n \in mit \cup {nr} |-> IF n = nr THEN neu ELSE f[n]]],
                    SchreibtSpiel(s, mit \cup {nr}))
      BY <2>5 DEF BeginneSpielSpeichern
    <3>2. f \in [mit -> Staende] /\ mit \cup {nr} \in SUBSET Nrn
      BY NrnAssumption DEF Aufloesungen
    <3>3. [n \in mit \cup {nr} |-> IF n = nr THEN neu ELSE f[n]] \in [mit \cup {nr} -> Staende]
      BY <3>2
    <3>4. [art |-> "spiel", s |-> s,
           staende |-> [n \in mit \cup {nr} |-> IF n = nr THEN neu ELSE f[n]]] \in Ops
      BY <3>2, <3>3 DEF Ops
    <3> QED BY <3>1, <3>4, TxBeginnt
  <2>6. ASSUME NEW s \in Saisons, NEW nr \in Nrn, BeginneBericht(a, s, nr)
        PROVE  TypeOK'
    <3>1. [art |-> "bericht", s |-> s, nr |-> nr] \in Ops
      BY DEF Ops
    <3> QED BY <2>6, <3>1, TxBeginnt DEF BeginneBericht
  <2>7. ASSUME NEW s \in Saisons, BeginneDatierung(a, s)
        PROVE  TypeOK'
    <3>1. [art |-> "datieren", s |-> s] \in Ops
      BY DEF Ops
    <3> QED BY <2>7, <3>1, TxBeginnt DEF BeginneDatierung
  <2>8. ASSUME NEW s \in Saisons, NEW p \in Personen, BeginneSperre(a, p, s)
        PROVE  TypeOK'
    <3>1. s + SperreDauer \in Nat
      BY SaisonsAssumption, SperreDauerAssumption
    <3>2. [art |-> "sperren", p |-> p, bis |-> s + SperreDauer] \in Ops
      BY <3>1 DEF Ops
    <3> QED BY <2>8, <3>2, TxBeginnt DEF BeginneSperre
  <2>9. ASSUME NEW p \in Personen, BeginneEntsperrung(a, p)
        PROVE  TypeOK'
    <3>1. [art |-> "entsperren", p |-> p] \in Ops
      BY DEF Ops
    <3> QED BY <2>9, <3>1, TxBeginnt DEF BeginneEntsperrung
  <2> QED BY <1>2, <2>1, <2>2, <2>3, <2>4, <2>5, <2>6, <2>7, <2>8, <2>9 DEF Beginne
<1>3. ASSUME NEW a \in Akteure, Schreibe(a)
      PROVE  TypeOK'
  <2> DEFINE op == tx[a].op
  <2>1. CASE SchreibeAnlegen(a)
    <3>1. op \in Ops /\ op.art = "anlegen"
      BY <2>1, BringtOp DEF SchreibeAnlegen
    <3>2. op.s \in Saisons /\ op.form \in Formen
      BY <3>1, OpFelder
    <3>3. saison' \in SaisonTyp
      BY <2>1, <3>2 DEF SchreibeAnlegen, TypeOK, SaisonTyp, Status
    <3> QED BY <2>1, <3>3, TxSchreibt DEF SchreibeAnlegen, TypeOK
  <2>2. CASE SchreibeRegeln(a)
    <3>1. op \in Ops /\ op.art = "regeln"
      BY <2>2, BringtOp DEF SchreibeRegeln
    <3>2. op.s \in Saisons /\ op.form \in Formen
      BY <3>1, OpFelder
    <3>3. saison' \in SaisonTyp
      BY <2>2, <3>2 DEF SchreibeRegeln, TypeOK, SaisonTyp, Status
    <3> QED BY <2>2, <3>3, TxSchreibt DEF SchreibeRegeln, TypeOK
  <2>3. CASE SchreibeZiehung(a)
    <3>1. op \in Ops /\ op.art = "ziehen"
      BY <2>3, BringtOp DEF SchreibeZiehung
    <3>2. op.s \in Saisons /\ op.form \in Formen
      BY <3>1, OpFelder
    <3>3. saison' \in SaisonTyp
      BY <2>3, <3>2 DEF SchreibeZiehung, TypeOK, SaisonTyp, Status
    <3>4. spiel' \in [Saisons \X Nrn -> Staende \cup {"keins"}]
      BY <2>3 DEF SchreibeZiehung, TypeOK, Staende
    <3>5. /\ spieltag' \in [Saisons -> {"keiner", "undatiert", "datiert"}]
          /\ gezogen' \in [Saisons -> Formen \cup {OhneForm}]
      BY <2>3, <3>2 DEF SchreibeZiehung, TypeOK
    <3>6. bericht' \in [Saisons \X Nrn -> BOOLEAN]
      <4>1. bericht' = [k \in Saisons \X Nrn |->
                         bericht[k] /\ ~(k[1] = op.s /\ k[2] \in op.berichte)]
        BY <2>3 DEF SchreibeZiehung, TypeOK
      <4> QED BY <4>1, Zenon
    <3> QED BY <2>3, <3>3, <3>4, <3>5, <3>6, TxSchreibt DEF SchreibeZiehung, TypeOK
  <2>4. CASE SchreibeLoeschung(a)
    <3>1. op \in Ops /\ op.art = "loeschen"
      BY <2>4, BringtOp DEF SchreibeLoeschung
    <3>2. op.s \in Saisons
      BY <3>1, OpFelder
    <3>3. saison' \in SaisonTyp
      BY <2>4, <3>2 DEF SchreibeLoeschung, TypeOK, SaisonTyp, Status
    <3>4. spiel' \in [Saisons \X Nrn -> Staende \cup {"keins"}]
      BY <2>4 DEF SchreibeLoeschung, TypeOK
    <3>5. /\ spieltag' \in [Saisons -> {"keiner", "undatiert", "datiert"}]
          /\ gezogen' \in [Saisons -> Formen \cup {OhneForm}]
      BY <2>4, <3>2 DEF SchreibeLoeschung, TypeOK
    <3>6. bericht' \in [Saisons \X Nrn -> BOOLEAN]
      <4>1. bericht' = [k \in Saisons \X Nrn |->
                         bericht[k] /\ ~(k[1] = op.s /\ k[2] \in op.berichte)]
        BY <2>4 DEF SchreibeLoeschung, TypeOK
      <4> QED BY <4>1, Zenon
    <3> QED BY <2>4, <3>3, <3>4, <3>5, <3>6, TxSchreibt DEF SchreibeLoeschung, TypeOK
  <2>5. CASE SchreibeAktivierung(a)
    <3>1. saison' \in SaisonTyp
      BY <2>5 DEF SchreibeAktivierung, TypeOK, SaisonTyp, Status
    <3>2. sperre' \in [Personen -> Nat]
      BY <2>5 DEF SchreibeAktivierung, TypeOK
    <3> QED BY <2>5, <3>1, <3>2, TxSchreibt DEF SchreibeAktivierung, TypeOK
  <2>6. CASE SchreibeSpiel(a)
    <3>1. op \in Ops /\ op.art = "spiel"
      BY <2>6, BringtOp DEF SchreibeSpiel
    <3>2. op.staende \in [DOMAIN op.staende -> Staende]
      BY <3>1, OpFelder
    <3>3. spiel' \in [Saisons \X Nrn -> Staende \cup {"keins"}]
      BY <2>6, <3>2 DEF SchreibeSpiel, TypeOK
    <3> QED BY <2>6, <3>3, TxSchreibt DEF SchreibeSpiel, TypeOK
  <2>7. CASE SchreibeBericht(a)
    <3>1. bericht' \in [Saisons \X Nrn -> BOOLEAN]
      BY <2>7 DEF SchreibeBericht, TypeOK
    <3> QED BY <2>7, <3>1, TxSchreibt DEF SchreibeBericht, TypeOK
  <2>8. CASE SchreibeDatierung(a)
    <3>1. spieltag' \in [Saisons -> {"keiner", "undatiert", "datiert"}]
      BY <2>8 DEF SchreibeDatierung, TypeOK
    <3> QED BY <2>8, <3>1, TxSchreibt DEF SchreibeDatierung, TypeOK
  <2>9. CASE SchreibeSperre(a)
    <3>1. op \in Ops /\ op.art = "sperren"
      BY <2>9, BringtOp DEF SchreibeSperre
    <3>2. op.bis \in Nat
      BY <3>1, OpFelder
    <3>3. sperre' \in [Personen -> Nat]
      BY <2>9, <3>2 DEF SchreibeSperre, TypeOK
    <3> QED BY <2>9, <3>3, TxSchreibt DEF SchreibeSperre, TypeOK
  <2>10. CASE SchreibeEntsperrung(a)
    <3>1. sperre' \in [Personen -> Nat]
      BY <2>10 DEF SchreibeEntsperrung, TypeOK
    <3> QED BY <2>10, <3>1, TxSchreibt DEF SchreibeEntsperrung, TypeOK
  <2> QED BY <1>3, <2>1, <2>2, <2>3, <2>4, <2>5, <2>6, <2>7, <2>8, <2>9, <2>10 DEF Schreibe
<1>4. ASSUME NEW a \in Akteure, FrageNach(a)
      PROVE  TypeOK'
  <2>1. DOMAIN tx' = Akteure /\ \A b \in Akteure : b # a => tx'[b] = tx[b]
    BY <1>4 DEF FrageNach, TypeOK
  <2>2. tx[a] # Frei
    BY <1>4 DEF FrageNach, Frei
  <2>3. tx'[a].phase = "bereit" /\ tx'[a].op = tx[a].op
    BY <1>4, <2>2 DEF FrageNach, TypeOK, TxTyp
  <2>4. TxTyp'
    BY <2>1, <2>2, <2>3 DEF TypeOK, TxTyp
  <2> QED BY <1>4, <2>1, <2>4 DEF FrageNach, TypeOK, daten
<1>5. ASSUME NEW a \in Akteure, Abbruch(a)
      PROVE  TypeOK'
  <2>1. DOMAIN tx' = Akteure /\ \A b \in Akteure : tx'[b] = Frei \/ tx'[b] = tx[b]
    BY <1>5 DEF Abbruch, TypeOK
  <2>2. TxTyp'
    BY <2>1 DEF TypeOK, TxTyp
  <2> QED BY <1>5, <2>1, <2>2 DEF Abbruch, TypeOK, daten
<1> QED BY <1>1, <1>2, <1>3, <1>4, <1>5 DEF Next

\* Every collection keeps its shape and every open transaction is one of the
\* operations of the handlers (all of saisons/admin_router.py's writes and
\* the writes beside them), whatever interleaves.
THEOREM Typkorrekt == Spec => []TypeOK
<1>1. Init => TypeOK
  BY SaisonsAssumption DEF Init, TypeOK, SaisonTyp, Status, TxTyp
<1>2. TypeOK /\ [Next]_vars => TypeOK'
  BY TypErhalten
<1> QED BY <1>1, <1>2, PTL DEF Spec

-----------------------------------------------------------------------------
\* The succession of seasons.

\* What the open transactions moving a status are sure to write.
Schreibsatz ==
  \A a \in Akteure :
    LET op == tx[a].op IN
    /\ op.art = "anlegen" => SaisonDok(op.s) \in tx[a].schreibt
    /\ op.art = "aktivieren" /\ op.neu => UniqSaisonActive \in tx[a].schreibt

\* The inductive invariant: at most one season runs because no rollover
\* commits on a judgement another rollover has overtaken, the index key being
\* in the write set of both.
FolgeInv == TypeOK /\ HoechstensEineAktiv /\ OffenesUrteilGilt /\ Schreibsatz

\* What a step leaves of one actor's transaction.
Behalten(b) == tx'[b].op = tx[b].op /\ tx'[b].schreibt = tx[b].schreibt

\* Nobody's status moves, and no transaction that could move one is opened.
LEMMA OhneStatus ==
  ASSUME FolgeInv, TypeOK',
         \A s \in Saisons : saison'[s].status = saison[s].status,
         \A b \in Akteure : \/ tx'[b] = Frei
                            \/ Behalten(b)
                            \/ tx'[b].op.art \notin {"anlegen", "aktivieren"}
  PROVE  FolgeInv'
<1>1. HoechstensEineAktiv'
  BY DEF FolgeInv, HoechstensEineAktiv
<1>2. ASSUME NEW b \in Akteure
      PROVE  /\ tx'[b].op.art = "anlegen" => /\ saison'[tx'[b].op.s].status = "keine"
                                            /\ SaisonDok(tx'[b].op.s) \in tx'[b].schreibt
             /\ tx'[b].op.art = "aktivieren" =>
                  IF tx'[b].op.neu
                  THEN /\ saison'[tx'[b].op.s].status = "future"
                       /\ tx'[b].op.abgeloest = {t \in Saisons : saison'[t].status = "active"}
                       /\ UniqSaisonActive \in tx'[b].schreibt
                  ELSE tx'[b].op.abgeloest = {}
  <2>1. CASE tx'[b] = Frei
    BY <2>1 DEF Frei, KeinOp
  <2>2. CASE tx'[b].op.art \notin {"anlegen", "aktivieren"}
    BY <2>2
  <2>3. CASE Behalten(b) /\ tx[b].op.art \in {"anlegen", "aktivieren"}
    <3>1. tx[b].op \in Ops
      BY <2>3 DEF FolgeInv, TypeOK, TxTyp, Frei, KeinOp
    <3>2. tx[b].op.s \in Saisons
      BY <2>3, <3>1, OpFelder
    <3>3. {t \in Saisons : saison'[t].status = "active"} = {t \in Saisons : saison[t].status = "active"}
      OBVIOUS
    <3> QED BY <2>3, <3>2, <3>3 DEF Behalten, FolgeInv, OffenesUrteilGilt, Schreibsatz
  <2> QED BY <2>1, <2>2, <2>3 DEF Behalten
<1>3. OffenesUrteilGilt'
  BY <1>2 DEF OffenesUrteilGilt
<1>4. Schreibsatz'
  BY <1>2 DEF Schreibsatz
<1> QED BY <1>1, <1>3, <1>4 DEF FolgeInv

\* Opening a creation: its id is free in the snapshot.
LEMMA BeginneAnlegenFolge ==
  ASSUME FolgeInv, TypeOK', NEW a \in Akteure, NEW s \in Saisons, NEW form \in Formen,
         BeginneAnlegen(a, s, form)
  PROVE  FolgeInv'
<1> DEFINE op == [art |-> "anlegen", s |-> s, form |-> form]
<1>1. /\ tx' = [tx EXCEPT ![a] = Bereit(op, SchreibtAnlegen(s))]
      /\ saison' = saison /\ saison[s].status = "keine"
  BY DEF BeginneAnlegen, Beginnt, daten
<1>2. tx'[a].op = op /\ tx'[a].schreibt = {SaisonDok(s)}
  BY <1>1 DEF FolgeInv, TypeOK, Bereit, SchreibtAnlegen
<1>3. \A b \in Akteure : b # a => tx'[b] = tx[b]
  BY <1>1 DEF FolgeInv, TypeOK
<1>4. OffenesUrteilGilt'
  BY <1>1, <1>2, <1>3 DEF FolgeInv, OffenesUrteilGilt
<1>5. Schreibsatz'
  BY <1>2, <1>3 DEF FolgeInv, Schreibsatz
<1> QED BY <1>1, <1>4, <1>5 DEF FolgeInv, HoechstensEineAktiv

\* Opening a rollover: its figures are those of the snapshot, and a target
\* active already leaves nobody else to demote.
LEMMA BeginneAktivierungFolge ==
  ASSUME FolgeInv, TypeOK', NEW a \in Akteure, NEW s \in Saisons, BeginneAktivierung(a, s)
  PROVE  FolgeInv'
<1> DEFINE op == [art |-> "aktivieren", s |-> s, neu |-> saison[s].status = "future",
                  abgeloest |-> Amtierende(s), erloschen |-> Erloschene(s)]
           W == SchreibtAktivierung(s)
<1>1. /\ tx' = [tx EXCEPT ![a] = Bereit(op, W)] \/ tx' = [tx EXCEPT ![a] = Offen(op, W)]
      /\ saison' = saison /\ saison[s].status \in {"future", "active"}
  BY DEF BeginneAktivierung, Beginnt, BeginntMitNachfrage, daten, DarfAktivieren
<1>2. tx'[a].op = op /\ tx'[a].schreibt = W
  BY <1>1 DEF FolgeInv, TypeOK, Bereit, Offen
<1>3. \A b \in Akteure : b # a => tx'[b] = tx[b]
  BY <1>1 DEF FolgeInv, TypeOK
<1>4. saison[s].status = "future" => /\ Amtierende(s) = {t \in Saisons : saison[t].status = "active"}
                                     /\ UniqSaisonActive \in W
  <2>1. "future" # "active"
    OBVIOUS
  <2>2. saison[s].status = "future" => saison[s].status # "active"
    BY <2>1
  <2> QED BY <2>2 DEF Amtierende, SchreibtAktivierung
<1>5. saison[s].status = "active" => Amtierende(s) = {}
  BY DEF FolgeInv, HoechstensEineAktiv, Amtierende
<1>6. OffenesUrteilGilt'
  <2>1. ASSUME NEW b \in Akteure, b # a
        PROVE  /\ tx'[b].op.art = "anlegen" => saison'[tx'[b].op.s].status = "keine"
               /\ tx'[b].op.art = "aktivieren" =>
                    IF tx'[b].op.neu
                    THEN /\ saison'[tx'[b].op.s].status = "future"
                         /\ tx'[b].op.abgeloest = {t \in Saisons : saison'[t].status = "active"}
                    ELSE tx'[b].op.abgeloest = {}
    BY <1>1, <1>3, <2>1 DEF FolgeInv, OffenesUrteilGilt
  <2>2. /\ op.art = "aktivieren" /\ op.s = s /\ op.abgeloest = Amtierende(s)
        /\ op.neu = (saison[s].status = "future")
    OBVIOUS
  <2>3. IF op.neu
        THEN /\ saison'[s].status = "future"
             /\ op.abgeloest = {t \in Saisons : saison'[t].status = "active"}
        ELSE op.abgeloest = {}
    <3>1. CASE saison[s].status = "future"
      BY <3>1, <2>2, <1>1, <1>4
    <3>2. CASE saison[s].status = "active"
      BY <3>2, <2>2, <1>1, <1>5
    <3> QED BY <1>1, <3>1, <3>2
  <2> HIDE DEF op
  <2> QED BY <1>2, <2>1, <2>2, <2>3 DEF OffenesUrteilGilt
<1>7. Schreibsatz'
  <2>1. op.art = "aktivieren" /\ (op.neu => UniqSaisonActive \in W)
    BY <1>4
  <2> HIDE DEF op, W
  <2> QED BY <1>2, <1>3, <2>1 DEF FolgeInv, Schreibsatz
<1> QED BY <1>1, <1>6, <1>7 DEF FolgeInv, HoechstensEineAktiv

\* Committing a creation: every rival creation of the id is aborted, and no
\* open rollover has judged a season that did not exist.
LEMMA SchreibeAnlegenFolge ==
  ASSUME FolgeInv, TypeOK', NEW a \in Akteure, SchreibeAnlegen(a)
  PROVE  FolgeInv' /\ \E s \in Saisons : Folge!Anlegen(s)
<1> DEFINE s == tx[a].op.s
<1>1. tx[a].op \in Ops /\ tx[a].op.art = "anlegen"
  BY BringtOp DEF SchreibeAnlegen, FolgeInv
<1>2. s \in Saisons
  BY <1>1, OpFelder
<1>3. saison[s].status = "keine" /\ SaisonDok(s) \in tx[a].schreibt
  BY <1>1 DEF FolgeInv, OffenesUrteilGilt, Schreibsatz
<1>4. saison'[s].status = "future" /\ \A t \in Saisons : t # s => saison'[t] = saison[t]
  BY <1>2 DEF SchreibeAnlegen, FolgeInv, TypeOK, SaisonTyp
<1>5. \A b \in Akteure : tx'[b] = Frei \/ (tx'[b] = tx[b] /\ ~Kollidiert(tx[a], tx[b]))
  BY TxSchreibt DEF SchreibeAnlegen, FolgeInv
<1>6. HoechstensEineAktiv'
  BY <1>3, <1>4 DEF FolgeInv, HoechstensEineAktiv
<1>7. {t \in Saisons : saison'[t].status = "active"} = {t \in Saisons : saison[t].status = "active"}
  BY <1>3, <1>4
<1>8. ASSUME NEW b \in Akteure, tx'[b] # Frei, tx[b].op.art \in {"anlegen", "aktivieren"}
      PROVE  tx'[b] = tx[b] /\ tx[b].op.s \in Saisons
             /\ (tx[b].op.art = "anlegen" => tx[b].op.s # s)
  <2>1. tx'[b] = tx[b] /\ ~Kollidiert(tx[a], tx[b])
    BY <1>5, <1>8
  <2>2. tx[b].op \in Ops
    BY <2>1, <1>8 DEF FolgeInv, TypeOK, TxTyp
  <2>3. tx[b].op.s \in Saisons
    BY <2>2, <1>8, OpFelder
  <2>4. tx[b].op.art = "anlegen" => SaisonDok(tx[b].op.s) \in tx[b].schreibt
    BY DEF FolgeInv, Schreibsatz
  <2> QED BY <2>1, <2>3, <2>4, <1>3 DEF Kollidiert
<1>9. \A b \in Akteure : tx'[b] = Frei => tx'[b].op.art \notin {"anlegen", "aktivieren"}
  BY DEF Frei, KeinOp
<1>10. OffenesUrteilGilt'
  <2>1. ASSUME NEW b \in Akteure, tx'[b].op.art = "anlegen"
        PROVE  saison'[tx'[b].op.s].status = "keine"
    <3>1. tx'[b] = tx[b] /\ tx[b].op.s \in Saisons /\ tx[b].op.s # s
      BY <1>5, <1>8, <1>9, <2>1
    <3> QED BY <3>1, <2>1, <1>4 DEF FolgeInv, OffenesUrteilGilt
  <2>2. ASSUME NEW b \in Akteure, tx'[b].op.art = "aktivieren"
        PROVE  IF tx'[b].op.neu
               THEN /\ saison'[tx'[b].op.s].status = "future"
                    /\ tx'[b].op.abgeloest = {t \in Saisons : saison'[t].status = "active"}
               ELSE tx'[b].op.abgeloest = {}
    <3>1. tx'[b] = tx[b] /\ tx[b].op.s \in Saisons
      BY <1>5, <1>8, <1>9, <2>2
    <3>2. tx[b].op.neu => tx[b].op.s # s
      BY <3>1, <2>2, <1>3 DEF FolgeInv, OffenesUrteilGilt
    <3> QED BY <3>1, <3>2, <2>2, <1>4, <1>7 DEF FolgeInv, OffenesUrteilGilt
  <2> QED BY <2>1, <2>2 DEF OffenesUrteilGilt
<1>11. Schreibsatz'
  BY <1>5, <1>9 DEF FolgeInv, Schreibsatz
<1>12. \E t \in Saisons : Folge!Anlegen(t)
  <2> HIDE DEF s
  <2> QED BY <1>2, <1>3, <1>4 DEF Folge!Anlegen
<1>13. FolgeInv'
  BY <1>6, <1>10, <1>11 DEF FolgeInv
<1> QED BY <1>12, <1>13

\* Committing a rollover: the judgement stands, so the step is the abstract
\* succession, and every other rollover that would promote is aborted.
LEMMA SchreibeAktivierungFolge ==
  ASSUME FolgeInv, TypeOK', NEW a \in Akteure, SchreibeAktivierung(a)
  PROVE  FolgeInv' /\ (\/ \E s \in Saisons : Folge!Abloesen(s)
                      \/ \A s \in Saisons : saison'[s].status = saison[s].status)
<1> DEFINE op == tx[a].op
           z == op.s
<1>1. op \in Ops /\ op.art = "aktivieren"
  BY BringtOp DEF SchreibeAktivierung, FolgeInv
<1>2. z \in Saisons /\ op.neu \in BOOLEAN
  BY <1>1, OpFelder
<1>3. \A b \in Akteure : tx'[b] = Frei \/ (tx'[b] = tx[b] /\ ~Kollidiert(tx[a], tx[b]))
  BY TxSchreibt DEF SchreibeAktivierung, FolgeInv
<1>4. \A s \in Saisons :
        saison'[s] = IF s = z /\ op.neu THEN [saison[s] EXCEPT !.status = "active"]
                     ELSE IF s \in op.abgeloest THEN [saison[s] EXCEPT !.status = "past"]
                     ELSE saison[s]
  BY <1>2 DEF SchreibeAktivierung
<1>5. CASE ~op.neu
  <2>1. op.abgeloest = {}
    BY <1>1, <1>5 DEF FolgeInv, OffenesUrteilGilt
  <2>2. \A s \in Saisons : saison'[s].status = saison[s].status
    BY <1>4, <1>5, <2>1
  <2>3. FolgeInv'
    BY <2>2, <1>3, OhneStatus DEF Behalten
  <2> QED BY <2>2, <2>3
<1>6. CASE op.neu
  <2>1. /\ saison[z].status = "future"
        /\ op.abgeloest = {t \in Saisons : saison[t].status = "active"}
        /\ UniqSaisonActive \in tx[a].schreibt
    BY <1>1, <1>6 DEF FolgeInv, OffenesUrteilGilt, Schreibsatz
  <2>2. \A s \in Saisons :
          saison'[s].status = IF s = z THEN "active"
                              ELSE IF saison[s].status = "active" THEN "past"
                              ELSE saison[s].status
    BY <1>4, <1>6, <2>1 DEF FolgeInv, TypeOK, SaisonTyp
  <2>3. HoechstensEineAktiv'
    BY <2>2 DEF HoechstensEineAktiv
  <2>4. ASSUME NEW b \in Akteure, tx'[b] # Frei
        PROVE  /\ tx'[b] = tx[b]
               /\ ~(tx[b].op.art = "aktivieren" /\ tx[b].op.neu)
               /\ tx[b].op \in Ops
    <3>1. tx'[b] = tx[b] /\ ~Kollidiert(tx[a], tx[b])
      BY <1>3, <2>4
    <3>2. UniqSaisonActive \notin tx[b].schreibt
      BY <3>1, <2>1 DEF Kollidiert
    <3>3. tx[b].op \in Ops
      BY <2>4, <3>1 DEF FolgeInv, TypeOK, TxTyp
    <3> QED BY <3>1, <3>2, <3>3 DEF FolgeInv, Schreibsatz
  <2>5. ASSUME NEW b \in Akteure
        PROVE  /\ tx'[b].op.art = "anlegen" => saison'[tx'[b].op.s].status = "keine"
               /\ tx'[b].op.art = "aktivieren" => ~tx'[b].op.neu /\ tx'[b].op.abgeloest = {}
    <3>1. CASE tx'[b] = Frei
      BY <3>1 DEF Frei, KeinOp
    <3>2. CASE tx'[b] # Frei /\ tx[b].op.art = "anlegen"
      <4>1. tx'[b] = tx[b] /\ tx[b].op.s \in Saisons
        BY <2>4, <3>2, OpFelder
      <4>2. saison[tx[b].op.s].status = "keine"
        BY <3>2 DEF FolgeInv, OffenesUrteilGilt
      <4> QED BY <3>2, <4>1, <4>2, <2>1, <2>2
    <3>3. CASE tx'[b] # Frei /\ tx[b].op.art # "anlegen"
      BY <3>3, <2>4 DEF FolgeInv, OffenesUrteilGilt
    <3> QED BY <3>1, <3>2, <3>3
  <2>6. OffenesUrteilGilt'
    BY <2>5 DEF OffenesUrteilGilt
  <2>7. ASSUME NEW b \in Akteure
        PROVE  tx'[b].op.art = "anlegen" => SaisonDok(tx'[b].op.s) \in tx'[b].schreibt
    BY <1>3 DEF FolgeInv, Schreibsatz, Frei, KeinOp
  <2>8. Schreibsatz'
    BY <2>5, <2>7 DEF Schreibsatz
  <2>9. \E t \in Saisons : Folge!Abloesen(t)
    <3> HIDE DEF z
    <3> QED BY <1>2, <2>1, <2>2 DEF Folge!Abloesen, Folge!Laufende
  <2>10. FolgeInv'
    BY <2>3, <2>6, <2>8 DEF FolgeInv
  <2> QED BY <1>2, <2>9, <2>10
<1> QED BY <1>2, <1>5, <1>6

\* Every step keeps the invariant, and moves the statuses as the abstract
\* succession does or not at all.
LEMMA FolgeSchritt ==
  ASSUME FolgeInv, [Next]_vars
  PROVE  /\ FolgeInv'
         /\ \/ \E s \in Saisons : Folge!Anlegen(s) \/ Folge!Abloesen(s)
            \/ \A s \in Saisons : saison'[s].status = saison[s].status
<1>1. TypeOK'
  BY TypErhalten DEF FolgeInv
<1> DEFINE Ruht == \A s \in Saisons : saison'[s].status = saison[s].status
           Unbeteiligt == \A b \in Akteure :
                            \/ tx'[b] = Frei
                            \/ Behalten(b)
                            \/ tx'[b].op.art \notin {"anlegen", "aktivieren"}
<1>2. Ruht /\ Unbeteiligt => FolgeInv'
  BY <1>1, OhneStatus
<1>3. CASE UNCHANGED vars
  BY <1>2, <1>3 DEF vars, daten, Behalten
<1>4. ASSUME NEW a \in Akteure, NEW op, NEW W, op.art \notin {"anlegen", "aktivieren"},
             Beginnt(a, op, W) \/ BeginntMitNachfrage(a, op, W)
      PROVE  Ruht /\ Unbeteiligt
  <2>1. tx' = [tx EXCEPT ![a] = Bereit(op, W)] \/ tx' = [tx EXCEPT ![a] = Offen(op, W)]
    BY <1>4 DEF Beginnt, BeginntMitNachfrage
  <2>2. tx'[a].op = op /\ \A b \in Akteure : b # a => tx'[b] = tx[b]
    BY <2>1 DEF FolgeInv, TypeOK, Bereit, Offen
  <2>3. saison' = saison
    BY <1>4 DEF Beginnt, BeginntMitNachfrage, daten
  <2> QED BY <1>4, <2>2, <2>3 DEF Behalten
<1>5. ASSUME NEW a \in Akteure, Beginne(a)
      PROVE  FolgeInv' /\ Ruht
  <2>0. Ruht
    BY <1>5 DEF Beginne, BeginneAnlegen, BeginneRegeln, BeginneZiehung, BeginneLoeschung,
       BeginneAktivierung, BeginneSpielSpeichern, BeginneBericht, BeginneDatierung,
       BeginneSperre, BeginneEntsperrung, Beginnt, BeginntMitNachfrage, daten
  <2>1. CASE \E s \in Saisons, form \in Formen : BeginneAnlegen(a, s, form)
    BY <2>0, <2>1, <1>1, BeginneAnlegenFolge
  <2>2. CASE \E s \in Saisons : BeginneAktivierung(a, s)
    BY <2>0, <2>2, <1>1, BeginneAktivierungFolge
  <2>3. CASE \E s \in Saisons, form \in Formen : BeginneRegeln(a, s, form)
    BY <2>3, <1>2, <1>4 DEF BeginneRegeln
  <2>4. CASE \E s \in Saisons, form \in Formen, ersetzt \in BOOLEAN :
               BeginneZiehung(a, s, form, ersetzt)
    BY <2>4, <1>2, <1>4 DEF BeginneZiehung
  <2>5. CASE \E s \in Saisons : BeginneLoeschung(a, s)
    BY <2>5, <1>2, <1>4 DEF BeginneLoeschung
  <2>6. CASE \E s \in Saisons, nr \in Nrn, neu \in Staende : \E mit \in SUBSET (KoNrn \ {nr}) :
               BeginneSpielSpeichern(a, s, nr, neu, mit)
    BY <2>6, <1>2, <1>4 DEF BeginneSpielSpeichern
  <2>7. CASE \E s \in Saisons, nr \in Nrn : BeginneBericht(a, s, nr)
    BY <2>7, <1>2, <1>4 DEF BeginneBericht
  <2>8. CASE \E s \in Saisons : BeginneDatierung(a, s)
    BY <2>8, <1>2, <1>4 DEF BeginneDatierung
  <2>9. CASE \E s \in Saisons, p \in Personen : BeginneSperre(a, p, s)
    BY <2>9, <1>2, <1>4 DEF BeginneSperre
  <2>10. CASE \E p \in Personen : BeginneEntsperrung(a, p)
    BY <2>10, <1>2, <1>4 DEF BeginneEntsperrung
  <2> QED BY <1>5, <2>1, <2>2, <2>3, <2>4, <2>5, <2>6, <2>7, <2>8, <2>9, <2>10 DEF Beginne
<1>6. ASSUME NEW a \in Akteure, FrageNach(a)
      PROVE  FolgeInv' /\ Ruht
  <2>1. \A b \in Akteure : Behalten(b)
    <3>1. \A b \in Akteure : b # a => tx'[b] = tx[b]
      BY <1>6 DEF FrageNach, FolgeInv, TypeOK
    <3>2. tx'[a] = [tx[a] EXCEPT !.phase = "bereit"]
      BY <1>6 DEF FrageNach, FolgeInv, TypeOK
    <3>3. tx'[a].op = tx[a].op /\ tx'[a].schreibt = tx[a].schreibt
      BY <3>2
    <3> QED BY <3>1, <3>3 DEF Behalten
  <2> QED BY <1>2, <1>6, <2>1 DEF FrageNach, daten
<1>7. ASSUME NEW a \in Akteure, Abbruch(a)
      PROVE  FolgeInv' /\ Ruht
  <2>1. \A b \in Akteure : tx'[b] = Frei \/ tx'[b] = tx[b]
    BY <1>7 DEF Abbruch, FolgeInv, TypeOK
  <2> QED BY <1>2, <1>7, <2>1 DEF Abbruch, daten, Behalten
<1>8. ASSUME NEW a \in Akteure, Schreibt(a), Ruht
      PROVE  FolgeInv'
  <2>1. \A b \in Akteure : tx'[b] = Frei \/ tx'[b] = tx[b]
    BY <1>8, TxSchreibt DEF FolgeInv
  <2> QED BY <1>2, <1>8, <2>1 DEF Behalten
<1>9. ASSUME NEW a \in Akteure, Schreibe(a)
      PROVE  /\ FolgeInv'
             /\ \/ \E s \in Saisons : Folge!Anlegen(s) \/ Folge!Abloesen(s)
                \/ Ruht
  <2>1. CASE SchreibeAnlegen(a)
    BY <2>1, <1>1, SchreibeAnlegenFolge
  <2>2. CASE SchreibeAktivierung(a)
    BY <2>2, <1>1, SchreibeAktivierungFolge
  <2>3. CASE SchreibeRegeln(a)
    <3>1. Ruht
      BY <2>3 DEF SchreibeRegeln, FolgeInv, TypeOK, SaisonTyp
    <3> QED BY <3>1, <2>3, <1>8 DEF SchreibeRegeln
  <2>4. CASE SchreibeZiehung(a)
    <3>1. Ruht
      BY <2>4 DEF SchreibeZiehung, FolgeInv, TypeOK, SaisonTyp
    <3> QED BY <3>1, <2>4, <1>8 DEF SchreibeZiehung
  <2>5. CASE SchreibeLoeschung(a)
    <3>1. Ruht
      BY <2>5 DEF SchreibeLoeschung, FolgeInv, TypeOK, SaisonTyp
    <3> QED BY <3>1, <2>5, <1>8 DEF SchreibeLoeschung
  <2>6. CASE SchreibeSpiel(a)
    BY <2>6, <1>8 DEF SchreibeSpiel
  <2>7. CASE SchreibeBericht(a)
    BY <2>7, <1>8 DEF SchreibeBericht
  <2>8. CASE SchreibeDatierung(a)
    BY <2>8, <1>8 DEF SchreibeDatierung
  <2>9. CASE SchreibeSperre(a)
    BY <2>9, <1>8 DEF SchreibeSperre
  <2>10. CASE SchreibeEntsperrung(a)
    BY <2>10, <1>8 DEF SchreibeEntsperrung
  <2> QED BY <1>9, <2>1, <2>2, <2>3, <2>4, <2>5, <2>6, <2>7, <2>8, <2>9, <2>10 DEF Schreibe
<1> QED BY <1>2, <1>3, <1>5, <1>6, <1>7, <1>9 DEF Next

LEMMA FolgeAnfang == Init => FolgeInv
<1> SUFFICES ASSUME Init PROVE FolgeInv
  OBVIOUS
<1>1. TypeOK
  BY SaisonsAssumption DEF Init, TypeOK, SaisonTyp, Status, TxTyp
<1>2. HoechstensEineAktiv
  BY DEF Init, HoechstensEineAktiv
<1>3. OffenesUrteilGilt /\ Schreibsatz
  BY DEF Init, OffenesUrteilGilt, Schreibsatz, Frei, KeinOp
<1> QED BY <1>1, <1>2, <1>3 DEF FolgeInv

\* At most one season is ever running (uniq_saison_active and the rollover's
\* demotion before its promotion), for any number of seasons and requests.
THEOREM EineSaisonAktiv == Spec => []HoechstensEineAktiv
<1>1. FolgeInv /\ [Next]_vars => FolgeInv'
  BY FolgeSchritt
<1>2. FolgeInv => HoechstensEineAktiv
  BY DEF FolgeInv
<1> QED BY FolgeAnfang, <1>1, <1>2, PTL DEF Spec

\* A rollover or a creation never commits on a judgement the league has moved
\* away from: what it read in its snapshot is still so.
THEOREM UrteileGelten == Spec => []OffenesUrteilGilt
<1>1. FolgeInv /\ [Next]_vars => FolgeInv'
  BY FolgeSchritt
<1>2. FolgeInv => OffenesUrteilGilt
  BY DEF FolgeInv
<1> QED BY FolgeAnfang, <1>1, <1>2, PTL DEF Spec

\* The interleaved handlers implement the abstract succession: every status a
\* reader can see came about by whole creations and whole rollovers.
THEOREM SaisonfolgeUmgesetzt == Spec => IstSaisonfolge
<1>1. Init => Folge!Init
  BY DEF Init, Folge!Init
<1>2. FolgeInv /\ [Next]_vars => FolgeInv' /\ [Folge!Next]_([s \in Saisons |-> saison[s].status])
  <2> SUFFICES ASSUME FolgeInv, [Next]_vars
               PROVE  FolgeInv' /\ (Folge!Next \/ UNCHANGED [s \in Saisons |-> saison[s].status])
    OBVIOUS
  <2>1. CASE \E s \in Saisons : Folge!Anlegen(s) \/ Folge!Abloesen(s)
    BY <2>1, FolgeSchritt DEF Folge!Next
  <2>2. CASE \A s \in Saisons : saison'[s].status = saison[s].status
    BY <2>2, FolgeSchritt
  <2> QED BY <2>1, <2>2, FolgeSchritt
<1> QED BY FolgeAnfang, <1>1, <1>2, PTL DEF Spec, IstSaisonfolge, Folge!Spec

-----------------------------------------------------------------------------
\* The documents of the league.

\* What an open transaction has judged, and the documents that keep it so: all but the fixtures
\* and the bans hang on the season's own document, which every one of these writes.
Urteil(op, W) ==
  /\ op.art \in {"anlegen", "regeln", "ziehen", "loeschen", "bericht", "datieren"} => SaisonDok(op.s) \in W
  /\ op.art = "regeln" => saison[op.s].status # "keine" /\ ~saison[op.s].plan
  /\ op.art \in {"ziehen", "loeschen"} =>
       /\ saison[op.s].status = "future"
       /\ \A nr \in Nrn : /\ SpielDok(op.s, nr) \in W
                          /\ spiel[<<op.s, nr>>] \in {"keins", "frei"} /\ ~bericht[<<op.s, nr>>]
  /\ op.art = "spiel" => \A nr \in DOMAIN op.staende : SpielDok(op.s, nr) \in W /\ spiel[<<op.s, nr>>] # "keins"
  /\ op.art = "bericht" => saison[op.s].status # "past" /\ spiel[<<op.s, op.nr>>] # "keins"
  /\ op.art = "datieren" => spieltag[op.s] = "undatiert"
  /\ op.art = "sperren" => SperreDok(op.p) \in W /\ \E t \in Saisons : /\ SaisonDok(t) \in W
                                               /\ saison[t].status = "active" /\ op.bis = t + SperreDauer
  /\ op.art = "entsperren" => SperreDok(op.p) \in W
  /\ op.art = "aktivieren" =>
       /\ \A t \in op.abgeloest : SaisonDok(t) \in W
       /\ \A p \in op.erloschen : SperreDok(p) \in W
       /\ op.neu => /\ SaisonDok(op.s) \in W
                    /\ saison[op.s].plan /\ spieltag[op.s] = "datiert"
                    /\ op.erloschen = Erloschene(op.s)
       /\ ~op.neu => op.erloschen = {}

Urteile == \A a \in Akteure : Urteil(tx[a].op, tx[a].schreibt)

\* No season, no plan: what an id nobody has created yet can hold.
UngeplantBisAngelegt == \A s \in Saisons : saison[s].status = "keine" => ~saison[s].plan

Dokumente == DokumenteStimmen /\ UngeplantBisAngelegt

\* The inductive invariant: the documents hang together because each open judgement still
\* holds of them, and it does because whoever moves what it read writes a document it writes.
LigaInv == FolgeInv /\ Urteile /\ Dokumente

\* A season's own document and all that moves with it.
SaisonRuht(s) ==
  /\ saison'[s] = saison[s] /\ gezogen'[s] = gezogen[s] /\ spieltag'[s] = spieltag[s]
  /\ \A nr \in Nrn : /\ bericht'[<<s, nr>>] = bericht[<<s, nr>>]
                     /\ spiel'[<<s, nr>>] = "keins" <=> spiel[<<s, nr>>] = "keins"

\* A commit moves only documents it writes; a season's matchdays, reports and the standing of
\* its plan only with the season's own; and a new ban only with a running season's.
NurEigenes(W) ==
  /\ \A s \in Saisons : SaisonDok(s) \notin W => SaisonRuht(s)
  /\ \A s \in Saisons, nr \in Nrn : SpielDok(s, nr) \notin W => spiel'[<<s, nr>>] = spiel[<<s, nr>>]
  /\ \A p \in Personen : SperreDok(p) \notin W => sperre'[p] = sperre[p]
  /\ \A p \in Personen : \/ sperre'[p] \in {0, sperre[p]}
                         \/ \E t \in Saisons : saison[t].status = "active" /\ SaisonDok(t) \in W

LEMMA GezogenHeisstGeplant ==
  ASSUME Dokumente, NEW s \in Saisons
  PROVE  Gezogen(s) <=> saison[s].plan
BY NrnAssumption DEF Dokumente, DokumenteStimmen, PlanIstGanz, Gezogen

\* The operation about to commit, and its judgement.
LEMMA BringtUrteil ==
  ASSUME LigaInv, NEW a \in Akteure, NEW art, Bringt(a, art)
  PROVE  tx[a].op \in Ops /\ tx[a].op.art = art /\ Urteil(tx[a].op, tx[a].schreibt)
BY BringtOp DEF LigaInv, FolgeInv, Urteile

LEMMA CommitSchreibtNurEigenes ==
  ASSUME LigaInv, NEW a \in Akteure, Schreibe(a)
  PROVE  NurEigenes(tx[a].schreibt)
<1> DEFINE op == tx[a].op
           W == tx[a].schreibt
<1>1. TypeOK
  BY DEF LigaInv, FolgeInv
<1>2. CASE SchreibeAnlegen(a)
  <2>1. op \in Ops /\ op.art = "anlegen" /\ Urteil(op, W)
    BY <1>2, BringtUrteil DEF SchreibeAnlegen
  <2>2. op.s \in Saisons /\ SaisonDok(op.s) \in W
    BY <2>1, OpFelder DEF Urteil
  <2> HIDE DEF op
  <2>3. \A s \in Saisons : s # op.s => saison'[s] = saison[s]
    BY <1>1, <1>2, <2>2 DEF SchreibeAnlegen, TypeOK, SaisonTyp, op
  <2> QED BY <1>2, <2>2, <2>3 DEF SchreibeAnlegen, NurEigenes, SaisonRuht
<1>3. CASE SchreibeRegeln(a)
  <2>1. op \in Ops /\ op.art = "regeln" /\ Urteil(op, W)
    BY <1>3, BringtUrteil DEF SchreibeRegeln
  <2>2. op.s \in Saisons /\ SaisonDok(op.s) \in W
    BY <2>1, OpFelder DEF Urteil
  <2> HIDE DEF op
  <2>3. \A s \in Saisons : s # op.s => saison'[s] = saison[s]
    BY <1>1, <1>3, <2>2 DEF SchreibeRegeln, TypeOK, SaisonTyp, op
  <2> QED BY <1>3, <2>2, <2>3 DEF SchreibeRegeln, NurEigenes, SaisonRuht
<1>4. CASE SchreibeZiehung(a) \/ SchreibeLoeschung(a)
  <2>1. op \in Ops /\ op.art \in {"ziehen", "loeschen"} /\ Urteil(op, W)
    BY <1>4, BringtUrteil DEF SchreibeZiehung, SchreibeLoeschung
  <2>2. op.s \in Saisons /\ SaisonDok(op.s) \in W /\ \A nr \in Nrn : SpielDok(op.s, nr) \in W
    BY <2>1, OpFelder DEF Urteil
  <2> HIDE DEF op
  <2>3. \A s \in Saisons : s # op.s =>
          saison'[s] = saison[s] /\ gezogen'[s] = gezogen[s] /\ spieltag'[s] = spieltag[s]
    BY <1>1, <1>4, <2>2 DEF SchreibeZiehung, SchreibeLoeschung, TypeOK, SaisonTyp, op
  <2>4. \A s \in Saisons, nr \in Nrn : s # op.s =>
          spiel'[<<s, nr>>] = spiel[<<s, nr>>]
    BY <1>1, <1>4, <2>2 DEF SchreibeZiehung, SchreibeLoeschung, TypeOK, op
  <2>5. \A s \in Saisons, nr \in Nrn : s # op.s => bericht'[<<s, nr>>] = bericht[<<s, nr>>]
    <3>1. bericht' = [k \in Saisons \X Nrn |-> bericht[k] /\ ~(k[1] = op.s /\ k[2] \in op.berichte)]
      BY <1>1, <1>4 DEF SchreibeZiehung, SchreibeLoeschung, TypeOK, op
    <3>2. bericht \in [Saisons \X Nrn -> BOOLEAN]
      BY <1>1 DEF TypeOK
    <3> QED BY <3>1, <3>2
  <2>6. sperre' = sperre
    BY <1>4 DEF SchreibeZiehung, SchreibeLoeschung
  <2> QED BY <2>2, <2>3, <2>4, <2>5, <2>6 DEF NurEigenes, SaisonRuht
<1>5. CASE SchreibeAktivierung(a)
  <2>1. op \in Ops /\ op.art = "aktivieren" /\ Urteil(op, W)
    BY <1>5, BringtUrteil DEF SchreibeAktivierung
  <2>2. /\ op.s \in Saisons /\ op.neu \in BOOLEAN
        /\ op.neu => SaisonDok(op.s) \in W
        /\ \A t \in op.abgeloest : SaisonDok(t) \in W
        /\ \A p \in op.erloschen : SperreDok(p) \in W
    BY <2>1, OpFelder DEF Urteil
  <2>3. \A s \in Saisons : SaisonDok(s) \notin W => saison'[s] = saison[s]
    BY <1>5, <2>2 DEF SchreibeAktivierung
  <2>4. \A p \in Personen : sperre'[p] = IF p \in op.erloschen THEN 0 ELSE sperre[p]
    BY <1>5 DEF SchreibeAktivierung
  <2> HIDE DEF op
  <2> QED BY <1>5, <2>2, <2>3, <2>4 DEF SchreibeAktivierung, NurEigenes, SaisonRuht
<1>6. CASE SchreibeSpiel(a)
  <2>1. op \in Ops /\ op.art = "spiel" /\ Urteil(op, W)
    BY <1>6, BringtUrteil DEF SchreibeSpiel
  <2>2. /\ op.s \in Saisons /\ op.staende \in [DOMAIN op.staende -> Staende]
        /\ \A nr \in DOMAIN op.staende : SpielDok(op.s, nr) \in W /\ spiel[<<op.s, nr>>] # "keins"
    BY <2>1, OpFelder DEF Urteil
  <2>3. \A s \in Saisons, nr \in Nrn :
          spiel'[<<s, nr>>] = IF s = op.s /\ nr \in DOMAIN op.staende THEN op.staende[nr] ELSE spiel[<<s, nr>>]
    BY <1>1, <1>6 DEF SchreibeSpiel, TypeOK
  <2> HIDE DEF op
  <2>4. \A s \in Saisons, nr \in Nrn : spiel'[<<s, nr>>] = "keins" <=> spiel[<<s, nr>>] = "keins"
    BY <2>2, <2>3 DEF Staende
  <2> QED BY <1>6, <2>2, <2>3, <2>4 DEF SchreibeSpiel, NurEigenes, SaisonRuht
<1>7. CASE SchreibeBericht(a)
  <2>1. op \in Ops /\ op.art = "bericht" /\ Urteil(op, W)
    BY <1>7, BringtUrteil DEF SchreibeBericht
  <2>2. op.s \in Saisons /\ SaisonDok(op.s) \in W
    BY <2>1, OpFelder DEF Urteil
  <2>3. \A s \in Saisons, nr \in Nrn : s # op.s => bericht'[<<s, nr>>] = bericht[<<s, nr>>]
    BY <1>1, <1>7 DEF SchreibeBericht, TypeOK
  <2> HIDE DEF op
  <2> QED BY <1>7, <2>2, <2>3 DEF SchreibeBericht, NurEigenes, SaisonRuht
<1>8. CASE SchreibeDatierung(a)
  <2>1. op \in Ops /\ op.art = "datieren" /\ Urteil(op, W)
    BY <1>8, BringtUrteil DEF SchreibeDatierung
  <2>2. op.s \in Saisons /\ SaisonDok(op.s) \in W
    BY <2>1, OpFelder DEF Urteil
  <2>3. \A s \in Saisons : s # op.s => spieltag'[s] = spieltag[s]
    BY <1>1, <1>8 DEF SchreibeDatierung, TypeOK
  <2> HIDE DEF op
  <2> QED BY <1>8, <2>2, <2>3 DEF SchreibeDatierung, NurEigenes, SaisonRuht
<1>9. CASE SchreibeSperre(a) \/ SchreibeEntsperrung(a)
  <2>1. op \in Ops /\ op.art \in {"sperren", "entsperren"} /\ Urteil(op, W)
    BY <1>9, BringtUrteil DEF SchreibeSperre, SchreibeEntsperrung
  <2>2. SperreDok(op.p) \in W
    BY <2>1 DEF Urteil
  <2>3. \A p \in Personen : p # op.p => sperre'[p] = sperre[p]
    BY <1>1, <1>9 DEF SchreibeSperre, SchreibeEntsperrung, TypeOK
  <2>4. CASE SchreibeSperre(a)
    <3>1. \E t \in Saisons : saison[t].status = "active" /\ SaisonDok(t) \in W
      BY <2>1, <2>4 DEF Urteil, SchreibeSperre, Bringt
    <3> QED BY <2>2, <2>3, <2>4, <3>1 DEF SchreibeSperre, NurEigenes, SaisonRuht
  <2>5. CASE SchreibeEntsperrung(a)
    <3>1. \A p \in Personen : sperre'[p] \in {0, sperre[p]}
      BY <1>1, <2>5 DEF SchreibeEntsperrung, TypeOK
    <3> QED BY <2>2, <2>3, <2>5, <3>1 DEF SchreibeEntsperrung, NurEigenes, SaisonRuht
  <2> QED BY <1>9, <2>4, <2>5
<1> QED BY <1>2, <1>3, <1>4, <1>5, <1>6, <1>7, <1>8, <1>9 DEF Schreibe

\* What an open transaction has judged outlives any commit that leaves it open.
LEMMA UrteilUeberlebt ==
  ASSUME LigaInv, NEW a \in Akteure, NEW b \in Akteure, NurEigenes(tx[a].schreibt),
         tx[b] # Frei, ~Kollidiert(tx[a], tx[b]), tx'[b] = tx[b]
  PROVE  Urteil(tx[b].op, tx[b].schreibt)'
<1> DEFINE op == tx[b].op
           W == tx[b].schreibt
           V == tx[a].schreibt
<1>1. op \in Ops /\ Urteil(op, W)
  BY DEF LigaInv, FolgeInv, TypeOK, TxTyp, Urteile
<1>2. \A d \in W : d \notin V
  BY DEF Kollidiert
<1>3. tx'[b].op = op /\ tx'[b].schreibt = W
  OBVIOUS
<1>4. op.art = "aktivieren" /\ op.neu => op.abgeloest = {t \in Saisons : saison[t].status = "active"}
  BY DEF LigaInv, FolgeInv, OffenesUrteilGilt
<1> HIDE DEF op, W, V
<1>5. /\ \A s \in Saisons : SaisonDok(s) \in W => SaisonRuht(s)
      /\ \A s \in Saisons, nr \in Nrn : SpielDok(s, nr) \in W => spiel'[<<s, nr>>] = spiel[<<s, nr>>]
      /\ \A p \in Personen : SperreDok(p) \in W => sperre'[p] = sperre[p]
      /\ \A p \in Personen : \/ sperre'[p] \in {0, sperre[p]}
                             \/ \E t \in Saisons : saison[t].status = "active" /\ SaisonDok(t) \notin W
  BY <1>2 DEF NurEigenes, V
<1>6. CASE op.art \in {"anlegen", "regeln", "ziehen", "loeschen", "bericht", "datieren"}
  <2>1. op.s \in Saisons /\ SaisonDok(op.s) \in W /\ (op.art = "bericht" => op.nr \in Nrn)
    BY <1>1, <1>6, OpFelder DEF Urteil
  <2>2. SaisonRuht(op.s)
    BY <1>5, <2>1
  <2>3. op.art = "regeln" => saison'[op.s].status # "keine" /\ ~saison'[op.s].plan
    BY <1>1, <2>2 DEF Urteil, SaisonRuht
  <2>4. op.art \in {"ziehen", "loeschen"} =>
          /\ saison'[op.s].status = "future"
          /\ \A nr \in Nrn : /\ SpielDok(op.s, nr) \in W
                             /\ spiel'[<<op.s, nr>>] \in {"keins", "frei"} /\ ~bericht'[<<op.s, nr>>]
    BY <1>1, <1>5, <2>1, <2>2 DEF Urteil, SaisonRuht
  <2>5. op.art = "bericht" => saison'[op.s].status # "past" /\ spiel'[<<op.s, op.nr>>] # "keins"
    BY <1>1, <2>1, <2>2 DEF Urteil, SaisonRuht
  <2>6. op.art = "datieren" => spieltag'[op.s] = "undatiert"
    BY <1>1, <2>2 DEF Urteil, SaisonRuht
  <2> QED BY <1>3, <1>6, <2>1, <2>3, <2>4, <2>5, <2>6 DEF Urteil
<1>7. CASE op.art = "spiel"
  <2>1. op.s \in Saisons /\ DOMAIN op.staende \in SUBSET Nrn
    BY <1>1, <1>7, OpFelder
  <2>2. \A nr \in DOMAIN op.staende : SpielDok(op.s, nr) \in W /\ spiel'[<<op.s, nr>>] # "keins"
    BY <1>1, <1>5, <1>7, <2>1 DEF Urteil
  <2> QED BY <1>3, <1>7, <2>2 DEF Urteil
<1>8. CASE op.art = "sperren"
  <2>1. PICK t \in Saisons : SaisonDok(t) \in W /\ saison[t].status = "active" /\ op.bis = t + SperreDauer
    BY <1>1, <1>8 DEF Urteil
  <2>2. saison'[t].status = "active"
    BY <1>5, <2>1 DEF SaisonRuht
  <2>3. SperreDok(op.p) \in W
    BY <1>1, <1>8 DEF Urteil
  <2> QED BY <1>3, <1>8, <2>1, <2>2, <2>3 DEF Urteil
<1>9. CASE op.art = "entsperren"
  BY <1>1, <1>3, <1>9 DEF Urteil
<1>10. CASE op.art = "aktivieren"
  <2>1. /\ \A t \in op.abgeloest : SaisonDok(t) \in W
        /\ \A p \in op.erloschen : SperreDok(p) \in W
        /\ op.neu => /\ SaisonDok(op.s) \in W
                     /\ saison[op.s].plan /\ spieltag[op.s] = "datiert"
                     /\ op.erloschen = Erloschene(op.s)
        /\ ~op.neu => op.erloschen = {}
    BY <1>1, <1>10 DEF Urteil
  <2>2. op.s \in Saisons
    BY <1>1, <1>10, OpFelder
  <2>3. op.neu => saison'[op.s].plan /\ spieltag'[op.s] = "datiert"
    BY <1>5, <2>1, <2>2 DEF SaisonRuht
  \* A ban lapsed by then is one the commit writes; a new one hangs on a season it writes.
  <2>4. ASSUME op.neu PROVE op.erloschen = {p \in Personen : sperre'[p] # 0 /\ sperre'[p] < op.s}
    <3>1. \A p \in Personen : sperre'[p] \in {0, sperre[p]}
      BY <1>4, <1>5, <1>10, <2>1, <2>4
    <3>2. \A p \in op.erloschen : p \in Personen /\ sperre'[p] = sperre[p]
      BY <1>1, <1>5, <1>10, <2>1, OpFelder
    <3>3. \A p \in Personen : sperre'[p] # 0 => sperre'[p] = sperre[p]
      BY <3>1
    <3> QED BY <2>1, <2>4, <3>2, <3>3 DEF Erloschene
  <2> QED BY <1>3, <1>10, <2>1, <2>3, <2>4 DEF Urteil, Erloschene
<1>11. CASE op.art \notin {"anlegen", "regeln", "ziehen", "loeschen", "bericht", "datieren", "spiel", "sperren",
                           "entsperren", "aktivieren"}
  BY <1>3, <1>11 DEF Urteil
<1> QED BY <1>6, <1>7, <1>8, <1>9, <1>10, <1>11

\* An actor with no transaction has judged nothing.
LEMMA FreiUrteilt ==
  ASSUME NEW b \in Akteure, tx'[b] = Frei
  PROVE  Urteil(tx[b].op, tx[b].schreibt)'
<1>1. tx'[b].op.art = "keiner"
  BY DEF Frei, KeinOp
<1> QED BY <1>1 DEF Urteil

\* While nothing is stored, every judgement that stands still holds.
LEMMA UrteilRuht ==
  ASSUME LigaInv, UNCHANGED daten, NEW b \in Akteure, tx'[b].op = tx[b].op, tx'[b].schreibt = tx[b].schreibt
  PROVE  Urteil(tx[b].op, tx[b].schreibt)'
<1>1. Urteil(tx[b].op, tx[b].schreibt)
  BY DEF LigaInv, Urteile
<1> QED BY <1>1 DEF Urteil, Erloschene, daten

LEMMA DokumenteRuhen ==
  ASSUME Dokumente, UNCHANGED daten
  PROVE  Dokumente'
BY DEF daten, Dokumente, UngeplantBisAngelegt, DokumenteStimmen, LebendeSaisonIstSpielbar, Gezogen, PlanIstGanz,
   BerichtHatSeinSpiel, KeineVerjaehrteSperre

\* Opening a transaction on a judgement the snapshot bears out.
LEMMA BeginntUrteil ==
  ASSUME LigaInv, NEW a \in Akteure, NEW op, NEW W, Urteil(op, W),
         Beginnt(a, op, W) \/ BeginntMitNachfrage(a, op, W)
  PROVE  Urteile' /\ Dokumente'
<1>1. tx' = [tx EXCEPT ![a] = Bereit(op, W)] \/ tx' = [tx EXCEPT ![a] = Offen(op, W)]
  BY DEF Beginnt, BeginntMitNachfrage
<1>2. tx'[a].op = op /\ tx'[a].schreibt = W /\ \A b \in Akteure : b # a => tx'[b] = tx[b]
  BY <1>1 DEF LigaInv, FolgeInv, TypeOK, Bereit, Offen
<1>3. UNCHANGED daten
  BY DEF Beginnt, BeginntMitNachfrage
<1>4. ASSUME NEW b \in Akteure PROVE Urteil(tx[b].op, tx[b].schreibt)'
  <2>1. CASE b = a
    BY <1>2, <1>3, <2>1 DEF Urteil, Erloschene, daten
  <2>2. CASE b # a
    BY <1>2, <1>3, <2>2, UrteilRuht
  <2> QED BY <2>1, <2>2
<1> QED BY <1>3, <1>4, DokumenteRuhen DEF Urteile, LigaInv

LEMMA BeginneUrteil ==
  ASSUME LigaInv, NEW a \in Akteure, Beginne(a)
  PROVE  Urteile' /\ Dokumente'
<1>1. /\ TypeOK /\ Dokumente /\ LebendeSaisonIstSpielbar /\ PlanIstGanz /\ BerichtHatSeinSpiel
      /\ KeineVerjaehrteSperre /\ UngeplantBisAngelegt
  BY DEF LigaInv, FolgeInv, Dokumente, DokumenteStimmen
<1>2. ASSUME NEW s \in Saisons, NEW form \in Formen, BeginneAnlegen(a, s, form) \/ BeginneRegeln(a, s, form)
      PROVE  Urteile' /\ Dokumente'
  <2>1. Urteil([art |-> "anlegen", s |-> s, form |-> form], SchreibtAnlegen(s))
    BY DEF Urteil, SchreibtAnlegen
  <2>2. CASE BeginneAnlegen(a, s, form)
    BY <2>1, <2>2, BeginntUrteil DEF BeginneAnlegen
  <2>3. CASE BeginneRegeln(a, s, form)
    <3>1. Urteil([art |-> "regeln", s |-> s, form |-> form], SchreibtRegeln(s))
      BY <1>1, <2>3, GezogenHeisstGeplant DEF BeginneRegeln, Urteil, SchreibtRegeln
    <3> QED BY <2>3, <3>1, BeginntUrteil DEF BeginneRegeln
  <2> QED BY <1>2, <2>2, <2>3
<1>3. ASSUME NEW s \in Saisons, NEW form \in Formen, NEW ersetzt \in BOOLEAN, BeginneZiehung(a, s, form, ersetzt)
      PROVE  Urteile' /\ Dokumente'
  <2>1. DarfZiehen(s, ersetzt)
    BY <1>3 DEF BeginneZiehung
  <2>2. saison[s].status = "future" /\ \A nr \in Nrn : spiel[<<s, nr>>] \in {"keins", "frei"} /\ ~bericht[<<s, nr>>]
    <3>1. CASE ersetzt
      BY <1>1, <2>1, <3>1 DEF DarfZiehen, Planungsfenster, Eintraege, Berichte, HaeltEintrag, TypeOK
    <3>2. CASE ~ersetzt
      <4>1. ~Gezogen(s) /\ saison[s].status \notin {"keine", "past"}
        BY <2>1, <3>2 DEF DarfZiehen
      <4>2. saison[s].status = "future"
        BY <1>1, <4>1 DEF LebendeSaisonIstSpielbar, TypeOK, SaisonTyp, Status
      <4> QED BY <1>1, <4>1, <4>2 DEF Gezogen, BerichtHatSeinSpiel
    <3> QED BY <3>1, <3>2
  <2>3. Urteil([art |-> "ziehen", s |-> s, form |-> form, berichte |-> Berichte(s)], SchreibtZiehung(s))
    BY <2>2 DEF Urteil, SchreibtZiehung
  <2> QED BY <1>3, <2>3, BeginntUrteil DEF BeginneZiehung
<1>4. ASSUME NEW s \in Saisons, BeginneLoeschung(a, s)
      PROVE  Urteile' /\ Dokumente'
  <2>1. saison[s].status = "future" /\ \A nr \in Nrn : spiel[<<s, nr>>] \in {"keins", "frei"} /\ ~bericht[<<s, nr>>]
    BY <1>1, <1>4 DEF BeginneLoeschung, DarfLoeschen, Planungsfenster, Eintraege, Berichte, HaeltEintrag, TypeOK
  <2>2. Urteil([art |-> "loeschen", s |-> s, berichte |-> Berichte(s)], SchreibtLoeschung(s))
    BY <2>1 DEF Urteil, SchreibtLoeschung
  <2> QED BY <1>4, <2>2, BeginntUrteil DEF BeginneLoeschung
<1>5. ASSUME NEW s \in Saisons, BeginneAktivierung(a, s)
      PROVE  Urteile' /\ Dokumente'
  <2> DEFINE neu == saison[s].status = "future"
             op == [art |-> "aktivieren", s |-> s, neu |-> neu,
                    abgeloest |-> Amtierende(s), erloschen |-> Erloschene(s)]
             W == SchreibtAktivierung(s)
  <2>1. DarfAktivieren(s) /\ (Beginnt(a, op, W) \/ BeginntMitNachfrage(a, op, W))
    BY <1>5 DEF BeginneAktivierung
  <2>2. saison[s].plan /\ spieltag[s] = "datiert"
    <3>1. saison[s].plan
      BY <1>1, <2>1, GezogenHeisstGeplant DEF DarfAktivieren
    <3> QED BY <1>1, <2>1, <3>1 DEF DarfAktivieren, PlanIstGanz, TypeOK
  <2>3. (\A t \in Amtierende(s) : SaisonDok(t) \in W) /\ (\A p \in Erloschene(s) : SperreDok(p) \in W)
    BY DEF SchreibtAktivierung
  <2>4. neu => SaisonDok(s) \in W
    BY DEF SchreibtAktivierung
  <2>5. ~neu => Erloschene(s) = {}
    <3>1. ASSUME ~neu PROVE \A p \in Personen : sperre[p] # 0 => sperre[p] >= s
      BY <1>1, <2>1, <3>1 DEF DarfAktivieren, KeineVerjaehrteSperre
    <3>2. \A p \in Personen : sperre[p] \in Nat
      BY <1>1 DEF TypeOK
    <3> QED BY <3>1, <3>2, SaisonsAssumption DEF Erloschene
  <2> HIDE DEF W
  <2>6. /\ op.art = "aktivieren" /\ op.s = s /\ op.neu = neu /\ op.abgeloest = Amtierende(s)
        /\ op.erloschen = Erloschene(s)
    OBVIOUS
  <2> HIDE DEF op, neu
  <2>7. Urteil(op, W)
    BY <2>2, <2>3, <2>4, <2>5, <2>6 DEF Urteil
  <2> QED BY <2>1, <2>7, BeginntUrteil
<1>6. ASSUME NEW s \in Saisons, NEW nr \in Nrn, NEW neu \in Staende, NEW mit \in SUBSET (KoNrn \ {nr}),
             BeginneSpielSpeichern(a, s, nr, neu, mit)
      PROVE  Urteile' /\ Dokumente'
  <2>1. PICK f \in Aufloesungen(s, mit) :
          Beginnt(a, [art |-> "spiel", s |-> s,
                      staende |-> [n \in mit \cup {nr} |-> IF n = nr THEN neu ELSE f[n]]],
                  SchreibtSpiel(s, mit \cup {nr}))
    BY <1>6 DEF BeginneSpielSpeichern
  <2> DEFINE g == [n \in mit \cup {nr} |-> IF n = nr THEN neu ELSE f[n]]
  <2>2. \A n \in mit \cup {nr} : spiel[<<s, n>>] # "keins"
    <3>1. spiel[<<s, nr>>] # "keins"
      BY <1>6 DEF BeginneSpielSpeichern
    <3>2. saison[s].plan
      BY <1>1, <3>1 DEF PlanIstGanz
    <3>3. mit \subseteq Nrn
      BY NrnAssumption
    <3> QED BY <1>1, <3>2, <3>3 DEF PlanIstGanz
  <2>3. DOMAIN g = mit \cup {nr}
    OBVIOUS
  <2> HIDE DEF g
  <2>4. Urteil([art |-> "spiel", s |-> s, staende |-> g], SchreibtSpiel(s, mit \cup {nr}))
    BY <2>2, <2>3 DEF Urteil, SchreibtSpiel
  <2>5. Beginnt(a, [art |-> "spiel", s |-> s, staende |-> g], SchreibtSpiel(s, mit \cup {nr}))
    BY <2>1 DEF g
  <2> QED BY <2>4, <2>5, BeginntUrteil
<1>7. ASSUME NEW s \in Saisons, NEW nr \in Nrn, BeginneBericht(a, s, nr)
      PROVE  Urteile' /\ Dokumente'
  <2>1. Urteil([art |-> "bericht", s |-> s, nr |-> nr], SchreibtBericht(s, nr))
    BY <1>7 DEF BeginneBericht, NimmtBericht, Urteil, SchreibtBericht
  <2> QED BY <1>7, <2>1, BeginntUrteil DEF BeginneBericht
<1>8. ASSUME NEW s \in Saisons, BeginneDatierung(a, s)
      PROVE  Urteile' /\ Dokumente'
  <2>1. Urteil([art |-> "datieren", s |-> s], SchreibtDatierung(s))
    BY <1>8 DEF BeginneDatierung, Urteil, SchreibtDatierung
  <2> QED BY <1>8, <2>1, BeginntUrteil DEF BeginneDatierung
<1>9. ASSUME NEW s \in Saisons, NEW p \in Personen, BeginneSperre(a, p, s)
      PROVE  Urteile' /\ Dokumente'
  <2>1. Urteil([art |-> "sperren", p |-> p, bis |-> s + SperreDauer], SchreibtSperre(p, s))
    BY <1>9 DEF BeginneSperre, Urteil, SchreibtSperre
  <2> QED BY <1>9, <2>1, BeginntUrteil DEF BeginneSperre
<1>10. ASSUME NEW p \in Personen, BeginneEntsperrung(a, p)
       PROVE  Urteile' /\ Dokumente'
  <2>1. Urteil([art |-> "entsperren", p |-> p], SchreibtEntsperrung(p))
    BY DEF Urteil, SchreibtEntsperrung
  <2> QED BY <1>10, <2>1, BeginntUrteil DEF BeginneEntsperrung
<1> QED BY <1>2, <1>3, <1>4, <1>5, <1>6, <1>7, <1>8, <1>9, <1>10 DEF Beginne

\* No commit parts the documents of the league.
LEMMA CommitLaesstDokumenteGanz ==
  ASSUME LigaInv, NEW a \in Akteure, Schreibe(a)
  PROVE  Dokumente'
<1> DEFINE op == tx[a].op
           W == tx[a].schreibt
<1>1. /\ TypeOK /\ LebendeSaisonIstSpielbar /\ PlanIstGanz /\ BerichtHatSeinSpiel
      /\ KeineVerjaehrteSperre /\ UngeplantBisAngelegt /\ Dokumente
  BY DEF LigaInv, FolgeInv, Dokumente, DokumenteStimmen
<1>2. \A s \in Saisons : Gezogen(s) <=> saison[s].plan
  BY <1>1, GezogenHeisstGeplant
\* The reports and the bans of a season whose status and plan stay.
<1>3. ASSUME \A s \in Saisons : /\ saison'[s].status = saison[s].status /\ saison'[s].plan = saison[s].plan
                                /\ (\A nr \in Nrn : spiel'[<<s, nr>>] = "keins" <=> spiel[<<s, nr>>] = "keins")
                                /\ spieltag'[s] = spieltag[s]
                                /\ gezogen'[s] = IF saison'[s].plan THEN saison'[s].form ELSE OhneForm
      PROVE  (LebendeSaisonIstSpielbar /\ PlanIstGanz /\ UngeplantBisAngelegt)'
  BY <1>1, <1>3 DEF LebendeSaisonIstSpielbar, PlanIstGanz, UngeplantBisAngelegt, Gezogen
<1>4. ASSUME sperre' = sperre, \A s \in Saisons : saison'[s].status = "active" => saison[s].status = "active"
      PROVE  KeineVerjaehrteSperre'
  BY <1>1, <1>4 DEF KeineVerjaehrteSperre
<1>5. ASSUME bericht' = bericht, \A s \in Saisons, nr \in Nrn : spiel'[<<s, nr>>] = "keins" => spiel[<<s, nr>>] = "keins"
      PROVE  BerichtHatSeinSpiel'
  BY <1>1, <1>5 DEF BerichtHatSeinSpiel
<1>6. CASE SchreibeAnlegen(a)
  <2>1. op \in Ops /\ op.art = "anlegen"
    BY <1>6, BringtOp DEF SchreibeAnlegen, LigaInv, FolgeInv
  <2>2. op.s \in Saisons /\ saison[op.s].status = "keine" /\ ~saison[op.s].plan
    BY <1>1, <2>1, OpFelder DEF LigaInv, FolgeInv, OffenesUrteilGilt, UngeplantBisAngelegt
  <2>3. /\ saison'[op.s].status = "future" /\ saison'[op.s].plan = FALSE
        /\ \A s \in Saisons : s # op.s => saison'[s] = saison[s]
    BY <1>1, <1>6, <2>2 DEF SchreibeAnlegen, TypeOK, SaisonTyp
  <2>4. UNCHANGED <<spiel, spieltag, gezogen, bericht, sperre>>
    BY <1>6 DEF SchreibeAnlegen
  <2> HIDE DEF op
  <2>5. (LebendeSaisonIstSpielbar /\ PlanIstGanz /\ UngeplantBisAngelegt)'
    BY <1>1, <2>2, <2>3, <2>4 DEF LebendeSaisonIstSpielbar, PlanIstGanz, UngeplantBisAngelegt, Gezogen
  <2>6. (KeineVerjaehrteSperre /\ BerichtHatSeinSpiel)'
    BY <1>4, <1>5, <2>3, <2>4
  <2> QED BY <2>5, <2>6 DEF Dokumente, DokumenteStimmen
<1>7. CASE SchreibeRegeln(a)
  <2>1. op \in Ops /\ op.art = "regeln" /\ Urteil(op, W)
    BY <1>7, BringtUrteil DEF SchreibeRegeln
  <2>2. op.s \in Saisons /\ ~saison[op.s].plan
    BY <2>1, OpFelder DEF Urteil
  <2>3. /\ \A s \in Saisons : saison'[s].status = saison[s].status /\ saison'[s].plan = saison[s].plan
        /\ \A s \in Saisons : s # op.s => saison'[s] = saison[s]
    BY <1>1, <1>7, <2>2 DEF SchreibeRegeln, TypeOK, SaisonTyp
  <2>4. UNCHANGED <<spiel, spieltag, gezogen, bericht, sperre>>
    BY <1>7 DEF SchreibeRegeln
  <2> HIDE DEF op
  <2>5. (LebendeSaisonIstSpielbar /\ PlanIstGanz /\ UngeplantBisAngelegt)'
    BY <1>1, <1>3, <2>2, <2>3, <2>4 DEF PlanIstGanz
  <2>6. (KeineVerjaehrteSperre /\ BerichtHatSeinSpiel)'
    BY <1>4, <1>5, <2>3, <2>4
  <2> QED BY <2>5, <2>6 DEF Dokumente, DokumenteStimmen
<1>8. CASE SchreibeZiehung(a)
  <2>1. op \in Ops /\ op.art = "ziehen" /\ Urteil(op, W)
    BY <1>8, BringtUrteil DEF SchreibeZiehung
  <2>2. op.s \in Saisons /\ saison[op.s].status = "future" /\ \A nr \in Nrn : ~bericht[<<op.s, nr>>]
    BY <2>1, OpFelder DEF Urteil
  <2>3. /\ saison'[op.s].status = "future" /\ saison'[op.s].plan = TRUE /\ saison'[op.s].form = op.form
        /\ gezogen'[op.s] = op.form /\ spieltag'[op.s] = "undatiert"
    BY <1>1, <1>8, <2>2 DEF SchreibeZiehung, TypeOK, SaisonTyp
  <2>4. \A s \in Saisons : s # op.s => saison'[s] = saison[s] /\ gezogen'[s] = gezogen[s] /\ spieltag'[s] = spieltag[s]
    BY <1>1, <1>8, <2>2 DEF SchreibeZiehung, TypeOK, SaisonTyp
  <2>5. \A s \in Saisons, nr \in Nrn : spiel'[<<s, nr>>] = IF s = op.s THEN "frei" ELSE spiel[<<s, nr>>]
    BY <1>1, <1>8 DEF SchreibeZiehung, TypeOK
  <2>6. \A s \in Saisons, nr \in Nrn : bericht'[<<s, nr>>] => bericht[<<s, nr>>] 
    BY <1>1, <1>8, Zenon DEF SchreibeZiehung, TypeOK
  <2>7. sperre' = sperre
    BY <1>8 DEF SchreibeZiehung
  <2> HIDE DEF op
  <2>8. (LebendeSaisonIstSpielbar /\ PlanIstGanz /\ UngeplantBisAngelegt)'
    BY <1>1, <2>2, <2>3, <2>4, <2>5 DEF LebendeSaisonIstSpielbar, PlanIstGanz, UngeplantBisAngelegt, Gezogen
  <2>9. BerichtHatSeinSpiel'
    BY <1>1, <2>5, <2>6 DEF BerichtHatSeinSpiel
  <2>10. KeineVerjaehrteSperre'
    BY <1>4, <2>2, <2>3, <2>4, <2>7
  <2> QED BY <2>8, <2>9, <2>10 DEF Dokumente, DokumenteStimmen
<1>9. CASE SchreibeLoeschung(a)
  <2>1. op \in Ops /\ op.art = "loeschen" /\ Urteil(op, W)
    BY <1>9, BringtUrteil DEF SchreibeLoeschung
  <2>2. op.s \in Saisons /\ saison[op.s].status = "future" /\ \A nr \in Nrn : ~bericht[<<op.s, nr>>]
    BY <2>1, OpFelder DEF Urteil
  <2>3. /\ saison'[op.s].status = "future" /\ saison'[op.s].plan = FALSE
        /\ gezogen'[op.s] = OhneForm /\ spieltag'[op.s] = "keiner"
    BY <1>1, <1>9, <2>2 DEF SchreibeLoeschung, TypeOK, SaisonTyp
  <2>4. \A s \in Saisons : s # op.s => saison'[s] = saison[s] /\ gezogen'[s] = gezogen[s] /\ spieltag'[s] = spieltag[s]
    BY <1>1, <1>9, <2>2 DEF SchreibeLoeschung, TypeOK, SaisonTyp
  <2>5. \A s \in Saisons, nr \in Nrn : spiel'[<<s, nr>>] = IF s = op.s THEN "keins" ELSE spiel[<<s, nr>>]
    BY <1>1, <1>9 DEF SchreibeLoeschung, TypeOK
  <2>6. \A s \in Saisons, nr \in Nrn : bericht'[<<s, nr>>] => bericht[<<s, nr>>]
    BY <1>1, <1>9, Zenon DEF SchreibeLoeschung, TypeOK
  <2>7. sperre' = sperre
    BY <1>9 DEF SchreibeLoeschung
  <2> HIDE DEF op
  <2>8. (LebendeSaisonIstSpielbar /\ PlanIstGanz /\ UngeplantBisAngelegt)'
    BY <1>1, <2>2, <2>3, <2>4, <2>5 DEF LebendeSaisonIstSpielbar, PlanIstGanz, UngeplantBisAngelegt, Gezogen
  <2>9. BerichtHatSeinSpiel'
    BY <1>1, <2>2, <2>5, <2>6 DEF BerichtHatSeinSpiel
  <2>10. KeineVerjaehrteSperre'
    BY <1>4, <2>2, <2>3, <2>4, <2>7
  <2> QED BY <2>8, <2>9, <2>10 DEF Dokumente, DokumenteStimmen
<1>10. CASE SchreibeAktivierung(a)
  <2>1. op \in Ops /\ op.art = "aktivieren" /\ Urteil(op, W)
    BY <1>10, BringtUrteil DEF SchreibeAktivierung
  <2>2. /\ op.s \in Saisons /\ op.neu \in BOOLEAN
        /\ op.neu => /\ saison[op.s].status = "future" /\ saison[op.s].plan /\ spieltag[op.s] = "datiert"
                     /\ op.abgeloest = {t \in Saisons : saison[t].status = "active"}
                     /\ op.erloschen = Erloschene(op.s)
        /\ ~op.neu => op.abgeloest = {} /\ op.erloschen = {}
    BY <2>1, OpFelder DEF Urteil, LigaInv, FolgeInv, OffenesUrteilGilt
  <2>3. \A s \in Saisons :
          saison'[s] = IF s = op.s /\ op.neu THEN [saison[s] EXCEPT !.status = "active"]
                       ELSE IF s \in op.abgeloest THEN [saison[s] EXCEPT !.status = "past"]
                       ELSE saison[s]
    BY <1>10 DEF SchreibeAktivierung
  <2>4. \A p \in Personen : sperre'[p] = IF p \in op.erloschen THEN 0 ELSE sperre[p]
    BY <1>10 DEF SchreibeAktivierung
  <2>5. UNCHANGED <<spiel, spieltag, gezogen, bericht>>
    BY <1>10 DEF SchreibeAktivierung
  <2> HIDE DEF op
  <2>6. BerichtHatSeinSpiel'
    BY <1>5, <2>5
  <2>7. CASE ~op.neu
    <3>1. (\A s \in Saisons : saison'[s] = saison[s]) /\ \A p \in Personen : sperre'[p] = sperre[p]
      BY <2>2, <2>3, <2>4, <2>7
    <3>2. (LebendeSaisonIstSpielbar /\ PlanIstGanz /\ UngeplantBisAngelegt)'
      BY <1>1, <1>3, <2>5, <3>1 DEF PlanIstGanz
    <3>3. KeineVerjaehrteSperre'
      BY <1>1, <3>1 DEF KeineVerjaehrteSperre
    <3> QED BY <2>6, <3>2, <3>3 DEF Dokumente, DokumenteStimmen
  <2>8. CASE op.neu
    <3>1. ASSUME NEW s \in Saisons
          PROVE  /\ saison'[s].plan = saison[s].plan /\ saison'[s].form = saison[s].form
                 /\ s = op.s => saison'[s].status = "active"
                 /\ s # op.s /\ saison[s].status = "active" => saison'[s].status = "past"
                 /\ s # op.s /\ saison[s].status # "active" => saison'[s].status = saison[s].status
      <4>1. saison[s] \in [status : Status, form : Formen \cup {OhneForm}, plan : BOOLEAN]
        BY <1>1 DEF TypeOK, SaisonTyp
      <4>2. s \in op.abgeloest <=> saison[s].status = "active"
        BY <2>2, <2>8
      <4>3. CASE s = op.s
        <5>1. saison'[s] = [saison[s] EXCEPT !.status = "active"]
          BY <2>3, <2>8, <4>3
        <5> QED BY <4>1, <4>3, <5>1
      <4>4. CASE s # op.s /\ saison[s].status = "active"
        BY <2>3, <4>1, <4>2, <4>4
      <4>5. CASE s # op.s /\ saison[s].status # "active"
        BY <2>3, <4>2, <4>5
      <4> QED BY <4>3, <4>4, <4>5
    <3>2. PlanIstGanz'
      BY <1>1, <2>5, <3>1 DEF PlanIstGanz
    <3>3. LebendeSaisonIstSpielbar'
      BY <1>1, <1>2, <2>2, <2>5, <2>8, <3>1 DEF LebendeSaisonIstSpielbar, Gezogen
    <3>4. UngeplantBisAngelegt'
      BY <1>1, <3>1 DEF UngeplantBisAngelegt
    <3>5. KeineVerjaehrteSperre'
      <4>1. SUFFICES ASSUME NEW p \in Personen, sperre'[p] # 0 PROVE sperre'[p] >= op.s
        BY <3>1 DEF KeineVerjaehrteSperre
      <4>2. p \notin Erloschene(op.s) /\ sperre'[p] = sperre[p]
        BY <2>2, <2>4, <2>8, <4>1
      <4>3. sperre[p] \in Nat /\ op.s \in Nat
        BY <1>1, <2>2, SaisonsAssumption DEF TypeOK
      <4> QED BY <4>1, <4>2, <4>3 DEF Erloschene
    <3> QED BY <2>6, <3>2, <3>3, <3>4, <3>5 DEF Dokumente, DokumenteStimmen
  <2> QED BY <2>2, <2>7, <2>8
<1>11. CASE SchreibeSpiel(a)
  <2>1. op \in Ops /\ op.art = "spiel" /\ Urteil(op, W)
    BY <1>11, BringtUrteil DEF SchreibeSpiel
  <2>2. /\ op.s \in Saisons /\ op.staende \in [DOMAIN op.staende -> Staende]
        /\ \A nr \in DOMAIN op.staende : spiel[<<op.s, nr>>] # "keins"
    BY <2>1, OpFelder DEF Urteil
  <2>3. \A s \in Saisons, nr \in Nrn :
          spiel'[<<s, nr>>] = IF s = op.s /\ nr \in DOMAIN op.staende THEN op.staende[nr] ELSE spiel[<<s, nr>>]
    BY <1>1, <1>11 DEF SchreibeSpiel, TypeOK
  <2>4. UNCHANGED <<saison, spieltag, gezogen, bericht, sperre>>
    BY <1>11 DEF SchreibeSpiel
  <2> HIDE DEF op
  <2>5. \A s \in Saisons, nr \in Nrn : spiel'[<<s, nr>>] = "keins" <=> spiel[<<s, nr>>] = "keins"
    BY <2>2, <2>3 DEF Staende
  <2>6. (LebendeSaisonIstSpielbar /\ PlanIstGanz /\ UngeplantBisAngelegt)'
    BY <1>1, <1>3, <2>4, <2>5 DEF PlanIstGanz
  <2> QED BY <1>4, <1>5, <2>4, <2>5, <2>6 DEF Dokumente, DokumenteStimmen
<1>12. CASE SchreibeBericht(a)
  <2>1. op \in Ops /\ op.art = "bericht" /\ Urteil(op, W)
    BY <1>12, BringtUrteil DEF SchreibeBericht
  <2>2. op.s \in Saisons /\ op.nr \in Nrn /\ spiel[<<op.s, op.nr>>] # "keins"
    BY <2>1, OpFelder DEF Urteil
  <2>3. \A s \in Saisons, nr \in Nrn : bericht'[<<s, nr>>] => bericht[<<s, nr>>] \/ (s = op.s /\ nr = op.nr)
    BY <1>1, <1>12 DEF SchreibeBericht, TypeOK
  <2>4. UNCHANGED <<saison, spiel, spieltag, gezogen, sperre>>
    BY <1>12 DEF SchreibeBericht
  <2> HIDE DEF op
  <2>5. BerichtHatSeinSpiel'
    BY <1>1, <2>2, <2>3, <2>4 DEF BerichtHatSeinSpiel
  <2>6. (LebendeSaisonIstSpielbar /\ PlanIstGanz /\ UngeplantBisAngelegt)'
    BY <1>1, <1>3, <2>4 DEF PlanIstGanz
  <2> QED BY <1>4, <2>4, <2>5, <2>6 DEF Dokumente, DokumenteStimmen
<1>13. CASE SchreibeDatierung(a)
  <2>1. op \in Ops /\ op.art = "datieren" /\ Urteil(op, W)
    BY <1>13, BringtUrteil DEF SchreibeDatierung
  <2>2. op.s \in Saisons /\ spieltag[op.s] = "undatiert"
    BY <2>1, OpFelder DEF Urteil
  <2>3. \A s \in Saisons : spieltag'[s] = IF s = op.s THEN "datiert" ELSE spieltag[s]
    BY <1>1, <1>13 DEF SchreibeDatierung, TypeOK
  <2>4. UNCHANGED <<saison, spiel, gezogen, bericht, sperre>>
    BY <1>13 DEF SchreibeDatierung
  <2> HIDE DEF op
  <2>5. (LebendeSaisonIstSpielbar /\ PlanIstGanz /\ UngeplantBisAngelegt)'
    BY <1>1, <2>2, <2>3, <2>4 DEF LebendeSaisonIstSpielbar, PlanIstGanz, UngeplantBisAngelegt, Gezogen
  <2> QED BY <1>4, <1>5, <2>4, <2>5 DEF Dokumente, DokumenteStimmen
<1>14. CASE SchreibeSperre(a)
  <2>1. op \in Ops /\ op.art = "sperren" /\ Urteil(op, W)
    BY <1>14, BringtUrteil DEF SchreibeSperre
  <2>2. PICK t \in Saisons : saison[t].status = "active" /\ op.bis = t + SperreDauer
    BY <2>1 DEF Urteil
  <2>3. \A p \in Personen : sperre'[p] = sperre[p] \/ sperre'[p] = op.bis
    BY <1>1, <1>14 DEF SchreibeSperre, TypeOK
  <2>4. UNCHANGED <<saison, spiel, spieltag, gezogen, bericht>>
    BY <1>14 DEF SchreibeSperre
  <2> HIDE DEF op
  <2>5. KeineVerjaehrteSperre'
    <3>1. \A s \in Saisons : saison[s].status = "active" => s = t
      BY <2>2 DEF LigaInv, FolgeInv, HoechstensEineAktiv
    <3>2. op.bis >= t
      BY <2>2, SaisonsAssumption, SperreDauerAssumption
    <3> QED BY <1>1, <2>3, <2>4, <3>1, <3>2 DEF KeineVerjaehrteSperre
  <2>6. (LebendeSaisonIstSpielbar /\ PlanIstGanz /\ UngeplantBisAngelegt)'
    BY <1>1, <1>3, <2>4 DEF PlanIstGanz
  <2> QED BY <1>5, <2>4, <2>5, <2>6 DEF Dokumente, DokumenteStimmen
<1>15. CASE SchreibeEntsperrung(a)
  <2>1. \A p \in Personen : sperre'[p] \in {0, sperre[p]}
    BY <1>1, <1>15 DEF SchreibeEntsperrung, TypeOK
  <2>2. UNCHANGED <<saison, spiel, spieltag, gezogen, bericht>>
    BY <1>15 DEF SchreibeEntsperrung
  <2>3. KeineVerjaehrteSperre'
    BY <1>1, <2>1, <2>2 DEF KeineVerjaehrteSperre
  <2>4. (LebendeSaisonIstSpielbar /\ PlanIstGanz /\ UngeplantBisAngelegt)'
    BY <1>1, <1>3, <2>2 DEF PlanIstGanz
  <2> QED BY <1>5, <2>2, <2>3, <2>4 DEF Dokumente, DokumenteStimmen
<1> QED BY <1>6, <1>7, <1>8, <1>9, <1>10, <1>11, <1>12, <1>13, <1>14, <1>15 DEF Schreibe

\* Nothing is taken away by any commit from what its request judged.
Gewahrt ==
  VergangenesSteht /\ KeinErsterBerichtNachSchluss /\ SperreHaeltIhreSaisons /\ NichtsVermerktesGehtVerloren

\* A transaction ready to remove fixtures has judged each of them untouched and unreported.
LEMMA NichtsVermerktes ==
  ASSUME LigaInv
  PROVE  NichtsVermerktesGehtVerloren
<1> SUFFICES ASSUME NEW a \in Akteure, SchreibeZiehung(a) \/ SchreibeLoeschung(a), NEW nr \in Nrn
             PROVE  /\ spiel[<<tx[a].op.s, nr>>] \in {"keins", "frei"} /\ ~bericht[<<tx[a].op.s, nr>>]
  BY DEF NichtsVermerktesGehtVerloren
<1>1. tx[a].op.art \in {"ziehen", "loeschen"} /\ Urteil(tx[a].op, tx[a].schreibt)
  BY BringtUrteil DEF SchreibeZiehung, SchreibeLoeschung
<1> QED BY <1>1 DEF Urteil

LEMMA RuheWahrt ==
  ASSUME LigaInv, UNCHANGED daten
  PROVE  Gewahrt
<1>1. TypeOK /\ LebendeSaisonIstSpielbar /\ PlanIstGanz
  BY DEF LigaInv, FolgeInv, Dokumente, DokumenteStimmen
<1>2. VergangenesSteht
  <2>1. ASSUME NEW s \in Saisons, saison[s].status = "past" PROVE \A nr \in Nrn : spiel[<<s, nr>>] # "keins"
    BY <1>1, <2>1 DEF LebendeSaisonIstSpielbar, PlanIstGanz, Gezogen
  <2> QED BY <2>1 DEF VergangenesSteht, daten
<1>3. KeinErsterBerichtNachSchluss /\ SperreHaeltIhreSaisons
  BY DEF KeinErsterBerichtNachSchluss, SperreHaeltIhreSaisons, daten
<1> QED BY <1>2, <1>3, NichtsVermerktes DEF Gewahrt

LEMMA CommitWahrt ==
  ASSUME LigaInv, NEW a \in Akteure, Schreibe(a)
  PROVE  Gewahrt
<1> DEFINE op == tx[a].op
           W == tx[a].schreibt
<1>1. TypeOK /\ LebendeSaisonIstSpielbar /\ PlanIstGanz /\ Dokumente /\ NurEigenes(W)
  BY CommitSchreibtNurEigenes DEF LigaInv, FolgeInv, Dokumente, DokumenteStimmen
\* No open transaction writes the document of a closed season but to leave it as it is.
<1>2. ASSUME NEW s \in Saisons, saison[s].status = "past"
      PROVE  /\ saison'[s] = saison[s] /\ gezogen'[s] = gezogen[s] /\ spieltag'[s] = spieltag[s]
             /\ \A nr \in Nrn : spiel'[<<s, nr>>] # "keins"
  <2>1. saison[s].plan /\ spieltag[s] = "datiert" /\ \A nr \in Nrn : spiel[<<s, nr>>] # "keins"
    BY <1>1, <1>2, GezogenHeisstGeplant DEF LebendeSaisonIstSpielbar, PlanIstGanz
  <2> DEFINE Steht == /\ saison'[s] = saison[s] /\ gezogen'[s] = gezogen[s] /\ spieltag'[s] = spieltag[s]
                      /\ \A nr \in Nrn : spiel'[<<s, nr>>] = "keins" <=> spiel[<<s, nr>>] = "keins"
  <2>2. CASE SchreibeAnlegen(a) \/ SchreibeRegeln(a) \/ SchreibeZiehung(a) \/ SchreibeLoeschung(a) \/ SchreibeDatierung(a)
    <3>1. op \in Ops /\ op.art \in {"anlegen", "regeln", "ziehen", "loeschen", "datieren"} /\ Urteil(op, W)
      BY <2>2, BringtUrteil DEF SchreibeAnlegen, SchreibeRegeln, SchreibeZiehung, SchreibeLoeschung, SchreibeDatierung
    <3>2. op.s \in Saisons
      BY <3>1, OpFelder
    <3>3. op.art = "anlegen" => saison[op.s].status = "keine"
      BY DEF LigaInv, FolgeInv, OffenesUrteilGilt
    <3> HIDE DEF op
    <3>4. op.s # s
      BY <1>2, <2>1, <3>1, <3>3 DEF Urteil
    <3>5. saison'[s] = saison[s] /\ gezogen'[s] = gezogen[s] /\ spieltag'[s] = spieltag[s]
      BY <1>1, <2>2, <3>2, <3>4 DEF SchreibeAnlegen, SchreibeRegeln, SchreibeZiehung, SchreibeLoeschung,
         SchreibeDatierung, TypeOK, SaisonTyp, op
    <3>6. \A nr \in Nrn : spiel'[<<s, nr>>] = spiel[<<s, nr>>]
      BY <1>1, <2>2, <3>4 DEF SchreibeAnlegen, SchreibeRegeln, SchreibeZiehung, SchreibeLoeschung,
         SchreibeDatierung, TypeOK, op
    <3> QED BY <2>1, <3>5, <3>6
  <2>3. CASE SchreibeAktivierung(a)
    <3>1. op \in Ops /\ op.art = "aktivieren"
      BY <2>3, BringtUrteil DEF SchreibeAktivierung
    <3>2. /\ op.neu => saison[op.s].status = "future" /\ op.abgeloest = {t \in Saisons : saison[t].status = "active"}
          /\ ~op.neu => op.abgeloest = {}
      BY <3>1 DEF LigaInv, FolgeInv, OffenesUrteilGilt
    <3> HIDE DEF op
    <3>3. ~(s = op.s /\ op.neu) /\ s \notin op.abgeloest
      BY <1>2, <3>2
    <3>4. saison'[s] = saison[s]
      BY <2>3, <3>3 DEF SchreibeAktivierung, op
    <3> QED BY <2>1, <2>3, <3>4 DEF SchreibeAktivierung
  <2>4. CASE SchreibeSpiel(a)
    <3>1. op \in Ops /\ op.art = "spiel"
      BY <2>4, BringtUrteil DEF SchreibeSpiel
    <3>2. op.staende \in [DOMAIN op.staende -> Staende]
      BY <3>1, OpFelder
    <3>3. \A nr \in Nrn : spiel'[<<s, nr>>] \in Staende \cup {spiel[<<s, nr>>]}
      BY <1>1, <2>4, <3>2 DEF SchreibeSpiel, TypeOK
    <3> QED BY <2>1, <2>4, <3>3 DEF SchreibeSpiel, Staende
  <2>5. CASE SchreibeBericht(a) \/ SchreibeSperre(a) \/ SchreibeEntsperrung(a)
    BY <2>1, <2>5 DEF SchreibeBericht, SchreibeSperre, SchreibeEntsperrung
  <2> QED BY <2>2, <2>3, <2>4, <2>5 DEF Schreibe
<1>3. ASSUME NEW s \in Saisons, NEW nr \in Nrn, ~bericht[<<s, nr>>], bericht'[<<s, nr>>]
      PROVE  saison[s].status # "past"
  <2>1. CASE SchreibeBericht(a)
    <3>1. op \in Ops /\ op.art = "bericht" /\ Urteil(op, W)
      BY <2>1, BringtUrteil DEF SchreibeBericht
    <3>2. saison[op.s].status # "past"
      BY <3>1 DEF Urteil
    <3>3. s = op.s
      BY <1>1, <1>3, <2>1 DEF SchreibeBericht, TypeOK
    <3> QED BY <3>2, <3>3
  <2>2. CASE SchreibeZiehung(a) \/ SchreibeLoeschung(a)
    BY <1>1, <1>3, <2>2, Zenon DEF SchreibeZiehung, SchreibeLoeschung, TypeOK
  <2>3. CASE bericht' = bericht
    BY <1>3, <2>3
  <2> QED BY <2>1, <2>2, <2>3 DEF Schreibe, SchreibeAnlegen, SchreibeRegeln, SchreibeAktivierung, SchreibeSpiel,
             SchreibeDatierung, SchreibeSperre, SchreibeEntsperrung
<1>4. ASSUME NEW p \in Personen, sperre[p] # 0, sperre'[p] = 0
      PROVE  \/ \E b \in Akteure : SchreibeEntsperrung(b)
             \/ \A s \in Saisons : saison'[s].status = "active" => sperre[p] < s
  <2>1. CASE SchreibeEntsperrung(a)
    BY <2>1
  <2>2. CASE SchreibeSperre(a)
    <3>1. op.art = "sperren" /\ Urteil(op, W)
      BY <2>2, BringtUrteil DEF SchreibeSperre
    <3>2. op.bis # 0
      BY <3>1, SaisonsAssumption, SperreDauerAssumption DEF Urteil
    <3> QED BY <1>1, <1>4, <2>2, <3>2 DEF SchreibeSperre, TypeOK
  <2>3. CASE SchreibeAktivierung(a)
    <3>1. op \in Ops /\ op.art = "aktivieren" /\ Urteil(op, W)
      BY <2>3, BringtUrteil DEF SchreibeAktivierung
    <3>2. /\ op.s \in Saisons /\ op.neu \in BOOLEAN
          /\ op.neu => /\ op.abgeloest = {t \in Saisons : saison[t].status = "active"}
                       /\ op.erloschen = Erloschene(op.s)
          /\ ~op.neu => op.erloschen = {}
      BY <3>1, OpFelder DEF Urteil, LigaInv, FolgeInv, OffenesUrteilGilt
    <3>3. p \in op.erloschen
      BY <1>4, <2>3 DEF SchreibeAktivierung
    <3>4. op.neu /\ sperre[p] < op.s
      BY <3>2, <3>3 DEF Erloschene
    <3>5. \A s \in Saisons :
            saison'[s] = IF s = op.s /\ op.neu THEN [saison[s] EXCEPT !.status = "active"]
                         ELSE IF s \in op.abgeloest THEN [saison[s] EXCEPT !.status = "past"]
                         ELSE saison[s]
      BY <2>3 DEF SchreibeAktivierung
    <3> HIDE DEF op
    <3>6. ASSUME NEW s \in Saisons, s # op.s PROVE saison'[s].status # "active"
      <4>1. CASE s \in op.abgeloest
        <5>1. saison'[s] = [saison[s] EXCEPT !.status = "past"]
          BY <3>5, <3>6, <4>1
        <5>2. saison[s] \in [status : Status, form : Formen \cup {OhneForm}, plan : BOOLEAN]
          BY <1>1 DEF TypeOK, SaisonTyp
        <5> QED BY <5>1, <5>2
      <4>2. CASE s \notin op.abgeloest
        <5>1. saison'[s] = saison[s]
          BY <3>5, <3>6, <4>2
        <5>2. s \notin {t \in Saisons : saison[t].status = "active"}
          BY <3>2, <3>4, <4>2
        <5> QED BY <5>1, <5>2
      <4> QED BY <4>1, <4>2
    <3> QED BY <3>4, <3>6
  <2>4. CASE sperre' = sperre
    BY <1>4, <2>4
  <2> QED BY <2>1, <2>2, <2>3, <2>4 DEF Schreibe, SchreibeAnlegen, SchreibeRegeln, SchreibeZiehung, SchreibeLoeschung,
             SchreibeSpiel, SchreibeBericht, SchreibeDatierung
<1> QED BY <1>2, <1>3, <1>4, NichtsVermerktes
        DEF Gewahrt, VergangenesSteht, KeinErsterBerichtNachSchluss, SperreHaeltIhreSaisons

\* Every step keeps the documents together, and takes nothing away.
LEMMA LigaSchritt ==
  ASSUME LigaInv, [Next]_vars
  PROVE  LigaInv' /\ Gewahrt
<1>1. FolgeInv'
  BY FolgeSchritt DEF LigaInv
\* A step that stores nothing and opens nothing.
<1>2. ASSUME UNCHANGED daten,
             \A b \in Akteure : tx'[b] = Frei \/ (tx'[b].op = tx[b].op /\ tx'[b].schreibt = tx[b].schreibt)
      PROVE  LigaInv' /\ Gewahrt
  <2>1. ASSUME NEW b \in Akteure PROVE Urteil(tx[b].op, tx[b].schreibt)'
    BY <1>2, FreiUrteilt, UrteilRuht
  <2>2. Dokumente'
    BY <1>2, DokumenteRuhen DEF LigaInv
  <2> QED BY <1>1, <1>2, <2>1, <2>2, RuheWahrt DEF LigaInv, Urteile
<1>3. CASE UNCHANGED vars
  BY <1>2, <1>3 DEF vars
<1>4. ASSUME NEW a \in Akteure, Beginne(a) PROVE LigaInv' /\ Gewahrt
  <2>1. UNCHANGED daten
    BY <1>4 DEF Beginne, BeginneAnlegen, BeginneRegeln, BeginneZiehung, BeginneLoeschung,
       BeginneAktivierung, BeginneSpielSpeichern, BeginneBericht, BeginneDatierung,
       BeginneSperre, BeginneEntsperrung, Beginnt, BeginntMitNachfrage
  <2> QED BY <1>1, <1>4, <2>1, BeginneUrteil, RuheWahrt DEF LigaInv
<1>5. ASSUME NEW a \in Akteure, FrageNach(a) PROVE LigaInv' /\ Gewahrt
  <2>1. \A b \in Akteure : b # a => tx'[b] = tx[b]
    BY <1>5 DEF FrageNach, LigaInv, FolgeInv, TypeOK
  <2>2. tx'[a] = [tx[a] EXCEPT !.phase = "bereit"]
    BY <1>5 DEF FrageNach, LigaInv, FolgeInv, TypeOK
  <2>3. tx'[a].op = tx[a].op /\ tx'[a].schreibt = tx[a].schreibt
    BY <2>2
  <2> QED BY <1>2, <1>5, <2>1, <2>3 DEF FrageNach
<1>6. ASSUME NEW a \in Akteure, Abbruch(a) PROVE LigaInv' /\ Gewahrt
  <2>1. \A b \in Akteure : tx'[b] = Frei \/ tx'[b] = tx[b]
    BY <1>6 DEF Abbruch, LigaInv, FolgeInv, TypeOK
  <2> QED BY <1>2, <1>6, <2>1 DEF Abbruch
<1>7. ASSUME NEW a \in Akteure, Schreibe(a) PROVE LigaInv' /\ Gewahrt
  <2>1. Schreibt(a)
    BY <1>7 DEF Schreibe, SchreibeAnlegen, SchreibeRegeln, SchreibeZiehung, SchreibeLoeschung, SchreibeAktivierung,
       SchreibeSpiel, SchreibeBericht, SchreibeDatierung, SchreibeSperre, SchreibeEntsperrung
  <2>2. \A b \in Akteure : tx'[b] = Frei \/ (tx'[b] = tx[b] /\ ~Kollidiert(tx[a], tx[b]))
    BY <2>1, TxSchreibt DEF LigaInv, FolgeInv
  <2>3. NurEigenes(tx[a].schreibt)
    BY <1>7, CommitSchreibtNurEigenes
  <2>4. ASSUME NEW b \in Akteure PROVE Urteil(tx[b].op, tx[b].schreibt)'
    <3>1. CASE tx'[b] = Frei
      BY <3>1, FreiUrteilt
    <3>2. CASE tx'[b] # Frei
      BY <2>2, <2>3, <3>2, UrteilUeberlebt
    <3> QED BY <3>1, <3>2
  <2>5. Dokumente'
    BY <1>7, CommitLaesstDokumenteGanz
  <2> QED BY <1>1, <1>7, <2>4, <2>5, CommitWahrt DEF LigaInv, Urteile
<1> QED BY <1>3, <1>4, <1>5, <1>6, <1>7 DEF Next

LEMMA LigaAnfang == Init => LigaInv
<1> SUFFICES ASSUME Init PROVE LigaInv
  OBVIOUS
<1>1. Urteile
  BY DEF Init, Urteile, Urteil, Frei, KeinOp
<1>2. Dokumente
  BY DEF Init, Dokumente, DokumenteStimmen, UngeplantBisAngelegt, LebendeSaisonIstSpielbar, PlanIstGanz,
     BerichtHatSeinSpiel, KeineVerjaehrteSperre
<1> QED BY <1>1, <1>2, FolgeAnfang DEF LigaInv

\* A live season can be played, a plan is whole and of its season's shape, no report loses its
\* fixture and no ban outlives its seasons (I46, I110, I833, I274), for any number of requests:
\* each of the handlers anchors the season document its judgement hangs on.
THEOREM DokumenteHaengenZusammen == Spec => []DokumenteStimmen
<1>1. LigaInv /\ [Next]_vars => LigaInv'
  BY LigaSchritt
<1>2. LigaInv => DokumenteStimmen
  BY DEF LigaInv, Dokumente
<1> QED BY LigaAnfang, <1>1, <1>2, PTL DEF Spec

\* A commit never moves a closed season, stores a first report into one, erases a ban still due
\* or removes a fixture somebody recorded something of (REQ-BERICHT-007, REQ-SPIELPLAN-005 to 007).
THEOREM NichtsVerloren == Spec => NichtsGehtVerloren
<1>1. LigaInv /\ [Next]_vars
        => LigaInv' /\ [VergangenesSteht /\ KeinErsterBerichtNachSchluss
                        /\ SperreHaeltIhreSaisons /\ NichtsVermerktesGehtVerloren]_vars
  BY LigaSchritt DEF Gewahrt
<1> QED BY LigaAnfang, <1>1, PTL DEF Spec, NichtsGehtVerloren
=============================================================================
