---------------------------- MODULE SitzungenProofs ----------------------------
(***************************************************************************)
(* Proofs about module Sitzungen, for any number of sign-ins, passkeys and *)
(* removals, any length of the windows and any last instant.               *)
(***************************************************************************)
EXTENDS Sitzungen, FiniteSetTheorems, TLAPS

-----------------------------------------------------------------------------
\* Type correctness.

LEMMA RuhendTyp == Ruhend \in Anlauf
BY ZahlenAssumption DEF Ruhend, Anlauf, Schritte, Faktoren, Instants

\* A refused sign-in has the shape of one.
LEMMA VerworfenTyp == Verworfen \in Anlauf /\ Verworfen.schritt = "verworfen"
BY RuhendTyp DEF Verworfen, Anlauf, Schritte

\* A step of one sign-in leaves the record of every sign-in in shape.
LEMMA SetzeTyp ==
  ASSUME TypeOK, NEW a \in Anmeldungen, NEW n \in Anlauf, Setze(a, n)
  PROVE  anlauf' \in [Anmeldungen -> Anlauf]
BY DEF TypeOK, Setze

\* Deleting rows leaves the rest in shape.
LEMMA OhneTyp ==
  ASSUME TypeOK, NEW weg
  PROVE  Ohne(weg) \in [Anmeldungen -> Zeile \cup {Keine}]
BY DEF TypeOK, Ohne

\* The account at the start.
LEMMA TypAmAnfang == Init => TypeOK
<1> SUFFICES ASSUME Init PROVE TypeOK
  OBVIOUS
<1>1. PICK l \in Lagen :
        /\ uhr = l.seit
        /\ verwaltung = l.verwaltung
        /\ passkeys = l.passkeys
        /\ vorgaenge = l.vorgaenge
        /\ sitzung = [s \in Anmeldungen |->
             IF s # Angemeldet THEN Keine
             ELSE [seit |-> l.seit, zuletzt |-> l.seit, id |-> 0,
                   faktor |-> IF l.passkey = Keine THEN "code" ELSE "passkey",
                   passkey |-> l.passkey, ersetzt |-> Keine, adminLapsed |-> FALSE]]
        /\ anlauf = [a \in Anmeldungen |->
             IF a = Angemeldet THEN [Ruhend EXCEPT !.schritt = "fertig"]
             ELSE [Ruhend EXCEPT !.schritt = IF a \in l.anmeldungen THEN "frei" ELSE "verworfen"]]
        /\ genutzt = [s \in Anmeldungen |-> l.seit]
  BY DEF Init
<1>2. /\ verwaltung \in BOOLEAN /\ passkeys \subseteq Passkeys /\ vorgaenge \subseteq Vorgaenge
      /\ uhr \in 1 .. MaxUhr
  BY <1>1, LagenAssumption DEF Vorgaenge
<1>3. l.passkey \in Passkeys \cup {Keine} /\ l.seit \in Instants
  BY LagenAssumption, ZahlenAssumption DEF Instants
<1>4. sitzung \in [Anmeldungen -> Zeile \cup {Keine}] /\ genutzt \in [Anmeldungen -> Instants]
  <2>1. [seit |-> l.seit, zuletzt |-> l.seit, id |-> 0,
         faktor |-> IF l.passkey = Keine THEN "code" ELSE "passkey",
         passkey |-> l.passkey, ersetzt |-> Keine, adminLapsed |-> FALSE] \in Zeile
    BY <1>3, ZahlenAssumption DEF Zeile, Instants, Faktoren
  <2> QED BY <1>1, <1>3, <2>1
<1>5. /\ [Ruhend EXCEPT !.schritt = "fertig"] \in Anlauf
      /\ \A x \in {"frei", "verworfen"} : [Ruhend EXCEPT !.schritt = x] \in Anlauf
  BY RuhendTyp DEF Anlauf, Schritte
<1>6. anlauf \in [Anmeldungen -> Anlauf]
  BY <1>1, <1>5
<1>7. /\ entfernung \in [Loeschungen ->
           [passkey : Passkeys, sitzungen : SUBSET Anmeldungen] \cup {Keine}]
      /\ abruf \in [Abrufe -> Abruf \cup {Keine}]
  BY DEF Init
<1>8. beendet \in Instants /\ eingefuegte \in Nat
  BY ZahlenAssumption DEF Init, Instants
<1>9. /\ gesperrt \in BOOLEAN /\ sperrlauf \in {"ruht", "gesperrt", "gestempelt"}
      /\ cookie \in Anmeldungen \cup {Keine} /\ betroffen \subseteq Anmeldungen
  BY AngemeldetAssumption DEF Init
<1> QED BY <1>2, <1>4, <1>6, <1>7, <1>8, <1>9 DEF TypeOK

\* A sign-in that sets a passkey up names it: what its insert adds is a passkey.
EinschreibungNenntPasskey ==
  \A a \in Anmeldungen : anlauf[a].einschreibung => anlauf[a].passkey # Keine

\* Every step keeps the types.
LEMMA TypBleibt == TypeOK /\ EinschreibungNenntPasskey /\ [Next]_vars => TypeOK'
<1> SUFFICES ASSUME TypeOK, EinschreibungNenntPasskey, [Next]_vars PROVE TypeOK'
  OBVIOUS
<1> USE DEF seiten
<1>u. uhr \in Instants
  BY ZahlenAssumption DEF TypeOK, Instants
<1>0. CASE UNCHANGED vars
  BY <1>0 DEF vars, TypeOK
<1>1. ASSUME NEW a \in Anmeldungen, NEW f \in Faktoren, NEW p \in Passkeys \cup {Keine},
             Beginne(a, f, p)
      PROVE  TypeOK'
  <2>1. [Ruhend EXCEPT !.schritt = "gefragt", !.faktor = f, !.passkey = p,
                       !.sentAt = uhr, !.ersetzt = cookie] \in Anlauf
    BY <1>u, RuhendTyp DEF Anlauf, Schritte, TypeOK
  <2>2. anlauf' \in [Anmeldungen -> Anlauf]
    BY <1>1, <2>1, SetzeTyp DEF Beginne
  <2> QED BY <1>1, <2>2 DEF Beginne, TypeOK
<1>2. ASSUME NEW a \in Anmeldungen, NEW p \in Passkeys, BeginneEinschreibung(a, p)
      PROVE  TypeOK'
  <2>1. [Ruhend EXCEPT !.schritt = "gefragt", !.faktor = "passkey", !.passkey = p,
                       !.einschreibung = TRUE, !.sentAt = uhr, !.ersetzt = cookie] \in Anlauf
    BY <1>u, RuhendTyp DEF Anlauf, Schritte, Faktoren, TypeOK
  <2>2. anlauf' \in [Anmeldungen -> Anlauf]
    BY <1>2, <2>1, SetzeTyp DEF BeginneEinschreibung
  <2> QED BY <1>2, <2>2 DEF BeginneEinschreibung, TypeOK
<1>3. ASSUME NEW a \in Anmeldungen, refuseUnadmitted(a) PROVE TypeOK'
  <2>1. anlauf[a] \in Anlauf
    BY DEF TypeOK
  <2>2. [anlauf[a] EXCEPT !.schritt = "zugelassen"] \in Anlauf
    BY <2>1 DEF Anlauf, Schritte
  <2>3. anlauf' \in [Anmeldungen -> Anlauf]
    BY <1>3, <2>2, SetzeTyp, VerworfenTyp DEF refuseUnadmitted
  <2> QED BY <1>3, <2>3 DEF refuseUnadmitted, TypeOK
<1>4. ASSUME NEW a \in Anmeldungen, Stemple(a) PROVE TypeOK'
  <2>1. anlauf[a] \in Anlauf
    BY DEF TypeOK
  <2>2. [anlauf[a] EXCEPT !.schritt = "gestempelt", !.stamped = uhr] \in Anlauf
    BY <1>u, <2>1 DEF Anlauf, Schritte
  <2>3. Setze(a, Verworfen)
          \/ Setze(a, [anlauf[a] EXCEPT !.schritt = "gestempelt", !.stamped = uhr])
    BY <1>4, Zenon DEF Stemple
  <2>4. anlauf' \in [Anmeldungen -> Anlauf]
    BY <2>2, <2>3, SetzeTyp, VerworfenTyp
  <2> QED BY <1>4, <2>4 DEF Stemple, TypeOK
<1>5. ASSUME NEW a \in Anmeldungen, Fuege(a) PROVE TypeOK'
  <2> DEFINE n == anlauf[a]
  <2>1. n \in Anlauf
    BY DEF TypeOK
  <2>2. eingefuegte' \in Nat
    BY <1>5 DEF Fuege, TypeOK
  <2>3. [seit |-> createdAt(a), zuletzt |-> n.stamped, id |-> eingefuegte',
         faktor |-> n.faktor, passkey |-> n.passkey, ersetzt |-> n.ersetzt,
         adminLapsed |-> FALSE] \in Zeile
    BY <2>1, <2>2 DEF Anlauf, Zeile, createdAt
  <2>4. sitzung' \in [Anmeldungen -> Zeile \cup {Keine}]
    BY <1>5, <2>3 DEF Fuege, TypeOK
  <2>5. passkeys' \subseteq Passkeys
    <3>1. n.passkey \in Passkeys \cup {Keine} /\ (n.einschreibung => n.passkey # Keine)
      BY <2>1 DEF Anlauf, EinschreibungNenntPasskey
    <3> QED BY <1>5, <3>1 DEF Fuege, TypeOK
  <2>6. [Ruhend EXCEPT !.schritt = "eingefuegt", !.ersetzt = n.ersetzt,
                       !.stamped = n.stamped, !.id = eingefuegte'] \in Anlauf
    BY <2>1, <2>2, RuhendTyp DEF Anlauf, Schritte
  <2>7. anlauf' \in [Anmeldungen -> Anlauf]
    BY <1>5, <2>6, SetzeTyp DEF Fuege
  <2>8. genutzt' \in [Anmeldungen -> Instants]
    BY <1>5, <2>1 DEF Fuege, TypeOK, Anlauf
  <2> QED BY <1>5, <2>2, <2>4, <2>5, <2>7, <2>8 DEF Fuege, TypeOK
<1>6. ASSUME NEW a \in Anmeldungen, endReplacedSession(a) PROVE TypeOK'
  <2>1. anlauf[a] \in Anlauf
    BY DEF TypeOK
  <2>2. [Ruhend EXCEPT !.schritt = "gesetzt"] \in Anlauf
    BY RuhendTyp DEF Anlauf, Schritte
  <2>3. [anlauf[a] EXCEPT !.schritt = "ersetzt"] \in Anlauf
    BY <2>1 DEF Anlauf, Schritte
  <2>4. Setze(a, [Ruhend EXCEPT !.schritt = "gesetzt"])
          \/ Setze(a, [anlauf[a] EXCEPT !.schritt = "ersetzt"])
    BY <1>6, Zenon DEF endReplacedSession
  <2>5. anlauf' \in [Anmeldungen -> Anlauf]
    BY <2>2, <2>3, <2>4, SetzeTyp
  <2> QED BY <1>6, <2>5, OhneTyp DEF endReplacedSession, TypeOK
<1>7. ASSUME NEW a \in Anmeldungen, ListeGeschwister(a) PROVE TypeOK'
  <2>1. anlauf[a] \in Anlauf
    BY DEF TypeOK
  <2>2. PICK earlier \in SUBSET Anmeldungen :
          Setze(a, [Ruhend EXCEPT !.schritt = "gelistet", !.ersetzt = anlauf[a].ersetzt,
                                  !.earlier = earlier])
    <3> DEFINE row(s) == IF s \in Geschwister(a) THEN sitzung[s]
                         ELSE [zuletzt |-> anlauf[a].stamped, id |-> anlauf[a].id]
               rows == Geschwister(a) \cup {a}
               fruehere == {s \in rows : \E latest \in rows : mintedBefore(row(s), row(latest))}
    <3>1. Setze(a, [Ruhend EXCEPT !.schritt = "gelistet", !.ersetzt = anlauf[a].ersetzt,
                                  !.earlier = fruehere])
      BY <1>7, Zenon DEF ListeGeschwister
    <3>2. rows \subseteq Anmeldungen
      BY DEF Geschwister, Bestehende
    <3>3. fruehere \in SUBSET Anmeldungen
      BY <3>2
    <3> HIDE DEF fruehere
    <3> QED BY <3>1, <3>3
  <2>3. [Ruhend EXCEPT !.schritt = "gelistet", !.ersetzt = anlauf[a].ersetzt,
                       !.earlier = earlier] \in Anlauf
    BY <2>1, RuhendTyp DEF Anlauf, Schritte
  <2>4. anlauf' \in [Anmeldungen -> Anlauf]
    BY <2>2, <2>3, SetzeTyp
  <2> QED BY <1>7, <2>4 DEF ListeGeschwister, TypeOK
<1>8. ASSUME NEW a \in Anmeldungen, endEarlierSiblings(a) PROVE TypeOK'
  <2>1. anlauf[a] \in Anlauf
    BY DEF TypeOK
  <2>2. [anlauf[a] EXCEPT !.schritt = "gesetzt", !.earlier = {}] \in Anlauf
    BY <2>1 DEF Anlauf, Schritte
  <2>3. anlauf' \in [Anmeldungen -> Anlauf]
    BY <1>8, <2>2, SetzeTyp DEF endEarlierSiblings
  <2> QED BY <1>8, <2>3, OhneTyp DEF endEarlierSiblings, TypeOK
<1>9. ASSUME NEW a \in Anmeldungen, RotationScheitert(a) PROVE TypeOK'
  <2>1. anlauf[a] \in Anlauf
    BY DEF TypeOK
  <2>2. [Ruhend EXCEPT !.schritt = "unrotiert", !.ersetzt = anlauf[a].ersetzt] \in Anlauf
    BY <2>1, RuhendTyp DEF Anlauf, Schritte
  <2>3. anlauf' \in [Anmeldungen -> Anlauf]
    BY <1>9, <2>2, SetzeTyp DEF RotationScheitert
  <2> QED BY <1>9, <2>3 DEF RotationScheitert, TypeOK
<1>10. ASSUME NEW a \in Anmeldungen, Antworte(a) PROVE TypeOK'
  <2>1. anlauf[a] \in Anlauf
    BY DEF TypeOK
  <2>2. [anlauf[a] EXCEPT !.schritt = IF @ = "gesetzt" THEN "fertig" ELSE @] \in Anlauf
    BY <2>1 DEF Anlauf, Schritte
  <2>3. anlauf' \in [Anmeldungen -> Anlauf]
    BY <1>10, <2>2, SetzeTyp DEF Antworte
  <2> QED BY <1>10, <2>3 DEF Antworte, TypeOK
<1>11. ASSUME NEW e \in Loeschungen, NEW p \in Passkeys, removePasskey(e, p) PROVE TypeOK'
  <2>1. [passkey |-> p, sitzungen |-> {s \in Bestehende : sitzung[s].passkey = p}]
          \in [passkey : Passkeys, sitzungen : SUBSET Anmeldungen]
    BY DEF Bestehende
  <2> QED BY <1>11, <2>1 DEF removePasskey, TypeOK
<1>12. ASSUME NEW e \in Loeschungen, EntfernungSteht(e) PROVE TypeOK'
  BY <1>12, OhneTyp DEF EntfernungSteht, TypeOK
<1>13. ASSUME NEW e \in Loeschungen, EntfernungAbgebrochen(e) PROVE TypeOK'
  BY <1>13 DEF EntfernungAbgebrochen, TypeOK
<1>14. CASE postSperre \/ Abmelden \/ AbmeldungVersaeumt \/ deleteSperre
  BY <1>14 DEF postSperre, Abmelden, AbmeldungVersaeumt, deleteSperre, TypeOK
<1>15. CASE endSessionsOfAddress
  BY <1>u, <1>15 DEF endSessionsOfAddress, Zugelassene, TypeOK
<1>16. CASE deleteEndedSessions
  BY <1>16, OhneTyp DEF deleteEndedSessions, TypeOK
<1>17. ASSUME NEW r \in Abrufe, slideSession(r) \/ Lande(r) PROVE TypeOK'
  <2>1. sitzung[cookie] \in Zeile /\ cookie \in Anmeldungen
    BY <1>17 DEF slideSession, Lande, Da, TypeOK
  <2>2. /\ [schritt |-> "gelesen", von |-> cookie, zeile |-> sitzung[cookie]] \in Abruf
        /\ [schritt |-> "ausgedient", von |-> cookie] \in Abruf
    BY <2>1 DEF Abruf
  <2>3. abruf' \in [Abrufe -> Abruf \cup {Keine}]
    BY <1>17, <2>2 DEF slideSession, Lande, TypeOK
  <2> QED BY <1>17, <2>3 DEF slideSession, Lande, TypeOK
<1>18. ASSUME NEW r \in Abrufe, Beurteile(r) PROVE TypeOK'
  <2> DEFINE s == abruf[r].von
             b == Lapsed(abruf[r].zeile)
             n == [schritt |-> "beurteilt", von |-> s, updatedAt |-> uhr, adminLapsed |-> b]
             g == [genutzt EXCEPT ![s] = IF uhr - @ < ADMIN_IDLE THEN uhr ELSE @]
  <2>1. s \in Anmeldungen
    BY <1>18 DEF Beurteile, TypeOK, Abruf
  <2>2. b \in BOOLEAN
    BY DEF Lapsed
  <2>3. \/ abruf' = [abruf EXCEPT ![r] = n] /\ genutzt' = g
        \/ abruf' = [abruf EXCEPT ![r] = Keine] /\ genutzt' = genutzt
    BY <1>18, Zenon DEF Beurteile
  <2>4. g \in [Anmeldungen -> Instants]
    BY <1>u, <2>1 DEF TypeOK
  <2> HIDE DEF s, b, g
  <2>5. n \in Abruf
    BY <1>u, <2>1, <2>2 DEF Abruf
  <2> HIDE DEF n
  <2>6. abruf' \in [Abrufe -> Abruf \cup {Keine}] /\ genutzt' \in [Anmeldungen -> Instants]
    BY <2>3, <2>4, <2>5 DEF TypeOK
  <2> QED BY <1>18, <2>6 DEF Beurteile, TypeOK
<1>20. ASSUME NEW r \in Abrufe, updateSession(r) PROVE TypeOK'
  <2> DEFINE s == abruf[r].von
  <2>1. /\ s \in Anmeldungen
        /\ abruf[r].updatedAt \in Instants /\ abruf[r].adminLapsed \in BOOLEAN
    BY <1>20 DEF updateSession, TypeOK, Abruf
  <2>2. \/ sitzung' = sitzung
        \/ Da(s) /\ sitzung' = [sitzung EXCEPT ![s] = Aufgefrischt(sitzung[s], abruf[r])]
    BY <1>20 DEF updateSession
  <2>3. ASSUME Da(s) PROVE Aufgefrischt(sitzung[s], abruf[r]) \in Zeile
    <3> DEFINE b == sitzung[s].adminLapsed \/ abruf[r].adminLapsed
    <3>1. Aufgefrischt(sitzung[s], abruf[r])
            = [sitzung[s] EXCEPT !.zuletzt = abruf[r].updatedAt, !.adminLapsed = b]
      BY Zenon DEF Aufgefrischt
    <3>2. b \in BOOLEAN
      OBVIOUS
    <3>3. sitzung[s] \in Zeile
      BY <2>1, <2>3 DEF Da, TypeOK
    <3> HIDE DEF b
    <3> QED BY <2>1, <3>1, <3>2, <3>3 DEF Zeile
  <2> HIDE DEF s
  <2>4. sitzung' \in [Anmeldungen -> Zeile \cup {Keine}]
    BY <2>1, <2>2, <2>3 DEF TypeOK
  <2> QED BY <1>20, <2>4 DEF updateSession, TypeOK
<1>21. ASSUME NEW r \in Abrufe, ended(r) PROVE TypeOK'
  BY <1>21, OhneTyp DEF ended, TypeOK
<1>19. CASE Ticke
  BY <1>19, ZahlenAssumption DEF Ticke, TypeOK
<1> QED BY <1>0, <1>1, <1>2, <1>3, <1>4, <1>5, <1>6, <1>7, <1>8, <1>9, <1>10, <1>11, <1>12,
           <1>13, <1>14, <1>15, <1>16, <1>17, <1>18, <1>19, <1>20, <1>21 DEF Next

-----------------------------------------------------------------------------
(* The invariant. It orders every instant the account's lanes compare: a sign-in
   and the row it inserts carry the instant before the gate answered, so nothing
   the gate had admitted when the sessions were ended is dated after the ending. *)

\* The steps a sign-in takes before it has a row, and those before the gate answered.
OhneZeile == {"frei", "gefragt", "zugelassen", "gestempelt", "verworfen"}
VorDemTor == {"frei", "gefragt"}
Unterwegs == {"zugelassen", "gestempelt"}

ErstDannEineZeile ==
  \A a \in Anmeldungen : anlauf[a].schritt \in OhneZeile => sitzung[a] = Keine

NichtsAusDerZukunft ==
  \A a \in Anmeldungen :
    anlauf[a].sentAt <= uhr /\ anlauf[a].stamped <= uhr /\ (Da(a) => sitzung[a].seit <= uhr)

\* A page request names a session that was inserted: none is inserted under it.
AbrufNenntEine ==
  \A r \in Abrufe : abruf[r] # Keine => anlauf[abruf[r].von].schritt \notin OhneZeile

BetroffeneSindAlt ==
  \A a \in betroffen :
    /\ beendet # 0
    /\ anlauf[a].schritt \notin VorDemTor
    /\ anlauf[a].schritt \in Unterwegs => anlauf[a].sentAt <= beendet
    /\ Da(a) => sitzung[a].seit <= beendet

\* While a removal of an administrator's passkey is open, another passkey is held.
EntfernungLaesstEinen ==
  verwaltung => \A e \in Loeschungen : entfernung[e] # Keine =>
    \E q \in passkeys : q # entfernung[e].passkey

Zeitfolge == ErstDannEineZeile /\ NichtsAusDerZukunft /\ AbrufNenntEine /\ BetroffeneSindAlt

IInv == TypeOK /\ EinschreibungNenntPasskey /\ Zeitfolge /\ EntfernungLaesstEinen

\* A sign-in's record n becomes m without an instant of its own changing.
Weiter(n, m) ==
  /\ m.einschreibung => m.passkey # Keine
  /\ m.sentAt <= uhr /\ m.stamped <= uhr
  /\ m.schritt \in OhneZeile => n.schritt \in OhneZeile
  /\ m.schritt \in VorDemTor => n.schritt \in VorDemTor
  /\ m.schritt \in Unterwegs =>
       n.schritt = "gefragt" \/ (n.schritt \in Unterwegs /\ m.sentAt = n.sentAt)

\* The session a page request names.
LEMMA VonTyp ==
  ASSUME TypeOK, NEW r \in Abrufe, abruf[r] # Keine
  PROVE  abruf[r] \in Abruf /\ abruf[r].von \in Anmeldungen
BY DEF TypeOK, Abruf

\* The one step a sign-in takes, and every other left as it is.
LEMMA EinSchritt ==
  ASSUME IInv, NEW a \in Anmeldungen, NEW m, Setze(a, m), Weiter(anlauf[a], m)
  PROVE  \A b \in Anmeldungen : Weiter(anlauf[b], anlauf'[b])
<1>1. anlauf'[a] = m /\ \A b \in Anmeldungen : b # a => anlauf'[b] = anlauf[b]
  BY DEF Setze, IInv, TypeOK
<1>2. \A b \in Anmeldungen : Weiter(anlauf[b], anlauf[b])
  BY DEF Weiter, IInv, EinschreibungNenntPasskey, Zeitfolge, NichtsAusDerZukunft, Unterwegs
<1> QED BY <1>1, <1>2

\* A step that only drops rows, and moves each sign-in on as Weiter says.
LEMMA SchrittBleibt ==
  ASSUME IInv, uhr' = uhr, beendet' = beendet, betroffen' = betroffen, abruf' = abruf,
         \A s \in Anmeldungen : sitzung'[s] = sitzung[s] \/ sitzung'[s] = Keine,
         \A a \in Anmeldungen : Weiter(anlauf[a], anlauf'[a])
  PROVE  EinschreibungNenntPasskey' /\ Zeitfolge'
<1>1. EinschreibungNenntPasskey'
  BY DEF EinschreibungNenntPasskey, Weiter
<1>2. ErstDannEineZeile'
  BY DEF IInv, Zeitfolge, ErstDannEineZeile, Weiter
<1>3. NichtsAusDerZukunft'
  BY DEF IInv, Zeitfolge, NichtsAusDerZukunft, Weiter, Da
<1>4. BetroffeneSindAlt'
  <2> SUFFICES ASSUME NEW a \in betroffen
               PROVE  /\ beendet # 0
                      /\ anlauf'[a].schritt \notin VorDemTor
                      /\ anlauf'[a].schritt \in Unterwegs => anlauf'[a].sentAt <= beendet
                      /\ sitzung'[a] # Keine => sitzung'[a].seit <= beendet
    BY DEF BetroffeneSindAlt, Da
  <2>1. a \in Anmeldungen
    BY DEF IInv, TypeOK
  <2>2. /\ beendet # 0
        /\ anlauf[a].schritt \notin VorDemTor
        /\ anlauf[a].schritt \in Unterwegs => anlauf[a].sentAt <= beendet
        /\ sitzung[a] # Keine => sitzung[a].seit <= beendet
    BY DEF IInv, Zeitfolge, BetroffeneSindAlt, Da
  <2>3. Weiter(anlauf[a], anlauf'[a]) /\ "gefragt" \in VorDemTor
    BY <2>1 DEF VorDemTor
  <2> QED BY <2>1, <2>2, <2>3 DEF Weiter
<1>5. AbrufNenntEine'
  BY VonTyp DEF IInv, Zeitfolge, AbrufNenntEine, Weiter
<1> QED BY <1>1, <1>2, <1>3, <1>4, <1>5 DEF Zeitfolge

\* Deleting rows deletes rows.
LEMMA OhneLoescht ==
  ASSUME NEW weg, sitzung' = Ohne(weg)
  PROVE  \A s \in Anmeldungen : sitzung'[s] = sitzung[s] \/ sitzung'[s] = Keine
BY DEF Ohne

\* The record a step writes, field by field, for the steps that start from Ruhend.
LEMMA AusRuhend ==
  /\ Ruhend \in Anlauf /\ ~Ruhend.einschreibung /\ Ruhend.sentAt = 0 /\ Ruhend.stamped = 0
  /\ Verworfen \in Anlauf /\ ~Verworfen.einschreibung
  /\ Verworfen.sentAt = 0 /\ Verworfen.stamped = 0
  /\ Verworfen.schritt = "verworfen"
<1>1. Ruhend \in Anlauf /\ ~Ruhend.einschreibung /\ Ruhend.sentAt = 0 /\ Ruhend.stamped = 0
  BY RuhendTyp DEF Ruhend
<1> QED BY <1>1, VerworfenTyp DEF Verworfen, Anlauf

\* The write of a refresh: one row, its instant of creation, number and successor kept.
LEMMA FrischtAuf ==
  ASSUME TypeOK, NEW r \in Abrufe, updateSession(r), NEW s \in Anmeldungen, sitzung'[s] # Keine
  PROVE  /\ Da(s) /\ sitzung[s] \in Zeile
         /\ sitzung'[s].seit = sitzung[s].seit
         /\ sitzung'[s].id = sitzung[s].id /\ sitzung'[s].ersetzt = sitzung[s].ersetzt
         /\ \/ sitzung'[s] = sitzung[s]
            \/ /\ s = abruf[r].von
               /\ sitzung'[s].zuletzt = abruf[r].updatedAt
               /\ sitzung'[s].adminLapsed = (sitzung[s].adminLapsed \/ abruf[r].adminLapsed)
<1> DEFINE v == abruf[r].von
           z == Aufgefrischt(sitzung[v], abruf[r])
           b == sitzung[v].adminLapsed \/ abruf[r].adminLapsed
<1>1. /\ v \in Anmeldungen
      /\ \/ sitzung' = sitzung
         \/ Da(v) /\ sitzung' = [sitzung EXCEPT ![v] = z]
  BY VonTyp DEF updateSession
<1>2. z = [sitzung[v] EXCEPT !.zuletzt = abruf[r].updatedAt, !.adminLapsed = b]
  BY Zenon DEF Aufgefrischt
<1>3. Da(v) => sitzung[v] \in Zeile
  BY <1>1 DEF TypeOK, Da
<1> HIDE DEF b
<1>4. Da(v) => /\ z.seit = sitzung[v].seit /\ z.id = sitzung[v].id
               /\ z.ersetzt = sitzung[v].ersetzt
               /\ z.zuletzt = abruf[r].updatedAt /\ z.adminLapsed = b
  BY <1>2, <1>3 DEF Zeile
<1>5. Da(s) => sitzung[s] \in Zeile
  BY DEF TypeOK, Da
<1> HIDE DEF z
<1>6. CASE sitzung' = sitzung
  BY <1>5, <1>6 DEF Da
<1>7. CASE Da(v) /\ sitzung' = [sitzung EXCEPT ![v] = z]
  <2>1. CASE s = v
    BY <1>1, <1>4, <1>5, <1>7, <2>1 DEF TypeOK, b
  <2>2. CASE s # v
    BY <1>1, <1>5, <1>7, <2>2 DEF TypeOK, Da
  <2> QED BY <2>1, <2>2
<1> QED BY <1>1, <1>6, <1>7

\* Every step keeps the order of the instants.
LEMMA ZeitfolgeBleibt ==
  IInv /\ [Next]_vars => EinschreibungNenntPasskey' /\ Zeitfolge'
<1> SUFFICES ASSUME IInv, [Next]_vars PROVE EinschreibungNenntPasskey' /\ Zeitfolge'
  OBVIOUS
<1> USE DEF IInv, seiten
<1>u. uhr \in Nat /\ uhr >= 1
  BY DEF TypeOK
<1>a. \A a \in Anmeldungen : anlauf[a] \in Anlauf /\ anlauf[a].sentAt <= uhr /\ anlauf[a].stamped <= uhr
  BY DEF TypeOK, Zeitfolge, NichtsAusDerZukunft
<1>w. \A a \in Anmeldungen : Weiter(anlauf[a], anlauf[a])
  BY DEF Weiter, EinschreibungNenntPasskey, Zeitfolge, NichtsAusDerZukunft, Unterwegs
<1>v. \A a \in Anmeldungen : anlauf[a].schritt \in OhneZeile => Weiter(anlauf[a], Verworfen)
  BY <1>u, AusRuhend DEF Weiter, OhneZeile, VorDemTor, Unterwegs
<1>0. CASE UNCHANGED vars
  BY <1>0, <1>w, SchrittBleibt DEF vars
<1>1. ASSUME NEW a \in Anmeldungen, NEW f \in Faktoren, NEW p \in Passkeys \cup {Keine},
             Beginne(a, f, p)
      PROVE  EinschreibungNenntPasskey' /\ Zeitfolge'
  <2> DEFINE m == [Ruhend EXCEPT !.schritt = "gefragt", !.faktor = f, !.passkey = p,
                                 !.sentAt = uhr, !.ersetzt = cookie]
  <2>1. m.schritt = "gefragt" /\ m.sentAt = uhr /\ m.stamped = 0 /\ ~m.einschreibung
    BY AusRuhend DEF Anlauf
  <2>2. Weiter(anlauf[a], m)
    BY <1>1, <1>u, <2>1 DEF Weiter, Beginne, OhneZeile, VorDemTor, Unterwegs
  <2> HIDE DEF m
  <2>3. \A b \in Anmeldungen : Weiter(anlauf[b], anlauf'[b])
    BY <1>1, <2>2, EinSchritt DEF Beginne, m
  <2> QED BY <1>1, <2>3, SchrittBleibt DEF Beginne
<1>2. ASSUME NEW a \in Anmeldungen, NEW p \in Passkeys, BeginneEinschreibung(a, p)
      PROVE  EinschreibungNenntPasskey' /\ Zeitfolge'
  <2> DEFINE m == [Ruhend EXCEPT !.schritt = "gefragt", !.faktor = "passkey", !.passkey = p,
                                 !.einschreibung = TRUE, !.sentAt = uhr, !.ersetzt = cookie]
  <2>1. m.schritt = "gefragt" /\ m.sentAt = uhr /\ m.stamped = 0 /\ m.passkey # Keine
    BY AusRuhend, KeineAssumption DEF Anlauf
  <2>2. Weiter(anlauf[a], m)
    BY <1>2, <1>u, <2>1 DEF Weiter, BeginneEinschreibung, OhneZeile, VorDemTor, Unterwegs
  <2> HIDE DEF m
  <2>3. \A b \in Anmeldungen : Weiter(anlauf[b], anlauf'[b])
    BY <1>2, <2>2, EinSchritt DEF BeginneEinschreibung, m
  <2> QED BY <1>2, <2>3, SchrittBleibt DEF BeginneEinschreibung
<1>3. ASSUME NEW a \in Anmeldungen, refuseUnadmitted(a)
      PROVE  EinschreibungNenntPasskey' /\ Zeitfolge'
  <2> DEFINE m == [anlauf[a] EXCEPT !.schritt = "zugelassen"]
  <2>1. /\ m.schritt = "zugelassen" /\ m.sentAt = anlauf[a].sentAt /\ m.stamped = anlauf[a].stamped
        /\ m.einschreibung = anlauf[a].einschreibung /\ m.passkey = anlauf[a].passkey
    BY <1>a DEF Anlauf
  <2>2. Weiter(anlauf[a], m) /\ Weiter(anlauf[a], Verworfen)
    BY <1>3, <1>a, <1>v, <2>1 DEF Weiter, refuseUnadmitted, OhneZeile, VorDemTor, Unterwegs,
                              EinschreibungNenntPasskey
  <2> HIDE DEF m
  <2>3. Setze(a, m) \/ Setze(a, Verworfen)
    BY <1>3 DEF refuseUnadmitted, m
  <2>4. \A b \in Anmeldungen : Weiter(anlauf[b], anlauf'[b])
    BY <2>2, <2>3, EinSchritt
  <2> QED BY <1>3, <2>4, SchrittBleibt DEF refuseUnadmitted
<1>4. ASSUME NEW a \in Anmeldungen, Stemple(a)
      PROVE  EinschreibungNenntPasskey' /\ Zeitfolge'
  <2> DEFINE m == [anlauf[a] EXCEPT !.schritt = "gestempelt", !.stamped = uhr]
  <2>1. /\ m.schritt = "gestempelt" /\ m.sentAt = anlauf[a].sentAt /\ m.stamped = uhr
        /\ m.einschreibung = anlauf[a].einschreibung /\ m.passkey = anlauf[a].passkey
    BY <1>a DEF Anlauf
  <2>2. Weiter(anlauf[a], m) /\ Weiter(anlauf[a], Verworfen)
    BY <1>4, <1>a, <1>u, <1>v, <2>1 DEF Weiter, Stemple, OhneZeile, VorDemTor, Unterwegs,
                              EinschreibungNenntPasskey
  <2>3. Setze(a, m) \/ Setze(a, Verworfen)
    BY <1>4, Zenon DEF Stemple
  <2> HIDE DEF m
  <2>4. \A b \in Anmeldungen : Weiter(anlauf[b], anlauf'[b])
    BY <2>2, <2>3, EinSchritt
  <2> QED BY <1>4, <2>4, SchrittBleibt DEF Stemple
<1>5. ASSUME NEW a \in Anmeldungen, Fuege(a)
      PROVE  EinschreibungNenntPasskey' /\ Zeitfolge'
  <2> DEFINE n == anlauf[a]
             m == [Ruhend EXCEPT !.schritt = "eingefuegt", !.ersetzt = n.ersetzt,
                                 !.stamped = n.stamped, !.id = eingefuegte']
             z == [seit |-> n.sentAt, zuletzt |-> n.stamped, id |-> eingefuegte',
                   faktor |-> n.faktor, passkey |-> n.passkey, ersetzt |-> n.ersetzt,
                   adminLapsed |-> FALSE]
  <2>1. m.schritt = "eingefuegt" /\ m.sentAt = 0 /\ m.stamped = n.stamped /\ ~m.einschreibung
    BY <1>a, AusRuhend DEF Anlauf
  <2>2. Weiter(n, m)
    BY <1>a, <1>u, <2>1 DEF Weiter, OhneZeile, VorDemTor, Unterwegs
  <2>3. /\ n.schritt = "gestempelt" /\ sitzung' = [sitzung EXCEPT ![a] = z]
        /\ uhr' = uhr /\ beendet' = beendet /\ betroffen' = betroffen
    BY <1>5 DEF Fuege, createdAt
  <2>4. z.seit = n.sentAt
    OBVIOUS
  <2>5. /\ anlauf'[a] = m
        /\ \A b \in Anmeldungen : b # a => anlauf'[b] = anlauf[b]
    BY <1>5 DEF Fuege, Setze, TypeOK
  <2> HIDE DEF m, z
  <2>6. /\ sitzung'[a] = z
        /\ \A b \in Anmeldungen : b # a => sitzung'[b] = sitzung[b]
    BY <2>3 DEF TypeOK
  <2>7. EinschreibungNenntPasskey'
    BY <2>1, <2>5 DEF EinschreibungNenntPasskey
  <2>8. ErstDannEineZeile'
    BY <2>1, <2>5, <2>6 DEF Zeitfolge, ErstDannEineZeile, OhneZeile
  <2>9. NichtsAusDerZukunft'
    BY <1>u, <1>a, <2>1, <2>3, <2>4, <2>5, <2>6 DEF Zeitfolge, NichtsAusDerZukunft, Da
  <2>10. BetroffeneSindAlt'
    BY <2>1, <2>3, <2>4, <2>5, <2>6
       DEF Zeitfolge, BetroffeneSindAlt, Da, VorDemTor, Unterwegs, TypeOK
  <2>11. AbrufNenntEine'
    BY <1>5, <2>1, <2>5, VonTyp DEF Zeitfolge, AbrufNenntEine, Fuege, OhneZeile
  <2> QED BY <2>7, <2>8, <2>9, <2>10, <2>11 DEF Zeitfolge
<1>6. ASSUME NEW a \in Anmeldungen, endReplacedSession(a)
      PROVE  EinschreibungNenntPasskey' /\ Zeitfolge'
  <2> DEFINE m == [Ruhend EXCEPT !.schritt = "gesetzt"]
             k == [anlauf[a] EXCEPT !.schritt = "ersetzt"]
  <2>1. m.schritt = "gesetzt" /\ m.sentAt = 0 /\ m.stamped = 0 /\ ~m.einschreibung
    BY AusRuhend DEF Anlauf
  <2>2. /\ k.schritt = "ersetzt" /\ k.sentAt = anlauf[a].sentAt /\ k.stamped = anlauf[a].stamped
        /\ k.einschreibung = anlauf[a].einschreibung /\ k.passkey = anlauf[a].passkey
    BY <1>a DEF Anlauf
  <2>3. Weiter(anlauf[a], m) /\ Weiter(anlauf[a], k)
    BY <1>a, <1>u, <2>1, <2>2 DEF Weiter, OhneZeile, VorDemTor, Unterwegs,
                                  EinschreibungNenntPasskey
  <2>4. Setze(a, m) \/ Setze(a, k)
    BY <1>6, Zenon DEF endReplacedSession
  <2> HIDE DEF m, k
  <2>5. \A b \in Anmeldungen : Weiter(anlauf[b], anlauf'[b])
    BY <2>3, <2>4, EinSchritt
  <2> QED BY <1>6, <2>5, OhneLoescht, SchrittBleibt DEF endReplacedSession
<1>7. ASSUME NEW a \in Anmeldungen, ListeGeschwister(a)
      PROVE  EinschreibungNenntPasskey' /\ Zeitfolge'
  <2>1. PICK earlier :
          Setze(a, [Ruhend EXCEPT !.schritt = "gelistet", !.ersetzt = anlauf[a].ersetzt,
                                  !.earlier = earlier])
    BY <1>7, Zenon DEF ListeGeschwister
  <2> DEFINE m == [Ruhend EXCEPT !.schritt = "gelistet", !.ersetzt = anlauf[a].ersetzt,
                                 !.earlier = earlier]
  <2>2. m.schritt = "gelistet" /\ m.sentAt = 0 /\ m.stamped = 0 /\ ~m.einschreibung
    BY AusRuhend DEF Anlauf
  <2>3. Weiter(anlauf[a], m)
    BY <1>u, <2>2 DEF Weiter, OhneZeile, VorDemTor, Unterwegs
  <2>4. Setze(a, m)
    BY <2>1
  <2> HIDE DEF m
  <2>5. \A b \in Anmeldungen : Weiter(anlauf[b], anlauf'[b])
    BY <2>3, <2>4, EinSchritt
  <2> QED BY <1>7, <2>5, SchrittBleibt DEF ListeGeschwister
<1>8. ASSUME NEW a \in Anmeldungen, endEarlierSiblings(a)
      PROVE  EinschreibungNenntPasskey' /\ Zeitfolge'
  <2> DEFINE m == [anlauf[a] EXCEPT !.schritt = "gesetzt", !.earlier = {}]
  <2>1. /\ m.schritt = "gesetzt" /\ m.sentAt = anlauf[a].sentAt /\ m.stamped = anlauf[a].stamped
        /\ m.einschreibung = anlauf[a].einschreibung /\ m.passkey = anlauf[a].passkey
    BY <1>a DEF Anlauf
  <2>2. Weiter(anlauf[a], m)
    BY <1>a, <2>1 DEF Weiter, OhneZeile, VorDemTor, Unterwegs, EinschreibungNenntPasskey
  <2>3. Setze(a, m)
    BY <1>8 DEF endEarlierSiblings
  <2> HIDE DEF m
  <2>4. \A b \in Anmeldungen : Weiter(anlauf[b], anlauf'[b])
    BY <2>2, <2>3, EinSchritt
  <2> QED BY <1>8, <2>4, OhneLoescht, SchrittBleibt DEF endEarlierSiblings
<1>9. ASSUME NEW a \in Anmeldungen, RotationScheitert(a)
      PROVE  EinschreibungNenntPasskey' /\ Zeitfolge'
  <2> DEFINE m == [Ruhend EXCEPT !.schritt = "unrotiert", !.ersetzt = anlauf[a].ersetzt]
  <2>1. m.schritt = "unrotiert" /\ m.sentAt = 0 /\ m.stamped = 0 /\ ~m.einschreibung
    BY AusRuhend DEF Anlauf
  <2>2. Weiter(anlauf[a], m)
    BY <1>u, <2>1 DEF Weiter, OhneZeile, VorDemTor, Unterwegs
  <2>3. Setze(a, m)
    BY <1>9 DEF RotationScheitert
  <2> HIDE DEF m
  <2>4. \A b \in Anmeldungen : Weiter(anlauf[b], anlauf'[b])
    BY <2>2, <2>3, EinSchritt
  <2> QED BY <1>9, <2>4, SchrittBleibt DEF RotationScheitert
<1>10. ASSUME NEW a \in Anmeldungen, Antworte(a)
       PROVE  EinschreibungNenntPasskey' /\ Zeitfolge'
  <2> DEFINE m == [anlauf[a] EXCEPT !.schritt = IF @ = "gesetzt" THEN "fertig" ELSE @]
  <2>1. /\ m.schritt \in {"fertig", "unrotiert"}
        /\ m.sentAt = anlauf[a].sentAt /\ m.stamped = anlauf[a].stamped
        /\ m.einschreibung = anlauf[a].einschreibung /\ m.passkey = anlauf[a].passkey
    BY <1>a, <1>10 DEF Anlauf, Antworte
  <2>2. Weiter(anlauf[a], m)
    BY <1>a, <2>1 DEF Weiter, OhneZeile, VorDemTor, Unterwegs, EinschreibungNenntPasskey
  <2>3. Setze(a, m)
    BY <1>10 DEF Antworte
  <2> HIDE DEF m
  <2>4. \A b \in Anmeldungen : Weiter(anlauf[b], anlauf'[b])
    BY <2>2, <2>3, EinSchritt
  <2> QED BY <1>10, <2>4, SchrittBleibt DEF Antworte
<1>11. CASE \E e \in Loeschungen :
              \/ \E p \in Passkeys : removePasskey(e, p)
              \/ EntfernungSteht(e) \/ EntfernungAbgebrochen(e)
  <2>1. /\ anlauf' = anlauf /\ uhr' = uhr /\ beendet' = beendet /\ betroffen' = betroffen
        /\ abruf' = abruf
        /\ sitzung' = sitzung \/ \E weg : sitzung' = Ohne(weg)
    BY <1>11, Zenon DEF removePasskey, EntfernungSteht, EntfernungAbgebrochen
  <2> QED BY <1>w, <2>1, OhneLoescht, SchrittBleibt
<1>12. CASE postSperre \/ Abmelden \/ AbmeldungVersaeumt \/ deleteSperre
  BY <1>12, <1>w, SchrittBleibt DEF postSperre, Abmelden, AbmeldungVersaeumt, deleteSperre
<1>13. CASE deleteEndedSessions
  <2>1. /\ anlauf' = anlauf /\ uhr' = uhr /\ beendet' = beendet /\ betroffen' = betroffen
        /\ abruf' = abruf
        /\ sitzung' = sitzung \/ \E weg : sitzung' = Ohne(weg)
    BY <1>13 DEF deleteEndedSessions
  <2> QED BY <1>w, <2>1, OhneLoescht, SchrittBleibt
<1>14. CASE endSessionsOfAddress
  <2>1. /\ anlauf' = anlauf /\ sitzung' = sitzung /\ uhr' = uhr /\ beendet' = uhr
        /\ betroffen' = betroffen \cup Zugelassene /\ abruf' = abruf
    BY <1>14 DEF endSessionsOfAddress
  <2>2. /\ EinschreibungNenntPasskey' /\ ErstDannEineZeile' /\ NichtsAusDerZukunft'
        /\ AbrufNenntEine'
    BY <2>1 DEF EinschreibungNenntPasskey, Zeitfolge, ErstDannEineZeile, NichtsAusDerZukunft,
                AbrufNenntEine, Da
  <2>3. BetroffeneSindAlt'
    <3> SUFFICES ASSUME NEW a \in betroffen \cup Zugelassene
                 PROVE  /\ uhr # 0
                        /\ anlauf[a].schritt \notin VorDemTor
                        /\ anlauf[a].schritt \in Unterwegs => anlauf[a].sentAt <= uhr
                        /\ Da(a) => sitzung[a].seit <= uhr
      BY <2>1 DEF BetroffeneSindAlt, Da
    <3>1. a \in Anmeldungen
      BY DEF TypeOK, Zugelassene
    <3>2. anlauf[a].schritt \notin VorDemTor
      BY DEF Zeitfolge, BetroffeneSindAlt, Zugelassene, VorDemTor
    <3> QED BY <1>u, <3>1, <3>2 DEF Zeitfolge, NichtsAusDerZukunft
  <2> QED BY <2>2, <2>3 DEF Zeitfolge
<1>15. ASSUME NEW r \in Abrufe,
              slideSession(r) \/ Beurteile(r) \/ updateSession(r) \/ Lande(r) \/ ended(r)
       PROVE  EinschreibungNenntPasskey' /\ Zeitfolge'
  <2>1. /\ anlauf' = anlauf /\ uhr' = uhr /\ beendet' = beendet /\ betroffen' = betroffen
    BY <1>15, Zenon DEF slideSession, Beurteile, updateSession, Lande, ended
  <2>2. \A s \in Anmeldungen : sitzung'[s] # Keine => Da(s) /\ sitzung'[s].seit = sitzung[s].seit
    <3>1. CASE slideSession(r) \/ Beurteile(r) \/ Lande(r)
      BY <3>1, Zenon DEF slideSession, Beurteile, Lande, Da
    <3>2. CASE ended(r)
      BY <3>2 DEF ended, Ohne, Da
    <3>3. CASE updateSession(r)
      BY <3>3, FrischtAuf DEF Da
    <3> QED BY <1>15, <3>1, <3>2, <3>3
  <2>3. EinschreibungNenntPasskey' /\ ErstDannEineZeile'
    BY <2>1, <2>2 DEF EinschreibungNenntPasskey, Zeitfolge, ErstDannEineZeile, Da
  <2>4. NichtsAusDerZukunft'
    BY <2>1, <2>2 DEF Zeitfolge, NichtsAusDerZukunft, Da
  <2>5. BetroffeneSindAlt'
    BY <2>1, <2>2 DEF Zeitfolge, BetroffeneSindAlt, Da, TypeOK
  <2>6. AbrufNenntEine'
    <3>1. \A q \in Abrufe : abruf'[q] # Keine =>
            \/ abruf[q] # Keine /\ abruf'[q].von = abruf[q].von
            \/ abruf'[q].von = cookie /\ cookie \in Anmeldungen /\ Da(cookie)
      <4>1. CASE slideSession(r) \/ Lande(r)
        BY <4>1 DEF slideSession, Lande, TypeOK
      <4>2. CASE Beurteile(r)
        <5>1. PICK b :
                \/ abruf' = [abruf EXCEPT ![r] = [schritt |-> "beurteilt", von |-> abruf[r].von,
                                                  updatedAt |-> uhr, adminLapsed |-> b]]
                \/ abruf' = [abruf EXCEPT ![r] = Keine]
          BY <4>2, Zenon DEF Beurteile
        <5> QED BY <4>2, <5>1 DEF Beurteile, TypeOK
      <4>3. CASE updateSession(r) \/ ended(r)
        BY <4>3 DEF updateSession, ended, TypeOK
      <4> QED BY <1>15, <4>1, <4>2, <4>3
    <3> QED BY <2>1, <3>1 DEF Zeitfolge, AbrufNenntEine, ErstDannEineZeile, Da
  <2> QED BY <2>3, <2>4, <2>5, <2>6 DEF Zeitfolge
<1>16. CASE Ticke
  <2>1. /\ anlauf' = anlauf /\ sitzung' = sitzung /\ uhr' = uhr + 1 /\ beendet' = beendet
        /\ betroffen' = betroffen /\ abruf' = abruf
    BY <1>16 DEF Ticke
  <2>2. /\ EinschreibungNenntPasskey' /\ ErstDannEineZeile' /\ BetroffeneSindAlt'
        /\ AbrufNenntEine'
    BY <2>1 DEF EinschreibungNenntPasskey, Zeitfolge, ErstDannEineZeile, BetroffeneSindAlt,
                AbrufNenntEine, Da
  <2>3. NichtsAusDerZukunft'
    <3> SUFFICES ASSUME NEW a \in Anmeldungen
                 PROVE  /\ anlauf[a].sentAt <= uhr + 1 /\ anlauf[a].stamped <= uhr + 1
                        /\ Da(a) => sitzung[a].seit <= uhr + 1
      BY <2>1 DEF NichtsAusDerZukunft, Da
    <3>1. anlauf[a].sentAt \in Nat /\ anlauf[a].stamped \in Nat /\ (Da(a) => sitzung[a].seit \in Nat)
      BY <1>a, ZahlenAssumption DEF Da, TypeOK, Zeile, Anlauf, Instants
    <3> QED BY <1>u, <3>1 DEF Zeitfolge, NichtsAusDerZukunft
  <2> QED BY <2>2, <2>3 DEF Zeitfolge
<1> QED BY <1>0, <1>1, <1>2, <1>3, <1>4, <1>5, <1>6, <1>7, <1>8, <1>9, <1>10, <1>11, <1>12,
           <1>13, <1>14, <1>15, <1>16 DEF Next

\* An open removal of an administrator's passkey leaves another: it counted more than
\* one, and the commit of any other sends it back, whatever that other removes.
LEMMA EntfernungBleibt == IInv /\ [Next]_vars => EntfernungLaesstEinen'
<1> SUFFICES ASSUME IInv, [Next]_vars, verwaltung', NEW e \in Loeschungen, entfernung'[e] # Keine
             PROVE  \E q \in passkeys' : q # entfernung'[e].passkey
  BY DEF EntfernungLaesstEinen
<1>v. verwaltung
  BY DEF Next, vars, Beginne, BeginneEinschreibung, refuseUnadmitted, Stemple, Fuege,
     endReplacedSession, ListeGeschwister, endEarlierSiblings, RotationScheitert, Antworte,
     removePasskey, EntfernungSteht, EntfernungAbgebrochen, postSperre, Abmelden,
     endSessionsOfAddress, deleteEndedSessions, AbmeldungVersaeumt, deleteSperre, slideSession,
     Beurteile, updateSession, Lande, ended, Ticke
<1>1. CASE passkeys \subseteq passkeys' /\ entfernung'[e] = entfernung[e]
  BY <1>v, <1>1 DEF IInv, EntfernungLaesstEinen
<1>2. ASSUME NEW d \in Loeschungen, NEW p \in Passkeys, removePasskey(d, p)
      PROVE  \E q \in passkeys' : q # entfernung'[e].passkey
  <2>1. CASE e # d
    <3>1. passkeys' = passkeys /\ entfernung'[e] = entfernung[e]
      BY <1>2, <2>1 DEF removePasskey, IInv, TypeOK
    <3> QED BY <1>1, <3>1
  <2>2. CASE e = d
    <3>1. passkeys' = passkeys /\ entfernung'[e].passkey = p
      BY <1>2, <2>2 DEF removePasskey, IInv, TypeOK
    <3>2. ~(Cardinality(passkeys) <= 1) /\ p \in passkeys
      BY <1>2, <1>v DEF removePasskey
    <3>3. passkeys # {p}
      BY <3>2, FS_Singleton
    <3> QED BY <3>1, <3>2, <3>3
  <2> QED BY <2>1, <2>2
<1>3. ASSUME NEW d \in Loeschungen, EntfernungSteht(d)
      PROVE  FALSE
  BY <1>3 DEF EntfernungSteht, Abgewiesene, claimAccount
<1>4. ASSUME NEW d \in Loeschungen, EntfernungAbgebrochen(d)
      PROVE  \E q \in passkeys' : q # entfernung'[e].passkey
  <2>1. passkeys' = passkeys /\ entfernung'[e] = entfernung[e]
    BY <1>4 DEF EntfernungAbgebrochen, IInv, TypeOK
  <2> QED BY <1>1, <2>1
<1>5. CASE endSessionsOfAddress
  BY <1>5 DEF endSessionsOfAddress
<1>6. CASE UNCHANGED vars
  BY <1>1, <1>6 DEF vars
<1>7. ASSUME NEW a \in Anmeldungen, Fuege(a)
      PROVE  \E q \in passkeys' : q # entfernung'[e].passkey
  BY <1>1, <1>7 DEF Fuege
<1>8. CASE \E a \in Anmeldungen :
             \/ \E f \in Faktoren, p \in Passkeys \cup {Keine} : Beginne(a, f, p)
             \/ \E p \in Passkeys : BeginneEinschreibung(a, p)
             \/ refuseUnadmitted(a) \/ Stemple(a)
             \/ endReplacedSession(a) \/ ListeGeschwister(a) \/ endEarlierSiblings(a)
             \/ RotationScheitert(a) \/ Antworte(a)
  <2>1. passkeys' = passkeys /\ entfernung' = entfernung
    BY <1>8 DEF Beginne, BeginneEinschreibung, refuseUnadmitted, Stemple, endReplacedSession,
       ListeGeschwister, endEarlierSiblings, RotationScheitert, Antworte
  <2> QED BY <1>1, <2>1
<1>9. CASE \/ postSperre \/ Abmelden \/ deleteEndedSessions \/ AbmeldungVersaeumt
           \/ deleteSperre \/ Ticke
           \/ \E r \in Abrufe : \/ slideSession(r) \/ Beurteile(r) \/ updateSession(r)
                              \/ Lande(r) \/ ended(r)
  <2>1. passkeys' = passkeys /\ entfernung' = entfernung
    BY <1>9 DEF postSperre, Abmelden, deleteEndedSessions, AbmeldungVersaeumt, deleteSperre,
       slideSession, Beurteile, updateSession, Lande, ended, Ticke
  <2> QED BY <1>1, <2>1
<1> QED BY <1>2, <1>3, <1>4, <1>5, <1>6, <1>7, <1>8, <1>9 DEF Next

-----------------------------------------------------------------------------
\* The invariant holds of every state.

LEMMA InvAmAnfang == Init => IInv
<1> SUFFICES ASSUME Init PROVE IInv
  OBVIOUS
<1>1. TypeOK
  BY TypAmAnfang
<1>2. \A a \in Anmeldungen : /\ ~anlauf[a].einschreibung /\ anlauf[a].sentAt = 0
                             /\ anlauf[a].stamped = 0
                             /\ (a # Angemeldet => anlauf[a].schritt \in {"frei", "verworfen"})
                             /\ (a = Angemeldet => anlauf[a].schritt = "fertig")
  <2>1. \A x \in {"fertig", "frei", "verworfen"} :
          /\ [Ruhend EXCEPT !.schritt = x].sentAt = 0
          /\ [Ruhend EXCEPT !.schritt = x].stamped = 0
          /\ ~[Ruhend EXCEPT !.schritt = x].einschreibung
          /\ [Ruhend EXCEPT !.schritt = x].schritt = x
    BY AusRuhend DEF Anlauf
  <2>2. PICK l \in Lagen : anlauf = [a \in Anmeldungen |->
             IF a = Angemeldet THEN [Ruhend EXCEPT !.schritt = "fertig"]
             ELSE [Ruhend EXCEPT !.schritt = IF a \in l.anmeldungen THEN "frei" ELSE "verworfen"]]
    BY DEF Init
  <2> QED BY <2>1, <2>2
<1>3. /\ betroffen = {}
      /\ \A s \in Anmeldungen : s # Angemeldet => sitzung[s] = Keine
      /\ sitzung[Angemeldet].seit = uhr
      /\ \A e \in Loeschungen : entfernung[e] = Keine
      /\ \A r \in Abrufe : abruf[r] = Keine
  BY AngemeldetAssumption DEF Init
<1>4. EinschreibungNenntPasskey
  BY <1>2 DEF EinschreibungNenntPasskey
<1>5. ErstDannEineZeile /\ BetroffeneSindAlt /\ AbrufNenntEine
  BY <1>2, <1>3 DEF ErstDannEineZeile, BetroffeneSindAlt, AbrufNenntEine, OhneZeile
<1>6. NichtsAusDerZukunft
  BY <1>1, <1>2, <1>3 DEF NichtsAusDerZukunft, Da, TypeOK
<1>7. EntfernungLaesstEinen
  BY <1>3 DEF EntfernungLaesstEinen
<1> QED BY <1>1, <1>4, <1>5, <1>6, <1>7 DEF IInv, Zeitfolge

LEMMA InvBleibt == IInv /\ [Next]_vars => IInv'
BY TypBleibt, ZeitfolgeBleibt, EntfernungBleibt DEF IInv

THEOREM Invariante == Spec => []IInv
BY InvAmAnfang, InvBleibt, PTL DEF Spec

\* TypeOK holds of every state the program reaches: the rows and the sign-ins under
\* way keep the shape auth.ts writes them in, whatever is interleaved.
THEOREM Typkorrekt == Spec => []TypeOK
<1>1. IInv => TypeOK
  BY DEF IInv
<1> QED BY <1>1, Invariante, PTL

\* No sign-in the gate had admitted by the time the account's sessions were ended is
\* served again, for any number of sign-ins however they interleave with the ending:
\* endedByItsAccount compares against an instant taken before the gate was asked.
THEOREM BeendetesBleibtBeendet == Spec => []BeendetesDientNie
<1>1. IInv => BeendetesDientNie
  BY DEF IInv, Zeitfolge, BetroffeneSindAlt, BeendetesDientNie, servedSessionOf, endedByItsAccount
<1> QED BY <1>1, Invariante, PTL

\* An administrator's last passkey stays, for any number of removals side by side:
\* every removal claims the account's own row, so two of them cannot both commit.
THEOREM EinPasskeyBleibt == Spec => LetzterPasskeyBleibt
<1>1. ASSUME IInv, [Next]_vars, verwaltung, passkeys # {}
      PROVE  passkeys' # {}
  <2>1. CASE \E e \in Loeschungen : EntfernungSteht(e)
    <3>1. PICK e \in Loeschungen : EntfernungSteht(e)
      BY <2>1
    <3>2. PICK q \in passkeys : q # entfernung[e].passkey
      BY <1>1, <3>1 DEF IInv, EntfernungLaesstEinen, EntfernungSteht
    <3> QED BY <3>1, <3>2 DEF EntfernungSteht
  <2>2. CASE \E a \in Anmeldungen : Fuege(a)
    BY <1>1, <2>2 DEF Fuege
  <2>3. CASE passkeys' = passkeys
    BY <1>1, <2>3
  <2> QED
    BY <1>1, <2>1, <2>2, <2>3 DEF Next, vars, Beginne, BeginneEinschreibung, refuseUnadmitted,
       Stemple, endReplacedSession, ListeGeschwister, endEarlierSiblings, RotationScheitert,
       Antworte, removePasskey, EntfernungAbgebrochen, postSperre, Abmelden, endSessionsOfAddress,
       deleteEndedSessions, AbmeldungVersaeumt, deleteSperre, slideSession, Beurteile,
       updateSession, Lande, ended, Ticke
<1>2. IInv /\ [Next]_vars => [verwaltung /\ passkeys # {} => passkeys' # {}]_vars
  BY <1>1
<1> QED BY <1>2, Invariante, PTL DEF Spec, LetzterPasskeyBleibt

(* The last use of a session. The guard admits a row only where it carries no
   mark, and an unmarked row, or one a request read unmarked, carries no instant
   past the last refresh that was judged in time. A refresh judged late on a row
   read before another's write finds that write's mark, or brings its own. *)

\* What carries the instant t of the session s brings it nothing unmarked past its last use.
Gedeckt(s, t) == t <= genutzt[s] \/ (Da(s) => sitzung[s].adminLapsed)

ZeilenGedeckt ==
  \A s \in Anmeldungen : genutzt[s] <= uhr /\ (Da(s) => Gedeckt(s, sitzung[s].zuletzt))

AbrufeGedeckt ==
  \A r \in Abrufe : abruf[r] # Keine =>
    /\ abruf[r].schritt = "gelesen" => Gedeckt(abruf[r].von, abruf[r].zeile.zuletzt)
    /\ abruf[r].schritt = "beurteilt" =>
         abruf[r].adminLapsed \/ Gedeckt(abruf[r].von, abruf[r].updatedAt)

BenutztInv == IInv /\ ZeilenGedeckt /\ AbrufeGedeckt

\* The same of the state a step leads to.
DannGedeckt(s, t) == t <= genutzt'[s] \/ (sitzung'[s] # Keine => sitzung'[s].adminLapsed)

\* A step that leaves a standing row as it is or deletes it, and judges no refresh.
LEMMA NichtsGedecktes ==
  ASSUME BenutztInv, genutzt' = genutzt, uhr' = uhr \/ uhr' = uhr + 1,
         \A s \in Anmeldungen : sitzung'[s] = sitzung[s] \/ sitzung'[s] = Keine,
         \A r \in Abrufe : abruf'[r] # Keine /\ abruf'[r].schritt # "ausgedient" =>
           abruf'[r] = abruf[r]
  PROVE  ZeilenGedeckt' /\ AbrufeGedeckt'
<1>1. \A s \in Anmeldungen : genutzt[s] \in Nat /\ uhr \in Nat
  BY ZahlenAssumption DEF BenutztInv, IInv, TypeOK, Instants
<1>2. ZeilenGedeckt'
  <2> SUFFICES ASSUME NEW s \in Anmeldungen
               PROVE  genutzt[s] <= uhr' /\ (sitzung'[s] # Keine => DannGedeckt(s, sitzung'[s].zuletzt))
    BY DEF ZeilenGedeckt, Gedeckt, DannGedeckt, Da
  <2>1. genutzt[s] <= uhr /\ (Da(s) => Gedeckt(s, sitzung[s].zuletzt))
    BY DEF BenutztInv, ZeilenGedeckt
  <2>2. sitzung'[s] # Keine => DannGedeckt(s, sitzung[s].zuletzt) /\ sitzung'[s] = sitzung[s]
    BY <2>1 DEF Gedeckt, DannGedeckt, Da
  <2> QED BY <1>1, <2>1, <2>2 DEF Gedeckt, DannGedeckt
<1>3. AbrufeGedeckt'
  <2> SUFFICES ASSUME NEW r \in Abrufe, abruf'[r] # Keine
               PROVE  /\ abruf'[r].schritt = "gelesen" =>
                           DannGedeckt(abruf[r].von, abruf[r].zeile.zuletzt)
                      /\ abruf'[r].schritt = "beurteilt" =>
                           abruf'[r].adminLapsed \/ DannGedeckt(abruf[r].von, abruf[r].updatedAt)
    BY DEF AbrufeGedeckt, Gedeckt, DannGedeckt, Da
  <2>1. CASE abruf'[r].schritt = "ausgedient"
    BY <2>1
  <2>2. CASE abruf'[r] = abruf[r]
    <3>1. abruf[r].von \in Anmeldungen
      BY <2>2, VonTyp DEF BenutztInv, IInv
    <3> QED BY <2>2, <3>1 DEF BenutztInv, AbrufeGedeckt, Gedeckt, DannGedeckt, Da
  <2> QED BY <2>1, <2>2
<1> QED BY <1>2, <1>3

LEMMA BenutztBleibt == BenutztInv /\ [Next]_vars => ZeilenGedeckt' /\ AbrufeGedeckt'
<1> DEFINE Ziel == ZeilenGedeckt' /\ AbrufeGedeckt'
<1> SUFFICES ASSUME BenutztInv, [Next]_vars PROVE Ziel
  OBVIOUS
<1> HIDE DEF Ziel
<1> USE DEF seiten
<1>t. TypeOK /\ IInv
  BY DEF BenutztInv, IInv
<1>n. /\ uhr \in Nat /\ ADMIN_IDLE \in Nat
      /\ \A s \in Anmeldungen : genutzt[s] \in Nat
  BY <1>t, ZahlenAssumption DEF TypeOK, Instants
<1>0. CASE UNCHANGED vars
  BY <1>0, NichtsGedecktes DEF vars, Ziel
<1>1. CASE \E a \in Anmeldungen :
             \/ \E f \in Faktoren, p \in Passkeys \cup {Keine} : Beginne(a, f, p)
             \/ \E p \in Passkeys : BeginneEinschreibung(a, p)
             \/ refuseUnadmitted(a) \/ Stemple(a)
             \/ endReplacedSession(a) \/ ListeGeschwister(a) \/ endEarlierSiblings(a)
             \/ RotationScheitert(a) \/ Antworte(a)
  <2>1. /\ uhr' = uhr /\ genutzt' = genutzt /\ abruf' = abruf
        /\ sitzung' = sitzung \/ \E weg : sitzung' = Ohne(weg)
    <3>1. CASE \E a \in Anmeldungen :
             \/ \E f \in Faktoren, p \in Passkeys \cup {Keine} : Beginne(a, f, p)
             \/ \E p \in Passkeys : BeginneEinschreibung(a, p)
             \/ refuseUnadmitted(a) \/ Stemple(a) \/ RotationScheitert(a) \/ Antworte(a)
      BY <3>1 DEF Beginne, BeginneEinschreibung, refuseUnadmitted, Stemple,
                  RotationScheitert, Antworte
    <3>2. CASE \E a \in Anmeldungen :
             endReplacedSession(a) \/ ListeGeschwister(a) \/ endEarlierSiblings(a)
      BY <3>2, Zenon DEF endReplacedSession, ListeGeschwister, endEarlierSiblings
    <3> QED BY <1>1, <3>1, <3>2
  <2> QED BY <2>1, OhneLoescht, NichtsGedecktes DEF Ziel
<1>2. CASE \E e \in Loeschungen :
             \/ \E p \in Passkeys : removePasskey(e, p)
             \/ EntfernungSteht(e) \/ EntfernungAbgebrochen(e)
  <2>1. /\ uhr' = uhr /\ genutzt' = genutzt /\ abruf' = abruf
        /\ sitzung' = sitzung \/ \E weg : sitzung' = Ohne(weg)
    BY <1>2, Zenon DEF removePasskey, EntfernungSteht, EntfernungAbgebrochen
  <2> QED BY <2>1, OhneLoescht, NichtsGedecktes DEF Ziel
<1>3. CASE \/ postSperre \/ Abmelden \/ endSessionsOfAddress \/ deleteEndedSessions
           \/ AbmeldungVersaeumt \/ deleteSperre \/ Ticke
  <2>1. /\ uhr' = uhr \/ uhr' = uhr + 1
        /\ genutzt' = genutzt /\ abruf' = abruf
        /\ sitzung' = sitzung \/ \E weg : sitzung' = Ohne(weg)
    BY <1>3 DEF postSperre, Abmelden, endSessionsOfAddress, deleteEndedSessions,
                AbmeldungVersaeumt, deleteSperre, Ticke
  <2> QED BY <2>1, OhneLoescht, NichtsGedecktes DEF Ziel
<1>4. ASSUME NEW r \in Abrufe, Lande(r) \/ ended(r) PROVE Ziel
  <2>1. /\ uhr' = uhr /\ genutzt' = genutzt
        /\ sitzung' = sitzung \/ \E weg : sitzung' = Ohne(weg)
    BY <1>4 DEF Lande, ended
  <2>2. \A q \in Abrufe : abruf'[q] # Keine /\ abruf'[q].schritt # "ausgedient" =>
          abruf'[q] = abruf[q]
    BY <1>4, <1>t DEF Lande, ended, TypeOK
  <2> QED BY <2>1, <2>2, OhneLoescht, NichtsGedecktes DEF Ziel
<1>5. ASSUME NEW a \in Anmeldungen, Fuege(a) PROVE Ziel
  <2>1. /\ uhr' = uhr /\ abruf' = abruf
        /\ anlauf[a].schritt = "gestempelt" /\ anlauf[a].stamped <= uhr
        /\ genutzt' = [genutzt EXCEPT ![a] = anlauf[a].stamped]
        /\ sitzung'[a].zuletzt = anlauf[a].stamped
        /\ \A s \in Anmeldungen : s # a =>
             sitzung'[s] = sitzung[s] /\ genutzt'[s] = genutzt[s]
    BY <1>5, <1>t DEF Fuege, IInv, Zeitfolge, NichtsAusDerZukunft, TypeOK
  <2>2. ZeilenGedeckt'
    <3> SUFFICES ASSUME NEW s \in Anmeldungen
                 PROVE  genutzt'[s] <= uhr /\ (sitzung'[s] # Keine => DannGedeckt(s, sitzung'[s].zuletzt))
      BY <2>1 DEF ZeilenGedeckt, Gedeckt, DannGedeckt, Da
    <3>1. CASE s = a
      BY <1>n, <1>t, <2>1, <3>1, ZahlenAssumption DEF DannGedeckt, TypeOK, Anlauf, Instants
    <3>2. CASE s # a
      BY <2>1, <3>2 DEF BenutztInv, ZeilenGedeckt, Gedeckt, DannGedeckt, Da
    <3> QED BY <3>1, <3>2
  <2>3. \A r \in Abrufe : abruf[r] # Keine => abruf[r].von \in Anmeldungen \ {a}
    BY <1>t, <2>1, VonTyp DEF IInv, Zeitfolge, AbrufNenntEine, OhneZeile
  <2>4. AbrufeGedeckt'
    BY <2>1, <2>3 DEF BenutztInv, AbrufeGedeckt, Gedeckt, DannGedeckt, Da
  <2> QED BY <2>2, <2>4 DEF Ziel
<1>6. ASSUME NEW r \in Abrufe, slideSession(r) PROVE Ziel
  <2> DEFINE n == [schritt |-> "gelesen", von |-> cookie, zeile |-> sitzung[cookie]]
  <2>1. n.schritt = "gelesen" /\ n.von = cookie /\ n.zeile = sitzung[cookie]
    OBVIOUS
  <2>2. /\ uhr' = uhr /\ genutzt' = genutzt /\ sitzung' = sitzung
        /\ abruf' = [abruf EXCEPT ![r] = n] /\ cookie \in Anmeldungen /\ Da(cookie)
    BY <1>6, <1>t DEF slideSession, TypeOK
  <2> HIDE DEF n
  <2>3. abruf'[r] = n /\ \A q \in Abrufe : q # r => abruf'[q] = abruf[q]
    BY <2>2, <1>t DEF TypeOK
  <2>4. ZeilenGedeckt'
    BY <2>2 DEF BenutztInv, ZeilenGedeckt, Gedeckt, DannGedeckt, Da
  <2>5. Gedeckt(cookie, sitzung[cookie].zuletzt)
    BY <2>2 DEF BenutztInv, ZeilenGedeckt
  <2>6. AbrufeGedeckt'
    <3> SUFFICES ASSUME NEW q \in Abrufe, abruf'[q] # Keine
                 PROVE  /\ abruf'[q].schritt = "gelesen" =>
                             DannGedeckt(abruf'[q].von, abruf'[q].zeile.zuletzt)
                        /\ abruf'[q].schritt = "beurteilt" =>
                             abruf'[q].adminLapsed \/ DannGedeckt(abruf'[q].von, abruf'[q].updatedAt)
      BY DEF AbrufeGedeckt, Gedeckt, DannGedeckt, Da
    <3>1. CASE q = r
      BY <2>1, <2>2, <2>3, <2>5, <3>1 DEF Gedeckt, DannGedeckt, Da
    <3>2. CASE q # r
      BY <2>2, <2>3, <3>2 DEF BenutztInv, AbrufeGedeckt, Gedeckt, DannGedeckt, Da
    <3> QED BY <3>1, <3>2
  <2> QED BY <2>4, <2>6 DEF Ziel
<1>7. ASSUME NEW r \in Abrufe, Beurteile(r) PROVE Ziel
  <2> DEFINE s == abruf[r].von
             z == abruf[r].zeile
             b == Lapsed(z)
             n == [schritt |-> "beurteilt", von |-> s, updatedAt |-> uhr, adminLapsed |-> b]
             g == [genutzt EXCEPT ![s] = IF uhr - @ < ADMIN_IDLE THEN uhr ELSE @]
  <2>1. /\ s \in Anmeldungen /\ z.zuletzt \in Nat /\ z.seit \in Nat
        /\ abruf[r] # Keine /\ abruf[r].schritt = "gelesen"
    <3>1. abruf[r] \in Abruf /\ abruf[r].schritt = "gelesen" /\ abruf[r] # Keine
      BY <1>7, <1>t, VonTyp DEF Beurteile
    <3>2. abruf[r].zeile \in Zeile
      BY <3>1 DEF Abruf
    <3> QED BY <1>t, <3>1, <3>2, VonTyp, ZahlenAssumption DEF Zeile, Instants
  <2>2. \/ abruf' = [abruf EXCEPT ![r] = n] /\ genutzt' = g
        \/ abruf' = [abruf EXCEPT ![r] = Keine] /\ genutzt' = genutzt
    BY <1>7, Zenon DEF Beurteile
  <2>3. uhr' = uhr /\ sitzung' = sitzung
    BY <1>7 DEF Beurteile
  <2>4. /\ n.schritt = "beurteilt" /\ n.von = s /\ n.updatedAt = uhr /\ n.adminLapsed = b
        /\ g \in [Anmeldungen -> Nat]
        /\ g[s] = IF uhr - genutzt[s] < ADMIN_IDLE THEN uhr ELSE genutzt[s]
        /\ \A x \in Anmeldungen : x # s => g[x] = genutzt[x]
    BY <1>n, <1>t, <2>1 DEF TypeOK
  <2>5. ~b => uhr - z.zuletzt < ADMIN_IDLE
    BY DEF Lapsed, withinLifetime
  <2>6. Gedeckt(s, z.zuletzt)
    BY <2>1 DEF BenutztInv, AbrufeGedeckt
  <2> HIDE DEF n, g, b, z, s
  <2>7. \A x \in Anmeldungen : genutzt[x] <= uhr
    BY DEF BenutztInv, ZeilenGedeckt
  <2>8. CASE abruf' = [abruf EXCEPT ![r] = Keine] /\ genutzt' = genutzt
    <3>1. \A q \in Abrufe : abruf'[q] # Keine /\ abruf'[q].schritt # "ausgedient" =>
            abruf'[q] = abruf[q]
      BY <1>t, <2>8 DEF TypeOK
    <3> QED BY <2>3, <2>8, <3>1, NichtsGedecktes DEF Ziel
  <2>9. CASE abruf' = [abruf EXCEPT ![r] = n] /\ genutzt' = g
    <3>1. \A x \in Anmeldungen : genutzt[x] <= genutzt'[x] /\ genutzt'[x] <= uhr
      BY <1>n, <2>1, <2>4, <2>7, <2>9
    <3>2. ASSUME NEW x \in Anmeldungen, NEW t \in Nat, Gedeckt(x, t)
          PROVE  DannGedeckt(x, t)
      BY <1>n, <2>3, <2>4, <2>9, <3>1, <3>2 DEF Gedeckt, DannGedeckt, Da
    <3>3. b \/ DannGedeckt(s, uhr)
      <4>1. CASE uhr - genutzt[s] < ADMIN_IDLE
        BY <1>n, <2>1, <2>3, <2>4, <2>9, <4>1 DEF Gedeckt, DannGedeckt
      <4>2. CASE ~(uhr - genutzt[s] < ADMIN_IDLE) /\ ~b
        <5>1. ~(z.zuletzt <= genutzt[s])
          BY <1>n, <2>1, <2>5, <4>2
        <5> QED BY <2>3, <2>6, <5>1 DEF Gedeckt, DannGedeckt, Da
      <4> QED BY <4>1, <4>2
    <3>4. \A x \in Anmeldungen : Da(x) => sitzung[x].zuletzt \in Nat
      BY <1>t, ZahlenAssumption DEF TypeOK, Da, Zeile, Instants
    <3>5. ZeilenGedeckt'
      <4> SUFFICES ASSUME NEW x \in Anmeldungen
                   PROVE  genutzt'[x] <= uhr /\ (Da(x) => DannGedeckt(x, sitzung[x].zuletzt))
        BY <2>3 DEF ZeilenGedeckt, Gedeckt, DannGedeckt, Da
      <4> QED BY <3>1, <3>2, <3>4 DEF BenutztInv, ZeilenGedeckt
    <3>6. abruf'[r] = n /\ \A q \in Abrufe : q # r => abruf'[q] = abruf[q]
      BY <1>t, <2>9 DEF TypeOK
    <3>7. AbrufeGedeckt'
      <4> SUFFICES ASSUME NEW q \in Abrufe, abruf'[q] # Keine
                   PROVE  /\ abruf'[q].schritt = "gelesen" =>
                               DannGedeckt(abruf'[q].von, abruf'[q].zeile.zuletzt)
                          /\ abruf'[q].schritt = "beurteilt" =>
                               abruf'[q].adminLapsed \/ DannGedeckt(abruf'[q].von, abruf'[q].updatedAt)
        BY DEF AbrufeGedeckt, Gedeckt, DannGedeckt, Da
      <4>1. CASE q = r
        BY <2>3, <2>4, <3>3, <3>6, <4>1 DEF Gedeckt, DannGedeckt, Da
      <4>2. CASE q # r
        <5>1. abruf'[q] = abruf[q] /\ abruf[q] # Keine
          BY <3>6, <4>2
        <5>2. abruf[q].von \in Anmeldungen /\ abruf[q] \in Abruf
          BY <1>t, <5>1, VonTyp
        <5>3. CASE abruf[q].schritt = "gelesen"
          <6>1. abruf[q].zeile \in Zeile
            BY <5>2, <5>3 DEF Abruf
          <6>2. abruf[q].zeile.zuletzt \in Nat
            BY <6>1, ZahlenAssumption DEF Zeile, Instants
          <6>3. Gedeckt(abruf[q].von, abruf[q].zeile.zuletzt)
            BY <5>1, <5>3 DEF BenutztInv, AbrufeGedeckt
          <6>4. DannGedeckt(abruf[q].von, abruf[q].zeile.zuletzt)
            BY <3>2, <5>2, <6>2, <6>3
          <6> QED BY <2>3, <5>1, <5>3, <6>4 DEF Gedeckt, DannGedeckt, Da
        <5>4. CASE abruf[q].schritt = "beurteilt"
          <6>1. abruf[q].updatedAt \in Nat
            BY <5>2, <5>4, ZahlenAssumption DEF Abruf, Instants
          <6>2. abruf[q].adminLapsed \/ Gedeckt(abruf[q].von, abruf[q].updatedAt)
            BY <5>1, <5>4 DEF BenutztInv, AbrufeGedeckt
          <6>3. abruf[q].adminLapsed \/ DannGedeckt(abruf[q].von, abruf[q].updatedAt)
            BY <3>2, <5>2, <6>1, <6>2
          <6> QED BY <5>1, <5>4, <6>3
        <5> QED BY <5>1, <5>3, <5>4
      <4> QED BY <4>1, <4>2
    <3> QED BY <3>5, <3>7 DEF Ziel
  <2> QED BY <2>2, <2>8, <2>9
<1>8. ASSUME NEW r \in Abrufe, updateSession(r) PROVE Ziel
  <2>1. /\ uhr' = uhr /\ genutzt' = genutzt
        /\ abruf[r] # Keine /\ abruf[r].schritt = "beurteilt"
        /\ \A q \in Abrufe : abruf'[q] # Keine => abruf'[q] = abruf[q]
    BY <1>8, <1>t DEF updateSession, TypeOK
  <2>2. \A s \in Anmeldungen : sitzung'[s] # Keine =>
          /\ Da(s)
          /\ sitzung[s].adminLapsed => sitzung'[s].adminLapsed
          /\ \/ sitzung'[s] = sitzung[s]
             \/ /\ s = abruf[r].von
                /\ sitzung'[s].zuletzt = abruf[r].updatedAt
                /\ abruf[r].adminLapsed => sitzung'[s].adminLapsed
    BY <1>8, <1>t, FrischtAuf
  <2>3. abruf[r].adminLapsed \/ Gedeckt(abruf[r].von, abruf[r].updatedAt)
    BY <2>1 DEF BenutztInv, AbrufeGedeckt
  <2>4. ZeilenGedeckt'
    <3> SUFFICES ASSUME NEW s \in Anmeldungen
                 PROVE  genutzt[s] <= uhr /\ (sitzung'[s] # Keine =>
                          sitzung'[s].zuletzt <= genutzt[s] \/ sitzung'[s].adminLapsed)
      BY <2>1 DEF ZeilenGedeckt, Gedeckt, DannGedeckt, Da
    <3> QED BY <2>2, <2>3 DEF BenutztInv, ZeilenGedeckt, Gedeckt, DannGedeckt
  <2>5. AbrufeGedeckt'
    <3> SUFFICES ASSUME NEW q \in Abrufe, abruf'[q] # Keine
                 PROVE  /\ abruf'[q].schritt = "gelesen" =>
                             DannGedeckt(abruf'[q].von, abruf'[q].zeile.zuletzt)
                        /\ abruf'[q].schritt = "beurteilt" =>
                             abruf'[q].adminLapsed \/ DannGedeckt(abruf'[q].von, abruf'[q].updatedAt)
      BY DEF AbrufeGedeckt, Gedeckt, DannGedeckt, Da
    <3>1. abruf'[q] = abruf[q] /\ abruf[q] # Keine /\ abruf[q].von \in Anmeldungen
      BY <1>t, <2>1, VonTyp
    <3> QED BY <2>1, <2>2, <3>1 DEF BenutztInv, AbrufeGedeckt, Gedeckt, DannGedeckt, Da
  <2> QED BY <2>4, <2>5 DEF Ziel
<1> QED BY <1>0, <1>1, <1>2, <1>3, <1>4, <1>5, <1>6, <1>7, <1>8 DEF Next

LEMMA BenutztAmAnfang == Init => BenutztInv
<1> SUFFICES ASSUME Init PROVE BenutztInv
  OBVIOUS
<1>1. /\ \A s \in Anmeldungen : genutzt[s] = uhr
      /\ \A s \in Anmeldungen : Da(s) => sitzung[s].zuletzt = uhr
      /\ \A r \in Abrufe : abruf[r] = Keine
  BY DEF Init, Da
<1>2. uhr \in Nat
  BY TypAmAnfang, ZahlenAssumption DEF TypeOK
<1>3. ZeilenGedeckt /\ AbrufeGedeckt
  BY <1>1, <1>2 DEF ZeilenGedeckt, AbrufeGedeckt, Gedeckt
<1> QED BY <1>3, InvAmAnfang DEF BenutztInv

\* I658: the administrator's guard admits nothing left idle past the window, for any
\* number of requests that read, judge and write beside each other and every length
\* of the windows: a refresh judged late marks the row, and the mark is never
\* cleared; one judged in time carries its own instant, however late it lands.
THEOREM NurBenutztesOffen == Spec => []NurBenutztesBleibtOffen
<1>1. ASSUME BenutztInv PROVE NurBenutztesBleibtOffen
  <2> SUFFICES ASSUME NEW s \in Anmeldungen, Da(s), isAdminWithinWindow(sitzung[s])
               PROVE  uhr - genutzt[s] < ADMIN_IDLE
    BY DEF NurBenutztesBleibtOffen, Bestehende
  <2>1. /\ uhr \in Nat /\ genutzt[s] \in Nat /\ sitzung[s].zuletzt \in Nat
        /\ ADMIN_IDLE \in Nat
    BY <1>1, ZahlenAssumption DEF BenutztInv, IInv, TypeOK, Zeile, Instants, Da
  <2>2. ~sitzung[s].adminLapsed /\ uhr - sitzung[s].zuletzt < ADMIN_IDLE
    BY DEF isAdminWithinWindow, withinLifetime
  <2>3. sitzung[s].zuletzt <= genutzt[s]
    BY <1>1, <2>2 DEF BenutztInv, ZeilenGedeckt, Gedeckt
  <2> QED BY <2>1, <2>2, <2>3
<1>2. BenutztInv /\ [Next]_vars => BenutztInv'
  BY BenutztBleibt, InvBleibt DEF BenutztInv
<1> QED BY <1>1, <1>2, BenutztAmAnfang, PTL DEF Spec

-----------------------------------------------------------------------------
(* The siblings of a sign-in. Of two that both stand and have both listed, one
   still has one of the two on its list: whoever lists second sees the other,
   and the ids order their rows. So nothing is left to end where every list is
   empty. *)

Gelistet == {"gelistet", "gesetzt", "fertig"}

ZeileNenntDenCookie ==
  \A a \in Anmeldungen : Da(a) => sitzung[a].ersetzt = anlauf[a].ersetzt

JedeIhreNummer ==
  \A a \in Anmeldungen : Da(a) =>
    /\ sitzung[a].id <= eingefuegte
    /\ \A b \in Anmeldungen \ {a} : Da(b) => sitzung[b].id # sitzung[a].id

ListeNurGelistet ==
  \A a \in Anmeldungen : anlauf[a].schritt # "gelistet" => anlauf[a].earlier = {}

\* One of the two has one of the two on its list.
Vermerkt(a, b) == {a, b} \cap (anlauf[a].earlier \cup anlauf[b].earlier) # {}

EinesIstVermerkt ==
  \A a \in Anmeldungen, b \in Anmeldungen :
    /\ a # b /\ Da(a) /\ Da(b)
    /\ anlauf[a].ersetzt = anlauf[b].ersetzt /\ anlauf[a].ersetzt # Keine
    /\ {anlauf[a].schritt, anlauf[b].schritt} \subseteq Gelistet
    => Vermerkt(a, b)

GeschwisterInv ==
  IInv /\ ZeileNenntDenCookie /\ JedeIhreNummer /\ ListeNurGelistet /\ EinesIstVermerkt

\* A step that inserts no row and lists no siblings.
LEMMA OhneNeueListe ==
  ASSUME GeschwisterInv, eingefuegte' = eingefuegte,
         \A s \in Anmeldungen : sitzung'[s] # Keine =>
           /\ Da(s)
           /\ sitzung'[s].id = sitzung[s].id /\ sitzung'[s].ersetzt = sitzung[s].ersetzt
           /\ anlauf'[s].ersetzt = anlauf[s].ersetzt
           /\ anlauf'[s].schritt \in Gelistet /\ anlauf'[s].ersetzt # Keine =>
                /\ anlauf[s].schritt \in Gelistet
                /\ \A x \in anlauf[s].earlier : x \in anlauf'[s].earlier \/ sitzung'[x] = Keine,
         ListeNurGelistet'
  PROVE  ZeileNenntDenCookie' /\ JedeIhreNummer' /\ ListeNurGelistet' /\ EinesIstVermerkt'
<1>1. ZeileNenntDenCookie'
  BY DEF GeschwisterInv, ZeileNenntDenCookie, Da
<1>2. JedeIhreNummer'
  BY DEF GeschwisterInv, JedeIhreNummer, Da
<1>3. EinesIstVermerkt'
  <2> SUFFICES ASSUME NEW a \in Anmeldungen, NEW b \in Anmeldungen, a # b,
                      sitzung'[a] # Keine, sitzung'[b] # Keine,
                      anlauf'[a].ersetzt = anlauf'[b].ersetzt, anlauf'[a].ersetzt # Keine,
                      anlauf'[a].schritt \in Gelistet, anlauf'[b].schritt \in Gelistet
               PROVE  Vermerkt(a, b)'
    BY DEF EinesIstVermerkt, Da
  <2>1. Vermerkt(a, b)
    BY DEF GeschwisterInv, EinesIstVermerkt
  <2>2. PICK x \in {a, b} : x \in anlauf[a].earlier \/ x \in anlauf[b].earlier
    BY <2>1 DEF Vermerkt
  <2>3. x \in anlauf'[a].earlier \/ x \in anlauf'[b].earlier
    BY <2>2
  <2> QED BY <2>3 DEF Vermerkt
<1> QED BY <1>1, <1>2, <1>3

\* Two rows that both stand are ordered.
LEMMA GeordneteZeilen ==
  ASSUME GeschwisterInv, NEW a \in Anmeldungen, NEW b \in Anmeldungen, a # b, Da(a), Da(b)
  PROVE  mintedBefore(sitzung[a], sitzung[b]) \/ mintedBefore(sitzung[b], sitzung[a])
<1>1. /\ sitzung[a].zuletzt \in Nat /\ sitzung[a].id \in Nat
      /\ sitzung[b].zuletzt \in Nat /\ sitzung[b].id \in Nat
  BY ZahlenAssumption DEF GeschwisterInv, IInv, TypeOK, Zeile, Instants, Da
<1>2. sitzung[a].id # sitzung[b].id
  BY DEF GeschwisterInv, JedeIhreNummer
<1> QED BY <1>1, <1>2 DEF mintedBefore

\* A sign-in that lists its siblings puts on its list one of each standing pair it is in.
LEMMA ListeVermerkt ==
  ASSUME GeschwisterInv, NEW a \in Anmeldungen, ListeGeschwister(a), Da(a),
         NEW b \in Anmeldungen, a # b, Da(b), anlauf[b].ersetzt = anlauf[a].ersetzt
  PROVE  {a, b} \cap anlauf'[a].earlier # {}
<1> DEFINE row(s) == IF s \in Geschwister(a) THEN sitzung[s]
                     ELSE [zuletzt |-> anlauf[a].stamped, id |-> anlauf[a].id]
           rows == Geschwister(a) \cup {a}
           fruehere == {s \in rows : \E latest \in rows : mintedBefore(row(s), row(latest))}
<1>1. Setze(a, [Ruhend EXCEPT !.schritt = "gelistet", !.ersetzt = anlauf[a].ersetzt,
                              !.earlier = fruehere])
  BY Zenon DEF ListeGeschwister
<1>2. a \in Geschwister(a) /\ b \in Geschwister(a)
  BY DEF GeschwisterInv, ZeileNenntDenCookie, Geschwister, Bestehende
<1>3. row(a) = sitzung[a] /\ row(b) = sitzung[b]
  BY <1>2
<1>4. a \in fruehere \/ b \in fruehere
  BY <1>2, <1>3, GeordneteZeilen
<1> HIDE DEF fruehere
<1>5. anlauf'[a].earlier = fruehere
  BY <1>1, AusRuhend DEF Setze, GeschwisterInv, IInv, TypeOK, Anlauf
<1> QED BY <1>4, <1>5

\* A step that moves a sign-in to the record m and inserts no row.
LEMMA SetztOhneZeile ==
  ASSUME GeschwisterInv, NEW a \in Anmeldungen, NEW m, Setze(a, m), eingefuegte' = eingefuegte,
         \A s \in Anmeldungen : sitzung'[s] = sitzung[s] \/ sitzung'[s] = Keine,
         m.schritt # "gelistet" => m.earlier = {},
         sitzung'[a] # Keine =>
           /\ m.ersetzt = anlauf[a].ersetzt
           /\ m.schritt \in Gelistet /\ m.ersetzt # Keine =>
                /\ anlauf[a].schritt \in Gelistet
                /\ \A x \in anlauf[a].earlier : x \in m.earlier \/ sitzung'[x] = Keine
  PROVE  ZeileNenntDenCookie' /\ JedeIhreNummer' /\ ListeNurGelistet' /\ EinesIstVermerkt'
<1>1. anlauf'[a] = m /\ \A b \in Anmeldungen : b # a => anlauf'[b] = anlauf[b]
  BY DEF Setze, GeschwisterInv, IInv, TypeOK
<1>2. ListeNurGelistet'
  BY <1>1 DEF ListeNurGelistet, GeschwisterInv
<1> QED BY <1>1, <1>2, OhneNeueListe DEF Da

\* A step that moves no sign-in and inserts no row.
LEMMA RuehrtKeineAn ==
  ASSUME GeschwisterInv, anlauf' = anlauf, eingefuegte' = eingefuegte,
         \A s \in Anmeldungen : sitzung'[s] = sitzung[s] \/ sitzung'[s] = Keine
  PROVE  ZeileNenntDenCookie' /\ JedeIhreNummer' /\ ListeNurGelistet' /\ EinesIstVermerkt'
<1>1. ListeNurGelistet'
  BY DEF ListeNurGelistet, GeschwisterInv
<1> QED BY <1>1, OhneNeueListe DEF Da

\* The fields of a record built on Ruhend that the siblings turn on.
LEMMA RuhendListet ==
  /\ Ruhend.earlier = {} /\ Ruhend.ersetzt = Keine
  /\ Verworfen.earlier = {} /\ Verworfen.ersetzt = Keine
<1>1. Ruhend.earlier = {} /\ Ruhend.ersetzt = Keine
  BY DEF Ruhend
<1> QED BY <1>1, AusRuhend DEF Verworfen, Anlauf

LEMMA GeschwisterBleiben ==
  GeschwisterInv /\ [Next]_vars =>
    ZeileNenntDenCookie' /\ JedeIhreNummer' /\ ListeNurGelistet' /\ EinesIstVermerkt'
<1> DEFINE Ziel == ZeileNenntDenCookie' /\ JedeIhreNummer' /\ ListeNurGelistet' /\ EinesIstVermerkt'
<1> SUFFICES ASSUME GeschwisterInv, [Next]_vars PROVE Ziel
  OBVIOUS
<1> HIDE DEF Ziel
<1>a. \A a \in Anmeldungen : anlauf[a] \in Anlauf
  BY DEF GeschwisterInv, IInv, TypeOK
<1>z. \A a \in Anmeldungen : anlauf[a].schritt \in OhneZeile => sitzung[a] = Keine
  BY DEF GeschwisterInv, IInv, Zeitfolge, ErstDannEineZeile
<1>l. \A a \in Anmeldungen : anlauf[a].schritt # "gelistet" => anlauf[a].earlier = {}
  BY DEF GeschwisterInv, ListeNurGelistet
<1>0. CASE UNCHANGED vars
  BY <1>0, RuehrtKeineAn DEF vars, Ziel
<1>1. ASSUME NEW a \in Anmeldungen, NEW f \in Faktoren, NEW p \in Passkeys \cup {Keine},
             Beginne(a, f, p)
      PROVE  Ziel
  <2> DEFINE m == [Ruhend EXCEPT !.schritt = "gefragt", !.faktor = f, !.passkey = p,
                                 !.sentAt = uhr, !.ersetzt = cookie]
  <2>1. m.schritt = "gefragt" /\ m.earlier = {}
    BY AusRuhend, RuhendListet DEF Anlauf
  <2>2. /\ Setze(a, m) /\ eingefuegte' = eingefuegte /\ sitzung' = sitzung
        /\ anlauf[a].schritt = "frei"
    BY <1>1 DEF Beginne
  <2> HIDE DEF m
  <2> QED BY <1>z, <2>1, <2>2, SetztOhneZeile DEF OhneZeile, Ziel
<1>2. ASSUME NEW a \in Anmeldungen, NEW p \in Passkeys, BeginneEinschreibung(a, p)
      PROVE  Ziel
  <2> DEFINE m == [Ruhend EXCEPT !.schritt = "gefragt", !.faktor = "passkey", !.passkey = p,
                                 !.einschreibung = TRUE, !.sentAt = uhr, !.ersetzt = cookie]
  <2>1. m.schritt = "gefragt" /\ m.earlier = {}
    BY AusRuhend, RuhendListet DEF Anlauf
  <2>2. /\ Setze(a, m) /\ eingefuegte' = eingefuegte /\ sitzung' = sitzung
        /\ anlauf[a].schritt = "frei"
    BY <1>2 DEF BeginneEinschreibung
  <2> HIDE DEF m
  <2> QED BY <1>z, <2>1, <2>2, SetztOhneZeile DEF OhneZeile, Ziel
<1>3. ASSUME NEW a \in Anmeldungen, refuseUnadmitted(a) \/ Stemple(a) PROVE Ziel
  <2>1. PICK m : /\ Setze(a, m) /\ eingefuegte' = eingefuegte /\ sitzung' = sitzung
                 /\ \/ m = Verworfen
                    \/ m = [anlauf[a] EXCEPT !.schritt = "zugelassen"]
                    \/ m = [anlauf[a] EXCEPT !.schritt = "gestempelt", !.stamped = uhr]
                 /\ anlauf[a].schritt \in {"gefragt", "zugelassen"}
    BY <1>3, Zenon DEF refuseUnadmitted, Stemple
  <2>2. m.schritt # "gelistet" /\ m.earlier = {}
    BY <1>a, <1>l, <2>1, AusRuhend, RuhendListet DEF Anlauf
  <2>3. sitzung'[a] = Keine
    BY <1>z, <2>1 DEF OhneZeile
  <2> QED BY <2>1, <2>2, <2>3, SetztOhneZeile DEF Ziel
<1>4. ASSUME NEW a \in Anmeldungen, Fuege(a) PROVE Ziel
  <2> DEFINE n == anlauf[a]
             m == [Ruhend EXCEPT !.schritt = "eingefuegt", !.ersetzt = n.ersetzt,
                                 !.stamped = n.stamped, !.id = eingefuegte']
             z == [seit |-> createdAt(a), zuletzt |-> n.stamped, id |-> eingefuegte',
                   faktor |-> n.faktor, passkey |-> n.passkey, ersetzt |-> n.ersetzt,
                   adminLapsed |-> FALSE]
  <2>1. m.schritt = "eingefuegt" /\ m.earlier = {} /\ m.ersetzt = n.ersetzt
    BY AusRuhend, RuhendListet DEF Anlauf
  <2>2. z.id = eingefuegte + 1 /\ z.ersetzt = n.ersetzt /\ eingefuegte' = eingefuegte + 1
        /\ eingefuegte \in Nat
    BY <1>4 DEF Fuege, GeschwisterInv, IInv, TypeOK
  <2>3. Setze(a, m) /\ sitzung' = [sitzung EXCEPT ![a] = z]
    BY <1>4 DEF Fuege
  <2> HIDE DEF m, z
  <2>4. /\ anlauf'[a] = m /\ sitzung'[a] = z
        /\ \A b \in Anmeldungen : b # a => anlauf'[b] = anlauf[b] /\ sitzung'[b] = sitzung[b]
    BY <2>3 DEF Setze, GeschwisterInv, IInv, TypeOK
  <2>5. ZeileNenntDenCookie'
    BY <2>1, <2>2, <2>4 DEF GeschwisterInv, ZeileNenntDenCookie, Da
  <2>6. JedeIhreNummer'
    <3>1. \A b \in Anmeldungen : Da(b) => sitzung[b].id \in Nat /\ sitzung[b].id <= eingefuegte
      BY DEF GeschwisterInv, IInv, TypeOK, JedeIhreNummer, Da, Zeile
    <3> QED BY <2>2, <2>4, <3>1 DEF GeschwisterInv, JedeIhreNummer, Da
  <2>7. ListeNurGelistet'
    BY <2>1, <2>4 DEF GeschwisterInv, ListeNurGelistet
  <2>8. EinesIstVermerkt'
    BY <2>1, <2>4 DEF GeschwisterInv, EinesIstVermerkt, Vermerkt, Gelistet, Da
  <2> QED BY <2>5, <2>6, <2>7, <2>8 DEF Ziel
<1>5. ASSUME NEW a \in Anmeldungen, endReplacedSession(a) PROVE Ziel
  <2>1. PICK m : /\ Setze(a, m) /\ eingefuegte' = eingefuegte
                 /\ sitzung' = Ohne({anlauf[a].ersetzt})
                 /\ anlauf[a].schritt = "eingefuegt"
                 /\ \/ anlauf[a].ersetzt = Keine /\ m = [Ruhend EXCEPT !.schritt = "gesetzt"]
                    \/ m = [anlauf[a] EXCEPT !.schritt = "ersetzt"]
    BY <1>5, Zenon DEF endReplacedSession
  <2>2. /\ m.schritt # "gelistet" /\ m.earlier = {} /\ m.ersetzt = anlauf[a].ersetzt
        /\ m.schritt \in Gelistet => m.ersetzt = Keine
    BY <1>a, <1>l, <2>1, AusRuhend, RuhendListet DEF Anlauf, Gelistet
  <2> QED BY <2>1, <2>2, OhneLoescht, SetztOhneZeile DEF Ziel
<1>6. ASSUME NEW a \in Anmeldungen, ListeGeschwister(a) PROVE Ziel
  <2>1. PICK earlier :
          Setze(a, [Ruhend EXCEPT !.schritt = "gelistet", !.ersetzt = anlauf[a].ersetzt,
                                  !.earlier = earlier])
    BY <1>6, Zenon DEF ListeGeschwister
  <2> DEFINE m == [Ruhend EXCEPT !.schritt = "gelistet", !.ersetzt = anlauf[a].ersetzt,
                                 !.earlier = earlier]
  <2>2. m.schritt = "gelistet" /\ m.ersetzt = anlauf[a].ersetzt
    BY AusRuhend DEF Anlauf
  <2>3. sitzung' = sitzung /\ eingefuegte' = eingefuegte
    BY <1>6 DEF ListeGeschwister
  <2> HIDE DEF m
  <2>4. anlauf'[a] = m /\ \A b \in Anmeldungen : b # a => anlauf'[b] = anlauf[b]
    BY <2>1 DEF Setze, GeschwisterInv, IInv, TypeOK, m
  <2>5. ZeileNenntDenCookie' /\ JedeIhreNummer' /\ ListeNurGelistet'
    BY <2>2, <2>3, <2>4 DEF GeschwisterInv, ZeileNenntDenCookie, JedeIhreNummer,
                            ListeNurGelistet, Da
  <2>6. ASSUME NEW b \in Anmeldungen, a # b, Da(a), Da(b),
               anlauf'[b].ersetzt = anlauf'[a].ersetzt
        PROVE  Vermerkt(a, b)' /\ Vermerkt(b, a)'
    <3>1. {a, b} \cap anlauf'[a].earlier # {}
      BY <1>6, <2>2, <2>4, <2>6, ListeVermerkt
    <3> QED BY <3>1 DEF Vermerkt
  <2>7. EinesIstVermerkt'
    <3> SUFFICES ASSUME NEW x \in Anmeldungen, NEW y \in Anmeldungen, x # y,
                        Da(x), Da(y),
                        anlauf'[x].ersetzt = anlauf'[y].ersetzt, anlauf'[x].ersetzt # Keine,
                        {anlauf'[x].schritt, anlauf'[y].schritt} \subseteq Gelistet
                 PROVE  Vermerkt(x, y)'
      BY <2>3 DEF EinesIstVermerkt, Da
    <3>1. CASE x = a
      BY <2>6, <3>1
    <3>2. CASE y = a
      BY <2>6, <3>2
    <3>3. CASE x # a /\ y # a
      BY <2>4, <3>3 DEF GeschwisterInv, EinesIstVermerkt, Vermerkt
    <3> QED BY <3>1, <3>2, <3>3
  <2> QED BY <2>5, <2>7 DEF Ziel
<1>7. ASSUME NEW a \in Anmeldungen, endEarlierSiblings(a) PROVE Ziel
  <2> DEFINE m == [anlauf[a] EXCEPT !.schritt = "gesetzt", !.earlier = {}]
  <2>1. m.schritt = "gesetzt" /\ m.earlier = {} /\ m.ersetzt = anlauf[a].ersetzt
    BY <1>a DEF Anlauf
  <2>2. /\ Setze(a, m) /\ sitzung' = Ohne(anlauf[a].earlier) /\ eingefuegte' = eingefuegte
        /\ anlauf[a].schritt = "gelistet"
    BY <1>7 DEF endEarlierSiblings
  <2> HIDE DEF m
  <2>3. \A x \in anlauf[a].earlier : sitzung'[x] = Keine
    BY <1>a, <2>2 DEF Anlauf, Ohne
  <2> QED BY <2>1, <2>2, <2>3, OhneLoescht, SetztOhneZeile DEF Gelistet, Ziel
<1>8. ASSUME NEW a \in Anmeldungen, RotationScheitert(a) PROVE Ziel
  <2> DEFINE m == [Ruhend EXCEPT !.schritt = "unrotiert", !.ersetzt = anlauf[a].ersetzt]
  <2>1. m.schritt = "unrotiert" /\ m.earlier = {} /\ m.ersetzt = anlauf[a].ersetzt
    BY AusRuhend, RuhendListet DEF Anlauf
  <2>2. Setze(a, m) /\ sitzung' = sitzung /\ eingefuegte' = eingefuegte
    BY <1>8 DEF RotationScheitert
  <2> HIDE DEF m
  <2> QED BY <2>1, <2>2, SetztOhneZeile DEF Gelistet, Ziel
<1>9. ASSUME NEW a \in Anmeldungen, Antworte(a) PROVE Ziel
  <2> DEFINE m == [anlauf[a] EXCEPT !.schritt = IF @ = "gesetzt" THEN "fertig" ELSE @]
  <2>1. /\ m.schritt \in {"fertig", "unrotiert"} /\ m.earlier = {}
        /\ m.ersetzt = anlauf[a].ersetzt
        /\ m.schritt = "fertig" => anlauf[a].schritt = "gesetzt"
    BY <1>9, <1>a, <1>l DEF Anlauf, Antworte
  <2>2. Setze(a, m) /\ sitzung' = sitzung /\ eingefuegte' = eingefuegte
    BY <1>9 DEF Antworte
  <2> HIDE DEF m
  <2> QED BY <1>l, <2>1, <2>2, SetztOhneZeile DEF Gelistet, Ziel
<1>10. ASSUME NEW r \in Abrufe, updateSession(r) PROVE Ziel
  <2>1. anlauf' = anlauf /\ eingefuegte' = eingefuegte
    BY <1>10 DEF updateSession
  <2>2. \A s \in Anmeldungen : sitzung'[s] # Keine =>
          Da(s) /\ sitzung'[s].id = sitzung[s].id /\ sitzung'[s].ersetzt = sitzung[s].ersetzt
    BY <1>10, FrischtAuf DEF GeschwisterInv, IInv
  <2>3. ListeNurGelistet'
    BY <2>1 DEF ListeNurGelistet, GeschwisterInv
  <2> QED BY <2>1, <2>2, <2>3, OhneNeueListe DEF Ziel
<1>11. CASE \E e \in Loeschungen :
             \/ \E p \in Passkeys : removePasskey(e, p)
             \/ EntfernungSteht(e) \/ EntfernungAbgebrochen(e)
  <2>1. /\ anlauf' = anlauf /\ eingefuegte' = eingefuegte
        /\ sitzung' = sitzung \/ \E weg : sitzung' = Ohne(weg)
    BY <1>11 DEF removePasskey, EntfernungSteht, EntfernungAbgebrochen
  <2> QED BY <2>1, OhneLoescht, RuehrtKeineAn DEF Ziel
<1>12. CASE \/ postSperre \/ Abmelden \/ endSessionsOfAddress \/ deleteEndedSessions
            \/ AbmeldungVersaeumt \/ deleteSperre \/ Ticke
            \/ \E r \in Abrufe : slideSession(r) \/ Beurteile(r) \/ Lande(r) \/ ended(r)
  <2>1. /\ anlauf' = anlauf /\ eingefuegte' = eingefuegte
        /\ sitzung' = sitzung \/ \E weg : sitzung' = Ohne(weg)
    BY <1>12 DEF postSperre, Abmelden, endSessionsOfAddress, deleteEndedSessions,
                 AbmeldungVersaeumt, deleteSperre, slideSession, Beurteile, Lande, ended, Ticke
  <2> QED BY <2>1, OhneLoescht, RuehrtKeineAn DEF Ziel
<1> QED BY <1>0, <1>1, <1>2, <1>3, <1>4, <1>5, <1>6, <1>7, <1>8, <1>9, <1>10, <1>11, <1>12
        DEF Next

LEMMA GeschwisterAmAnfang == Init => GeschwisterInv
<1> SUFFICES ASSUME Init PROVE GeschwisterInv
  OBVIOUS
<1>1. \A a \in Anmeldungen : anlauf[a].earlier = {} /\ anlauf[a].ersetzt = Keine
  <2>1. \A x \in {"fertig", "frei", "verworfen"} :
          /\ [Ruhend EXCEPT !.schritt = x].earlier = {}
          /\ [Ruhend EXCEPT !.schritt = x].ersetzt = Keine
    BY AusRuhend, RuhendListet DEF Anlauf
  <2>2. PICK l \in Lagen : anlauf = [a \in Anmeldungen |->
             IF a = Angemeldet THEN [Ruhend EXCEPT !.schritt = "fertig"]
             ELSE [Ruhend EXCEPT !.schritt = IF a \in l.anmeldungen THEN "frei" ELSE "verworfen"]]
    BY DEF Init
  <2> QED BY <2>1, <2>2
<1>2. /\ eingefuegte = 0
      /\ \A s \in Anmeldungen : Da(s) =>
           s = Angemeldet /\ sitzung[s].id = 0 /\ sitzung[s].ersetzt = Keine
  BY DEF Init, Da
<1>3. ZeileNenntDenCookie /\ JedeIhreNummer /\ ListeNurGelistet /\ EinesIstVermerkt
  BY <1>1, <1>2 DEF ZeileNenntDenCookie, JedeIhreNummer, ListeNurGelistet, EinesIstVermerkt
<1> QED BY <1>3, InvAmAnfang DEF GeschwisterInv

\* Of the sessions minted to replace one cookie at most one stands in the end, for
\* any number of sign-ins however their hooks interleave and whichever cookie slid
\* meanwhile: endEarlierSiblings lists past the insert, over rows the ids order.
THEOREM EinGeschwisterSteht == Spec => []NurDasLetzteGeschwisterSteht
<1>1. ASSUME GeschwisterInv PROVE NurDasLetzteGeschwisterSteht
  <2> SUFFICES ASSUME NEW c \in Anmeldungen,
                      \A a \in Anmeldungen : anlauf[a].ersetzt = c =>
                        anlauf[a].schritt \in {"gesetzt", "fertig"}
               PROVE  Cardinality({a \in {b \in Anmeldungen : anlauf[b].ersetzt = c} : Da(a)}) <= 1
    BY DEF NurDasLetzteGeschwisterSteht
  <2> DEFINE S == {a \in {b \in Anmeldungen : anlauf[b].ersetzt = c} : Da(a)}
  <2>1. ASSUME NEW a \in S, NEW b \in S PROVE a = b
    <3>1. /\ anlauf[a].earlier = {} /\ anlauf[b].earlier = {}
          /\ {anlauf[a].schritt, anlauf[b].schritt} \subseteq Gelistet
      BY <1>1 DEF GeschwisterInv, ListeNurGelistet, Gelistet
    <3> QED BY <1>1, <3>1, KeineAssumption DEF GeschwisterInv, EinesIstVermerkt, Vermerkt
  <2>2. CASE S = {}
    BY <2>2, FS_EmptySet
  <2>3. CASE S # {}
    <3>1. PICK a \in S : TRUE
      BY <2>3
    <3>2. S = {a}
      BY <2>1, <3>1
    <3> HIDE DEF S
    <3>3. Cardinality(S) = 1
      BY <3>2, FS_Singleton
    <3> QED BY <3>3 DEF S
  <2> QED BY <2>2, <2>3
<1>2. GeschwisterInv /\ [Next]_vars => GeschwisterInv'
  BY GeschwisterBleiben, InvBleibt DEF GeschwisterInv
<1> QED BY <1>1, <1>2, GeschwisterAmAnfang, PTL DEF Spec

-----------------------------------------------------------------------------
\* Where the sign-in page sends a session.

\* The administrator's windows lie inside the person's.
LEMMA VerwaltungLiegtInnen ==
  ASSUME TypeOK, NEW s \in Anmeldungen, Da(s), isAdminSession(s)
  PROVE  isWithinPersonLifetime(sitzung[s])
<1>1. sitzung[s].zuletzt \in Int /\ sitzung[s].seit \in Int /\ uhr \in Int
  BY ZahlenAssumption DEF TypeOK, Da, Zeile, Instants
<1>2. {ADMIN_IDLE, ADMIN_ABSOLUTE, PERSON_IDLE, PERSON_ABSOLUTE} \subseteq Int
  BY ZahlenAssumption
<1> QED BY <1>1, <1>2, FensterAssumption
        DEF isAdminSession, isAdminWithinWindow, isWithinPersonLifetime, withinLifetime

\* The landing never circles, for every length of the windows that keeps the
\* administrator's inside the person's: where it answers a page, that page's own
\* verdict on the same session admits it, and the sign-in page gets only a session
\* the account page refuses.
THEOREM LandungKommtAn == Spec => []LandungKreistNicht
<1>1. ASSUME TypeOK PROVE LandungKreistNicht
  <2> SUFFICES ASSUME NEW s \in Anmeldungen, Da(s)
               PROVE  /\ landingOf(s) = "/signin/passkey" => passkeyStepOf(s) # Keine
                      /\ landingOf(s) = "/bereich" =>
                           IF verwaltung THEN getAdminSession(s) ELSE getSubjectSession(s)
                      /\ landingOf(s) = "/signin" => ~getKontoSession(s)
    BY DEF LandungKreistNicht, Bestehende
  <2>1. CASE Ausgedient(s)
    <3>1. landingOf(s) = "/signin"
      BY <2>1 DEF landingOf
    <3>2. ~getKontoSession(s)
      BY <1>1, <2>1, VerwaltungLiegtInnen DEF Ausgedient, getKontoSession
    <3> QED BY <3>1, <3>2
  <2>2. CASE ~Ausgedient(s) /\ verwaltung
    <3>1. landingOf(s) = IF isAdminSession(s) THEN "/bereich"
                         ELSE IF passkeyStepOf(s) = Keine THEN "/signin" ELSE "/signin/passkey"
      BY <2>2 DEF landingOf, destinationOf
    <3>2. servedSessionOf(s)
      BY <2>2 DEF Ausgedient
    <3> QED BY <2>2, <3>1, <3>2 DEF getAdminSession, getKontoSession
  <2>3. CASE ~Ausgedient(s) /\ ~verwaltung
    <3>1. landingOf(s) = IF passkeyStepOf(s) = "offer" THEN "/signin/passkey" ELSE "/bereich"
      BY <2>3 DEF landingOf, destinationOf
    <3>2. getSubjectSession(s)
      BY <2>3 DEF Ausgedient, getSubjectSession
    <3>3. CASE passkeyStepOf(s) = "offer"
      <4>1. landingOf(s) = "/signin/passkey"
        BY <3>1, <3>3
      <4>2. passkeyStepOf(s) # Keine
        BY <3>3, KeineAssumption
      <4> QED BY <4>1, <4>2
    <3>4. CASE passkeyStepOf(s) # "offer"
      BY <2>3, <3>1, <3>2, <3>4
    <3> QED BY <3>3, <3>4
  <2> QED BY <2>1, <2>2, <2>3
<1> QED BY <1>1, Typkorrekt, PTL
=============================================================================
