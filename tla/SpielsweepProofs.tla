--------------------------- MODULE SpielsweepProofs ---------------------------
(***************************************************************************)
(* Proofs about module Spielsweep, for any slots, days, mailboxes and rows *)
(* of a fixture, any deadlines and caps, and whatever a history may lose.  *)
(***************************************************************************)
EXTENDS Spielsweep, WellFoundedInduction, TLAPS

-----------------------------------------------------------------------------
(* The inductive invariant. *)

Vorrat == [eingriffe : Nat, sperren : Nat, antworten : Nat, stoerungen : Nat, versand : Versandarten,
           gesperrt : SUBSET Postfaecher]

Zeile == [da : BOOLEAN, slot : Slots, frist : 1..TAGE, links : SUBSET Postfaecher, angefragt : 0..TAGE,
          erinnert : SUBSET (1..TAGE), antwort : {"keine", "zugesagt", "abgelehnt"},
          grund : Gruende, mitteilung : BOOLEAN, versuche : 0..MITTEILUNG_VERSUCHE_HOECHSTENS]

Pass == [schritt : {"ruht", "schliesst", "sagt_an", "fragt", "erinnert", "hinweise", "mitgeteilt",
                    "erinnerungen", "anfragen", "angefragt"},
         hinweise : SUBSET Zeilen, aufgegeben : SUBSET Zeilen, angekuendigt : SUBSET Zeilen,
         mitgeteilt : SUBSET Zeilen, ungewarnt : SUBSET Postfaecher, eingefuegt : SUBSET Zeilen,
         anfragen : SUBSET (Zeilen \X Postfaecher), erinnerungen : SUBSET Zeilen,
         angefragt : SUBSET Zeilen]

\* At most one row is open, whatever slot it is of.
EinOffener == \A y, z \in Zeilen : Offen(y) /\ Offen(z) => y = z

\* A reminder mailed today was stamped today, of a row asked on an earlier day.
ErinnertStimmt ==
  \A z \in Zeilen :
    /\ erinnert[z] <= 1
    /\ erinnert[z] > 0 => /\ zeile[z].da /\ heute \in zeile[z].erinnert
                          /\ zeile[z].angefragt \notin {0, heute}

\* A notice of a move, held on a row, was tried by a pass, or is of a day gone by.
HaeltHinweis(y) == zeile[y].da /\ zeile[y].grund = "ansetzung_geaendert" /\ zeile[y].mitteilung
Gezaehlt(y) == zeile[y].versuche > 0 \/ Tag[zeile[y].slot] < heute

\* Beside row z, every notice held about another slot was.
AlleGezaehlt(z) == \A y \in Zeilen : HaeltHinweis(y) /\ zeile[y].slot # zeile[z].slot => Gezaehlt(y)

OffeneGezaehlt == \A z \in Zeilen : Offen(z) => AlleGezaehlt(z)

ZeilenStimmen ==
  StempelHeisstGemailt /\ EineFrageJeAnsetzung /\ EinOffener /\ ErinnertStimmt /\ OffeneGezaehlt

\* A pass begins with nothing to mail or stamp, and mints before it has a row to ask about.
Leer(p) == /\ p.hinweise = {} /\ p.aufgegeben = {} /\ p.mitgeteilt = {}
           /\ p.anfragen = {} /\ p.erinnerungen = {} /\ p.angefragt = {}

Schritte ==
  /\ pass.schritt \in {"ruht", "schliesst", "sagt_an"} => Leer(pass)
  /\ pass.schritt = "fragt" => pass.anfragen = {}
  /\ pass.schritt \in {"mitgeteilt", "erinnerungen", "anfragen", "angefragt"} =>
       pass.hinweise = {} /\ pass.aufgegeben = {}

\* What a pass asks is not closed over a move, nor is another row open beside it, nor a
\* notice held that no pass tried; what it stamps was mailed, or had nobody to go to.
Fragbar(z) ==
  /\ zeile[z].da /\ zeile[z].grund \in {"offen", "verworfen"}
  /\ \A y \in Zeilen : Offen(y) => y = z
  /\ AlleGezaehlt(z)

AnfragenStimmen ==
  /\ \A l \in pass.anfragen : Fragbar(l[1])
  /\ \A z \in pass.angefragt : zeile[z].da /\ zeile[z].grund \in {"offen", "verworfen"} /\ Gebeten(z)

\* The row's notice is out, the pass still has it, or every mailbox is marked as unwarned;
\* or the pass's answer left it out, and the row still holds it.
HinweisUnterwegs(z) ==
  \/ Gewarnt(z) \/ Tag[zeile[z].slot] < heute
  \/ z \in pass.hinweise \/ z \in pass.aufgegeben \/ pass.ungewarnt = Postfaecher
  \/ zeile[z].mitteilung /\ z \notin pass.angekuendigt

HinweiseStimmen ==
  /\ \A z \in pass.mitgeteilt : Gewarnt(z)
  /\ pass.schritt = "fragt" => \A y \in pass.angekuendigt : HaeltHinweis(y) => Gezaehlt(y)
  /\ pass.schritt \in {"fragt", "erinnert", "hinweise", "mitgeteilt", "erinnerungen", "anfragen"} =>
       \A z \in Zeilen : Geaendert(z) => HinweisUnterwegs(z)

ErinnerungenStimmen ==
  \A z \in pass.erinnerungen :
    /\ erinnert[z] = 0 /\ zeile[z].da /\ heute \in zeile[z].erinnert
    /\ zeile[z].angefragt \notin {0, heute}

PassStimmt == Schritte /\ AnfragenStimmen /\ HinweiseStimmen /\ ErinnerungenStimmen

IInv == TypeOK /\ ZeilenStimmen /\ PassStimmt

-----------------------------------------------------------------------------
(* Shapes. *)

LEMMA Typ ==
  TypeOK <=> /\ heute \in 1..TAGE /\ vorrat \in Vorrat /\ spiel \in [slot : Slots, ab : BOOLEAN]
             /\ gesperrt \subseteq Postfaecher
             /\ zeile \in [Zeilen -> Zeile] /\ pass \in Pass
             /\ gebeten \subseteq Zeilen \X Postfaecher /\ gewarnt \subseteq Zeilen \X Postfaecher
             /\ abgetan \subseteq {"anfrage", "hinweis"} \X Zeilen
             /\ erinnert \in [Zeilen -> 0..2] /\ entledigt \subseteq Zeilen
BY DEF TypeOK, Vorrat, Zeile, Pass

LEMMA RuheTyp ==
  ASSUME NEW s \in {"ruht", "schliesst"}
  PROVE  LET p == [Ruhe EXCEPT !.schritt = s] IN p \in Pass /\ Leer(p) /\ p.schritt = s
BY DEF Ruhe, Pass, Leer

LEMMA RuheLeer == Ruhe \in Pass /\ Leer(Ruhe) /\ Ruhe.schritt = "ruht"
BY DEF Ruhe, Pass, Leer

LEMMA VorratBleibt ==
  ASSUME TypeOK, Glatt \/ Stoerung
  PROVE  vorrat' \in Vorrat
<1>1. vorrat \in Vorrat
  BY Typ
<1>2. CASE Glatt
  BY <1>1, <1>2 DEF Glatt
<1>3. CASE Stoerung
  <2>1. vorrat.stoerungen \in Nat /\ vorrat.stoerungen > 0
    BY <1>1, <1>3 DEF Vorrat, Stoerung
  <2>2. vorrat.stoerungen - 1 \in Nat
    BY <2>1
  <2> QED BY <1>1, <1>3, <2>2 DEF Vorrat, Stoerung
<1> QED BY <1>2, <1>3

\* However many rows a step takes.
LEMMA UmfangTyp ==
  ASSUME TypeOK, NEW anteil, NEW alle, Umfang(anteil, alle)
  PROVE  vorrat' \in Vorrat
BY VorratBleibt DEF Umfang

\* Rows are numbered, so one not inserted yet is the next to be.
LEMMA NaechsteStimmt == ASSUME Da # Zeilen PROVE Naechste \in Zeilen \ Da
<1> DEFINE S == Zeilen \ Da
<1>1. S # {} /\ S \subseteq Zeilen
  BY DEF Da
<1>2. S \subseteq Nat
  BY ZeilenAssumption, <1>1
<1>3. \E x \in S : \A y \in S : x <= y
  <2> HIDE DEF S
  <2>1. PICK x \in S : \A y \in S : <<y, x>> \notin OpToRel(<, Nat)
    BY <1>1, <1>2, WFMin, NatLessThanWellFounded, Zenon
  <2>2. \A y \in S : ~ (y < x)
    BY <1>2, <2>1, Zenon DEF OpToRel
  <2> QED BY <1>2, <2>2
<1> QED BY <1>3 DEF Naechste

-----------------------------------------------------------------------------
(* What a step leaves alone. *)

\* Who was told or asked stays so.
LEMMA PostWaechst ==
  ASSUME gebeten \subseteq gebeten', gewarnt \subseteq gewarnt', abgetan \subseteq abgetan',
         entledigt \subseteq entledigt'
  PROVE  \A z : (Gewarnt(z) => Gewarnt(z)') /\ (Gebeten(z) => Gebeten(z)')
BY DEF Gewarnt, Gebeten

\* A step that moves the pass and adds mail keeps what the rows say.
LEMMA NurPass ==
  ASSUME IInv, pass' \in Pass, vorrat' \in Vorrat,
         UNCHANGED <<heute, spiel, gesperrt, zeile, erinnert>>,
         gebeten \subseteq gebeten', gebeten' \subseteq Zeilen \X Postfaecher,
         gewarnt \subseteq gewarnt', gewarnt' \subseteq Zeilen \X Postfaecher,
         abgetan \subseteq abgetan', abgetan' \subseteq {"anfrage", "hinweis"} \X Zeilen,
         entledigt \subseteq entledigt', entledigt' \subseteq Zeilen
  PROVE  TypeOK' /\ ZeilenStimmen'
<1>1. TypeOK'
  BY Typ DEF IInv, TypeOK, Zeile, Pass, Vorrat
<1>2. \A z : (Gewarnt(z) => Gewarnt(z)') /\ (Gebeten(z) => Gebeten(z)')
  BY PostWaechst
<1>3. StempelHeisstGemailt'
  BY <1>2 DEF IInv, ZeilenStimmen, StempelHeisstGemailt, Geaendert
<1>4. (EineFrageJeAnsetzung /\ EinOffener /\ ErinnertStimmt)'
  BY DEF IInv, ZeilenStimmen, EineFrageJeAnsetzung, EinOffener, ErinnertStimmt, Offen, Da
<1>5. OffeneGezaehlt'
  BY DEF IInv, ZeilenStimmen, OffeneGezaehlt, AlleGezaehlt, HaeltHinweis, Gezaehlt, Offen
<1> QED BY <1>1, <1>3, <1>4, <1>5 DEF ZeilenStimmen

\* A pass with nothing in it says nothing.
LEMMA LeererPass ==
  ASSUME Leer(pass'), pass'.schritt \in {"ruht", "schliesst", "sagt_an"}
  PROVE  PassStimmt'
BY DEF Leer, PassStimmt, Schritte, AnfragenStimmen, HinweiseStimmen, ErinnerungenStimmen

\* Rows are only ever closed: what keeps each row's place, stamps and warning, and opens
\* none, keeps what the rows say, where a notice it adds is of a row that was open.
LEMMA NurZeilen ==
  ASSUME IInv,
         UNCHANGED <<heute, gebeten, abgetan, erinnert>>,
         \A z \in Zeilen : /\ zeile'[z].da = zeile[z].da /\ zeile'[z].slot = zeile[z].slot
                           /\ zeile'[z].angefragt = zeile[z].angefragt
                           /\ zeile[z].erinnert \subseteq zeile'[z].erinnert,
         \A z \in Zeilen : zeile'[z].grund = "offen" => zeile[z].grund = "offen",
         \A z \in Zeilen : zeile'[z].grund \in {"offen", "verworfen"} => zeile[z].grund \in {"offen", "verworfen"},
         \A z \in Zeilen : HaeltHinweis(z)' => Offen(z) \/ (HaeltHinweis(z) /\ (Gezaehlt(z) => Gezaehlt(z)')),
         \A z \in Zeilen : Geaendert(z)' /\ ~zeile'[z].mitteilung =>
           Gewarnt(z)' \/ Tag[zeile[z].slot] < heute
  PROVE  ZeilenStimmen'
<1>1. StempelHeisstGemailt'
  BY DEF IInv, ZeilenStimmen, StempelHeisstGemailt, Gebeten
<1>2. EineFrageJeAnsetzung'
  BY DEF IInv, ZeilenStimmen, EineFrageJeAnsetzung, Da
<1>3. EinOffener'
  BY DEF IInv, ZeilenStimmen, EinOffener, Offen
<1>4. ErinnertStimmt'
  BY DEF IInv, ZeilenStimmen, ErinnertStimmt
<1>5. OffeneGezaehlt'
  <2>1. ASSUME NEW z \in Zeilen, Offen(z)', NEW y \in Zeilen, HaeltHinweis(y)', zeile'[y].slot # zeile'[z].slot
        PROVE  Gezaehlt(y)'
    <3>1. Offen(z) /\ zeile[y].slot # zeile[z].slot
      BY <2>1 DEF Offen
    <3>2. ~Offen(y)
      BY <3>1 DEF IInv, ZeilenStimmen, EinOffener
    <3>3. HaeltHinweis(y) /\ (Gezaehlt(y) => Gezaehlt(y)')
      BY <2>1, <3>2
    <3> QED BY <3>1, <3>3 DEF IInv, ZeilenStimmen, OffeneGezaehlt, AlleGezaehlt
  <2> QED BY <2>1 DEF OffeneGezaehlt, AlleGezaehlt
<1> QED BY <1>1, <1>2, <1>3, <1>4, <1>5 DEF ZeilenStimmen

\* And it keeps what a pass holds, where the row is not closed over a move.
LEMMA PassBleibt ==
  ASSUME IInv, pass' = pass,
         UNCHANGED <<heute, gebeten, gewarnt, erinnert, abgetan, entledigt>>,
         \A z \in Zeilen : /\ zeile'[z].da = zeile[z].da /\ zeile'[z].slot = zeile[z].slot
                           /\ zeile'[z].angefragt = zeile[z].angefragt
                           /\ zeile'[z].erinnert = zeile[z].erinnert,
         \A z \in Zeilen : \/ /\ zeile'[z].grund = zeile[z].grund /\ zeile'[z].mitteilung = zeile[z].mitteilung
                              /\ zeile'[z].versuche = zeile[z].versuche
                           \/ zeile[z].grund = "offen" /\ zeile'[z].grund = "verworfen"
  PROVE  PassStimmt'
<1>1. pass.anfragen \subseteq Zeilen \X Postfaecher /\ pass.angefragt \subseteq Zeilen
      /\ pass.mitgeteilt \subseteq Zeilen /\ pass.erinnerungen \subseteq Zeilen
      /\ pass.angekuendigt \subseteq Zeilen
  BY Typ DEF IInv, Pass
<1>2. Schritte'
  BY DEF IInv, PassStimmt, Schritte, Leer
<1>3. \A z \in Zeilen : HaeltHinweis(z)' => HaeltHinweis(z) /\ (Gezaehlt(z) => Gezaehlt(z)')
  BY DEF HaeltHinweis, Gezaehlt
<1>4. ASSUME NEW z \in Zeilen, Fragbar(z) PROVE Fragbar(z)'
  <2>1. AlleGezaehlt(z)'
    BY <1>3, <1>4 DEF Fragbar, AlleGezaehlt
  <2>2. zeile'[z].da /\ zeile'[z].grund \in {"offen", "verworfen"}
    BY <1>4 DEF Fragbar
  <2>3. \A y \in Zeilen : Offen(y)' => y = z
    BY <1>4 DEF Fragbar, Offen
  <2> QED BY <2>1, <2>2, <2>3 DEF Fragbar
<1>5. AnfragenStimmen'
  <2>1. \A l \in pass.anfragen : l[1] \in Zeilen
    BY <1>1
  <2>2. \A l \in pass.anfragen : Fragbar(l[1])
    BY DEF IInv, PassStimmt, AnfragenStimmen
  <2>3. \A l \in pass.anfragen : Fragbar(l[1])'
    BY <1>4, <2>1, <2>2
  <2>4. \A z \in pass.angefragt : zeile'[z].da /\ zeile'[z].grund \in {"offen", "verworfen"} /\ Gebeten(z)'
    BY <1>1 DEF IInv, PassStimmt, AnfragenStimmen, Gebeten
  <2> QED BY <2>3, <2>4 DEF AnfragenStimmen
<1>6. ASSUME NEW z \in Zeilen
      PROVE  /\ Gewarnt(z)' <=> Gewarnt(z)
             /\ Geaendert(z)' => Geaendert(z) /\ zeile'[z].mitteilung = zeile[z].mitteilung
             /\ Geaendert(z)' /\ HinweisUnterwegs(z) => HinweisUnterwegs(z)'
  <2>1. Gewarnt(z)' <=> Gewarnt(z)
    BY DEF Gewarnt
  <2>2. Geaendert(z)' => Geaendert(z) /\ zeile'[z].mitteilung = zeile[z].mitteilung
    BY DEF Geaendert
  <2>3. Geaendert(z)' /\ HinweisUnterwegs(z) => HinweisUnterwegs(z)'
    BY <2>1, <2>2 DEF HinweisUnterwegs
  <2> QED BY <2>1, <2>2, <2>3
<1>7. HinweiseStimmen'
  <2>1. \A z \in pass.mitgeteilt : Gewarnt(z)'
    BY <1>1, <1>6 DEF IInv, PassStimmt, HinweiseStimmen
  <2>2. pass.schritt \in {"fragt", "erinnert", "hinweise", "mitgeteilt", "erinnerungen", "anfragen"} =>
          \A z \in Zeilen : Geaendert(z)' => HinweisUnterwegs(z)'
    BY <1>6 DEF IInv, PassStimmt, HinweiseStimmen
  <2>3. pass.schritt = "fragt" => \A y \in pass.angekuendigt : HaeltHinweis(y)' => Gezaehlt(y)'
    BY <1>1, <1>3 DEF IInv, PassStimmt, HinweiseStimmen
  <2> QED BY <2>1, <2>2, <2>3 DEF HinweiseStimmen
<1>8. ErinnerungenStimmen'
  BY <1>1 DEF IInv, PassStimmt, ErinnerungenStimmen
<1> QED BY <1>2, <1>5, <1>7, <1>8 DEF PassStimmt

-----------------------------------------------------------------------------
(* The call. *)

LEMMA AmAnfang == Init => IInv
<1> SUFFICES ASSUME Init PROVE IInv
  OBVIOUS
<1>1. spiel.slot \in Slots /\ spiel \in [slot : Slots, ab : BOOLEAN] /\ Tag[spiel.slot] \in 1..TAGE
  BY SlotAssumption DEF Init
<1>2. heute \in 1..TAGE /\ 1 \in 1..TAGE /\ 0 \in 0..TAGE /\ 0 \in 0..MITTEILUNG_VERSUCHE_HOECHSTENS
  BY <1>1, ZahlenAssumption DEF Init
<1>3. zeile \in [Zeilen -> Zeile]
  BY <1>1, <1>2 DEF Init, Zeile, Gruende
<1>4. TypeOK
  <2>1. vorrat \in Vorrat
    BY VorraeteAssumption DEF Init, Vorrat
  <2>2. pass \in Pass /\ gesperrt \subseteq Postfaecher
    BY <2>1, RuheLeer DEF Init, Vorrat
  <2>3. /\ gebeten \subseteq Zeilen \X Postfaecher /\ gewarnt \subseteq Zeilen \X Postfaecher
        /\ abgetan \subseteq {"anfrage", "hinweis"} \X Zeilen
        /\ erinnert \in [Zeilen -> 0..2] /\ entledigt \subseteq Zeilen
    BY DEF Init
  <2> QED BY <1>1, <1>2, <1>3, <2>1, <2>2, <2>3, Typ
<1>5. ZeilenStimmen
  BY DEF Init, ZeilenStimmen, StempelHeisstGemailt, Geaendert, EineFrageJeAnsetzung, Da, EinOffener, Offen,
         ErinnertStimmt, OffeneGezaehlt
<1>6. PassStimmt
  BY RuheLeer DEF Init, Leer, PassStimmt, Schritte, AnfragenStimmen, HinweiseStimmen, ErinnerungenStimmen
<1> QED BY <1>4, <1>5, <1>6 DEF IInv

LEMMA runSpielSweepStimmt == ASSUME IInv, runSpielSweep PROVE IInv'
<1>1. vorrat' \in Vorrat
  BY VorratBleibt DEF IInv, runSpielSweep
<1>2. pass' \in Pass /\ Leer(pass') /\ pass'.schritt = "schliesst"
  BY RuheTyp DEF runSpielSweep, Setze, Leer
<1>3. TypeOK' /\ ZeilenStimmen'
  BY <1>1, <1>2, NurPass, Typ DEF IInv, runSpielSweep, Liga, Post
<1> QED BY <1>2, <1>3, LeererPass DEF IInv

\* What closing does to a row: a notice it adds is of a row that was open.
LEMMA GeschlossenStimmt ==
  ASSUME TypeOK, NEW anteil \in SUBSET ZuSchliessen
  PROVE  /\ Geschlossen(anteil) \in [Zeilen -> Zeile]
         /\ \A z \in Zeilen :
              LET n == Geschlossen(anteil)[z] IN
              /\ n.da = zeile[z].da /\ n.slot = zeile[z].slot
              /\ n.angefragt = zeile[z].angefragt /\ n.erinnert = zeile[z].erinnert
              /\ n.grund = "offen" => zeile[z].grund = "offen"
              /\ n.grund \in {"offen", "verworfen"} => zeile[z].grund \in {"offen", "verworfen"}
              /\ n.grund = "ansetzung_geaendert" => n = zeile[z] \/ Offen(z)
              /\ n.da /\ n.grund = "ansetzung_geaendert" /\ n.angefragt # 0 /\ ~n.mitteilung =>
                   n = zeile[z] \/ Tag[zeile[z].slot] < heute
<1>1. zeile \in [Zeilen -> Zeile] /\ heute \in Nat /\ 0 \in 0..MITTEILUNG_VERSUCHE_HOECHSTENS
  BY Typ, ZahlenAssumption
<1>2. ASSUME NEW z \in Zeilen
      PROVE  grund_to_end(z) \in Gruende
  BY <1>1 DEF grund_to_end, grund_to_close, Zeile, Gruende
<1>3. ASSUME NEW z \in Zeilen, NEW g \in Gruende
      PROVE  notice_owed(z, g) \in BOOLEAN
  BY Zenon DEF notice_owed
<1>4. ASSUME NEW z \in Zeilen
      PROVE  LET n == [zeile[z] EXCEPT !.grund = grund_to_end(z), !.mitteilung = notice_owed(z, grund_to_end(z)),
                                       !.versuche = 0]
             IN  /\ n \in Zeile
                 /\ n.da = zeile[z].da /\ n.slot = zeile[z].slot /\ n.angefragt = zeile[z].angefragt
                 /\ n.erinnert = zeile[z].erinnert /\ n.grund = grund_to_end(z)
                 /\ n.mitteilung = notice_owed(z, grund_to_end(z))
  BY <1>1, <1>2, <1>3 DEF Zeile
<1>5. ASSUME NEW z \in Zeilen
      PROVE  /\ Geschlossen(anteil)[z] = zeile[z] \/
                  /\ build_holding_filter(z) /\ grund_to_end(z) # zeile[z].grund
                  /\ Geschlossen(anteil)[z] = [zeile[z] EXCEPT !.grund = grund_to_end(z),
                                                 !.mitteilung = notice_owed(z, grund_to_end(z)), !.versuche = 0]
  BY DEF Geschlossen, ZuSchliessen
<1>6. Geschlossen(anteil) \in [Zeilen -> Zeile]
  BY <1>1, <1>4, <1>5 DEF Geschlossen
<1>7. ASSUME NEW z \in Zeilen
      PROVE  /\ grund_to_end(z) = "offen" => zeile[z].grund = "offen"
             /\ grund_to_end(z) = "ansetzung_geaendert" /\ zeile[z].grund # "offen" =>
                  zeile[z].grund = "ansetzung_geaendert"
  BY DEF grund_to_end
<1>8. ASSUME NEW z \in Zeilen, build_holding_filter(z)
      PROVE  zeile[z].da /\ zeile[z].grund \in {"offen", "verworfen"}
  BY <1>8 DEF build_holding_filter, Offen
<1>9. ASSUME NEW z \in Zeilen, zeile[z].angefragt # 0, grund_to_end(z) = "ansetzung_geaendert",
             ~notice_owed(z, grund_to_end(z))
      PROVE  Tag[zeile[z].slot] < heute
  <2>1. ~_notice_to_come(z, "ansetzung_geaendert")
    BY <1>9 DEF notice_owed
  <2>2. Tag[zeile[z].slot] \in Nat
    BY <1>1, SlotAssumption DEF Zeile
  <2> QED BY <1>1, <2>1, <2>2 DEF _notice_to_come
<1>10. ASSUME NEW z \in Zeilen
       PROVE  LET n == Geschlossen(anteil)[z] IN
              /\ n.da = zeile[z].da /\ n.slot = zeile[z].slot
              /\ n.angefragt = zeile[z].angefragt /\ n.erinnert = zeile[z].erinnert
              /\ n.grund = "offen" => zeile[z].grund = "offen"
              /\ n.grund \in {"offen", "verworfen"} => zeile[z].grund \in {"offen", "verworfen"}
              /\ n.grund = "ansetzung_geaendert" => n = zeile[z] \/ Offen(z)
              /\ n.da /\ n.grund = "ansetzung_geaendert" /\ n.angefragt # 0 /\ ~n.mitteilung =>
                   n = zeile[z] \/ Tag[zeile[z].slot] < heute
  <2>1. CASE Geschlossen(anteil)[z] = zeile[z]
    BY <2>1
  <2>2. CASE Geschlossen(anteil)[z] # zeile[z]
    <3> DEFINE n == Geschlossen(anteil)[z]
    <3>1. /\ build_holding_filter(z)
          /\ n = [zeile[z] EXCEPT !.grund = grund_to_end(z), !.mitteilung = notice_owed(z, grund_to_end(z)),
                                  !.versuche = 0]
      BY <1>5, <2>2
    <3>2. /\ n.da = zeile[z].da /\ n.slot = zeile[z].slot /\ n.angefragt = zeile[z].angefragt
          /\ n.erinnert = zeile[z].erinnert /\ n.grund = grund_to_end(z)
          /\ n.mitteilung = notice_owed(z, grund_to_end(z))
      BY <1>4, <3>1
    <3> HIDE DEF n
    <3>3. /\ zeile[z].grund \in {"offen", "verworfen"} /\ (n.grund = "offen" => zeile[z].grund = "offen")
          /\ n.grund = "ansetzung_geaendert" => Offen(z)
      BY <1>7, <1>8, <3>1, <3>2 DEF Offen
    <3>4. n.angefragt # 0 /\ n.grund = "ansetzung_geaendert" /\ ~n.mitteilung => Tag[zeile[z].slot] < heute
      BY <1>9, <3>2
    <3> QED BY <3>2, <3>3, <3>4 DEF n
  <2> QED BY <2>1, <2>2
<1> QED BY <1>6, <1>10

\* Closing, whichever rows it takes.
LEMMA SchliessenStimmt ==
  ASSUME IInv, NEW anteil \in SUBSET ZuSchliessen, zeile' = Geschlossen(anteil), vorrat' \in Vorrat,
         UNCHANGED <<heute, spiel, gesperrt, gebeten, gewarnt, erinnert, abgetan, entledigt>>,
         pass' \in Pass, Leer(pass'), pass'.schritt \in {"ruht", "schliesst", "sagt_an"}
  PROVE  IInv'
<1>1. zeile' \in [Zeilen -> Zeile]
  BY GeschlossenStimmt DEF IInv
<1>2. TypeOK'
  BY <1>1, Typ DEF IInv, TypeOK, Zeile, Pass, Vorrat
<1>3. ASSUME NEW z \in Zeilen
      PROVE  /\ zeile'[z].da = zeile[z].da /\ zeile'[z].slot = zeile[z].slot
             /\ zeile'[z].angefragt = zeile[z].angefragt /\ zeile[z].erinnert \subseteq zeile'[z].erinnert
             /\ zeile'[z].grund = "offen" => zeile[z].grund = "offen"
             /\ zeile'[z].grund \in {"offen", "verworfen"} => zeile[z].grund \in {"offen", "verworfen"}
  BY GeschlossenStimmt DEF IInv
<1>4. ASSUME NEW z \in Zeilen, HaeltHinweis(z)'
      PROVE  Offen(z) \/ (HaeltHinweis(z) /\ (Gezaehlt(z) => Gezaehlt(z)'))
  <2>1. zeile'[z] = zeile[z] \/ Offen(z)
    BY <1>4, GeschlossenStimmt DEF IInv, HaeltHinweis
  <2> QED BY <1>4, <2>1 DEF HaeltHinweis, Gezaehlt
<1>5. ASSUME NEW z \in Zeilen, Geaendert(z)', ~zeile'[z].mitteilung
      PROVE  Gewarnt(z)' \/ Tag[zeile[z].slot] < heute
  <2>1. CASE zeile'[z] = zeile[z]
    BY <1>5, <2>1 DEF IInv, ZeilenStimmen, StempelHeisstGemailt, Gewarnt, Geaendert
  <2>2. CASE zeile'[z] # zeile[z]
    BY <1>5, <2>2, GeschlossenStimmt DEF IInv, Geaendert
  <2> QED BY <2>1, <2>2
<1>6. ZeilenStimmen'
  BY <1>3, <1>4, <1>5, NurZeilen
<1> QED BY <1>2, <1>6, LeererPass DEF IInv

LEMMA closeStimmt == ASSUME IInv, close PROVE IInv'
<1> DEFINE m == [pass EXCEPT !.schritt = "sagt_an"]
<1>1. pass \in Pass /\ Leer(pass)
  BY Typ DEF IInv, close, PassStimmt, Schritte
<1>2. m \in Pass /\ Leer(m) /\ m.schritt = "sagt_an"
  BY <1>1 DEF Pass, Leer
<1>3. PICK anteil \in SUBSET ZuSchliessen : Umfang(anteil, ZuSchliessen) /\ zeile' = Geschlossen(anteil)
  BY DEF close
<1>4. vorrat' \in Vorrat
  BY <1>3, UmfangTyp DEF IInv
<1>5. pass' = m /\ UNCHANGED <<heute, spiel, gesperrt, gebeten, gewarnt, erinnert, abgetan, entledigt>>
  BY DEF close, Setze, Liga, Post
<1> HIDE DEF m
<1> QED BY <1>2, <1>3, <1>4, <1>5, SchliessenStimmt

\* What announcing does to a row: a notice goes only with its closing undone, and one due
\* counts its attempt.
LEMMA AngesagtStimmt ==
  ASSUME TypeOK, NEW anteil \in SUBSET Gehalten
  PROVE  /\ Angesagt(anteil) \in [Zeilen -> Zeile]
         /\ \A z \in Zeilen :
              LET n == Angesagt(anteil)[z] IN
              /\ n.da = zeile[z].da /\ n.slot = zeile[z].slot /\ n.angefragt = zeile[z].angefragt
              /\ n.erinnert = zeile[z].erinnert /\ n.grund = zeile[z].grund
              /\ n.mitteilung => zeile[z].mitteilung
              /\ n.mitteilung \/ ~zeile[z].mitteilung \/ z \in Entfallen \cap anteil
              /\ zeile[z].versuche > 0 => n.versuche > 0
              /\ z \in Faellig \cap anteil => n.versuche > 0
<1>1. zeile \in [Zeilen -> Zeile] /\ MITTEILUNG_VERSUCHE_HOECHSTENS \in Nat
  BY Typ, ZahlenAssumption
<1>2. ASSUME NEW z \in Zeilen
      PROVE  LET n == [zeile[z] EXCEPT !.mitteilung = FALSE]
             IN  /\ n \in Zeile /\ n.da = zeile[z].da /\ n.slot = zeile[z].slot
                 /\ n.angefragt = zeile[z].angefragt
                 /\ n.erinnert = zeile[z].erinnert /\ n.grund = zeile[z].grund
                 /\ n.mitteilung = FALSE /\ n.versuche = zeile[z].versuche
  BY <1>1 DEF Zeile
<1>3. ASSUME NEW z \in Faellig
      PROVE  LET n == [zeile[z] EXCEPT !.versuche = @ + 1]
             IN  /\ n \in Zeile /\ n.da = zeile[z].da /\ n.slot = zeile[z].slot
                 /\ n.angefragt = zeile[z].angefragt
                 /\ n.erinnert = zeile[z].erinnert /\ n.grund = zeile[z].grund
                 /\ n.mitteilung = zeile[z].mitteilung /\ n.versuche > 0
  <2>1. z \in Zeilen /\ zeile[z].versuche \in 0..MITTEILUNG_VERSUCHE_HOECHSTENS
    BY <1>1, <1>3 DEF Faellig, Gehalten, Da, Zeile
  <2>2. ~ (zeile[z].versuche >= MITTEILUNG_VERSUCHE_HOECHSTENS)
    BY <1>3 DEF Faellig, Entfallen, Verbraucht, mitteilung_spent
  <2>3. zeile[z].versuche + 1 \in 0..MITTEILUNG_VERSUCHE_HOECHSTENS /\ zeile[z].versuche + 1 > 0
    BY <1>1, <2>1, <2>2
  <2> QED BY <1>1, <2>1, <2>3 DEF Zeile
<1>4. ASSUME NEW z \in Zeilen
      PROVE  \/ z \in Entfallen \cap anteil /\ Angesagt(anteil)[z] = [zeile[z] EXCEPT !.mitteilung = FALSE]
             \/ z \in Faellig \cap anteil /\ Angesagt(anteil)[z] = [zeile[z] EXCEPT !.versuche = @ + 1]
             \/ z \notin Faellig \cap anteil /\ Angesagt(anteil)[z] = zeile[z]
  <2>1. CASE z \in anteil \cap Entfallen
    BY <2>1 DEF Angesagt
  <2>2. CASE z \notin anteil \cap Entfallen /\ z \in anteil \cap Faellig
    BY <2>2 DEF Angesagt
  <2>3. CASE z \notin anteil \cap Entfallen /\ z \notin anteil \cap Faellig
    BY <2>3 DEF Angesagt
  <2> QED BY <2>1, <2>2, <2>3
<1>5. ASSUME NEW z \in Zeilen
      PROVE  LET n == Angesagt(anteil)[z] IN
              /\ n \in Zeile
              /\ n.da = zeile[z].da /\ n.slot = zeile[z].slot /\ n.angefragt = zeile[z].angefragt
              /\ n.erinnert = zeile[z].erinnert /\ n.grund = zeile[z].grund
              /\ n.mitteilung => zeile[z].mitteilung
              /\ n.mitteilung \/ ~zeile[z].mitteilung \/ z \in Entfallen \cap anteil
              /\ zeile[z].versuche > 0 => n.versuche > 0
              /\ z \in Faellig \cap anteil => n.versuche > 0
  <2>1. CASE z \in Entfallen \cap anteil /\ Angesagt(anteil)[z] = [zeile[z] EXCEPT !.mitteilung = FALSE]
    <3>1. z \notin Faellig
      BY <2>1 DEF Faellig
    <3> QED BY <1>2, <2>1, <3>1
  <2>2. CASE z \in Faellig \cap anteil /\ Angesagt(anteil)[z] = [zeile[z] EXCEPT !.versuche = @ + 1]
    BY <1>3, <2>2
  <2>3. CASE z \notin Faellig \cap anteil /\ Angesagt(anteil)[z] = zeile[z]
    BY <1>1, <2>3
  <2> QED BY <1>4, <2>1, <2>2, <2>3
<1>6. Angesagt(anteil) \in [Zeilen -> Zeile]
  BY <1>5 DEF Angesagt
<1> QED BY <1>5, <1>6

LEMMA AnsagenStimmt ==
  ASSUME IInv, NEW anteil \in SUBSET Gehalten, zeile' = Angesagt(anteil),
         entledigt' = entledigt \cup (Entfallen \cap anteil), vorrat' \in Vorrat,
         UNCHANGED <<heute, spiel, gesperrt, gebeten, gewarnt, erinnert, abgetan>>, pass' \in Pass
  PROVE  TypeOK' /\ ZeilenStimmen'
<1>1. zeile' \in [Zeilen -> Zeile] /\ entledigt' \subseteq Zeilen
  BY Typ, AngesagtStimmt DEF IInv, Entfallen, Gehalten, Da
<1>2. TypeOK'
  BY <1>1, Typ DEF IInv, TypeOK, Zeile, Pass, Vorrat
<1>3. ASSUME NEW z \in Zeilen
      PROVE  /\ zeile'[z].da = zeile[z].da /\ zeile'[z].slot = zeile[z].slot
             /\ zeile'[z].angefragt = zeile[z].angefragt /\ zeile'[z].erinnert = zeile[z].erinnert
             /\ zeile'[z].grund = zeile[z].grund
             /\ zeile'[z].mitteilung => zeile[z].mitteilung
             /\ zeile'[z].mitteilung \/ ~zeile[z].mitteilung \/ z \in entledigt'
             /\ zeile[z].versuche > 0 => zeile'[z].versuche > 0
  BY AngesagtStimmt DEF IInv
<1>4. ASSUME NEW z \in Zeilen, Geaendert(z)', ~zeile'[z].mitteilung
      PROVE  Gewarnt(z)' \/ Tag[zeile[z].slot] < heute
  <2>1. CASE z \in entledigt'
    BY <2>1 DEF Gewarnt
  <2>2. CASE ~zeile[z].mitteilung
    BY <1>3, <1>4, <2>2 DEF IInv, ZeilenStimmen, StempelHeisstGemailt, Gewarnt, Geaendert
  <2> QED BY <1>3, <1>4, <2>1, <2>2
<1>5. \A z \in Zeilen : HaeltHinweis(z)' => HaeltHinweis(z) /\ (Gezaehlt(z) => Gezaehlt(z)')
  BY <1>3 DEF HaeltHinweis, Gezaehlt
<1>6. ZeilenStimmen'
  BY <1>3, <1>4, <1>5, NurZeilen
<1> QED BY <1>2, <1>6

LEMMA tellStimmt == ASSUME IInv, tell PROVE IInv'
<1>1. PICK anteil \in SUBSET Gehalten : \E verloren \in SUBSET (Gehalten \ anteil) :
        /\ Umfang(anteil, Gehalten)
        /\ zeile' = Angesagt(anteil \cup verloren)
        /\ entledigt' = entledigt \cup (Entfallen \cap (anteil \cup verloren))
        /\ Setze([pass EXCEPT !.schritt = "fragt", !.hinweise = Faellig \cap anteil,
                              !.aufgegeben = Verbraucht \cap anteil,
                              !.angekuendigt = (Faellig \cup Verbraucht) \cap anteil])
  BY DEF tell
<1>2. PICK verloren \in SUBSET (Gehalten \ anteil) :
        /\ Umfang(anteil, Gehalten)
        /\ zeile' = Angesagt(anteil \cup verloren)
        /\ entledigt' = entledigt \cup (Entfallen \cap (anteil \cup verloren))
        /\ Setze([pass EXCEPT !.schritt = "fragt", !.hinweise = Faellig \cap anteil,
                              !.aufgegeben = Verbraucht \cap anteil,
                              !.angekuendigt = (Faellig \cup Verbraucht) \cap anteil])
  BY <1>1
<1> DEFINE genommen == anteil \cup verloren
           m == [pass EXCEPT !.schritt = "fragt", !.hinweise = Faellig \cap anteil,
                             !.aufgegeben = Verbraucht \cap anteil,
                             !.angekuendigt = (Faellig \cup Verbraucht) \cap anteil]
<1>3. /\ pass \in Pass /\ Leer(pass) /\ pass.ungewarnt \subseteq Postfaecher
      /\ Faellig \subseteq Zeilen /\ Verbraucht \subseteq Zeilen
  BY Typ DEF IInv, tell, PassStimmt, Schritte, Faellig, Verbraucht, Gehalten, Da, Pass
<1>4. /\ m \in Pass /\ m.schritt = "fragt" /\ m.hinweise = Faellig \cap anteil
      /\ m.aufgegeben = Verbraucht \cap anteil /\ m.angekuendigt = (Faellig \cup Verbraucht) \cap anteil
      /\ m.anfragen = {} /\ m.angefragt = {} /\ m.mitgeteilt = {} /\ m.erinnerungen = {}
  BY <1>3 DEF Pass, Leer
<1>5. vorrat' \in Vorrat
  BY <1>2, UmfangTyp DEF IInv
<1>6. /\ pass' = m /\ genommen \in SUBSET Gehalten /\ anteil \subseteq genommen
      /\ zeile' = Angesagt(genommen)
      /\ entledigt' = entledigt \cup (Entfallen \cap genommen)
      /\ UNCHANGED <<heute, spiel, gesperrt, gebeten, gewarnt, erinnert, abgetan>>
  BY <1>2 DEF tell, Setze, Liga, Post
<1> HIDE DEF m, genommen
<1>7. TypeOK' /\ ZeilenStimmen'
  BY <1>4, <1>5, <1>6, AnsagenStimmt
<1>8. ASSUME NEW z \in Zeilen
      PROVE  /\ zeile'[z].da = zeile[z].da /\ zeile'[z].slot = zeile[z].slot
             /\ zeile'[z].angefragt = zeile[z].angefragt /\ zeile'[z].grund = zeile[z].grund
             /\ zeile'[z].mitteilung => zeile[z].mitteilung
             /\ zeile'[z].mitteilung \/ ~zeile[z].mitteilung \/ z \in Entfallen \cap genommen
             /\ zeile[z].versuche > 0 => zeile'[z].versuche > 0
             /\ z \in Faellig \cap genommen => zeile'[z].versuche > 0
  BY <1>6, AngesagtStimmt DEF IInv
<1>9. ASSUME NEW z \in Zeilen, Geaendert(z)' PROVE HinweisUnterwegs(z)'
  <2>1. Geaendert(z) /\ zeile'[z].slot = zeile[z].slot
    BY <1>8, <1>9 DEF Geaendert
  <2>2. CASE ~zeile[z].mitteilung
    BY <1>6, <2>1, <2>2 DEF IInv, ZeilenStimmen, StempelHeisstGemailt, HinweisUnterwegs, Gewarnt
  <2>3. CASE z \in Entfallen \cap genommen
    BY <1>6, <2>3 DEF HinweisUnterwegs, Gewarnt
  <2>4. CASE zeile'[z].mitteilung /\ z \notin anteil
    BY <1>4, <1>6, <2>4 DEF HinweisUnterwegs
  <2>5. CASE zeile[z].mitteilung /\ z \in anteil
    <3>1. z \in Entfallen \/ z \in Verbraucht \/ z \in Faellig
      BY <2>1, <2>5 DEF Geaendert, Da, Gehalten, Faellig
    <3> QED BY <1>4, <1>6, <2>3, <2>5, <3>1 DEF HinweisUnterwegs
  <2> QED BY <1>8, <2>2, <2>3, <2>4, <2>5
<1>10. ASSUME NEW y \in pass'.angekuendigt, HaeltHinweis(y)' PROVE Gezaehlt(y)'
  <2>1. y \in Zeilen /\ y \in anteil /\ y \in Faellig \cup Verbraucht
    BY <1>3, <1>4, <1>6
  <2>2. CASE y \in Faellig
    BY <1>6, <1>8, <2>1, <2>2 DEF Gezaehlt
  <2>3. CASE y \in Verbraucht
    <3>1. zeile[y] \in Zeile /\ zeile[y].grund = "ansetzung_geaendert" /\ heute \in Nat
      BY <1>8, <1>10, <2>1, Typ DEF IInv, HaeltHinweis
    <3>2. zeile[y].versuche >= MITTEILUNG_VERSUCHE_HOECHSTENS \/ ~_notice_to_come(y, "ansetzung_geaendert")
      BY <2>3, <3>1 DEF Verbraucht, mitteilung_spent
    <3>3. zeile[y].versuche > 0 \/ Tag[zeile[y].slot] < heute
      <4>1. Tag[zeile[y].slot] \in Nat /\ zeile[y].versuche \in Nat
        BY <3>1, SlotAssumption, ZahlenAssumption DEF Zeile
      <4> QED BY <3>1, <3>2, <4>1, ZahlenAssumption DEF _notice_to_come
    <3> QED BY <1>6, <1>8, <2>1, <3>3 DEF Gezaehlt
  <2> QED BY <2>1, <2>2, <2>3
<1>11. PassStimmt'
  BY <1>4, <1>6, <1>9, <1>10 DEF PassStimmt, Schritte, AnfragenStimmen, HinweiseStimmen, ErinnerungenStimmen
<1> QED BY <1>7, <1>11 DEF IInv

\* What minting does: it fills a row not inserted yet, about the slot the fixture has, and
\* only where no row is open, and none holds that slot; a row it mints more links keeps the
\* rest of itself. No notice about another slot is held then, but of this pass's answer.
LEMMA GefragtStimmt ==
  ASSUME TypeOK
  PROVE  /\ Gefragt \in [Zeilen -> Zeile] /\ Eingefuegt \subseteq Zeilen /\ Nachgefragt \subseteq Zeilen
         /\ \A z \in Zeilen \ Eingefuegt :
              LET n == Gefragt[z] IN
              /\ n.da = zeile[z].da /\ n.slot = zeile[z].slot /\ n.angefragt = zeile[z].angefragt
              /\ n.erinnert = zeile[z].erinnert /\ n.grund = zeile[z].grund
              /\ n.mitteilung = zeile[z].mitteilung /\ n.versuche = zeile[z].versuche
         /\ \A z \in Eingefuegt :
              LET n == Gefragt[z] IN
              /\ ~zeile[z].da /\ n.da /\ n.slot = spiel.slot /\ n.grund = "offen" /\ n.angefragt = 0
              /\ Eingefuegt = {z}
              /\ \A y \in Da : /\ ~Offen(y) /\ (zeile[y].slot = spiel.slot => ~build_holding_filter(y))
                               /\ HaeltHinweis(y) /\ zeile[y].slot # spiel.slot => y \in pass.angekuendigt
         /\ \A z \in Nachgefragt : Offen(z)
<1>1. /\ zeile \in [Zeilen -> Zeile] /\ spiel.slot \in Slots /\ heute \in 1..TAGE /\ TAGE \in Nat
      /\ FRIST_TAGE \in Nat /\ Tag[spiel.slot] \in 1..TAGE
      /\ MITTEILUNG_VERSUCHE_HOECHSTENS \in Nat
  BY Typ, ZahlenAssumption, SlotAssumption
<1>2. frist_of \in 1..TAGE
  BY <1>1 DEF frist_of
<1> DEFINE neu == [da |-> TRUE, slot |-> spiel.slot, frist |-> frist_of, links |-> Postfaecher \ gesperrt,
                   angefragt |-> 0, erinnert |-> {},
                   antwort |-> "keine", grund |-> "offen", mitteilung |-> FALSE, versuche |-> 0]
           mehr(z) == [zeile[z] EXCEPT !.links = @ \cup (Postfaecher \ gesperrt)]
<1>3. /\ neu \in Zeile /\ neu.da /\ neu.slot = spiel.slot /\ neu.grund = "offen" /\ neu.angefragt = 0
  BY <1>1, <1>2 DEF Zeile, Gruende
<1>4. ASSUME NEW z \in Zeilen
      PROVE  LET n == mehr(z) IN
             /\ n \in Zeile
             /\ n.da = zeile[z].da /\ n.slot = zeile[z].slot /\ n.angefragt = zeile[z].angefragt
             /\ n.erinnert = zeile[z].erinnert /\ n.grund = zeile[z].grund
             /\ n.mitteilung = zeile[z].mitteilung /\ n.versuche = zeile[z].versuche
  BY <1>1 DEF Zeile
<1>5. Gefragt = [z \in Zeilen |-> IF z \in Eingefuegt THEN neu
                                  ELSE IF z \in Nachgefragt THEN mehr(z) ELSE zeile[z]]
  BY DEF Gefragt
<1> HIDE DEF neu, mehr
<1>6. Gefragt \in [Zeilen -> Zeile]
  BY <1>1, <1>3, <1>4, <1>5
<1>7. Eingefuegt # {} => ~waiting /\ Bestehend = {} /\ Naechste \in Zeilen \ Da /\ Eingefuegt = {Naechste}
  BY NaechsteStimmt DEF Eingefuegt
<1>8. ASSUME ~waiting, Bestehend = {}, NEW y \in Da
      PROVE  /\ ~Offen(y) /\ (zeile[y].slot = spiel.slot => ~build_holding_filter(y))
             /\ HaeltHinweis(y) /\ zeile[y].slot # spiel.slot => y \in pass.angekuendigt
  <2>1. zeile[y].slot = spiel.slot => ~build_holding_filter(y)
    BY <1>8 DEF Bestehend
  <2>2. zeile[y].slot # spiel.slot => ~Offen(y) /\ (HaeltHinweis(y) => y \in pass.angekuendigt)
    BY <1>8 DEF waiting, HaeltHinweis
  <2> QED BY <2>1, <2>2 DEF build_holding_filter
<1>9. Eingefuegt \subseteq Zeilen /\ \A z \in Eingefuegt : ~zeile[z].da /\ Eingefuegt = {z}
  BY <1>7 DEF Da
<1>10. ASSUME NEW z \in Eingefuegt
       PROVE  \A y \in Da : /\ ~Offen(y) /\ (zeile[y].slot = spiel.slot => ~build_holding_filter(y))
                            /\ HaeltHinweis(y) /\ zeile[y].slot # spiel.slot => y \in pass.angekuendigt
  BY <1>7, <1>8, <1>10
<1>11. Nachgefragt \subseteq Zeilen /\ \A z \in Nachgefragt : Offen(z)
  BY DEF Nachgefragt, Bestehend, Da, build_answerable_filter
<1>12. \A z \in Zeilen \ Eingefuegt :
         LET n == Gefragt[z] IN
         /\ n.da = zeile[z].da /\ n.slot = zeile[z].slot /\ n.angefragt = zeile[z].angefragt
         /\ n.erinnert = zeile[z].erinnert /\ n.grund = zeile[z].grund
         /\ n.mitteilung = zeile[z].mitteilung /\ n.versuche = zeile[z].versuche
  BY <1>4, <1>5
<1>13. \A z \in Eingefuegt : Gefragt[z] = neu
  BY <1>5, <1>9
<1> QED BY <1>3, <1>6, <1>9, <1>10, <1>11, <1>12, <1>13

\* Minting, or its commit lost, or the step failing: what the rows say is kept.
LEMMA FragenZeilen ==
  ASSUME IInv, pass.schritt = "fragt", zeile' \in {zeile, Gefragt}, vorrat' \in Vorrat, pass' \in Pass,
         UNCHANGED <<heute, spiel, gesperrt, gebeten, gewarnt, erinnert, abgetan, entledigt>>
  PROVE  /\ TypeOK' /\ ZeilenStimmen'
         /\ \A z \in Zeilen : /\ zeile[z].da => zeile'[z].da /\ zeile'[z].grund = zeile[z].grund
                                                /\ zeile'[z].erinnert = zeile[z].erinnert
                                                /\ zeile'[z].angefragt = zeile[z].angefragt
                              /\ Gewarnt(z)' <=> Gewarnt(z)
                              /\ Geaendert(z)' => /\ Geaendert(z) /\ zeile'[z].slot = zeile[z].slot
                                                  /\ zeile'[z].mitteilung = zeile[z].mitteilung
<1> DEFINE neu == IF zeile' = zeile THEN {} ELSE Eingefuegt
<1>1. /\ zeile \in [Zeilen -> Zeile] /\ zeile' \in [Zeilen -> Zeile] /\ erinnert \in [Zeilen -> 0..2]
      /\ pass \in Pass
  BY Typ, GefragtStimmt DEF IInv
<1>2. TypeOK'
  BY <1>1, Typ DEF IInv, TypeOK, Zeile, Pass, Vorrat
<1>3. /\ neu \subseteq Zeilen
      /\ \A z \in Zeilen \ neu :
           LET n == zeile'[z] IN
           /\ n.da = zeile[z].da /\ n.slot = zeile[z].slot /\ n.angefragt = zeile[z].angefragt
           /\ n.erinnert = zeile[z].erinnert /\ n.grund = zeile[z].grund
           /\ n.mitteilung = zeile[z].mitteilung /\ n.versuche = zeile[z].versuche
      /\ \A z \in neu :
           /\ ~zeile[z].da /\ zeile'[z].da /\ zeile'[z].slot = spiel.slot /\ zeile'[z].grund = "offen"
           /\ zeile'[z].angefragt = 0 /\ neu = {z}
           /\ \A y \in Da : /\ ~Offen(y) /\ (zeile[y].slot = spiel.slot => ~build_holding_filter(y))
                            /\ HaeltHinweis(y) /\ zeile[y].slot # spiel.slot => y \in pass.angekuendigt
  <2>1. CASE zeile' = zeile
    BY <2>1
  <2>2. CASE zeile' # zeile
    BY <2>2, GefragtStimmt DEF IInv
  <2> QED BY <2>1, <2>2
<1> HIDE DEF neu
<1>4. \A z \in Zeilen : (Gewarnt(z)' <=> Gewarnt(z)) /\ (Gebeten(z)' <=> Gebeten(z))
  BY DEF Gewarnt, Gebeten
<1>5. \A z \in Zeilen : Geaendert(z)' => z \notin neu /\ Geaendert(z)
  BY <1>3 DEF Geaendert
<1>6. StempelHeisstGemailt'
  <2>1. \A z \in Zeilen : zeile'[z].angefragt # 0 => Gebeten(z)'
    BY <1>3, <1>4 DEF IInv, ZeilenStimmen, StempelHeisstGemailt
  <2>2. \A z \in Zeilen : Geaendert(z)' /\ ~zeile'[z].mitteilung => Gewarnt(z)' \/ Tag[zeile'[z].slot] < heute
    BY <1>3, <1>4, <1>5 DEF IInv, ZeilenStimmen, StempelHeisstGemailt
  <2> QED BY <2>1, <2>2 DEF StempelHeisstGemailt
<1>7. EineFrageJeAnsetzung'
  <2>1. ASSUME NEW y \in Da', NEW z \in Da', zeile'[y].grund \in {"offen", "verworfen"},
               zeile'[z].grund \in {"offen", "verworfen"}, zeile'[y].slot = zeile'[z].slot
        PROVE  y = z
    <3>1. y \in Zeilen /\ z \in Zeilen
      BY DEF Da
    <3>2. CASE y \notin neu /\ z \notin neu
      BY <1>3, <2>1, <3>1, <3>2 DEF IInv, ZeilenStimmen, EineFrageJeAnsetzung, Da
    <3>3. CASE y \in neu /\ z \notin neu
      BY <1>3, <2>1, <3>1, <3>3 DEF Da, build_holding_filter, Offen
    <3>4. CASE y \notin neu /\ z \in neu
      BY <1>3, <2>1, <3>1, <3>4 DEF Da, build_holding_filter, Offen
    <3>5. CASE y \in neu /\ z \in neu
      BY <1>3, <3>5
    <3> QED BY <3>2, <3>3, <3>4, <3>5
  <2> QED BY <2>1 DEF EineFrageJeAnsetzung
<1>8. EinOffener'
  <2>1. ASSUME NEW y \in Zeilen, NEW z \in Zeilen, Offen(y)', Offen(z)' PROVE y = z
    <3>1. \A x \in Zeilen \ neu : Offen(x)' => Offen(x) /\ x \in Da
      BY <1>3 DEF Offen, Da
    <3>2. CASE y \notin neu /\ z \notin neu
      BY <2>1, <3>1, <3>2 DEF IInv, ZeilenStimmen, EinOffener
    <3>3. CASE y \in neu \/ z \in neu
      BY <1>3, <2>1, <3>1, <3>3
    <3> QED BY <3>2, <3>3
  <2> QED BY <2>1 DEF EinOffener
<1>9. ErinnertStimmt'
  BY <1>1, <1>3 DEF IInv, ZeilenStimmen, ErinnertStimmt
<1>10. OffeneGezaehlt'
  <2>1. ASSUME NEW z \in Zeilen, Offen(z)', NEW y \in Zeilen, HaeltHinweis(y)', zeile'[y].slot # zeile'[z].slot
        PROVE  Gezaehlt(y)'
    <3>1. /\ y \notin neu /\ y \in Da /\ HaeltHinweis(y) /\ zeile'[y].slot = zeile[y].slot
          /\ zeile'[y].versuche = zeile[y].versuche
      BY <1>3, <2>1 DEF HaeltHinweis, Da
    <3>2. CASE z \notin neu
      <4>1. Offen(z) /\ zeile[y].slot # zeile[z].slot
        BY <1>3, <2>1, <3>1, <3>2 DEF Offen
      <4>2. Gezaehlt(y)
        BY <3>1, <4>1 DEF IInv, ZeilenStimmen, OffeneGezaehlt, AlleGezaehlt
      <4> QED BY <3>1, <4>2 DEF Gezaehlt
    <3>3. CASE z \in neu
      <4>1. y \in pass.angekuendigt
        BY <1>3, <2>1, <3>1, <3>3
      <4>2. Gezaehlt(y)
        BY <3>1, <4>1 DEF IInv, PassStimmt, HinweiseStimmen
      <4> QED BY <3>1, <4>2 DEF Gezaehlt
    <3> QED BY <3>2, <3>3
  <2> QED BY <2>1 DEF OffeneGezaehlt, AlleGezaehlt
<1>11. \A z \in Zeilen : zeile[z].da => z \notin neu
  BY <1>3
<1>12. ZeilenStimmen'
  BY <1>6, <1>7, <1>8, <1>9, <1>10 DEF ZeilenStimmen
<1> QED BY <1>2, <1>3, <1>4, <1>5, <1>11, <1>12

\* An open row may be asked about: the rows see to it.
LEMMA OffenFragbar == ASSUME ZeilenStimmen, NEW z \in Zeilen, Offen(z) PROVE Fragbar(z)
BY DEF ZeilenStimmen, EinOffener, OffeneGezaehlt, Fragbar, Offen

\* The rows in hand stay those of the pass.
LEMMA FragenStimmt ==
  ASSUME IInv, pass.schritt = "fragt", zeile' \in {zeile, Gefragt}, vorrat' \in Vorrat, pass' \in Pass,
         UNCHANGED <<heute, spiel, gesperrt, gebeten, gewarnt, erinnert, abgetan, entledigt>>,
         pass'.schritt \in {"erinnert", "hinweise"},
         pass'.hinweise = pass.hinweise, pass'.aufgegeben = pass.aufgegeben,
         pass'.angekuendigt = pass.angekuendigt,
         pass'.mitgeteilt = pass.mitgeteilt, pass'.ungewarnt = pass.ungewarnt,
         pass'.erinnerungen = pass.erinnerungen, pass'.angefragt = pass.angefragt,
         pass'.anfragen = {} \/ (zeile' = Gefragt /\ pass'.anfragen = Links)
  PROVE  IInv'
<1>1. pass \in Pass /\ pass.angefragt \subseteq Zeilen /\ pass.mitgeteilt \subseteq Zeilen
      /\ pass.erinnerungen \subseteq Zeilen
  BY Typ DEF IInv, Pass
<1>2. /\ TypeOK' /\ ZeilenStimmen'
      /\ \A z \in Zeilen : /\ zeile[z].da => zeile'[z].da /\ zeile'[z].grund = zeile[z].grund
                                             /\ zeile'[z].erinnert = zeile[z].erinnert
                                             /\ zeile'[z].angefragt = zeile[z].angefragt
                           /\ Gewarnt(z)' <=> Gewarnt(z)
                           /\ Geaendert(z)' => /\ Geaendert(z) /\ zeile'[z].slot = zeile[z].slot
                                               /\ zeile'[z].mitteilung = zeile[z].mitteilung
  BY FragenZeilen
<1>3. Schritte'
  BY DEF Schritte
<1>4. AnfragenStimmen'
  <2>1. ASSUME NEW l \in pass'.anfragen PROVE Fragbar(l[1])'
    <3>1. zeile' = Gefragt /\ l[1] \in Eingefuegt \cup Nachgefragt
      BY <2>1 DEF Links
    <3>2. l[1] \in Zeilen /\ Offen(l[1])'
      BY <3>1, GefragtStimmt DEF IInv, Offen
    <3> QED BY <1>2, <3>2 DEF ZeilenStimmen, EinOffener, OffeneGezaehlt, Fragbar, Offen
  <2>2. ASSUME NEW z \in pass'.angefragt
        PROVE  zeile'[z].da /\ zeile'[z].grund \in {"offen", "verworfen"} /\ Gebeten(z)'
    <3>1. z \in Zeilen /\ zeile[z].da /\ zeile[z].grund \in {"offen", "verworfen"} /\ Gebeten(z)
      BY <1>1 DEF IInv, PassStimmt, AnfragenStimmen
    <3> QED BY <1>2, <3>1 DEF Gebeten
  <2> QED BY <2>1, <2>2 DEF AnfragenStimmen
<1>5. HinweiseStimmen'
  <2>1. \A z \in pass'.mitgeteilt : Gewarnt(z)'
    BY <1>1, <1>2 DEF IInv, PassStimmt, HinweiseStimmen
  <2>2. ASSUME NEW z \in Zeilen, Geaendert(z)' PROVE HinweisUnterwegs(z)'
    <3>1. HinweisUnterwegs(z)
      BY <1>2, <2>2 DEF IInv, PassStimmt, HinweiseStimmen
    <3> QED BY <1>2, <2>2, <3>1 DEF HinweisUnterwegs
  <2> QED BY <2>1, <2>2 DEF HinweiseStimmen
<1>6. ErinnerungenStimmen'
  BY <1>1, <1>2 DEF IInv, PassStimmt, ErinnerungenStimmen
<1> QED BY <1>2, <1>3, <1>4, <1>5, <1>6 DEF IInv, PassStimmt

LEMMA mintStimmt == ASSUME IInv, mint PROVE IInv'
<1> DEFINE m == [pass EXCEPT !.schritt = "erinnert", !.anfragen = Links, !.eingefuegt = Eingefuegt]
           k == [pass EXCEPT !.schritt = "erinnert"]
<1>1. pass \in Pass /\ Eingefuegt \subseteq Zeilen /\ Links \subseteq Zeilen \X Postfaecher
  <2>1. Eingefuegt \subseteq Zeilen /\ Nachgefragt \subseteq Zeilen
    BY GefragtStimmt DEF IInv
  <2> QED BY <2>1, Typ DEF IInv, Links
<1>2. /\ m \in Pass /\ m.schritt = "erinnert" /\ m.hinweise = pass.hinweise /\ m.aufgegeben = pass.aufgegeben
      /\ m.angekuendigt = pass.angekuendigt
      /\ m.mitgeteilt = pass.mitgeteilt /\ m.ungewarnt = pass.ungewarnt
      /\ m.erinnerungen = pass.erinnerungen /\ m.angefragt = pass.angefragt /\ m.anfragen = Links
  BY <1>1 DEF Pass
<1>3. /\ k \in Pass /\ k.schritt = "erinnert" /\ k.hinweise = pass.hinweise /\ k.aufgegeben = pass.aufgegeben
      /\ k.angekuendigt = pass.angekuendigt
      /\ k.mitgeteilt = pass.mitgeteilt /\ k.ungewarnt = pass.ungewarnt
      /\ k.erinnerungen = pass.erinnerungen /\ k.angefragt = pass.angefragt /\ k.anfragen = pass.anfragen
  BY <1>1 DEF Pass
<1>4. vorrat' \in Vorrat
  BY VorratBleibt DEF IInv, mint
<1>5. /\ pass.schritt = "fragt" /\ pass.anfragen = {} /\ zeile' \in {zeile, Gefragt}
      /\ (pass' = m /\ zeile' = Gefragt) \/ pass' = k
      /\ UNCHANGED <<heute, spiel, gesperrt, gebeten, gewarnt, erinnert, abgetan, entledigt>>
  BY DEF mint, Setze, Liga, Post, IInv, PassStimmt, Schritte
<1> HIDE DEF m, k
<1>6. CASE pass' = m /\ zeile' = Gefragt
  BY <1>2, <1>4, <1>5, <1>6, FragenStimmt
<1>7. CASE pass' = k
  BY <1>3, <1>4, <1>5, <1>7, FragenStimmt
<1> QED BY <1>5, <1>6, <1>7

\* What reminding does to a row: today's day, where no reminder of it went yet.
LEMMA ErinnertZeilen ==
  ASSUME TypeOK, NEW anteil \in SUBSET build_erinnerung_filter
  PROVE  /\ Erinnert(anteil) \in [Zeilen -> Zeile]
         /\ build_erinnerung_filter \subseteq Zeilen /\ Erinnerungen \subseteq build_erinnerung_filter
         /\ Nochmal \subseteq Zeilen \X Postfaecher
         /\ \A l \in Nochmal : Offen(l[1])
         /\ \A z \in Zeilen :
              LET n == Erinnert(anteil)[z] IN
              /\ n.da = zeile[z].da /\ n.slot = zeile[z].slot /\ n.angefragt = zeile[z].angefragt
              /\ zeile[z].erinnert \subseteq n.erinnert
              /\ n.grund = zeile[z].grund /\ n.mitteilung = zeile[z].mitteilung
              /\ n.versuche = zeile[z].versuche
         /\ \A z \in build_erinnerung_filter : Offen(z)
         /\ \A z \in Erinnerungen \cap anteil :
              /\ heute \in Erinnert(anteil)[z].erinnert /\ heute \notin zeile[z].erinnert
              /\ zeile[z].angefragt \notin {0, heute}
<1>1. zeile \in [Zeilen -> Zeile] /\ heute \in 1..TAGE
  BY Typ
<1>2. ASSUME NEW z \in Zeilen
      PROVE  LET n == [zeile[z] EXCEPT !.erinnert = @ \cup {heute}]
             IN  /\ n \in Zeile /\ n.da = zeile[z].da /\ n.slot = zeile[z].slot
                 /\ n.angefragt = zeile[z].angefragt /\ n.erinnert = zeile[z].erinnert \cup {heute}
                 /\ n.grund = zeile[z].grund /\ n.mitteilung = zeile[z].mitteilung
                 /\ n.versuche = zeile[z].versuche
  BY <1>1 DEF Zeile
<1>3. build_erinnerung_filter \subseteq Zeilen /\ Erinnerungen \subseteq build_erinnerung_filter
      /\ Erinnerungen \subseteq Vermerkt /\ Vermerkt \subseteq build_erinnerung_filter
  BY DEF build_erinnerung_filter, Erinnerungen, Vermerkt
<1>4. ASSUME NEW z \in Zeilen
      PROVE  IF z \in anteil \cap Vermerkt
             THEN Erinnert(anteil)[z] = [zeile[z] EXCEPT !.erinnert = @ \cup {heute}]
             ELSE Erinnert(anteil)[z] = zeile[z]
  BY DEF Erinnert
<1>5. ASSUME NEW z \in Zeilen
      PROVE  LET n == Erinnert(anteil)[z] IN
              /\ n \in Zeile /\ n.da = zeile[z].da /\ n.slot = zeile[z].slot
              /\ n.angefragt = zeile[z].angefragt /\ zeile[z].erinnert \subseteq n.erinnert
              /\ n.grund = zeile[z].grund /\ n.mitteilung = zeile[z].mitteilung
              /\ n.versuche = zeile[z].versuche
              /\ z \in anteil \cap Vermerkt => heute \in n.erinnert
  <2>1. CASE z \in anteil \cap Vermerkt
    BY <1>2, <1>4, <2>1
  <2>2. CASE z \notin anteil \cap Vermerkt
    BY <1>1, <1>4, <2>2
  <2> QED BY <2>1, <2>2
<1>6. Erinnert(anteil) \in [Zeilen -> Zeile]
  BY <1>5 DEF Erinnert
<1>7. \A z \in build_erinnerung_filter : Offen(z)
  BY DEF build_erinnerung_filter, build_answerable_filter
<1>8. \A z \in Erinnerungen : heute \notin zeile[z].erinnert /\ zeile[z].angefragt \notin {0, heute}
  BY DEF build_erinnerung_filter, Erinnerungen, NochmalFaellig, ErinnerungFaellig
<1>9. Nochmal \subseteq Zeilen \X Postfaecher /\ \A l \in Nochmal : Offen(l[1])
  BY <1>7 DEF Nochmal
<1> QED BY <1>3, <1>5, <1>6, <1>7, <1>8, <1>9

\* Reminding, whichever rows it takes: what the rows say is kept.
LEMMA ErinnernZeilen ==
  ASSUME IInv, NEW anteil \in SUBSET build_erinnerung_filter, zeile' = Erinnert(anteil), vorrat' \in Vorrat,
         pass' \in Pass, UNCHANGED <<heute, spiel, gesperrt, gebeten, gewarnt, erinnert, abgetan, entledigt>>
  PROVE  /\ TypeOK' /\ ZeilenStimmen'
         /\ \A z \in Zeilen :
              /\ zeile'[z].da = zeile[z].da /\ zeile'[z].slot = zeile[z].slot
              /\ zeile'[z].angefragt = zeile[z].angefragt /\ zeile[z].erinnert \subseteq zeile'[z].erinnert
              /\ zeile'[z].grund = zeile[z].grund /\ zeile'[z].mitteilung = zeile[z].mitteilung
              /\ zeile'[z].versuche = zeile[z].versuche
              /\ Gewarnt(z)' <=> Gewarnt(z)
              /\ Geaendert(z)' <=> Geaendert(z)
<1>1. zeile' \in [Zeilen -> Zeile]
  BY ErinnertZeilen DEF IInv
<1>2. TypeOK'
  BY <1>1, Typ DEF IInv, TypeOK, Zeile, Pass, Vorrat
<1>3. ASSUME NEW z \in Zeilen
      PROVE  /\ zeile'[z].da = zeile[z].da /\ zeile'[z].slot = zeile[z].slot
             /\ zeile'[z].angefragt = zeile[z].angefragt /\ zeile[z].erinnert \subseteq zeile'[z].erinnert
             /\ zeile'[z].grund = zeile[z].grund /\ zeile'[z].mitteilung = zeile[z].mitteilung
             /\ zeile'[z].versuche = zeile[z].versuche
  BY ErinnertZeilen DEF IInv
<1>4. \A z \in Zeilen : Gewarnt(z)' <=> Gewarnt(z)
  BY DEF Gewarnt
<1>5. \A z \in Zeilen : Geaendert(z)' <=> Geaendert(z)
  BY <1>3 DEF Geaendert
<1>6. \A z \in Zeilen : Geaendert(z)' /\ ~zeile'[z].mitteilung => Gewarnt(z)' \/ Tag[zeile[z].slot] < heute
  BY <1>3, <1>4, <1>5 DEF IInv, ZeilenStimmen, StempelHeisstGemailt
<1>7. \A z \in Zeilen : HaeltHinweis(z)' => HaeltHinweis(z) /\ (Gezaehlt(z) => Gezaehlt(z)')
  BY <1>3 DEF HaeltHinweis, Gezaehlt
<1>8. ZeilenStimmen'
  BY <1>3, <1>6, <1>7, NurZeilen
<1> QED BY <1>2, <1>3, <1>4, <1>5, <1>8

\* What the pass holds then is open, alone, and of an earlier day's request.
LEMMA ErinnernStimmt ==
  ASSUME IInv, pass.schritt = "erinnert", NEW anteil \in SUBSET build_erinnerung_filter,
         zeile' = Erinnert(anteil), vorrat' \in Vorrat, pass' \in Pass,
         UNCHANGED <<heute, spiel, gesperrt, gebeten, gewarnt, erinnert, abgetan, entledigt>>,
         pass'.schritt = "hinweise",
         pass'.hinweise = pass.hinweise, pass'.aufgegeben = pass.aufgegeben,
         pass'.angekuendigt = pass.angekuendigt,
         pass'.mitgeteilt = pass.mitgeteilt, pass'.ungewarnt = pass.ungewarnt,
         pass'.angefragt = pass.angefragt,
         pass'.anfragen \subseteq pass.anfragen \cup Nochmal,
         pass'.erinnerungen = pass.erinnerungen \/ pass'.erinnerungen \subseteq Erinnerungen \cap anteil
  PROVE  IInv'
<1>1. /\ erinnert \in [Zeilen -> 0..2] /\ pass \in Pass /\ pass.anfragen \subseteq Zeilen \X Postfaecher
      /\ pass.angefragt \subseteq Zeilen /\ pass.mitgeteilt \subseteq Zeilen /\ pass.erinnerungen \subseteq Zeilen
  BY Typ DEF IInv, Pass
<1>2. /\ TypeOK' /\ ZeilenStimmen'
      /\ \A z \in Zeilen :
           /\ zeile'[z].da = zeile[z].da /\ zeile'[z].slot = zeile[z].slot
           /\ zeile'[z].angefragt = zeile[z].angefragt /\ zeile[z].erinnert \subseteq zeile'[z].erinnert
           /\ zeile'[z].grund = zeile[z].grund /\ zeile'[z].mitteilung = zeile[z].mitteilung
           /\ zeile'[z].versuche = zeile[z].versuche
           /\ Gewarnt(z)' <=> Gewarnt(z)
           /\ Geaendert(z)' <=> Geaendert(z)
  BY ErinnernZeilen
<1>3. Schritte'
  BY DEF Schritte
<1>4. AnfragenStimmen'
  <2>1. ASSUME NEW z \in Zeilen, Fragbar(z) PROVE Fragbar(z)'
    <3>1. AlleGezaehlt(z)'
      BY <1>2, <2>1 DEF Fragbar, AlleGezaehlt, HaeltHinweis, Gezaehlt
    <3>2. \A y \in Zeilen : Offen(y)' => y = z
      BY <1>2, <2>1 DEF Fragbar, Offen
    <3> QED BY <1>2, <2>1, <3>1, <3>2 DEF Fragbar
  <2>2. ASSUME NEW l \in pass'.anfragen PROVE Fragbar(l[1])'
    <3>1. CASE l \in pass.anfragen
      <4>1. l[1] \in Zeilen /\ Fragbar(l[1])
        BY <1>1, <3>1 DEF IInv, PassStimmt, AnfragenStimmen
      <4> QED BY <2>1, <4>1
    <3>2. CASE l \in Nochmal
      <4>1. l[1] \in Zeilen /\ Offen(l[1])
        BY <3>2, ErinnertZeilen DEF IInv
      <4>2. Fragbar(l[1])
        BY <4>1, OffenFragbar DEF IInv
      <4> QED BY <2>1, <4>1, <4>2
    <3> QED BY <3>1, <3>2
  <2>3. \A z \in pass'.angefragt : zeile'[z].da /\ zeile'[z].grund \in {"offen", "verworfen"} /\ Gebeten(z)'
    BY <1>1, <1>2 DEF IInv, PassStimmt, AnfragenStimmen, Gebeten
  <2> QED BY <2>2, <2>3 DEF AnfragenStimmen
<1>5. HinweiseStimmen'
  <2>1. \A z \in pass'.mitgeteilt : Gewarnt(z)'
    BY <1>1, <1>2 DEF IInv, PassStimmt, HinweiseStimmen
  <2>2. ASSUME NEW z \in Zeilen, Geaendert(z)' PROVE HinweisUnterwegs(z)'
    <3>1. HinweisUnterwegs(z)
      BY <1>2, <2>2 DEF IInv, PassStimmt, HinweiseStimmen
    <3> QED BY <1>2, <3>1 DEF HinweisUnterwegs
  <2> QED BY <2>1, <2>2 DEF HinweiseStimmen
<1>6. ErinnerungenStimmen'
  <2>1. CASE pass'.erinnerungen = pass.erinnerungen
    BY <1>1, <1>2, <2>1 DEF IInv, PassStimmt, ErinnerungenStimmen
  <2>2. CASE pass'.erinnerungen \subseteq Erinnerungen \cap anteil
    <3>1. ASSUME NEW z \in Erinnerungen \cap anteil
          PROVE  /\ z \in Zeilen /\ zeile'[z].da /\ heute' \in zeile'[z].erinnert
                 /\ zeile'[z].angefragt \notin {0, heute'} /\ heute \notin zeile[z].erinnert
      BY <1>2, <3>1, ErinnertZeilen DEF IInv, Offen
    <3>2. \A z \in Erinnerungen \cap anteil : erinnert'[z] = 0
      BY <1>1, <3>1 DEF IInv, ZeilenStimmen, ErinnertStimmt
    <3> QED BY <2>2, <3>1, <3>2 DEF ErinnerungenStimmen
  <2> QED BY <2>1, <2>2
<1> QED BY <1>2, <1>3, <1>4, <1>5, <1>6 DEF IInv, PassStimmt

LEMMA remindStimmt == ASSUME IInv, remind PROVE IInv'
<1>1. PICK anteil \in SUBSET build_erinnerung_filter :
        \E verloren \in SUBSET (build_erinnerung_filter \ anteil) :
          /\ Umfang(anteil, build_erinnerung_filter)
          /\ zeile' = Erinnert(anteil \cup verloren)
          /\ Setze([pass EXCEPT !.schritt = "hinweise", !.eingefuegt = {},
                                !.anfragen = @ \cup {l \in Nochmal : l[1] \in anteil},
                                !.erinnerungen = Erinnerungen \cap anteil])
  BY DEF remind
<1>2. PICK verloren \in SUBSET (build_erinnerung_filter \ anteil) :
          /\ Umfang(anteil, build_erinnerung_filter)
          /\ zeile' = Erinnert(anteil \cup verloren)
          /\ Setze([pass EXCEPT !.schritt = "hinweise", !.eingefuegt = {},
                                !.anfragen = @ \cup {l \in Nochmal : l[1] \in anteil},
                                !.erinnerungen = Erinnerungen \cap anteil])
  BY <1>1
<1> DEFINE genommen == anteil \cup verloren
           fragen == {l \in Nochmal : l[1] \in anteil}
           m == [pass EXCEPT !.schritt = "hinweise", !.eingefuegt = {}, !.anfragen = @ \cup fragen,
                             !.erinnerungen = Erinnerungen \cap anteil]
<1>3. /\ genommen \in SUBSET build_erinnerung_filter /\ zeile' = Erinnert(genommen) /\ pass' = m
      /\ pass.schritt = "erinnert"
      /\ UNCHANGED <<heute, spiel, gesperrt, gebeten, gewarnt, erinnert, abgetan, entledigt>>
  BY <1>2 DEF remind, Setze, Liga, Post
<1>4. pass \in Pass /\ Nochmal \subseteq Zeilen \X Postfaecher /\ Erinnerungen \subseteq Zeilen
  BY Typ, <1>3, ErinnertZeilen DEF IInv
<1>5. fragen \subseteq Nochmal /\ Erinnerungen \cap anteil \subseteq Erinnerungen \cap genommen
  OBVIOUS
<1> HIDE DEF genommen, fragen
<1>6. /\ m \in Pass /\ m.schritt = "hinweise" /\ m.hinweise = pass.hinweise /\ m.aufgegeben = pass.aufgegeben
      /\ m.angekuendigt = pass.angekuendigt
      /\ m.mitgeteilt = pass.mitgeteilt /\ m.ungewarnt = pass.ungewarnt /\ m.angefragt = pass.angefragt
      /\ m.erinnerungen = Erinnerungen \cap anteil /\ m.anfragen = pass.anfragen \cup fragen
  BY <1>4, <1>5 DEF Pass
<1>7. vorrat' \in Vorrat
  BY <1>2, UmfangTyp DEF IInv
<1> HIDE DEF m
<1> QED BY <1>3, <1>5, <1>6, <1>7, ErinnernStimmt

\* A step of the call that fails, before or behind its commit, answers what is owed, or
\* nothing at all.
LEMMA after_what_is_owedStimmt == ASSUME IInv, after_what_is_owed PROVE IInv'
<1> DEFINE m == [pass EXCEPT !.schritt = "hinweise", !.eingefuegt = {}]
<1>1. pass \in Pass
  BY Typ DEF IInv
<1>2. /\ m \in Pass /\ m.schritt = "hinweise" /\ m.hinweise = pass.hinweise /\ m.aufgegeben = pass.aufgegeben
      /\ m.angekuendigt = pass.angekuendigt
      /\ m.mitgeteilt = pass.mitgeteilt /\ m.ungewarnt = pass.ungewarnt /\ m.angefragt = pass.angefragt
      /\ m.erinnerungen = pass.erinnerungen /\ m.anfragen = pass.anfragen
  BY <1>1 DEF Pass
<1>3. vorrat' \in Vorrat
  BY VorratBleibt DEF IInv, after_what_is_owed
<1>4. UNCHANGED <<heute, spiel, gesperrt, gebeten, gewarnt, erinnert, abgetan>>
  BY DEF after_what_is_owed, Liga, Post
<1>5. pass' = Ruhe => PassStimmt'
  BY RuheLeer, LeererPass
<1>6. Abgebrochen => pass' = m \/ pass' = Ruhe
  BY DEF Abgebrochen, Setze
<1> HIDE DEF m
<1>7. CASE /\ pass.schritt = "schliesst" /\ Setze(Ruhe)
           /\ \E anteil \in SUBSET ZuSchliessen : zeile' = Geschlossen(anteil)
           /\ UNCHANGED entledigt
  <2>1. PICK anteil \in SUBSET ZuSchliessen : zeile' = Geschlossen(anteil)
    BY <1>7
  <2> QED BY <1>3, <1>4, <1>7, <2>1, RuheLeer, SchliessenStimmt DEF Setze
<1>8. CASE /\ pass.schritt = "sagt_an" /\ Setze(Ruhe)
           /\ \E anteil \in SUBSET Gehalten :
                zeile' = Angesagt(anteil) /\ entledigt' = entledigt \cup (Entfallen \cap anteil)
  <2>1. PICK anteil \in SUBSET Gehalten :
          zeile' = Angesagt(anteil) /\ entledigt' = entledigt \cup (Entfallen \cap anteil)
    BY <1>8
  <2>2. pass' = Ruhe
    BY <1>8 DEF Setze
  <2>3. TypeOK' /\ ZeilenStimmen'
    BY <1>3, <1>4, <2>1, <2>2, RuheLeer, AnsagenStimmt
  <2> QED BY <1>5, <2>2, <2>3 DEF IInv
<1>9. CASE pass.schritt = "fragt" /\ Abgebrochen /\ zeile' \in {zeile, Gefragt} /\ UNCHANGED entledigt
  <2>1. CASE pass' = m
    <3>1. m.anfragen = {}
      BY <1>2, <1>9 DEF IInv, PassStimmt, Schritte
    <3> QED BY <1>2, <1>3, <1>4, <1>9, <2>1, <3>1, FragenStimmt
  <2>2. CASE pass' = Ruhe
    <3>1. TypeOK' /\ ZeilenStimmen'
      BY <1>3, <1>4, <1>9, <2>2, RuheLeer, FragenZeilen
    <3> QED BY <1>5, <2>2, <3>1 DEF IInv
  <2> QED BY <1>6, <1>9, <2>1, <2>2
<1>10. CASE /\ pass.schritt = "erinnert" /\ Abgebrochen
            /\ \E anteil \in SUBSET build_erinnerung_filter : zeile' = Erinnert(anteil)
            /\ UNCHANGED entledigt
  <2>1. PICK anteil \in SUBSET build_erinnerung_filter : zeile' = Erinnert(anteil)
    BY <1>10
  <2>2. CASE pass' = m
    BY <1>2, <1>3, <1>4, <1>10, <2>1, <2>2, ErinnernStimmt
  <2>3. CASE pass' = Ruhe
    <3>1. TypeOK' /\ ZeilenStimmen'
      BY <1>3, <1>4, <1>10, <2>1, <2>3, RuheLeer, ErinnernZeilen
    <3> QED BY <1>5, <2>3, <3>1 DEF IInv
  <2> QED BY <1>6, <1>10, <2>2, <2>3
<1> QED BY <1>7, <1>8, <1>9, <1>10 DEF after_what_is_owed

-----------------------------------------------------------------------------
(* The mails and the stamps. *)

\* A pass goes on: it drops what it has done, stamps what it mailed, and warns or keeps
\* whom it has to warn.
LEMMA PassWeiter ==
  ASSUME IInv, pass' \in Pass, heute' = heute,
         gebeten \subseteq gebeten', gewarnt \subseteq gewarnt', abgetan \subseteq abgetan',
         entledigt \subseteq entledigt',
         \A z \in Zeilen : /\ zeile'[z].da = zeile[z].da /\ zeile'[z].slot = zeile[z].slot
                           /\ zeile'[z].angefragt = zeile[z].angefragt
                           /\ zeile'[z].erinnert = zeile[z].erinnert /\ zeile'[z].grund = zeile[z].grund
                           /\ zeile'[z].versuche = zeile[z].versuche
                           /\ zeile'[z].mitteilung => zeile[z].mitteilung,
         pass.schritt \in {"hinweise", "mitgeteilt", "erinnerungen", "anfragen"},
         pass'.schritt \in {"hinweise", "mitgeteilt", "erinnerungen", "anfragen"},
         pass'.schritt = "hinweise" \/ (pass'.hinweise = {} /\ pass'.aufgegeben = {}),
         pass'.anfragen \subseteq pass.anfragen,
         \A z \in pass'.angefragt : z \in pass.angefragt \/ \E p \in Postfaecher : <<z, p>> \in pass.anfragen /\ Gebeten(z)',
         \A z \in pass'.mitgeteilt : z \in pass.mitgeteilt \/ Gewarnt(z)',
         \A z \in Zeilen : Geaendert(z) /\ HinweisUnterwegs(z) => HinweisUnterwegs(z)',
         pass'.erinnerungen \subseteq pass.erinnerungen,
         \A z \in pass'.erinnerungen : erinnert'[z] = erinnert[z]
  PROVE  PassStimmt'
<1>1. pass \in Pass /\ pass.anfragen \subseteq Zeilen \X Postfaecher /\ pass.angefragt \subseteq Zeilen
      /\ pass.erinnerungen \subseteq Zeilen /\ pass.mitgeteilt \subseteq Zeilen
  BY Typ DEF IInv, Pass
<1>2. \A z : (Gewarnt(z) => Gewarnt(z)') /\ (Gebeten(z) => Gebeten(z)')
  BY PostWaechst
<1>3. Schritte'
  BY DEF Schritte
<1>4. AnfragenStimmen'
  <2>1. ASSUME NEW z \in Zeilen, Fragbar(z) PROVE Fragbar(z)'
    <3>1. AlleGezaehlt(z)'
      BY <2>1 DEF Fragbar, AlleGezaehlt, HaeltHinweis, Gezaehlt
    <3>2. \A y \in Zeilen : Offen(y)' => y = z
      BY <2>1 DEF Fragbar, Offen
    <3> QED BY <2>1, <3>1, <3>2 DEF Fragbar
  <2>2. ASSUME NEW l \in pass'.anfragen PROVE Fragbar(l[1])'
    <3>1. l[1] \in Zeilen /\ Fragbar(l[1])
      BY <1>1 DEF IInv, PassStimmt, AnfragenStimmen
    <3> QED BY <2>1, <3>1
  <2>3. ASSUME NEW z \in pass'.angefragt
        PROVE  zeile'[z].da /\ zeile'[z].grund \in {"offen", "verworfen"} /\ Gebeten(z)'
    <3>1. CASE z \in pass.angefragt
      BY <1>1, <1>2, <3>1 DEF IInv, PassStimmt, AnfragenStimmen
    <3>2. CASE \E p \in Postfaecher : <<z, p>> \in pass.anfragen /\ Gebeten(z)'
      <4>1. PICK p \in Postfaecher : <<z, p>> \in pass.anfragen /\ Gebeten(z)'
        BY <3>2
      <4>2. z \in Zeilen /\ Fragbar(<<z, p>>[1])
        BY <1>1, <4>1 DEF IInv, PassStimmt, AnfragenStimmen
      <4> QED BY <4>1, <4>2 DEF Fragbar
    <3> QED BY <3>1, <3>2
  <2> QED BY <2>2, <2>3 DEF AnfragenStimmen
<1>5. HinweiseStimmen'
  <2>1. \A z \in pass'.mitgeteilt : Gewarnt(z)'
    BY <1>2 DEF IInv, PassStimmt, HinweiseStimmen
  <2>2. ASSUME NEW z \in Zeilen, Geaendert(z)' PROVE HinweisUnterwegs(z)'
    <3>1. Geaendert(z)
      BY <2>2 DEF Geaendert
    <3> QED BY <3>1 DEF IInv, PassStimmt, HinweiseStimmen
  <2> QED BY <2>1, <2>2 DEF HinweiseStimmen
<1>6. ErinnerungenStimmen'
  BY <1>1 DEF IInv, PassStimmt, ErinnerungenStimmen
<1> QED BY <1>3, <1>4, <1>5, <1>6 DEF PassStimmt

LEMMA NeustartStimmt == ASSUME IInv, Neustart PROVE IInv'
<1>1. vorrat' \in Vorrat
  BY VorratBleibt DEF IInv, Neustart
<1>2. TypeOK' /\ ZeilenStimmen'
  BY <1>1, RuheLeer, NurPass, Typ DEF IInv, Neustart, Setze, Liga, Post
<1>3. PassStimmt'
  BY RuheLeer, LeererPass DEF Neustart, Setze
<1> QED BY <1>2, <1>3 DEF IInv

\* A fan-out counted as sent arrived somewhere, or ended where nothing was to be mailed.
LEMMA VersandtStimmt ==
  ASSUME NEW art, NEW z, NEW empfaenger, NEW ausgang \in Ausgehend(empfaenger),
         NEW an \in Angekommen(empfaenger, ausgang), Abgetan(art, z, empfaenger, ausgang)
  PROVE  /\ an \subseteq empfaenger /\ abgetan \subseteq abgetan'
         /\ abgetan' \subseteq abgetan \cup {<<art, z>>}
         /\ Versandt(empfaenger, ausgang) => an # {} \/ <<art, z>> \in abgetan'
<1>1. an \subseteq empfaenger /\ \A p \in empfaenger : ausgang[p] = "gesendet" => p \in an
  BY DEF Angekommen
<1>2. abgetan' = IF \E p \in empfaenger : Entbehrlich(ausgang[p]) THEN abgetan \cup {<<art, z>>} ELSE abgetan
  BY DEF Abgetan
<1>3. ASSUME Versandt(empfaenger, ausgang) PROVE an # {} \/ <<art, z>> \in abgetan'
  <2>1. PICK p \in empfaenger : istVersandt(ausgang[p])
    BY <1>3 DEF Versandt
  <2>2. CASE ausgang[p] = "gesendet"
    BY <1>1, <2>2
  <2>3. CASE Entbehrlich(ausgang[p])
    BY <1>2, <2>3
  <2> QED BY <2>1, <2>2, <2>3 DEF istVersandt
<1> QED BY <1>1, <1>2, <1>3

LEMMA mailTeamHinweisStimmt ==
  ASSUME IInv, NEW z \in Zeilen, Hinweis(z)
  PROVE  IInv'
<1>1. PICK ausgang \in Ausgehend(Postfaecher) : \E an \in Angekommen(Postfaecher, ausgang) :
        mailTeamHinweis(z, ausgang, an)
  BY DEF Hinweis
<1>2. PICK an \in Angekommen(Postfaecher, ausgang) : mailTeamHinweis(z, ausgang, an)
  BY <1>1
<1> DEFINE ging == Versandt(Postfaecher, ausgang)
           mit == IF ging THEN pass.mitgeteilt \cup {z} ELSE pass.mitgeteilt
           ung == IF zeile[z].grund = "ansetzung_geaendert" /\ ~ging THEN Postfaecher ELSE pass.ungewarnt
           m == [pass EXCEPT !.hinweise = @ \ {z}, !.mitgeteilt = mit, !.ungewarnt = ung]
<1>3. pass \in Pass /\ mit \subseteq Zeilen /\ ung \subseteq Postfaecher
  BY Typ DEF IInv, Pass
<1>4. /\ pass' = m /\ gewarnt' = gewarnt \cup ({z} \X an) /\ Abgetan("hinweis", z, Postfaecher, ausgang)
      /\ pass.schritt = "hinweise" /\ UNCHANGED <<heute, spiel, gesperrt, zeile, gebeten, erinnert, entledigt>>
  BY <1>2 DEF mailTeamHinweis, Setze, Liga
<1>5. vorrat' \in Vorrat
  BY <1>2, VorratBleibt DEF IInv, mailTeamHinweis
<1>6. /\ an \subseteq Postfaecher /\ abgetan \subseteq abgetan' /\ abgetan' \subseteq abgetan \cup {<<"hinweis", z>>}
      /\ ging => an # {} \/ <<"hinweis", z>> \in abgetan'
  BY <1>2, <1>4, VersandtStimmt
<1>7. ging => Gewarnt(z)'
  BY <1>4, <1>6 DEF Gewarnt
<1>8. \A y \in mit : y \in pass.mitgeteilt \/ (y = z /\ Gewarnt(z)')
  BY <1>7
<1>9. ung = Postfaecher \/ (ung = pass.ungewarnt /\ (Gewarnt(z)' \/ zeile[z].grund # "ansetzung_geaendert"))
  BY <1>7
<1> HIDE DEF mit, ung, ging
<1>10. /\ m \in Pass /\ m.schritt = "hinweise" /\ m.hinweise = pass.hinweise \ {z}
       /\ m.aufgegeben = pass.aufgegeben /\ m.mitgeteilt = mit /\ m.ungewarnt = ung
       /\ m.angekuendigt = pass.angekuendigt
       /\ m.erinnerungen = pass.erinnerungen /\ m.angefragt = pass.angefragt /\ m.anfragen = pass.anfragen
  BY <1>3, <1>4 DEF Pass
<1> HIDE DEF m
<1>11. /\ gewarnt \subseteq gewarnt' /\ gewarnt' \subseteq Zeilen \X Postfaecher
       /\ abgetan' \subseteq {"anfrage", "hinweis"} \X Zeilen
  BY <1>4, <1>6, Typ DEF IInv
<1>12. TypeOK' /\ ZeilenStimmen'
  BY <1>4, <1>5, <1>6, <1>10, <1>11, NurPass, Typ DEF IInv
<1>13. \A y \in pass'.mitgeteilt : y \in pass.mitgeteilt \/ Gewarnt(y)'
  BY <1>4, <1>8, <1>10
<1>14. ASSUME NEW y \in Zeilen, Geaendert(y), HinweisUnterwegs(y) PROVE HinweisUnterwegs(y)'
  <2>1. Gewarnt(y) => Gewarnt(y)'
    BY <1>4, <1>6, <1>11 DEF Gewarnt
  <2>2. CASE y = z
    <3>1. Gewarnt(z)' \/ pass'.ungewarnt = Postfaecher
      BY <1>4, <1>9, <1>10, <1>14, <2>2 DEF Geaendert
    <3> QED BY <2>2, <3>1 DEF HinweisUnterwegs
  <2>3. CASE y # z
    BY <1>4, <1>9, <1>10, <1>14, <2>1, <2>3 DEF HinweisUnterwegs
  <2> QED BY <2>2, <2>3
<1>15. PassStimmt'
  BY <1>4, <1>6, <1>10, <1>11, <1>13, <1>14, PassWeiter
<1> QED BY <1>12, <1>15 DEF IInv

LEMMA HinweiseFertigStimmt == ASSUME IInv, HinweiseFertig PROVE IInv'
<1> DEFINE m == [pass EXCEPT !.schritt = "mitgeteilt", !.mitgeteilt = @ \cup pass.aufgegeben, !.aufgegeben = {}]
<1>1. pass \in Pass /\ pass.aufgegeben \subseteq Zeilen /\ entledigt \subseteq Zeilen
  BY Typ DEF IInv, Pass
<1>2. /\ m \in Pass /\ m.schritt = "mitgeteilt" /\ m.hinweise = pass.hinweise /\ m.aufgegeben = {}
      /\ m.angekuendigt = pass.angekuendigt
      /\ m.mitgeteilt = pass.mitgeteilt \cup pass.aufgegeben /\ m.ungewarnt = pass.ungewarnt
      /\ m.erinnerungen = pass.erinnerungen /\ m.angefragt = pass.angefragt /\ m.anfragen = pass.anfragen
  BY <1>1 DEF Pass
<1>3. vorrat' \in Vorrat
  BY VorratBleibt DEF IInv, HinweiseFertig
<1>4. /\ pass' = m /\ pass.schritt = "hinweise" /\ pass.hinweise = {} /\ entledigt' = entledigt \cup pass.aufgegeben
      /\ UNCHANGED <<heute, spiel, gesperrt, zeile, gebeten, gewarnt, erinnert, abgetan>>
  BY DEF HinweiseFertig, Setze, Liga, Post
<1> HIDE DEF m
<1>5. TypeOK' /\ ZeilenStimmen'
  BY <1>1, <1>2, <1>3, <1>4, NurPass, Typ DEF IInv
<1>6. \A z \in pass'.mitgeteilt : z \in pass.mitgeteilt \/ Gewarnt(z)'
  BY <1>2, <1>4 DEF Gewarnt
<1>7. ASSUME NEW z \in Zeilen, HinweisUnterwegs(z) PROVE HinweisUnterwegs(z)'
  <2>1. Gewarnt(z) \/ z \in pass.aufgegeben => Gewarnt(z)'
    BY <1>4 DEF Gewarnt
  <2> QED BY <1>2, <1>4, <1>7, <2>1 DEF HinweisUnterwegs
<1>8. PassStimmt'
  BY <1>2, <1>4, <1>6, <1>7, PassWeiter
<1> QED BY <1>5, <1>8 DEF IInv

\* The stamp of the notices, of whichever rows it takes: the reminders go on either way.
LEMMA postMitgeteiltStimmt == ASSUME IInv, postMitgeteilt PROVE IInv'
<1> DEFINE m == [pass EXCEPT !.schritt = "erinnerungen", !.mitgeteilt = {}]
<1>1. PICK anteil \in SUBSET pass.mitgeteilt :
        Umfang(anteil, pass.mitgeteilt) /\ zeile' = Mitgeteilt(anteil)
  BY DEF postMitgeteilt
<1>2. /\ pass \in Pass /\ zeile \in [Zeilen -> Zeile] /\ pass' = m /\ pass.schritt = "mitgeteilt"
      /\ UNCHANGED <<heute, spiel, gesperrt, gebeten, gewarnt, erinnert, abgetan, entledigt>>
  BY Typ DEF IInv, postMitgeteilt, Setze, Liga, Post
<1>3. vorrat' \in Vorrat
  BY <1>1, UmfangTyp DEF IInv
<1>4. /\ m \in Pass /\ m.schritt = "erinnerungen" /\ m.hinweise = pass.hinweise
      /\ m.aufgegeben = pass.aufgegeben /\ m.mitgeteilt = {} /\ m.ungewarnt = pass.ungewarnt
      /\ m.angekuendigt = pass.angekuendigt
      /\ m.erinnerungen = pass.erinnerungen /\ m.angefragt = pass.angefragt /\ m.anfragen = pass.anfragen
  BY <1>2 DEF Pass
<1> HIDE DEF m
<1>5. ASSUME NEW z \in Zeilen
      PROVE  /\ zeile'[z] \in Zeile
             /\ zeile'[z].da = zeile[z].da /\ zeile'[z].slot = zeile[z].slot
             /\ zeile'[z].angefragt = zeile[z].angefragt /\ zeile'[z].erinnert = zeile[z].erinnert
             /\ zeile'[z].grund = zeile[z].grund /\ zeile'[z].versuche = zeile[z].versuche
             /\ zeile'[z].mitteilung => zeile[z].mitteilung
             /\ z \in pass.mitgeteilt \/ zeile'[z].mitteilung = zeile[z].mitteilung
  <2>1. LET n == [zeile[z] EXCEPT !.mitteilung = FALSE]
        IN  /\ n \in Zeile /\ n.da = zeile[z].da /\ n.slot = zeile[z].slot
            /\ n.angefragt = zeile[z].angefragt /\ n.erinnert = zeile[z].erinnert /\ n.grund = zeile[z].grund
            /\ n.versuche = zeile[z].versuche /\ n.mitteilung = FALSE
    BY <1>2 DEF Zeile
  <2>2. CASE zeile'[z] = zeile[z]
    BY <1>2, <2>2
  <2>3. CASE z \in pass.mitgeteilt /\ zeile'[z] = [zeile[z] EXCEPT !.mitteilung = FALSE]
    BY <2>1, <2>3
  <2> QED BY <1>1, <2>2, <2>3 DEF Mitgeteilt
<1>6. zeile' = [z \in Zeilen |-> zeile'[z]]
  BY <1>1 DEF Mitgeteilt
<1>7. TypeOK'
  BY <1>2, <1>3, <1>4, <1>5, <1>6, Typ DEF IInv, TypeOK, Zeile, Pass, Vorrat
<1>8. \A z \in Zeilen : /\ Gewarnt(z)' <=> Gewarnt(z)
                        /\ Geaendert(z)' <=> Geaendert(z)
  BY <1>2, <1>5 DEF Gewarnt, Geaendert
<1>9. \A z \in Zeilen : Geaendert(z)' /\ ~zeile'[z].mitteilung => Gewarnt(z)' \/ Tag[zeile[z].slot] < heute
  BY <1>5, <1>8 DEF IInv, ZeilenStimmen, StempelHeisstGemailt, PassStimmt, HinweiseStimmen
<1>10. \A z \in Zeilen : HaeltHinweis(z)' => HaeltHinweis(z) /\ (Gezaehlt(z) => Gezaehlt(z)')
  BY <1>2, <1>5 DEF HaeltHinweis, Gezaehlt
<1>11. ZeilenStimmen'
  BY <1>2, <1>5, <1>9, <1>10, NurZeilen
<1>12. ASSUME NEW z \in Zeilen, Geaendert(z), HinweisUnterwegs(z) PROVE HinweisUnterwegs(z)'
  <2>1. CASE z \in pass.mitgeteilt
    BY <1>8, <2>1 DEF IInv, PassStimmt, HinweiseStimmen, HinweisUnterwegs
  <2>2. CASE z \notin pass.mitgeteilt
    BY <1>2, <1>4, <1>5, <1>8, <1>12, <2>2 DEF HinweisUnterwegs
  <2> QED BY <2>1, <2>2
<1>13. pass.hinweise = {} /\ pass.aufgegeben = {}
  BY <1>2 DEF IInv, PassStimmt, Schritte
<1>14. PassStimmt'
  BY <1>2, <1>4, <1>5, <1>12, <1>13, PassWeiter
<1> QED BY <1>7, <1>11, <1>14 DEF IInv

LEMMA mailErinnerungStimmt == ASSUME IInv, NEW z \in Zeilen, mailErinnerung(z) PROVE IInv'
<1> DEFINE m == [pass EXCEPT !.erinnerungen = @ \ {z}]
<1>1. pass \in Pass /\ erinnert \in [Zeilen -> 0..2] /\ zeile \in [Zeilen -> Zeile]
  BY Typ DEF IInv
<1>2. /\ pass' = m /\ pass.schritt = "erinnerungen" /\ z \in pass.erinnerungen
      /\ UNCHANGED <<heute, spiel, gesperrt, zeile, gebeten, gewarnt, abgetan, entledigt>>
  BY DEF mailErinnerung, Setze, Liga
<1>3. /\ m \in Pass /\ m.schritt = "erinnerungen" /\ m.hinweise = pass.hinweise
      /\ m.aufgegeben = pass.aufgegeben /\ m.mitgeteilt = pass.mitgeteilt /\ m.ungewarnt = pass.ungewarnt
      /\ m.angekuendigt = pass.angekuendigt
      /\ m.erinnerungen = pass.erinnerungen \ {z} /\ m.angefragt = pass.angefragt /\ m.anfragen = pass.anfragen
  BY <1>1, <1>2 DEF Pass
<1> HIDE DEF m
<1>4. /\ erinnert[z] = 0 /\ zeile[z].da /\ heute \in zeile[z].erinnert /\ zeile[z].angefragt \notin {0, heute}
  BY <1>2 DEF IInv, PassStimmt, ErinnerungenStimmen
<1>5. erinnert' = [erinnert EXCEPT ![z] = 1]
  BY <1>1, <1>4 DEF mailErinnerung
<1>6. erinnert' \in [Zeilen -> 0..2] /\ erinnert'[z] = 1 /\ \A y \in Zeilen \ {z} : erinnert'[y] = erinnert[y]
  BY <1>1, <1>5
<1>7. vorrat' \in Vorrat
  BY VorratBleibt DEF IInv, mailErinnerung
<1>8. TypeOK'
  BY <1>1, <1>2, <1>3, <1>6, <1>7, Typ DEF IInv, TypeOK, Zeile, Pass, Vorrat
<1>9. ErinnertStimmt'
  BY <1>2, <1>4, <1>6 DEF IInv, ZeilenStimmen, ErinnertStimmt
<1>10. (StempelHeisstGemailt /\ EineFrageJeAnsetzung /\ EinOffener)'
  BY <1>2 DEF IInv, ZeilenStimmen, StempelHeisstGemailt, Gewarnt, Gebeten, Geaendert, EineFrageJeAnsetzung, Da,
              EinOffener, Offen
<1>11. OffeneGezaehlt'
  BY <1>2 DEF IInv, ZeilenStimmen, OffeneGezaehlt, AlleGezaehlt, HaeltHinweis, Gezaehlt, Offen
<1>12. \A y \in Zeilen : HinweisUnterwegs(y) => HinweisUnterwegs(y)'
  BY <1>2, <1>3 DEF HinweisUnterwegs, Gewarnt
<1>13. pass.hinweise = {} /\ pass.aufgegeben = {} /\ pass.erinnerungen \subseteq Zeilen
  BY <1>1, <1>2 DEF IInv, PassStimmt, Schritte, Pass
<1>14. PassStimmt'
  BY <1>2, <1>3, <1>6, <1>12, <1>13, PassWeiter
<1> QED BY <1>8, <1>9, <1>10, <1>11, <1>14 DEF IInv, ZeilenStimmen

LEMMA ErinnerungenFertigStimmt == ASSUME IInv, ErinnerungenFertig PROVE IInv'
<1> DEFINE m == [pass EXCEPT !.schritt = "anfragen"]
<1>1. pass \in Pass
  BY Typ DEF IInv
<1>2. /\ pass' = m /\ pass.schritt = "erinnerungen"
      /\ UNCHANGED <<heute, spiel, gesperrt, zeile, gebeten, gewarnt, erinnert, abgetan, entledigt>>
  BY DEF ErinnerungenFertig, Setze, Liga, Post
<1>3. /\ m \in Pass /\ m.schritt = "anfragen" /\ m.hinweise = pass.hinweise
      /\ m.aufgegeben = pass.aufgegeben /\ m.mitgeteilt = pass.mitgeteilt /\ m.ungewarnt = pass.ungewarnt
      /\ m.angekuendigt = pass.angekuendigt
      /\ m.erinnerungen = pass.erinnerungen /\ m.angefragt = pass.angefragt /\ m.anfragen = pass.anfragen
  BY <1>1 DEF Pass
<1> HIDE DEF m
<1>4. vorrat' \in Vorrat
  BY VorratBleibt DEF IInv, ErinnerungenFertig
<1>5. TypeOK' /\ ZeilenStimmen'
  BY <1>2, <1>3, <1>4, NurPass, Typ DEF IInv
<1>6. \A y \in Zeilen : HinweisUnterwegs(y) => HinweisUnterwegs(y)'
  BY <1>2, <1>3 DEF HinweisUnterwegs, Gewarnt
<1>7. pass.hinweise = {} /\ pass.aufgegeben = {}
  BY <1>2 DEF IInv, PassStimmt, Schritte
<1>8. PassStimmt'
  BY <1>2, <1>3, <1>6, <1>7, PassWeiter
<1> QED BY <1>5, <1>8 DEF IInv

LEMMA mailAnfrageStimmt ==
  ASSUME IInv, NEW z \in Zeilen, Anfrage(z)
  PROVE  IInv'
<1>1. PICK ausgang \in Ausgehend(Empfaenger(z)) : \E an \in Angekommen(Empfaenger(z), ausgang) :
        mailAnfrage(z, ausgang, an)
  BY DEF Anfrage
<1>2. PICK an \in Angekommen(Empfaenger(z), ausgang) : mailAnfrage(z, ausgang, an)
  BY <1>1
<1> DEFINE ging == Versandt(Empfaenger(z), ausgang)
           ang == IF ging THEN pass.angefragt \cup {z} ELSE pass.angefragt
           rest == {l \in pass.anfragen : l[1] # z}
           m == [pass EXCEPT !.anfragen = {l \in @ : l[1] # z}, !.angefragt = ang]
<1>3. pass \in Pass /\ ang \subseteq Zeilen /\ Empfaenger(z) \subseteq Postfaecher
  BY Typ DEF IInv, Pass, Empfaenger
<1>4. /\ pass' = m /\ gebeten' = gebeten \cup ({z} \X an) /\ Abgetan("anfrage", z, Empfaenger(z), ausgang)
      /\ pass.schritt = "anfragen" /\ Empfaenger(z) # {}
      /\ UNCHANGED <<heute, spiel, gesperrt, zeile, gewarnt, erinnert, entledigt>>
  BY <1>2 DEF mailAnfrage, Setze, Liga
<1>5. /\ an \subseteq Empfaenger(z) /\ abgetan \subseteq abgetan' /\ abgetan' \subseteq abgetan \cup {<<"anfrage", z>>}
      /\ ging => an # {} \/ <<"anfrage", z>> \in abgetan'
  BY <1>2, <1>4, VersandtStimmt
<1>6. ging => Gebeten(z)'
  BY <1>3, <1>4, <1>5 DEF Gebeten
<1>7. \E p \in Postfaecher : <<z, p>> \in pass.anfragen
  BY <1>4 DEF Empfaenger
<1>8. \A y \in ang : y \in pass.angefragt \/ (y = z /\ Gebeten(z)')
  BY <1>6
<1>9. rest \subseteq pass.anfragen
  OBVIOUS
<1> HIDE DEF ang, ging
<1>10. /\ m \in Pass /\ m.schritt = "anfragen" /\ m.hinweise = pass.hinweise
       /\ m.aufgegeben = pass.aufgegeben /\ m.mitgeteilt = pass.mitgeteilt /\ m.ungewarnt = pass.ungewarnt
       /\ m.angekuendigt = pass.angekuendigt
       /\ m.erinnerungen = pass.erinnerungen /\ m.angefragt = ang /\ m.anfragen = rest
  BY <1>3, <1>4 DEF Pass
<1> HIDE DEF m, rest
<1>11. vorrat' \in Vorrat
  BY <1>2, VorratBleibt DEF IInv, mailAnfrage
<1>12. /\ gebeten \subseteq gebeten' /\ gebeten' \subseteq Zeilen \X Postfaecher
       /\ abgetan' \subseteq {"anfrage", "hinweis"} \X Zeilen
  BY <1>3, <1>4, <1>5, Typ DEF IInv
<1>13. TypeOK' /\ ZeilenStimmen'
  BY <1>4, <1>5, <1>10, <1>11, <1>12, NurPass, Typ DEF IInv
<1>14. \A y \in Zeilen : HinweisUnterwegs(y) => HinweisUnterwegs(y)'
  BY <1>4, <1>5, <1>10 DEF HinweisUnterwegs, Gewarnt
<1>15. \A y \in pass'.angefragt :
         y \in pass.angefragt \/ \E p \in Postfaecher : <<y, p>> \in pass.anfragen /\ Gebeten(y)'
  BY <1>4, <1>7, <1>8, <1>10
<1>16. pass.hinweise = {} /\ pass.aufgegeben = {}
  BY <1>4 DEF IInv, PassStimmt, Schritte
<1>17. \A y \in pass'.mitgeteilt : y \in pass.mitgeteilt \/ Gewarnt(y)'
  BY <1>4, <1>10
<1>18. PassStimmt'
  BY <1>4, <1>5, <1>9, <1>10, <1>12, <1>14, <1>15, <1>16, <1>17, PassWeiter
<1> QED BY <1>13, <1>18 DEF IInv

LEMMA AnfragenFertigStimmt == ASSUME IInv, AnfragenFertig PROVE IInv'
<1> DEFINE m == [Ruhe EXCEPT !.schritt = "angefragt", !.angefragt = pass.angefragt]
<1>1. pass \in Pass /\ pass.angefragt \subseteq Zeilen
  BY Typ DEF IInv, Pass
<1>2. /\ m \in Pass /\ m.schritt = "angefragt" /\ m.hinweise = {} /\ m.aufgegeben = {}
      /\ m.mitgeteilt = {} /\ m.erinnerungen = {} /\ m.anfragen = {} /\ m.angefragt = pass.angefragt
  BY <1>1 DEF Ruhe, Pass
<1>3. /\ pass' = Ruhe \/ pass' = m
      /\ UNCHANGED <<heute, spiel, gesperrt, zeile, gebeten, gewarnt, erinnert, abgetan, entledigt>>
  BY DEF AnfragenFertig, Setze, Liga, Post
<1> HIDE DEF m
<1>4. vorrat' \in Vorrat
  BY VorratBleibt DEF IInv, AnfragenFertig
<1>5. TypeOK' /\ ZeilenStimmen'
  BY <1>2, <1>3, <1>4, RuheLeer, NurPass, Typ DEF IInv
<1>6. pass' = m => PassStimmt'
  BY <1>1, <1>2, <1>3 DEF IInv, PassStimmt, Schritte, AnfragenStimmen, HinweiseStimmen, ErinnerungenStimmen,
                          Gebeten
<1>7. pass' = Ruhe => PassStimmt'
  BY RuheLeer, LeererPass
<1> QED BY <1>3, <1>5, <1>6, <1>7 DEF IInv

\* The stamp of the requests, of whichever rows it takes: rows whose request went, none of
\* them closed over a move.
LEMMA postAngefragtStimmt == ASSUME IInv, postAngefragt PROVE IInv'
<1>1. PICK anteil \in SUBSET pass.angefragt :
        Umfang(anteil, pass.angefragt) /\ zeile' = Angefragt(anteil)
  BY DEF postAngefragt
<1>2. /\ pass' = Ruhe
      /\ UNCHANGED <<heute, spiel, gesperrt, gebeten, gewarnt, erinnert, abgetan, entledigt>>
  BY DEF postAngefragt, Setze, Liga, Post
<1>3. /\ zeile \in [Zeilen -> Zeile] /\ heute \in 1..TAGE /\ heute \in 0..TAGE /\ erinnert \in [Zeilen -> 0..2]
      /\ vorrat' \in Vorrat
  BY <1>1, UmfangTyp, Typ DEF IInv
<1>4. ASSUME NEW z \in Zeilen
      PROVE  /\ zeile'[z] \in Zeile
             /\ zeile'[z].da = zeile[z].da /\ zeile'[z].slot = zeile[z].slot
             /\ zeile'[z].erinnert = zeile[z].erinnert
             /\ zeile'[z].grund = zeile[z].grund /\ zeile'[z].mitteilung = zeile[z].mitteilung
             /\ zeile'[z].versuche = zeile[z].versuche
             /\ \/ zeile'[z].angefragt = zeile[z].angefragt
                \/ zeile[z].angefragt = 0 /\ z \in pass.angefragt
  <2>1. LET n == [zeile[z] EXCEPT !.angefragt = heute]
        IN  /\ n \in Zeile /\ n.da = zeile[z].da /\ n.slot = zeile[z].slot
            /\ n.erinnert = zeile[z].erinnert /\ n.grund = zeile[z].grund /\ n.mitteilung = zeile[z].mitteilung
            /\ n.versuche = zeile[z].versuche
    BY <1>3 DEF Zeile
  <2>2. CASE zeile'[z] = zeile[z]
    BY <1>3, <2>2
  <2>3. CASE z \in pass.angefragt /\ zeile[z].angefragt = 0 /\ zeile'[z] = [zeile[z] EXCEPT !.angefragt = heute]
    BY <2>1, <2>3
  <2> QED BY <1>1, <2>2, <2>3 DEF Angefragt
<1>5. zeile' = [z \in Zeilen |-> zeile'[z]]
  BY <1>1 DEF Angefragt
<1>6. TypeOK'
  BY <1>2, <1>3, <1>4, <1>5, RuheLeer, Typ DEF IInv, TypeOK, Zeile, Pass, Vorrat
<1>7. \A z \in pass.angefragt : Gebeten(z) /\ zeile[z].grund \in {"offen", "verworfen"}
  BY DEF IInv, PassStimmt, AnfragenStimmen
<1>8. \A z \in Zeilen : (Gebeten(z)' <=> Gebeten(z)) /\ (Gewarnt(z)' <=> Gewarnt(z))
  BY <1>2 DEF Gebeten, Gewarnt
<1>9. StempelHeisstGemailt'
  <2>1. \A z \in Zeilen : zeile'[z].angefragt # 0 => Gebeten(z)'
    BY <1>4, <1>7, <1>8 DEF IInv, ZeilenStimmen, StempelHeisstGemailt
  <2>2. ASSUME NEW z \in Zeilen, Geaendert(z)', ~zeile'[z].mitteilung
        PROVE  Gewarnt(z)' \/ Tag[zeile'[z].slot] < heute'
    <3>1. Geaendert(z)
      BY <1>4, <1>7, <2>2 DEF Geaendert
    <3> QED BY <1>2, <1>4, <1>8, <2>2, <3>1 DEF IInv, ZeilenStimmen, StempelHeisstGemailt
  <2> QED BY <2>1, <2>2 DEF StempelHeisstGemailt
<1>10. EineFrageJeAnsetzung'
  BY <1>4 DEF IInv, ZeilenStimmen, EineFrageJeAnsetzung, Da
<1>11. EinOffener'
  BY <1>4 DEF IInv, ZeilenStimmen, EinOffener, Offen
<1>12. ErinnertStimmt'
  BY <1>2, <1>3, <1>4 DEF IInv, ZeilenStimmen, ErinnertStimmt
<1>13. OffeneGezaehlt'
  BY <1>2, <1>4 DEF IInv, ZeilenStimmen, OffeneGezaehlt, AlleGezaehlt, HaeltHinweis, Gezaehlt, Offen
<1>14. PassStimmt'
  BY <1>2, RuheLeer, LeererPass
<1> QED BY <1>6, <1>9, <1>10, <1>11, <1>12, <1>13, <1>14 DEF IInv, ZeilenStimmen

-----------------------------------------------------------------------------
(* The league around it. *)

LEMMA NeuerTagStimmt == ASSUME IInv, NeuerTag PROVE IInv'
<1>1. /\ pass' = pass /\ pass.schritt = "ruht" /\ heute < TAGE /\ heute' = heute + 1
      /\ erinnert' = [z \in Zeilen |-> 0]
      /\ UNCHANGED <<spiel, gesperrt, zeile, gebeten, gewarnt, abgetan, entledigt>>
  BY DEF NeuerTag
<1>2. heute \in 1..TAGE /\ TAGE \in Nat /\ heute' \in 1..TAGE /\ zeile \in [Zeilen -> Zeile] /\ pass \in Pass
  BY <1>1, Typ, ZahlenAssumption DEF IInv
<1>3. vorrat' \in Vorrat
  BY VorratBleibt DEF IInv, NeuerTag
<1>4. TypeOK'
  BY <1>1, <1>2, <1>3, Typ DEF IInv, TypeOK, Zeile, Pass, Vorrat
<1>5. \A z \in Zeilen : Tag[zeile[z].slot] < heute => Tag[zeile[z].slot] < heute'
  BY <1>1, <1>2, SlotAssumption DEF Zeile
<1>6. StempelHeisstGemailt'
  BY <1>1, <1>5 DEF IInv, ZeilenStimmen, StempelHeisstGemailt, Geaendert, Gewarnt, Gebeten
<1>7. (EineFrageJeAnsetzung /\ EinOffener /\ ErinnertStimmt)'
  BY <1>1 DEF IInv, ZeilenStimmen, EineFrageJeAnsetzung, Da, EinOffener, Offen, ErinnertStimmt
<1>8. OffeneGezaehlt'
  BY <1>1, <1>5 DEF IInv, ZeilenStimmen, OffeneGezaehlt, AlleGezaehlt, HaeltHinweis, Gezaehlt, Offen
<1>9. Leer(pass') /\ pass'.schritt = "ruht"
  BY <1>1 DEF IInv, PassStimmt, Schritte
<1>10. PassStimmt'
  BY <1>9, LeererPass
<1> QED BY <1>4, <1>6, <1>7, <1>8, <1>10 DEF IInv, ZeilenStimmen

\* Where nothing but the fixture, the ban list and what a history may hold moves, nothing
\* the rows or the pass say does.
LEMMA LigaBewegt ==
  ASSUME IInv, vorrat' \in Vorrat, spiel' \in [slot : Slots, ab : BOOLEAN], gesperrt' \subseteq Postfaecher,
         UNCHANGED <<heute, zeile, pass, gebeten, gewarnt, erinnert, abgetan, entledigt>>
  PROVE  IInv'
<1>1. TypeOK'
  BY Typ DEF IInv, TypeOK, Zeile, Pass, Vorrat
<1>2. (StempelHeisstGemailt /\ EineFrageJeAnsetzung /\ EinOffener /\ ErinnertStimmt)'
  BY DEF IInv, ZeilenStimmen, StempelHeisstGemailt, Geaendert, Gewarnt, Gebeten, EineFrageJeAnsetzung, Da,
         EinOffener, Offen, ErinnertStimmt
<1>3. OffeneGezaehlt'
  BY DEF IInv, ZeilenStimmen, OffeneGezaehlt, AlleGezaehlt, HaeltHinweis, Gezaehlt, Offen
<1>4. PassStimmt'
  BY PassBleibt
<1> QED BY <1>1, <1>2, <1>3, <1>4 DEF IInv, ZeilenStimmen

LEMMA EingriffStimmt == ASSUME IInv, NEW s \in [slot : Slots, ab : BOOLEAN], Eingriff(s) PROVE IInv'
<1>1. /\ spiel' = s /\ vorrat' = [vorrat EXCEPT !.eingriffe = @ - 1] /\ vorrat.eingriffe > 0
      /\ UNCHANGED <<heute, gesperrt, zeile, pass, gebeten, gewarnt, erinnert, abgetan, entledigt>>
  BY DEF Eingriff, Post
<1>2. vorrat' \in Vorrat
  <2>1. vorrat \in Vorrat /\ vorrat.eingriffe - 1 \in Nat
    BY <1>1, Typ DEF IInv, Vorrat
  <2> QED BY <1>1, <2>1 DEF Vorrat
<1> QED BY <1>1, <1>2, LigaBewegt, Typ DEF IInv

LEMMA SperrenStimmt == ASSUME IInv, NEW p \in Postfaecher, Sperren(p) PROVE IInv'
<1>1. /\ vorrat' = [vorrat EXCEPT !.sperren = @ - 1] /\ vorrat.sperren > 0
      /\ gesperrt' = gesperrt \ {p} \/ gesperrt' = gesperrt \cup {p}
      /\ UNCHANGED <<heute, spiel, zeile, pass, gebeten, gewarnt, erinnert, abgetan, entledigt>>
  BY DEF Sperren, Post
<1>2. vorrat' \in Vorrat
  <2>1. vorrat \in Vorrat /\ vorrat.sperren - 1 \in Nat
    BY <1>1, Typ DEF IInv, Vorrat
  <2> QED BY <1>1, <2>1 DEF Vorrat
<1> QED BY <1>1, <1>2, LigaBewegt, Typ DEF IInv

LEMMA AntwortenStimmt ==
  ASSUME IInv, NEW z \in Zeilen, NEW antwort \in {"zugesagt", "abgelehnt"}, Antworten(z, antwort)
  PROVE  IInv'
<1> DEFINE n == [zeile[z] EXCEPT !.antwort = antwort]
<1>1. /\ zeile' = [zeile EXCEPT ![z] = n]
      /\ vorrat' = [vorrat EXCEPT !.antworten = @ - 1] /\ vorrat.antworten > 0
      /\ UNCHANGED <<heute, spiel, gesperrt, pass, gebeten, gewarnt, erinnert, abgetan, entledigt>>
  BY DEF Antworten, Liga, Post
<1>2. zeile \in [Zeilen -> Zeile] /\ vorrat \in Vorrat
  BY Typ DEF IInv
<1>3. vorrat' \in Vorrat
  <2>1. vorrat.antworten - 1 \in Nat
    BY <1>1, <1>2 DEF Vorrat
  <2> QED BY <1>1, <1>2, <2>1 DEF Vorrat
<1>4. /\ n \in Zeile /\ n.da = zeile[z].da /\ n.slot = zeile[z].slot
      /\ n.angefragt = zeile[z].angefragt /\ n.erinnert = zeile[z].erinnert
      /\ n.grund = zeile[z].grund /\ n.mitteilung = zeile[z].mitteilung /\ n.versuche = zeile[z].versuche
  BY <1>2 DEF Zeile
<1> HIDE DEF n
<1>5. ASSUME NEW y \in Zeilen
      PROVE  /\ zeile'[y].da = zeile[y].da /\ zeile'[y].slot = zeile[y].slot
             /\ zeile'[y].angefragt = zeile[y].angefragt /\ zeile'[y].erinnert = zeile[y].erinnert
             /\ zeile'[y].grund = zeile[y].grund /\ zeile'[y].mitteilung = zeile[y].mitteilung
             /\ zeile'[y].versuche = zeile[y].versuche
  BY <1>1, <1>2, <1>4
<1>6. zeile' \in [Zeilen -> Zeile]
  BY <1>1, <1>2, <1>4
<1>7. TypeOK'
  BY <1>1, <1>3, <1>6, Typ DEF IInv, TypeOK, Zeile, Pass, Vorrat
<1>8. \A y \in Zeilen : Geaendert(y)' /\ ~zeile'[y].mitteilung => Gewarnt(y)' \/ Tag[zeile[y].slot] < heute
  BY <1>1, <1>5 DEF IInv, ZeilenStimmen, StempelHeisstGemailt, Geaendert, Gewarnt
<1>9. \A y \in Zeilen : HaeltHinweis(y)' => HaeltHinweis(y) /\ (Gezaehlt(y) => Gezaehlt(y)')
  BY <1>1, <1>5 DEF HaeltHinweis, Gezaehlt
<1>10. ZeilenStimmen'
  BY <1>1, <1>5, <1>8, <1>9, NurZeilen
<1>11. PassStimmt'
  BY <1>1, <1>5, PassBleibt
<1> QED BY <1>7, <1>10, <1>11 DEF IInv

LEMMA VerwerfenStimmt == ASSUME IInv, NEW z \in Zeilen, Verwerfen(z) PROVE IInv'
<1> DEFINE n == [zeile[z] EXCEPT !.grund = "verworfen", !.mitteilung = _notice_to_come(z, "verworfen"),
                                 !.versuche = 0]
<1>1. /\ zeile' = [zeile EXCEPT ![z] = n] /\ zeile[z].grund = "offen"
      /\ UNCHANGED <<heute, spiel, gesperrt, pass, gebeten, gewarnt, erinnert, abgetan, entledigt>>
  BY DEF Verwerfen, Offen, Liga, Post
<1>2. zeile \in [Zeilen -> Zeile] /\ 0 \in 0..MITTEILUNG_VERSUCHE_HOECHSTENS
  BY Typ, ZahlenAssumption DEF IInv
<1>3. vorrat' \in Vorrat
  BY VorratBleibt DEF IInv, Verwerfen
<1>4. _notice_to_come(z, "verworfen") \in BOOLEAN
  BY Zenon DEF _notice_to_come
<1>5. /\ n \in Zeile /\ n.da = zeile[z].da /\ n.slot = zeile[z].slot
      /\ n.angefragt = zeile[z].angefragt /\ n.erinnert = zeile[z].erinnert
      /\ n.grund = "verworfen"
  BY <1>2, <1>4 DEF Zeile, Gruende
<1> HIDE DEF n
<1>6. ASSUME NEW y \in Zeilen
      PROVE  /\ zeile'[y].da = zeile[y].da /\ zeile'[y].slot = zeile[y].slot
             /\ zeile'[y].angefragt = zeile[y].angefragt /\ zeile'[y].erinnert = zeile[y].erinnert
             /\ \/ zeile[y].grund = "offen" /\ zeile'[y].grund = "verworfen"
                \/ /\ zeile'[y].grund = zeile[y].grund /\ zeile'[y].mitteilung = zeile[y].mitteilung
                   /\ zeile'[y].versuche = zeile[y].versuche
  BY <1>1, <1>2, <1>5
<1>7. zeile' \in [Zeilen -> Zeile]
  BY <1>1, <1>2, <1>5
<1>8. TypeOK'
  BY <1>1, <1>3, <1>7, Typ DEF IInv, TypeOK, Zeile, Pass, Vorrat
<1>9. \A y \in Zeilen : Geaendert(y)' /\ ~zeile'[y].mitteilung => Gewarnt(y)' \/ Tag[zeile[y].slot] < heute
  BY <1>1, <1>6 DEF IInv, ZeilenStimmen, StempelHeisstGemailt, Geaendert, Gewarnt
<1>10. \A y \in Zeilen : HaeltHinweis(y)' => HaeltHinweis(y) /\ (Gezaehlt(y) => Gezaehlt(y)')
  BY <1>1, <1>6 DEF HaeltHinweis, Gezaehlt
<1>11. ZeilenStimmen'
  BY <1>1, <1>6, <1>9, <1>10, NurZeilen
<1>12. PassStimmt'
  BY <1>1, <1>6, PassBleibt
<1> QED BY <1>8, <1>11, <1>12 DEF IInv

-----------------------------------------------------------------------------
(* The theorems. *)

LEMMA SchrittStimmt == IInv /\ [Next]_vars => IInv'
<1> SUFFICES ASSUME IInv, [Next]_vars PROVE IInv'
  OBVIOUS
<1>1. CASE UNCHANGED vars
  BY <1>1, Typ, LigaBewegt DEF IInv, vars
<1>2. CASE runSpielSweep \/ close \/ tell \/ mint \/ remind \/ after_what_is_owed
  BY <1>2, runSpielSweepStimmt, closeStimmt, tellStimmt, mintStimmt, remindStimmt, after_what_is_owedStimmt
<1>3. CASE Versenden
  BY <1>3, mailTeamHinweisStimmt, mailAnfrageStimmt, mailErinnerungStimmt, HinweiseFertigStimmt,
     ErinnerungenFertigStimmt, AnfragenFertigStimmt DEF Versenden
<1>4. CASE postMitgeteilt \/ postAngefragt
  BY <1>4, postMitgeteiltStimmt, postAngefragtStimmt
<1>5. CASE Absagen \/ \E slot \in Slots : Verlegen(slot)
  <2>1. spiel \in [slot : Slots, ab : BOOLEAN]
    BY Typ DEF IInv
  <2>2. [spiel EXCEPT !.ab = ~@] \in [slot : Slots, ab : BOOLEAN]
    BY <2>1
  <2>3. \A slot \in Slots : [spiel EXCEPT !.slot = slot] \in [slot : Slots, ab : BOOLEAN]
    BY <2>1
  <2> QED BY <1>5, <2>2, <2>3, EingriffStimmt DEF Absagen, Verlegen
<1>6. CASE \E p \in Postfaecher : Sperren(p)
  BY <1>6, SperrenStimmt
<1>7. CASE \E z \in Zeilen : Verwerfen(z) \/ \E antwort \in {"zugesagt", "abgelehnt"} : Antworten(z, antwort)
  BY <1>7, VerwerfenStimmt, AntwortenStimmt
<1>8. CASE Neustart \/ NeuerTag
  BY <1>8, NeustartStimmt, NeuerTagStimmt
<1> QED BY <1>1, <1>2, <1>3, <1>4, <1>5, <1>6, <1>7, <1>8 DEF Next, Schritt

LEMMA Invariante == Spec => []IInv
BY AmAnfang, SchrittStimmt, PTL DEF Spec

\* Rows and the pass keep their shapes, and no notice is tried more often than it may be
\* (services.py, sweep.ts).
THEOREM Typkorrekt == Spec => []TypeOK
BY Invariante, PTL DEF IInv

\* For any slots, days and mailboxes, whatever mailbox is barred and whatever step or send
\* fails, a stamp says its message went, or ended barred or filed where nothing mails: a send
\* that failed stamps nothing, and no notice of a move to come is dropped by it (sweep.ts,
\* sweep_router.py).
THEOREM GestempeltHeisstGemailt == Spec => []StempelHeisstGemailt
BY Invariante, PTL DEF IInv, ZeilenStimmen

\* However often the pass is repeated behind a lost answer, a club holds one question about
\* a slot, and hears of it once a day (services.py, sweep_router.py).
THEOREM KeineFrageDoppelt == Spec => []NichtsDoppelt
<1>1. IInv => NichtsDoppelt
  <2> SUFFICES ASSUME IInv PROVE NichtsDoppelt
    OBVIOUS
  <2>1. erinnert \in [Zeilen -> 0..2]
    BY Typ DEF IInv
  <2>2. EineErinnerungAmTag
    BY <2>1 DEF IInv, ZeilenStimmen, ErinnertStimmt, EineErinnerungAmTag
  <2> QED BY <2>2 DEF IInv, ZeilenStimmen, NichtsDoppelt
<1> QED BY <1>1, Invariante, PTL

\* A fresh request never overtakes the notice that voids the one before it, for any number
\* of moves, mailboxes, bans and failed sends, but one an earlier pass tried and this pass's
\* answer leaves out (sweep.ts, sweep_router.py).
THEOREM HinweisZuerst == Spec => HinweisVorDerNeuenAnfrage
<1> DEFINE A == \A z \in Zeilen, p \in Postfaecher : <<z, p>> \in gebeten' \ gebeten =>
                  \A y \in Zeilen : Ueberholt(y) /\ zeile[y].slot # zeile[z].slot => Gewarnt(y) \/ Uebergangen(y)
<1>1. ASSUME IInv, NEW z \in Zeilen, Anfrage(z)
      PROVE  A
  <2>1. PICK ausgang \in Ausgehend(Empfaenger(z)) : \E an \in Angekommen(Empfaenger(z), ausgang) :
          mailAnfrage(z, ausgang, an)
    BY <1>1 DEF Anfrage
  <2>2. PICK an \in Angekommen(Empfaenger(z), ausgang) : mailAnfrage(z, ausgang, an)
    BY <2>1
  <2>3. /\ gebeten' = gebeten \cup ({z} \X an)
        /\ pass.schritt = "anfragen" /\ Empfaenger(z) # {} /\ Empfaenger(z) \cap pass.ungewarnt = {}
    BY <2>2 DEF mailAnfrage, wartet
  <2>4. PICK q \in Postfaecher : <<z, q>> \in pass.anfragen /\ q \notin pass.ungewarnt
    BY <2>3 DEF Empfaenger
  <2>5. Fragbar(z) /\ pass.ungewarnt # Postfaecher /\ pass.hinweise = {} /\ pass.aufgegeben = {}
    <3>1. Fragbar(<<z, q>>[1])
      BY <1>1, <2>4 DEF IInv, PassStimmt, AnfragenStimmen
    <3> QED BY <1>1, <2>3, <2>4, <3>1 DEF IInv, PassStimmt, Schritte
  <2>6. ASSUME NEW y \in Zeilen, Ueberholt(y), zeile[y].slot # zeile[z].slot
        PROVE  Gewarnt(y) \/ Uebergangen(y)
    <3>1. ~Offen(y)
      BY <2>5, <2>6 DEF Fragbar
    <3>2. Geaendert(y) /\ ~(Tag[zeile[y].slot] < heute)
      <4>1. Tag[zeile[y].slot] \in Int /\ heute \in Int
        BY <1>1, Typ, SlotAssumption DEF IInv, Zeile
      <4> QED BY <2>6, <3>1, <4>1 DEF Ueberholt, Offen, Geaendert
    <3>3. HinweisUnterwegs(y)
      BY <1>1, <2>3, <3>2 DEF IInv, PassStimmt, HinweiseStimmen
    <3>4. CASE Gewarnt(y)
      BY <3>4
    <3>5. CASE zeile[y].mitteilung /\ y \notin pass.angekuendigt
      <4>1. HaeltHinweis(y)
        BY <3>2, <3>5 DEF HaeltHinweis, Geaendert
      <4>2. Gezaehlt(y)
        BY <2>5, <2>6, <4>1 DEF Fragbar, AlleGezaehlt
      <4> QED BY <3>2, <3>5, <4>2 DEF Gezaehlt, Uebergangen
    <3> QED BY <2>5, <3>2, <3>3, <3>4, <3>5 DEF HinweisUnterwegs
  <2>7. ASSUME NEW x \in Zeilen, NEW p \in Postfaecher, <<x, p>> \in gebeten' \ gebeten
        PROVE  x = z
    BY <2>3, <2>7
  <2> QED BY <2>6, <2>7
<1>2. ASSUME IInv, [Next]_vars PROVE A
  <2>1. CASE gebeten' = gebeten
    BY <2>1
  <2>2. CASE \E z \in Zeilen : Anfrage(z)
    <3> HIDE DEF A
    <3> QED BY <1>1, <1>2, <2>2
  <2>3. gebeten' = gebeten \/ \E z \in Zeilen : Anfrage(z)
    <3>1. CASE Versenden
      BY <3>1 DEF Versenden, Hinweis, mailTeamHinweis, mailErinnerung, HinweiseFertig, ErinnerungenFertig,
                  AnfragenFertig, Post
    <3>2. CASE UNCHANGED vars \/ (Next /\ ~Versenden)
      BY <3>2 DEF vars, Next, Schritt, runSpielSweep, close, tell, mint, remind, after_what_is_owed,
                  postMitgeteilt, postAngefragt, Neustart,
                  NeuerTag, Absagen, Verlegen, Eingriff, Sperren, Verwerfen, Antworten, Post
    <3> QED BY <1>2, <3>1, <3>2
  <2> HIDE DEF A
  <2> QED BY <2>1, <2>2, <2>3
<1>3. HinweisVorDerNeuenAnfrage <=> [][A]_vars
  BY DEF HinweisVorDerNeuenAnfrage
<1> HIDE DEF A
<1>4. IInv /\ [Next]_vars => [A]_vars
  BY <1>2
<1> QED BY <1>3, <1>4, Invariante, PTL DEF Spec

=============================================================================
