------------------------------ MODULE Turnierbaum ------------------------------
(***************************************************************************)
(* One season's results and its bracket: a save of a fixture applies its   *)
(* payload, releases sides the round holds twice, resolves EVERY knockout  *)
(* slot anew from the group tables and the earlier rounds, and reports     *)
(* what an undo needs; the undo replays that report in one transaction.    *)
(* Source: fl_backend/app/api/spiele (admin_router.py _write_spiel_data,   *)
(* crud.py, services.py) and the standings of api/teams/services.py.       *)
(*                                                                         *)
(* Data: a win is 1:0 and a draw 0:0, three points and one; groups are so   *)
(* small that their standing is decided exactly.  A result is its winner's *)
(* name, a shoot-out or a forfeit being a win like any other.  Bookings,   *)
(* dates and exits from the season are left out, and no request re-fields  *)
(* a group fixture.                                                        *)
(***************************************************************************)
EXTENDS Integers, FiniteSets, Sequences, Transaktion

CONSTANTS
  Akteure,      \* concurrent requests
  Gruppen,      \* the clubs of each group, by group name
  Runde,        \* PHASE_RANK of each knockout fixture, by spiel_nr
  Verdrahtung,  \* team1_quelle and team2_quelle as draw_spielplan wires them
  Leer,         \* no club on a side
  Ohne,         \* no quelle on a side: an admin sets it
  tiebreak_order,  \* of FLSaisonRules: which criterion leads between level clubs
  Betriebe      \* bound: what the requests of one season may do, one of these:
                \* `zugleich`, whether they overlap (one client acts, if
                \* not), `paarungen`, the group fixtures they save, `ereignisse` they record beside wins,
                \* `handgriffe`, the knockout fixtures whose sides they edit, and
                \* `ruecknahme`, whether a response is kept for an undo; and the
                \* group fixtures called off before, `abgesagt`

Nrn == DOMAIN Runde
Teams == UNION {Gruppen[g] : g \in DOMAIN Gruppen}
Begegnungen == [g \in DOMAIN Gruppen |-> {p \in SUBSET Gruppen[g] : Cardinality(p) = 2}]
Paarungen == UNION {Begegnungen[g] : g \in DOMAIN Gruppen}
Seiten == {1, 2}

\* FLSpielQuelle: a placing of a group, or who won or lost an earlier match.
Platzquellen == [art : {"gruppe"}, gruppe : DOMAIN Gruppen, platz : Nat \ {0}]
Spielquellen == [art : {"spiel"}, nr : Nrn, ausgang : {"sieger", "verlierer"}]

\* A club enters one group.  CERTAINTY_FIXTURE_LIMIT: among four clubs every
\* ending is walked.
ASSUME GruppenAssumption ==
  /\ \A g \in DOMAIN Gruppen : IsFiniteSet(Gruppen[g]) /\ Cardinality(Gruppen[g]) \in 2 .. 4
  /\ \A g, h \in DOMAIN Gruppen : g # h => Gruppen[g] \cap Gruppen[h] = {}
\* draw_spielplan: fixtures are numbered through in playing order, and a slot
\* names, in the opening round a placing and behind it an outcome of the round
\* drawn before, that no other slot names.
ASSUME RundeAssumption ==
  /\ Nrn \subseteq Nat /\ IsFiniteSet(Nrn) /\ Runde \in [Nrn -> Nat]
  /\ \A k, l \in Nrn : k < l => Runde[k] <= Runde[l]
ASSUME VerdrahtungAssumption ==
  /\ Verdrahtung \in [Nrn -> [Seiten -> {Ohne} \cup Platzquellen \cup Spielquellen]]
  /\ \A k \in Nrn : \A i \in Seiten :
       /\ Verdrahtung[k][i] \in Spielquellen => Runde[Verdrahtung[k][i].nr] < Runde[k]
       /\ Verdrahtung[k][i] \in Platzquellen => \A l \in Nrn : Runde[k] <= Runde[l]
       /\ \A j \in Seiten : Verdrahtung[k][i] \in Spielquellen /\ Verdrahtung[k][j] \in Spielquellen
            => Runde[Verdrahtung[k][i].nr] = Runde[Verdrahtung[k][j].nr]
  /\ \A x, y \in Nrn \X Seiten :
       x # y /\ Verdrahtung[x[1]][x[2]] # Ohne => Verdrahtung[x[1]][x[2]] # Verdrahtung[y[1]][y[2]]
ASSUME RegelAssumption == tiebreak_order \in {"tordifferenz", "direkter_vergleich"}
ASSUME NamenAssumption ==
  /\ {Leer, "offen", "abgesagt", "remis"} \cap Teams = {}
  /\ Ohne \notin Platzquellen \cup Spielquellen
  /\ Leer \notin {Ohne} \cup Platzquellen \cup Spielquellen
ASSUME BoundsAssumption ==
  Betriebe \subseteq [zugleich : BOOLEAN, paarungen : SUBSET Paarungen, abgesagt : SUBSET Paarungen,
                      ereignisse : SUBSET {"abgesagt", "remis"}, handgriffe : SUBSET Nrn,
                      ruecknahme : BOOLEAN]

VARIABLES
  gruppe,  \* spiele of the group phase, by the pair of clubs: their result
  ko,      \* spiele of the knockout rounds, by spiel_nr
  beleg,   \* prior_paarungen of each actor's last save, and (history, for
           \* the properties) the season as that save found and left it
  betrieb, \* of Betriebe, for the whole history
  tx

daten == <<gruppe, ko, beleg, betrieb>>
vars == <<daten, tx>>

\* The season as a transaction reads and rewrites it.
Lage == [gruppe |-> gruppe, ko |-> ko]

-----------------------------------------------------------------------------
\* A fixture's event: "offen", "abgesagt" (SONDEREREIGNIS_WITHOUT_A_RESULT),
\* "remis", or the club that won.
Staende == {"offen", "abgesagt", "remis"} \cup Teams

HatErgebnis(st) == st \notin {"offen", "abgesagt"}

-----------------------------------------------------------------------------
\* Standings: api/teams/services.py _decide_one_gruppe, exact below its
\* CERTAINTY_FIXTURE_LIMIT.

OffenePaarungen(gr, g) == {p \in Begegnungen[g] : gr[p] = "offen"}

\* _endings: either club wins, a draw, or a call-off.
Endungen(gr, g) ==
  LET offen == OffenePaarungen(gr, g) IN
  {[p \in Begegnungen[g] |-> IF p \in offen THEN e[p] ELSE gr[p]] :
     e \in {f \in [offen -> Gruppen[g] \cup {"remis", "abgesagt"}] :
              \A p \in offen : f[p] \in p \cup {"remis", "abgesagt"}}}

\* _may_hold_a_platz under one ending, and as things stand.
Platzierbar(e, g) == {t \in Gruppen[g] : \E p \in Begegnungen[g] : t \in p /\ e[p] # "abgesagt"}

\* A club's figures over its meetings with the clubs of S: all of its group,
\* or, for _head_to_head_table, those it is level with.
Siege(e, g, S, t) == Cardinality({p \in Begegnungen[g] : p \subseteq S /\ t \in p /\ e[p] = t})
Unentschieden(e, g, S, t) == Cardinality({p \in Begegnungen[g] : p \subseteq S /\ t \in p /\ e[p] = "remis"})
Niederlagen(e, g, S, t) == Cardinality({p \in Begegnungen[g] : p \subseteq S /\ t \in p /\ e[p] \in p \ {t}})

Punkte(e, g, S, t) == 3 * Siege(e, g, S, t) + Unentschieden(e, g, S, t)

\* _goal_key: goals for less goals against, then goals for.
Torschluessel(e, g, S, t) == <<Siege(e, g, S, t) - Niederlagen(e, g, S, t), Siege(e, g, S, t)>>

Vergleich(e, g, S, t) == <<Punkte(e, g, S, t)>> \o Torschluessel(e, g, S, t)

\* every_pair_met, of those among S that can hold a placing.
AlleTrafenSich(e, g, S) ==
  \A t, u \in S \cap Platzierbar(e, g) : t # u => HatErgebnis(e[{t, u}])

\* _break_tie: what ranks the club t of a band.  The mini-table leads where
\* the rules say so and it can rank the band; else the goals do, and the
\* mini-table of those still level follows where it can rank them.
Rang(e, g, band, t) ==
  LET tore(v) == Torschluessel(e, g, Gruppen[g], v)
      gleichauf == {v \in band : tore(v) = tore(t)}
  IN IF tiebreak_order = "direkter_vergleich" /\ AlleTrafenSich(e, g, band)
     THEN Vergleich(e, g, band, t) \o tore(t)
     ELSE tore(t) \o (IF AlleTrafenSich(e, g, gleichauf) THEN Vergleich(e, g, gleichauf, t)
                       ELSE <<0, 0, 0>>)

\* _grouped, in descending order: the first entry that differs decides.
Hoeher(a, b) == \E i \in DOMAIN a : a[i] > b[i] /\ \A j \in 1 .. i - 1 : a[j] = b[j]

\* _tiers: more points, or level and ranked before.  A band with a fixture
\* left stays whole; in another, what the ending e says is on record in gr.
Vor(gr, e, g, t, u) ==
  LET punkte(v) == Punkte(e, g, Gruppen[g], v)
      band == {v \in Gruppen[g] : punkte(v) = punkte(t)}
  IN \/ punkte(t) > punkte(u)
     \/ /\ u \in band
        /\ \A p \in OffenePaarungen(gr, g) : p \cap band = {}
        /\ Hoeher(Rang(e, g, band, t), Rang(e, g, band, u))

\* _placings: a club counting among the placeable ones, level with none.
StehtAuf(gr, e, g, platz, t) ==
  LET andere == Platzierbar(e, g) \ {t} IN
  /\ t \in Platzierbar(e, g)
  /\ \A u \in andere : Vor(gr, e, g, t, u) \/ Vor(gr, e, g, u, t)
  /\ Cardinality({u \in andere : Vor(gr, e, g, u, t)}) = platz - 1

Einziger(S) == IF S = {} THEN Leer ELSE CHOOSE t \in S : TRUE

\* Variant: the table as it stands, whatever is still to play.
Platzierter_Vorlaeufig(gr, g, platz) ==
  Einziger({t \in Gruppen[g] : StehtAuf(gr, gr, g, platz, t)})

\* DecidedStanding.by_platz: the club no ending moves off that placing.
Platzierter(gr, g, platz) ==
  Einziger({t \in Gruppen[g] : \A e \in Endungen(gr, g) : StehtAuf(gr, e, g, platz, t)})

\* What a group can have on record, and build_decided_standings of each.
Ergebnisse(g) ==
  {e \in [Begegnungen[g] -> {"offen", "abgesagt", "remis"} \cup Gruppen[g]] :
     \A p \in Begegnungen[g] : e[p] \in {"offen", "abgesagt", "remis"} \cup p}

Entschieden ==
  [g \in DOMAIN Gruppen |->
     [e \in Ergebnisse(g) |->
        [platz \in 1 .. Cardinality(Platzierbar(e, g)) |-> Platzierter(e, g, platz)]]]

Abschluss(F, g) == Entschieden[g][[p \in Begegnungen[g] |-> F.gruppe[p]]]

-----------------------------------------------------------------------------
\* The bracket: services.py resolve_bracket.

\* _opening_round_rank
Eroeffnung == CHOOSE r \in {Runde[k] : k \in Nrn} : \A k \in Nrn : r <= Runde[k]

Quellen(k, b) == {b[k].quellen[i] : i \in Seiten} \ {Ohne}

\* _sources_feeding_two_fixtures
Geteilt(b) == {q \in UNION {Quellen(k, b) : k \in Nrn} :
                 Cardinality({k \in Nrn : q \in Quellen(k, b)}) > 1}

\* Whether the resolution maintains a slot: it has a source of its own, and
\* one that can answer (`eligible`).  A reference out of its round, to a
\* missing match or in a cycle is refused at the write (find_wiring_refusal).
Gepflegt(F, geteilt, q) ==
  /\ q # Ohne
  /\ q \notin geteilt
  /\ q.art = "gruppe" => q.platz \in DOMAIN Abschluss(F, q.gruppe)

\* Variant: a fixture with any result sends its winner on, a draw too.
Ausgang_OhneSieger(F, bewegt, q) ==
  LET quelle == F.ko[q.nr] IN
  IF q.nr \in bewegt \/ ~HatErgebnis(quelle.stand) THEN Leer
  ELSE IF q.ausgang = "sieger" THEN quelle.stand
  ELSE Einziger({quelle.seiten[i] : i \in Seiten} \ {quelle.stand})

AllesGepflegt(F) ==
  \A k \in Nrn : \A q \in Quellen(k, F.ko) : Gepflegt(F, Geteilt(F.ko), q)

\* _outcome_of, over the fixtures resolved so far: void for this pass where
\* the source's own sides have moved.
Ausgang(F, bewegt, q) ==
  LET quelle == F.ko[q.nr] IN
  IF q.nr \in bewegt \/ quelle.stand \notin Teams THEN Leer
  ELSE IF q.ausgang = "sieger" THEN quelle.stand
  ELSE Einziger({quelle.seiten[i] : i \in Seiten} \ {quelle.stand})

\* _occupant_of
Besetzung(F, geteilt, bewegt, q, gespeichert) ==
  IF ~Gepflegt(F, geteilt, q) THEN gespeichert
  ELSE IF q.art = "gruppe" THEN Abschluss(F, q.gruppe)[q.platz]
  ELSE Ausgang(F, bewegt, q)

\* Variant: the occupant is replaced and the result stays.
Entwertet_Nie(st) == st

\* What a rewritten side leaves of the event: voided_no_show, and no result.
Entwertet(st) == IF st = "abgesagt" THEN st ELSE "offen"

\* The members of S, in the order of vor.
Geordnet(S, vor(_, _)) ==
  LET n == Cardinality(S) IN
  CHOOSE s \in [1..n -> S] : \A i, j \in 1..n : i < j => vor(s[i], s[j])

\* Round by round, and within a round by spiel_nr.
Frueher(k, l) == Runde[k] < Runde[l] \/ (Runde[k] = Runde[l] /\ k < l)

Reihe == Geordnet(Nrn, Frueher)

\* One fixture of the pass, given its sides: unchanged where they stand or
\* would be one club, else the result goes with the sides.
Versetzt(r, k, neu) ==
  IF neu = r.lage.ko[k].seiten \/ (neu[1] = neu[2] /\ neu[1] # Leer) THEN r
  ELSE [lage |-> [r.lage EXCEPT !.ko[k] = [seiten |-> neu, quellen |-> @.quellen, stand |-> Entwertet(@.stand)]],
        bewegt |-> r.bewegt \cup {k}]

\* The memoised walk of _resolve_sides, which reaches every fixture after
\* those that feed it: the season with the first n fixtures resolved, and
\* which of them moved.
Aufgeloest(F) ==
  LET geteilt == Geteilt(F.ko)
      bis[n \in 0..Cardinality(Nrn)] ==
        IF n = 0 THEN [lage |-> F, bewegt |-> {}]
        ELSE LET k == Reihe[n]
                 r == bis[n - 1]
                 spiel == r.lage.ko[k]
             IN  Versetzt(r, k, [i \in Seiten |->
                   Besetzung(r.lage, geteilt, r.bewegt, spiel.quellen[i], spiel.seiten[i])])
  IN  bis

Aufloesung(F) == Aufgeloest(F)[Cardinality(Nrn)]

-----------------------------------------------------------------------------
\* The judgements of one save.

\* find_double_entries: the clubs standing twice in one round, by round.
Doppelte(b) ==
  {d \in {Runde[k] : k \in Nrn} \X Teams :
     Cardinality({x \in Nrn \X Seiten : Runde[x[1]] = d[1] /\ b[x[1]].seiten[x[2]] = d[2]}) > 1}

\* The sources a payload may newly name: an earlier match, or a placing in
\* the opening round; unused elsewhere, on the other side too.
Waehlbar(F, k, i, e, q) ==
  /\ IF q.art = "spiel" THEN Runde[q.nr] < Runde[k] ELSE Runde[k] = Eroeffnung
  /\ \A l \in Nrn \ {k} : q \notin Quellen(l, F.ko)
  /\ e.quellen[3 - i] # q

\* find_wiring_refusal: a maintained side is not set by hand either.
FehlverdrahtungFrei(F, k, e) ==
  \A i \in Seiten :
    LET q == e.quellen[i] IN
    q # Ohne => /\ q # F.ko[k].quellen[i] => Waehlbar(F, k, i, e, q)
                /\ e.seiten[i] = F.ko[k].seiten[i]

\* find_result_removal_refusal
NimmtKeinErgebnis(F, k, e) ==
  HatErgebnis(F.ko[k].stand) => \A i \in Seiten : F.ko[k].seiten[i] # Leer => e.seiten[i] # Leer

\* The other sides of this round that hold a club the payload fields.
Belegte(F, k, e) ==
  {x \in (Nrn \ {k}) \X Seiten :
     /\ Runde[x[1]] = Runde[k]
     /\ F.ko[x[1]].seiten[x[2]] # Leer
     /\ \E i \in Seiten : e.seiten[i] = F.ko[x[1]].seiten[x[2]]}

\* judge_spieltag_occupancy: REQ-SPIELTAG-001.
SpieltagFrei(F, k, e) ==
  /\ e.seiten[1] = e.seiten[2] => e.seiten[1] = Leer
  /\ \A x \in Belegte(F, k, e) : F.ko[x[1]].quellen[x[2]] = Ohne

\* release_spieltag_sides
Freigegeben(F, B) ==
  [F EXCEPT !.ko = [k \in Nrn |->
     IF \E x \in B : x[1] = k
     THEN [seiten |-> [i \in Seiten |-> IF <<k, i>> \in B THEN Leer ELSE F.ko[k].seiten[i]],
           quellen |-> F.ko[k].quellen, stand |-> Entwertet(F.ko[k].stand)]
     ELSE F.ko[k]]]

\* compose_result: an unresolved slot has nobody to score.
Gewertet(e) == IF HatErgebnis(e.stand) /\ Leer \in {e.seiten[i] : i \in Seiten} THEN "offen" ELSE e.stand

-----------------------------------------------------------------------------
\* One entry of _write_spiel_data over the season F: whether it is refused,
\* the season it leaves, the fixtures it writes, and its prior_paarungen.

\* Variant: the round is judged for the request's own sides only.
Nachrueckbar_Immer(F, A) == TRUE

\* find_advancement_occupancy_refusal: REQ-SPIELTAG-002.
Nachrueckbar(F, A) == Doppelte(A.lage.ko) \subseteq Doppelte(F.ko)

\* Variant: the resolution is read, and written by a later pass.
Geschrieben_OhneBaum(eigene, freie, A) == eigene \cup freie

\* Every document the pass writes: the saved fixture unless nothing of it
\* changed (I117), the released ones, the advanced ones.
Geschrieben(eigene, freie, A) == eigene \cup freie \cup {<<"ko", k>> : k \in A.bewegt}

\* _fields_this_write_replaced: an undo puts a source back only where the
\* save replaced it, `Leer` standing for "as stored".
ErsetzteQuellen(alt, neu) ==
  [i \in Seiten |-> IF alt.quellen[i] = neu.quellen[i] THEN Leer ELSE alt.quellen[i]]

KoEintrag(k, alt, neu) ==
  [nr |-> k, seiten |-> alt.seiten, stand |-> alt.stand, quellen |-> ErsetzteQuellen(alt, neu)]

\* The fixtures a save moved beside the one it names, in spiel_nr order.
Mitbewegte(F, bewegt) ==
  LET nrn == Geordnet(bewegt, <) IN
  [j \in DOMAIN nrn |-> KoEintrag(nrn[j], F.ko[nrn[j]], F.ko[nrn[j]])]

\* Variant: the named fixture trails the ones it feeds.
Bericht_Zuletzt(F, eintrag, bewegt) == Mitbewegte(F, bewegt) \o <<eintrag>>

\* report_prior_paarungen: the named fixture leads.
Bericht(F, eintrag, bewegt) == <<eintrag>> \o Mitbewegte(F, bewegt)

\* The save of `eintrag`'s fixture over F, applied and released as G, the
\* fixtures `frei` released, and resolved as A; `benannt` is the knockout
\* fixture the save names, in the bracket it may move itself.
Gespeichert(F, G, A, eigene, frei, benannt, eintrag) ==
  [erlaubt |-> Nachrueckbar(G, A),
   lage |-> A.lage,
   schreibt |-> Geschrieben(eigene, {<<"ko", l>> : l \in frei}, A),
   bericht |-> Bericht(F, eintrag, (frei \cup A.bewegt) \ benannt)]

Abgelehnt(F) == [erlaubt |-> FALSE, lage |-> F, schreibt |-> {}, bericht |-> <<>>]

\* A group fixture's save: its result, then the resolution.
GruppeGespeichert(F, p, st) ==
  LET G == [F EXCEPT !.gruppe[p] = st] IN
  Gespeichert(F, G, Aufloesung(G), IF F.gruppe[p] = st THEN {} ELSE {<<"gruppe", p>>}, {}, {},
              [paar |-> p, stand |-> F.gruppe[p]])

KoErlaubt(F, k, e) ==
  FehlverdrahtungFrei(F, k, e) /\ NimmtKeinErgebnis(F, k, e) /\ SpieltagFrei(F, k, e)

\* A knockout fixture's: judged, applied, released, resolved, in that order.
KoGespeichert(F, k, e) ==
  LET neu == [seiten |-> e.seiten, quellen |-> e.quellen, stand |-> Gewertet(e)]
      belegte == Belegte(F, k, e)
      G == Freigegeben([F EXCEPT !.ko[k] = neu], belegte)
  IN IF ~KoErlaubt(F, k, e) THEN Abgelehnt(F)
     ELSE Gespeichert(F, G, Aufloesung(G), IF neu = F.ko[k] THEN {} ELSE {<<"ko", k>>},
                      {x[1] : x \in belegte}, {k}, KoEintrag(k, F.ko[k], neu))

\* completed_with: the fields an undo's entry leaves out, off the document.
Vervollstaendigt(F, z) ==
  [seiten |-> z.seiten, stand |-> z.stand,
   quellen |-> [i \in Seiten |-> IF z.quellen[i] = Leer THEN F.ko[z.nr].quellen[i]
                                 ELSE z.quellen[i]]]

\* One more entry, over what the ones before it left.
Nachgespielt(r, s) ==
  [erlaubt |-> r.erlaubt /\ s.erlaubt, lage |-> s.lage, schreibt |-> r.schreibt \cup s.schreibt]

\* PATCH /spiele/paarungen: every entry in its order, all of it or nothing.
Nachspiel(F, eintraege) ==
  LET bis[n \in 0..Len(eintraege)] ==
        IF n = 0 THEN [erlaubt |-> TRUE, lage |-> F, schreibt |-> {}]
        ELSE LET r == bis[n - 1]
                 z == eintraege[n]
             IN  Nachgespielt(r, IF "paar" \in DOMAIN z THEN GruppeGespeichert(r.lage, z.paar, z.stand)
                                 ELSE KoGespeichert(r.lage, z.nr, Vervollstaendigt(r.lage, z)))
  IN  bis

Zurueckgenommen(F, eintraege) == Nachspiel(F, eintraege)[Len(eintraege)]

-----------------------------------------------------------------------------
KeinBeleg == [eintraege |-> <<>>, vorher |-> <<>>, nachher |-> <<>>]

\* The callback has judged and composed: it holds the documents it wrote.
Beginnt(a, art, r) ==
  /\ tx[a] = Frei
  /\ betrieb.zugleich \/ \A b \in Akteure \ {a} : tx[b] = Frei /\ beleg[b] = KeinBeleg
  /\ r.erlaubt /\ r.schreibt # {}
  /\ tx' = [tx EXCEPT ![a] =
       Bereit([art |-> art,
               gruppe |-> [p \in {q \in Paarungen : <<"gruppe", q>> \in r.schreibt} |-> r.lage.gruppe[p]],
               ko |-> [k \in {l \in Nrn : <<"ko", l>> \in r.schreibt} |-> r.lage.ko[k]],
               beleg |-> IF betrieb.ruecknahme /\ art = "speichern"
                         THEN [eintraege |-> r.bericht, vorher |-> Lage, nachher |-> r.lage]
                         ELSE KeinBeleg],
              r.schreibt)]
  /\ UNCHANGED daten

BeginneGruppenspiel(a, p, st) == Beginnt(a, "speichern", GruppeGespeichert(Lage, p, st))

BeginneKoSpiel(a, k, e) == Beginnt(a, "speichern", KoGespeichert(Lage, k, e))

BeginneRuecknahme(a) ==
  /\ beleg[a].eintraege # <<>>
  /\ Beginnt(a, "zuruecknehmen", Zurueckgenommen(Lage, beleg[a].eintraege))

Schreibe(a) ==
  LET op == tx[a].op IN
  /\ tx[a].phase = "bereit"
  /\ gruppe' = [p \in Paarungen |-> IF p \in DOMAIN op.gruppe THEN op.gruppe[p] ELSE gruppe[p]]
  /\ ko' = [k \in Nrn |-> IF k \in DOMAIN op.ko THEN op.ko[k] ELSE ko[k]]
  /\ beleg' = [beleg EXCEPT ![a] = op.beleg]
  /\ tx' = Festgeschrieben(tx, a)
  /\ UNCHANGED betrieb

Abbruch(a) ==
  /\ tx[a] # Frei
  /\ tx' = [tx EXCEPT ![a] = Frei]
  /\ UNCHANGED daten

\* What a request for fixture k can carry: its result; or one side with its
\* club and its source, the result beside it.
Quellenwahl(k) ==
  {Ohne} \cup {Verdrahtung[l][i] : l \in Nrn, i \in Seiten}
    \cup [art : {"spiel"}, nr : Nrn \ {k}, ausgang : {"sieger", "verlierer"}]

Moegliche(seiten) == {"offen"} \cup betrieb.ereignisse \cup ({seiten[i] : i \in Seiten} \ {Leer})

Anfragen(k) ==
  LET alt == ko[k] IN
  {[alt EXCEPT !.stand = st] : st \in Moegliche(alt.seiten)}
    \cup (IF k \notin betrieb.handgriffe THEN {}
          ELSE UNION {
            LET s == [alt.seiten EXCEPT ![i] = t] IN
            {[seiten |-> s, quellen |-> [alt.quellen EXCEPT ![i] = q], stand |-> st] :
               st \in Moegliche(s)}
            : i \in Seiten, t \in (UNION betrieb.paarungen) \cup {Leer}, q \in Quellenwahl(k)})

\* As the draw leaves the season, a club's fixtures called off that never came.
Init ==
  /\ betrieb \in Betriebe
  /\ gruppe = [p \in Paarungen |-> IF p \in betrieb.abgesagt THEN "abgesagt" ELSE "offen"]
  /\ ko = [k \in Nrn |-> [seiten |-> [i \in Seiten |-> Leer],
                          quellen |-> Verdrahtung[k], stand |-> "offen"]]
  /\ beleg = [a \in Akteure |-> KeinBeleg]
  /\ tx = [a \in Akteure |-> Frei]

Beginne(a) ==
  \/ \E p \in betrieb.paarungen : \E st \in {"offen"} \cup betrieb.ereignisse \cup p :
       BeginneGruppenspiel(a, p, st)
  \/ \E k \in Nrn : \E e \in Anfragen(k) : BeginneKoSpiel(a, k, e)
  \/ BeginneRuecknahme(a)

Next == \E a \in Akteure : Beginne(a) \/ Schreibe(a) \/ Abbruch(a)

Spec == Init /\ [][Next]_vars
-----------------------------------------------------------------------------
\* Properties.

\* Results and bracket fixtures have their shapes, and a source names a
\* placing or an earlier match of this season.
TypeOK ==
  /\ gruppe \in [Paarungen -> Staende]
  /\ \A k \in Nrn :
       /\ ko[k].stand \in Staende
       /\ \A i \in Seiten : /\ ko[k].seiten[i] \in Teams \cup {Leer}
                            /\ ko[k].quellen[i] \in Quellenwahl(k)
  /\ \A a \in Akteure : tx[a].phase \in {"frei", "bereit"}

\* I23: every maintained slot holds who its source decides, and a second
\* resolution writes nothing: after a corrected group result as after a
\* rewired or released side, through every later round.
BaumIstAufgeloest == Aufloesung(Lage).bewegt = {}

\* I25b: a result on the bracket was played by the two clubs standing there
\* now.  Whoever the resolution or a release replaced took it along.
ErgebnisGehoertDenSeiten ==
  \A k \in Nrn :
    HatErgebnis(ko[k].stand) =>
      LET besetzt == {ko[k].seiten[i] : i \in Seiten} IN
      /\ Leer \notin besetzt
      /\ ko[k].stand \in besetzt \cup {"remis"}

\* I30: no club stands twice in one round, whether an admin set it, a source
\* brought it there, or both at once.
NiemandSpieltZweimal == Doppelte(ko) = {}

\* I27: no placing and no outcome feeds two slots of the season.
QuelleSpeistEinmal ==
  \A x, y \in Nrn \X Seiten :
    x # y /\ ko[x[1]].quellen[x[2]] # Ohne
      => ko[x[1]].quellen[x[2]] # ko[y[1]].quellen[y[2]]

\* The bracket's clubs are drawn once each: no club stands twice in a round,
\* and no placing or outcome is handed on twice.
JederStehtEinmal == NiemandSpieltZweimal /\ QuelleSpeistEinmal

\* DecidedStanding: a placing handed on is one no ending can take away, so a
\* save that only records group fixtures nobody had decided never moves a
\* club out of a slot a placing filled.
EingesetztesStehtFest ==
  [][gruppe' # gruppe /\ (\A p \in Paarungen : gruppe'[p] # gruppe[p] => gruppe[p] = "offen")
       => \A k \in Nrn : \A i \in Seiten :
            LET q == ko[k].quellen[i]
                vomPlatz == q # Ohne /\ ko'[k].quellen[i] = q /\ q.art = "gruppe"
            IN vomPlatz /\ ko[k].seiten[i] # Leer
                 => ko'[k].seiten[i] = ko[k].seiten[i]]_vars

\* A fixture fed by two others is fed from one round, as draw_spielplan wires it.
AusEinerRunde(b) ==
  \A k \in Nrn : \A i, j \in Seiten :
    b[k].quellen[i] \in Spielquellen /\ b[k].quellen[j] \in Spielquellen
      => Runde[b[k].quellen[i].nr] = Runde[b[k].quellen[j].nr]

NiemandVonHand(F) ==
  \A k \in Nrn : \A i \in Seiten : F.ko[k].quellen[i] = Ohne => F.ko[k].seiten[i] = Leer

\* The save behind a report moved no source, and no side is an admin's.
NurErgebnisse(b) ==
  /\ NiemandVonHand(b.vorher) /\ NiemandVonHand(b.nachher)
  /\ \A k \in Nrn : b.nachher.ko[k].quellen = b.vorher.ko[k].quellen

\* I215, I222, I223: as long as the season stands as the save left it, an
\* undo of the save that is accepted leaves the season the save found, clubs,
\* results, sources and every later round, hand-set sides included; and it is
\* accepted where the save recorded a result and that season's slots were all
\* maintained.  (A slot whose group could not produce its placing kept its
\* club then; find_wiring_refusal may refuse to put it back.)
RuecknahmeStelltHer ==
  \A a \in Akteure :
    LET b == beleg[a] IN
    tx[a] = Frei /\ b.eintraege # <<>> /\ Lage = b.nachher /\ AusEinerRunde(b.vorher.ko)
      => LET r == Zurueckgenommen(Lage, b.eintraege) IN
         /\ r.erlaubt => r.lage = b.vorher
         /\ AllesGepflegt(b.vorher) /\ NurErgebnisse(b) => r.erlaubt
=============================================================================
