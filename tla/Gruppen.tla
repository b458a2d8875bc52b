------------------------------- MODULE Gruppen -------------------------------
(***************************************************************************)
(* Who plays in ONE season, and in which group: clubs are entered, moved,  *)
(* withdrawn, swapped and replaced while the season's rules, its draw and  *)
(* its rollover go on beside them, and clubs leave the league and return.  *)
(* Source: fl_backend/app/api/teams (admin_router.py, crud.py,             *)
(* services.py), the swap, the draw and the rules patch of api/saisons,    *)
(* the entry half of an accepted application (api/bewerbungen).            *)
(*                                                                         *)
(* As in Saison, Beginne... reads a snapshot and judges it, Schreibe...    *)
(* commits.  A fixture is named by the two clubs its draw gave it: a name  *)
(* for its `_id`, which no later write changes.  Matchdays and dates are   *)
(* left out, so every fixture is read as undated (REQ-SWAP-006 counts      *)
(* such a one) and REQ-SWAP-005 has no bracket side to clash with.  A      *)
(* save that re-fields a side by hand is not modelled here.                *)
(***************************************************************************)
EXTENDS Naturals, FiniteSets, Transaktion

CONSTANTS
  Akteure,      \* concurrent requests
  Teams,        \* clubs of the league
  Regelwerke,   \* the shapes a rules edit or a draw can state
  Betriebe      \* bound: what the requests of one season ask for, one of these:
                \* `vorgaenge`, the kinds of operation, and `zugleich`, whether
                \* requests overlap

\* schemas.py TeamsPerGroup, NumberOfGroups.
ASSUME RegelwerkeAssumption ==
  Regelwerke # {} /\ Regelwerke \subseteq [gruppen : Nat \ {0}, plaetze : Nat \ {0, 1}]
\* A league has finitely many clubs.
ASSUME TeamsAssumption == IsFiniteSet(Teams)
ASSUME BetriebeAssumption == \A b \in Betriebe : DOMAIN b = {"vorgaenge", "zugleich"}

VARIABLES
  status,  \* of the season
  regeln,  \* number_of_groups and teams_per_group
  zeile,   \* saison_teams: the club's group, 0 for no row, and its austritt
  ruht,    \* teams.inactive_since: the clubs out of the league
  spiel,   \* spiele of the season, by fixture name; empty while undrawn
  betrieb, \* of Betriebe, for the whole history
  tx

daten == <<status, regeln, zeile, ruht, spiel, betrieb>>
vars == <<daten, tx>>

-----------------------------------------------------------------------------
SaisonDok == <<"saisons">>
TeamDok(t) == <<"teams", t>>
ZeileDok(t) == <<"saison_teams", t>>
SpielDok(k) == <<"spiele", k>>

\* The knockout match the groups play for; the draw leaves its sides empty.
Endspiel == {}

Staende == {"offen", "gespielt", "abgesagt"}

Angebotene(r) == 1 .. r.gruppen
Gemeldet(t) == zeile[t].gruppe # 0
Besetzung(g) == {t \in Teams : zeile[t].gruppe = g}

Paare(S) == {p \in SUBSET S : Cardinality(p) = 2}

\* spielplan.py draw_spielplan, as to who meets whom: every group's round
\* robin, over the rows it read.
Runden(r) == UNION {Paare(Besetzung(g)) : g \in Angebotene(r)}

SpieleVon(t) == {k \in DOMAIN spiel : t \in spiel[k].seiten}

\* services.py has_taken_place.  A fixture called off left no record.
HatStattgefunden(k) == spiel[k].stand = "gespielt"

\* holds_a_recorded_fact: a cancellation counts, a swapped side does not.
HaeltEintrag(k) == spiel[k].stand # "offen"

\* _planning_window_is_open.
Planungsfenster == status = "future" /\ \A k \in DOMAIN spiel : ~HaeltEintrag(k)

-----------------------------------------------------------------------------
\* post_saison_team: refuse_a_full_gruppe anchors the season and
\* pull_a_club_to_enter the club; the row's unique key stands for its id.
SchreibtEintritt(t) == {SaisonDok, TeamDok(t), ZeileDok(t)}

\* Variant: a group change takes no season write.
SchreibtWechsel_OhneSaison(t) == {ZeileDok(t)}

\* patch_saison_team, a group change.
SchreibtWechsel(t) == {SaisonDok, ZeileDok(t)}

\* patch_saison_team, an exit recorded or lifted.
SchreibtAustritt(t) == {ZeileDok(t)}

\* swap_gruppen: both rows, every fixture fielding either club; no season.
SchreibtTausch(t, u) ==
  {ZeileDok(t), ZeileDok(u)} \cup {SpielDok(k) : k \in SpieleVon(t) \cup SpieleVon(u)}

\* Variant: the row is handed over, the fixtures are renamed afterwards.
SchreibtErsatz_OhneSpiele(t, u) == {ZeileDok(t), ZeileDok(u), TeamDok(u)}

\* replace_saison_team: the row, which takes the incoming club's key, the
\* incoming club's anchor, the outgoing one's fixtures; no season.
SchreibtErsatz(t, u) ==
  {ZeileDok(t), ZeileDok(u), TeamDok(u)} \cup {SpielDok(k) : k \in SpieleVon(t)}

\* generate_spielplan and undraw_spielplan: the season and every row deleted.
\* A row inserted carries a new id, which no other transaction can hold.
SchreibtPlan == {SaisonDok} \cup {SpielDok(k) : k \in DOMAIN spiel}

-----------------------------------------------------------------------------
Beginnt(a, op, W) ==
  /\ op.art \in betrieb.vorgaenge
  /\ betrieb.zugleich \/ \A b \in Akteure : tx[b] = Frei
  /\ tx[a] = Frei
  /\ tx' = [tx EXCEPT ![a] = Bereit(op, W)]
  /\ UNCHANGED daten

Bringt(a, art) == tx[a].phase = "bereit" /\ tx[a].op.art = art
Schreibt(a) == tx' = Festgeschrieben(tx, a) /\ UNCHANGED betrieb

-----------------------------------------------------------------------------
\* find_entry_refusal: REQ-ENTER-001 to 003.  Rows with an exit count.
DarfInGruppe(st, g) ==
  /\ st = "future"
  /\ g \in Angebotene(regeln)
  /\ Cardinality(Besetzung(g)) < regeln.plaetze

\* POST /teams/{id}/saisons, and the acceptance of an application.
BeginneEintritt(a, t, g) ==
  /\ t \notin ruht
  /\ DarfInGruppe(status, g)
  /\ ~Gemeldet(t)
  /\ Beginnt(a, [art |-> "eintritt", t |-> t, g |-> g], SchreibtEintritt(t))

SchreibeEintritt(a) ==
  LET op == tx[a].op IN
  /\ Bringt(a, "eintritt")
  /\ zeile' = [zeile EXCEPT ![op.t] = [gruppe |-> op.g, austritt |-> FALSE]]
  /\ Schreibt(a)
  /\ UNCHANGED <<status, regeln, ruht, spiel>>

-----------------------------------------------------------------------------
\* PATCH /teams/{id}/saisons/{saison_id}.

\* find_gruppe_move_refusal: a club holding a fixture moves no more.
Gebunden(t) == SpieleVon(t) # {}

\* A group change: the status gate of an entry does not judge it, the caller
\* passing "future" in its place.
BeginneWechsel(a, t, g) ==
  /\ Gemeldet(t)
  /\ g # zeile[t].gruppe
  /\ ~Gebunden(t)
  /\ DarfInGruppe("future", g)
  /\ Beginnt(a, [art |-> "wechsel", t |-> t, g |-> g], SchreibtWechsel(t))

SchreibeWechsel(a) ==
  LET op == tx[a].op IN
  /\ Bringt(a, "wechsel")
  /\ zeile' = [zeile EXCEPT ![op.t].gruppe = op.g]
  /\ Schreibt(a)
  /\ UNCHANGED <<status, regeln, ruht, spiel>>

\* An exit, recorded or lifted.
BeginneAustritt(a, t) ==
  /\ Gemeldet(t)
  /\ Beginnt(a, [art |-> "austritt", t |-> t, wert |-> ~zeile[t].austritt],
             SchreibtAustritt(t))

SchreibeAustritt(a) ==
  LET op == tx[a].op IN
  /\ Bringt(a, "austritt")
  /\ zeile' = [zeile EXCEPT ![op.t].austritt = op.wert]
  /\ Schreibt(a)
  /\ UNCHANGED <<status, regeln, ruht, spiel>>

-----------------------------------------------------------------------------
\* Variant: two updates filtered on the club, the second matching what the
\* first has just written.
Getauscht_Nacheinander(seiten, t, u) ==
  IF t \in seiten \/ u \in seiten THEN (seiten \ {u}) \cup {t} ELSE seiten

\* _rewrite_gruppenphase_sides: each club's side to the other.
Getauscht(seiten, t, u) ==
  {IF x = t THEN u ELSE IF x = u THEN t ELSE x : x \in seiten}

\* _rewrite_the_outgoing_clubs_sides.
Ersetzt(seiten, t, u) == {IF x = t THEN u ELSE x : x \in seiten}

\* fixtures_newly_fielding_a_departed_club: a called-off fixture counts too,
\* the carve-out records_an_absence being a no-show's.
TrifftAusgetretene(t, u) ==
  \/ zeile[u].austritt /\ SpieleVon(t) # {}
  \/ zeile[t].austritt /\ SpieleVon(u) # {}

\* POST /saisons/{id}/gruppen/swap: find_gruppe_swap_refusal.
BeginneTausch(a, t, u) ==
  /\ t # u /\ Gemeldet(t) /\ Gemeldet(u)
  /\ zeile[t].gruppe # zeile[u].gruppe
  /\ status # "past"
  /\ Endspiel \in DOMAIN spiel => ~HatStattgefunden(Endspiel)
  /\ \A k \in SpieleVon(t) \cup SpieleVon(u) : ~HatStattgefunden(k)
  /\ ~TrifftAusgetretene(t, u)
  /\ Beginnt(a, [art |-> "tausch", t |-> t, u |-> u,
                 gt |-> zeile[u].gruppe, gu |-> zeile[t].gruppe,
                 seiten |-> [k \in SpieleVon(t) \cup SpieleVon(u) |->
                               Getauscht(spiel[k].seiten, t, u)]],
             SchreibtTausch(t, u))

\* The sides of exactly the fixtures the snapshot held.
Umbesetzt(op) ==
  [k \in DOMAIN spiel |-> IF k \in DOMAIN op.seiten
                          THEN [spiel[k] EXCEPT !.seiten = op.seiten[k]] ELSE spiel[k]]

SchreibeTausch(a) ==
  LET op == tx[a].op IN
  /\ Bringt(a, "tausch")
  /\ zeile' = [zeile EXCEPT ![op.t].gruppe = op.gt, ![op.u].gruppe = op.gu]
  /\ spiel' = Umbesetzt(op)
  /\ Schreibt(a)
  /\ UNCHANGED <<status, regeln, ruht>>

-----------------------------------------------------------------------------
\* POST /teams/{id}/saisons/{saison_id}/replace: find_replacement_refusal.

BeginneErsatz(a, t, u) ==
  /\ t # u /\ Gemeldet(t)
  /\ status # "past"
  /\ \A k \in SpieleVon(t) : ~HatStattgefunden(k)
  /\ u \notin ruht
  /\ ~Gemeldet(u)
  /\ Beginnt(a, [art |-> "ersatz", t |-> t, u |-> u, g |-> zeile[t].gruppe,
                 seiten |-> [k \in SpieleVon(t) |-> Ersetzt(spiel[k].seiten, t, u)]],
             SchreibtErsatz(t, u))

\* Variant: the outgoing club's row is deleted and another one inserted.
SchreibeErsatz_MitLoeschung(a) ==
  LET op == tx[a].op IN
  /\ Bringt(a, "ersatz")
  /\ zeile' = [t \in Teams \ {op.t} |->
                 IF t = op.u THEN [gruppe |-> op.g, austritt |-> FALSE] ELSE zeile[t]]
  /\ spiel' = Umbesetzt(op)
  /\ Schreibt(a)
  /\ UNCHANGED <<status, regeln, ruht>>

\* The row keeps its group and loses its exit with the outgoing club.
SchreibeErsatz(a) ==
  LET op == tx[a].op IN
  /\ Bringt(a, "ersatz")
  /\ zeile' = [zeile EXCEPT ![op.t] = [gruppe |-> 0, austritt |-> FALSE],
                            ![op.u] = [gruppe |-> op.g, austritt |-> FALSE]]
  /\ spiel' = Umbesetzt(op)
  /\ Schreibt(a)
  /\ UNCHANGED <<status, regeln, ruht>>

-----------------------------------------------------------------------------
\* DELETE /teams/{id} and POST /teams/{id}/reactivate: the club alone is
\* written.  find_retire_refusal reads the seasons of the club's rows.

BeginneRuhestand(a, t) ==
  /\ t \notin ruht
  /\ Gemeldet(t) => status = "past"
  /\ Beginnt(a, [art |-> "ruhestand", t |-> t], {TeamDok(t)})

SchreibeRuhestand(a) ==
  /\ Bringt(a, "ruhestand")
  /\ ruht' = ruht \cup {tx[a].op.t}
  /\ Schreibt(a)
  /\ UNCHANGED <<status, regeln, zeile, spiel>>

BeginneRueckkehr(a, t) ==
  /\ t \in ruht
  /\ Beginnt(a, [art |-> "rueckkehr", t |-> t], {TeamDok(t)})

SchreibeRueckkehr(a) ==
  /\ Bringt(a, "rueckkehr")
  /\ ruht' = ruht \ {tx[a].op.t}
  /\ Schreibt(a)
  /\ UNCHANGED <<status, regeln, zeile, spiel>>

-----------------------------------------------------------------------------
\* PATCH /saisons/{id}: find_rules_refusal as to groups and places.

\* REQ-RULES-002 and REQ-RULES-003, each only where the edit narrows.
PasstZurBesetzung(r) ==
  /\ r.gruppen < regeln.gruppen
       => \A t \in Teams : Gemeldet(t) => zeile[t].gruppe \in Angebotene(r)
  /\ r.plaetze < regeln.plaetze
       => \A g \in Angebotene(regeln) : Cardinality(Besetzung(g)) <= r.plaetze

BeginneRegeln(a, r) ==
  /\ r # regeln
  /\ DOMAIN spiel = {}
  /\ PasstZurBesetzung(r)
  /\ Beginnt(a, [art |-> "regeln", r |-> r], {SaisonDok})

SchreibeRegeln(a) ==
  /\ Bringt(a, "regeln")
  /\ regeln' = tx[a].op.r
  /\ Schreibt(a)
  /\ UNCHANGED <<status, zeile, ruht, spiel>>

-----------------------------------------------------------------------------
\* POST and DELETE /saisons/{id}/spielplan.

\* REQ-SPIELPLAN-004: every offered group exactly full, none beside them.
GruppenVoll(r) ==
  /\ \A g \in Angebotene(r) : Cardinality(Besetzung(g)) = r.plaetze
  /\ \A t \in Teams : Gemeldet(t) => zeile[t].gruppe \in Angebotene(r)

BeginneZiehung(a, r, ersetzt) ==
  /\ ~ersetzt => DOMAIN spiel = {}
  /\ ersetzt => Planungsfenster
  /\ status # "past"
  /\ GruppenVoll(r)
  /\ Beginnt(a, [art |-> "ziehen", r |-> r, runden |-> Runden(r)], SchreibtPlan)

SchreibeZiehung(a) ==
  LET op == tx[a].op IN
  /\ Bringt(a, "ziehen")
  /\ regeln' = op.r
  /\ spiel' = [k \in op.runden \cup {Endspiel} |-> [seiten |-> k, stand |-> "offen"]]
  /\ Schreibt(a)
  /\ UNCHANGED <<status, zeile, ruht>>

BeginneLoeschung(a) ==
  /\ Planungsfenster
  /\ Beginnt(a, [art |-> "loeschen"], SchreibtPlan)

SchreibeLoeschung(a) ==
  /\ Bringt(a, "loeschen")
  /\ spiel' = [k \in {} |-> [seiten |-> k, stand |-> "offen"]]
  /\ Schreibt(a)
  /\ UNCHANGED <<status, regeln, zeile, ruht>>

-----------------------------------------------------------------------------
\* A save of one fixture, as to its event: played, called off, or open again.

BeginneSpiel(a, k, stand) ==
  /\ stand # spiel[k].stand
  /\ Beginnt(a, [art |-> "spiel", k |-> k, stand |-> stand], {SpielDok(k)})

SchreibeSpiel(a) ==
  LET op == tx[a].op IN
  /\ Bringt(a, "spiel")
  /\ spiel' = [spiel EXCEPT ![op.k].stand = op.stand]
  /\ Schreibt(a)
  /\ UNCHANGED <<status, regeln, zeile, ruht>>

-----------------------------------------------------------------------------
\* activate_saison, as this season takes part in it: as the target, or as
\* the incumbent another one demotes.  Matchday dates are Saison's.

BeginneAktivierung(a) ==
  /\ status = "future" /\ DOMAIN spiel # {}
  /\ Beginnt(a, [art |-> "status", neu |-> "active"], {SaisonDok})

BeginneAbschluss(a) ==
  /\ status = "active"
  /\ \A k \in DOMAIN spiel : spiel[k].stand # "offen"
  /\ Beginnt(a, [art |-> "status", neu |-> "past"], {SaisonDok})

SchreibeStatus(a) ==
  /\ Bringt(a, "status")
  /\ status' = tx[a].op.neu
  /\ Schreibt(a)
  /\ UNCHANGED <<regeln, zeile, ruht, spiel>>

-----------------------------------------------------------------------------
Abbruch(a) ==
  /\ tx[a] # Frei
  /\ tx' = [tx EXCEPT ![a] = Frei]
  /\ UNCHANGED daten

Init ==
  /\ betrieb \in Betriebe
  /\ status = "future"
  /\ regeln \in Regelwerke
  /\ zeile = [t \in Teams |-> [gruppe |-> 0, austritt |-> FALSE]]
  /\ ruht = {}
  /\ spiel = [k \in {} |-> [seiten |-> k, stand |-> "offen"]]
  /\ tx = [a \in Akteure |-> Frei]

Beginne(a) ==
  \/ \E t \in Teams, r \in Regelwerke : \E g \in Angebotene(r) :
       BeginneEintritt(a, t, g) \/ BeginneWechsel(a, t, g)
  \/ \E t \in Teams :
       \/ BeginneAustritt(a, t)
       \/ BeginneRuhestand(a, t)
       \/ BeginneRueckkehr(a, t)
       \/ \E u \in Teams : BeginneTausch(a, t, u) \/ BeginneErsatz(a, t, u)
  \/ \E r \in Regelwerke :
       \/ BeginneRegeln(a, r)
       \/ \E ersetzt \in BOOLEAN : BeginneZiehung(a, r, ersetzt)
  \/ BeginneLoeschung(a)
  \/ \E k \in DOMAIN spiel, stand \in Staende : BeginneSpiel(a, k, stand)
  \/ BeginneAktivierung(a)
  \/ BeginneAbschluss(a)

Schreibe(a) ==
  \/ SchreibeEintritt(a)
  \/ SchreibeWechsel(a)
  \/ SchreibeAustritt(a)
  \/ SchreibeTausch(a)
  \/ SchreibeErsatz(a)
  \/ SchreibeRuhestand(a)
  \/ SchreibeRueckkehr(a)
  \/ SchreibeRegeln(a)
  \/ SchreibeZiehung(a)
  \/ SchreibeLoeschung(a)
  \/ SchreibeSpiel(a)
  \/ SchreibeStatus(a)

Next == \E a \in Akteure : Beginne(a) \/ Schreibe(a) \/ Abbruch(a)

Spec == Init /\ [][Next]_vars

-----------------------------------------------------------------------------
\* Properties.

\* Rows, rules and fixtures have their shapes; a fixture names two clubs, or
\* the one bracket match nobody yet.
TypeOK ==
  /\ status \in {"future", "active", "past"}
  /\ regeln \in Regelwerke
  /\ zeile \in [Teams -> [gruppe : Nat, austritt : BOOLEAN]]
  /\ ruht \subseteq Teams
  /\ \A k \in DOMAIN spiel : /\ k \subseteq Teams
                             /\ spiel[k] \in [seiten : SUBSET Teams, stand : Staende]
  /\ \A a \in Akteure : tx[a].phase \in {"frei", "bereit"}

\* I53 at its plainest (REQ-ENTER-002, REQ-ENTER-003): entrants, movers and
\* rules edits that each read a group with one place left never overfill it,
\* and no club stands in a group the season does not run.
GruppenNieUeberfuellt ==
  /\ \A g \in Angebotene(regeln) : Cardinality(Besetzung(g)) <= regeln.plaetze
  /\ \A t \in Teams : Gemeldet(t) => zeile[t].gruppe \in Angebotene(regeln)

\* REQ-SPIELPLAN-004, kept for as long as the draw stands: once the fixtures
\* are there every group holds exactly its clubs, whatever is entered, moved,
\* swapped or replaced afterwards.
GezogeneGruppenSindVoll == DOMAIN spiel # {} => GruppenVoll(regeln)

\* REQ-RETIRE-001 and REQ-ENTER-005 against each other: no club that left the
\* league holds a row in a season still open, though the one writes only the
\* club and the other judges it.
KeinRuhendesTeamIstGemeldet ==
  status # "past" => \A t \in ruht : ~Gemeldet(t)

\* REQ-SWAP-004, REQ-REPLACE-002: a result is never handed to another club.
\* A fixture that has taken place when a swap or a replacement commits keeps
\* both its sides.
ErgebnisBleibtBeiSeinenTeams ==
  \A k \in DOMAIN spiel \cap DOMAIN spiel' :
       HatStattgefunden(k) => spiel'[k].seiten = spiel[k].seiten

\* REQ-SWAP-006: a swap never sets a club that has left the season onto a
\* fixture it did not already play, an exit recorded meanwhile included.
TauschSetztNiemandAusgetretenen ==
  \A a \in Akteure : SchreibeTausch(a) =>
       \A k \in DOMAIN spiel, t \in Teams :
         t \in spiel'[k].seiten \ spiel[k].seiten => ~zeile'[t].austritt

\* swap_gruppen: "so each group stays a round robin" (saisons/admin_router.py
\* 662): two entered clubs that meet in the group phase stand in one group.
\* Does NOT hold when the first draw overlaps a swap.
GegnerStehenInEinerGruppe ==
  \A k \in DOMAIN spiel : \A t, u \in spiel[k].seiten :
    Gemeldet(t) /\ Gemeldet(u) => zeile[t].gruppe = zeile[u].gruppe

\* What the handlers keep when they run one after the other: the fixtures of
\* a drawn season are exactly the round robins of its groups as they stand,
\* after any number of swaps and replacements.
GruppenSindRunden ==
  ~betrieb.zugleich /\ DOMAIN spiel # {} =>
    LET gruppenspiele == DOMAIN spiel \ {Endspiel} IN
    /\ {spiel[k].seiten : k \in gruppenspiele} = Runden(regeln)
    /\ \A k, l \in gruppenspiele : spiel[k].seiten = spiel[l].seiten => k = l

\* However requests overlap, the places of a season are filled as its rules
\* and its draw say, by clubs that are in the league.
PlaetzeStimmen ==
  GruppenNieUeberfuellt /\ GezogeneGruppenSindVoll /\ KeinRuhendesTeamIstGemeldet

\* A swap or a replacement, whatever was entered while it was judged, hands no
\* result to another club and no fixture to a departed one.
UmbesetztWirdNurOffenes ==
  [][ErgebnisBleibtBeiSeinenTeams /\ TauschSetztNiemandAusgetretenen]_vars
=============================================================================
