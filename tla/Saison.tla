-------------------------------- MODULE Saison --------------------------------
(***************************************************************************)
(* The life of the league's seasons: a season is created, its fixtures are *)
(* drawn, replaced or undrawn, it is activated, played, reported on, and   *)
(* closed by the activation of the next one, while bans counted in seasons *)
(* lapse.  Source: fl_backend/app/api/saisons (the handlers of             *)
(* admin_router.py and the judgements of services.py), with the writes of  *)
(* api/spiele, api/spieltage, api/spielberichte and api/sperrliste that    *)
(* touch what those handlers judge.                                        *)
(*                                                                         *)
(* Every handler is two actions: Beginne... reads a snapshot, judges it    *)
(* and fixes the write set; Schreibe... commits.  Between the two any      *)
(* other actor may commit (see Transaktion).  Handlers that read a figure  *)
(* again outside their session take Frage_nach between the two.            *)
(***************************************************************************)
EXTENDS Naturals, Transaktion

CONSTANTS
  Akteure,      \* concurrent requests
  Saisons,      \* season ids; the code compares them as equally wide strings
  Nrn,          \* spiel_nr of the fixtures one draw writes
  KoNrn,        \* those of the knockout rounds, whose sides the bracket fills
  Formen,       \* shapes a season can have (groups, teams and qualifiers)
  OhneForm,     \* no shape: nothing drawn, or no such season
  Personen,     \* addresses a ban can name
  SperreDauer   \* SPERRE_DAUER_SAISONS

ASSUME SaisonsAssumption == Saisons \subseteq Nat \ {0}
ASSUME NrnAssumption == KoNrn \subseteq Nrn /\ Nrn # {}
ASSUME FormenAssumption == OhneForm \notin Formen
ASSUME SperreDauerAssumption == SperreDauer \in Nat

VARIABLES
  saison,    \* collection saisons: status, shape rules, watermark `spielplan`
  spiel,     \* collection spiele, by season and spiel_nr
  spieltag,  \* collection spieltage: whether the season's matchdays are dated
  gezogen,   \* the shape the stored fixtures were drawn from: their number
  bericht,   \* collection spielberichte: a submitted report of the fixture
  sperre,    \* collection sperrliste: gesperrt_bis_saison_id, 0 for no row
  tx         \* the open transaction of each actor

daten == <<saison, spiel, spieltag, gezogen, bericht, sperre>>
vars == <<daten, tx>>

-----------------------------------------------------------------------------
\* Documents, as a write set names them.

SaisonDok(s)     == <<"saisons", s>>
SpielDok(s, nr)  == <<"spiele", s, nr>>
SpieltagDok(s)   == <<"spieltage", s>>
BerichtDok(s, nr) == <<"spielberichte", s, nr>>
SperreDok(p)     == <<"sperrliste", p>>

\* The one key of the partial unique index over status "active": two
\* transactions entering it meet there as two writes of one document do.
UniqSaisonActive == <<"uniq_saison_active">>

-----------------------------------------------------------------------------
\* What is stored.

Status == {"keine", "future", "active", "past"}

\* A fixture: absent; as the draw leaves it; booked to a referee; carrying
\* another record (a venue, a note, a moved side); played; called off.
Staende == {"frei", "geleitet", "vermerkt", "gespielt", "abgesagt"}

\* Variant: the window read off results alone, as has_taken_place reads them.
HaeltEintrag_NurErgebnis(st) == st \in {"gespielt", "abgesagt"}

\* services.py holds_a_recorded_fact: anything beside the draw's own form.
\* A date is no record.
HaeltEintrag(st) == st \in Staende \ {"frei"}

\* schemas.py is_unplayed: neither a result nor a cancellation.
IstOffen(st) == st \in {"frei", "geleitet", "vermerkt"}

Gezogen(s) == \E nr \in Nrn : spiel[<<s, nr>>] # "keins"
Eintraege(s) == {nr \in Nrn : HaeltEintrag(spiel[<<s, nr>>])}
Berichte(s) == {nr \in Nrn : bericht[<<s, nr>>]}

\* unplayed_spiel_nrs over the seasons in S.
Offene(S) == {k \in S \X Nrn : IstOffen(spiel[k])}

Amtierende(s) == {t \in Saisons \ {s} : saison[t].status = "active"}

\* Bans whose last season lies before s.
Erloschene(s) == {p \in Personen : sperre[p] # 0 /\ sperre[p] < s}

-----------------------------------------------------------------------------
\* The write set of every handler.

SchreibtAnlegen(s) == {SaisonDok(s)}
SchreibtRegeln(s) == {SaisonDok(s)}

\* generate_spielplan: the watermark (a replace anchors the season beside
\* it), every stored row it deletes, every row it inserts.
SchreibtZiehung(s) ==
  {SaisonDok(s), SpieltagDok(s)} \cup {SpielDok(s, nr) : nr \in Nrn}
    \cup {BerichtDok(s, nr) : nr \in Berichte(s)}

\* Variant: an undraw that removes rows and leaves the season unwritten.
SchreibtLoeschung_OhneSaison(s) ==
  {SpieltagDok(s)} \cup {SpielDok(s, nr) : nr \in Nrn}

\* undraw_spielplan: the anchor, and every row it deletes.
SchreibtLoeschung(s) ==
  {SaisonDok(s), SpieltagDok(s)} \cup {SpielDok(s, nr) : nr \in Nrn}
    \cup {BerichtDok(s, nr) : nr \in Berichte(s)}

\* Variant: a league without the partial unique index.
SchreibtAktivierung_OhneIndex(s) ==
  {SaisonDok(t) : t \in Amtierende(s)}
    \cup {SperreDok(p) : p \in Erloschene(s)}
    \cup (IF saison[s].status = "active" THEN {} ELSE {SaisonDok(s)})

\* activate_saison: the demoted incumbents, the target unless it already is
\* active (I117), the index key either of them moves, the lapsed bans.
SchreibtAktivierung(s) ==
  {SaisonDok(t) : t \in Amtierende(s)}
    \cup {SperreDok(p) : p \in Erloschene(s)}
    \cup (IF saison[s].status = "active" THEN {}
          ELSE {SaisonDok(s), UniqSaisonActive})

\* _write_spiel_data: the fixtures it changes, never the season.
SchreibtSpiel(s, nrn) == {SpielDok(s, nr) : nr \in nrn}

\* put_spielbericht_bericht: the inserted report and the season's anchor
\* (anchor_the_season_reported_in, I833).
SchreibtBericht(s, nr) == {BerichtDok(s, nr), SaisonDok(s)}

\* patch_spieltag: the span, and _refuse_an_out_of_order_beginn's anchor.
SchreibtDatierung(s) == {SpieltagDok(s), SaisonDok(s)}

\* post_sperrliste_eintrag: the row, and the anchor on the season it counts
\* from (_pull_the_season_a_ban_counts_from).
SchreibtSperre(p, s) == {SperreDok(p), SaisonDok(s)}
SchreibtEntsperrung(p) == {SperreDok(p)}

-----------------------------------------------------------------------------
Beginnt(a, op, W) ==
  /\ tx[a] = Frei
  /\ tx' = [tx EXCEPT ![a] = Bereit(op, W)]
  /\ UNCHANGED daten

BeginntMitNachfrage(a, op, W) ==
  /\ tx[a] = Frei
  /\ tx' = [tx EXCEPT ![a] = Offen(op, W)]
  /\ UNCHANGED daten

\* What actor a is about to commit, as its callback decided it.
Bringt(a, art) == tx[a].phase = "bereit" /\ tx[a].op.art = art

Schreibt(a) == tx' = Festgeschrieben(tx, a)

-----------------------------------------------------------------------------
\* POST /saisons: a season is created as `future`; a taken id is refused.

BeginneAnlegen(a, s, form) ==
  /\ saison[s].status = "keine"
  /\ Beginnt(a, [art |-> "anlegen", s |-> s, form |-> form], SchreibtAnlegen(s))

SchreibeAnlegen(a) ==
  LET op == tx[a].op IN
  /\ Bringt(a, "anlegen")
  /\ saison' = [saison EXCEPT ![op.s] =
                  [status |-> "future", form |-> op.form, plan |-> FALSE]]
  /\ Schreibt(a)
  /\ UNCHANGED <<spiel, spieltag, gezogen, bericht, sperre>>

-----------------------------------------------------------------------------
\* PATCH /saisons/{id}, as far as it moves the shape: REQ-RULES-011 refuses
\* that while the season holds fixtures.

BeginneRegeln(a, s, form) ==
  /\ saison[s].status # "keine"
  /\ form # saison[s].form
  /\ ~Gezogen(s)
  /\ Beginnt(a, [art |-> "regeln", s |-> s, form |-> form], SchreibtRegeln(s))

SchreibeRegeln(a) ==
  LET op == tx[a].op IN
  /\ Bringt(a, "regeln")
  /\ saison' = [saison EXCEPT ![op.s].form = op.form]
  /\ Schreibt(a)
  /\ UNCHANGED <<spiel, spieltag, gezogen, bericht, sperre>>

-----------------------------------------------------------------------------
\* POST /saisons/{id}/spielplan, the first draw and the replace.

\* _planning_window_is_open: planned, and nothing entered against it.
Planungsfenster(s) == saison[s].status = "future" /\ Eintraege(s) = {}

\* find_spielplan_refusal and, for a replace, find_berichte_refusal.  The
\* groups' sizes (REQ-SPIELPLAN-004) are module Gruppen's.
DarfZiehen(s, ersetzt) ==
  /\ saison[s].status \notin {"keine", "past"}
  /\ ~ersetzt => ~Gezogen(s) /\ spieltag[s] = "keiner"
  /\ ersetzt => Planungsfenster(s) /\ Berichte(s) = {}

BeginneZiehung(a, s, form, ersetzt) ==
  LET op == [art |-> "ziehen", s |-> s, form |-> form, berichte |-> Berichte(s)] IN
  /\ DarfZiehen(s, ersetzt)
  /\ IF ersetzt THEN BeginntMitNachfrage(a, op, SchreibtZiehung(s))
                ELSE Beginnt(a, op, SchreibtZiehung(s))

SchreibeZiehung(a) ==
  LET op == tx[a].op IN
  /\ Bringt(a, "ziehen")
  /\ saison' = [saison EXCEPT ![op.s] = [@ EXCEPT !.form = op.form, !.plan = TRUE]]
  /\ spiel' = [k \in DOMAIN spiel |-> IF k[1] = op.s THEN "frei" ELSE spiel[k]]
  /\ spieltag' = [spieltag EXCEPT ![op.s] = "undatiert"]
  /\ gezogen' = [gezogen EXCEPT ![op.s] = op.form]
  /\ bericht' = [k \in DOMAIN bericht |->
                   bericht[k] /\ ~(k[1] = op.s /\ k[2] \in op.berichte)]
  /\ Schreibt(a)
  /\ UNCHANGED sperre

-----------------------------------------------------------------------------
\* DELETE /saisons/{id}/spielplan: find_undraw_refusal, find_berichte_refusal.

DarfLoeschen(s) == Planungsfenster(s) /\ Berichte(s) = {}

BeginneLoeschung(a, s) ==
  /\ DarfLoeschen(s)
  /\ BeginntMitNachfrage(a, [art |-> "loeschen", s |-> s, berichte |-> Berichte(s)],
                         SchreibtLoeschung(s))

\* Variant: the season is given a status no reader knows.
SchreibeLoeschung_NeuerStatus(a) ==
  LET op == tx[a].op IN
  /\ Bringt(a, "loeschen")
  /\ saison' = [saison EXCEPT ![op.s] = [@ EXCEPT !.plan = FALSE, !.status = "undrawn"]]
  /\ spiel' = [k \in DOMAIN spiel |-> IF k[1] = op.s THEN "keins" ELSE spiel[k]]
  /\ spieltag' = [spieltag EXCEPT ![op.s] = "keiner"]
  /\ gezogen' = [gezogen EXCEPT ![op.s] = OhneForm]
  /\ Schreibt(a)
  /\ UNCHANGED <<bericht, sperre>>

SchreibeLoeschung(a) ==
  LET op == tx[a].op IN
  /\ Bringt(a, "loeschen")
  /\ saison' = [saison EXCEPT ![op.s].plan = FALSE]
  /\ spiel' = [k \in DOMAIN spiel |-> IF k[1] = op.s THEN "keins" ELSE spiel[k]]
  /\ spieltag' = [spieltag EXCEPT ![op.s] = "keiner"]
  /\ gezogen' = [gezogen EXCEPT ![op.s] = OhneForm]
  /\ bericht' = [k \in DOMAIN bericht |->
                   bericht[k] /\ ~(k[1] = op.s /\ k[2] \in op.berichte)]
  /\ Schreibt(a)
  /\ UNCHANGED sperre

-----------------------------------------------------------------------------
\* POST /saisons/{id}/activate: find_activation_refusal on the snapshot.

DarfAktivieren(s) ==
  /\ saison[s].status \in {"future", "active"}
  /\ Gezogen(s)
  /\ spieltag[s] # "undatiert"
  /\ Offene(Amtierende(s)) = {}

\* A target active already is written by nothing, so its status is read
\* again outside before the answer.
BeginneAktivierung(a, s) ==
  LET neu == saison[s].status = "future"
      op == [art |-> "aktivieren", s |-> s, neu |-> neu,
             abgeloest |-> Amtierende(s), erloschen |-> Erloschene(s)]
  IN
  /\ DarfAktivieren(s)
  /\ IF neu THEN Beginnt(a, op, SchreibtAktivierung(s))
            ELSE BeginntMitNachfrage(a, op, SchreibtAktivierung(s))

\* Variant: the rollover demotes and leaves the promotion to a second call.
SchreibeAktivierung_NurAbloesen(a) ==
  LET op == tx[a].op IN
  /\ Bringt(a, "aktivieren")
  /\ saison' = [s \in Saisons |->
                  IF s \in op.abgeloest THEN [saison[s] EXCEPT !.status = "past"]
                  ELSE IF op.abgeloest = {} /\ s = op.s /\ op.neu
                  THEN [saison[s] EXCEPT !.status = "active"]
                  ELSE saison[s]]
  /\ Schreibt(a)
  /\ UNCHANGED <<spiel, spieltag, gezogen, bericht, sperre>>

\* Demote, promote, erase the bans seen to have lapsed.
SchreibeAktivierung(a) ==
  LET op == tx[a].op IN
  /\ Bringt(a, "aktivieren")
  /\ saison' = [s \in Saisons |->
                  IF s = op.s /\ op.neu THEN [saison[s] EXCEPT !.status = "active"]
                  ELSE IF s \in op.abgeloest THEN [saison[s] EXCEPT !.status = "past"]
                  ELSE saison[s]]
  /\ sperre' = [p \in Personen |-> IF p \in op.erloschen THEN 0 ELSE sperre[p]]
  /\ Schreibt(a)
  /\ UNCHANGED <<spiel, spieltag, gezogen, bericht>>

-----------------------------------------------------------------------------
\* A save of one fixture (_write_spiel_data), in a season of any status.

\* What the bracket pass may leave on a knockout fixture it re-fields
\* (advance_bracket_winners): the result goes with the occupant, a booking
\* and a cancellation stay.
NachDerAufloesung(st) ==
  CASE st = "gespielt" -> {"frei", "vermerkt", "geleitet"}
    [] st \in {"frei", "vermerkt"} -> {"frei", "vermerkt"}
    [] OTHER -> {st}

Aufloesungen(s, nrn) ==
  {f \in [nrn -> Staende] :
     \A nr \in nrn : f[nr] \in NachDerAufloesung(spiel[<<s, nr>>]) \ {spiel[<<s, nr>>]}}

BeginneSpielSpeichern(a, s, nr, neu, mit) ==
  /\ spiel[<<s, nr>>] \notin {"keins", neu}
  /\ \E f \in Aufloesungen(s, mit) :
       Beginnt(a,
               [art |-> "spiel", s |-> s,
                staende |-> [n \in mit \cup {nr} |-> IF n = nr THEN neu ELSE f[n]]],
               SchreibtSpiel(s, mit \cup {nr}))

SchreibeSpiel(a) ==
  LET op == tx[a].op IN
  /\ Bringt(a, "spiel")
  /\ spiel' = [k \in DOMAIN spiel |->
                 IF k[1] = op.s /\ k[2] \in DOMAIN op.staende
                 THEN op.staende[k[2]] ELSE spiel[k]]
  /\ Schreibt(a)
  /\ UNCHANGED <<saison, spieltag, gezogen, bericht, sperre>>

-----------------------------------------------------------------------------
\* PUT a referee's report, the first write of it.

\* find_nicht_geleitet_refusal, find_saison_beendet_refusal, judge_bericht.
NimmtBericht(s, nr) ==
  /\ spiel[<<s, nr>>] \in {"geleitet", "gespielt"}
  /\ saison[s].status # "past"

BeginneBericht(a, s, nr) ==
  /\ ~bericht[<<s, nr>>]
  /\ NimmtBericht(s, nr)
  /\ BeginntMitNachfrage(a, [art |-> "bericht", s |-> s, nr |-> nr],
                         SchreibtBericht(s, nr))

SchreibeBericht(a) ==
  LET op == tx[a].op IN
  /\ Bringt(a, "bericht")
  /\ bericht' = [bericht EXCEPT ![<<op.s, op.nr>>] = TRUE]
  /\ Schreibt(a)
  /\ UNCHANGED <<saison, spiel, spieltag, gezogen, sperre>>

-----------------------------------------------------------------------------
\* PATCH /spieltage/{id}: the season's last undated matchday is dated.  Both
\* ends of a span are required, so no write takes a date off again.

BeginneDatierung(a, s) ==
  /\ spieltag[s] = "undatiert"
  /\ Beginnt(a, [art |-> "datieren", s |-> s], SchreibtDatierung(s))

SchreibeDatierung(a) ==
  /\ Bringt(a, "datieren")
  /\ spieltag' = [spieltag EXCEPT ![tx[a].op.s] = "datiert"]
  /\ Schreibt(a)
  /\ UNCHANGED <<saison, spiel, gezogen, bericht, sperre>>

-----------------------------------------------------------------------------
\* POST and DELETE /sperrliste: a ban runs SperreDauer seasons past the
\* running one (compose_gesperrt_bis_saison_id).

BeginneSperre(a, p, s) ==
  /\ saison[s].status = "active"
  /\ sperre[p] = 0
  /\ Beginnt(a, [art |-> "sperren", p |-> p, bis |-> s + SperreDauer],
             SchreibtSperre(p, s))

SchreibeSperre(a) ==
  LET op == tx[a].op IN
  /\ Bringt(a, "sperren")
  /\ sperre' = [sperre EXCEPT ![op.p] = op.bis]
  /\ Schreibt(a)
  /\ UNCHANGED <<saison, spiel, spieltag, gezogen, bericht>>

BeginneEntsperrung(a, p) ==
  /\ sperre[p] # 0
  /\ Beginnt(a, [art |-> "entsperren", p |-> p], SchreibtEntsperrung(p))

SchreibeEntsperrung(a) ==
  /\ Bringt(a, "entsperren")
  /\ sperre' = [sperre EXCEPT ![tx[a].op.p] = 0]
  /\ Schreibt(a)
  /\ UNCHANGED <<saison, spiel, spieltag, gezogen, bericht>>

-----------------------------------------------------------------------------
\* The reading outside the session (I118), on what is committed by then.
BestehtWeiter(op) ==
  CASE op.art \in {"ziehen", "loeschen"} -> Berichte(op.s) = {}
    [] op.art = "aktivieren" -> saison[op.s].status # "past"
    [] op.art = "bericht" -> NimmtBericht(op.s, op.nr)

FrageNach(a) ==
  /\ tx[a].phase = "offen"
  /\ BestehtWeiter(tx[a].op)
  /\ tx' = [tx EXCEPT ![a].phase = "bereit"]
  /\ UNCHANGED daten

\* A refusal of that reading, a lost connection, a process that ends: the
\* server drops the transaction and nothing of it is stored.
Abbruch(a) ==
  /\ tx[a] # Frei
  /\ tx' = [tx EXCEPT ![a] = Frei]
  /\ UNCHANGED daten

-----------------------------------------------------------------------------
Init ==
  /\ saison = [s \in Saisons |-> [status |-> "keine", form |-> OhneForm, plan |-> FALSE]]
  /\ spiel = [k \in Saisons \X Nrn |-> "keins"]
  /\ spieltag = [s \in Saisons |-> "keiner"]
  /\ gezogen = [s \in Saisons |-> OhneForm]
  /\ bericht = [k \in Saisons \X Nrn |-> FALSE]
  /\ sperre = [p \in Personen |-> 0]
  /\ tx = [a \in Akteure |-> Frei]

Beginne(a) ==
  \/ \E s \in Saisons :
       \/ \E form \in Formen : BeginneAnlegen(a, s, form) \/ BeginneRegeln(a, s, form)
       \/ \E form \in Formen, ersetzt \in BOOLEAN : BeginneZiehung(a, s, form, ersetzt)
       \/ BeginneLoeschung(a, s)
       \/ BeginneAktivierung(a, s)
       \/ \E nr \in Nrn, neu \in Staende : \E mit \in SUBSET (KoNrn \ {nr}) :
            BeginneSpielSpeichern(a, s, nr, neu, mit)
       \/ \E nr \in Nrn : BeginneBericht(a, s, nr)
       \/ BeginneDatierung(a, s)
       \/ \E p \in Personen : BeginneSperre(a, p, s)
  \/ \E p \in Personen : BeginneEntsperrung(a, p)

Schreibe(a) ==
  \/ SchreibeAnlegen(a)
  \/ SchreibeRegeln(a)
  \/ SchreibeZiehung(a)
  \/ SchreibeLoeschung(a)
  \/ SchreibeAktivierung(a)
  \/ SchreibeSpiel(a)
  \/ SchreibeBericht(a)
  \/ SchreibeDatierung(a)
  \/ SchreibeSperre(a)
  \/ SchreibeEntsperrung(a)

Next == \E a \in Akteure : Beginne(a) \/ FrageNach(a) \/ Schreibe(a) \/ Abbruch(a)

Spec == Init /\ [][Next]_vars

-----------------------------------------------------------------------------
\* Properties.

Ops ==
  [art : {"anlegen", "regeln"}, s : Saisons, form : Formen]
    \cup [art : {"ziehen"}, s : Saisons, form : Formen, berichte : SUBSET Nrn]
    \cup [art : {"loeschen"}, s : Saisons, berichte : SUBSET Nrn]
    \cup [art : {"aktivieren"}, s : Saisons, neu : BOOLEAN,
          abgeloest : SUBSET Saisons, erloschen : SUBSET Personen]
    \cup [art : {"spiel"}, s : Saisons, staende : UNION {[nrn -> Staende] : nrn \in SUBSET Nrn}]
    \cup [art : {"bericht"}, s : Saisons, nr : Nrn]
    \cup [art : {"datieren"}, s : Saisons]
    \cup [art : {"sperren"}, p : Personen, bis : Nat]
    \cup [art : {"entsperren"}, p : Personen]

SaisonTyp == [Saisons -> [status : Status, form : Formen \cup {OhneForm}, plan : BOOLEAN]]

TxTyp ==
  \A a \in Akteure :
    \/ tx[a] = Frei
    \/ tx[a].phase \in {"offen", "bereit"} /\ tx[a].op \in Ops

\* Every collection holds documents of its shape, and an open transaction
\* one of the operations above.
TypeOK ==
  /\ saison \in SaisonTyp
  /\ spiel \in [Saisons \X Nrn -> Staende \cup {"keins"}]
  /\ spieltag \in [Saisons -> {"keiner", "undatiert", "datiert"}]
  /\ gezogen \in [Saisons -> Formen \cup {OhneForm}]
  /\ bericht \in [Saisons \X Nrn -> BOOLEAN]
  /\ sperre \in [Personen -> Nat]
  /\ DOMAIN tx = Akteure
  /\ TxTyp

\* uniq_saison_active: however two activations interleave, the first one of
\* a fresh league included, one season at most is running.
HoechstensEineAktiv ==
  \A s, t \in Saisons :
    saison[s].status = "active" /\ saison[t].status = "active" => s = t

\* What an uncommitted rollover or creation has judged still holds of the
\* league it will commit to: the target is still planned, the incumbents it
\* demotes are exactly the seasons running, the new id is still free.
OffenesUrteilGilt ==
  \A a \in Akteure :
    LET op == tx[a].op IN
    /\ op.art = "anlegen" => saison[op.s].status = "keine"
    /\ op.art = "aktivieren" =>
         IF op.neu
         THEN /\ saison[op.s].status = "future"
              /\ op.abgeloest = {t \in Saisons : saison[t].status = "active"}
         ELSE op.abgeloest = {}

\* A season that is or was live holds fixtures, all on dated matchdays: no
\* undraw or replace racing its activation takes them away (REQ-ACTIVATE-003,
\* REQ-ACTIVATE-004).
LebendeSaisonIstSpielbar ==
  \A s \in Saisons :
    saison[s].status \in {"active", "past"} => Gezogen(s) /\ spieltag[s] = "datiert"

\* I46, I110, REQ-RULES-011: fixtures, matchdays and watermark stand or fall
\* together, and the season's shape is the one its fixtures were drawn from,
\* however a rules edit, a draw and an undraw overlap.
PlanIstGanz ==
  \A s \in Saisons :
    LET da == saison[s].plan IN
    /\ \A nr \in Nrn : (spiel[<<s, nr>>] # "keins") <=> da
    /\ (spieltag[s] # "keiner") <=> da
    /\ gezogen[s] = IF da THEN saison[s].form ELSE OhneForm

\* I833: a referee's report never stands on a fixture a replace or an undraw
\* has removed under it.
BerichtHatSeinSpiel ==
  \A s \in Saisons, nr \in Nrn : bericht[<<s, nr>>] => spiel[<<s, nr>>] # "keins"

\* I274: no ban outlasts the seasons it was given: the activation of the
\* season after its last one takes it, even one entered during the rollover.
KeineVerjaehrteSperre ==
  \A s \in Saisons, p \in Personen :
    saison[s].status = "active" /\ sperre[p] # 0 => sperre[p] >= s

\* A ban bars its last season too: the rollover erases only bans whose last
\* season lies before every season running then (`$lt`, never `$lte`).
SperreHaeltIhreSaisons ==
  \A p \in Personen :
       sperre[p] # 0 /\ sperre'[p] = 0
         => \/ \E a \in Akteure : SchreibeEntsperrung(a)
            \/ \A s \in Saisons : saison'[s].status = "active" => sperre[p] < s

\* REQ-SPIELPLAN-005, 006, 007: what a replace or an undraw removes holds
\* nothing anybody entered, and no report, at the moment it goes.
NichtsVermerktesGehtVerloren ==
  \A a \in Akteure :
       SchreibeZiehung(a) \/ SchreibeLoeschung(a)
         => \A nr \in Nrn : /\ spiel[<<tx[a].op.s, nr>>] \in {"keins", "frei"}
                            /\ ~bericht[<<tx[a].op.s, nr>>]

\* A closed season's status, shape, fixtures and matchdays are settled: no
\* draw, undraw, dating or rules edit begun before the rollover lands on it.
VergangenesSteht ==
  \A s \in Saisons :
       saison[s].status = "past" =>
         /\ saison'[s] = saison[s]
         /\ gezogen'[s] = gezogen[s]
         /\ spieltag'[s] = spieltag[s]
         /\ \A nr \in Nrn : spiel'[<<s, nr>>] # "keins"

\* REQ-BERICHT-007: the first report of a fixture is never stored in a season
\* that has been closed, not even by a rollover committing just before it.
KeinErsterBerichtNachSchluss ==
  \A s \in Saisons, nr \in Nrn :
       ~bericht[<<s, nr>>] /\ bericht'[<<s, nr>>] => saison[s].status # "past"

\* The documents of a league hang together, whatever overlaps: a live season can be played,
\* a season's fixtures are the whole draw of its shape, no report has lost its fixture, and
\* no ban outlives its seasons.
DokumenteStimmen ==
  LebendeSaisonIstSpielbar /\ PlanIstGanz /\ BerichtHatSeinSpiel /\ KeineVerjaehrteSperre

\* No commit takes away what the request behind it judged to be empty, over or its own: a
\* closed season, a first report's season, a ban still due, a fact somebody entered.
NichtsGehtVerloren ==
  [][/\ VergangenesSteht /\ KeinErsterBerichtNachSchluss
     /\ SperreHaeltIhreSaisons /\ NichtsVermerktesGehtVerloren]_vars

\* The statuses go through the league's abstract succession: every commit is
\* a creation, a whole rollover, or nothing a reader of statuses sees.
Folge == INSTANCE Saisonfolge WITH status <- [s \in Saisons |-> saison[s].status]
IstSaisonfolge == Folge!Spec
=============================================================================
