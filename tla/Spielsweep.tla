------------------------------ MODULE Spielsweep ------------------------------
(* The confirmations of one fixture and the hourly pass that asks one club about it:
   fl_frontend's features/spielbestaetigungen/sweep.ts over the backend's
   api/spielbestaetigungen/sweep_router.py.

   A pass is one call, whose four transactions close, tell, mint and remind, and then
   the mails the call answered and two stamps of what went. The administrator moves the
   fixture, calls it off and reinstates it, bars a mailbox and lifts the ban, and the club
   answers, between any two steps; any step may fail, its commit standing or not, take a
   share of its rows or pass over one, any answer may be lost, a send may arrive though it
   broke off, and the process may restart. *)
EXTENDS Naturals, FiniteSets

CONSTANTS
  Slots,                        \* the Ansetzungen the fixture may have
  Tag,                          \* Tag[s]: the day of slot s
  Anfangs,                      \* the slots it may have at the start
  Postfaecher,                  \* the mailboxes of the club's seats
  Zeilen,                       \* rows, numbered as they are inserted
  TAGE,                         \* days of a history
  Vorraete,                     \* how many changes of the fixture, bans put or lifted, answers
                                \* of the club, and failed steps, steps short of their rows,
                                \* lost answers or restarts a history may hold, how its mails
                                \* go, and the mailboxes barred before it
  ANFRAGE_FENSTER,              \* SPIEL_BESTAETIGUNG_FRIST_TAGE + SPIEL_ANFRAGE_VORLAUF_TAGE
  FRIST_TAGE,                   \* SPIEL_BESTAETIGUNG_FRIST_TAGE
  ERINNERUNG_TAGE,              \* days before the deadline a reminder goes
  MITTEILUNG_VERSUCHE_HOECHSTENS

\* Production, every send accepted, or failing at will; production without its key, and a
\* stack that mails nothing, where a send is withheld.
Versandarten == {"geht", "stockt", "ohne_schluessel", "ohne_versand"}

ASSUME SlotAssumption == Tag \in [Slots -> 1..TAGE] /\ Anfangs \subseteq Slots
ASSUME VorraeteAssumption ==
  \A v \in Vorraete :
    v \in [eingriffe : Nat, sperren : Nat, antworten : Nat, stoerungen : Nat, versand : Versandarten,
           gesperrt : SUBSET Postfaecher]
ASSUME ZeilenAssumption ==
  /\ Cardinality(Zeilen) \in Nat /\ Zeilen = 1..Cardinality(Zeilen)
  /\ \A v \in Vorraete : v.eingriffe < Cardinality(Zeilen)
ASSUME ZahlenAssumption ==
  /\ {TAGE, ANFRAGE_FENSTER, FRIST_TAGE, MITTEILUNG_VERSUCHE_HOECHSTENS} \subseteq Nat
  /\ ERINNERUNG_TAGE \subseteq Nat /\ MITTEILUNG_VERSUCHE_HOECHSTENS > 0
ASSUME PostfachAssumption == Postfaecher # {}

VARIABLES
  heute, spiel,
  gesperrt,  \* the mailboxes the ban list holds
  vorrat,    \* what is left of them
  zeile,     \* the rows of spielbestaetigungen
  pass,      \* the pass running in fl_frontend's process, its call's answer in it
  gebeten,   \* requests that reached a mailbox, per row
  gewarnt,   \* notices that reached a mailbox, per row
  erinnert,  \* reminders mailed today, per row
  abgetan,   \* ghost: requests and notices that ended barred, or filed where nothing mails
  entledigt  \* ghost: rows whose notice was given up, or dropped with its closing undone

vars == <<heute, spiel, gesperrt, vorrat, zeile, pass, gebeten, gewarnt, erinnert, abgetan, entledigt>>

Gruende == {"offen", "ansetzung_geaendert", "abgesagt", "spiel_vergangen", "verworfen"}

Ruhe == [schritt |-> "ruht", hinweise |-> {}, aufgegeben |-> {}, angekuendigt |-> {}, mitgeteilt |-> {},
         ungewarnt |-> {}, eingefuegt |-> {}, anfragen |-> {}, erinnerungen |-> {}, angefragt |-> {}]

\* Rows and the pass have their shapes: no notice is tried more often than it may be.
TypeOK ==
  /\ heute \in 1..TAGE
  /\ vorrat \in [eingriffe : Nat, sperren : Nat, antworten : Nat, stoerungen : Nat, versand : Versandarten,
                 gesperrt : SUBSET Postfaecher]
  /\ spiel \in [slot : Slots, ab : BOOLEAN]
  /\ gesperrt \subseteq Postfaecher
  /\ zeile \in [Zeilen -> [da : BOOLEAN, slot : Slots, frist : 1..TAGE, links : SUBSET Postfaecher,
                           angefragt : 0..TAGE,
                           erinnert : SUBSET (1..TAGE), antwort : {"keine", "zugesagt", "abgelehnt"},
                           grund : Gruende, mitteilung : BOOLEAN,
                           versuche : 0..MITTEILUNG_VERSUCHE_HOECHSTENS]]
  /\ pass \in [schritt : {"ruht", "schliesst", "sagt_an", "fragt", "erinnert", "hinweise", "mitgeteilt",
                          "erinnerungen", "anfragen", "angefragt"},
               hinweise : SUBSET Zeilen, aufgegeben : SUBSET Zeilen, angekuendigt : SUBSET Zeilen,
               mitgeteilt : SUBSET Zeilen, ungewarnt : SUBSET Postfaecher, eingefuegt : SUBSET Zeilen,
               anfragen : SUBSET (Zeilen \X Postfaecher), erinnerungen : SUBSET Zeilen,
               angefragt : SUBSET Zeilen]
  /\ gebeten \subseteq Zeilen \X Postfaecher /\ gewarnt \subseteq Zeilen \X Postfaecher
  /\ abgetan \subseteq {"anfrage", "hinweis"} \X Zeilen
  /\ erinnert \in [Zeilen -> 0..2]
  /\ entledigt \subseteq Zeilen

------------------------------------------------------------------------------
(* What the backend judges of a row against the fixture as it stands. *)

Da == {z \in Zeilen : zeile[z].da}

Offen(z) == zeile[z].da /\ zeile[z].grund = "offen"

build_answerable_filter(z) == Offen(z) /\ zeile[z].antwort = "keine"

\* Variant: a discard no longer holds its party's question.
build_holding_filter_OhneVerworfen(z) == Offen(z)

build_holding_filter(z) == Offen(z) \/ (zeile[z].da /\ zeile[z].grund = "verworfen")

_day_passed(z) == Tag[zeile[z].slot] < heute

grund_to_close(z) ==
  IF spiel.ab THEN "abgesagt"
  ELSE IF spiel.slot # zeile[z].slot THEN "ansetzung_geaendert"
  ELSE IF _day_passed(z) THEN "spiel_vergangen" ELSE "offen"

\* A discard ends where an agreement would, a move excepted, and once its own day passed.
grund_to_end(z) ==
  IF zeile[z].grund = "offen" \/ grund_to_close(z) \in {"abgesagt", "spiel_vergangen"}
  THEN grund_to_close(z)
  ELSE IF _day_passed(z) THEN "spiel_vergangen" ELSE zeile[z].grund

_notice_to_come(z, grund) ==
  Tag[zeile[z].slot] >= heute \/ (grund = "ansetzung_geaendert" /\ Tag[spiel.slot] >= heute)

notice_owed(z, grund) ==
  /\ zeile[z].angefragt # 0 /\ grund \in {"ansetzung_geaendert", "abgesagt"} /\ _notice_to_come(z, grund)

notice_holds(z) ==
  CASE zeile[z].grund = "abgesagt" -> spiel.ab
    [] zeile[z].grund = "verworfen" -> spiel.slot = zeile[z].slot
    [] OTHER -> spiel.slot # zeile[z].slot

\* Variant: a notice is answered for ever.
mitteilung_spent_Nie(z) == FALSE

mitteilung_spent(z) ==
  zeile[z].versuche >= MITTEILUNG_VERSUCHE_HOECHSTENS \/ ~_notice_to_come(z, zeile[z].grund)

------------------------------------------------------------------------------
(* The call's four transactions, each over the rows it takes. *)

ZuSchliessen == {z \in Zeilen : build_holding_filter(z) /\ grund_to_end(z) # zeile[z].grund}

Geschlossen(anteil) ==
  [z \in Zeilen |->
    IF z \in anteil
    THEN [zeile[z] EXCEPT !.grund = grund_to_end(z), !.mitteilung = notice_owed(z, grund_to_end(z)),
                          !.versuche = 0]
    ELSE zeile[z]]

\* The rows holding a notice: dropped where the closing was undone, given up once spent,
\* else answered, an attempt counted.
Gehalten == {z \in Da : zeile[z].mitteilung}
Entfallen == {z \in Gehalten : ~notice_holds(z)}
Verbraucht == {z \in Gehalten : notice_holds(z) /\ mitteilung_spent(z)}
Faellig == Gehalten \ (Entfallen \cup Verbraucht)

Angesagt(anteil) ==
  [z \in Zeilen |->
    IF z \in anteil \cap Entfallen THEN [zeile[z] EXCEPT !.mitteilung = FALSE]
    ELSE IF z \in anteil \cap Faellig THEN [zeile[z] EXCEPT !.versuche = @ + 1] ELSE zeile[z]]

\* A row about the Ansetzung left is unclosed, or holds its notice and this answer does not.
waiting ==
  \E z \in Da : /\ zeile[z].slot # spiel.slot
                /\ Offen(z) \/ (zeile[z].grund = "ansetzung_geaendert" /\ zeile[z].mitteilung
                                /\ z \notin pass.angekuendigt)

anfrage_is_due == ~spiel.ab /\ heute < Tag[spiel.slot] /\ Tag[spiel.slot] <= heute + ANFRAGE_FENSTER

frist_of == IF Tag[spiel.slot] <= heute + FRIST_TAGE THEN heute ELSE Tag[spiel.slot] - FRIST_TAGE

Naechste == CHOOSE z \in Zeilen \ Da : \A y \in Zeilen \ Da : z <= y

\* The club's rows holding its question about the Ansetzung; without one, a row is inserted,
\* and one taking an answer is minted the links its seats still lack.
Bestehend == {z \in Da : zeile[z].slot = spiel.slot /\ build_holding_filter(z)}

Eingefuegt ==
  IF ~waiting /\ anfrage_is_due /\ Bestehend = {} /\ Da # Zeilen THEN {Naechste} ELSE {}

Nachgefragt ==
  {z \in Bestehend : ~waiting /\ anfrage_is_due /\ build_answerable_filter(z) /\ heute <= zeile[z].frist}

\* No link for a mailbox the ban list holds: its seat stays due.
Links ==
  {l \in (Eingefuegt \cup Nachgefragt) \X (Postfaecher \ gesperrt) :
     l[1] \in Eingefuegt \/ l[2] \notin zeile[l[1]].links}

Gefragt ==
  [z \in Zeilen |->
    IF z \in Eingefuegt
    THEN [da |-> TRUE, slot |-> spiel.slot, frist |-> frist_of, links |-> Postfaecher \ gesperrt,
          angefragt |-> 0, erinnert |-> {}, antwort |-> "keine", grund |-> "offen",
          mitteilung |-> FALSE, versuche |-> 0]
    ELSE IF z \in Nachgefragt THEN [zeile[z] EXCEPT !.links = @ \cup (Postfaecher \ gesperrt)]
    ELSE zeile[z]]

\* Variant: a row whose stamp was lost is not asked again.
NochmalFaellig_Nie(z) == FALSE

\* Asked again while its request was never stamped as sent, and answerable.
NochmalFaellig(z) == zeile[z].angefragt = 0 /\ heute <= zeile[z].frist

ErinnerungFaellig(z) ==
  /\ zeile[z].angefragt \notin {0, heute} /\ heute \notin zeile[z].erinnert
  /\ \E tage \in ERINNERUNG_TAGE : zeile[z].frist = heute + tage

build_erinnerung_filter ==
  {z \in Zeilen \ pass.eingefuegt :
     /\ build_answerable_filter(z) /\ grund_to_close(z) = "offen"
     /\ NochmalFaellig(z) \/ ErinnerungFaellig(z)}

\* The mailboxes holding a link that this pass's mint did not just ask, and of these the
\* ones no ban holds.
Uebrig(z) == {p \in zeile[z].links : <<z, p>> \notin pass.anfragen}
Erreichbar(z) == Uebrig(z) \ gesperrt

\* A row whose first request was never stamped goes out worded as the request, unmarked.
Nochmal ==
  {l \in Zeilen \X Postfaecher :
     l[1] \in build_erinnerung_filter /\ zeile[l[1]].angefragt = 0 /\ l[2] \in Erreichbar(l[1])}

Erinnerungen == {z \in build_erinnerung_filter : zeile[z].angefragt # 0 /\ Erreichbar(z) # {}}

\* The day is stamped before anything can be mailed, and where every mailbox was just asked.
Vermerkt == Erinnerungen \cup {z \in build_erinnerung_filter : zeile[z].angefragt # 0 /\ zeile[z].links # {} /\ Uebrig(z) = {}}

Erinnert(anteil) ==
  [z \in Zeilen |-> IF z \in anteil \cap Vermerkt
                    THEN [zeile[z] EXCEPT !.erinnert = @ \cup {heute}] ELSE zeile[z]]

------------------------------------------------------------------------------
(* The pass. *)

Post == <<gebeten, gewarnt, erinnert, abgetan>>
Liga == <<heute, spiel, gesperrt>>

Stoerung == vorrat.stoerungen > 0 /\ vorrat' = [vorrat EXCEPT !.stoerungen = @ - 1]
Glatt == UNCHANGED vorrat

\* A step takes every row due, or leaves some: past the season's share, or passed over as
\* failing alone.
Umfang(anteil, alle) == IF anteil = alle THEN Glatt ELSE Stoerung

Setze(p) == pass' = p

runSpielSweep ==
  /\ Glatt
  /\ pass.schritt = "ruht"
  /\ Setze([Ruhe EXCEPT !.schritt = "schliesst"])
  /\ UNCHANGED <<Liga, zeile, Post, entledigt>>

close ==
  /\ pass.schritt = "schliesst"
  /\ \E anteil \in SUBSET ZuSchliessen : Umfang(anteil, ZuSchliessen) /\ zeile' = Geschlossen(anteil)
  /\ Setze([pass EXCEPT !.schritt = "sagt_an"])
  /\ UNCHANGED <<Liga, Post, entledigt>>

\* Some rows answered, and some taken whose half's commit went unanswered.
tell ==
  /\ pass.schritt = "sagt_an"
  /\ \E anteil \in SUBSET Gehalten : \E verloren \in SUBSET (Gehalten \ anteil) :
       /\ Umfang(anteil, Gehalten)
       /\ zeile' = Angesagt(anteil \cup verloren)
       /\ entledigt' = entledigt \cup (Entfallen \cap (anteil \cup verloren))
       /\ Setze([pass EXCEPT !.schritt = "fragt", !.hinweise = Faellig \cap anteil,
                             !.aufgegeben = Verbraucht \cap anteil,
                             !.angekuendigt = (Faellig \cup Verbraucht) \cap anteil])
  /\ UNCHANGED <<Liga, Post>>

\* The fixture asked about whole, or left: past the share, passed over, or its half's commit
\* unanswered.
mint ==
  /\ pass.schritt = "fragt"
  /\ \/ /\ Glatt /\ zeile' = Gefragt
        /\ Setze([pass EXCEPT !.schritt = "erinnert", !.anfragen = Links, !.eingefuegt = Eingefuegt])
     \/ /\ Stoerung /\ zeile' \in {zeile, Gefragt}
        /\ Setze([pass EXCEPT !.schritt = "erinnert"])
  /\ UNCHANGED <<Liga, Post, entledigt>>

remind ==
  /\ pass.schritt = "erinnert"
  /\ \E anteil \in SUBSET build_erinnerung_filter :
       \E verloren \in SUBSET (build_erinnerung_filter \ anteil) :
         /\ Umfang(anteil, build_erinnerung_filter)
         /\ zeile' = Erinnert(anteil \cup verloren)
         /\ Setze([pass EXCEPT !.schritt = "hinweise", !.eingefuegt = {},
                               !.anfragen = @ \cup {l \in Nochmal : l[1] \in anteil},
                               !.erinnerungen = Erinnerungen \cap anteil])
  /\ UNCHANGED <<Liga, Post, entledigt>>

\* The step that failed, or whose commit went unanswered, is over for the call: what
\* committed before it and is owed a message, here or of another fixture, is answered, else
\* the call fails and the season's pass is over.
Abgebrochen ==
  \/ Setze([pass EXCEPT !.schritt = "hinweise", !.eingefuegt = {}])
  \/ pass.hinweise = {} /\ pass.anfragen = {} /\ Setze(Ruhe)

after_what_is_owed ==
  /\ Stoerung
  /\ \/ /\ pass.schritt = "schliesst" /\ Setze(Ruhe)
        /\ \E anteil \in SUBSET ZuSchliessen : zeile' = Geschlossen(anteil)
        /\ UNCHANGED entledigt
     \/ /\ pass.schritt = "sagt_an" /\ Setze(Ruhe)
        /\ \E anteil \in SUBSET Gehalten :
             zeile' = Angesagt(anteil) /\ entledigt' = entledigt \cup (Entfallen \cap anteil)
     \/ pass.schritt = "fragt" /\ Abgebrochen /\ zeile' \in {zeile, Gefragt} /\ UNCHANGED entledigt
     \/ /\ pass.schritt = "erinnert" /\ Abgebrochen
        /\ \E anteil \in SUBSET build_erinnerung_filter : zeile' = Erinnert(anteil)
        /\ UNCHANGED entledigt
  /\ UNCHANGED <<Liga, Post>>

\* The process restarts, or the call's answer is lost.
Neustart ==
  /\ Stoerung
  /\ pass.schritt # "ruht"
  /\ Setze(Ruhe)
  /\ UNCHANGED <<Liga, zeile, Post, entledigt>>

\* How one send can end; the gate asks the ban list before anything is sent or filed.
Ausgaenge(p) ==
  IF p \in gesperrt THEN {"gesperrt"}
  ELSE CASE vorrat.versand = "geht" -> {"gesendet"}
         [] vorrat.versand = "stockt" -> {"gesendet", "ungewiss", "fehlgeschlagen"}
         [] OTHER -> {"zurueckgehalten"}

\* Counted as sent though nothing was mailed: barred, or filed where nothing mails.
Entbehrlich(ausgang) ==
  ausgang = "gesperrt" \/ (ausgang = "zurueckgehalten" /\ vorrat.versand = "ohne_versand")

\* Variant: a send that broke off counts as sent.
istVersandt_Ungewiss(ausgang) == ausgang \in {"gesendet", "ungewiss"} \/ Entbehrlich(ausgang)

istVersandt(ausgang) == ausgang = "gesendet" \/ Entbehrlich(ausgang)

\* How a fan-out ends, mailbox by mailbox, and where it arrived: wherever it was accepted,
\* and perhaps where it broke off.
Ausgehend(empfaenger) == {a \in [empfaenger -> UNION {Ausgaenge(p) : p \in empfaenger}] :
                            \A p \in empfaenger : a[p] \in Ausgaenge(p)}

Angekommen(empfaenger, ausgang) ==
  {{p \in empfaenger : ausgang[p] = "gesendet"} \cup an : an \in SUBSET {p \in empfaenger : ausgang[p] = "ungewiss"}}

Versandt(empfaenger, ausgang) == \E p \in empfaenger : istVersandt(ausgang[p])

Abgetan(art, z, empfaenger, ausgang) ==
  abgetan' = IF \E p \in empfaenger : Entbehrlich(ausgang[p]) THEN abgetan \cup {<<art, z>>} ELSE abgetan

\* The club's notice, a message to each mailbox: sent once any mailbox's was. Those of a move
\* come first, and one that did not go holds the fresh request back from its mailboxes.
mailTeamHinweis(z, ausgang, an) ==
  /\ Glatt
  /\ pass.schritt = "hinweise" /\ z \in pass.hinweise
  /\ (\E y \in pass.hinweise : zeile[y].grund = "ansetzung_geaendert") => zeile[z].grund = "ansetzung_geaendert"
  /\ ausgang \in Ausgehend(Postfaecher) /\ an \in Angekommen(Postfaecher, ausgang)
  /\ gewarnt' = gewarnt \cup ({z} \X an)
  /\ Abgetan("hinweis", z, Postfaecher, ausgang)
  /\ Setze([pass EXCEPT !.hinweise = @ \ {z},
             !.mitgeteilt = IF Versandt(Postfaecher, ausgang) THEN @ \cup {z} ELSE @,
             !.ungewarnt = IF zeile[z].grund = "ansetzung_geaendert" /\ ~Versandt(Postfaecher, ausgang)
                           THEN Postfaecher ELSE @])
  /\ UNCHANGED <<Liga, zeile, gebeten, erinnert, entledigt>>

\* Every notice tried; one given up is logged for the administrator and stamped alike.
HinweiseFertig ==
  /\ Glatt
  /\ pass.schritt = "hinweise" /\ pass.hinweise = {}
  /\ Setze([pass EXCEPT !.schritt = "mitgeteilt", !.mitgeteilt = @ \cup pass.aufgegeben,
                        !.aufgegeben = {}])
  /\ entledigt' = entledigt \cup pass.aufgegeben
  /\ UNCHANGED <<Liga, zeile, Post>>

Mitgeteilt(anteil) ==
  [z \in Zeilen |-> IF z \in anteil THEN [zeile[z] EXCEPT !.mitteilung = FALSE] ELSE zeile[z]]

\* Caught where it fails: the reminders stamped already are mailed whatever became of it.
postMitgeteilt ==
  /\ pass.schritt = "mitgeteilt"
  /\ \E anteil \in SUBSET pass.mitgeteilt : Umfang(anteil, pass.mitgeteilt) /\ zeile' = Mitgeteilt(anteil)
  /\ Setze([pass EXCEPT !.schritt = "erinnerungen", !.mitgeteilt = {}])
  /\ UNCHANGED <<Liga, Post, entledigt>>

\* However its sends end: the day was stamped.
mailErinnerung(z) ==
  /\ Glatt
  /\ pass.schritt = "erinnerungen" /\ z \in pass.erinnerungen
  /\ erinnert' = [erinnert EXCEPT ![z] = IF @ < 2 THEN @ + 1 ELSE 2]
  /\ Setze([pass EXCEPT !.erinnerungen = @ \ {z}])
  /\ UNCHANGED <<Liga, zeile, gebeten, gewarnt, abgetan, entledigt>>

ErinnerungenFertig ==
  /\ Glatt
  /\ pass.schritt = "erinnerungen" /\ pass.erinnerungen = {}
  /\ Setze([pass EXCEPT !.schritt = "anfragen"])
  /\ UNCHANGED <<Liga, zeile, Post, entledigt>>

Empfaenger(z) == {p \in Postfaecher : <<z, p>> \in pass.anfragen}

\* Variant: the fresh request goes though the notice before it did not.
wartet_Nie(z) == FALSE

\* The whole row waits where one of its mailboxes is unwarned.
wartet(z) == Empfaenger(z) \cap pass.ungewarnt # {}

mailAnfrage(z, ausgang, an) ==
  /\ Glatt
  /\ pass.schritt = "anfragen" /\ Empfaenger(z) # {} /\ ~wartet(z)
  /\ ausgang \in Ausgehend(Empfaenger(z)) /\ an \in Angekommen(Empfaenger(z), ausgang)
  /\ gebeten' = gebeten \cup ({z} \X an)
  /\ Abgetan("anfrage", z, Empfaenger(z), ausgang)
  /\ Setze([pass EXCEPT !.anfragen = {l \in @ : l[1] # z},
             !.angefragt = IF Versandt(Empfaenger(z), ausgang) THEN @ \cup {z} ELSE @])
  /\ UNCHANGED <<Liga, zeile, gewarnt, erinnert, entledigt>>

AnfragenFertig ==
  /\ Glatt
  /\ pass.schritt = "anfragen" /\ \A l \in pass.anfragen : wartet(l[1])
  /\ Setze(IF pass.angefragt = {} THEN Ruhe ELSE [Ruhe EXCEPT !.schritt = "angefragt", !.angefragt = pass.angefragt])
  /\ UNCHANGED <<Liga, zeile, Post, entledigt>>

\* Answered or closed since or not; a row stamped already keeps its day.
Angefragt(anteil) ==
  [z \in Zeilen |-> IF z \in anteil /\ zeile[z].angefragt = 0
                    THEN [zeile[z] EXCEPT !.angefragt = heute] ELSE zeile[z]]

\* Thrown where it fails, and logged: the season's pass is over either way.
postAngefragt ==
  /\ pass.schritt = "angefragt"
  /\ \E anteil \in SUBSET pass.angefragt : Umfang(anteil, pass.angefragt) /\ zeile' = Angefragt(anteil)
  /\ Setze(Ruhe)
  /\ UNCHANGED <<Liga, Post, entledigt>>

------------------------------------------------------------------------------
(* The league around it. *)

\* A new day; the pass running goes on with the day its call began, which the fixture's
\* rows are judged by, so a day turns between passes.
NeuerTag ==
  /\ Glatt
  /\ heute < TAGE /\ pass.schritt = "ruht"
  /\ heute' = heute + 1
  /\ erinnert' = [z \in Zeilen |-> 0]
  /\ UNCHANGED <<spiel, gesperrt, zeile, pass, gebeten, gewarnt, abgetan, entledigt>>

Eingriff(s) ==
  /\ vorrat.eingriffe > 0 /\ s # spiel
  /\ spiel' = s /\ vorrat' = [vorrat EXCEPT !.eingriffe = @ - 1]
  /\ UNCHANGED <<heute, gesperrt, zeile, pass, Post, entledigt>>

Verlegen(slot) == Eingriff([spiel EXCEPT !.slot = slot])
Absagen == Eingriff([spiel EXCEPT !.ab = ~@])

\* A ban is put on a mailbox, or lifted.
Sperren(p) ==
  /\ vorrat.sperren > 0 /\ vorrat' = [vorrat EXCEPT !.sperren = @ - 1]
  /\ gesperrt' = IF p \in gesperrt THEN gesperrt \ {p} ELSE gesperrt \cup {p}
  /\ UNCHANGED <<heute, spiel, zeile, pass, Post, entledigt>>

find_spent_link_refusal(z) ==
  ~(build_answerable_filter(z) /\ grund_to_close(z) = "offen" /\ heute <= zeile[z].frist)

\* A seat answers through a link that reached it.
Antworten(z, antwort) ==
  /\ vorrat.antworten > 0 /\ vorrat' = [vorrat EXCEPT !.antworten = @ - 1]
  /\ \E p \in Postfaecher : <<z, p>> \in gebeten
  /\ ~find_spent_link_refusal(z)
  /\ zeile' = [zeile EXCEPT ![z].antwort = antwort]
  /\ UNCHANGED <<Liga, pass, Post, entledigt>>

\* The administrator discards the date a decline proposed; the club is owed a notice.
Verwerfen(z) ==
  /\ Glatt
  /\ Offen(z) /\ zeile[z].antwort = "abgelehnt" /\ zeile[z].slot = spiel.slot
  /\ zeile' = [zeile EXCEPT ![z].grund = "verworfen", ![z].mitteilung = _notice_to_come(z, "verworfen"),
                            ![z].versuche = 0]
  /\ UNCHANGED <<Liga, pass, Post, entledigt>>

Init ==
  /\ heute = 1
  /\ vorrat \in Vorraete
  /\ spiel \in [slot : Anfangs, ab : {FALSE}]
  /\ zeile = [z \in Zeilen |->
       [da |-> FALSE, slot |-> spiel.slot, frist |-> 1, links |-> {}, angefragt |-> 0, erinnert |-> {},
        antwort |-> "keine", grund |-> "offen", mitteilung |-> FALSE, versuche |-> 0]]
  /\ pass = Ruhe /\ gesperrt = vorrat.gesperrt
  /\ gebeten = {} /\ gewarnt = {} /\ erinnert = [z \in Zeilen |-> 0] /\ abgetan = {} /\ entledigt = {}

Hinweis(z) == \E ausgang \in Ausgehend(Postfaecher) : \E an \in Angekommen(Postfaecher, ausgang) :
                mailTeamHinweis(z, ausgang, an)

Anfrage(z) == \E ausgang \in Ausgehend(Empfaenger(z)) : \E an \in Angekommen(Empfaenger(z), ausgang) :
                mailAnfrage(z, ausgang, an)

Versenden ==
  \/ \E z \in Zeilen : Hinweis(z) \/ Anfrage(z) \/ mailErinnerung(z)
  \/ HinweiseFertig \/ ErinnerungenFertig \/ AnfragenFertig

Schritt ==
  \/ runSpielSweep \/ close \/ tell \/ mint \/ remind \/ after_what_is_owed
  \/ Versenden \/ postMitgeteilt \/ postAngefragt

Next ==
  \/ Schritt \/ Neustart \/ NeuerTag \/ Absagen
  \/ \E slot \in Slots : Verlegen(slot)
  \/ \E p \in Postfaecher : Sperren(p)
  \/ \E z \in Zeilen : Verwerfen(z) \/ \E antwort \in {"zugesagt", "abgelehnt"} : Antworten(z, antwort)

\* A request about row z accepted for every mailbox the ban list does not hold.
Angenommen(z) ==
  LET ausgang == [p \in Empfaenger(z) |-> IF p \in gesperrt THEN "gesperrt" ELSE "gesendet"]
  IN  mailAnfrage(z, ausgang, Empfaenger(z) \ gesperrt)

\* The interval goes on and a pass runs to its end; the failures of a history are as many
\* as it holds. No request is refused for ever, and a notice may be.
Fairness == WF_vars(Schritt) /\ \A z \in Zeilen : SF_vars(Angenommen(z))

Spec == Init /\ [][Next]_vars /\ Fairness

------------------------------------------------------------------------------
(* What the club is promised. *)

Geaendert(z) == zeile[z].da /\ zeile[z].grund = "ansetzung_geaendert" /\ zeile[z].angefragt # 0

\* Told somewhere; or nobody could be, its message barred or filed; or it was given up for
\* the administrator to tell, or lost its closing.
Gewarnt(z) ==
  \/ \E p \in Postfaecher : <<z, p>> \in gewarnt
  \/ <<"hinweis", z>> \in abgetan \/ z \in entledigt

Gebeten(z) == (\E p \in Postfaecher : <<z, p>> \in gebeten) \/ <<"anfrage", z>> \in abgetan

\* Asked about a day still to come, by a row closed over a move or not closed yet.
Ueberholt(z) ==
  /\ zeile[z].da /\ zeile[z].angefragt # 0 /\ Tag[zeile[z].slot] >= heute
  /\ zeile[z].grund \in {"offen", "ansetzung_geaendert"}

\* Answered by an earlier pass to no stamp, and left out of this one's answer: past the
\* season's share, passed over, or its commit unanswered.
Uebergangen(z) == zeile[z].mitteilung /\ zeile[z].versuche > 0 /\ z \notin pass.angekuendigt

\* A request about a moved fixture reaches no mailbox of the club before the club was told
\* that what it was asked before is void: with the notice failing, or not answered yet, the
\* request waits. Only a notice an earlier pass tried, and this pass's answer leaves out,
\* can be overtaken, by its fixture's row being asked again.
HinweisVorDerNeuenAnfrage ==
  [][\A z \in Zeilen, p \in Postfaecher : <<z, p>> \in gebeten' \ gebeten =>
       \A y \in Zeilen : Ueberholt(y) /\ zeile[y].slot # zeile[z].slot => Gewarnt(y) \/ Uebergangen(y)]_vars

\* A stamp says its message went, or could not by this deployment's or the ban list's will:
\* a row stamped as asked reached a mailbox, and the club such a row was closed over a move
\* of, with no notice held, was told somewhere, unless the one ended barred, or filed where
\* nothing mails, or the other was given up, lost its closing, or is of a day gone by. A send
\* that failed or broke off, or was withheld in production, stamps nothing.
StempelHeisstGemailt ==
  /\ \A z \in Zeilen : zeile[z].angefragt # 0 => Gebeten(z)
  /\ \A z \in Zeilen : Geaendert(z) /\ ~zeile[z].mitteilung => Gewarnt(z) \/ Tag[zeile[z].slot] < heute

\* One question per Ansetzung: a row still holding it, an answered decline the league
\* discarded among them, is the club's only one about it, wherever the fixture moved between.
EineFrageJeAnsetzung ==
  \A y, z \in Da : {zeile[y].grund, zeile[z].grund} \subseteq {"offen", "verworfen"} 
                   /\ zeile[y].slot = zeile[z].slot => y = z

\* At most one reminder a day per row, and none on the day its request was stamped, however
\* often the pass is repeated behind a lost answer.
EineErinnerungAmTag ==
  \A z \in Zeilen : erinnert[z] <= 1 /\ (zeile[z].angefragt = heute => erinnert[z] = 0)

\* Nobody is asked or reminded twice: the two above, through every repeated pass.
NichtsDoppelt == EineFrageJeAnsetzung /\ EineErinnerungAmTag

\* A notice held on a row is not held for ever, though the provider refuse every one.
JederHinweisEndet ==
  \A z \in Zeilen : zeile[z].mitteilung ~> ~zeile[z].mitteilung

\* A row taking an answer does not stay unasked, though every notice ahead of it be refused:
\* it is stamped as asked, or stops taking an answer, where its club has a mailbox no ban
\* holds and production has its key.
KeineZeileBleibtUngefragt ==
  \A z \in Zeilen : (build_answerable_filter(z) /\ zeile[z].angefragt = 0)
                      ~> ~(build_answerable_filter(z) /\ zeile[z].angefragt = 0 /\ heute <= zeile[z].frist
                           /\ grund_to_close(z) = "offen"
                           /\ gesperrt # Postfaecher /\ vorrat.versand # "ohne_schluessel")

\* Nothing a pass owes is owed for ever: the two above, whatever a history of failures did.
NichtsBleibtLiegen == JederHinweisEndet /\ KeineZeileBleibtUngefragt

\* What the frontend's rules say of a mailbox: a fresh request waits while the notice that
\* voids the earlier one has not gone to that mailbox.
JedesPostfachIstGewarnt ==
  [][\A z \in Zeilen, p \in Postfaecher : <<z, p>> \in gebeten' \ gebeten =>
       \A y \in Zeilen : Ueberholt(y) /\ zeile[y].slot # zeile[z].slot /\ y \notin entledigt
                         /\ <<y, p>> \in gebeten => <<y, p>> \in gewarnt]_vars

==============================================================================
