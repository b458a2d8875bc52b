----------------------------- MODULE Postausgang -----------------------------
(* Two outboxes of the backend and the passes of fl_frontend that empty them: the
   changes to the grants (features/berechtigungen/abgleich.ts) and the notices an
   address change's end owes (features/adresswechsel/postausgang.ts), each mailed
   through core/mail.ts.

   A pass claims rows under a lease, mails them, and stamps what was mailed. The
   claim, every send and the stamp may be lost after they took effect; the lease
   may lapse under a pass still mailing; a change or the interval may ask for a
   second pass while one runs; a deploy restarts the process. *)
EXTENDS Naturals, FiniteSets, Functions

CONSTANTS
  Zeilen,              \* outbox rows
  Empfaenger,          \* mailboxes
  Instanzen,           \* copies of the module Next may load; each drains for itself
  Boot,                \* the one whose interval is armed
  Keine,               \* no row, no mailbox, no instance
  Lagen,               \* the outbox, its rows and what fails, chosen at the start
  BEANSPRUCHUNG_DAUER, \* the lease, in passes of the interval
  VERSUCHE_HOECHSTENS, \* claims a row is handed out by before it is given up
  MAIL_ATTEMPTS

ASSUME BootAssumption == Boot \in Instanzen
ASSUME KeineAssumption == Keine \notin Zeilen \cup Empfaenger \cup Instanzen
ASSUME ZahlenAssumption ==
  BEANSPRUCHUNG_DAUER \in Nat \ {0} /\ VERSUCHE_HOECHSTENS \in Nat \ {0} /\ MAIL_ATTEMPTS \in Nat \ {0}

VARIABLES
  lage,      \* which outbox, which rows, who no send reaches, what may fail, and
             \* the bounds of a history
  zeile,     \* the outbox
  pass,      \* each instance's pass
  offen,     \* each instance's memory of recipients told of a row it did not stamp
  angenommen,\* the keys the provider collapses a repeat of, inside its day
  post,      \* messages in each mailbox about each row, per wording
  konto,     \* where the account of an address change's row stands
  neustarts, \* restarts so far
  unterbrochen, \* ghost: rows whose lease lapsed under a pass, or whose pass or stamp was lost
  letzter    \* ghost: how the last send ended, and whether the provider took it

vars == <<lage, zeile, pass, offen, angenommen, post, konto, unterbrochen, neustarts, letzter>>

Fassungen == 1..2

\* How an attempt at the provider ends: taken; taken with the answer lost; broken off before
\* it arrived; refused for now; refused for good; or never sent, the budget being spent.
Ausgaenge == {"angenommen", "verschluckt", "abgebrochen", "vorlaeufig", "endgueltig", "ungesandt"}

\* traegt: the rows of an address change that carry the replaced address's account; one
\* made because that address was lost, and one that did not take effect, carry none.
Lage == [art : {"berechtigung", "adresswechsel"}, zeilen : SUBSET Zeilen,
         traegt : SUBSET Zeilen, empfaenger : SUBSET Empfaenger, unerreichbar : SUBSET Empfaenger,
         instanzen : SUBSET Instanzen, fassungen : Fassungen, neustarts : 0..1,
         ausgaenge : SUBSET Ausgaenge, verlust : BOOLEAN]

ASSUME LagenAssumption ==
  /\ Lagen \subseteq Lage
  /\ \A l \in Lagen : Boot \in l.instanzen /\ l.zeilen # {}
  /\ \A l \in Lagen : l.art = "adresswechsel" => \E e \in Empfaenger : l.empfaenger = {e}

\* The account of a row that carries one: still at the replaced address and none at the new;
\* none at the replaced address, moved or never there; or the new address holding its own.
Konten == {"alt", "keines", "belegt"}

Ruhe == [laeuft |-> FALSE, nochmal |-> FALSE, schritt |-> "ruht", zeilen |-> {},
         aufgegeben |-> {}, fassung |-> [z \in Zeilen |-> 1], zeile |-> Keine, rest |-> {},
         erreicht |-> {}, alle |-> TRUE, erledigt |-> {}, voll |-> TRUE, an |-> Keine,
         versuch |-> 0, brokeOff |-> FALSE, ging |-> FALSE]

Pass == [laeuft : BOOLEAN, nochmal : BOOLEAN,
         schritt : {"ruht", "beansprucht", "verschickt", "stempelt"},
         zeilen : SUBSET Zeilen, aufgegeben : SUBSET Zeilen, fassung : [Zeilen -> Fassungen],
         zeile : Zeilen \cup {Keine}, rest : SUBSET Empfaenger, erreicht : SUBSET Empfaenger,
         alle : BOOLEAN, erledigt : SUBSET Zeilen, voll : BOOLEAN,
         an : Empfaenger \cup {Keine}, versuch : 0..MAIL_ATTEMPTS, brokeOff : BOOLEAN,
         ging : BOOLEAN]

\* Rows, passes and mailboxes have their shapes, and an instance without a pass remembers
\* nothing of the last one but who was told.
TypeOK ==
  /\ lage \in Lagen
  /\ \A i \in Instanzen : pass[i].laeuft \/ pass[i] = Ruhe
  /\ zeile \in [Zeilen -> [stand : {"nie", "da", "gestempelt", "aufgegeben"},
                           frist : 0..BEANSPRUCHUNG_DAUER, bei : Instanzen \cup {Keine},
                           versuche : 0..VERSUCHE_HOECHSTENS, fassung : Fassungen]]
  /\ pass \in [Instanzen -> Pass]
  /\ offen \in [Instanzen -> [Zeilen -> SUBSET Empfaenger]]
  /\ angenommen \subseteq Zeilen \X Empfaenger \X Fassungen
  /\ post \in [Zeilen \X Empfaenger \X Fassungen -> 0..2]
  /\ konto \in [Zeilen -> Konten]
  /\ unterbrochen \subseteq Zeilen
  /\ neustarts \in 0..1
  /\ letzter \in [ausfall : {"gesendet", "ungewiss", "fehlgeschlagen"}, ging : BOOLEAN]

Keyed == lage.art = "berechtigung"

\* What a pass is at work on, or has done and not yet stamped.
InArbeit(p) == p.zeilen \cup p.erledigt \cup (IF p.zeile = Keine THEN {} ELSE {p.zeile})

\* Rows a pass loses hold of before their stamp: kept of the notices, whose sends have no key.
Unterbricht(zs) == unterbrochen' = IF Keyed THEN unterbrochen ELSE unterbrochen \cup zs

------------------------------------------------------------------------------
(* A pass asked for, and its rounds. *)

\* A pass, or one more round behind the one already running.
runAbgleich(p) ==
  IF p.laeuft THEN [p EXCEPT !.nochmal = TRUE]
  ELSE [Ruhe EXCEPT !.laeuft = TRUE, !.schritt = "beansprucht"]

\* Variant: a round that ends keeps its rows.
RundeZuEnde_MitZeilen(p) ==
  IF p.nochmal THEN [p EXCEPT !.nochmal = FALSE, !.schritt = "beansprucht"]
  ELSE [p EXCEPT !.laeuft = FALSE, !.schritt = "ruht"]

\* The round is over: the one queued behind it, or none.
RundeZuEnde(p) ==
  IF p.nochmal THEN [Ruhe EXCEPT !.laeuft = TRUE, !.schritt = "beansprucht"] ELSE Ruhe

Setze(i, p) == pass' = [pass EXCEPT ![i] = p]

\* A change commits with its outbox row; its action runs a pass behind the response, in
\* whichever copy of the module serves actions.
Aendert(z) ==
  /\ z \in lage.zeilen /\ zeile[z].stand = "nie"
  /\ zeile' = [zeile EXCEPT ![z].stand = "da"]
  /\ \E i \in lage.instanzen : Setze(i, runAbgleich(pass[i]))
  /\ UNCHANGED <<lage, offen, angenommen, post, konto, unterbrochen, neustarts, letzter>>

\* An erasure or a ban commits: the row's address is withheld, its notice worded anew.
Umgeschrieben(z) ==
  /\ Keyed /\ zeile[z].stand = "da" /\ zeile[z].fassung < lage.fassungen
  /\ zeile' = [zeile EXCEPT ![z].fassung = @ + 1]
  /\ UNCHANGED <<lage, pass, offen, angenommen, post, konto, unterbrochen, neustarts, letzter>>

\* The new address's holder signs in there before the account has followed: every press and
\* approval refuses an address an account stands at, so only one opened since is met.
KontoEroeffnet(z) ==
  /\ ~Keyed /\ z \in lage.traegt /\ zeile[z].stand = "da" /\ konto[z] = "alt"
  /\ konto' = [konto EXCEPT ![z] = "belegt"]
  /\ UNCHANGED <<lage, zeile, pass, offen, angenommen, post, unterbrochen, neustarts, letzter>>

\* One interval of the grants' pass: leases run, and the armed instance is asked. The
\* hourly pass that asks the other outbox is taken at the same rhythm.
Tick ==
  /\ zeile' = [z \in Zeilen |-> [zeile[z] EXCEPT !.frist = IF @ = 0 THEN 0 ELSE @ - 1]]
  /\ Setze(Boot, runAbgleich(pass[Boot]))
  /\ Unterbricht({z \in Zeilen : zeile[z].frist = 1 /\ \E i \in Instanzen : z \in InArbeit(pass[i])})
  /\ UNCHANGED <<lage, offen, angenommen, post, konto, neustarts, letzter>>

Neustart ==
  /\ neustarts < lage.neustarts
  /\ neustarts' = neustarts + 1
  /\ pass' = [i \in Instanzen |-> Ruhe]
  /\ offen' = [i \in Instanzen |-> [z \in Zeilen |-> {}]]
  /\ Unterbricht(UNION {InArbeit(pass[i]) : i \in Instanzen})
  /\ UNCHANGED <<lage, zeile, angenommen, post, konto, letzter>>

------------------------------------------------------------------------------
(* The claim. *)

\* Variant: a claim hands out what another still holds.
read_the_claimable_OhneFrist == {z \in Zeilen : zeile[z].stand = "da"}

\* Every row still in the outbox that no lease holds.
read_the_claimable == {z \in Zeilen : zeile[z].stand = "da" /\ zeile[z].frist = 0}

\* Variant: no row is ever given up.
aufgegeben_Nie(z) == FALSE

\* Handed out past the attempt cap.
aufgegeben(z) == zeile[z].versuche >= VERSUCHE_HOECHSTENS

\* The cap is where counting stops to matter: the code counts on.
Beanspruche(i, held) ==
  zeile' = [z \in Zeilen |->
    IF z \in held
    THEN [zeile[z] EXCEPT !.frist = BEANSPRUCHUNG_DAUER, !.bei = i,
                          !.versuche = IF @ < VERSUCHE_HOECHSTENS THEN @ + 1 ELSE @]
    ELSE zeile[z]]

\* The memory keeps only what this claim holds.
Gehalten(i, held) ==
  offen' = IF Keyed
           THEN [offen EXCEPT ![i] = [z \in Zeilen |-> IF z \in held THEN offen[i][z] ELSE {}]]
           ELSE offen

Claim(i) ==
  LET held == read_the_claimable IN
  /\ pass[i].schritt = "beansprucht"
  /\ Beanspruche(i, held)
  /\ Gehalten(i, held)
  /\ Setze(i, IF held = {} THEN RundeZuEnde(pass[i])
              ELSE [pass[i] EXCEPT !.schritt = "verschickt", !.zeilen = held,
                      !.aufgegeben = {z \in held : aufgegeben(z)},
                      !.fassung = [z \in Zeilen |-> zeile[z].fassung]])
  /\ UNCHANGED <<lage, angenommen, post, konto, unterbrochen, neustarts, letzter>>

\* The claim fails, or its answer is lost behind its commit.
ClaimLost(i) ==
  /\ lage.verlust
  /\ pass[i].schritt = "beansprucht"
  /\ \/ UNCHANGED zeile
     \/ Beanspruche(i, read_the_claimable)
  /\ Setze(i, RundeZuEnde(pass[i]))
  /\ UNCHANGED <<lage, offen, angenommen, post, konto, unterbrochen, neustarts, letzter>>

------------------------------------------------------------------------------
(* One row. *)

Verschickt(i) == pass[i].schritt = "verschickt"

\* Given up: stamped with nothing sent.
Aufgeben(i, z) ==
  /\ Verschickt(i) /\ pass[i].zeile = Keine
  /\ z \in pass[i].zeilen \cap pass[i].aufgegeben
  /\ Setze(i, [pass[i] EXCEPT !.zeilen = @ \ {z}, !.erledigt = @ \cup {z}])
  /\ offen' = [offen EXCEPT ![i][z] = {}]
  /\ UNCHANGED <<lage, zeile, angenommen, post, konto, unterbrochen, neustarts, letzter>>

\* A recipient an earlier pass of this instance told is not mailed again; a notice whose
\* change carries the account goes once none is left to move, or none can be moved.
Anfangen(i, z) ==
  /\ Verschickt(i) /\ pass[i].zeile = Keine
  /\ z \in pass[i].zeilen \ pass[i].aufgegeben
  /\ Keyed \/ z \notin lage.traegt \/ konto[z] # "alt"
  /\ Setze(i, [pass[i] EXCEPT !.zeilen = @ \ {z}, !.zeile = z, !.alle = TRUE,
                 !.rest = lage.empfaenger \ offen[i][z], !.erreicht = offen[i][z]])
  /\ UNCHANGED <<lage, zeile, offen, angenommen, post, konto, unterbrochen, neustarts, letzter>>

Zieht(z) == konto' = [konto EXCEPT ![z] = IF @ = "alt" THEN "keines" ELSE @]

\* The account moves to the new address, its notice next; or the move throws, before or
\* behind its write, the row is kept and its notice unsent.
carryAccount(i, z) ==
  /\ Verschickt(i) /\ pass[i].zeile = Keine /\ ~Keyed /\ z \in lage.traegt
  /\ z \in pass[i].zeilen \ pass[i].aufgegeben
  /\ \/ konto[z] = "alt" /\ Zieht(z) /\ UNCHANGED pass
     \/ /\ Zieht(z) \/ UNCHANGED konto
        /\ Setze(i, [pass[i] EXCEPT !.zeilen = @ \ {z}, !.voll = FALSE])
  /\ UNCHANGED <<lage, zeile, offen, angenommen, post, unterbrochen, neustarts, letzter>>

\* Barred, withheld or no mailbox: settled without a message.
Entfaellt(i, e) ==
  /\ Verschickt(i) /\ pass[i].an = Keine
  /\ e \in pass[i].rest \cap lage.unerreichbar
  /\ Setze(i, [pass[i] EXCEPT !.rest = @ \ {e}])
  /\ UNCHANGED <<lage, zeile, offen, angenommen, post, konto, unterbrochen, neustarts, letzter>>

------------------------------------------------------------------------------
(* One send: attempts against the provider until one is answered for good. *)

repeatable(ausgang) ==
  \/ ausgang = "vorlaeufig"
  \/ ausgang \in {"abgebrochen", "verschluckt"} /\ Keyed

\* The provider takes a message, unless its key repeats one of its day.
Nimmt(key, ausgang) ==
  IF ausgang \notin {"angenommen", "verschluckt"} \/ (Keyed /\ key \in angenommen)
  THEN UNCHANGED <<angenommen, post>>
  ELSE /\ post' = [post EXCEPT ![key] = IF @ < 2 THEN @ + 1 ELSE 2]
       /\ angenommen' = angenommen \cup {key}

\* Variant: the last attempt alone words the failure.
versandAusfallOf_Letzter(brokeOff, ausgang) ==
  IF ausgang \in {"abgebrochen", "verschluckt"} THEN "ungewiss" ELSE "fehlgeschlagen"

\* A send one of whose attempts broke off may have gone, whatever a later one answered.
versandAusfallOf(brokeOff, ausgang) ==
  IF brokeOff \/ ausgang \in {"abgebrochen", "verschluckt"} THEN "ungewiss" ELSE "fehlgeschlagen"

\* Variant: a send that may have gone counts as told.
Behalten_NurFehler(ausfall) == ausfall = "fehlgeschlagen"

\* The failures that keep the row: any, of a change to the grants; a definite one, of a
\* notice.
Behalten(ausfall) == Keyed \/ ausfall = "fehlgeschlagen"

deliver(i, e, ausgang) ==
  LET p == pass[i]
      key == <<p.zeile, e, p.fassung[p.zeile]>>
      ausfall == versandAusfallOf(p.brokeOff, ausgang)
      ging == p.ging \/ post'[key] > post[key]
      fertig == [p EXCEPT !.rest = @ \ {e}, !.an = Keine, !.versuch = 0,
                          !.brokeOff = FALSE, !.ging = FALSE]
  IN
  /\ Verschickt(i) /\ p.zeile # Keine /\ p.an \in {Keine, e}
  /\ e \in p.rest \ lage.unerreichbar
  /\ ausgang = "ungesandt" => p.an = Keine
  /\ Nimmt(key, ausgang)
  /\ \/ /\ ausgang = "angenommen"
        /\ Setze(i, [fertig EXCEPT !.erreicht = @ \cup {e}])
        /\ letzter' = [ausfall |-> "gesendet", ging |-> TRUE]
     \/ /\ ausgang # "angenommen" /\ repeatable(ausgang) /\ p.versuch + 1 < MAIL_ATTEMPTS
        /\ Setze(i, [p EXCEPT !.an = e, !.versuch = @ + 1, !.ging = ging,
                      !.brokeOff = @ \/ ausgang \in {"abgebrochen", "verschluckt"}])
        /\ UNCHANGED letzter
     \/ /\ ausgang # "angenommen" \* out of attempts, of budget, or not to be repeated
        /\ Setze(i, [fertig EXCEPT !.alle = @ /\ ~Behalten(ausfall)])
        /\ letzter' = [ausfall |-> ausfall, ging |-> ging]
  /\ UNCHANGED <<lage, zeile, offen, konto, unterbrochen, neustarts>>

------------------------------------------------------------------------------
(* The row's end, and the stamp. *)

ZeileFertig(i) ==
  LET p == pass[i] IN
  /\ Verschickt(i) /\ p.zeile # Keine /\ p.rest = {}
  /\ Setze(i, [p EXCEPT !.zeile = Keine, !.alle = TRUE, !.erreicht = {},
                 !.erledigt = IF p.alle THEN @ \cup {p.zeile} ELSE @,
                 !.voll = @ /\ p.alle])
  /\ offen' = IF Keyed THEN [offen EXCEPT ![i][p.zeile] = IF p.alle THEN {} ELSE p.erreicht]
              ELSE offen
  /\ UNCHANGED <<lage, zeile, angenommen, post, konto, unterbrochen, neustarts, letzter>>

AlleZeilenFertig(i) ==
  /\ Verschickt(i) /\ pass[i].zeile = Keine /\ pass[i].zeilen = {}
  /\ Setze(i, IF pass[i].erledigt = {} THEN RundeZuEnde(pass[i])
              ELSE [pass[i] EXCEPT !.schritt = "stempelt"])
  /\ UNCHANGED <<lage, zeile, offen, angenommen, post, konto, unterbrochen, neustarts, letzter>>

\* Every named row the claim still holds, and nothing else, leaves the outbox.
Gestempelt(i) ==
  zeile' = [z \in Zeilen |->
    IF z \in pass[i].erledigt /\ zeile[z].stand = "da" /\ zeile[z].bei = i
    THEN [zeile[z] EXCEPT !.stand = IF z \in pass[i].aufgegeben THEN "aufgegeben" ELSE "gestempelt",
                          !.bei = Keine, !.frist = 0]
    ELSE zeile[z]]

\* A change to the grants waits for the next pass; a page of notices delivered whole is
\* followed by the next page.
Stamp(i) ==
  /\ pass[i].schritt = "stempelt"
  /\ Gestempelt(i)
  /\ Setze(i, IF ~Keyed /\ pass[i].voll
              THEN [Ruhe EXCEPT !.laeuft = TRUE, !.schritt = "beansprucht", !.nochmal = pass[i].nochmal]
              ELSE RundeZuEnde(pass[i]))
  /\ UNCHANGED <<lage, offen, angenommen, post, konto, unterbrochen, neustarts, letzter>>

StampLost(i) ==
  /\ lage.verlust
  /\ pass[i].schritt = "stempelt"
  /\ \/ UNCHANGED zeile
     \/ Gestempelt(i)
  /\ Setze(i, RundeZuEnde(pass[i]))
  /\ Unterbricht(pass[i].erledigt)
  /\ UNCHANGED <<lage, offen, angenommen, post, konto, neustarts, letzter>>

Versenden(i) ==
  \/ \E z \in Zeilen : Aufgeben(i, z) \/ Anfangen(i, z) \/ carryAccount(i, z)
  \/ \E e \in Empfaenger : Entfaellt(i, e) \/ \E ausgang \in lage.ausgaenge : deliver(i, e, ausgang)
  \/ ZeileFertig(i)
  \/ AlleZeilenFertig(i)

\* One step of a pass.
Schritt(i) == Claim(i) \/ ClaimLost(i) \/ Versenden(i) \/ Stamp(i) \/ StampLost(i)

Init ==
  /\ lage \in Lagen
  /\ zeile = [z \in Zeilen |-> [stand |-> "nie", frist |-> 0, bei |-> Keine, versuche |-> 0,
                                fassung |-> 1]]
  /\ pass = [i \in Instanzen |-> Ruhe]
  /\ offen = [i \in Instanzen |-> [z \in Zeilen |-> {}]]
  /\ angenommen = {}
  /\ post = [m \in Zeilen \X Empfaenger \X Fassungen |-> 0]
  /\ konto = [z \in Zeilen |-> "alt"]
  /\ unterbrochen = {}
  /\ neustarts = 0
  /\ letzter = [ausfall |-> "gesendet", ging |-> TRUE]

Next ==
  \/ \E z \in Zeilen : Aendert(z) \/ Umgeschrieben(z) \/ KontoEroeffnet(z)
  \/ Tick \/ Neustart
  \/ \E i \in lage.instanzen : Schritt(i)

\* A pass still at work on a row whose lease has lapsed.
Ueberzogen(i) ==
  \E z \in InArbeit(pass[i]) : zeile[z].stand = "da" /\ zeile[z].frist = 0

\* The interval goes on, a pass runs to its end, the backend does not lose every claim that
\* hands a row out and every stamp for ever, and from some moment on a pass ends inside its
\* lease, which is ten minutes for a page of mails. The provider may refuse every message.
Fairness ==
  /\ WF_vars(Tick)
  /\ \A i \in Instanzen :
       /\ WF_vars(i \in lage.instanzen /\ Schritt(i))
       /\ SF_vars(Claim(i) /\ read_the_claimable # {})
       /\ SF_vars(Stamp(i))
       /\ <>[]~Ueberzogen(i)

Spec == Init /\ [][Next]_vars /\ Fairness

------------------------------------------------------------------------------
(* What the outbox promises. *)

\* A row leaves the outbox told: every mailbox it is for holds its message, or none could
\* reach it; of an address change's notice, whose send has no key and no second try, one
\* that broke off unanswered counts as told. Only the attempt cap lets a row go untold. Of a
\* change that carries its account, nobody is told while the account could still follow.
GestempeltHeisstErzaehlt ==
  \A z \in Zeilen :
    /\ zeile[z].stand = "gestempelt" /\ Keyed =>
         \A e \in lage.empfaenger \ lage.unerreichbar : \E f \in Fassungen : post[<<z, e, f>>] > 0
    /\ ~Keyed /\ z \in lage.traegt
         /\ (zeile[z].stand = "gestempelt" \/ \E e \in Empfaenger : post[<<z, e, 1>>] > 0) =>
           konto[z] # "alt"

\* An address change's end is told once, though its send has no key the provider collapses
\* and two copies of the module drain the outbox at once: only a lease that lapsed under a
\* pass still at work, a lost stamp or a restart mid-pass sends it again.
EinHinweisJeEnde ==
  ~Keyed => \A z \in Zeilen \ unterbrochen, e \in Empfaenger : post[<<z, e, 1>>] <= 1

\* A send called failed put nothing in the mailbox: one of whose attempts broke off is
\* called uncertain, though its last attempt was refused.
FehlgeschlagenesGingNie == letzter.ausfall = "fehlgeschlagen" => ~letzter.ging

\* No row is claimed for ever: told, or given up, it leaves the outbox.
JedeZeileGehtHinaus ==
  \A z \in Zeilen : zeile[z].stand = "da" ~> zeile[z].stand \in {"gestempelt", "aufgegeben"}

\* What abgleich.ts says of its memory: a recipient an earlier pass told is not mailed
\* again about the row, in whatever wording, by the same running instance.
KeinerErfaehrtEsZweimal ==
  neustarts = 0 =>
    \A z \in Zeilen, e \in Empfaenger : ~(post[<<z, e, 1>>] > 0 /\ post[<<z, e, 2>>] > 0)

==============================================================================
