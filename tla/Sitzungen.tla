------------------------------ MODULE Sitzungen ------------------------------
(* The sign-in sessions of one account, as fl_frontend/src/core/auth.ts mints,
   serves, slides, replaces and ends them.

   A sign-in is not one step: the gate is asked over the network, the row is
   stamped, inserted, and only then are the session it replaces and its own
   siblings ended. A ban, a sign-out of the address, the removal of a passkey
   and the time that passes come between any two of these steps. The library's
   store is one database; what runs outside a transaction is written per row. *)
EXTENDS Naturals, FiniteSets

CONSTANTS
  Anmeldungen,   \* the sign-ins of a history; each mints at most one session, of its name
  Passkeys,      \* credential ids an authenticator may hold
  Loeschungen,   \* presses that remove a passkey
  Abrufe,        \* page requests, each refreshing or landing the session its cookie names
  Keine,         \* no session, no passkey
  MaxUhr,        \* bound: the last instant
  ENROLMENT_WINDOW, STEP_UP_WINDOW, UPDATE_AGE,
  ADMIN_IDLE, ADMIN_ABSOLUTE, PERSON_IDLE, PERSON_ABSOLUTE,
  Angemeldet,    \* the sign-in that stands from the start
  Lagen          \* what the account may be from the start

ASSUME KeineAssumption ==
  Keine \notin Anmeldungen \cup Passkeys \cup {"assert", "enrol", "offer"}
\* An account holds finitely many passkeys; the windows are millisecond counts.
ASSUME EndlichAssumption == IsFiniteSet(Passkeys)
ASSUME ZahlenAssumption ==
  /\ MaxUhr \in Nat \ {0}
  /\ {ENROLMENT_WINDOW, STEP_UP_WINDOW, UPDATE_AGE} \subseteq Nat
  /\ {ADMIN_IDLE, ADMIN_ABSOLUTE, PERSON_IDLE, PERSON_ABSOLUTE} \subseteq Nat
\* core/sessionLifetimes.ts: an hour and a day against fourteen days and thirty,
\* and a refresh every five minutes.
ASSUME FensterAssumption ==
  UPDATE_AGE < ADMIN_IDLE /\ ADMIN_IDLE <= PERSON_IDLE /\ ADMIN_ABSOLUTE <= PERSON_ABSOLUTE
ASSUME AngemeldetAssumption == Angemeldet \in Anmeldungen
\* The instant of the standing session, its passkey, and those the account
\* holds; the sign-ins and the operations a history is about.
ASSUME LagenAssumption ==
  \A l \in Lagen :
    /\ l.seit \in 1 .. MaxUhr /\ l.anmeldungen \subseteq Anmeldungen
    /\ l.verwaltung \in BOOLEAN /\ l.passkeys \subseteq Passkeys
    /\ l.passkey \in l.passkeys \cup {Keine}
    /\ l.vorgaenge \subseteq {"sperre", "loeschung", "gleiten", "einschreibung"}

VARIABLES
  uhr,         \* Date.now(), from 1: 0 is before everything
  verwaltung,  \* whether the address holds a grant
  gesperrt,    \* whether the backend bars the address
  beendet,     \* user.sessionsEndedAt, 0 where never
  sperrlauf,   \* how far the press that bars the address has come
  passkeys,    \* the account's passkey rows
  sitzung,     \* the session rows
  anlauf,      \* the sign-ins under way
  entfernung,  \* the removals under way, each a transaction
  cookie,      \* the session the browser's cookie names
  eingefuegte, \* sessions inserted so far, whose rising ids break ties
  vorgaenge,   \* which operations a history is about, beside its sign-ins
  betroffen,   \* ghost: sign-ins the gate had admitted when the account's sessions were ended
  abruf,       \* the page requests between two of their awaits
  genutzt      \* ghost: a session's last refresh, each judged within ADMIN_IDLE of the one before

seiten == <<abruf, genutzt>>
vars == <<uhr, verwaltung, gesperrt, beendet, sperrlauf, passkeys, sitzung, anlauf,
          entfernung, cookie, eingefuegte, vorgaenge, betroffen, seiten>>

Vorgaenge == {"sperre", "loeschung", "gleiten", "einschreibung"}

Instants == 0..MaxUhr
Faktoren == {"passkey", "code"}

\* A stored session row.
Zeile == [seit : Instants, zuletzt : Instants, id : Nat,
          faktor : Faktoren, passkey : Passkeys \cup {Keine},
          ersetzt : Anmeldungen \cup {Keine}, adminLapsed : BOOLEAN]

Schritte == {"frei", "gefragt", "zugelassen", "gestempelt", "eingefuegt", "ersetzt",
             "gelistet", "gesetzt", "fertig", "verworfen", "unrotiert"}

Anlauf == [schritt : Schritte, faktor : Faktoren, passkey : Passkeys \cup {Keine},
           einschreibung : BOOLEAN, sentAt : Instants, stamped : Instants,
           id : Nat,
           ersetzt : Anmeldungen \cup {Keine}, earlier : SUBSET Anmeldungen]

Ruhend == [schritt |-> "frei", faktor |-> "code", passkey |-> Keine, einschreibung |-> FALSE,
           sentAt |-> 0, stamped |-> 0, id |-> 0, ersetzt |-> Keine, earlier |-> {}]

\* A page request: the row it read; what its refresh writes; the session it ends.
Abruf ==
  [schritt : {"gelesen"}, von : Anmeldungen, zeile : Zeile]
    \cup [schritt : {"beurteilt"}, von : Anmeldungen, updatedAt : Instants, adminLapsed : BOOLEAN]
    \cup [schritt : {"ausgedient"}, von : Anmeldungen]

Da(s) == sitzung[s] # Keine
Bestehende == {s \in Anmeldungen : Da(s)}

Ohne(weg) == [s \in Anmeldungen |-> IF s \in weg THEN Keine ELSE sitzung[s]]

------------------------------------------------------------------------------
(* What every guard asks of a session row. *)

withinLifetime(z, idle, absolute) == uhr - z.zuletzt < idle /\ uhr - z.seit < absolute

isWithinPersonLifetime(z) == withinLifetime(z, PERSON_IDLE, PERSON_ABSOLUTE)

isAdminWithinWindow(z) == ~z.adminLapsed /\ withinLifetime(z, ADMIN_IDLE, ADMIN_ABSOLUTE)

endedByItsAccount(z) == beendet # 0 /\ z.seit <= beendet

servedSessionOf(s) ==
  /\ Da(s)
  /\ ~endedByItsAccount(sitzung[s])
  /\ sitzung[s].faktor = "passkey" => sitzung[s].passkey \in passkeys

\* The administrator's guard; a grant older than every session here.
isAdminSession(s) ==
  /\ verwaltung
  /\ sitzung[s].faktor = "passkey"
  /\ isAdminWithinWindow(sitzung[s])

getAdminSession(s) == servedSessionOf(s) /\ isAdminSession(s)

\* The person's guard, which reads the ban on every request.
getSubjectSession(s) == servedSessionOf(s) /\ isWithinPersonLifetime(sitzung[s]) /\ ~gesperrt

\* The account page's, which an administrator passes by the administrator's verdict alone.
getKontoSession(s) ==
  /\ servedSessionOf(s)
  /\ ~gesperrt
  /\ IF verwaltung THEN isAdminSession(s) ELSE isWithinPersonLifetime(sitzung[s])

isFreshlySignedIn(z) == uhr - z.seit < STEP_UP_WINDOW /\ (verwaltung => z.faktor = "passkey")

isWithinEnrolmentWindow(z) == uhr - z.seit < ENROLMENT_WINDOW

\* Every condition an enrolment meets on the session z, over the passkeys `held`.
refuseEnrolment(z, held) ==
  LET bootstrap == held = {} /\ verwaltung /\ z.faktor = "code"
  IN \/ ~isWithinEnrolmentWindow(z)
     \/ ~bootstrap /\ ~isFreshlySignedIn(z)

------------------------------------------------------------------------------
(* Where the sign-in page sends a session. *)

\* Which card /signin/passkey shows, Keine where it has none.
passkeyStepOf(s) ==
  LET z == sitzung[s]
      imFenster == IF verwaltung THEN isAdminWithinWindow(z) ELSE isWithinPersonLifetime(z)
      mayEnrol == isWithinEnrolmentWindow(z)
  IN IF ~imFenster \/ z.faktor = "passkey" \/ (~verwaltung /\ ~mayEnrol) THEN Keine
     ELSE IF passkeys # {} THEN IF verwaltung THEN "assert" ELSE Keine
     ELSE IF ~mayEnrol THEN Keine
     ELSE IF verwaltung THEN "enrol" ELSE "offer"

\* Variant: an administrator's code session is always sent on to its passkey.
destinationOf_Immer(s) ==
  IF verwaltung
  THEN IF isAdminSession(s) THEN "/bereich" ELSE "/signin/passkey"
  ELSE IF passkeyStepOf(s) = "offer" THEN "/signin/passkey" ELSE "/bereich"

destinationOf(s) ==
  IF verwaltung
  THEN IF isAdminSession(s) THEN "/bereich"
       ELSE IF passkeyStepOf(s) = Keine THEN "/signin" ELSE "/signin/passkey"
  ELSE IF passkeyStepOf(s) = "offer" THEN "/signin/passkey" ELSE "/bereich"

\* The session no lane serves again, which the landing ends.
Ausgedient(s) == ~servedSessionOf(s) \/ ~isWithinPersonLifetime(sitzung[s]) \/ gesperrt

landingOf(s) == IF Ausgedient(s) THEN "/signin" ELSE destinationOf(s)

------------------------------------------------------------------------------
\* Variant: a refused sign-in is written without its fields.
Verworfen_Leer == [schritt |-> "verworfen"]

Verworfen == [Ruhend EXCEPT !.schritt = "verworfen"]

Init ==
  /\ \E l \in Lagen :
       /\ uhr = l.seit
       /\ verwaltung = l.verwaltung
       /\ passkeys = l.passkeys
       /\ vorgaenge = l.vorgaenge
       /\ sitzung = [s \in Anmeldungen |->
            IF s # Angemeldet THEN Keine
            ELSE [seit |-> l.seit, zuletzt |-> l.seit, id |-> 0,
                  faktor |-> IF l.passkey = Keine THEN "code" ELSE "passkey",
                  passkey |-> l.passkey, ersetzt |-> Keine, adminLapsed |-> FALSE]]
       /\ anlauf = [a \in Anmeldungen |->
            IF a = Angemeldet THEN [Ruhend EXCEPT !.schritt = "fertig"]
            ELSE [Ruhend EXCEPT !.schritt = IF a \in l.anmeldungen THEN "frei" ELSE "verworfen"]]
       /\ genutzt = [s \in Anmeldungen |-> l.seit]
  /\ gesperrt = FALSE
  /\ beendet = 0
  /\ sperrlauf = "ruht"
  /\ entfernung = [e \in Loeschungen |-> Keine]
  /\ cookie = Angemeldet
  /\ eingefuegte = 0
  /\ betroffen = {}
  /\ abruf = [r \in Abrufe |-> Keine]

Setze(a, felder) == anlauf' = [anlauf EXCEPT ![a] = felder]

(* A sign-in reaches the mint: a right code, or an assertion whose credential
   is looked up by its id. The instant that will date its session is taken
   before the gate is asked, and its request carries the browser's cookie. *)
Beginne(a, faktor, p) ==
  /\ anlauf[a].schritt = "frei"
  /\ IF faktor = "passkey" THEN p \in passkeys ELSE p = Keine
  /\ Setze(a, [Ruhend EXCEPT !.schritt = "gefragt", !.faktor = faktor, !.passkey = p,
                             !.sentAt = uhr, !.ersetzt = cookie])
  /\ UNCHANGED <<uhr, verwaltung, gesperrt, beendet, sperrlauf, passkeys, sitzung,
                 entfernung, cookie, eingefuegte, betroffen, vorgaenge, seiten>>

(* A new passkey is set up by the session the cookie names, and the set-up signs
   in with it: the before hook reads the session, the instant and the gate. *)
BeginneEinschreibung(a, p) ==
  /\ "einschreibung" \in vorgaenge
  /\ anlauf[a].schritt = "frei"
  /\ p \notin passkeys
  /\ cookie # Keine
  /\ Da(cookie)
  /\ ~endedByItsAccount(sitzung[cookie])
  /\ ~refuseEnrolment(sitzung[cookie], passkeys)
  /\ Setze(a, [Ruhend EXCEPT !.schritt = "gefragt", !.faktor = "passkey", !.passkey = p,
                             !.einschreibung = TRUE, !.sentAt = uhr, !.ersetzt = cookie])
  /\ UNCHANGED <<uhr, verwaltung, gesperrt, beendet, sperrlauf, passkeys, sitzung,
                 entfernung, cookie, eingefuegte, betroffen, vorgaenge, seiten>>

\* The gate answers: a ban refuses, as does a read that failed. Only admitted mints.
refuseUnadmitted(a) ==
  /\ anlauf[a].schritt = "gefragt"
  /\ \/ ~gesperrt /\ Setze(a, [anlauf[a] EXCEPT !.schritt = "zugelassen"])
     \/ Setze(a, Verworfen)
  /\ UNCHANGED <<uhr, verwaltung, gesperrt, beendet, sperrlauf, passkeys, sitzung,
                 entfernung, cookie, eingefuegte, betroffen, vorgaenge, seiten>>

\* Variant: the session is dated when its row is stamped.
createdAt_Gestempelt(a) == anlauf[a].stamped

\* What dates the session: the instant before the gate was asked.
createdAt(a) == anlauf[a].sentAt

(* The row is stamped again past every await. An enrolment's transaction judges
   the caller once more, over the passkeys of its snapshot. *)
Stemple(a) ==
  /\ anlauf[a].schritt = "zugelassen"
  /\ LET c == anlauf[a].ersetzt IN
     IF anlauf[a].einschreibung /\ (~Da(c) \/ anlauf[a].passkey \in passkeys
                                      \/ refuseEnrolment(sitzung[c], passkeys))
     THEN Setze(a, Verworfen)
     ELSE Setze(a, [anlauf[a] EXCEPT !.schritt = "gestempelt", !.stamped = uhr])
  /\ UNCHANGED <<uhr, verwaltung, gesperrt, beendet, sperrlauf, passkeys, sitzung,
                 entfernung, cookie, eingefuegte, betroffen, vorgaenge, seiten>>

\* The insert, in one commit with the passkey of an enrolment.
Fuege(a) ==
  LET n == anlauf[a] IN
  /\ n.schritt = "gestempelt"
  /\ ~(n.einschreibung /\ n.passkey \in passkeys)
  /\ eingefuegte' = eingefuegte + 1
  /\ sitzung' = [sitzung EXCEPT ![a] =
       [seit |-> createdAt(a), zuletzt |-> n.stamped, id |-> eingefuegte',
        faktor |-> n.faktor, passkey |-> n.passkey, ersetzt |-> n.ersetzt,
        adminLapsed |-> FALSE]]
  /\ passkeys' = IF n.einschreibung THEN passkeys \cup {n.passkey} ELSE passkeys
  /\ Setze(a, [Ruhend EXCEPT !.schritt = "eingefuegt", !.ersetzt = n.ersetzt,
                             !.stamped = n.stamped, !.id = eingefuegte'])
  /\ genutzt' = [genutzt EXCEPT ![a] = n.stamped]
  /\ UNCHANGED <<uhr, verwaltung, gesperrt, beendet, sperrlauf, entfernung, cookie, betroffen,
                 vorgaenge, abruf>>

\* The session the request's cookie named ends.
endReplacedSession(a) ==
  /\ anlauf[a].schritt = "eingefuegt"
  /\ sitzung' = Ohne({anlauf[a].ersetzt})
  /\ Setze(a, IF anlauf[a].ersetzt = Keine THEN [Ruhend EXCEPT !.schritt = "gesetzt"]
              ELSE [anlauf[a] EXCEPT !.schritt = "ersetzt"])
  /\ UNCHANGED <<uhr, verwaltung, gesperrt, beendet, sperrlauf, passkeys, entfernung,
                 cookie, eingefuegte, betroffen, vorgaenge, seiten>>

\* Variant: by the instant alone, two mints of one millisecond being nobody's successor.
mintedBefore_OhneId(r, m) == r.zuletzt < m.zuletzt

mintedBefore(r, m) == r.zuletzt < m.zuletzt \/ (r.zuletzt = m.zuletzt /\ r.id < m.id)

\* The rows minted to replace the same cookie, and this hook's own though it be gone.
Geschwister(a) == {s \in Bestehende : sitzung[s].ersetzt = anlauf[a].ersetzt}

\* Every hook keeps the latest it sees and lists the rest.
ListeGeschwister(a) ==
  /\ anlauf[a].schritt = "ersetzt"
  /\ LET row(s) == IF s \in Geschwister(a) THEN sitzung[s]
                   ELSE [zuletzt |-> anlauf[a].stamped, id |-> anlauf[a].id]
         rows == Geschwister(a) \cup {a}
         earlier == {s \in rows : \E latest \in rows : mintedBefore(row(s), row(latest))}
     IN Setze(a, [Ruhend EXCEPT !.schritt = "gelistet", !.ersetzt = anlauf[a].ersetzt,
                                !.earlier = earlier])
  /\ UNCHANGED <<uhr, verwaltung, gesperrt, beendet, sperrlauf, passkeys, sitzung,
                 entfernung, cookie, eingefuegte, betroffen, vorgaenge, seiten>>

endEarlierSiblings(a) ==
  /\ anlauf[a].schritt = "gelistet"
  /\ sitzung' = Ohne(anlauf[a].earlier)
  /\ Setze(a, [anlauf[a] EXCEPT !.schritt = "gesetzt", !.earlier = {}])
  /\ UNCHANGED <<uhr, verwaltung, gesperrt, beendet, sperrlauf, passkeys, entfernung,
                 cookie, eingefuegte, betroffen, vorgaenge, seiten>>

\* The store fails the rotation at any of its calls: logged and left, the sign-in stands.
RotationScheitert(a) ==
  /\ anlauf[a].schritt \in {"eingefuegt", "ersetzt", "gelistet"}
  /\ anlauf[a].ersetzt # Keine
  /\ Setze(a, [Ruhend EXCEPT !.schritt = "unrotiert", !.ersetzt = anlauf[a].ersetzt])
  /\ UNCHANGED <<uhr, verwaltung, gesperrt, beendet, sperrlauf, passkeys, sitzung,
                 entfernung, cookie, eingefuegte, betroffen, vorgaenge, seiten>>

\* A response's cookie reaches the browser, in whatever order two responses arrive.
Antworte(a) ==
  /\ anlauf[a].schritt \in {"gesetzt", "unrotiert"}
  /\ cookie # a
  /\ cookie' = a
  /\ Setze(a, [anlauf[a] EXCEPT !.schritt = IF @ = "gesetzt" THEN "fertig" ELSE @])
  /\ UNCHANGED <<uhr, verwaltung, gesperrt, beendet, sperrlauf, passkeys, sitzung,
                 entfernung, eingefuegte, betroffen, vorgaenge, seiten>>

------------------------------------------------------------------------------
(* The removal of a passkey: one transaction around count, claim, delete and
   sign-out, which the adapter runs again on a write conflict. *)

removePasskey(e, p) ==
  /\ "loeschung" \in vorgaenge
  /\ entfernung[e] = Keine
  /\ cookie # Keine
  /\ getKontoSession(cookie)
  /\ isFreshlySignedIn(sitzung[cookie])
  /\ p \in passkeys
  /\ ~(verwaltung /\ Cardinality(passkeys) <= 1)
  /\ entfernung' = [entfernung EXCEPT ![e] =
       [passkey |-> p, sitzungen |-> {s \in Bestehende : sitzung[s].passkey = p}]]
  /\ UNCHANGED <<uhr, verwaltung, gesperrt, beendet, sperrlauf, passkeys, sitzung, anlauf,
                 cookie, eingefuegte, betroffen, vorgaenge, seiten>>

\* Variant: two removals conflict only where they delete the same row.
claimAccount_OhneKonto(e, d) == entfernung[e].passkey = entfernung[d].passkey

\* Whether another removal's commit refuses this one: both write the account's own row.
claimAccount(e, d) == TRUE

Abgewiesene(e) == {d \in Loeschungen \ {e} : entfernung[d] # Keine /\ claimAccount(e, d)}

\* The commit: the sign-out deletes the sessions its snapshot held.
EntfernungSteht(e) ==
  /\ entfernung[e] # Keine
  /\ passkeys' = passkeys \ {entfernung[e].passkey}
  /\ sitzung' = Ohne(entfernung[e].sitzungen)
  /\ entfernung' = [d \in Loeschungen |->
       IF d = e \/ d \in Abgewiesene(e) THEN Keine ELSE entfernung[d]]
  /\ UNCHANGED <<uhr, verwaltung, gesperrt, beendet, sperrlauf, anlauf, cookie, eingefuegte,
                 betroffen, vorgaenge, seiten>>

EntfernungAbgebrochen(e) ==
  /\ entfernung[e] # Keine
  /\ entfernung' = [entfernung EXCEPT ![e] = Keine]
  /\ UNCHANGED <<uhr, verwaltung, gesperrt, beendet, sperrlauf, passkeys, sitzung, anlauf,
                 cookie, eingefuegte, betroffen, vorgaenge, seiten>>

------------------------------------------------------------------------------
(* Ending every session of the address: after a ban the backend has written, or
   at an administrator's press. A ban is refused on an address holding a grant. *)

postSperre ==
  /\ "sperre" \in vorgaenge
  /\ ~gesperrt
  /\ ~verwaltung
  /\ sperrlauf = "ruht"
  /\ gesperrt' = TRUE
  /\ sperrlauf' = "gesperrt"
  /\ UNCHANGED <<uhr, verwaltung, beendet, passkeys, sitzung, anlauf, entfernung, cookie,
                 eingefuegte, betroffen, vorgaenge, seiten>>

Abmelden ==
  /\ "sperre" \in vorgaenge
  /\ sperrlauf = "ruht"
  /\ beendet = 0
  /\ sperrlauf' = "gesperrt"
  /\ UNCHANGED <<uhr, verwaltung, gesperrt, beendet, passkeys, sitzung, anlauf, entfernung,
                 cookie, eingefuegte, betroffen, vorgaenge, seiten>>

\* Past the gate: what a sign-in asking now would be told no longer matters to these.
Zugelassene == {a \in Anmeldungen :
  anlauf[a].schritt \in {"zugelassen", "gestempelt", "eingefuegt", "ersetzt", "gelistet",
                         "gesetzt", "fertig", "unrotiert"}}

\* The stamp, before any row is deleted: a write of the account's row, which open removals claim.
endSessionsOfAddress ==
  /\ sperrlauf = "gesperrt"
  /\ beendet' = uhr
  /\ sperrlauf' = "gestempelt"
  /\ betroffen' = betroffen \cup Zugelassene
  /\ entfernung' = [e \in Loeschungen |-> Keine]
  /\ UNCHANGED <<uhr, verwaltung, gesperrt, passkeys, sitzung, anlauf, cookie, eingefuegte, vorgaenge, seiten>>

\* The rows go, or their deletion fails and leaves them.
deleteEndedSessions ==
  /\ sperrlauf = "gestempelt"
  /\ sperrlauf' = "ruht"
  /\ sitzung' \in {Ohne(Bestehende), sitzung}
  /\ UNCHANGED <<uhr, verwaltung, gesperrt, beendet, passkeys, anlauf, entfernung, cookie,
                 eingefuegte, betroffen, vorgaenge, seiten>>

\* The store did not answer: the ban stands, its sessions are unstamped, its administrator told.
AbmeldungVersaeumt ==
  /\ sperrlauf = "gesperrt"
  /\ sperrlauf' = "ruht"
  /\ UNCHANGED <<uhr, verwaltung, gesperrt, beendet, passkeys, sitzung, anlauf, entfernung,
                 cookie, eingefuegte, betroffen, vorgaenge, seiten>>

deleteSperre ==
  /\ gesperrt
  /\ gesperrt' = FALSE
  /\ UNCHANGED <<uhr, verwaltung, beendet, sperrlauf, passkeys, sitzung, anlauf, entfernung,
                 cookie, eingefuegte, betroffen, vorgaenge, seiten>>

------------------------------------------------------------------------------
(* A page request. The proxy's refresh ahead of it is three steps: the library
   reads the row the cookie names; past that await it decides, and the hook
   judges, over the row as it was read; and the write lands. *)

slideSession(r) ==
  /\ "gleiten" \in vorgaenge
  /\ abruf[r] = Keine
  /\ cookie # Keine
  /\ Da(cookie)
  /\ abruf' = [abruf EXCEPT ![r] = [schritt |-> "gelesen", von |-> cookie, zeile |-> sitzung[cookie]]]
  /\ UNCHANGED <<uhr, verwaltung, gesperrt, beendet, sperrlauf, passkeys, sitzung, anlauf,
                 entfernung, cookie, eingefuegte, betroffen, vorgaenge, genutzt>>

\* The library refreshes a row past updateAge; one past its expiry, which slides
\* with the person's idle figure, is none.
Faellig(z) == uhr - z.zuletzt >= UPDATE_AGE /\ uhr - z.zuletzt <= PERSON_IDLE

\* Variant: the refresh moves the stamp and nothing else.
Lapsed_Nie(z) == FALSE

\* session.update.before: the idle gap the refresh erases is judged first.
Lapsed(z) == ~withinLifetime(z, ADMIN_IDLE, ADMIN_ABSOLUTE)

Beurteile(r) ==
  /\ abruf[r] # Keine /\ abruf[r].schritt = "gelesen"
  /\ LET s == abruf[r].von
         z == abruf[r].zeile
     IN IF Faellig(z)
        THEN /\ abruf' = [abruf EXCEPT ![r] = [schritt |-> "beurteilt", von |-> s, updatedAt |-> uhr,
                                              adminLapsed |-> Lapsed(z)]]
             /\ genutzt' = [genutzt EXCEPT ![s] = IF uhr - @ < ADMIN_IDLE THEN uhr ELSE @]
        ELSE /\ abruf' = [abruf EXCEPT ![r] = Keine]
             /\ UNCHANGED genutzt
  /\ UNCHANGED <<uhr, verwaltung, gesperrt, beendet, sperrlauf, passkeys, sitzung, anlauf,
                 entfernung, cookie, eingefuegte, betroffen, vorgaenge>>

\* What the refresh leaves of the row it finds: the hook never clears a mark.
Aufgefrischt(z, f) == [z EXCEPT !.zuletzt = f.updatedAt, !.adminLapsed = @ \/ f.adminLapsed]

\* The write, which a row ended since does not get, nor one the store fails.
updateSession(r) ==
  /\ abruf[r] # Keine /\ abruf[r].schritt = "beurteilt"
  /\ \/ LET s == abruf[r].von IN
        /\ Da(s)
        /\ sitzung' = [sitzung EXCEPT ![s] = Aufgefrischt(@, abruf[r])]
     \/ UNCHANGED sitzung
  /\ abruf' = [abruf EXCEPT ![r] = Keine]
  /\ UNCHANGED <<uhr, verwaltung, gesperrt, beendet, sperrlauf, passkeys, anlauf, entfernung,
                 cookie, eingefuegte, betroffen, vorgaenge, genutzt>>

\* The landing, which finds no lane serving the session again, and then
\* deletes its row by the id.
Lande(r) ==
  /\ "gleiten" \in vorgaenge
  /\ abruf[r] = Keine
  /\ cookie # Keine
  /\ Da(cookie)
  /\ Ausgedient(cookie)
  /\ abruf' = [abruf EXCEPT ![r] = [schritt |-> "ausgedient", von |-> cookie]]
  /\ UNCHANGED <<uhr, verwaltung, gesperrt, beendet, sperrlauf, passkeys, sitzung, anlauf,
                 entfernung, cookie, eingefuegte, betroffen, vorgaenge, genutzt>>

ended(r) ==
  /\ abruf[r] # Keine /\ abruf[r].schritt = "ausgedient"
  /\ sitzung' = Ohne({abruf[r].von})
  /\ abruf' = [abruf EXCEPT ![r] = Keine]
  /\ UNCHANGED <<uhr, verwaltung, gesperrt, beendet, sperrlauf, passkeys, anlauf, entfernung,
                 cookie, eingefuegte, betroffen, vorgaenge, genutzt>>

Ticke ==
  /\ uhr < MaxUhr
  /\ uhr' = uhr + 1
  /\ UNCHANGED <<verwaltung, gesperrt, beendet, sperrlauf, passkeys, sitzung, anlauf,
                 entfernung, cookie, eingefuegte, betroffen, vorgaenge, seiten>>

Next ==
  \/ \E a \in Anmeldungen :
       \/ \E f \in Faktoren, p \in Passkeys \cup {Keine} : Beginne(a, f, p)
       \/ \E p \in Passkeys : BeginneEinschreibung(a, p)
       \/ refuseUnadmitted(a) \/ Stemple(a) \/ Fuege(a)
       \/ endReplacedSession(a) \/ ListeGeschwister(a) \/ endEarlierSiblings(a)
       \/ RotationScheitert(a) \/ Antworte(a)
  \/ \E e \in Loeschungen :
       \/ \E p \in Passkeys : removePasskey(e, p)
       \/ EntfernungSteht(e) \/ EntfernungAbgebrochen(e)
  \/ postSperre \/ Abmelden \/ endSessionsOfAddress \/ deleteEndedSessions
  \/ AbmeldungVersaeumt \/ deleteSperre
  \/ \E r \in Abrufe :
       \/ slideSession(r) \/ Beurteile(r) \/ updateSession(r)
       \/ Lande(r) \/ ended(r)
  \/ Ticke

Spec == Init /\ [][Next]_vars

------------------------------------------------------------------------------
(* The types of the sign-in store's rows and of what is under way: a row keeps
   the shape auth.ts gives it, and no account holds a passkey twice. *)
TypeOK ==
  /\ uhr \in 1..MaxUhr
  /\ verwaltung \in BOOLEAN /\ gesperrt \in BOOLEAN
  /\ beendet \in Instants
  /\ sperrlauf \in {"ruht", "gesperrt", "gestempelt"}
  /\ passkeys \subseteq Passkeys
  /\ vorgaenge \subseteq Vorgaenge
  /\ sitzung \in [Anmeldungen -> Zeile \cup {Keine}]
  /\ anlauf \in [Anmeldungen -> Anlauf]
  /\ entfernung \in [Loeschungen ->
       [passkey : Passkeys, sitzungen : SUBSET Anmeldungen] \cup {Keine}]
  /\ cookie \in Anmeldungen \cup {Keine}
  /\ eingefuegte \in Nat
  /\ betroffen \subseteq Anmeldungen
  /\ abruf \in [Abrufe -> Abruf \cup {Keine}]
  /\ genutzt \in [Anmeldungen -> Instants]

(* Once an account's sessions were ended, no sign-in the gate had admitted by
   then is served by any lane again: not one whose row was inserted after the
   ending, not one whose deletion failed, and not after the ban is lifted. *)
BeendetesDientNie == \A a \in betroffen : ~servedSessionOf(a)

(* Of the sessions minted to replace one cookie at most one stands, once no
   sign-in replacing it is still under way and no rotation failed. *)
NurDasLetzteGeschwisterSteht ==
  \A c \in Anmeldungen :
    LET G == {a \in Anmeldungen : anlauf[a].ersetzt = c}
    IN (\A a \in G : anlauf[a].schritt \in {"gesetzt", "fertig"})
         => Cardinality({a \in G : Da(a)}) <= 1

(* The landing never sends a session to a page that sends it back: the passkey
   page has a card for it, and the area's guard of its lane admits it. *)
LandungKreistNicht ==
  \A s \in Bestehende :
    /\ landingOf(s) = "/signin/passkey" => passkeyStepOf(s) # Keine
    /\ landingOf(s) = "/bereich" =>
         IF verwaltung THEN getAdminSession(s) ELSE getSubjectSession(s)
    /\ landingOf(s) = "/signin" => ~getKontoSession(s)

(* An administrator who holds a passkey holds one for ever, whatever removals
   run beside each other: the last row is the only way into the administration. *)
LetzterPasskeyBleibt == [][verwaltung /\ passkeys # {} => passkeys' # {}]_vars

(* I658: nothing revives a session the administrator left idle past the window.
   What the guard admits was refreshed less than ADMIN_IDLE ago, by a refresh
   that was itself judged less than ADMIN_IDLE after the one before, back to the
   sign-in; a refresh judged late marks the row, and one judged in time and
   landing late, behind any other, carries no later instant than its own. *)
NurBenutztesBleibtOffen ==
  \A s \in Bestehende : isAdminWithinWindow(sitzung[s]) => uhr - genutzt[s] < ADMIN_IDLE
==============================================================================
