------------------------------- MODULE Anfrage -------------------------------
(* One press on a page of fl_frontend: the server action it posts, under the
   request scope of core/requestScope.ts, the calls core/api.ts and core/mail.ts
   send for it, the spine that answers for it (shared/utils/adminMutation.ts,
   publicRoute.ts, writeOutcome.ts, actionError.ts), what the page then tells
   its reader, and the cached public read the write feeds.

   The backend goes on with a call whose caller has stopped waiting: it commits
   or aborts inside its own deadline, whoever still listens. *)
EXTENDS Naturals, Sequences

CONSTANTS
  Ruempfe,                  \* the bodies a press may run, sequences of calls
  REQUEST_DEADLINE,         \* requestScope.ts :: REQUEST_DEADLINE_MS
  BASE_FETCH_TIMEOUT,       \* api.ts, a call's own bound; the mailer's is taken as equal
  WRITE_NEEDS,              \* api.ts :: WRITE_NEEDS_MS
  BACKEND_REQUEST_DEADLINE, \* by when the backend's write stands or does not
  MaxSchritte,              \* bound: the longest body
  MaxUhr                    \* bound: the last instant

\* A call: what it does, whether it runs under runAnsweringOwnCut, and what the
\* body makes of its failure.
Aufruf == [art : {"schreiben", "lesen", "nachricht"}, eigen : BOOLEAN,
           wenn : {"wirft", "teil", "haelfte", "schweigt"}]

\* What a body is in this code: a call that answers for its own doubt settles its failure,
\* only such calls follow one that does, no write whose refusal is thrown follows another
\* write, and only a second write, behind a first, answers in part.
Rumpf(r) ==
  /\ r \in Seq(Aufruf) /\ Len(r) \in 1..MaxSchritte
  /\ \A i \in 1..Len(r) :
       /\ r[i].eigen => r[i].wenn = "schweigt"
       /\ r[i].wenn \in {"teil", "haelfte"} => i = 2 /\ r[1].art = "schreiben"
       /\ \A j \in (i + 1)..Len(r) :
            /\ r[i].wenn = "schweigt" => r[j].wenn = "schweigt"
            /\ r[i].art = "schreiben" /\ r[j].wenn = "wirft" => r[j].art # "schreiben"

ASSUME RuempfeAssumption == \A r \in Ruempfe : Rumpf(r)
ASSUME ZahlenAssumption ==
  {REQUEST_DEADLINE, BASE_FETCH_TIMEOUT, WRITE_NEEDS, BACKEND_REQUEST_DEADLINE, MaxSchritte, MaxUhr} \subseteq Nat
\* The bounds nest: a write's need waits out the backend's deadline and its answer.
ASSUME FristenAssumption ==
  /\ BACKEND_REQUEST_DEADLINE < WRITE_NEEDS /\ WRITE_NEEDS <= BASE_FETCH_TIMEOUT
  /\ BASE_FETCH_TIMEOUT < REQUEST_DEADLINE /\ REQUEST_DEADLINE + BACKEND_REQUEST_DEADLINE <= MaxUhr

VARIABLES
  uhr,      \* performance.now(), from the press
  rumpf,    \* the body the press runs
  lauf,     \* where the request stands
  schritt,  \* the call it is at
  scope,    \* the request scope
  frist,    \* when the call in flight is aborted
  stand,    \* what became of each write in the backend
  gesandt,  \* when each write was sent
  antwort,  \* what the spine answers
  gezeigt,  \* what the page tells its reader
  cache,    \* the cached public read: whether it holds an entry, and the writes that shows
  fuellung, \* a fill that has read and not stored, and whether a drop outran it
  verloren  \* ghost: a connection broke under a write

vars == <<uhr, rumpf, lauf, schritt, scope, frist, stand, gesandt, antwort, gezeigt,
          cache, fuellung, verloren>>

Schritte == 1..MaxSchritte
Instants == 0..MaxUhr
Antworten == {"keine", "gespeichert", "gescheitert", "teilweise", "unklar"}

\* How a call may fail: refused or rolled back by the backend's own word, any other
\* 5xx, no answer, an answer that cannot be read, or never sent.
Fehler == {"abgelehnt", "fehler5xx", "netz", "unlesbar", "ungesandt"}

\* The request, its calls and the cache have their shapes: no call waits past the last
\* instant a request may.
TypeOK ==
  /\ uhr \in Instants
  /\ rumpf \in Ruempfe
  /\ lauf \in {"frei", "wartet", "ruft", "fertig"}
  /\ schritt \in Schritte
  /\ scope \in [deadlineAt : Instants, outcomeUnknown : BOOLEAN, writeSent : BOOLEAN]
  /\ frist \in Instants
  /\ stand \in [Schritte -> {"keiner", "laeuft", "geschrieben", "verworfen"}]
  /\ gesandt \in [Schritte -> Instants]
  /\ antwort \in Antworten /\ gezeigt \in Antworten
  /\ cache \in [da : BOOLEAN, stand : SUBSET Schritte]
  /\ fuellung \in [laeuft : BOOLEAN, stand : SUBSET Schritte, ueberholt : BOOLEAN]
  /\ verloren \in BOOLEAN

KeinEintrag == [da |-> FALSE, stand |-> {}]
KeineFuellung == [laeuft |-> FALSE, stand |-> {}, ueberholt |-> FALSE]

Hier == rumpf[schritt]
Geschrieben == {i \in Schritte : stand[i] = "geschrieben"}

------------------------------------------------------------------------------
(* The scope and the two clients. *)

requestTimeLeft == IF scope.deadlineAt > uhr THEN scope.deadlineAt - uhr ELSE 0

mayHaveWritten(art) == art = "schreiben"

byDeadline == frist = scope.deadlineAt

\* Marks the request's scope, which a call under runAnsweringOwnCut leaves alone: its
\* derived scope takes the mark and ends with it.
Merke(marke) == scope' = [scope EXCEPT !.outcomeUnknown = @ \/ (marke /\ ~Hier.eigen)]

------------------------------------------------------------------------------
(* What the spine makes of what the body made of a failure. *)

\* Variant: a write's 5xx is read as a failure.
toActionErrorResult_5xxScheitert(fehler, art) ==
  IF mayHaveWritten(art) /\ fehler \in {"netz", "unlesbar"} THEN "unklar" ELSE "gescheitert"

\* The answer an error words for itself.
toActionErrorResult(fehler, art) ==
  IF mayHaveWritten(art) /\ fehler \in {"fehler5xx", "netz", "unlesbar"}
  THEN "unklar" ELSE "gescheitert"

\* A throw after a sent write is of unknown outcome unless it is that write's own answer.
answerThrow(fehler, art, sent) ==
  IF sent /\ ~(mayHaveWritten(art) /\ fehler # "ungesandt")
  THEN "unklar" ELSE toActionErrorResult(fehler, art)

\* What the body answers, or hands the spine, where the call it is at fails: the club
\* that stands without its entry, and the half of an undo that went back.
Gescheitert(fehler, sent) ==
  CASE Hier.wenn = "wirft"    -> answerThrow(fehler, Hier.art, sent)
    [] Hier.wenn = "teil"     -> IF toActionErrorResult(fehler, Hier.art) = "unklar"
                                 THEN "unklar" ELSE "teilweise"
    [] Hier.wenn = "haelfte"  -> IF answerThrow(fehler, Hier.art, sent) = "unklar"
                                 THEN "unklar" ELSE "teilweise"
    [] Hier.wenn = "schweigt" -> "gespeichert"

\* Whatever the body made of it: the deadline cut a call of a request that wrote.
writeOutcomeUnknown == scope'.writeSent /\ scope'.outcomeUnknown

\* The tags the write declared, dropped wherever it may stand. A fill begun before is
\* older than the drop and is never served.
DropTags(ergebnis) ==
  IF scope'.writeSent /\ ergebnis # "gescheitert"
  THEN cache' = KeinEintrag /\ fuellung' = [fuellung EXCEPT !.ueberholt = TRUE]
  ELSE UNCHANGED <<cache, fuellung>>

\* The body has settled on `ergebnis`: runGuarded reads the scope, then the caches drop.
Settle(ergebnis) ==
  LET judged == IF writeOutcomeUnknown THEN "unklar" ELSE ergebnis IN
  /\ lauf' = "fertig"
  /\ antwort' = judged
  /\ DropTags(judged)
  /\ UNCHANGED schritt

Weiter ==
  /\ lauf' = "wartet" /\ schritt' = schritt + 1
  /\ UNCHANGED <<antwort, cache, fuellung>>

\* The call has answered well: the next, or the end, where only calls the answer can do
\* without are left: nobody to notify, a deletion run with no further place.
Gelungen ==
  \/ schritt < Len(rumpf) /\ Weiter
  \/ /\ \A i \in (schritt + 1)..Len(rumpf) : rumpf[i].wenn = "schweigt"
     /\ Settle("gespeichert")

Bleibt == UNCHANGED <<uhr, rumpf, gezeigt>>

------------------------------------------------------------------------------
(* The request. *)

\* The edge refuses the press for its rate: nothing of it reached the server.
EdgeRefusal ==
  /\ lauf = "frei"
  /\ lauf' = "fertig" /\ gezeigt' = "gescheitert"
  /\ UNCHANGED <<uhr, rumpf, schritt, scope, frist, stand, gesandt, antwort, cache,
                 fuellung, verloren>>

runWithRequestScope ==
  /\ lauf = "frei"
  /\ lauf' = "wartet"
  /\ scope' = [deadlineAt |-> uhr + REQUEST_DEADLINE, outcomeUnknown |-> FALSE, writeSent |-> FALSE]
  /\ UNCHANGED <<uhr, rumpf, schritt, frist, stand, gesandt, antwort, gezeigt, cache,
                 fuellung, verloren>>

\* The guard turns the caller away, or the body its payload, before any call of the body.
Forbidden ==
  /\ lauf = "wartet" /\ schritt = 1
  /\ UNCHANGED <<scope, frist, stand, gesandt, verloren>>
  /\ Settle("gescheitert") /\ Bleibt

\* Variant: a write is sent whatever is left of the request's deadline.
refusedUnsent_Nie == FALSE

refusedUnsent == mayHaveWritten(Hier.art) /\ requestTimeLeft < WRITE_NEEDS

\* A write, and every message, is recorded before it is sent.
dispatchRequest ==
  scope' = [scope EXCEPT !.writeSent = @ \/ mayHaveWritten(Hier.art) \/ Hier.art = "nachricht"]

\* Too little is left to wait out a write, or nothing for a call: it is never sent.
\* boundCall marks the scope where nothing is left.
SendUnsent ==
  /\ lauf = "wartet"
  /\ refusedUnsent \/ requestTimeLeft = 0
  /\ Merke(~refusedUnsent)
  /\ LET fehler == IF refusedUnsent \/ Hier.art = "nachricht" THEN "ungesandt" ELSE "netz"
     IN Settle(Gescheitert(fehler, scope.writeSent))
  /\ UNCHANGED <<frist, stand, gesandt, verloren>> /\ Bleibt

\* Variant: a call's own bound is added to the request's deadline.
callBound_Addiert == scope.deadlineAt + BASE_FETCH_TIMEOUT

\* A call's own bound, or what is left of the request's deadline where that is shorter.
callBound == IF requestTimeLeft < BASE_FETCH_TIMEOUT THEN scope.deadlineAt
             ELSE uhr + BASE_FETCH_TIMEOUT

Send ==
  /\ lauf = "wartet"
  /\ ~refusedUnsent /\ requestTimeLeft > 0
  /\ dispatchRequest
  /\ lauf' = "ruft"
  /\ frist' = callBound
  /\ IF mayHaveWritten(Hier.art)
     THEN /\ stand' = [stand EXCEPT ![schritt] = "laeuft"]
          /\ gesandt' = [gesandt EXCEPT ![schritt] = uhr]
     ELSE UNCHANGED <<stand, gesandt>>
  /\ UNCHANGED <<schritt, antwort, cache, fuellung, verloren>> /\ Bleibt

\* The backend commits the write or aborts it, whoever still waits.
Commit(i, ausgang) ==
  /\ stand[i] = "laeuft"
  /\ stand' = [stand EXCEPT ![i] = ausgang]
  /\ UNCHANGED <<uhr, rumpf, lauf, schritt, scope, frist, gesandt, antwort, gezeigt,
                 cache, fuellung, verloren>>

\* What the answer to the call in flight may be: a refusal, and a failure the backend
\* names rolled back, only where the write does not stand.
Antwortbar(fehler) ==
  CASE fehler = "abgelehnt" -> Hier.art # "schreiben" \/ stand[schritt] = "verworfen"
    [] fehler = "fehler5xx" -> Hier.art # "schreiben" \/ stand[schritt] # "laeuft"
    [] fehler = "unlesbar"  -> Hier.art = "lesen" \/ stand[schritt] = "geschrieben"
    [] OTHER                -> FALSE

Answer ==
  /\ lauf = "ruft"
  /\ Hier.art = "schreiben" => stand[schritt] = "geschrieben"
  /\ UNCHANGED <<scope, frist, stand, gesandt, verloren>>
  /\ Gelungen /\ Bleibt

AnswerFailed ==
  /\ lauf = "ruft"
  /\ \E fehler \in Fehler :
       /\ Antwortbar(fehler)
       /\ UNCHANGED <<scope, frist, stand, gesandt, verloren>>
       /\ Settle(Gescheitert(fehler, scope.writeSent)) /\ Bleibt

\* The connection breaks under the call. The provider may have taken a message all the
\* same, so the fan-out that settles it marks the scope.
Break ==
  /\ lauf = "ruft"
  /\ Merke(Hier.art = "nachricht")
  /\ Settle(Gescheitert("netz", scope.writeSent))
  /\ verloren' = (verloren \/ stand[schritt] = "laeuft")
  /\ UNCHANGED <<frist, stand, gesandt>> /\ Bleibt

\* Variant: the cut of a call that answers for its own doubt marks the whole request.
boundCall_Geteilt == scope' = [scope EXCEPT !.outcomeUnknown = @ \/ byDeadline]

boundCall == Merke(byDeadline \/ Hier.art = "nachricht")

\* The call's bound fires: only the request's deadline marks the scope.
Abort ==
  /\ lauf = "ruft" /\ uhr = frist
  /\ boundCall
  /\ Settle(Gescheitert("netz", scope.writeSent))
  /\ UNCHANGED <<frist, stand, gesandt, verloren>> /\ Bleibt

------------------------------------------------------------------------------
(* The page, and the cached read beside it. *)

\* The action's answer reaches the page; or its rejection does, which says nothing.
Show ==
  /\ lauf = "fertig" /\ gezeigt = "keine"
  /\ gezeigt' \in {antwort, "unklar"}
  /\ UNCHANGED <<uhr, rumpf, lauf, schritt, scope, frist, stand, gesandt, antwort,
                 cache, fuellung, verloren>>

FillReads ==
  /\ ~cache.da /\ ~fuellung.laeuft
  /\ fuellung' = [laeuft |-> TRUE, stand |-> Geschrieben, ueberholt |-> FALSE]
  /\ UNCHANGED <<uhr, rumpf, lauf, schritt, scope, frist, stand, gesandt, antwort,
                 gezeigt, cache, verloren>>

FillStores ==
  /\ fuellung.laeuft
  /\ cache' = IF fuellung.ueberholt THEN KeinEintrag ELSE [da |-> TRUE, stand |-> fuellung.stand]
  /\ fuellung' = KeineFuellung
  /\ UNCHANGED <<uhr, rumpf, lauf, schritt, scope, frist, stand, gesandt, antwort,
                 gezeigt, verloren>>

\* Time passes while a call waits, ahead of the body's first call, and past the answer;
\* a due abort, a due end of the backend's own deadline and its answer come first.
Tick ==
  /\ uhr < MaxUhr /\ lauf # "frei"
  /\ lauf = "ruft" => uhr < frist
  /\ lauf = "wartet" => schritt = 1 /\ uhr < scope.deadlineAt
  /\ \A i \in Schritte : stand[i] = "laeuft" => uhr < gesandt[i] + BACKEND_REQUEST_DEADLINE
  /\ uhr' = uhr + 1
  /\ UNCHANGED <<rumpf, lauf, schritt, scope, frist, stand, gesandt, antwort, gezeigt,
                 cache, fuellung, verloren>>

Init ==
  /\ uhr = 0 /\ lauf = "frei" /\ schritt = 1
  /\ rumpf \in Ruempfe
  /\ scope = [deadlineAt |-> 0, outcomeUnknown |-> FALSE, writeSent |-> FALSE]
  /\ frist = 0
  /\ stand = [i \in Schritte |-> "keiner"] /\ gesandt = [i \in Schritte |-> 0]
  /\ antwort = "keine" /\ gezeigt = "keine"
  /\ cache = KeinEintrag /\ fuellung = KeineFuellung
  /\ verloren = FALSE

Next ==
  \/ EdgeRefusal \/ runWithRequestScope \/ Forbidden
  \/ Send \/ SendUnsent \/ Answer \/ AnswerFailed \/ Break \/ Abort
  \/ \E i \in Schritte, ausgang \in {"geschrieben", "verworfen"} : Commit(i, ausgang)
  \/ Show \/ FillReads \/ FillStores
  \/ Tick

Spec == Init /\ [][Next]_vars

------------------------------------------------------------------------------
(* What the reader is told, and what the next reader is served. *)

\* The writes of the body whose failure ends it.
Pflicht == {i \in 1..Len(rumpf) : mayHaveWritten(rumpf[i].art) /\ rumpf[i].wenn # "schweigt"}

\* A page that says nothing was saved is right for good: no write of the press stands or
\* may still land. One that says saved has every write the press is named for; one that
\* says saved in part has the first and will never have the second.
AnsageStimmt ==
  /\ gezeigt = "gescheitert" =>
       \A i \in Schritte : stand[i] \notin {"geschrieben", "laeuft"}
  /\ gezeigt = "gespeichert" => Pflicht \subseteq Geschrieben
  /\ gezeigt = "teilweise" => 1 \in Geschrieben /\ stand[2] \notin {"geschrieben", "laeuft"}

\* Once the press has been answered no cached read shows the season without a write of it
\* that stands: a call is only sent where its commit comes before the caches drop. A
\* connection that broke under a write is the one way past it.
KeinAlterCache ==
  lauf = "fertig" /\ ~verloren /\ cache.da => Geschrieben \subseteq cache.stand

\* A notice, a deletion run and a read behind an answered write leave no doubt about it:
\* the spine says unknown only of a request that sent a write, and never for the end of
\* a call that answers for its own doubt.
ZweifelHatSeinenGrund == antwort = "unklar" => scope.writeSent /\ ~Hier.eigen

==============================================================================
