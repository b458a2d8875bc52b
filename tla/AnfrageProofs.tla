---------------------------- MODULE AnfrageProofs ----------------------------
(***************************************************************************)
(* Proofs about module Anfrage, for any bodies of the shape `Rumpf` names, *)
(* any deadlines that nest as the code's do and any last instant.          *)
(***************************************************************************)
EXTENDS Anfrage, TLAPS

USE DEF mayHaveWritten

-----------------------------------------------------------------------------
(* The inductive invariant. *)

\* The request stands at a call of its body, and is marked of unknown outcome only as it
\* ends.
OrtStimmt ==
  /\ schritt <= Len(rumpf)
  /\ lauf = "frei" => uhr = 0 /\ schritt = 1
  /\ scope.outcomeUnknown => lauf = "fertig" /\ ~Hier.eigen

\* The writes behind the call the request is at all stand; none ahead of it is sent; none
\* is sent without the scope knowing.
SchreibenStimmt ==
  /\ \A i \in Schritte : stand[i] # "keiner" =>
       i <= schritt /\ scope.writeSent /\ rumpf[i].art = "schreiben"
  /\ \A i \in 1..(schritt - 1) : rumpf[i].art = "schreiben" => stand[i] = "geschrieben"
  /\ lauf \in {"frei", "wartet"} => stand[schritt] = "keiner"
  /\ lauf = "ruft" /\ Hier.art = "schreiben" => stand[schritt] # "keiner"

\* The backend ends a write ahead of the bound its caller waits by, so only a broken
\* connection ends the request above a write still running.
FristStimmt ==
  stand[schritt] = "laeuft" =>
    /\ uhr <= gesandt[schritt] + BACKEND_REQUEST_DEADLINE
    /\ lauf = "ruft" => gesandt[schritt] + BACKEND_REQUEST_DEADLINE < frist
    /\ lauf = "fertig" => verloren

\* What an answer says of the writes is true, and stays so.
Wahr(a) ==
  /\ a = "gescheitert" => \A i \in Schritte : stand[i] \notin {"geschrieben", "laeuft"}
  /\ a = "gespeichert" => Pflicht \subseteq Geschrieben
  /\ a = "teilweise" => {1, 2} \subseteq Schritte /\ 1 \in Geschrieben /\ stand[2] \notin {"geschrieben", "laeuft"}

AntwortStimmt ==
  /\ Wahr(antwort) /\ Wahr(gezeigt)
  /\ lauf # "fertig" => antwort = "keine" /\ gezeigt = "keine"

\* A fill that read ahead of the drop is known for one; every other holds what stands.
CacheStimmt ==
  lauf = "fertig" /\ ~verloren =>
    /\ cache.da => Geschrieben \subseteq cache.stand
    /\ fuellung.laeuft /\ ~fuellung.ueberholt => Geschrieben \subseteq fuellung.stand

IInv == /\ TypeOK /\ OrtStimmt /\ SchreibenStimmt /\ FristStimmt
        /\ AntwortStimmt /\ CacheStimmt /\ ZweifelHatSeinenGrund

-----------------------------------------------------------------------------
(* The call the request is at, and its body. *)

\* The body and its calls have their shapes, and the deadlines are numbers.
LEMMA Formen ==
  ASSUME TypeOK, OrtStimmt
  PROVE  /\ Rumpf(rumpf) /\ Len(rumpf) \in Nat /\ schritt \in 1..Len(rumpf)
         /\ schritt \in Nat \ {0} /\ schritt \in Schritte /\ Hier \in Aufruf
         /\ \A i \in 1..Len(rumpf) : rumpf[i] \in Aufruf /\ i \in Schritte
         /\ uhr \in Nat /\ frist \in Nat /\ scope.deadlineAt \in Nat
         /\ \A i \in Schritte : gesandt[i] \in Nat
<1>1. rumpf \in Ruempfe /\ Rumpf(rumpf)
  BY RuempfeAssumption DEF TypeOK
<1>2. rumpf \in Seq(Aufruf) /\ Len(rumpf) \in 1..MaxSchritte /\ MaxSchritte \in Nat
  BY <1>1, ZahlenAssumption DEF Rumpf
<1>3. schritt \in 1..Len(rumpf)
  BY <1>2 DEF TypeOK, OrtStimmt, Schritte
<1>4. \A i \in 1..Len(rumpf) : rumpf[i] \in Aufruf /\ i \in Schritte
  BY <1>2 DEF Schritte
<1>5. uhr \in Nat /\ frist \in Nat /\ scope.deadlineAt \in Nat
      /\ \A i \in Schritte : gesandt[i] \in Nat
  BY ZahlenAssumption DEF TypeOK, Instants
<1> QED BY <1>1, <1>2, <1>3, <1>4, <1>5 DEF Hier

\* What a failing call makes of the request is true of its writes, and in doubt only where
\* a write may stand and the call does not answer for its own doubt.
LEMMA GescheitertStimmt ==
  ASSUME IInv, NEW fehler \in Fehler,
         \/ lauf = "wartet" /\ fehler \in {"ungesandt", "netz"} /\ (fehler = "netz" => Hier.art # "schreiben")
         \/ lauf = "ruft" /\ (fehler = "netz" \/ Antwortbar(fehler))
  PROVE  LET e == Gescheitert(fehler, scope.writeSent) IN
         /\ e \in Antworten /\ Wahr(e)
         /\ e = "unklar" => scope.writeSent /\ ~Hier.eigen
<1> DEFINE e == Gescheitert(fehler, scope.writeSent)
<1>f. /\ Rumpf(rumpf) /\ schritt \in 1..Len(rumpf) /\ schritt \in Schritte /\ Hier \in Aufruf
      /\ \A i \in 1..Len(rumpf) : rumpf[i] \in Aufruf /\ i \in Schritte
      /\ schritt \in Nat \ {0} /\ Len(rumpf) \in Nat
  BY Formen DEF IInv
<1>g. /\ Hier.eigen => Hier.wenn = "schweigt"
      /\ Hier.wenn \in {"teil", "haelfte"} => schritt = 2 /\ rumpf[1].art = "schreiben"
  BY <1>f DEF Rumpf, Hier
<1>h. /\ Hier.art \in {"schreiben", "lesen", "nachricht"} /\ Hier.eigen \in BOOLEAN
      /\ Hier.wenn \in {"wirft", "teil", "haelfte", "schweigt"}
  BY <1>f DEF Aufruf
<1>w. stand[schritt] # "keiner" => scope.writeSent
  BY <1>f DEF IInv, SchreibenStimmt
<1>a. Hier.art = "schreiben" /\ fehler = "abgelehnt" => stand[schritt] = "verworfen"
  BY DEF Antwortbar
<1>b. fehler = "ungesandt" => lauf = "wartet"
  BY DEF Antwortbar
<1>1. CASE Hier.wenn = "schweigt"
  <2>1. e = "gespeichert"
    BY <1>1 DEF Gescheitert
  <2>2. Pflicht \subseteq Geschrieben
    <3> SUFFICES ASSUME NEW i \in 1..Len(rumpf), rumpf[i].art = "schreiben", rumpf[i].wenn # "schweigt"
                 PROVE  i \in Geschrieben
      BY DEF Pflicht
    <3>1. i < schritt
      <4>1. i # schritt
        BY <1>1 DEF Hier
      <4>2. ~(i \in (schritt + 1)..Len(rumpf))
        BY <1>1, <1>f DEF Rumpf, Hier
      <4> QED BY <4>1, <4>2, <1>f
    <3>2. i \in 1..(schritt - 1) /\ i \in Schritte
      BY <3>1, <1>f
    <3> QED BY <3>2 DEF IInv, SchreibenStimmt, Geschrieben
  <2> QED BY <2>1, <2>2 DEF Wahr, Antworten
<1>2. CASE Hier.wenn = "wirft"
  <2>1. e = answerThrow(fehler, Hier.art, scope.writeSent)
    BY <1>2 DEF Gescheitert
  <2>2. e \in {"unklar", "gescheitert"}
    BY <2>1 DEF answerThrow, toActionErrorResult
  <2>3. e = "unklar" => scope.writeSent
    <3> SUFFICES ASSUME ~scope.writeSent PROVE e = "gescheitert"
      BY <2>2
    <3>1. stand[schritt] = "keiner"
      BY <1>w
    <3>2. ~(Hier.art = "schreiben" /\ lauf = "ruft")
      BY <3>1 DEF IInv, SchreibenStimmt
    <3>3. ~(Hier.art = "schreiben" /\ fehler \in {"fehler5xx", "netz", "unlesbar"})
      BY <3>2
    <3> QED BY <2>1, <3>3 DEF answerThrow, toActionErrorResult
  <2>4. ASSUME e = "gescheitert" PROVE \A i \in Schritte : stand[i] \notin {"geschrieben", "laeuft"}
    <3>1. CASE ~scope.writeSent
      BY <3>1 DEF IInv, SchreibenStimmt
    <3>2. CASE scope.writeSent
      <4>1. Hier.art = "schreiben" /\ fehler = "abgelehnt"
        BY <2>1, <2>4, <3>2 DEF answerThrow, toActionErrorResult, Fehler
      <4>2. stand[schritt] = "verworfen"
        BY <4>1, <1>a
      <4>3. ASSUME NEW i \in Schritte, i # schritt PROVE stand[i] = "keiner"
        <5>1. CASE i > schritt
          BY <5>1, <1>f DEF IInv, SchreibenStimmt, Schritte
        <5>2. CASE i < schritt
          <6>1. i \in 1..Len(rumpf) /\ schritt \in (i + 1)..Len(rumpf)
            BY <5>2, <1>f DEF Schritte
          <6>2. rumpf[i].art # "schreiben"
            BY <6>1, <4>1, <1>2, <1>f DEF Rumpf, Hier
          <6> QED BY <6>2 DEF IInv, SchreibenStimmt
        <5> QED BY <4>3, <5>1, <5>2, <1>f DEF Schritte
      <4> QED BY <4>2, <4>3
    <3> QED BY <3>1, <3>2
  <2> QED BY <2>2, <2>3, <2>4, <1>2, <1>g DEF Wahr, Antworten
<1>3. CASE Hier.wenn \in {"teil", "haelfte"}
  <2>1. schritt = 2 /\ rumpf[1].art = "schreiben" /\ {1, 2} \subseteq Schritte
    BY <1>3, <1>f, <1>g
  <2>2. 1 \in Geschrieben /\ scope.writeSent
    BY <2>1 DEF IInv, SchreibenStimmt, Geschrieben
  <2>3. e \in {"unklar", "teilweise"}
    BY <1>3 DEF Gescheitert
  <2>4. e = "teilweise" => ~(Hier.art = "schreiben" /\ fehler \in {"fehler5xx", "netz", "unlesbar"})
    BY <1>3, <2>2 DEF Gescheitert, answerThrow, toActionErrorResult
  <2>5. ASSUME e = "teilweise" PROVE stand[2] \notin {"geschrieben", "laeuft"}
    <3>1. CASE Hier.art # "schreiben"
      BY <2>1, <3>1, <1>f DEF IInv, SchreibenStimmt, Hier
    <3>2. CASE Hier.art = "schreiben" /\ lauf = "wartet"
      BY <2>1, <3>2 DEF IInv, SchreibenStimmt
    <3>3. CASE Hier.art = "schreiben" /\ lauf = "ruft"
      BY <2>1, <2>4, <2>5, <3>3, <1>a, <1>b DEF Fehler
    <3> QED BY <3>1, <3>2, <3>3
  <2> QED BY <2>1, <2>2, <2>3, <2>5, <1>3, <1>g DEF Wahr, Antworten
<1> QED BY <1>1, <1>2, <1>3, <1>h

-----------------------------------------------------------------------------
(* The end of the request, whatever brings it. *)

\* A mark reaches the request's scope only from a call that does not answer for itself.
LEMMA MerkeMarkiert ==
  ASSUME IInv, lauf # "fertig", NEW marke \in BOOLEAN, Merke(marke)
  PROVE  /\ scope' \in [deadlineAt : Instants, outcomeUnknown : BOOLEAN, writeSent : BOOLEAN]
         /\ scope'.writeSent = scope.writeSent
         /\ scope'.outcomeUnknown => ~Hier.eigen
<1>1. scope \in [deadlineAt : Instants, outcomeUnknown : BOOLEAN, writeSent : BOOLEAN]
      /\ ~scope.outcomeUnknown
  BY DEF IInv, TypeOK, OrtStimmt
<1>2. Hier \in Aufruf
  BY Formen DEF IInv
<1>3. Hier.eigen \in BOOLEAN
  BY <1>2 DEF Aufruf
<1> QED BY <1>1, <1>3 DEF Merke

\* A request that settles on a true answer keeps the invariant: the caches drop behind
\* every write that may stand.
LEMMA SettleStimmt ==
  ASSUME IInv, lauf \in {"wartet", "ruft"}, NEW ergebnis \in Antworten \ {"keine"},
         Wahr(ergebnis), ergebnis = "unklar" => scope.writeSent /\ ~Hier.eigen,
         scope' \in [deadlineAt : Instants, outcomeUnknown : BOOLEAN, writeSent : BOOLEAN],
         scope'.writeSent = scope.writeSent, scope'.outcomeUnknown => ~Hier.eigen,
         verloren' \in BOOLEAN, verloren => verloren', stand[schritt] = "laeuft" => verloren',
         UNCHANGED <<frist, stand, gesandt>>, Settle(ergebnis), Bleibt
  PROVE  IInv'
<1> DEFINE judged == IF writeOutcomeUnknown THEN "unklar" ELSE ergebnis
<1>f. /\ Rumpf(rumpf) /\ schritt \in 1..Len(rumpf) /\ schritt \in Schritte
      /\ schritt \in Nat \ {0}
  BY Formen DEF IInv
<1>1. /\ lauf' = "fertig" /\ antwort' = judged /\ DropTags(judged)
      /\ schritt' = schritt /\ uhr' = uhr /\ rumpf' = rumpf /\ gezeigt' = gezeigt
      /\ frist' = frist /\ stand' = stand /\ gesandt' = gesandt
  BY DEF Settle, Bleibt
<1>2. Hier' = Hier /\ Pflicht' = Pflicht /\ Geschrieben' = Geschrieben
  BY <1>1 DEF Hier, Pflicht, Geschrieben
<1>3. judged \in Antworten \ {"keine"} /\ Wahr(judged)
  BY DEF Antworten, Wahr
<1>4. judged = "unklar" => scope'.writeSent /\ ~Hier.eigen
  BY DEF writeOutcomeUnknown
<1>5. TypeOK'
  <2>1. cache' \in [da : BOOLEAN, stand : SUBSET Schritte]
        /\ fuellung' \in [laeuft : BOOLEAN, stand : SUBSET Schritte, ueberholt : BOOLEAN]
    <3>1. \/ cache' = KeinEintrag /\ fuellung' = [fuellung EXCEPT !.ueberholt = TRUE]
          \/ cache' = cache /\ fuellung' = fuellung
      BY <1>1 DEF DropTags
    <3>2. cache \in [da : BOOLEAN, stand : SUBSET Schritte]
          /\ fuellung \in [laeuft : BOOLEAN, stand : SUBSET Schritte, ueberholt : BOOLEAN]
      BY DEF IInv, TypeOK
    <3>3. KeinEintrag \in [da : BOOLEAN, stand : SUBSET Schritte]
          /\ [fuellung EXCEPT !.ueberholt = TRUE]
                \in [laeuft : BOOLEAN, stand : SUBSET Schritte, ueberholt : BOOLEAN]
      BY <3>2 DEF KeinEintrag
    <3> QED BY <3>1, <3>2, <3>3
  <2> QED BY <1>1, <1>3, <2>1 DEF IInv, TypeOK
<1>6. OrtStimmt'
  BY <1>1, <1>2 DEF IInv, OrtStimmt
<1>7. SchreibenStimmt'
  BY <1>1, <1>2 DEF IInv, SchreibenStimmt
<1>8. FristStimmt'
  BY <1>1 DEF IInv, FristStimmt
<1>9. AntwortStimmt'
  <2>1. Wahr(gezeigt)
    BY DEF IInv, AntwortStimmt
  <2> HIDE DEF judged
  <2>2. Wahr(antwort)' /\ Wahr(gezeigt)'
    BY <1>1, <1>2, <1>3, <2>1 DEF Wahr
  <2> QED BY <1>1, <2>2 DEF AntwortStimmt
<1>10. CacheStimmt'
  <2> SUFFICES ASSUME ~verloren'
               PROVE  /\ cache'.da => Geschrieben \subseteq cache'.stand
                      /\ fuellung'.laeuft /\ ~fuellung'.ueberholt => Geschrieben \subseteq fuellung'.stand
    BY <1>2 DEF CacheStimmt
  <2>1. CASE scope'.writeSent /\ judged # "gescheitert"
    BY <1>1, <2>1 DEF DropTags, KeinEintrag, IInv, TypeOK
  <2>2. CASE ~scope'.writeSent
    <3>1. Geschrieben = {}
      BY <2>2 DEF IInv, SchreibenStimmt, Geschrieben
    <3> QED BY <3>1
  <2>3. CASE judged = "gescheitert"
    <3>1. Geschrieben = {}
      BY <1>3, <2>3 DEF Wahr, Geschrieben
    <3> QED BY <3>1
  <2> QED BY <2>1, <2>2, <2>3
<1>11. ZweifelHatSeinenGrund'
  BY <1>1, <1>2, <1>4 DEF ZweifelHatSeinenGrund
<1> QED BY <1>5, <1>6, <1>7, <1>8, <1>9, <1>10, <1>11 DEF IInv

\* A request whose call fails settles with the invariant.
LEMMA FehlschlagStimmt ==
  ASSUME IInv, NEW fehler \in Fehler,
         \/ lauf = "wartet" /\ fehler \in {"ungesandt", "netz"} /\ (fehler = "netz" => Hier.art # "schreiben")
         \/ lauf = "ruft" /\ (fehler = "netz" \/ Antwortbar(fehler)),
         scope' \in [deadlineAt : Instants, outcomeUnknown : BOOLEAN, writeSent : BOOLEAN],
         scope'.writeSent = scope.writeSent, scope'.outcomeUnknown => ~Hier.eigen,
         verloren' \in BOOLEAN, verloren => verloren', stand[schritt] = "laeuft" => verloren',
         UNCHANGED <<frist, stand, gesandt>>, Settle(Gescheitert(fehler, scope.writeSent)), Bleibt
  PROVE  IInv'
<1> DEFINE e == Gescheitert(fehler, scope.writeSent)
<1>1. e \in Antworten /\ Wahr(e) /\ (e = "unklar" => scope.writeSent /\ ~Hier.eigen)
  BY GescheitertStimmt
<1>2. Hier \in Aufruf
  BY Formen DEF IInv
<1>3. e # "keine"
  BY <1>2 DEF Gescheitert, answerThrow, toActionErrorResult, Aufruf
<1> HIDE DEF e
<1>4. Settle(e)
  BY DEF e
<1>5. lauf \in {"wartet", "ruft"}
  OBVIOUS
<1> QED BY <1>1, <1>3, <1>4, <1>5, SettleStimmt

\* The next call of the body, behind one that answered well.
LEMMA WeiterStimmt ==
  ASSUME IInv, lauf = "ruft", Hier.art = "schreiben" => stand[schritt] = "geschrieben",
         schritt < Len(rumpf), Weiter,
         UNCHANGED <<scope, frist, stand, gesandt, verloren>>, Bleibt
  PROVE  IInv'
<1>f. /\ Rumpf(rumpf) /\ schritt \in 1..Len(rumpf) /\ schritt \in Schritte
      /\ schritt \in Nat \ {0} /\ Len(rumpf) \in Nat
      /\ \A i \in 1..Len(rumpf) : rumpf[i] \in Aufruf /\ i \in Schritte
  BY Formen DEF IInv
<1>1. /\ lauf' = "wartet" /\ schritt' = schritt + 1 /\ uhr' = uhr /\ rumpf' = rumpf
      /\ gezeigt' = gezeigt /\ frist' = frist /\ stand' = stand /\ gesandt' = gesandt
      /\ scope' = scope /\ verloren' = verloren /\ antwort' = antwort /\ cache' = cache
      /\ fuellung' = fuellung
  BY DEF Weiter, Bleibt
<1>2. schritt + 1 \in Schritte /\ schritt + 1 \in 1..Len(rumpf)
  BY <1>f
<1>3. stand[schritt + 1] = "keiner"
  BY <1>2, <1>f DEF IInv, SchreibenStimmt
<1>4. TypeOK'
  BY <1>1, <1>2 DEF IInv, TypeOK
<1>5. OrtStimmt'
  BY <1>1, <1>2, <1>f DEF IInv, OrtStimmt
<1>6. SchreibenStimmt'
  <2>1. \A i \in 1..schritt : rumpf[i].art = "schreiben" => stand[i] = "geschrieben"
    BY <1>f DEF IInv, SchreibenStimmt, Hier
  <2>2. \A i \in Schritte : stand[i] # "keiner" =>
          i <= schritt + 1 /\ scope.writeSent /\ rumpf[i].art = "schreiben"
    BY <1>f DEF IInv, SchreibenStimmt, Schritte
  <2>3. 1..(schritt' - 1) = 1..schritt
    BY <1>1, <1>f
  <2>4. stand'[schritt'] = "keiner" /\ lauf' = "wartet"
    BY <1>1, <1>3
  <2>5. \A i \in Schritte : stand'[i] # "keiner" =>
          i <= schritt' /\ scope'.writeSent /\ rumpf'[i].art = "schreiben"
    BY <1>1, <2>2
  <2>6. \A i \in 1..(schritt' - 1) : rumpf'[i].art = "schreiben" => stand'[i] = "geschrieben"
    BY <1>1, <2>1, <2>3
  <2> QED BY <2>4, <2>5, <2>6 DEF SchreibenStimmt
<1>7. FristStimmt'
  BY <1>1, <1>3 DEF FristStimmt
<1>8. AntwortStimmt' /\ CacheStimmt'
  BY <1>1 DEF IInv, AntwortStimmt, CacheStimmt, Wahr, Pflicht, Geschrieben
<1>9. ZweifelHatSeinenGrund'
  <2>1. antwort' = "keine"
    BY <1>1 DEF IInv, AntwortStimmt
  <2> QED BY <2>1 DEF ZweifelHatSeinenGrund
<1> QED BY <1>4, <1>5, <1>6, <1>7, <1>8, <1>9 DEF IInv

-----------------------------------------------------------------------------
(* The steps. *)

LEMMA AmAnfang == Init => IInv
<1> SUFFICES ASSUME Init PROVE IInv
  OBVIOUS
<1>1. Rumpf(rumpf) /\ MaxSchritte \in Nat /\ MaxUhr \in Nat
  BY RuempfeAssumption, ZahlenAssumption DEF Init
<1>2. Len(rumpf) \in 1..MaxSchritte /\ 1 \in Schritte
  BY <1>1 DEF Rumpf, Schritte
<1>3. TypeOK
  <2>1. 0 \in Instants
    BY <1>1 DEF Instants
  <2>2. /\ stand \in [Schritte -> {"keiner", "laeuft", "geschrieben", "verworfen"}]
        /\ gesandt \in [Schritte -> Instants]
    BY <2>1 DEF Init
  <2>3. /\ cache \in [da : BOOLEAN, stand : SUBSET Schritte]
        /\ fuellung \in [laeuft : BOOLEAN, stand : SUBSET Schritte, ueberholt : BOOLEAN]
    BY DEF Init, KeinEintrag, KeineFuellung
  <2>4. scope \in [deadlineAt : Instants, outcomeUnknown : BOOLEAN, writeSent : BOOLEAN]
    BY <2>1 DEF Init
  <2> QED BY <1>2, <2>1, <2>2, <2>3, <2>4 DEF Init, TypeOK, Antworten
<1>4. OrtStimmt /\ SchreibenStimmt /\ FristStimmt
  BY <1>2 DEF Init, OrtStimmt, SchreibenStimmt, FristStimmt
<1>5. AntwortStimmt /\ CacheStimmt /\ ZweifelHatSeinenGrund
  BY DEF Init, AntwortStimmt, Wahr, CacheStimmt, ZweifelHatSeinenGrund
<1> QED BY <1>3, <1>4, <1>5 DEF IInv

\* A step that leaves the answer, what is shown, the writes and the caches of a request
\* still running alone keeps what is said of them.
LEMMA VorDerAntwort ==
  ASSUME IInv, lauf # "fertig", lauf' # "fertig", antwort' = antwort, gezeigt' = gezeigt
  PROVE  AntwortStimmt' /\ CacheStimmt' /\ ZweifelHatSeinenGrund'
<1>1. antwort' = "keine" /\ gezeigt' = "keine"
  BY DEF IInv, AntwortStimmt
<1> QED BY <1>1 DEF AntwortStimmt, Wahr, CacheStimmt, ZweifelHatSeinenGrund

LEMMA EdgeRefusalStimmt == IInv /\ EdgeRefusal => IInv'
<1> SUFFICES ASSUME IInv, EdgeRefusal PROVE IInv'
  OBVIOUS
<1>f. schritt \in Schritte /\ schritt \in 1..Len(rumpf)
  BY Formen DEF IInv
<1>1. \A i \in Schritte : stand[i] = "keiner"
  BY <1>f DEF IInv, OrtStimmt, SchreibenStimmt, EdgeRefusal, Schritte
<1>2. Geschrieben = {} /\ antwort = "keine" /\ ~scope.outcomeUnknown
  BY <1>1 DEF Geschrieben, IInv, AntwortStimmt, OrtStimmt, EdgeRefusal
<1>3. TypeOK'
  BY DEF EdgeRefusal, IInv, TypeOK, Antworten
<1>4. OrtStimmt' /\ SchreibenStimmt' /\ FristStimmt'
  BY <1>1, <1>2, <1>f DEF EdgeRefusal, IInv, OrtStimmt, SchreibenStimmt, FristStimmt, Hier
<1>5. AntwortStimmt'
  BY <1>1, <1>2 DEF EdgeRefusal, AntwortStimmt, Wahr
<1>6. CacheStimmt' /\ ZweifelHatSeinenGrund'
  BY <1>2 DEF EdgeRefusal, CacheStimmt, ZweifelHatSeinenGrund, Geschrieben
<1> QED BY <1>3, <1>4, <1>5, <1>6 DEF IInv

LEMMA RequestScopeStimmt == IInv /\ runWithRequestScope => IInv'
<1> SUFFICES ASSUME IInv, runWithRequestScope PROVE IInv'
  OBVIOUS
<1>f. schritt \in Schritte /\ schritt \in 1..Len(rumpf)
  BY Formen DEF IInv
<1>0. uhr = 0 /\ schritt = 1
  BY DEF IInv, OrtStimmt, runWithRequestScope
<1>1. \A i \in Schritte : stand[i] = "keiner"
  BY <1>0, <1>f DEF IInv, SchreibenStimmt, runWithRequestScope, Schritte
<1>2. scope' \in [deadlineAt : Instants, outcomeUnknown : BOOLEAN, writeSent : BOOLEAN]
  BY <1>0, ZahlenAssumption, FristenAssumption DEF runWithRequestScope, Instants
<1>3. TypeOK'
  BY <1>2 DEF runWithRequestScope, IInv, TypeOK
<1>4. OrtStimmt' /\ SchreibenStimmt' /\ FristStimmt'
  BY <1>0, <1>1, <1>f DEF runWithRequestScope, IInv, OrtStimmt, SchreibenStimmt, FristStimmt
<1>5. AntwortStimmt' /\ CacheStimmt' /\ ZweifelHatSeinenGrund'
  BY VorDerAntwort DEF runWithRequestScope
<1> QED BY <1>3, <1>4, <1>5 DEF IInv

LEMMA ForbiddenStimmt == IInv /\ Forbidden => IInv'
<1> SUFFICES ASSUME IInv, Forbidden PROVE IInv'
  OBVIOUS
<1>f. schritt \in Schritte /\ schritt \in 1..Len(rumpf)
  BY Formen DEF IInv
<1>1. \A i \in Schritte : stand[i] = "keiner"
  BY <1>f DEF IInv, SchreibenStimmt, Forbidden, Schritte
<1>2. Wahr("gescheitert") /\ "gescheitert" \in Antworten \ {"keine"}
  BY <1>1 DEF Wahr, Antworten
<1>3. scope' = scope /\ verloren' = verloren /\ ~scope.outcomeUnknown
      /\ scope \in [deadlineAt : Instants, outcomeUnknown : BOOLEAN, writeSent : BOOLEAN]
      /\ verloren \in BOOLEAN
  BY DEF Forbidden, IInv, OrtStimmt, TypeOK
<1>4. lauf \in {"wartet", "ruft"} /\ Settle("gescheitert") /\ Bleibt
      /\ UNCHANGED <<frist, stand, gesandt>>
  BY DEF Forbidden
<1> QED BY <1>1, <1>2, <1>3, <1>4, <1>f, SettleStimmt

LEMMA SendStimmt == IInv /\ Send => IInv'
<1> SUFFICES ASSUME IInv, Send PROVE IInv'
  OBVIOUS
<1>f. /\ Rumpf(rumpf) /\ schritt \in 1..Len(rumpf) /\ schritt \in Schritte
      /\ schritt \in Nat \ {0} /\ Hier \in Aufruf
      /\ uhr \in Nat /\ frist \in Nat /\ scope.deadlineAt \in Nat
  BY Formen DEF IInv
<1>k. /\ BASE_FETCH_TIMEOUT \in Nat /\ WRITE_NEEDS \in Nat /\ BACKEND_REQUEST_DEADLINE \in Nat
      /\ BACKEND_REQUEST_DEADLINE < WRITE_NEEDS /\ WRITE_NEEDS <= BASE_FETCH_TIMEOUT
  BY ZahlenAssumption, FristenAssumption
<1>1. /\ lauf = "wartet" /\ lauf' = "ruft" /\ frist' = callBound /\ uhr' = uhr
      /\ schritt' = schritt /\ rumpf' = rumpf /\ verloren' = verloren
      /\ antwort' = antwort /\ gezeigt' = gezeigt /\ cache' = cache /\ fuellung' = fuellung
  BY DEF Send, Bleibt
<1>2. requestTimeLeft = scope.deadlineAt - uhr /\ uhr < scope.deadlineAt
  BY <1>f DEF Send, requestTimeLeft
<1>3. callBound \in Instants
  <2>1. scope.deadlineAt \in Instants /\ MaxUhr \in Nat
    BY ZahlenAssumption DEF IInv, TypeOK
  <2> QED BY <1>f, <1>k, <1>2, <2>1 DEF callBound, Instants
<1>4. /\ scope' \in [deadlineAt : Instants, outcomeUnknown : BOOLEAN, writeSent : BOOLEAN]
      /\ scope'.outcomeUnknown = scope.outcomeUnknown
      /\ scope'.writeSent = (scope.writeSent \/ Hier.art = "schreiben" \/ Hier.art = "nachricht")
  BY DEF Send, dispatchRequest, IInv, TypeOK
<1>5. CASE Hier.art # "schreiben"
  <2>1. stand' = stand /\ gesandt' = gesandt /\ stand[schritt] = "keiner"
    BY <1>1, <1>5 DEF Send, IInv, SchreibenStimmt
  <2>2. TypeOK'
    BY <1>1, <1>3, <1>4, <2>1 DEF IInv, TypeOK
  <2>3. OrtStimmt' /\ FristStimmt'
    BY <1>1, <1>4, <2>1 DEF IInv, OrtStimmt, FristStimmt
  <2>4. SchreibenStimmt'
    BY <1>1, <1>4, <1>5, <2>1 DEF IInv, SchreibenStimmt, Hier
  <2>5. AntwortStimmt' /\ CacheStimmt' /\ ZweifelHatSeinenGrund'
    BY <1>1, VorDerAntwort
  <2> QED BY <2>2, <2>3, <2>4, <2>5 DEF IInv
<1>6. CASE Hier.art = "schreiben"
  <2>1. /\ stand' = [stand EXCEPT ![schritt] = "laeuft"]
        /\ gesandt' = [gesandt EXCEPT ![schritt] = uhr]
    BY <1>6 DEF Send
  <2>2. /\ stand' \in [Schritte -> {"keiner", "laeuft", "geschrieben", "verworfen"}]
        /\ gesandt' \in [Schritte -> Instants]
        /\ stand'[schritt] = "laeuft" /\ gesandt'[schritt] = uhr
        /\ \A i \in Schritte : i # schritt => stand'[i] = stand[i]
    BY <1>f, <2>1 DEF IInv, TypeOK
  <2>3. TypeOK'
    BY <1>1, <1>3, <1>4, <2>2 DEF IInv, TypeOK
  <2>4. OrtStimmt'
    BY <1>1, <1>4 DEF IInv, OrtStimmt
  <2>5. FristStimmt'
    <3>1. scope.deadlineAt - uhr >= WRITE_NEEDS
      BY <1>2, <1>6, <1>f, <1>k DEF Send, refusedUnsent
    <3>2. uhr + BACKEND_REQUEST_DEADLINE < callBound
      BY <1>2, <1>f, <1>k, <3>1 DEF callBound
    <3> QED BY <1>1, <1>f, <1>k, <2>2, <3>2 DEF FristStimmt
  <2>6. SchreibenStimmt'
    <3>1. \A i \in Schritte : stand'[i] # "keiner" =>
            i <= schritt /\ rumpf[i].art = "schreiben"
      BY <1>6, <1>f, <2>2 DEF IInv, SchreibenStimmt, Hier
    <3>2. \A i \in 1..(schritt - 1) : i \in Schritte /\ i # schritt
      BY <1>f, ZahlenAssumption DEF Schritte
    <3>3. \A i \in 1..(schritt - 1) : rumpf[i].art = "schreiben" => stand'[i] = "geschrieben"
      BY <2>2, <3>2 DEF IInv, SchreibenStimmt
    <3> QED BY <1>1, <1>4, <1>6, <2>2, <3>1, <3>3 DEF SchreibenStimmt
  <2>7. AntwortStimmt' /\ CacheStimmt' /\ ZweifelHatSeinenGrund'
    BY <1>1, VorDerAntwort
  <2> QED BY <2>3, <2>4, <2>5, <2>6, <2>7 DEF IInv
<1> QED BY <1>5, <1>6

LEMMA SendUnsentStimmt == IInv /\ SendUnsent => IInv'
<1> SUFFICES ASSUME IInv, SendUnsent PROVE IInv'
  OBVIOUS
<1>f. uhr \in Nat /\ scope.deadlineAt \in Nat /\ WRITE_NEEDS \in Nat \ {0}
      /\ schritt \in Schritte
  BY Formen, ZahlenAssumption, FristenAssumption DEF IInv
<1> DEFINE fehler == IF refusedUnsent \/ Hier.art = "nachricht" THEN "ungesandt" ELSE "netz"
<1>1. lauf = "wartet" /\ Merke(~refusedUnsent)
      /\ Settle(Gescheitert(fehler, scope.writeSent)) /\ Bleibt
      /\ UNCHANGED <<frist, stand, gesandt>> /\ verloren' = verloren
  BY DEF SendUnsent
<1>2. fehler = "netz" => Hier.art # "schreiben"
  BY <1>f DEF SendUnsent, refusedUnsent, requestTimeLeft
<1>3. fehler \in Fehler /\ fehler \in {"ungesandt", "netz"}
  BY DEF Fehler
<1> HIDE DEF fehler
<1>4. /\ scope' \in [deadlineAt : Instants, outcomeUnknown : BOOLEAN, writeSent : BOOLEAN]
      /\ scope'.writeSent = scope.writeSent /\ (scope'.outcomeUnknown => ~Hier.eigen)
  BY <1>1, MerkeMarkiert
<1>5. verloren \in BOOLEAN /\ stand[schritt] = "keiner"
  BY <1>1 DEF IInv, TypeOK, SchreibenStimmt
<1> QED BY <1>1, <1>2, <1>3, <1>4, <1>5, FehlschlagStimmt

\* The shape of the scope and of the ghost, and no mark before the end.
LEMMA ScopeTyp ==
  ASSUME IInv
  PROVE  /\ scope \in [deadlineAt : Instants, outcomeUnknown : BOOLEAN, writeSent : BOOLEAN]
         /\ verloren \in BOOLEAN
         /\ lauf # "fertig" => ~scope.outcomeUnknown
BY DEF IInv, TypeOK, OrtStimmt

LEMMA AnswerStimmt == IInv /\ Answer => IInv'
<1> SUFFICES ASSUME IInv, Answer PROVE IInv'
  OBVIOUS
<1>f. /\ Rumpf(rumpf) /\ schritt \in 1..Len(rumpf) /\ schritt \in Schritte
      /\ schritt \in Nat \ {0} /\ Len(rumpf) \in Nat
      /\ \A i \in 1..Len(rumpf) : rumpf[i] \in Aufruf /\ i \in Schritte
  BY Formen DEF IInv
<1>1. /\ lauf = "ruft" /\ (Hier.art = "schreiben" => stand[schritt] = "geschrieben")
      /\ scope' = scope /\ frist' = frist /\ stand' = stand /\ gesandt' = gesandt
      /\ verloren' = verloren /\ Gelungen /\ Bleibt
  BY DEF Answer
<1>2. CASE schritt < Len(rumpf) /\ Weiter
  BY <1>1, <1>2, WeiterStimmt
<1>3. CASE /\ \A i \in (schritt + 1)..Len(rumpf) : rumpf[i].wenn = "schweigt"
           /\ Settle("gespeichert")
  <2>1. Pflicht \subseteq Geschrieben
    <3> SUFFICES ASSUME NEW i \in 1..Len(rumpf), rumpf[i].art = "schreiben", rumpf[i].wenn # "schweigt"
                 PROVE  i \in Geschrieben
      BY DEF Pflicht
    <3>1. i = schritt \/ i \in 1..(schritt - 1)
      BY <1>3, <1>f
    <3>2. stand[i] = "geschrieben"
      BY <1>1, <3>1 DEF IInv, SchreibenStimmt, Hier
    <3> QED BY <1>f, <3>2 DEF Geschrieben
  <2>2. Wahr("gespeichert") /\ "gespeichert" \in Antworten \ {"keine"}
    BY <2>1 DEF Wahr, Antworten
  <2>3. stand[schritt] # "laeuft"
    BY <1>1, <1>f DEF IInv, SchreibenStimmt, Hier
  <2> QED BY <1>1, <1>3, <2>2, <2>3, ScopeTyp, SettleStimmt
<1> QED BY <1>1, <1>2, <1>3 DEF Gelungen

LEMMA AnswerFailedStimmt == IInv /\ AnswerFailed => IInv'
<1> SUFFICES ASSUME IInv, NEW fehler \in Fehler, lauf = "ruft", Antwortbar(fehler),
                    UNCHANGED <<scope, frist, stand, gesandt, verloren>>,
                    Settle(Gescheitert(fehler, scope.writeSent)), Bleibt
             PROVE  IInv'
  BY DEF AnswerFailed
<1>f. schritt \in Schritte
  BY Formen DEF IInv
<1>1. stand[schritt] # "laeuft"
  BY <1>f DEF Antwortbar, Fehler, IInv, SchreibenStimmt, Hier
<1>2. /\ scope' = scope /\ verloren' = verloren /\ UNCHANGED <<frist, stand, gesandt>>
  OBVIOUS
<1> QED BY <1>1, <1>2, ScopeTyp, FehlschlagStimmt

LEMMA BreakStimmt == IInv /\ Break => IInv'
<1> SUFFICES ASSUME IInv, Break PROVE IInv'
  OBVIOUS
<1>1. /\ lauf = "ruft" /\ Merke(Hier.art = "nachricht")
      /\ Settle(Gescheitert("netz", scope.writeSent)) /\ Bleibt
      /\ verloren' = (verloren \/ stand[schritt] = "laeuft")
      /\ UNCHANGED <<frist, stand, gesandt>>
  BY DEF Break
<1>2. /\ scope' \in [deadlineAt : Instants, outcomeUnknown : BOOLEAN, writeSent : BOOLEAN]
      /\ scope'.writeSent = scope.writeSent /\ (scope'.outcomeUnknown => ~Hier.eigen)
  BY <1>1, MerkeMarkiert
<1>3. verloren' \in BOOLEAN /\ (verloren => verloren') /\ (stand[schritt] = "laeuft" => verloren')
  BY <1>1, ScopeTyp
<1>4. "netz" \in Fehler
  BY DEF Fehler
<1> QED BY <1>1, <1>2, <1>3, <1>4, FehlschlagStimmt

LEMMA AbortStimmt == IInv /\ Abort => IInv'
<1> SUFFICES ASSUME IInv, Abort PROVE IInv'
  OBVIOUS
<1>f. schritt \in Schritte /\ frist \in Nat /\ gesandt[schritt] \in Nat
      /\ BACKEND_REQUEST_DEADLINE \in Nat
  BY Formen, ZahlenAssumption DEF IInv
<1>1. /\ lauf = "ruft" /\ uhr = frist /\ Merke(byDeadline \/ Hier.art = "nachricht")
      /\ Settle(Gescheitert("netz", scope.writeSent)) /\ Bleibt
      /\ verloren' = verloren /\ UNCHANGED <<frist, stand, gesandt>>
  BY DEF Abort, boundCall
<1>2. /\ scope' \in [deadlineAt : Instants, outcomeUnknown : BOOLEAN, writeSent : BOOLEAN]
      /\ scope'.writeSent = scope.writeSent /\ (scope'.outcomeUnknown => ~Hier.eigen)
  BY <1>1, MerkeMarkiert
<1>3. stand[schritt] # "laeuft"
  BY <1>1, <1>f DEF IInv, FristStimmt
<1>4. "netz" \in Fehler
  BY DEF Fehler
<1> QED BY <1>1, <1>2, <1>3, <1>4, ScopeTyp, FehlschlagStimmt

LEMMA CommitStimmt ==
  ASSUME IInv, NEW i \in Schritte, NEW ausgang \in {"geschrieben", "verworfen"}, Commit(i, ausgang)
  PROVE  IInv'
<1>f. /\ Rumpf(rumpf) /\ schritt \in 1..Len(rumpf) /\ schritt \in Schritte /\ schritt \in Nat \ {0}
  BY Formen DEF IInv
<1>1. /\ stand[i] = "laeuft" /\ stand' = [stand EXCEPT ![i] = ausgang]
      /\ uhr' = uhr /\ rumpf' = rumpf /\ lauf' = lauf /\ schritt' = schritt /\ scope' = scope
      /\ frist' = frist /\ gesandt' = gesandt /\ antwort' = antwort /\ gezeigt' = gezeigt
      /\ cache' = cache /\ fuellung' = fuellung /\ verloren' = verloren
  BY DEF Commit
<1>2. i = schritt
  <2>1. i <= schritt /\ rumpf[i].art = "schreiben"
    BY <1>1 DEF IInv, SchreibenStimmt
  <2>2. ~(i \in 1..(schritt - 1))
    BY <1>1, <2>1 DEF IInv, SchreibenStimmt
  <2> QED BY <1>f, <2>1, <2>2, ZahlenAssumption DEF Schritte
<1>3. lauf \in {"ruft", "fertig"} /\ (lauf = "fertig" => verloren)
  BY <1>1, <1>2 DEF IInv, TypeOK, SchreibenStimmt, FristStimmt
<1>4. /\ stand' \in [Schritte -> {"keiner", "laeuft", "geschrieben", "verworfen"}]
      /\ stand'[schritt] = ausgang /\ \A j \in Schritte : j # schritt => stand'[j] = stand[j]
  BY <1>1, <1>2 DEF IInv, TypeOK
<1>5. TypeOK'
  BY <1>1, <1>4 DEF IInv, TypeOK
<1>6. OrtStimmt' /\ FristStimmt'
  BY <1>1, <1>4 DEF IInv, OrtStimmt, FristStimmt, Hier
<1>7. SchreibenStimmt'
  <2>1. \A j \in 1..(schritt - 1) : j \in Schritte /\ j # schritt
    BY <1>f, ZahlenAssumption DEF Schritte
  <2>2. \A j \in 1..(schritt - 1) : rumpf[j].art = "schreiben" => stand'[j] = "geschrieben"
    BY <1>4, <2>1 DEF IInv, SchreibenStimmt
  <2>3. \A j \in Schritte : stand'[j] # "keiner" =>
          j <= schritt /\ scope.writeSent /\ rumpf[j].art = "schreiben"
    BY <1>1, <1>2, <1>4 DEF IInv, SchreibenStimmt
  <2> QED BY <1>1, <1>3, <1>4, <2>2, <2>3 DEF SchreibenStimmt
<1>8. AntwortStimmt'
  <2>1. Geschrieben \subseteq Geschrieben' /\ Pflicht' = Pflicht
    BY <1>1, <1>2, <1>4 DEF Geschrieben, Pflicht
  <2>2. ASSUME NEW a, Wahr(a) PROVE Wahr(a)'
    <3>1. a # "gescheitert"
      BY <1>1, <2>2 DEF Wahr
    <3>2. a = "teilweise" => stand'[2] \notin {"geschrieben", "laeuft"}
      <4>1. a = "teilweise" => schritt # 2
        BY <1>1, <1>2, <2>2 DEF Wahr
      <4> QED BY <1>4, <2>2, <4>1 DEF Wahr
    <3> QED BY <2>1, <2>2, <3>1, <3>2 DEF Wahr
  <2> QED BY <1>1, <2>2 DEF IInv, AntwortStimmt
<1>9. CacheStimmt' /\ ZweifelHatSeinenGrund'
  BY <1>1, <1>3 DEF IInv, CacheStimmt, ZweifelHatSeinenGrund, Hier
<1> QED BY <1>5, <1>6, <1>7, <1>8, <1>9 DEF IInv

\* The page, the cached read beside it and the clock.
LEMMA ShowStimmt == IInv /\ Show => IInv'
<1> SUFFICES ASSUME IInv, Show PROVE IInv'
  OBVIOUS
<1>1. /\ lauf = "fertig" /\ gezeigt' \in {antwort, "unklar"}
      /\ uhr' = uhr /\ rumpf' = rumpf /\ lauf' = lauf /\ schritt' = schritt /\ scope' = scope
      /\ frist' = frist /\ stand' = stand /\ gesandt' = gesandt /\ antwort' = antwort
      /\ cache' = cache /\ fuellung' = fuellung /\ verloren' = verloren
  BY DEF Show
<1>2. TypeOK'
  BY <1>1 DEF IInv, TypeOK, Antworten
<1>3. Wahr(antwort)' /\ Wahr(gezeigt)'
  <2>1. Wahr(antwort) /\ Wahr("unklar")
    BY DEF IInv, AntwortStimmt, Wahr
  <2> QED BY <1>1, <2>1 DEF Wahr, Pflicht, Geschrieben
<1>4. OrtStimmt' /\ SchreibenStimmt' /\ FristStimmt'
  BY <1>1 DEF IInv, OrtStimmt, SchreibenStimmt, FristStimmt, Hier
<1>5. AntwortStimmt' /\ CacheStimmt' /\ ZweifelHatSeinenGrund'
  BY <1>1, <1>3 DEF IInv, AntwortStimmt, CacheStimmt, ZweifelHatSeinenGrund, Hier, Geschrieben
<1> QED BY <1>2, <1>4, <1>5 DEF IInv

LEMMA FillStimmt == IInv /\ (FillReads \/ FillStores) => IInv'
<1> SUFFICES ASSUME IInv, FillReads \/ FillStores PROVE IInv'
  OBVIOUS
<1>1. /\ uhr' = uhr /\ rumpf' = rumpf /\ lauf' = lauf /\ schritt' = schritt /\ scope' = scope
      /\ frist' = frist /\ stand' = stand /\ gesandt' = gesandt /\ antwort' = antwort
      /\ gezeigt' = gezeigt /\ verloren' = verloren
  BY DEF FillReads, FillStores
<1>2. /\ cache \in [da : BOOLEAN, stand : SUBSET Schritte]
      /\ fuellung \in [laeuft : BOOLEAN, stand : SUBSET Schritte, ueberholt : BOOLEAN]
  BY DEF IInv, TypeOK
<1>3. /\ cache' \in [da : BOOLEAN, stand : SUBSET Schritte]
      /\ fuellung' \in [laeuft : BOOLEAN, stand : SUBSET Schritte, ueberholt : BOOLEAN]
      /\ CacheStimmt'
  <2>1. CASE FillReads
    <3>1. cache' = cache /\ fuellung' = [laeuft |-> TRUE, stand |-> Geschrieben, ueberholt |-> FALSE]
      BY <2>1 DEF FillReads
    <3>2. Geschrieben \subseteq Schritte /\ Geschrieben' = Geschrieben
      BY <1>1 DEF Geschrieben
    <3> QED BY <1>1, <1>2, <3>1, <3>2 DEF IInv, CacheStimmt
  <2>2. CASE FillStores
    <3>1. /\ fuellung' = KeineFuellung /\ fuellung.laeuft
          /\ \/ fuellung.ueberholt /\ cache' = KeinEintrag
             \/ ~fuellung.ueberholt /\ cache' = [da |-> TRUE, stand |-> fuellung.stand]
      BY <2>2 DEF FillStores
    <3>2. Geschrieben' = Geschrieben
      BY <1>1 DEF Geschrieben
    <3>3. /\ cache' \in [da : BOOLEAN, stand : SUBSET Schritte]
          /\ fuellung' \in [laeuft : BOOLEAN, stand : SUBSET Schritte, ueberholt : BOOLEAN]
      <4>1. /\ KeinEintrag \in [da : BOOLEAN, stand : SUBSET Schritte]
            /\ KeineFuellung \in [laeuft : BOOLEAN, stand : SUBSET Schritte, ueberholt : BOOLEAN]
        BY DEF KeineFuellung, KeinEintrag
      <4>2. fuellung.stand \in SUBSET Schritte
        BY <1>2
      <4>3. [da |-> TRUE, stand |-> fuellung.stand] \in [da : BOOLEAN, stand : SUBSET Schritte]
        BY <4>2
      <4> QED BY <3>1, <4>1, <4>3
    <3>4. CacheStimmt'
      BY <1>1, <3>1, <3>2 DEF IInv, CacheStimmt, KeineFuellung, KeinEintrag
    <3> QED BY <3>3, <3>4
  <2> QED BY <2>1, <2>2
<1>4. TypeOK'
  BY <1>1, <1>3 DEF IInv, TypeOK
<1>5. OrtStimmt' /\ SchreibenStimmt' /\ FristStimmt'
  BY <1>1 DEF IInv, OrtStimmt, SchreibenStimmt, FristStimmt, Hier
<1>6. AntwortStimmt' /\ ZweifelHatSeinenGrund'
  BY <1>1 DEF IInv, AntwortStimmt, Wahr, ZweifelHatSeinenGrund, Hier, Pflicht, Geschrieben
<1> QED BY <1>3, <1>4, <1>5, <1>6 DEF IInv

LEMMA TickStimmt == IInv /\ Tick => IInv'
<1> SUFFICES ASSUME IInv, Tick PROVE IInv'
  OBVIOUS
<1>f. schritt \in Schritte /\ uhr \in Nat /\ gesandt[schritt] \in Nat
      /\ BACKEND_REQUEST_DEADLINE \in Nat /\ MaxUhr \in Nat
  BY Formen, ZahlenAssumption DEF IInv
<1>1. /\ lauf # "frei" /\ uhr < MaxUhr /\ uhr' = uhr + 1
      /\ stand[schritt] = "laeuft" => uhr < gesandt[schritt] + BACKEND_REQUEST_DEADLINE
      /\ rumpf' = rumpf /\ lauf' = lauf /\ schritt' = schritt /\ scope' = scope
      /\ frist' = frist /\ stand' = stand /\ gesandt' = gesandt /\ antwort' = antwort
      /\ gezeigt' = gezeigt /\ cache' = cache /\ fuellung' = fuellung /\ verloren' = verloren
  BY <1>f DEF Tick
<1>2. TypeOK'
  BY <1>1, <1>f DEF IInv, TypeOK, Instants
<1>3. FristStimmt'
  BY <1>1, <1>f DEF IInv, FristStimmt
<1>4. OrtStimmt' /\ SchreibenStimmt'
  BY <1>1 DEF IInv, OrtStimmt, SchreibenStimmt, Hier
<1>5. AntwortStimmt' /\ CacheStimmt' /\ ZweifelHatSeinenGrund'
  BY <1>1 DEF IInv, AntwortStimmt, Wahr, CacheStimmt, ZweifelHatSeinenGrund, Hier, Pflicht, Geschrieben
<1> QED BY <1>2, <1>3, <1>4, <1>5 DEF IInv

LEMMA StilleStimmt == IInv /\ UNCHANGED vars => IInv'
BY DEF vars, IInv, TypeOK, OrtStimmt, SchreibenStimmt, FristStimmt, AntwortStimmt, Wahr,
       CacheStimmt, ZweifelHatSeinenGrund, Hier, Pflicht, Geschrieben

LEMMA SchrittStimmt == IInv /\ [Next]_vars => IInv'
BY EdgeRefusalStimmt, RequestScopeStimmt, ForbiddenStimmt, SendStimmt, SendUnsentStimmt,
   AnswerStimmt, AnswerFailedStimmt, BreakStimmt, AbortStimmt, CommitStimmt, ShowStimmt,
   FillStimmt, TickStimmt, StilleStimmt DEF Next

LEMMA Invariante == Spec => []IInv
BY AmAnfang, SchrittStimmt, PTL DEF Spec

-----------------------------------------------------------------------------
(* The theorems. *)

\* The request, its scope, its calls and the cached read keep their shapes: no call of any
\* body waits past the last instant the request's deadline leaves it (api.ts, requestScope.ts).
THEOREM Typkorrekt == Spec => []TypeOK
BY Invariante, PTL DEF IInv

\* Whatever body is pressed and wherever its calls are refused, cut, lost or broken off,
\* what the page tells its reader of the press is true of its writes, and stays true
\* (actionError.ts, writeOutcome.ts, adminMutation.ts).
THEOREM AnsageIstWahr == Spec => []AnsageStimmt
<1>1. IInv => AnsageStimmt
  BY DEF IInv, AntwortStimmt, Wahr, AnsageStimmt
<1> QED BY <1>1, Invariante, PTL

\* For any deadlines nested as the code's are, no cached read served behind the answer
\* misses a write of the press that stands, a connection broken under a write excepted:
\* every commit comes ahead of the drop, and a fill begun before the drop is never served
\* (api.ts, adminMutation.ts).
THEOREM CacheIstFrisch == Spec => []KeinAlterCache
<1>1. IInv => KeinAlterCache
  BY DEF IInv, CacheStimmt, KeinAlterCache
<1> QED BY <1>1, Invariante, PTL

\* A request is answered in doubt only where it sent something that may stand, and never
\* for the end of a call that answers for its own doubt (requestScope.ts, writeOutcome.ts).
THEOREM ZweifelBegruendet == Spec => []ZweifelHatSeinenGrund
BY Invariante, PTL DEF IInv

==============================================================================
