------------------------------- MODULE Zerlegung -------------------------------
(***************************************************************************)
(* A sweep's transactions taken apart: an attempt that fails is halved     *)
(* over the rows it took until each row failing alone is passed over.      *)
(* Erasing clocks drain page after page (`drain`); clocks owing a message  *)
(* write one share (`run_isolated` with owes) and answer what committed.   *)
(* Source: fl_backend/app/core/transactions.py, and the callbacks of       *)
(* registrierungen/sweep_router.py (erase_the_unconfirmed, remind).        *)
(*                                                                         *)
(* An attempt is one step: its transaction reads a snapshot and commits    *)
(* whole or not at all.  Between two attempts the people decide their own  *)
(* rows and rows come due.                                                 *)
(***************************************************************************)
EXTENDS Naturals, FiniteSets, Sequences

CONSTANTS
  Zeilen,       \* row ids, in the order of the read
  Spaete,       \* bound: rows that come due while the call runs
  Seite,        \* SWEEP_PAGE
  Anteil,       \* the share of a clock owing messages
  MaxStoerungen \* bound: failures no row carries alone

ASSUME ZeilenAssumption == Zeilen \subseteq Nat /\ IsFiniteSet(Zeilen) /\ Spaete \subseteq Zeilen
ASSUME SeitenAssumption ==
  Seite \in Nat \ {0} /\ Anteil \in Nat \ {0} /\ MaxStoerungen \in Nat

VARIABLES
  art,    \* what the code meets in a row: "heil", "unlesbar" (its judge
          \* raises), "giftig" (its write fails), "stehend" (read, not due)
  zeile,  \* the stored row: "faellig", "fern" and later "spaet", "getan" by
          \* this call, "fort" by somebody else
  lauf    \* the call; its `schuldet` says whether a committed row owes a message

vars == <<art, zeile, lauf>>

Faellige == {z \in Zeilen : zeile[z] \in {"faellig", "spaet"}}

\* The first n rows of S.
Erste(S, n) == {z \in S : Cardinality({y \in S : y < z}) < n}

\* What a page's attempt can read: one row past the page.  The erasing
\* clocks name no order.
Lesbar(S) ==
  IF lauf.schuldet THEN {Erste(S, Seite + 1)}
  ELSE {T \in SUBSET S : T = S \/ Cardinality(T) = Seite + 1} \ {T \in SUBSET S : Cardinality(T) > Seite + 1}

-----------------------------------------------------------------------------
\* One attempt over the rows S it read.

\* Batch.judged: rows passed over in place.
Verweigert(S) == {z \in S : art[z] = "unlesbar"}

\* Batch.took: what the attempt writes.
Genommen(S, n) ==
  LET schreibbar == {z \in S : art[z] \in {"heil", "giftig"}} IN
  IF lauf.schuldet THEN Erste(schreibbar, n) ELSE schreibbar

\* refuse_a_stalled_page, as each clock counts what moved.
Steht(S, n) ==
  /\ Cardinality(S) > Seite
  /\ Genommen(S, n) = {}
  /\ lauf.schuldet \/ Verweigert(S) = {}

Ausgaenge == {"gelingt", "steht", "schreiben", "urteil", "frist", "ungewiss"}

\* How the attempt can end.  "schreiben": a failure once the rows are taken,
\* a poisoned row's or a passing one.  "urteil": a failure of a later read,
\* after rows were judged and before any is taken.  "frist": the deadline or
\* the request's own refusal, with no row to blame; "ungewiss": the deadline
\* cut the commit, which landed.
Moeglich(ausgang, S, n) ==
  LET vergiftet == \E z \in Genommen(S, n) : art[z] = "giftig"
      stoerbar == lauf.stoerungen < MaxStoerungen
  IN CASE ausgang = "gelingt"   -> ~vergiftet /\ ~Steht(S, n)
       [] ausgang = "steht"     -> Steht(S, n)
       [] ausgang = "schreiben" -> Genommen(S, n) # {} /\ (vergiftet \/ stoerbar)
       [] ausgang = "urteil"    -> lauf.schuldet /\ S # {} /\ stoerbar
       [] ausgang = "frist"     -> stoerbar
       [] ausgang = "ungewiss"  -> Genommen(S, n) # {} /\ ~vergiftet /\ stoerbar

Stoerung(ausgang, S, n) ==
  \/ ausgang \in {"urteil", "frist", "ungewiss"}
  \/ ausgang = "schreiben" /\ \A z \in Genommen(S, n) : art[z] # "giftig"

\* carried_by_a_row, with a suspect to halve.
Getragen(ausgang) == ausgang \in {"schreiben", "urteil"}

\* Batch.suspects
Verdaechtige(ausgang, S, n) == IF ausgang = "schreiben" THEN Genommen(S, n) ELSE S

Gezaehlt(L, ausgang, S, n) ==
  [L EXCEPT !.stoerungen = @ + IF Stoerung(ausgang, S, n) THEN 1 ELSE 0]

\* _settled, and the row logged alone: how often a row was passed over, two
\* standing for more (bound).
Weggelegt(L, S) ==
  [L EXCEPT !.weggelegt = [z \in Zeilen |-> @[z] + IF z \in S /\ @[z] < 2 THEN 1 ELSE 0],
            !.liegen = @ \/ S # {}]

\* Variant: the second half begins one row early.
Geteilt_Versetzt(L, V) ==
  LET haelfte == Erste(V, Cardinality(V) \div 2) IN
  IF Cardinality(V) = 1 THEN Weggelegt(L, V)
  ELSE [L EXCEPT !.stapel = <<haelfte, V \ Erste(V, Cardinality(V) \div 2 - 1)>> \o @]

\* Variant: a failed page is passed over whole.
Geteilt_Nie(L, V) == Weggelegt(L, V)

\* isolate's split: a row failing alone is passed over, more are halved.
Geteilt(L, V) ==
  LET haelfte == Erste(V, Cardinality(V) \div 2) IN
  IF Cardinality(V) = 1 THEN Weggelegt(L, V)
  ELSE [L EXCEPT !.stapel = <<haelfte, V \ haelfte>> \o @]

Zerlegt(L, ausgang, S, n) ==
  Geteilt(Weggelegt(L, Verweigert(S)), Verdaechtige(ausgang, S, n))

\* A committed attempt, as its answer carries it.
Geschrieben(L, S, n) ==
  [L EXCEPT !.gelungen = TRUE, !.beantwortet = @ \cup Genommen(S, n),
            !.bewegt = @ \/ Genommen(S, n) # {},
            !.rest = IF lauf.schuldet THEN @ - Cardinality(Genommen(S, n)) ELSE @]

Getan(S, n) == [z \in Zeilen |-> IF z \in Genommen(S, n) THEN "getan" ELSE zeile[z]]

\* Variant: whatever stops an isolation is raised.
Abgebrochen_Immer(L) == [L EXCEPT !.phase = "fehler", !.stapel = <<>>]

\* isolate answers instead of raising once a half owing a message committed.
Abgebrochen(L) ==
  [L EXCEPT !.phase = IF lauf.schuldet /\ L.gelungen THEN "fertig" ELSE "fehler",
            !.stapel = <<>>]

-----------------------------------------------------------------------------
\* Variant: the next page is read with the rows passed over.
Seitenzeilen_Alle == Faellige

\* Batch.within of a page: without the rows passed over.
Seitenzeilen == {z \in Faellige : lauf.weggelegt[z] = 0}

\* drain's loop, and run_isolated's return.
NachDerSeite(L, gelesen) ==
  [L EXCEPT !.phase = IF lauf.schuldet \/ gelesen <= Seite THEN "fertig" ELSE "seite"]

\* drain and run_isolated: the attempt over a page.
Versuche ==
  /\ lauf.phase = "seite"
  /\ \E S \in Lesbar(Seitenzeilen), ausgang \in Ausgaenge :
       LET L == Gezaehlt([lauf EXCEPT !.gelesen = Cardinality(S), !.bewegt = FALSE, !.liegen = FALSE],
                         ausgang, S, Anteil) IN
       /\ Moeglich(ausgang, S, Anteil)
       /\ zeile' = IF ausgang \in {"gelingt", "ungewiss"} THEN Getan(S, Anteil) ELSE zeile
       /\ lauf' =
            IF ausgang = "gelingt"
            THEN NachDerSeite(Weggelegt(Geschrieben(L, S, Anteil), Verweigert(S)), Cardinality(S))
            ELSE IF Getragen(ausgang)
            THEN Zerlegt([L EXCEPT !.phase = "teilen"], ausgang, S, Anteil)
            ELSE Abgebrochen([L EXCEPT !.ungewiss = @ \cup IF ausgang = "ungewiss" THEN Genommen(S, Anteil) ELSE {}])
  /\ UNCHANGED art

\* isolate's run: one half, in a transaction of its own.
VersucheHaelfte ==
  /\ lauf.phase = "teilen" /\ lauf.stapel # <<>>
  /\ LET n == lauf.rest
         S == Head(lauf.stapel) \cap Faellige
         M == [lauf EXCEPT !.stapel = Tail(@)]
     IN IF lauf.schuldet /\ n = 0
        THEN lauf' = M /\ UNCHANGED zeile
        ELSE \E ausgang \in Ausgaenge :
          LET L == Gezaehlt(M, ausgang, S, n) IN
          /\ Moeglich(ausgang, S, n)
          /\ zeile' = IF ausgang \in {"gelingt", "ungewiss"} THEN Getan(S, n) ELSE zeile
          /\ lauf' =
               IF ausgang = "gelingt" THEN Weggelegt(Geschrieben(L, S, n), Verweigert(S))
               ELSE IF Getragen(ausgang) THEN Zerlegt(L, ausgang, S, n)
               ELSE Abgebrochen([L EXCEPT !.ungewiss = @ \cup IF ausgang = "ungewiss" THEN Genommen(S, n) ELSE {}])
  /\ UNCHANGED art

\* The deadline holds no further attempt once a half has committed.
HaeltAn ==
  /\ lauf.phase = "teilen" /\ lauf.stapel # <<>>
  /\ lauf.schuldet /\ lauf.gelungen
  /\ lauf' = [lauf EXCEPT !.stapel = <<>>]
  /\ UNCHANGED <<art, zeile>>

\* The isolation is over.  A drained page that failed whole and whose halves
\* neither moved nor passed a row is raised.
SchliesseTeilung ==
  /\ lauf.phase = "teilen" /\ lauf.stapel = <<>>
  /\ lauf' = IF ~lauf.schuldet /\ lauf.gelesen > Seite /\ ~lauf.bewegt /\ ~lauf.liegen
             THEN Abgebrochen(lauf)
             ELSE NachDerSeite(lauf, lauf.gelesen)
  /\ UNCHANGED <<art, zeile>>

\* Somebody confirms, withdraws or decides a row.
Entzieht(z) ==
  /\ zeile[z] \in {"faellig", "spaet"}
  /\ zeile' = [zeile EXCEPT ![z] = "fort"]
  /\ UNCHANGED <<art, lauf>>

WirdFaellig(z) ==
  /\ zeile[z] = "fern"
  /\ zeile' = [zeile EXCEPT ![z] = "spaet"]
  /\ UNCHANGED <<art, lauf>>

Init ==
  /\ art \in [Zeilen -> {"heil", "unlesbar", "giftig", "stehend"}]
  /\ zeile = [z \in Zeilen |-> IF z \in Spaete THEN "fern" ELSE "faellig"]
  /\ \E schuldet \in BOOLEAN :
       lauf = [schuldet |-> schuldet, phase |-> "seite", stapel |-> <<>>, gelesen |-> 0,
               bewegt |-> FALSE, liegen |-> FALSE, gelungen |-> FALSE, rest |-> Anteil,
               beantwortet |-> {}, ungewiss |-> {},
               weggelegt |-> [z \in Zeilen |-> 0], stoerungen |-> 0]

Laufschritt == Versuche \/ VersucheHaelfte \/ HaeltAn \/ SchliesseTeilung

Ende == lauf.phase \in {"fertig", "fehler"}

Next == Laufschritt \/ \E z \in Zeilen : ~Ende /\ (Entzieht(z) \/ WirdFaellig(z))

\* The call is one coroutine, whose every await the request's deadline bounds.
Spec == Init /\ [][Next]_vars /\ WF_vars(Laufschritt)
-----------------------------------------------------------------------------
\* Properties.

\* The call keeps the shape of `isolate`'s locals: the rows still to be
\* attempted are disjoint parts, none of them written yet by this call.
TypeOK ==
  /\ art \in [Zeilen -> {"heil", "unlesbar", "giftig", "stehend"}]
  /\ zeile \in [Zeilen -> {"fern", "faellig", "spaet", "getan", "fort"}]
  /\ lauf.phase \in {"seite", "teilen", "fertig", "fehler"}
  /\ lauf.rest \in 0 .. Anteil
  /\ \A i \in DOMAIN lauf.stapel :
       /\ lauf.stapel[i] # {} /\ \A z \in lauf.stapel[i] : zeile[z] # "getan"
       /\ \A j \in DOMAIN lauf.stapel : i # j => lauf.stapel[i] \cap lauf.stapel[j] = {}

\* I720: a row passed over stays due: this call never writes it after all,
\* on a later page or in a later half.
WeggelegteBleibenStehen ==
  \A z \in Zeilen : lauf.weggelegt[z] > 0 => zeile[z] # "getan"

\* I720, "one failing record holds back no clock and nobody behind it": a
\* drain that ends undisturbed has erased every sound row that was due.
NiemandWirdAufgehalten ==
  lauf.phase = "fertig" /\ lauf.stoerungen = 0 /\ ~lauf.schuldet
    => \A z \in Zeilen : art[z] = "heil" => zeile[z] # "faellig"

\* Only a row that fails alone is passed over: no sound row goes down with a
\* poisoned neighbour of its page or half.
NurFehlerhafteLiegen ==
  lauf.stoerungen = 0
    => \A z \in Zeilen : lauf.weggelegt[z] > 0 => art[z] \in {"unlesbar", "giftig"}

\* I323: no error answers in place of a committed half: what the call wrote
\* it answers, save for a commit the deadline left unanswered.
GeschriebenesWirdBeantwortet ==
  Ende /\ lauf.schuldet =>
    {z \in Zeilen : zeile[z] = "getan"} \subseteq
      lauf.ungewiss \cup (IF lauf.phase = "fertig" THEN lauf.beantwortet ELSE {})

\* REMINDERS_PER_PASS: halves of a failed share write no more rows than it.
AnteilWirdGehalten ==
  lauf.schuldet => Cardinality({z \in Zeilen : zeile[z] = "getan"}) <= Anteil

\* I295: the call ends: no page comes back for ever.
LaufEndet == <>Ende

\* I720 whole: exactly the rows that fail alone are passed over, none of them is written
\* after all, and none holds a sound row back.
NurDasFehlerhafteBleibtLiegen ==
  NurFehlerhafteLiegen /\ WeggelegteBleibenStehen /\ NiemandWirdAufgehalten

\* A call that owes messages answers what it wrote, and writes no more than its share.
SchuldIstBeglichen == GeschriebenesWirdBeantwortet /\ AnteilWirdGehalten
=============================================================================
