-------------------------- MODULE PostausgangProofs --------------------------
(***************************************************************************)
(* Proofs about module Postausgang, for any rows, mailboxes and copies of  *)
(* the module, any lease, any caps and whatever a history may lose.        *)
(***************************************************************************)
EXTENDS Postausgang, TLAPS

-----------------------------------------------------------------------------
(* The inductive invariant.  Its parts are told of an outbox l, its mail P and the    *)
(* moved accounts u, so that one of them can be carried over a step that adds mail.    *)

\* Rows nothing keeps their notice back for: no account to carry, or none left to move.
Gefolgt == {z \in Zeilen : z \notin lage.traegt \/ konto[z] # "alt"}

Nachrichten == Zeilen \X Empfaenger \X Fassungen

\* A message about the row, in whatever wording, reached the mailbox.
Erzaehlt(P, z, e) == \E f \in Fassungen : P[<<z, e, f>>] > 0

\* A row that may leave the outbox: told to every mailbox a send reaches, or its account
\* has followed the change.
Fertig(l, P, u, z) ==
  IF l.art = "berechtigung"
  THEN \A e \in l.empfaenger \ l.unerreichbar : Erzaehlt(P, z, e)
  ELSE z \in u

\* What a pass holds for done is done: the recipients it counts as reached were told, a
\* row with nobody left and no failure kept is finished, a send it remembers as gone broke
\* off, and a round begins with nothing done.
PassWahr(l, P, u, p) ==
  /\ p.ging => p.brokeOff
  /\ p.schritt = "beansprucht" => p.erledigt = {}
  /\ p.zeile # Keine =>
       /\ l.art # "berechtigung" => p.zeile \in u
       /\ l.art = "berechtigung" =>
            /\ \A e \in p.erreicht : Erzaehlt(P, p.zeile, e)
            /\ p.alle => \A e \in l.empfaenger \ l.unerreichbar : e \in p.rest \/ Erzaehlt(P, p.zeile, e)
  /\ \A z \in p.erledigt \ p.aufgegeben : Fertig(l, P, u, z)

PaesseStimmen == \A i \in Instanzen : PassWahr(lage, post, Gefolgt, pass[i])

\* Who an instance remembers as told was told.
GedaechtnisStimmt ==
  Keyed => \A i \in Instanzen, z \in Zeilen : \A e \in offen[i][z] : Erzaehlt(post, z, e)

ZeilenStimmen ==
  \A z \in Zeilen : zeile[z].stand = "gestempelt" => Fertig(lage, post, Gefolgt, z)

\* The provider's keys are those of the mail it delivered, and a notice goes behind its
\* account.
PostStimmt ==
  /\ \A m \in Nachrichten : m \in angenommen <=> post[m] > 0
  /\ ~Keyed => \A z \in Zeilen, e \in Empfaenger, f \in Fassungen : post[<<z, e, f>>] > 0 => z \in Gefolgt

IInv == /\ TypeOK /\ PaesseStimmen /\ GedaechtnisStimmt /\ ZeilenStimmen /\ PostStimmt
        /\ FehlgeschlagenesGingNie

-----------------------------------------------------------------------------
(* Passes: their shapes, and what is said of them. *)

LEMMA RuheTyp ==
  /\ Ruhe \in Pass /\ Ruhe.schritt = "ruht" /\ ~Ruhe.ging /\ Ruhe.zeile = Keine
  /\ Ruhe.erledigt = {} /\ Ruhe.zeilen = {}
BY ZahlenAssumption DEF Ruhe, Pass, Fassungen

\* A fresh round, and the end of one, are passes that hold nothing.
LEMMA RundenTyp ==
  ASSUME NEW p \in Pass, p.laeuft \/ p = Ruhe, NEW nochmal \in BOOLEAN
  PROVE  /\ RundeZuEnde(p) \in Pass
         /\ RundeZuEnde(p).laeuft \/ RundeZuEnde(p) = Ruhe
         /\ runAbgleich(p) \in Pass /\ runAbgleich(p).laeuft
         /\ LET n == [Ruhe EXCEPT !.laeuft = TRUE, !.schritt = "beansprucht", !.nochmal = nochmal]
            IN  n \in Pass /\ n.laeuft
<1>1. [Ruhe EXCEPT !.laeuft = TRUE, !.schritt = "beansprucht"] \in Pass
      /\ [Ruhe EXCEPT !.laeuft = TRUE, !.schritt = "beansprucht"].laeuft
  BY RuheTyp DEF Pass
<1>2. [p EXCEPT !.nochmal = TRUE] \in Pass /\ [p EXCEPT !.nochmal = TRUE].laeuft = p.laeuft
  BY DEF Pass
<1>3. [Ruhe EXCEPT !.laeuft = TRUE, !.schritt = "beansprucht", !.nochmal = nochmal] \in Pass
      /\ [Ruhe EXCEPT !.laeuft = TRUE, !.schritt = "beansprucht", !.nochmal = nochmal].laeuft
  BY ZenonT(40), RuheTyp DEF Pass
<1> QED BY <1>1, <1>2, <1>3, RuheTyp DEF RundeZuEnde, runAbgleich

LEMMA RundenWahr ==
  ASSUME NEW l, NEW P, NEW u, NEW p \in Pass, NEW nochmal \in BOOLEAN
  PROVE  /\ PassWahr(l, P, u, RundeZuEnde(p))
         /\ PassWahr(l, P, u, Ruhe)
         /\ PassWahr(l, P, u, p) => PassWahr(l, P, u, runAbgleich(p))
         /\ PassWahr(l, P, u, [Ruhe EXCEPT !.laeuft = TRUE, !.schritt = "beansprucht", !.nochmal = nochmal])
<1>1. ASSUME NEW n \in Pass, ~n.ging, n.zeile = Keine, n.erledigt = {} PROVE PassWahr(l, P, u, n)
  BY <1>1 DEF PassWahr
<1>2. PassWahr(l, P, u, Ruhe)
  BY <1>1, RuheTyp
<1>3. PassWahr(l, P, u, [Ruhe EXCEPT !.laeuft = TRUE, !.schritt = "beansprucht"])
  BY RuheTyp DEF Pass, PassWahr
<1>4. PassWahr(l, P, u, [Ruhe EXCEPT !.laeuft = TRUE, !.schritt = "beansprucht", !.nochmal = nochmal])
  BY RuheTyp DEF Pass, PassWahr
<1>5. PassWahr(l, P, u, p) => PassWahr(l, P, u, [p EXCEPT !.nochmal = TRUE])
  BY DEF Pass, PassWahr
<1> QED BY <1>2, <1>3, <1>4, <1>5 DEF RundeZuEnde, runAbgleich

\* More mail and more moved accounts leave true what is said of a row, of a pass.
LEMMA MehrPost ==
  ASSUME NEW l, NEW P, NEW Q, NEW u, NEW v, u \subseteq v,
         l.empfaenger \subseteq Empfaenger,
         \A m \in Nachrichten : P[m] > 0 => Q[m] > 0
  PROVE  /\ \A z \in Zeilen, e \in Empfaenger : Erzaehlt(P, z, e) => Erzaehlt(Q, z, e)
         /\ \A z \in Zeilen : Fertig(l, P, u, z) => Fertig(l, Q, v, z)
         /\ \A p \in Pass : PassWahr(l, P, u, p) => PassWahr(l, Q, v, p)
<1>1. ASSUME NEW z \in Zeilen, NEW e \in Empfaenger, Erzaehlt(P, z, e) PROVE Erzaehlt(Q, z, e)
  BY <1>1 DEF Erzaehlt, Nachrichten
<1>2. ASSUME NEW z \in Zeilen, Fertig(l, P, u, z) PROVE Fertig(l, Q, v, z)
  BY <1>1, <1>2 DEF Fertig
<1>3. ASSUME NEW p \in Pass, PassWahr(l, P, u, p) PROVE PassWahr(l, Q, v, p)
  <2>1. /\ p.zeile \in Zeilen \cup {Keine} /\ p.erreicht \subseteq Empfaenger
        /\ p.erledigt \subseteq Zeilen
    BY DEF Pass
  <2> QED BY <1>1, <1>2, <1>3, <2>1 DEF PassWahr
<1> QED BY <1>1, <1>2, <1>3

\* The constant shape of what a history may do.
LEMMA LageTyp ==
  ASSUME TypeOK
  PROVE  /\ lage \in Lage /\ lage.instanzen \subseteq Instanzen /\ lage.empfaenger \subseteq Empfaenger
         /\ lage.zeilen \subseteq Zeilen /\ lage.fassungen \in Fassungen /\ lage.neustarts \in 0..1
BY LagenAssumption DEF TypeOK, Lage

-----------------------------------------------------------------------------
(* Steps that send nothing. *)

Zeile == [stand : {"nie", "da", "gestempelt", "aufgegeben"}, frist : 0..BEANSPRUCHUNG_DAUER,
          bei : Instanzen \cup {Keine}, versuche : 0..VERSUCHE_HOECHSTENS, fassung : Fassungen]

Gedaechtnis == [Instanzen -> [Zeilen -> SUBSET Empfaenger]]

LEMMA SetzeStimmt ==
  ASSUME TypeOK, NEW i \in Instanzen, NEW n \in Pass, n.laeuft \/ n = Ruhe, Setze(i, n)
  PROVE  /\ pass' \in [Instanzen -> Pass]
         /\ \A j \in Instanzen : pass'[j].laeuft \/ pass'[j] = Ruhe
         /\ pass'[i] = n /\ \A j \in Instanzen : j # i => pass'[j] = pass[j]
BY DEF TypeOK, Setze

\* A step of one pass that sends nothing keeps the invariant, where what the pass then
\* holds for done is done, and the rows it stamps and the memory it keeps were told.
LEMMA OhnePostMitKonto ==
  ASSUME IInv, NEW i \in Instanzen, NEW n \in Pass, n.laeuft \/ n = Ruhe, Setze(i, n),
         UNCHANGED <<lage, angenommen, post, neustarts, letzter>>,
         konto' \in [Zeilen -> Konten], Gefolgt \subseteq Gefolgt', unterbrochen' \subseteq Zeilen,
         PassWahr(lage, post, Gefolgt', n),
         zeile' \in [Zeilen -> Zeile], offen' \in Gedaechtnis,
         \A z \in Zeilen : zeile'[z].stand = "gestempelt" =>
           zeile[z].stand = "gestempelt" \/ Fertig(lage, post, Gefolgt', z),
         Keyed => \A j \in Instanzen, z \in Zeilen : \A e \in offen'[j][z] :
                    e \in offen[j][z] \/ Erzaehlt(post, z, e)
  PROVE  IInv'
<1>1. /\ lage' = lage /\ angenommen' = angenommen /\ post' = post /\ neustarts' = neustarts
      /\ letzter' = letzter /\ Keyed' = Keyed
  BY DEF Keyed
<1>2. /\ pass' \in [Instanzen -> Pass]
      /\ \A j \in Instanzen : pass'[j].laeuft \/ pass'[j] = Ruhe
      /\ pass'[i] = n /\ \A j \in Instanzen : j # i => pass'[j] = pass[j]
  BY SetzeStimmt DEF IInv
<1>3. TypeOK'
  BY <1>1, <1>2 DEF IInv, TypeOK, Zeile, Gedaechtnis
<1>4. /\ \A z \in Zeilen : Fertig(lage, post, Gefolgt, z) => Fertig(lage, post, Gefolgt', z)
      /\ \A p \in Pass : PassWahr(lage, post, Gefolgt, p) => PassWahr(lage, post, Gefolgt', p)
  BY MehrPost, LageTyp DEF IInv
<1>5. PaesseStimmen'
  <2>1. \A j \in Instanzen : pass[j] \in Pass /\ PassWahr(lage, post, Gefolgt, pass[j])
    BY DEF IInv, TypeOK, PaesseStimmen
  <2>2. \A j \in Instanzen : PassWahr(lage, post, Gefolgt', pass'[j])
    BY <1>2, <1>4, <2>1
  <2> QED BY <1>1, <2>2 DEF PaesseStimmen
<1>6. GedaechtnisStimmt'
  BY <1>1 DEF IInv, GedaechtnisStimmt
<1>7. ZeilenStimmen'
  BY <1>1, <1>4 DEF IInv, ZeilenStimmen
<1>8. PostStimmt' /\ FehlgeschlagenesGingNie'
  BY <1>1 DEF IInv, PostStimmt, FehlgeschlagenesGingNie
<1> QED BY <1>3, <1>5, <1>6, <1>7, <1>8 DEF IInv

\* What every step starts from.
LEMMA Anfangs ==
  ASSUME IInv
  PROVE  /\ TypeOK /\ zeile \in [Zeilen -> Zeile] /\ offen \in Gedaechtnis
         /\ konto \in [Zeilen -> Konten] /\ Gefolgt \subseteq Zeilen /\ unterbrochen \subseteq Zeilen
         /\ \A i \in Instanzen : /\ pass[i] \in Pass /\ (pass[i].laeuft \/ pass[i] = Ruhe)
                                 /\ PassWahr(lage, post, Gefolgt, pass[i])
                                 /\ pass[i].schritt # "ruht" => pass[i].laeuft
<1>1. Ruhe.schritt = "ruht"
  BY RuheTyp
<1> QED BY <1>1 DEF IInv, TypeOK, PaesseStimmen, Zeile, Gedaechtnis, Gefolgt

\* The same of a step that moves no account.
LEMMA OhnePost ==
  ASSUME IInv, NEW i \in Instanzen, NEW n \in Pass, n.laeuft \/ n = Ruhe, Setze(i, n),
         UNCHANGED <<lage, angenommen, post, konto, neustarts, letzter>>,
         unterbrochen' \subseteq Zeilen,
         PassWahr(lage, post, Gefolgt, n),
         zeile' \in [Zeilen -> Zeile], offen' \in Gedaechtnis,
         \A z \in Zeilen : zeile'[z].stand = "gestempelt" =>
           zeile[z].stand = "gestempelt" \/ Fertig(lage, post, Gefolgt, z),
         Keyed => \A j \in Instanzen, z \in Zeilen : \A e \in offen'[j][z] :
                    e \in offen[j][z] \/ Erzaehlt(post, z, e)
  PROVE  IInv'
<1>1. Gefolgt' = Gefolgt
  BY DEF Gefolgt
<1>2. konto' \in [Zeilen -> Konten]
  BY Anfangs
<1> QED BY <1>1, <1>2, OhnePostMitKonto

LEMMA AmAnfang == Init => IInv
<1> SUFFICES ASSUME Init PROVE IInv
  OBVIOUS
<1>1. pass \in [Instanzen -> Pass] /\ \A i \in Instanzen : pass[i] = Ruhe
  BY RuheTyp DEF Init
<1>2. /\ 0 \in 0..BEANSPRUCHUNG_DAUER /\ 0 \in 0..VERSUCHE_HOECHSTENS /\ 1 \in Fassungen
      /\ 0 \in 0..1 /\ 0 \in 0..2
  BY ZahlenAssumption DEF Fassungen
<1>3. zeile \in [Zeilen -> Zeile] /\ \A z \in Zeilen : zeile[z].stand = "nie"
  BY <1>2 DEF Init, Zeile
<1>4. TypeOK
  BY <1>1, <1>2, <1>3 DEF Init, TypeOK, Zeile, Konten
<1>5. PaesseStimmen
  <2>1. \A i \in Instanzen : PassWahr(lage, post, Gefolgt, Ruhe)
    BY RundenWahr, RuheTyp
  <2> QED BY <1>1, <2>1 DEF PaesseStimmen
<1>6. GedaechtnisStimmt
  BY DEF Init, GedaechtnisStimmt
<1>7. ZeilenStimmen
  BY <1>3 DEF ZeilenStimmen
<1>8. PostStimmt
  BY DEF Init, PostStimmt, Nachrichten
<1>9. FehlgeschlagenesGingNie
  BY DEF Init, FehlgeschlagenesGingNie
<1> QED BY <1>4, <1>5, <1>6, <1>7, <1>8, <1>9 DEF IInv

LEMMA AendertStimmt == ASSUME IInv, NEW z \in Zeilen, Aendert(z) PROVE IInv'
<1>1. PICK i \in lage.instanzen : Setze(i, runAbgleich(pass[i]))
  BY DEF Aendert
<1>2. i \in Instanzen
  BY LageTyp, Anfangs
<1> DEFINE n == runAbgleich(pass[i])
<1>3. n \in Pass /\ n.laeuft /\ PassWahr(lage, post, Gefolgt, n)
  BY <1>2, Anfangs, RundenTyp, RundenWahr
<1> HIDE DEF n
<1>4. /\ Setze(i, n) /\ UNCHANGED <<lage, angenommen, post, neustarts, letzter>>
      /\ konto' = konto /\ unterbrochen' = unterbrochen /\ offen' = offen
      /\ zeile' = [zeile EXCEPT ![z].stand = "da"]
  BY <1>1 DEF Aendert, n
<1>5. zeile' \in [Zeilen -> Zeile]
      /\ \A y \in Zeilen : zeile'[y].stand = "gestempelt" => zeile[y].stand = "gestempelt"
  BY <1>4, Anfangs DEF Zeile
<1> QED BY <1>2, <1>3, <1>4, <1>5, Anfangs, OhnePost

LEMMA UmgeschriebenStimmt == ASSUME IInv, NEW z \in Zeilen, Umgeschrieben(z) PROVE IInv'
<1>1. /\ zeile' = [zeile EXCEPT ![z].fassung = @ + 1] /\ zeile[z].fassung < lage.fassungen
      /\ lage' = lage /\ pass' = pass /\ offen' = offen /\ angenommen' = angenommen
      /\ post' = post /\ konto' = konto /\ unterbrochen' = unterbrochen /\ neustarts' = neustarts /\ letzter' = letzter
  BY DEF Umgeschrieben
<1>2. zeile[z].fassung + 1 \in Fassungen
  BY <1>1, LageTyp, Anfangs DEF Zeile, Fassungen
<1>3. zeile' \in [Zeilen -> Zeile] /\ \A y \in Zeilen : zeile'[y].stand = zeile[y].stand
  BY <1>1, <1>2, Anfangs DEF Zeile
<1>4. TypeOK'
  BY <1>1, <1>3 DEF IInv, TypeOK, Zeile
<1>5. ZeilenStimmen'
  BY <1>1, <1>3 DEF IInv, ZeilenStimmen, Gefolgt
<1>6. PaesseStimmen' /\ GedaechtnisStimmt' /\ PostStimmt' /\ FehlgeschlagenesGingNie'
  BY <1>1 DEF IInv, PaesseStimmen, GedaechtnisStimmt, PostStimmt, FehlgeschlagenesGingNie, Keyed,
              Gefolgt
<1> QED BY <1>4, <1>5, <1>6 DEF IInv

LEMMA KontoEroeffnetStimmt == ASSUME IInv, NEW z \in Zeilen, KontoEroeffnet(z) PROVE IInv'
<1>1. /\ konto' = [konto EXCEPT ![z] = "belegt"]
      /\ lage' = lage /\ zeile' = zeile /\ pass' = pass /\ offen' = offen /\ angenommen' = angenommen
      /\ post' = post /\ unterbrochen' = unterbrochen /\ neustarts' = neustarts /\ letzter' = letzter
  BY DEF KontoEroeffnet
<1>2. konto' \in [Zeilen -> Konten] /\ Gefolgt \subseteq Gefolgt'
  BY <1>1, Anfangs DEF Konten, Gefolgt
<1>3. TypeOK'
  BY <1>1, <1>2 DEF IInv, TypeOK
<1>4. /\ \A y \in Zeilen : Fertig(lage, post, Gefolgt, y) => Fertig(lage, post, Gefolgt', y)
      /\ \A p \in Pass : PassWahr(lage, post, Gefolgt, p) => PassWahr(lage, post, Gefolgt', p)
  BY <1>2, MehrPost, LageTyp DEF IInv
<1>5. PaesseStimmen' /\ ZeilenStimmen'
  BY <1>1, <1>4, Anfangs DEF IInv, PaesseStimmen, ZeilenStimmen
<1>6. GedaechtnisStimmt' /\ PostStimmt' /\ FehlgeschlagenesGingNie'
  BY <1>1, <1>2 DEF IInv, GedaechtnisStimmt, PostStimmt, FehlgeschlagenesGingNie, Keyed
<1> QED BY <1>3, <1>5, <1>6 DEF IInv

LEMMA TickStimmt == ASSUME IInv, Tick PROVE IInv'
<1> DEFINE n == runAbgleich(pass[Boot])
<1>1. n \in Pass /\ n.laeuft /\ PassWahr(lage, post, Gefolgt, n)
  BY BootAssumption, Anfangs, RundenTyp, RundenWahr
<1> HIDE DEF n
<1>2. /\ Setze(Boot, n) /\ UNCHANGED <<lage, angenommen, post, neustarts, letzter>>
      /\ konto' = konto /\ offen' = offen
      /\ zeile' = [z \in Zeilen |-> [zeile[z] EXCEPT !.frist = IF @ = 0 THEN 0 ELSE @ - 1]]
  BY DEF Tick, n
<1>3. zeile' \in [Zeilen -> Zeile]
      /\ \A y \in Zeilen : zeile'[y].stand = zeile[y].stand
  <2>1. \A y \in Zeilen :
          /\ zeile[y] \in Zeile
          /\ zeile'[y] = [zeile[y] EXCEPT !.frist = IF zeile[y].frist = 0 THEN 0 ELSE zeile[y].frist - 1]
    BY <1>2, Anfangs
  <2>2. \A d \in 0..BEANSPRUCHUNG_DAUER : (IF d = 0 THEN 0 ELSE d - 1) \in 0..BEANSPRUCHUNG_DAUER
    BY ZahlenAssumption
  <2>3. \A y \in Zeilen : zeile'[y] \in Zeile /\ zeile'[y].stand = zeile[y].stand
    <3>1. ASSUME NEW r \in Zeile, NEW d \in 0..BEANSPRUCHUNG_DAUER
          PROVE  [r EXCEPT !.frist = d] \in Zeile /\ [r EXCEPT !.frist = d].stand = r.stand
      BY DEF Zeile
    <3>2. \A r \in Zeile : r.frist \in 0..BEANSPRUCHUNG_DAUER
      BY DEF Zeile
    <3> SUFFICES ASSUME NEW y \in Zeilen
                 PROVE  zeile'[y] \in Zeile /\ zeile'[y].stand = zeile[y].stand
      OBVIOUS
    <3> DEFINE d == IF zeile[y].frist = 0 THEN 0 ELSE zeile[y].frist - 1
    <3>3. zeile[y] \in Zeile /\ zeile'[y] = [zeile[y] EXCEPT !.frist = d]
      BY <2>1
    <3>4. d \in 0..BEANSPRUCHUNG_DAUER
      BY <2>2, <3>2, <3>3
    <3> HIDE DEF d
    <3> QED BY <3>1, <3>3, <3>4
  <2>4. zeile' = [y \in Zeilen |-> zeile'[y]]
    BY <1>2
  <2> QED BY <2>3, <2>4
<1>4. unterbrochen' \subseteq Zeilen
  BY Anfangs DEF Tick, Unterbricht
<1> QED BY <1>1, <1>2, <1>3, <1>4, Anfangs, BootAssumption, OhnePost

LEMMA NeustartStimmt == ASSUME IInv, Neustart PROVE IInv'
<1>1. /\ neustarts' = neustarts + 1 /\ neustarts < lage.neustarts
      /\ pass' = [i \in Instanzen |-> Ruhe]
      /\ offen' = [i \in Instanzen |-> [z \in Zeilen |-> {}]]
      /\ lage' = lage /\ zeile' = zeile /\ angenommen' = angenommen
      /\ post' = post /\ konto' = konto /\ letzter' = letzter
  BY DEF Neustart
<1>2. neustarts' \in 0..1
  BY <1>1, LageTyp DEF IInv, TypeOK
<1>3. pass' \in [Instanzen -> Pass] /\ \A i \in Instanzen : pass'[i] = Ruhe
  BY <1>1, RuheTyp
<1>4. TypeOK'
  <2>1. UNION {InArbeit(pass[i]) : i \in Instanzen} \subseteq Zeilen
    BY Anfangs DEF InArbeit, Pass
  <2>2. unterbrochen' \subseteq Zeilen
    BY <2>1, Anfangs DEF Neustart, Unterbricht
  <2> QED BY <1>1, <1>2, <1>3, <2>2 DEF IInv, TypeOK
<1>5. PaesseStimmen'
  <2>1. PassWahr(lage', post', Gefolgt', Ruhe)
    BY RundenWahr, RuheTyp
  <2> QED BY <1>3, <2>1 DEF PaesseStimmen
<1>6. GedaechtnisStimmt'
  BY <1>1 DEF GedaechtnisStimmt
<1>7. ZeilenStimmen' /\ PostStimmt' /\ FehlgeschlagenesGingNie'
  BY <1>1 DEF IInv, ZeilenStimmen, PostStimmt, FehlgeschlagenesGingNie, Keyed, Gefolgt
<1> QED BY <1>4, <1>5, <1>6, <1>7 DEF IInv

-----------------------------------------------------------------------------
(* The claim, the rows and the stamp. *)

LEMMA BeansprucheStimmt ==
  ASSUME IInv, NEW i \in Instanzen, NEW held \in SUBSET Zeilen, Beanspruche(i, held)
  PROVE  zeile' \in [Zeilen -> Zeile] /\ \A z \in Zeilen : zeile'[z].stand = zeile[z].stand
<1>1. zeile \in [Zeilen -> Zeile]
  BY Anfangs
<1>2. ASSUME NEW z \in Zeilen
      PROVE  LET r == [zeile[z] EXCEPT !.frist = BEANSPRUCHUNG_DAUER, !.bei = i,
                         !.versuche = IF @ < VERSUCHE_HOECHSTENS THEN @ + 1 ELSE @]
             IN  r \in Zeile /\ r.stand = zeile[z].stand
  <2>1. zeile[z] \in Zeile
    BY <1>1
  <2>2. (IF zeile[z].versuche < VERSUCHE_HOECHSTENS THEN zeile[z].versuche + 1 ELSE zeile[z].versuche)
          \in 0..VERSUCHE_HOECHSTENS
    BY <2>1, ZahlenAssumption DEF Zeile
  <2>3. BEANSPRUCHUNG_DAUER \in 0..BEANSPRUCHUNG_DAUER
    BY ZahlenAssumption
  <2> QED BY <2>1, <2>2, <2>3 DEF Zeile
<1> QED BY <1>1, <1>2 DEF Beanspruche

LEMMA GehaltenStimmt ==
  ASSUME IInv, NEW i \in Instanzen, NEW held \in SUBSET Zeilen, Gehalten(i, held)
  PROVE  offen' \in Gedaechtnis /\ \A j \in Instanzen, z \in Zeilen : offen'[j][z] \subseteq offen[j][z]
<1>1. offen \in Gedaechtnis
  BY Anfangs
<1>2. CASE offen' = [offen EXCEPT ![i] = [z \in Zeilen |-> IF z \in held THEN offen[i][z] ELSE {}]]
  BY <1>1, <1>2 DEF Gedaechtnis
<1>3. CASE offen' = offen
  BY <1>1, <1>3
<1> QED BY <1>2, <1>3 DEF Gehalten

LEMMA ClaimStimmt == ASSUME IInv, NEW i \in Instanzen, Claim(i) PROVE IInv'
<1> DEFINE held == read_the_claimable
           m == [pass[i] EXCEPT !.schritt = "verschickt", !.zeilen = held,
                   !.aufgegeben = {z \in held : aufgegeben(z)},
                   !.fassung = [z \in Zeilen |-> zeile[z].fassung]]
           n == IF held = {} THEN RundeZuEnde(pass[i]) ELSE m
<1>1. /\ pass[i].schritt = "beansprucht" /\ Beanspruche(i, held) /\ Gehalten(i, held)
      /\ Setze(i, n) /\ UNCHANGED <<lage, angenommen, post, neustarts, letzter>>
      /\ konto' = konto /\ unterbrochen' = unterbrochen
  BY DEF Claim
<1>2. held \in SUBSET Zeilen /\ [z \in Zeilen |-> zeile[z].fassung] \in [Zeilen -> Fassungen]
  BY Anfangs DEF read_the_claimable, Zeile
<1>3. /\ pass[i] \in Pass /\ pass[i].laeuft /\ PassWahr(lage, post, Gefolgt, pass[i])
  BY <1>1, Anfangs
<1>4. m \in Pass /\ m.laeuft
  BY <1>2, <1>3 DEF Pass
<1>5. PassWahr(lage, post, Gefolgt, m)
  BY <1>1, <1>3 DEF Pass, PassWahr
<1>6. n \in Pass /\ (n.laeuft \/ n = Ruhe) /\ PassWahr(lage, post, Gefolgt, n)
  BY <1>3, <1>4, <1>5, RundenTyp, RundenWahr
<1> HIDE DEF n, m, held
<1>7. /\ zeile' \in [Zeilen -> Zeile] /\ \A z \in Zeilen : zeile'[z].stand = zeile[z].stand
      /\ offen' \in Gedaechtnis /\ \A j \in Instanzen, z \in Zeilen : offen'[j][z] \subseteq offen[j][z]
  BY <1>1, <1>2, BeansprucheStimmt, GehaltenStimmt
<1> QED BY <1>1, <1>6, <1>7, Anfangs, OhnePost

LEMMA ClaimLostStimmt == ASSUME IInv, NEW i \in Instanzen, ClaimLost(i) PROVE IInv'
<1> DEFINE n == RundeZuEnde(pass[i])
<1>1. /\ pass[i].schritt = "beansprucht" /\ Setze(i, n)
      /\ zeile' = zeile \/ Beanspruche(i, read_the_claimable)
      /\ UNCHANGED <<lage, angenommen, post, neustarts, letzter>>
      /\ konto' = konto /\ unterbrochen' = unterbrochen /\ offen' = offen
  BY DEF ClaimLost
<1>2. n \in Pass /\ (n.laeuft \/ n = Ruhe) /\ PassWahr(lage, post, Gefolgt, n)
  BY Anfangs, RundenTyp, RundenWahr
<1> HIDE DEF n
<1>3. read_the_claimable \in SUBSET Zeilen
  BY DEF read_the_claimable
<1>4. zeile' \in [Zeilen -> Zeile] /\ \A z \in Zeilen : zeile'[z].stand = zeile[z].stand
  BY <1>1, <1>3, Anfangs, BeansprucheStimmt
<1> QED BY <1>1, <1>2, <1>4, Anfangs, OhnePost

LEMMA AufgebenStimmt == ASSUME IInv, NEW i \in Instanzen, NEW z \in Zeilen, Aufgeben(i, z) PROVE IInv'
<1> DEFINE n == [pass[i] EXCEPT !.zeilen = @ \ {z}, !.erledigt = @ \cup {z}]
<1>1. /\ pass[i].schritt = "verschickt" /\ pass[i].zeile = Keine
      /\ z \in pass[i].aufgegeben /\ Setze(i, n)
      /\ UNCHANGED <<lage, angenommen, post, neustarts, letzter>>
      /\ konto' = konto /\ unterbrochen' = unterbrochen /\ zeile' = zeile /\ offen' = [offen EXCEPT ![i][z] = {}]
  BY DEF Aufgeben, Verschickt
<1>2. /\ pass[i] \in Pass /\ pass[i].laeuft /\ PassWahr(lage, post, Gefolgt, pass[i])
  BY <1>1, Anfangs
<1>3. n \in Pass /\ n.laeuft
  BY <1>2 DEF Pass
<1>4. PassWahr(lage, post, Gefolgt, n)
  BY <1>1, <1>2 DEF Pass, PassWahr
<1> HIDE DEF n
<1>5. offen' \in Gedaechtnis /\ \A j \in Instanzen, y \in Zeilen : offen'[j][y] \subseteq offen[j][y]
  BY <1>1, Anfangs DEF Gedaechtnis
<1> QED BY <1>1, <1>3, <1>4, <1>5, Anfangs, OhnePost

LEMMA AnfangenStimmt == ASSUME IInv, NEW i \in Instanzen, NEW z \in Zeilen, Anfangen(i, z) PROVE IInv'
<1> DEFINE n == [pass[i] EXCEPT !.zeilen = @ \ {z}, !.zeile = z, !.alle = TRUE,
                   !.rest = lage.empfaenger \ offen[i][z], !.erreicht = offen[i][z]]
<1>1. /\ pass[i].schritt = "verschickt" /\ Setze(i, n) /\ (Keyed \/ z \in Gefolgt)
      /\ UNCHANGED <<lage, angenommen, post, neustarts, letzter>>
      /\ konto' = konto /\ unterbrochen' = unterbrochen /\ zeile' = zeile /\ offen' = offen
  BY DEF Anfangen, Verschickt, Gefolgt
<1>2. /\ pass[i] \in Pass /\ pass[i].laeuft /\ PassWahr(lage, post, Gefolgt, pass[i])
  BY <1>1, Anfangs
<1>3. offen[i][z] \subseteq Empfaenger /\ lage.empfaenger \subseteq Empfaenger
  BY Anfangs, LageTyp DEF Gedaechtnis
<1>4. n \in Pass /\ n.laeuft
  BY <1>2, <1>3 DEF Pass
<1>5. /\ n.ging = pass[i].ging /\ n.brokeOff = pass[i].brokeOff /\ n.schritt = "verschickt"
      /\ n.zeile = z /\ n.erreicht = offen[i][z] /\ n.rest = lage.empfaenger \ offen[i][z]
      /\ n.erledigt = pass[i].erledigt /\ n.aufgegeben = pass[i].aufgegeben
  BY <1>1, <1>2 DEF Pass
<1>6. Keyed => \A e \in offen[i][z] : Erzaehlt(post, z, e)
  BY DEF IInv, GedaechtnisStimmt
<1> HIDE DEF n
<1>7. PassWahr(lage, post, Gefolgt, n)
  BY <1>1, <1>2, <1>5, <1>6 DEF PassWahr, Keyed
<1> QED BY <1>1, <1>4, <1>7, Anfangs, OhnePost

LEMMA carryAccountStimmt == ASSUME IInv, NEW i \in Instanzen, NEW z \in Zeilen, carryAccount(i, z) PROVE IInv'
<1>1. /\ pass[i].schritt = "verschickt"
      /\ UNCHANGED <<lage, angenommen, post, neustarts, letzter>>
      /\ zeile' = zeile /\ offen' = offen /\ unterbrochen' = unterbrochen
  BY DEF carryAccount, Verschickt
<1>2. /\ pass[i] \in Pass /\ pass[i].laeuft /\ PassWahr(lage, post, Gefolgt, pass[i])
  BY <1>1, Anfangs
<1>3. konto' \in [Zeilen -> Konten] /\ Gefolgt \subseteq Gefolgt'
  BY <1>1, Anfangs DEF carryAccount, Zieht, Konten, Gefolgt
<1>4. \A p \in Pass : PassWahr(lage, post, Gefolgt, p) => PassWahr(lage, post, Gefolgt', p)
  BY <1>3, MehrPost, LageTyp, Anfangs
<1>5. CASE pass' = pass
  <2>1. Setze(i, pass[i])
    BY <1>5 DEF Setze, IInv, TypeOK
  <2> QED BY <1>1, <1>2, <1>3, <1>4, <2>1, Anfangs, OhnePostMitKonto
<1>6. CASE Setze(i, [pass[i] EXCEPT !.zeilen = @ \ {z}, !.voll = FALSE])
  <2> DEFINE n == [pass[i] EXCEPT !.zeilen = @ \ {z}, !.voll = FALSE]
  <2>1. n \in Pass /\ n.laeuft
    BY <1>2 DEF Pass
  <2>2. PassWahr(lage, post, Gefolgt, n)
    BY <1>2 DEF Pass, PassWahr
  <2> HIDE DEF n
  <2>3. Setze(i, n)
    BY <1>6 DEF n
  <2> QED BY <1>1, <1>3, <1>4, <2>1, <2>2, <2>3, Anfangs, OhnePostMitKonto
<1> QED BY <1>5, <1>6 DEF carryAccount

LEMMA EntfaelltStimmt == ASSUME IInv, NEW i \in Instanzen, NEW e \in Empfaenger, Entfaellt(i, e) PROVE IInv'
<1> DEFINE n == [pass[i] EXCEPT !.rest = @ \ {e}]
<1>1. /\ pass[i].schritt = "verschickt" /\ e \in lage.unerreichbar /\ Setze(i, n)
      /\ UNCHANGED <<lage, angenommen, post, neustarts, letzter>>
      /\ konto' = konto /\ unterbrochen' = unterbrochen /\ zeile' = zeile /\ offen' = offen
  BY DEF Entfaellt, Verschickt
<1>2. /\ pass[i] \in Pass /\ pass[i].laeuft /\ PassWahr(lage, post, Gefolgt, pass[i])
  BY <1>1, Anfangs
<1>3. n \in Pass /\ n.laeuft
  BY <1>2 DEF Pass
<1>4. PassWahr(lage, post, Gefolgt, n)
  BY <1>1, <1>2 DEF Pass, PassWahr
<1> HIDE DEF n
<1> QED BY <1>1, <1>3, <1>4, Anfangs, OhnePost

-----------------------------------------------------------------------------
(* One attempt at the provider. *)

\* What the provider takes adds mail, one copy of a keyed wording, and keeps its keys.
LEMMA NimmtStimmt ==
  ASSUME IInv, NEW key \in Nachrichten, NEW ausgang \in Ausgaenge, Nimmt(key, ausgang),
         lage' = lage, konto' = konto, ~Keyed => key[1] \in Gefolgt
  PROVE  /\ angenommen' \subseteq Nachrichten /\ post' \in [Nachrichten -> 0..2]
         /\ \A m \in Nachrichten : post[m] > 0 => post'[m] > 0
         /\ PostStimmt'
         /\ ausgang \in {"angenommen", "verschluckt"} => post'[key] > 0
         /\ post'[key] > post[key] => ausgang \in {"angenommen", "verschluckt"}
<1>1. /\ angenommen \subseteq Nachrichten /\ post \in [Nachrichten -> 0..2]
      /\ \A m \in Nachrichten : m \in angenommen <=> post[m] > 0
      /\ ~Keyed => \A z \in Zeilen, e \in Empfaenger, f \in Fassungen : post[<<z, e, f>>] > 0 => z \in Gefolgt
      /\ Keyed' = Keyed /\ Gefolgt' = Gefolgt
  BY DEF IInv, TypeOK, PostStimmt, Nachrichten, Keyed, Gefolgt
<1>2. CASE angenommen' = angenommen /\ post' = post
           /\ (ausgang \notin {"angenommen", "verschluckt"} \/ key \in angenommen)
  <2>1. PostStimmt'
    BY <1>1, <1>2 DEF PostStimmt
  <2>2. post[key] \in 0..2
    BY <1>1
  <2> QED BY <1>1, <1>2, <2>1, <2>2
<1>3. CASE /\ ausgang \in {"angenommen", "verschluckt"} /\ ~(Keyed /\ key \in angenommen)
           /\ post' = [post EXCEPT ![key] = IF @ < 2 THEN @ + 1 ELSE 2]
           /\ angenommen' = angenommen \cup {key}
  <2>1. post[key] \in 0..2
    BY <1>1
  <2>2. /\ post' \in [Nachrichten -> 0..2] /\ post'[key] > 0
        /\ \A m \in Nachrichten : m # key => post'[m] = post[m]
    BY <1>1, <1>3, <2>1
  <2>3. \A m \in Nachrichten : m \in angenommen' <=> post'[m] > 0
    BY <1>1, <1>3, <2>2
  <2>5. ~Keyed => \A z \in Zeilen, e \in Empfaenger, f \in Fassungen : post'[<<z, e, f>>] > 0 => z \in Gefolgt
    BY <1>1, <2>2 DEF Nachrichten
  <2>6. PostStimmt'
    BY <1>1, <2>3, <2>5 DEF PostStimmt
  <2> QED BY <1>1, <1>3, <2>2, <2>6
<1> QED BY <1>2, <1>3, Zenon DEF Nimmt

\* A step of one pass that mails keeps the invariant, where what it then holds for done is
\* done and a send it calls failed put nothing in the mailbox.
LEMMA MitPost ==
  ASSUME IInv, NEW i \in Instanzen, NEW n \in Pass, n.laeuft, Setze(i, n),
         UNCHANGED <<lage, zeile, offen, konto, unterbrochen, neustarts>>,
         angenommen' \subseteq Nachrichten, post' \in [Nachrichten -> 0..2], PostStimmt',
         \A m \in Nachrichten : post[m] > 0 => post'[m] > 0,
         PassWahr(lage, post', Gefolgt, n),
         letzter' \in [ausfall : {"gesendet", "ungewiss", "fehlgeschlagen"}, ging : BOOLEAN],
         FehlgeschlagenesGingNie'
  PROVE  IInv'
<1>1. /\ lage' = lage /\ zeile' = zeile /\ offen' = offen /\ konto' = konto /\ unterbrochen' = unterbrochen
      /\ neustarts' = neustarts /\ Keyed' = Keyed /\ Gefolgt' = Gefolgt
  BY DEF Keyed, Gefolgt
<1>2. /\ pass' \in [Instanzen -> Pass]
      /\ \A j \in Instanzen : pass'[j].laeuft \/ pass'[j] = Ruhe
      /\ pass'[i] = n /\ \A j \in Instanzen : j # i => pass'[j] = pass[j]
  BY SetzeStimmt DEF IInv
<1>3. TypeOK'
  BY <1>1, <1>2 DEF IInv, TypeOK, Nachrichten
<1>4. /\ \A z \in Zeilen, e \in Empfaenger : Erzaehlt(post, z, e) => Erzaehlt(post', z, e)
      /\ \A z \in Zeilen : Fertig(lage, post, Gefolgt, z) => Fertig(lage, post', Gefolgt, z)
      /\ \A p \in Pass : PassWahr(lage, post, Gefolgt, p) => PassWahr(lage, post', Gefolgt, p)
  BY MehrPost, LageTyp DEF IInv
<1>5. PaesseStimmen'
  <2>1. \A j \in Instanzen : pass[j] \in Pass /\ PassWahr(lage, post, Gefolgt, pass[j])
    BY Anfangs
  <2>2. \A j \in Instanzen : PassWahr(lage, post', Gefolgt, pass'[j])
    BY <1>2, <1>4, <2>1
  <2> QED BY <1>1, <2>2 DEF PaesseStimmen
<1>6. GedaechtnisStimmt'
  <2>1. \A j \in Instanzen, z \in Zeilen : offen[j][z] \subseteq Empfaenger
    BY Anfangs DEF Gedaechtnis
  <2> QED BY <1>1, <1>4, <2>1 DEF IInv, GedaechtnisStimmt
<1>7. ZeilenStimmen'
  BY <1>1, <1>4 DEF IInv, ZeilenStimmen
<1> QED BY <1>3, <1>5, <1>6, <1>7 DEF IInv

LEMMA deliverStimmt ==
  ASSUME IInv, NEW i \in Instanzen, NEW e \in Empfaenger, NEW ausgang \in Ausgaenge,
         deliver(i, e, ausgang)
  PROVE  IInv'
<1> DEFINE p == pass[i]
           key == <<p.zeile, e, p.fassung[p.zeile]>>
           ausfall == versandAusfallOf(p.brokeOff, ausgang)
           ging == p.ging \/ post'[key] > post[key]
           fertig == [p EXCEPT !.rest = @ \ {e}, !.an = Keine, !.versuch = 0,
                               !.brokeOff = FALSE, !.ging = FALSE]
           gesendet == [fertig EXCEPT !.erreicht = @ \cup {e}]
           nochmal == [p EXCEPT !.an = e, !.versuch = @ + 1, !.ging = ging,
                         !.brokeOff = @ \/ ausgang \in {"abgebrochen", "verschluckt"}]
           verfehlt == [fertig EXCEPT !.alle = @ /\ ~Behalten(ausfall)]
<1>1. /\ p.schritt = "verschickt" /\ p.zeile # Keine /\ e \in p.rest \ lage.unerreichbar
      /\ Nimmt(key, ausgang) /\ UNCHANGED <<lage, zeile, offen, konto, unterbrochen, neustarts>>
  BY DEF deliver, Verschickt
<1>2. /\ p \in Pass /\ p.laeuft /\ PassWahr(lage, post, Gefolgt, p)
  BY <1>1, Anfangs
<1>3. /\ p.zeile \in Zeilen /\ key \in Nachrichten /\ key[1] = p.zeile
  BY <1>1, <1>2 DEF Pass, Nachrichten
<1>4. ~Keyed => p.zeile \in Gefolgt
  BY <1>1, <1>2 DEF PassWahr, Keyed
<1>5. /\ angenommen' \subseteq Nachrichten /\ post' \in [Nachrichten -> 0..2]
      /\ \A m \in Nachrichten : post[m] > 0 => post'[m] > 0
      /\ PostStimmt'
      /\ ausgang \in {"angenommen", "verschluckt"} => post'[key] > 0
      /\ post'[key] > post[key] => ausgang \in {"angenommen", "verschluckt"}
  BY <1>1, <1>3, <1>4, NimmtStimmt
<1>6. PassWahr(lage, post', Gefolgt, p)
  BY <1>2, <1>5, MehrPost, LageTyp DEF IInv
<1>7. post'[key] > 0 => Erzaehlt(post', p.zeile, e)
  BY <1>3 DEF Erzaehlt, Nachrichten
<1>8. fertig \in Pass /\ fertig.laeuft
  <2>1. 0 \in 0..MAIL_ATTEMPTS
    BY ZahlenAssumption
  <2>2. p.rest \ {e} \in SUBSET Empfaenger
    BY <1>2 DEF Pass
  <2> HIDE DEF p
  <2> QED BY <1>2, <2>1, <2>2 DEF Pass
<1>9. CASE /\ ausgang = "angenommen" /\ Setze(i, gesendet)
           /\ letzter' = [ausfall |-> "gesendet", ging |-> TRUE]
  <2>1. gesendet \in Pass /\ gesendet.laeuft
    BY ZenonT(40), <1>8 DEF Pass
  <2>2. PassWahr(lage, post', Gefolgt, gesendet)
    BY <1>2, <1>5, <1>6, <1>7, <1>9 DEF Pass, PassWahr
  <2>3. FehlgeschlagenesGingNie'
        /\ letzter' \in [ausfall : {"gesendet", "ungewiss", "fehlgeschlagen"}, ging : BOOLEAN]
    BY <1>9 DEF FehlgeschlagenesGingNie
  <2> HIDE DEF gesendet, p
  <2> QED BY <1>1, <1>5, <1>9, <2>1, <2>2, <2>3, MitPost
<1>10. CASE /\ ausgang # "angenommen" /\ p.versuch + 1 < MAIL_ATTEMPTS
            /\ Setze(i, nochmal) /\ UNCHANGED letzter
  <2>1. nochmal \in Pass /\ nochmal.laeuft
    <3>1. p.versuch + 1 \in 0..MAIL_ATTEMPTS
      BY <1>2, <1>10, ZahlenAssumption DEF Pass
    <3>2. ging \in BOOLEAN /\ (p.brokeOff \/ ausgang \in {"abgebrochen", "verschluckt"}) \in BOOLEAN
      BY <1>2 DEF Pass
    <3> HIDE DEF p, ging
    <3> QED BY <1>2, <3>1, <3>2 DEF Pass
  <2>2. PassWahr(lage, post', Gefolgt, nochmal)
    BY <1>2, <1>5, <1>6, <1>10 DEF Pass, PassWahr
  <2>3. FehlgeschlagenesGingNie'
        /\ letzter' \in [ausfall : {"gesendet", "ungewiss", "fehlgeschlagen"}, ging : BOOLEAN]
    BY <1>10 DEF FehlgeschlagenesGingNie, IInv, TypeOK
  <2> HIDE DEF nochmal, p
  <2> QED BY <1>1, <1>5, <1>10, <2>1, <2>2, <2>3, MitPost
<1>11. CASE /\ ausgang # "angenommen" /\ Setze(i, verfehlt)
            /\ letzter' = [ausfall |-> ausfall, ging |-> ging]
  <2>1. verfehlt \in Pass /\ verfehlt.laeuft
    <3>1. (fertig.alle /\ ~Behalten(ausfall)) \in BOOLEAN
      BY <1>8 DEF Pass
    <3> HIDE DEF p, fertig
    <3> QED BY <1>8, <3>1 DEF Pass
  <2>2. PassWahr(lage, post', Gefolgt, verfehlt)
    BY <1>2, <1>6 DEF Pass, PassWahr, Behalten, Keyed
  <2>3. ausfall = "fehlgeschlagen" => ~ging
    BY <1>2, <1>5, <1>11 DEF versandAusfallOf, PassWahr
  <2>4. FehlgeschlagenesGingNie'
        /\ letzter' \in [ausfall : {"gesendet", "ungewiss", "fehlgeschlagen"}, ging : BOOLEAN]
    <3>1. ausfall \in {"gesendet", "ungewiss", "fehlgeschlagen"} /\ ging \in BOOLEAN
      BY <1>2 DEF versandAusfallOf, Pass
    <3> QED BY <1>11, <2>3, <3>1 DEF FehlgeschlagenesGingNie
  <2> HIDE DEF verfehlt, p
  <2> QED BY <1>1, <1>5, <1>11, <2>1, <2>2, <2>4, MitPost
<1> QED BY <1>9, <1>10, <1>11 DEF deliver

-----------------------------------------------------------------------------
(* The row's end and the stamp. *)

LEMMA ZeileFertigStimmt == ASSUME IInv, NEW i \in Instanzen, ZeileFertig(i) PROVE IInv'
<1> DEFINE p == pass[i]
           n == [p EXCEPT !.zeile = Keine, !.alle = TRUE, !.erreicht = {},
                   !.erledigt = IF p.alle THEN @ \cup {p.zeile} ELSE @,
                   !.voll = @ /\ p.alle]
<1>1. /\ p.schritt = "verschickt" /\ p.zeile # Keine /\ p.rest = {} /\ Setze(i, n)
      /\ offen' = IF Keyed THEN [offen EXCEPT ![i][p.zeile] = IF p.alle THEN {} ELSE p.erreicht]
                  ELSE offen
      /\ UNCHANGED <<lage, angenommen, post, neustarts, letzter>>
      /\ konto' = konto /\ unterbrochen' = unterbrochen /\ zeile' = zeile
  BY DEF ZeileFertig, Verschickt
<1>2. /\ p \in Pass /\ p.laeuft /\ PassWahr(lage, post, Gefolgt, p)
  BY <1>1, Anfangs
<1>3. p.zeile \in Zeilen /\ p.erreicht \subseteq Empfaenger /\ p.alle \in BOOLEAN
  BY <1>1, <1>2 DEF Pass
<1>4. p.alle => Fertig(lage, post, Gefolgt, p.zeile)
  BY <1>1, <1>2 DEF PassWahr, Fertig
<1>5. n \in Pass /\ n.laeuft
  <2>1. /\ (IF p.alle THEN p.erledigt \cup {p.zeile} ELSE p.erledigt) \in SUBSET Zeilen
        /\ (p.voll /\ p.alle) \in BOOLEAN
    BY <1>2, <1>3 DEF Pass
  <2> HIDE DEF p
  <2> QED BY <1>2, <2>1 DEF Pass
<1>6. PassWahr(lage, post, Gefolgt, n)
  <2> HIDE DEF p
  <2> QED BY <1>1, <1>2, <1>4 DEF Pass, PassWahr
<1>7. offen' \in Gedaechtnis
  BY <1>1, <1>3, Anfangs DEF Gedaechtnis
<1>8. Keyed => \A j \in Instanzen, z \in Zeilen : \A e \in offen'[j][z] :
                 e \in offen[j][z] \/ Erzaehlt(post, z, e)
  <2> SUFFICES ASSUME Keyed, NEW j \in Instanzen, NEW z \in Zeilen, NEW e \in offen'[j][z],
                      e \notin offen[j][z]
               PROVE  Erzaehlt(post, z, e)
    OBVIOUS
  <2>1. z = p.zeile /\ e \in p.erreicht
    BY <1>1, <1>3, Anfangs DEF Gedaechtnis
  <2> QED BY <1>1, <1>2, <2>1 DEF PassWahr, Keyed
<1> HIDE DEF n, p
<1> QED BY <1>1, <1>5, <1>6, <1>7, <1>8, Anfangs, OhnePost

LEMMA AlleZeilenFertigStimmt == ASSUME IInv, NEW i \in Instanzen, AlleZeilenFertig(i) PROVE IInv'
<1> DEFINE m == [pass[i] EXCEPT !.schritt = "stempelt"]
           n == IF pass[i].erledigt = {} THEN RundeZuEnde(pass[i]) ELSE m
<1>1. /\ pass[i].schritt = "verschickt" /\ Setze(i, n)
      /\ UNCHANGED <<lage, angenommen, post, neustarts, letzter>>
      /\ konto' = konto /\ unterbrochen' = unterbrochen /\ zeile' = zeile /\ offen' = offen
  BY DEF AlleZeilenFertig, Verschickt
<1>2. /\ pass[i] \in Pass /\ pass[i].laeuft /\ PassWahr(lage, post, Gefolgt, pass[i])
  BY <1>1, Anfangs
<1>3. m \in Pass /\ m.laeuft /\ PassWahr(lage, post, Gefolgt, m)
  BY <1>2 DEF Pass, PassWahr
<1>4. n \in Pass /\ (n.laeuft \/ n = Ruhe) /\ PassWahr(lage, post, Gefolgt, n)
  BY <1>2, <1>3, RundenTyp, RundenWahr
<1> HIDE DEF n
<1> QED BY <1>1, <1>4, Anfangs, OhnePost

\* The stamp takes rows that are done, or given up.
LEMMA GestempeltStimmt ==
  ASSUME IInv, NEW i \in Instanzen, Gestempelt(i)
  PROVE  /\ zeile' \in [Zeilen -> Zeile]
         /\ \A z \in Zeilen : zeile'[z].stand = "gestempelt" =>
              zeile[z].stand = "gestempelt" \/ Fertig(lage, post, Gefolgt, z)
<1>1. zeile \in [Zeilen -> Zeile] /\ PassWahr(lage, post, Gefolgt, pass[i])
  BY Anfangs
<1>2. ASSUME NEW z \in Zeilen, NEW s \in {"gestempelt", "aufgegeben"}
      PROVE  LET r == [zeile[z] EXCEPT !.stand = s, !.bei = Keine, !.frist = 0]
             IN  r \in Zeile /\ r.stand = s
  <2>1. 0 \in 0..BEANSPRUCHUNG_DAUER
    BY ZahlenAssumption
  <2> QED BY <1>1, <2>1 DEF Zeile
<1>3. ASSUME NEW z \in Zeilen
      PROVE  /\ zeile'[z] \in Zeile
             /\ zeile'[z].stand = "gestempelt" =>
                  zeile[z].stand = "gestempelt" \/ Fertig(lage, post, Gefolgt, z)
  <2>1. CASE zeile'[z] = zeile[z]
    BY <1>1, <2>1
  <2>2. CASE /\ z \in pass[i].erledigt /\ z \in pass[i].aufgegeben
             /\ zeile'[z] = [zeile[z] EXCEPT !.stand = "aufgegeben", !.bei = Keine, !.frist = 0]
    BY <1>2, <2>2
  <2>3. CASE /\ z \in pass[i].erledigt \ pass[i].aufgegeben
             /\ zeile'[z] = [zeile[z] EXCEPT !.stand = "gestempelt", !.bei = Keine, !.frist = 0]
    <3>1. Fertig(lage, post, Gefolgt, z)
      BY <1>1, <2>3 DEF PassWahr
    <3>2. zeile'[z] \in Zeile
      BY <1>2, <2>3
    <3> QED BY <3>1, <3>2
  <2> QED BY <2>1, <2>2, <2>3 DEF Gestempelt
<1>4. zeile' = [z \in Zeilen |-> zeile'[z]]
  BY DEF Gestempelt
<1> QED BY <1>3, <1>4

LEMMA StampStimmt == ASSUME IInv, NEW i \in Instanzen, Stamp(i) PROVE IInv'
<1> DEFINE m == [Ruhe EXCEPT !.laeuft = TRUE, !.schritt = "beansprucht", !.nochmal = pass[i].nochmal]
           n == IF ~Keyed /\ pass[i].voll THEN m ELSE RundeZuEnde(pass[i])
<1>1. /\ Gestempelt(i) /\ Setze(i, n)
      /\ UNCHANGED <<lage, angenommen, post, neustarts, letzter>>
      /\ konto' = konto /\ unterbrochen' = unterbrochen /\ offen' = offen
  BY DEF Stamp
<1>2. pass[i] \in Pass /\ pass[i].nochmal \in BOOLEAN /\ (pass[i].laeuft \/ pass[i] = Ruhe)
  BY Anfangs DEF Pass
<1>3. m \in Pass /\ m.laeuft /\ PassWahr(lage, post, Gefolgt, m)
  BY <1>2, RundenTyp, RundenWahr
<1>4. n \in Pass /\ (n.laeuft \/ n = Ruhe) /\ PassWahr(lage, post, Gefolgt, n)
  BY <1>2, <1>3, RundenTyp, RundenWahr
<1> HIDE DEF n
<1> QED BY <1>1, <1>4, GestempeltStimmt, Anfangs, OhnePost

LEMMA StampLostStimmt == ASSUME IInv, NEW i \in Instanzen, StampLost(i) PROVE IInv'
<1> DEFINE n == RundeZuEnde(pass[i])
<1>1. /\ zeile' = zeile \/ Gestempelt(i)
      /\ Setze(i, n) /\ UNCHANGED <<lage, angenommen, post, neustarts, letzter>>
      /\ konto' = konto /\ offen' = offen
  BY DEF StampLost
<1>2. n \in Pass /\ (n.laeuft \/ n = Ruhe) /\ PassWahr(lage, post, Gefolgt, n)
  BY Anfangs, RundenTyp, RundenWahr
<1>3. unterbrochen' \subseteq Zeilen
  BY Anfangs DEF StampLost, Unterbricht, Pass
<1> HIDE DEF n
<1> QED BY <1>1, <1>2, <1>3, GestempeltStimmt, Anfangs, OhnePost

-----------------------------------------------------------------------------
(* An address change's end is told once. The invariant above does not say who holds a *)
(* row: here, that a row no pass lost hold of is worked on by its lease's holder       *)
(* alone, and that its mail is accounted for in that pass or by the row's stamp.       *)

Hinaus(zl, z) == zl[z].stand \in {"gestempelt", "aufgegeben"}

Gehoert(zl, z, i) == zl[z].stand = "da" /\ zl[z].bei = i /\ zl[z].frist > 0

\* The pass has done with the row, or with this mailbox of its current row and no failure.
Deckt(p, z, e) == z \in p.erledigt \/ (p.zeile = z /\ e \notin p.rest /\ p.alle)

\* A row is in one place of a pass; the claim and the stamp start from passes at work on
\* nothing; and a notice's only mailbox is tried once.
Geordnet(l, p) ==
  /\ p.zeilen \cap p.erledigt = {} /\ p.zeile \notin p.zeilen \cup p.erledigt
  /\ p.schritt \in {"ruht", "beansprucht"} => InArbeit(p) = {}
  /\ p.schritt = "stempelt" => p.zeilen = {} /\ p.zeile = Keine
  /\ p.rest \subseteq l.empfaenger
  /\ l.art # "berechtigung" /\ p.zeile # Keine /\ p.rest # {} => p.alle

PaesseGeordnet == \A i \in Instanzen : Geordnet(lage, pass[i])

GehaltenesGehoert ==
  ~Keyed => \A z \in Zeilen \ unterbrochen, i \in Instanzen :
              z \in InArbeit(pass[i]) => Gehoert(zeile, z, i)

ErzaehltesIstGedeckt ==
  ~Keyed => \A z \in Zeilen \ unterbrochen, e \in Empfaenger : Erzaehlt(post, z, e) =>
              /\ e \in lage.empfaenger
              /\ Hinaus(zeile, z) \/ \E i \in Instanzen : Deckt(pass[i], z, e)

JedesEinmal ==
  ~Keyed => \A z \in Zeilen \ unterbrochen, e \in Empfaenger, f \in Fassungen : post[<<z, e, f>>] <= 1

HInv == PaesseGeordnet /\ GehaltenesGehoert /\ ErzaehltesIstGedeckt /\ JedesEinmal

LEMMA GeordneteRunden ==
  ASSUME TypeOK, NEW p \in Pass, Geordnet(lage, p), NEW nochmal \in BOOLEAN
  PROVE  /\ Geordnet(lage, Ruhe) /\ InArbeit(Ruhe) = {}
         /\ Geordnet(lage, RundeZuEnde(p)) /\ InArbeit(RundeZuEnde(p)) = {}
         /\ LET n == [Ruhe EXCEPT !.laeuft = TRUE, !.schritt = "beansprucht", !.nochmal = nochmal]
            IN  Geordnet(lage, n) /\ InArbeit(n) = {}
<1>1. ASSUME NEW n, n.zeilen = {}, n.erledigt = {}, n.zeile = Keine, n.rest = {}
      PROVE  Geordnet(lage, n) /\ InArbeit(n) = {}
  BY <1>1 DEF Geordnet, InArbeit
<1>2. Geordnet(lage, Ruhe) /\ InArbeit(Ruhe) = {}
  BY DEF Ruhe, Geordnet, InArbeit
<1>3. LET n == [Ruhe EXCEPT !.laeuft = TRUE, !.schritt = "beansprucht"]
      IN  Geordnet(lage, n) /\ InArbeit(n) = {}
  BY DEF Ruhe, Geordnet, InArbeit
<1>4. LET n == [Ruhe EXCEPT !.laeuft = TRUE, !.schritt = "beansprucht", !.nochmal = nochmal]
      IN  Geordnet(lage, n) /\ InArbeit(n) = {}
  BY DEF Ruhe, Geordnet, InArbeit
<1> QED BY <1>2, <1>3, <1>4 DEF RundeZuEnde

\* Asked again, a pass keeps its rows; at rest, it starts with none.
LEMMA NochmalGeordnet ==
  ASSUME TypeOK, NEW p \in Pass, Geordnet(lage, p), p.laeuft \/ p = Ruhe
  PROVE  /\ Geordnet(lage, runAbgleich(p)) /\ InArbeit(runAbgleich(p)) = InArbeit(p)
         /\ \A z \in Zeilen, e \in Empfaenger : Deckt(p, z, e) => Deckt(runAbgleich(p), z, e)
<1>1. CASE p.laeuft
  <2>1. runAbgleich(p) = [p EXCEPT !.nochmal = TRUE]
    BY <1>1 DEF runAbgleich
  <2>2. LET n == [p EXCEPT !.nochmal = TRUE]
        IN  /\ n.zeilen = p.zeilen /\ n.erledigt = p.erledigt /\ n.zeile = p.zeile
            /\ n.rest = p.rest /\ n.alle = p.alle /\ n.schritt = p.schritt
    BY DEF Pass
  <2> QED BY <2>1, <2>2 DEF Geordnet, InArbeit, Deckt
<1>2. CASE ~p.laeuft
  <2>1. p = Ruhe
    BY <1>2
  <2>2. runAbgleich(p) = [Ruhe EXCEPT !.laeuft = TRUE, !.schritt = "beansprucht"]
    BY <1>2 DEF runAbgleich
  <2>3. LET n == [Ruhe EXCEPT !.laeuft = TRUE, !.schritt = "beansprucht"]
        IN  /\ n.zeilen = {} /\ n.erledigt = {} /\ n.zeile = Keine /\ n.rest = {}
            /\ Ruhe.zeilen = {} /\ Ruhe.erledigt = {} /\ Ruhe.zeile = Keine
    BY DEF Ruhe
  <2> QED BY <2>1, <2>2, <2>3, KeineAssumption DEF Geordnet, InArbeit, Deckt
<1> QED BY <1>1, <1>2

\* A step of one pass that sends nothing: the rows kept stay their holders', and what the
\* pass had done it still has done, or has stamped.
LEMMA StilleStimmt ==
  ASSUME TypeOK, HInv, NEW i \in Instanzen, NEW n \in Pass, n.laeuft \/ n = Ruhe, Setze(i, n),
         lage' = lage, post' = post, unterbrochen \subseteq unterbrochen',
         Geordnet(lage, n), GehaltenesGehoert',
         \A z \in Zeilen : Hinaus(zeile, z) => Hinaus(zeile', z),
         ~Keyed => \A z \in Zeilen \ unterbrochen', e \in Empfaenger :
           Deckt(pass[i], z, e) /\ Erzaehlt(post, z, e) => Deckt(n, z, e) \/ Hinaus(zeile', z)
  PROVE  HInv'
<1>1. pass'[i] = n /\ \A j \in Instanzen : j # i => pass'[j] = pass[j]
  BY SetzeStimmt
<1>2. PaesseGeordnet'
  BY <1>1 DEF HInv, PaesseGeordnet
<1>3. Keyed' = Keyed
  BY DEF Keyed
<1>4. ErzaehltesIstGedeckt'
  <2> SUFFICES ASSUME ~Keyed, NEW z \in Zeilen \ unterbrochen', NEW e \in Empfaenger, Erzaehlt(post, z, e)
               PROVE  /\ e \in lage.empfaenger
                      /\ Hinaus(zeile', z) \/ \E j \in Instanzen : Deckt(pass'[j], z, e)
    BY <1>3 DEF ErzaehltesIstGedeckt
  <2>1. e \in lage.empfaenger /\ (Hinaus(zeile, z) \/ \E j \in Instanzen : Deckt(pass[j], z, e))
    BY DEF HInv, ErzaehltesIstGedeckt
  <2>2. CASE Hinaus(zeile, z)
    BY <2>1, <2>2
  <2>3. ASSUME NEW j \in Instanzen, Deckt(pass[j], z, e)
        PROVE  Hinaus(zeile', z) \/ \E k \in Instanzen : Deckt(pass'[k], z, e)
    <3>1. CASE j = i
      BY <1>1, <2>3, <3>1
    <3>2. CASE j # i
      BY <1>1, <2>3, <3>2
    <3> QED BY <3>1, <3>2
  <2> QED BY <2>1, <2>2, <2>3
<1>5. JedesEinmal'
  BY <1>3 DEF HInv, JedesEinmal
<1> QED BY <1>2, <1>4, <1>5 DEF HInv

\* Where the outbox stays as it is and the pass takes hold of nothing new, rows stay their holders'.
LEMMA HaeltNichtsNeues ==
  ASSUME TypeOK, HInv, NEW i \in Instanzen, NEW n \in Pass, n.laeuft \/ n = Ruhe, Setze(i, n),
         lage' = lage, unterbrochen \subseteq unterbrochen', InArbeit(n) \subseteq InArbeit(pass[i]),
         \A z \in Zeilen : zeile[z].stand = "da" => zeile'[z] = zeile[z]
  PROVE  GehaltenesGehoert'
<1>1. pass'[i] = n /\ \A j \in Instanzen : j # i => pass'[j] = pass[j]
  BY SetzeStimmt
<1>2. Keyed' = Keyed
  BY DEF Keyed
<1> SUFFICES ASSUME ~Keyed, NEW z \in Zeilen \ unterbrochen', NEW j \in Instanzen, z \in InArbeit(pass'[j])
             PROVE  Gehoert(zeile', z, j)
  BY <1>2 DEF GehaltenesGehoert
<1>3. z \in InArbeit(pass[j])
  BY <1>1
<1>4. Gehoert(zeile, z, j)
  BY <1>3 DEF HInv, GehaltenesGehoert
<1> QED BY <1>4 DEF Gehoert

LEMMA HAmAnfang == Init => HInv
<1> SUFFICES ASSUME Init PROVE HInv
  OBVIOUS
<1>1. \A i \in Instanzen : Geordnet(lage, pass[i]) /\ InArbeit(pass[i]) = {}
  BY KeineAssumption DEF Init, Ruhe, Geordnet, InArbeit
<1>2. PaesseGeordnet /\ GehaltenesGehoert
  BY <1>1 DEF PaesseGeordnet, GehaltenesGehoert
<1>3. ErzaehltesIstGedeckt /\ JedesEinmal
  <2>1. \A m \in Nachrichten : ~(post[m] > 0) /\ post[m] <= 1
    BY DEF Init, Nachrichten
  <2>2. \A z \in Zeilen, e \in Empfaenger : ~Erzaehlt(post, z, e)
    BY <2>1 DEF Erzaehlt, Nachrichten
  <2>3. JedesEinmal
    BY <2>1 DEF JedesEinmal, Nachrichten
  <2> QED BY <2>2, <2>3 DEF ErzaehltesIstGedeckt
<1> QED BY <1>2, <1>3 DEF HInv

LEMMA AendertEinmal == ASSUME IInv, HInv, NEW z \in Zeilen, Aendert(z) PROVE HInv'
<1>1. PICK i \in lage.instanzen : Setze(i, runAbgleich(pass[i]))
  BY DEF Aendert
<1>2. i \in Instanzen
  BY LageTyp, Anfangs
<1> DEFINE n == runAbgleich(pass[i])
<1>3. n \in Pass /\ n.laeuft
  BY <1>2, Anfangs, RundenTyp
<1>4. /\ Geordnet(lage, n) /\ InArbeit(n) = InArbeit(pass[i])
      /\ \A y \in Zeilen, e \in Empfaenger : Deckt(pass[i], y, e) => Deckt(n, y, e)
  BY <1>2, Anfangs, NochmalGeordnet DEF HInv, PaesseGeordnet
<1> HIDE DEF n
<1>5. /\ lage' = lage /\ post' = post /\ unterbrochen' = unterbrochen /\ Setze(i, n)
      /\ zeile[z].stand = "nie" /\ zeile' = [zeile EXCEPT ![z].stand = "da"]
  BY <1>1 DEF Aendert, n
<1>6. /\ \A y \in Zeilen : zeile[y].stand = "da" => zeile'[y] = zeile[y]
      /\ \A y \in Zeilen : Hinaus(zeile, y) => Hinaus(zeile', y)
  BY <1>5, Anfangs DEF Zeile, Hinaus
<1>7. GehaltenesGehoert'
  BY <1>2, <1>3, <1>4, <1>5, <1>6, Anfangs, HaeltNichtsNeues
<1> QED BY <1>2, <1>3, <1>4, <1>5, <1>6, <1>7, Anfangs, StilleStimmt

LEMMA AussenEinmal ==
  ASSUME IInv, HInv, NEW z \in Zeilen, Umgeschrieben(z) \/ KontoEroeffnet(z)
  PROVE  HInv'
<1>1. /\ lage' = lage /\ pass' = pass /\ post' = post /\ unterbrochen' = unterbrochen
      /\ Keyed \/ zeile' = zeile
  BY DEF Umgeschrieben, KontoEroeffnet
<1>2. Keyed' = Keyed
  BY <1>1 DEF Keyed
<1> QED BY <1>1, <1>2 DEF HInv, PaesseGeordnet, GehaltenesGehoert, ErzaehltesIstGedeckt, JedesEinmal

LEMMA TickEinmal == ASSUME IInv, HInv, Tick PROVE HInv'
<1> DEFINE n == runAbgleich(pass[Boot])
<1>1. n \in Pass /\ n.laeuft
  BY BootAssumption, Anfangs, RundenTyp
<1>2. /\ Geordnet(lage, n) /\ InArbeit(n) = InArbeit(pass[Boot])
      /\ \A y \in Zeilen, e \in Empfaenger : Deckt(pass[Boot], y, e) => Deckt(n, y, e)
  BY BootAssumption, Anfangs, NochmalGeordnet DEF HInv, PaesseGeordnet
<1> HIDE DEF n
<1>3. /\ Setze(Boot, n) /\ lage' = lage /\ post' = post
      /\ zeile' = [z \in Zeilen |-> [zeile[z] EXCEPT !.frist = IF @ = 0 THEN 0 ELSE @ - 1]]
      /\ Unterbricht({z \in Zeilen : zeile[z].frist = 1 /\ \E i \in Instanzen : z \in InArbeit(pass[i])})
  BY DEF Tick, n
<1>4. Keyed' = Keyed /\ unterbrochen \subseteq unterbrochen'
  BY <1>3 DEF Keyed, Unterbricht
<1>5. \A j \in Instanzen : InArbeit(pass'[j]) = InArbeit(pass[j])
  BY <1>1, <1>2, <1>3, Anfangs, SetzeStimmt, BootAssumption
<1>6. GehaltenesGehoert'
  <2> SUFFICES ASSUME ~Keyed, NEW z \in Zeilen \ unterbrochen', NEW j \in Instanzen, z \in InArbeit(pass[j])
               PROVE  Gehoert(zeile', z, j)
    BY <1>4, <1>5 DEF GehaltenesGehoert
  <2>1. Gehoert(zeile, z, j)
    BY <1>4 DEF HInv, GehaltenesGehoert
  <2>2. zeile[z].frist # 1
    BY <1>3 DEF Unterbricht
  <2>3. zeile[z] \in Zeile
    BY Anfangs
  <2>4. zeile'[z] = [zeile[z] EXCEPT !.frist = IF @ = 0 THEN 0 ELSE @ - 1]
    BY <1>3
  <2> QED BY <2>1, <2>2, <2>3, <2>4, ZahlenAssumption DEF Gehoert, Zeile
<1>7. \A y \in Zeilen : Hinaus(zeile, y) => Hinaus(zeile', y)
  BY <1>3, Anfangs DEF Zeile, Hinaus
<1> QED BY <1>1, <1>2, <1>3, <1>4, <1>6, <1>7, Anfangs, BootAssumption, StilleStimmt

LEMMA NeustartEinmal == ASSUME IInv, HInv, Neustart PROVE HInv'
<1>1. /\ pass' = [i \in Instanzen |-> Ruhe] /\ lage' = lage /\ zeile' = zeile /\ post' = post
      /\ Unterbricht(UNION {InArbeit(pass[i]) : i \in Instanzen})
  BY DEF Neustart
<1>2. Keyed' = Keyed /\ unterbrochen \subseteq unterbrochen'
  BY <1>1 DEF Keyed, Unterbricht
<1>3. Geordnet(lage, Ruhe) /\ InArbeit(Ruhe) = {}
  BY KeineAssumption DEF Ruhe, Geordnet, InArbeit
<1>4. PaesseGeordnet' /\ GehaltenesGehoert'
  BY <1>1, <1>3 DEF PaesseGeordnet, GehaltenesGehoert
<1>5. ErzaehltesIstGedeckt'
  <2> SUFFICES ASSUME ~Keyed, NEW z \in Zeilen \ unterbrochen', NEW e \in Empfaenger, Erzaehlt(post, z, e)
               PROVE  e \in lage.empfaenger /\ Hinaus(zeile, z)
    BY <1>1, <1>2 DEF ErzaehltesIstGedeckt
  <2>1. e \in lage.empfaenger /\ (Hinaus(zeile, z) \/ \E j \in Instanzen : Deckt(pass[j], z, e))
    BY <1>2 DEF HInv, ErzaehltesIstGedeckt
  <2>2. ASSUME NEW j \in Instanzen, Deckt(pass[j], z, e) PROVE FALSE
    <3>1. z \in InArbeit(pass[j])
      BY <2>2, KeineAssumption DEF Deckt, InArbeit
    <3> QED BY <1>1, <3>1 DEF Unterbricht
  <2> QED BY <2>1, <2>2
<1>6. JedesEinmal'
  BY <1>1, <1>2 DEF HInv, JedesEinmal
<1> QED BY <1>4, <1>5, <1>6 DEF HInv

\* A claim takes rows no lease holds: none of another pass that has not lost hold of it.
LEMMA BeanspruchtFreies ==
  ASSUME IInv, HInv, ~Keyed, NEW i \in Instanzen, Beanspruche(i, read_the_claimable)
  PROVE  /\ \A z \in Zeilen : Hinaus(zeile, z) => Hinaus(zeile', z)
         /\ \A z \in Zeilen \ unterbrochen, j \in Instanzen :
              z \in InArbeit(pass[j]) => Gehoert(zeile', z, j)
         /\ \A z \in read_the_claimable : Gehoert(zeile', z, i)
<1>1. /\ zeile \in [Zeilen -> Zeile]
      /\ \A z \in Zeilen : zeile'[z].stand = zeile[z].stand
  BY Anfangs, BeansprucheStimmt DEF read_the_claimable
<1>2. \A z \in Zeilen \ read_the_claimable : zeile'[z] = zeile[z]
  BY DEF Beanspruche
<1>3. ASSUME NEW z \in read_the_claimable PROVE Gehoert(zeile', z, i)
  <2>1. /\ zeile[z] \in Zeile /\ zeile[z].stand = "da"
        /\ zeile'[z] = [zeile[z] EXCEPT !.frist = BEANSPRUCHUNG_DAUER, !.bei = i,
                          !.versuche = IF @ < VERSUCHE_HOECHSTENS THEN @ + 1 ELSE @]
    BY <1>1 DEF Beanspruche, read_the_claimable
  <2> QED BY <2>1, ZahlenAssumption DEF Gehoert, Zeile
<1>4. ASSUME NEW z \in Zeilen \ unterbrochen, NEW j \in Instanzen, z \in InArbeit(pass[j])
      PROVE  Gehoert(zeile', z, j)
  <2>1. Gehoert(zeile, z, j)
    BY <1>4 DEF HInv, GehaltenesGehoert
  <2>2. z \notin read_the_claimable
    BY <2>1 DEF Gehoert, read_the_claimable
  <2> QED BY <1>2, <2>1, <2>2 DEF Gehoert
<1> QED BY <1>1, <1>3, <1>4 DEF Hinaus

LEMMA ClaimEinmal == ASSUME IInv, HInv, NEW i \in Instanzen, Claim(i) PROVE HInv'
<1> DEFINE held == read_the_claimable
           m == [pass[i] EXCEPT !.schritt = "verschickt", !.zeilen = held,
                   !.aufgegeben = {z \in held : aufgegeben(z)},
                   !.fassung = [z \in Zeilen |-> zeile[z].fassung]]
           n == IF held = {} THEN RundeZuEnde(pass[i]) ELSE m
<1>1. /\ pass[i].schritt = "beansprucht" /\ Beanspruche(i, held) /\ Setze(i, n)
      /\ lage' = lage /\ post' = post /\ unterbrochen' = unterbrochen
  BY DEF Claim
<1>2. held \in SUBSET Zeilen /\ [z \in Zeilen |-> zeile[z].fassung] \in [Zeilen -> Fassungen]
  BY Anfangs DEF read_the_claimable, Zeile
<1>3. pass[i] \in Pass /\ pass[i].laeuft /\ Geordnet(lage, pass[i]) /\ InArbeit(pass[i]) = {}
  BY <1>1, Anfangs DEF HInv, PaesseGeordnet, Geordnet
<1>4. m \in Pass /\ m.laeuft
  BY <1>2, <1>3 DEF Pass
<1>5. pass[i].zeile = Keine /\ pass[i].zeilen = {} /\ pass[i].erledigt = {}
  BY <1>3 DEF InArbeit
<1>6. Geordnet(lage, m) /\ InArbeit(m) = held
  BY <1>2, <1>3, <1>5, KeineAssumption DEF Pass, Geordnet, InArbeit
<1>7. /\ n \in Pass /\ (n.laeuft \/ n = Ruhe) /\ Geordnet(lage, n) /\ InArbeit(n) \subseteq held
  BY <1>3, <1>4, <1>6, Anfangs, RundenTyp, GeordneteRunden
<1>8. \A z \in Zeilen, e \in Empfaenger : ~Deckt(pass[i], z, e)
  BY <1>5, KeineAssumption DEF Deckt
<1> HIDE DEF n, m
<1>9. Keyed' = Keyed
  BY <1>1 DEF Keyed
<1>10. GehaltenesGehoert'
  <2>1. pass'[i] = n /\ \A j \in Instanzen : j # i => pass'[j] = pass[j]
    BY <1>1, <1>7, Anfangs, SetzeStimmt
  <2> SUFFICES ASSUME ~Keyed, NEW z \in Zeilen \ unterbrochen, NEW j \in Instanzen, z \in InArbeit(pass'[j])
               PROVE  Gehoert(zeile', z, j)
    BY <1>1, <1>9 DEF GehaltenesGehoert
  <2>2. CASE j = i
    BY <1>1, <1>7, <2>1, <2>2, BeanspruchtFreies
  <2>3. CASE j # i
    BY <1>1, <2>1, <2>3, BeanspruchtFreies
  <2> QED BY <2>2, <2>3
<1>11. \A z \in Zeilen : Hinaus(zeile, z) => Hinaus(zeile', z)
  BY <1>1, <1>2, BeansprucheStimmt DEF Hinaus
<1> HIDE DEF held
<1> QED BY <1>1, <1>7, <1>8, <1>10, <1>11, Anfangs, StilleStimmt

LEMMA ClaimLostEinmal == ASSUME IInv, HInv, NEW i \in Instanzen, ClaimLost(i) PROVE HInv'
<1> DEFINE n == RundeZuEnde(pass[i])
<1>1. /\ pass[i].schritt = "beansprucht" /\ Setze(i, n)
      /\ zeile' = zeile \/ Beanspruche(i, read_the_claimable)
      /\ lage' = lage /\ post' = post /\ unterbrochen' = unterbrochen
  BY DEF ClaimLost
<1>2. pass[i] \in Pass /\ (pass[i].laeuft \/ pass[i] = Ruhe) /\ Geordnet(lage, pass[i])
  BY Anfangs DEF HInv, PaesseGeordnet
<1>3. InArbeit(pass[i]) = {}
  BY <1>1, <1>2 DEF Geordnet
<1>4. n \in Pass /\ (n.laeuft \/ n = Ruhe) /\ Geordnet(lage, n) /\ InArbeit(n) = {}
  BY <1>2, Anfangs, RundenTyp, GeordneteRunden
<1> HIDE DEF n
<1>5. \A z \in Zeilen, e \in Empfaenger : ~Deckt(pass[i], z, e)
  BY <1>3, KeineAssumption DEF Deckt, InArbeit
<1>6. Keyed' = Keyed /\ read_the_claimable \in SUBSET Zeilen
  BY <1>1 DEF Keyed, read_the_claimable
<1>7. GehaltenesGehoert'
  <2>1. pass'[i] = n /\ \A j \in Instanzen : j # i => pass'[j] = pass[j]
    BY <1>1, <1>4, Anfangs, SetzeStimmt
  <2> SUFFICES ASSUME ~Keyed, NEW z \in Zeilen \ unterbrochen, NEW j \in Instanzen, z \in InArbeit(pass'[j])
               PROVE  Gehoert(zeile', z, j)
    BY <1>1, <1>6 DEF GehaltenesGehoert
  <2>2. z \in InArbeit(pass[j])
    BY <1>4, <2>1
  <2>3. Gehoert(zeile, z, j)
    BY <2>2 DEF HInv, GehaltenesGehoert
  <2> QED BY <1>1, <2>2, <2>3, BeanspruchtFreies DEF Gehoert
<1>8. \A z \in Zeilen : Hinaus(zeile, z) => Hinaus(zeile', z)
  BY <1>1, <1>6, BeansprucheStimmt DEF Hinaus
<1> QED BY <1>1, <1>4, <1>5, <1>7, <1>8, Anfangs, StilleStimmt

\* A step of a pass at its rows that stamps nothing and takes hold of nothing new.
LEMMA ArbeitStimmt ==
  ASSUME IInv, HInv, NEW i \in Instanzen, NEW n \in Pass, n.laeuft \/ n = Ruhe, Setze(i, n),
         lage' = lage, post' = post, zeile' = zeile, unterbrochen' = unterbrochen,
         Geordnet(lage, n), InArbeit(n) \subseteq InArbeit(pass[i]),
         ~Keyed => \A z \in Zeilen, e \in Empfaenger :
           Deckt(pass[i], z, e) /\ Erzaehlt(post, z, e) => Deckt(n, z, e)
  PROVE  HInv'
<1>1. GehaltenesGehoert'
  BY Anfangs, HaeltNichtsNeues
<1>2. \A z \in Zeilen : Hinaus(zeile, z) => Hinaus(zeile', z)
  OBVIOUS
<1> QED BY <1>1, <1>2, Anfangs, StilleStimmt

LEMMA AufgebenEinmal == ASSUME IInv, HInv, NEW i \in Instanzen, NEW z \in Zeilen, Aufgeben(i, z) PROVE HInv'
<1> DEFINE n == [pass[i] EXCEPT !.zeilen = @ \ {z}, !.erledigt = @ \cup {z}]
<1>1. /\ pass[i].schritt = "verschickt" /\ pass[i].zeile = Keine /\ z \in pass[i].zeilen
      /\ Setze(i, n) /\ lage' = lage /\ post' = post /\ zeile' = zeile /\ unterbrochen' = unterbrochen
  BY DEF Aufgeben, Verschickt
<1>2. pass[i] \in Pass /\ pass[i].laeuft /\ Geordnet(lage, pass[i])
  BY <1>1, Anfangs DEF HInv, PaesseGeordnet
<1>3. /\ n \in Pass /\ n.laeuft /\ n.schritt = "verschickt" /\ n.zeile = Keine /\ n.rest = pass[i].rest
      /\ n.zeilen = pass[i].zeilen \ {z} /\ n.erledigt = pass[i].erledigt \cup {z}
  BY <1>1, <1>2 DEF Pass
<1> HIDE DEF n
<1>4. Geordnet(lage, n) /\ InArbeit(n) \subseteq InArbeit(pass[i])
  BY <1>1, <1>2, <1>3, KeineAssumption DEF Geordnet, InArbeit
<1>5. \A y \in Zeilen, e \in Empfaenger : Deckt(pass[i], y, e) => Deckt(n, y, e)
  BY <1>1, <1>3, KeineAssumption DEF Deckt
<1> QED BY <1>1, <1>3, <1>4, <1>5, ArbeitStimmt

LEMMA AnfangenEinmal == ASSUME IInv, HInv, NEW i \in Instanzen, NEW z \in Zeilen, Anfangen(i, z) PROVE HInv'
<1> DEFINE n == [pass[i] EXCEPT !.zeilen = @ \ {z}, !.zeile = z, !.alle = TRUE,
                   !.rest = lage.empfaenger \ offen[i][z], !.erreicht = offen[i][z]]
<1>1. /\ pass[i].schritt = "verschickt" /\ pass[i].zeile = Keine /\ z \in pass[i].zeilen
      /\ Setze(i, n) /\ lage' = lage /\ post' = post /\ zeile' = zeile /\ unterbrochen' = unterbrochen
  BY DEF Anfangen, Verschickt
<1>2. pass[i] \in Pass /\ pass[i].laeuft /\ Geordnet(lage, pass[i])
  BY <1>1, Anfangs DEF HInv, PaesseGeordnet
<1>3. offen[i][z] \subseteq Empfaenger /\ lage.empfaenger \subseteq Empfaenger
  BY Anfangs, LageTyp DEF Gedaechtnis
<1>4. /\ n \in Pass /\ n.laeuft /\ n.schritt = "verschickt" /\ n.zeile = z /\ n.alle
      /\ n.rest = lage.empfaenger \ offen[i][z]
      /\ n.zeilen = pass[i].zeilen \ {z} /\ n.erledigt = pass[i].erledigt
  BY <1>1, <1>2, <1>3 DEF Pass
<1> HIDE DEF n
<1>5. Geordnet(lage, n) /\ InArbeit(n) \subseteq InArbeit(pass[i])
  BY <1>1, <1>2, <1>4, KeineAssumption DEF Geordnet, InArbeit
<1>6. \A y \in Zeilen, e \in Empfaenger : Deckt(pass[i], y, e) => Deckt(n, y, e)
  BY <1>1, <1>4, KeineAssumption DEF Deckt
<1> QED BY <1>1, <1>4, <1>5, <1>6, ArbeitStimmt

LEMMA carryAccountEinmal ==
  ASSUME IInv, HInv, NEW i \in Instanzen, NEW z \in Zeilen, carryAccount(i, z)
  PROVE  HInv'
<1> DEFINE n == [pass[i] EXCEPT !.zeilen = @ \ {z}, !.voll = FALSE]
<1>1. /\ pass[i].schritt = "verschickt" /\ pass[i].zeile = Keine
      /\ lage' = lage /\ post' = post /\ zeile' = zeile /\ unterbrochen' = unterbrochen
  BY DEF carryAccount, Verschickt
<1>2. pass[i] \in Pass /\ pass[i].laeuft /\ Geordnet(lage, pass[i])
  BY <1>1, Anfangs DEF HInv, PaesseGeordnet
<1>3. CASE pass' = pass
  BY <1>1, <1>3 DEF HInv, PaesseGeordnet, GehaltenesGehoert, ErzaehltesIstGedeckt, JedesEinmal, Keyed
<1>4. CASE Setze(i, n)
  <2>1. /\ n \in Pass /\ n.laeuft /\ n.schritt = "verschickt" /\ n.zeile = Keine
        /\ n.rest = pass[i].rest /\ n.alle = pass[i].alle
        /\ n.zeilen = pass[i].zeilen \ {z} /\ n.erledigt = pass[i].erledigt
    BY <1>1, <1>2 DEF Pass
  <2> HIDE DEF n
  <2>2. Geordnet(lage, n) /\ InArbeit(n) \subseteq InArbeit(pass[i])
    BY <1>1, <1>2, <2>1, KeineAssumption DEF Geordnet, InArbeit
  <2>3. \A y \in Zeilen, e \in Empfaenger : Deckt(pass[i], y, e) => Deckt(n, y, e)
    BY <1>1, <2>1, KeineAssumption DEF Deckt
  <2> QED BY <1>1, <1>4, <2>1, <2>2, <2>3, ArbeitStimmt
<1> QED BY <1>3, <1>4 DEF carryAccount

LEMMA EntfaelltEinmal ==
  ASSUME IInv, HInv, NEW i \in Instanzen, NEW e \in Empfaenger, Entfaellt(i, e)
  PROVE  HInv'
<1> DEFINE n == [pass[i] EXCEPT !.rest = @ \ {e}]
<1>1. /\ pass[i].schritt = "verschickt" /\ Setze(i, n)
      /\ lage' = lage /\ post' = post /\ zeile' = zeile /\ unterbrochen' = unterbrochen
  BY DEF Entfaellt, Verschickt
<1>2. pass[i] \in Pass /\ pass[i].laeuft /\ Geordnet(lage, pass[i])
  BY <1>1, Anfangs DEF HInv, PaesseGeordnet
<1>3. /\ n \in Pass /\ n.laeuft /\ n.schritt = "verschickt" /\ n.zeile = pass[i].zeile
      /\ n.rest = pass[i].rest \ {e} /\ n.alle = pass[i].alle
      /\ n.zeilen = pass[i].zeilen /\ n.erledigt = pass[i].erledigt
  BY <1>1, <1>2 DEF Pass
<1> HIDE DEF n
<1>4. Geordnet(lage, n) /\ InArbeit(n) \subseteq InArbeit(pass[i])
  BY <1>2, <1>3 DEF Geordnet, InArbeit
<1>5. \A y \in Zeilen, d \in Empfaenger : Deckt(pass[i], y, d) => Deckt(n, y, d)
  BY <1>3 DEF Deckt
<1> QED BY <1>1, <1>3, <1>4, <1>5, ArbeitStimmt

LEMMA ZeileFertigEinmal == ASSUME IInv, HInv, NEW i \in Instanzen, ZeileFertig(i) PROVE HInv'
<1> DEFINE p == pass[i]
           n == [p EXCEPT !.zeile = Keine, !.alle = TRUE, !.erreicht = {},
                   !.erledigt = IF p.alle THEN @ \cup {p.zeile} ELSE @,
                   !.voll = @ /\ p.alle]
<1>1. /\ p.schritt = "verschickt" /\ p.zeile # Keine /\ p.rest = {} /\ Setze(i, n)
      /\ lage' = lage /\ post' = post /\ zeile' = zeile /\ unterbrochen' = unterbrochen
  BY DEF ZeileFertig, Verschickt
<1>2. p \in Pass /\ p.laeuft /\ Geordnet(lage, p)
  BY <1>1, Anfangs DEF HInv, PaesseGeordnet
<1>3. p.zeile \in Zeilen /\ p.alle \in BOOLEAN
  BY <1>1, <1>2 DEF Pass
<1>4. /\ n \in Pass /\ n.laeuft /\ n.schritt = "verschickt" /\ n.zeile = Keine /\ n.rest = {}
      /\ n.zeilen = p.zeilen /\ n.erledigt = IF p.alle THEN p.erledigt \cup {p.zeile} ELSE p.erledigt
  <2>1. /\ (IF p.alle THEN p.erledigt \cup {p.zeile} ELSE p.erledigt) \in SUBSET Zeilen
        /\ (p.voll /\ p.alle) \in BOOLEAN
    BY <1>2, <1>3 DEF Pass
  <2> HIDE DEF p
  <2> QED BY <1>1, <1>2, <2>1 DEF Pass
<1> HIDE DEF n
<1>5. Geordnet(lage, n) /\ InArbeit(n) \subseteq InArbeit(p)
  <2>1. p.zeile \in InArbeit(p) /\ p.zeilen \subseteq InArbeit(p) /\ p.erledigt \subseteq InArbeit(p)
    BY <1>1 DEF InArbeit
  <2>2. InArbeit(n) \subseteq n.zeilen \cup n.erledigt
    BY <1>4 DEF InArbeit
  <2> HIDE DEF p
  <2>3. InArbeit(n) \subseteq InArbeit(p)
    BY <1>4, <2>1, <2>2
  <2>4. n.zeilen \cap n.erledigt = {}
    BY <1>2, <1>4 DEF Geordnet
  <2>5. Keine \notin n.zeilen \cup n.erledigt
    BY <1>4, KeineAssumption DEF Pass
  <2> QED BY <1>4, <2>3, <2>4, <2>5 DEF Geordnet
<1>6. \A y \in Zeilen, e \in Empfaenger : Deckt(p, y, e) => Deckt(n, y, e)
  <2> HIDE DEF p
  <2> QED BY <1>1, <1>4, KeineAssumption DEF Deckt
<1> QED BY <1>1, <1>4, <1>5, <1>6, ArbeitStimmt

LEMMA AlleZeilenFertigEinmal == ASSUME IInv, HInv, NEW i \in Instanzen, AlleZeilenFertig(i) PROVE HInv'
<1> DEFINE m == [pass[i] EXCEPT !.schritt = "stempelt"]
           n == IF pass[i].erledigt = {} THEN RundeZuEnde(pass[i]) ELSE m
<1>1. /\ pass[i].schritt = "verschickt" /\ Setze(i, n) /\ pass[i].zeile = Keine /\ pass[i].zeilen = {}
      /\ lage' = lage /\ post' = post /\ zeile' = zeile /\ unterbrochen' = unterbrochen
  BY DEF AlleZeilenFertig, Verschickt
<1>2. pass[i] \in Pass /\ pass[i].laeuft /\ Geordnet(lage, pass[i])
  BY <1>1, Anfangs DEF HInv, PaesseGeordnet
<1>3. CASE pass[i].erledigt = {}
  <2>1. n \in Pass /\ (n.laeuft \/ n = Ruhe) /\ Geordnet(lage, n) /\ InArbeit(n) = {}
    BY <1>2, <1>3, Anfangs, RundenTyp, GeordneteRunden
  <2> HIDE DEF n
  <2>2. \A y \in Zeilen, e \in Empfaenger : ~Deckt(pass[i], y, e)
    BY <1>1, <1>3, KeineAssumption DEF Deckt
  <2> QED BY <1>1, <2>1, <2>2, ArbeitStimmt
<1>4. CASE pass[i].erledigt # {}
  <2>1. /\ n \in Pass /\ n.laeuft /\ n.schritt = "stempelt" /\ n.zeile = Keine
        /\ n.rest = pass[i].rest /\ n.alle = pass[i].alle
        /\ n.zeilen = {} /\ n.erledigt = pass[i].erledigt
    BY <1>1, <1>2, <1>4 DEF Pass
  <2> HIDE DEF n
  <2>2. Geordnet(lage, n) /\ InArbeit(n) \subseteq InArbeit(pass[i])
    BY <1>1, <1>2, <2>1 DEF Geordnet, InArbeit
  <2>3. \A y \in Zeilen, e \in Empfaenger : Deckt(pass[i], y, e) => Deckt(n, y, e)
    BY <1>1, <2>1 DEF Deckt
  <2> QED BY <1>1, <2>1, <2>2, <2>3, ArbeitStimmt
<1> QED BY <1>3, <1>4

\* A stamp takes rows its pass holds, and every one of them no pass lost hold of.
LEMMA StempelNimmt ==
  ASSUME IInv, HInv, ~Keyed, NEW i \in Instanzen, Gestempelt(i)
  PROVE  /\ \A z \in Zeilen : Hinaus(zeile, z) => Hinaus(zeile', z)
         /\ \A z \in pass[i].erledigt \ unterbrochen : Hinaus(zeile', z)
         /\ \A z \in Zeilen \ unterbrochen, j \in Instanzen \ {i} :
              z \in InArbeit(pass[j]) => Gehoert(zeile', z, j)
<1>1. zeile \in [Zeilen -> Zeile] /\ pass[i].erledigt \subseteq Zeilen
  BY Anfangs DEF Pass
<1>2. ASSUME NEW z \in Zeilen, z \in pass[i].erledigt, zeile[z].stand = "da", zeile[z].bei = i
      PROVE  Hinaus(zeile', z)
  <2>1. zeile'[z] = [zeile[z] EXCEPT !.stand = IF z \in pass[i].aufgegeben THEN "aufgegeben" ELSE "gestempelt",
                                     !.bei = Keine, !.frist = 0]
    BY <1>2 DEF Gestempelt
  <2> QED BY <1>1, <2>1 DEF Hinaus, Zeile
<1>3. \A z \in Zeilen : zeile[z].stand # "da" \/ zeile[z].bei # i => zeile'[z] = zeile[z]
  BY DEF Gestempelt
<1>4. ASSUME NEW z \in Zeilen \ unterbrochen, NEW j \in Instanzen, z \in InArbeit(pass[j])
      PROVE  Gehoert(zeile, z, j)
  BY <1>4 DEF HInv, GehaltenesGehoert
<1>5. \A z \in pass[i].erledigt \ unterbrochen : Gehoert(zeile, z, i)
  BY <1>1, <1>4 DEF InArbeit
<1>6. ASSUME NEW z \in Zeilen \ unterbrochen, NEW j \in Instanzen \ {i}, z \in InArbeit(pass[j])
      PROVE  Gehoert(zeile', z, j)
  <2>1. Gehoert(zeile, z, j)
    BY <1>4, <1>6
  <2> QED BY <1>3, <2>1 DEF Gehoert
<1> QED BY <1>1, <1>2, <1>3, <1>5, <1>6 DEF Gehoert, Hinaus

LEMMA StempelEinmal ==
  ASSUME IInv, HInv, NEW i \in Instanzen, Stamp(i) \/ StampLost(i)
  PROVE  HInv'
<1>1. PICK n : /\ n \in {[Ruhe EXCEPT !.laeuft = TRUE, !.schritt = "beansprucht", !.nochmal = pass[i].nochmal],
                         RundeZuEnde(pass[i])}
               /\ Setze(i, n)
  BY DEF Stamp, StampLost
<1>2. pass[i] \in Pass /\ pass[i].nochmal \in BOOLEAN /\ (pass[i].laeuft \/ pass[i] = Ruhe) /\ Geordnet(lage, pass[i])
  BY Anfangs DEF Pass, HInv, PaesseGeordnet
<1>3. n \in Pass /\ (n.laeuft \/ n = Ruhe) /\ Geordnet(lage, n) /\ InArbeit(n) = {}
  BY <1>1, <1>2, Anfangs, RundenTyp, GeordneteRunden
<1>4. /\ lage' = lage /\ post' = post /\ Keyed' = Keyed /\ pass[i].schritt = "stempelt"
      /\ unterbrochen \subseteq unterbrochen'
      /\ Gestempelt(i) \/ (zeile' = zeile /\ (~Keyed => pass[i].erledigt \subseteq unterbrochen'))
  BY DEF Stamp, StampLost, Unterbricht, Keyed
<1>5. /\ \A z \in Zeilen : Hinaus(zeile, z) => Hinaus(zeile', z)
  <2>1. CASE Gestempelt(i)
    <3>1. zeile \in [Zeilen -> Zeile]
      BY Anfangs
    <3> QED BY <2>1, <3>1 DEF Gestempelt, Hinaus, Zeile
  <2> QED BY <1>4, <2>1
<1>6. ~Keyed => \A z \in Zeilen \ unterbrochen', j \in Instanzen \ {i} :
                  z \in InArbeit(pass[j]) => Gehoert(zeile', z, j)
  BY <1>4, StempelNimmt DEF HInv, GehaltenesGehoert
<1>7. GehaltenesGehoert'
  <2>1. pass'[i] = n /\ \A j \in Instanzen : j # i => pass'[j] = pass[j]
    BY <1>1, <1>3, Anfangs, SetzeStimmt
  <2> QED BY <1>3, <1>4, <1>6, <2>1 DEF GehaltenesGehoert
<1>8. ~Keyed => \A z \in Zeilen \ unterbrochen', e \in Empfaenger : Deckt(pass[i], z, e) => Hinaus(zeile', z)
  <2>1. \A z \in Zeilen, e \in Empfaenger : Deckt(pass[i], z, e) => z \in pass[i].erledigt
    BY <1>2, <1>4, KeineAssumption DEF Geordnet, Deckt
  <2> QED BY <1>4, <2>1, StempelNimmt
<1> QED BY <1>1, <1>3, <1>4, <1>5, <1>7, <1>8, Anfangs, StilleStimmt

\* A pass at a notice's mailbox has told nobody of the row yet.
LEMMA NochNichtErzaehlt ==
  ASSUME IInv, HInv, ~Keyed, NEW i \in Instanzen, NEW e \in pass[i].rest,
         pass[i].zeile \in Zeilen \ unterbrochen, NEW d \in Empfaenger
  PROVE  ~Erzaehlt(post, pass[i].zeile, d)
<1> DEFINE z == pass[i].zeile
<1>1. pass[i] \in Pass /\ Geordnet(lage, pass[i])
  BY Anfangs DEF HInv, PaesseGeordnet
<1>2. PICK m \in Empfaenger : lage.empfaenger = {m}
  BY LagenAssumption, Anfangs DEF TypeOK, Keyed, Lage
<1>3. e = m /\ e \in Empfaenger
  BY <1>1, <1>2 DEF Geordnet
<1>4. z \in InArbeit(pass[i]) /\ z # Keine
  BY KeineAssumption DEF InArbeit
<1>5. Gehoert(zeile, z, i)
  BY <1>4 DEF HInv, GehaltenesGehoert
<1> SUFFICES ASSUME Erzaehlt(post, z, d) PROVE FALSE
  OBVIOUS
<1>6. d = e /\ (Hinaus(zeile, z) \/ \E j \in Instanzen : Deckt(pass[j], z, d))
  BY <1>2, <1>3 DEF HInv, ErzaehltesIstGedeckt
<1>7. ~Hinaus(zeile, z)
  BY <1>5 DEF Gehoert, Hinaus
<1>8. PICK j \in Instanzen : Deckt(pass[j], z, d)
  BY <1>6, <1>7
<1>9. z \in InArbeit(pass[j])
  BY <1>4, <1>8 DEF Deckt, InArbeit
<1>10. j = i
  BY <1>5, <1>9 DEF HInv, GehaltenesGehoert, Gehoert
<1> QED BY <1>1, <1>6, <1>8, <1>10 DEF Deckt, Geordnet

LEMMA deliverEinmal ==
  ASSUME IInv, HInv, NEW i \in Instanzen, NEW e \in Empfaenger, NEW ausgang \in Ausgaenge,
         deliver(i, e, ausgang)
  PROVE  HInv'
<1> DEFINE p == pass[i]
           z == p.zeile
           key == <<p.zeile, e, p.fassung[p.zeile]>>
           ausfall == versandAusfallOf(p.brokeOff, ausgang)
           ging == p.ging \/ post'[key] > post[key]
           fertig == [p EXCEPT !.rest = @ \ {e}, !.an = Keine, !.versuch = 0,
                               !.brokeOff = FALSE, !.ging = FALSE]
           gesendet == [fertig EXCEPT !.erreicht = @ \cup {e}]
           nochmal == [p EXCEPT !.an = e, !.versuch = @ + 1, !.ging = ging,
                         !.brokeOff = @ \/ ausgang \in {"abgebrochen", "verschluckt"}]
           verfehlt == [fertig EXCEPT !.alle = @ /\ ~Behalten(ausfall)]
<1>1. /\ p.schritt = "verschickt" /\ z # Keine /\ e \in p.rest
      /\ Nimmt(key, ausgang) /\ lage' = lage /\ zeile' = zeile /\ unterbrochen' = unterbrochen
      /\ konto' = konto
  BY DEF deliver, Verschickt
<1>2. /\ p \in Pass /\ p.laeuft /\ PassWahr(lage, post, Gefolgt, p) /\ Geordnet(lage, p)
  BY <1>1, Anfangs DEF HInv, PaesseGeordnet
<1>3. z \in Zeilen /\ key \in Nachrichten /\ Keyed' = Keyed
  BY <1>1, <1>2 DEF Pass, Nachrichten, Keyed
<1>4. ~Keyed => z \in Gefolgt
  BY <1>1, <1>2 DEF PassWahr, Keyed
<1>5. /\ post' \in [Nachrichten -> 0..2] /\ post \in [Nachrichten -> 0..2]
      /\ post'[key] > post[key] => ausgang \in {"angenommen", "verschluckt"}
      /\ \A m \in Nachrichten : m # key => post'[m] = post[m]
      /\ post'[key] \in {post[key], post[key] + 1}
  <2>1. /\ post' \in [Nachrichten -> 0..2]
        /\ post'[key] > post[key] => ausgang \in {"angenommen", "verschluckt"}
    BY <1>1, <1>3, <1>4, NimmtStimmt
  <2>2. post \in [Nachrichten -> 0..2]
    BY DEF IInv, TypeOK, Nachrichten
  <2> QED BY <1>1, <1>3, <2>1, <2>2 DEF Nimmt
<1>6. PICK n \in Pass :
        /\ n.laeuft /\ Setze(i, n)
        /\ n.schritt = p.schritt /\ n.zeilen = p.zeilen /\ n.erledigt = p.erledigt /\ n.zeile = z
        /\ \/ /\ n.rest = p.rest \ {e}
              /\ n.alle = p.alle \/ (n.alle = FALSE /\ Behalten(ausfall) /\ ausgang # "angenommen")
           \/ n.rest = p.rest /\ n.alle = p.alle /\ ausgang # "angenommen" /\ repeatable(ausgang)
  <2>1. fertig \in Pass /\ fertig.laeuft
    <3>1. 0 \in 0..MAIL_ATTEMPTS /\ p.rest \ {e} \in SUBSET Empfaenger
      BY <1>2, ZahlenAssumption DEF Pass
    <3> HIDE DEF p
    <3> QED BY <1>2, <3>1 DEF Pass
  <2>2. /\ fertig.schritt = p.schritt /\ fertig.zeilen = p.zeilen /\ fertig.erledigt = p.erledigt
        /\ fertig.zeile = z /\ fertig.rest = p.rest \ {e} /\ fertig.alle = p.alle
    <3> HIDE DEF p
    <3> QED BY <1>2 DEF Pass
  <2> HIDE DEF fertig, p
  <2>3. CASE Setze(i, gesendet)
    BY <2>1, <2>2, <2>3 DEF Pass
  <2>4. CASE Setze(i, nochmal) /\ ausgang # "angenommen" /\ repeatable(ausgang) /\ p.versuch + 1 < MAIL_ATTEMPTS
    <3>1. p.versuch + 1 \in 0..MAIL_ATTEMPTS
      BY <1>2, <2>4, ZahlenAssumption DEF Pass
    <3>2. ging \in BOOLEAN /\ (p.brokeOff \/ ausgang \in {"abgebrochen", "verschluckt"}) \in BOOLEAN
      BY <1>2 DEF Pass
    <3> HIDE DEF ging
    <3>3. /\ nochmal \in Pass /\ nochmal.laeuft /\ nochmal.schritt = p.schritt
          /\ nochmal.zeilen = p.zeilen /\ nochmal.erledigt = p.erledigt
          /\ nochmal.zeile = z /\ nochmal.rest = p.rest /\ nochmal.alle = p.alle
      BY <1>2, <3>1, <3>2 DEF Pass
    <3> HIDE DEF nochmal
    <3> QED BY <2>4, <3>3
  <2>5. CASE Setze(i, verfehlt) /\ ausgang # "angenommen"
    <3>1. (fertig.alle /\ ~Behalten(ausfall)) \in BOOLEAN
      BY <2>1 DEF Pass
    <3>2. verfehlt \in Pass /\ verfehlt.laeuft /\ verfehlt.schritt = p.schritt
          /\ verfehlt.zeilen = p.zeilen /\ verfehlt.erledigt = p.erledigt
          /\ verfehlt.zeile = z /\ verfehlt.rest = p.rest \ {e}
          /\ verfehlt.alle = (p.alle /\ ~Behalten(ausfall))
      BY <2>1, <2>2, <3>1 DEF Pass
    <3> HIDE DEF verfehlt, ausfall
    <3>3. verfehlt.alle = p.alle \/ (verfehlt.alle = FALSE /\ Behalten(ausfall))
      BY <1>2, <3>2 DEF Pass
    <3> QED BY <2>5, <3>2, <3>3
  <2> QED BY <2>3, <2>4, <2>5 DEF deliver, fertig, p
<1> HIDE DEF fertig, gesendet, nochmal, verfehlt, ging
<1>7. pass'[i] = n /\ \A j \in Instanzen : j # i => pass'[j] = pass[j]
  BY <1>6, Anfangs, SetzeStimmt
<1>8. Geordnet(lage, n) /\ InArbeit(n) = InArbeit(p)
  <2>1. lage.art # "berechtigung" => \E m \in Empfaenger : lage.empfaenger = {m}
    BY LagenAssumption, Anfangs DEF TypeOK, Lage
  <2>2. lage.art # "berechtigung" /\ n.rest = p.rest \ {e} => n.rest = {}
    BY <1>1, <1>2, <2>1 DEF Geordnet
  <2> HIDE DEF p
  <2> QED BY <1>1, <1>2, <1>6, <2>2 DEF Geordnet, InArbeit
<1>9. PaesseGeordnet' /\ GehaltenesGehoert'
  BY <1>1, <1>3, <1>7, <1>8 DEF HInv, PaesseGeordnet, GehaltenesGehoert
\* The row's own mail: none before this attempt; what a failed one took is nothing.
<1>10. ASSUME ~Keyed, z \notin unterbrochen
       PROVE  /\ \A d \in Empfaenger, f \in Fassungen : post[<<z, d, f>>] = 0 /\ post'[<<z, d, f>>] <= 1
              /\ \A d \in Empfaenger : Erzaehlt(post', z, d) => d \in lage.empfaenger /\ Deckt(n, z, d)
  <2>1. \A d \in Empfaenger : ~Erzaehlt(post, z, d)
    BY <1>1, <1>3, <1>10, NochNichtErzaehlt
  <2>2. \A d \in Empfaenger, f \in Fassungen : <<z, d, f>> \in Nachrichten /\ post[<<z, d, f>>] = 0
    <3> TAKE d \in Empfaenger, f \in Fassungen
    <3>1. <<z, d, f>> \in Nachrichten
      BY <1>3 DEF Nachrichten
    <3>2. post[<<z, d, f>>] \in 0..2 /\ ~(post[<<z, d, f>>] > 0)
      BY <1>5, <2>1, <3>1 DEF Erzaehlt
    <3> QED BY <3>1, <3>2
  <2>3. \A d \in Empfaenger, f \in Fassungen : post'[<<z, d, f>>] <= 1
    <3> TAKE d \in Empfaenger, f \in Fassungen
    <3>1. <<z, d, f>> \in Nachrichten /\ post[<<z, d, f>>] = 0
      BY <2>2
    <3> HIDE DEF key
    <3>2. CASE <<z, d, f>> = key
      BY <1>5, <3>1, <3>2
    <3>3. CASE <<z, d, f>> # key
      BY <1>5, <3>1, <3>3
    <3> QED BY <3>2, <3>3
  <2>4. ASSUME NEW d \in Empfaenger, Erzaehlt(post', z, d)
        PROVE  d \in lage.empfaenger /\ Deckt(n, z, d)
    <3>1. PICK f \in Fassungen : post'[<<z, d, f>>] > 0
      BY <2>4 DEF Erzaehlt
    <3>2. <<z, d, f>> = key
      BY <1>5, <2>2, <3>1
    <3>3. d = e /\ post'[key] > post[key]
      BY <2>2, <3>1, <3>2
    <3>4. ausgang \in {"angenommen", "verschluckt"}
      BY <1>5, <3>3
    <3>5. p.alle
      BY <1>1, <1>2, <1>10 DEF Geordnet, Keyed
    <3>6. ausfall = "ungewiss" \/ ausgang = "angenommen"
      BY <3>4 DEF versandAusfallOf
    <3>7. n.rest = p.rest \ {e} /\ n.alle
      BY <1>6, <1>10, <3>4, <3>5, <3>6 DEF Behalten, repeatable
    <3>8. e \in lage.empfaenger
      BY <1>1, <1>2 DEF Geordnet
    <3> QED BY <1>6, <3>3, <3>7, <3>8 DEF Deckt
  <2> QED BY <2>2, <2>3, <2>4
\* Every other row's mail is what it was.
<1>11. ASSUME NEW y \in Zeilen, y # z
       PROVE  /\ \A d \in Empfaenger, f \in Fassungen : post'[<<y, d, f>>] = post[<<y, d, f>>]
              /\ \A d \in Empfaenger : Deckt(p, y, d) => Deckt(n, y, d)
  BY <1>3, <1>5, <1>6, <1>11 DEF Nachrichten, Deckt
<1>12. ErzaehltesIstGedeckt'
  <2> SUFFICES ASSUME ~Keyed, NEW y \in Zeilen \ unterbrochen, NEW d \in Empfaenger, Erzaehlt(post', y, d)
               PROVE  /\ d \in lage.empfaenger
                      /\ Hinaus(zeile, y) \/ \E j \in Instanzen : Deckt(pass'[j], y, d)
    BY <1>1, <1>3 DEF ErzaehltesIstGedeckt
  <2>1. CASE y = z
    BY <1>7, <1>10, <2>1
  <2>2. CASE y # z
    <3>1. Erzaehlt(post, y, d)
      BY <1>11, <2>2 DEF Erzaehlt
    <3>2. d \in lage.empfaenger /\ (Hinaus(zeile, y) \/ \E j \in Instanzen : Deckt(pass[j], y, d))
      BY <3>1 DEF HInv, ErzaehltesIstGedeckt
    <3>3. ASSUME NEW j \in Instanzen, Deckt(pass[j], y, d) PROVE Deckt(pass'[j], y, d)
      <4>1. CASE j = i
        BY <1>7, <1>11, <2>2, <3>3, <4>1
      <4>2. CASE j # i
        BY <1>7, <3>3, <4>2
      <4> QED BY <4>1, <4>2
    <3> QED BY <3>2, <3>3
  <2> QED BY <2>1, <2>2
<1>13. JedesEinmal'
  <2> SUFFICES ASSUME ~Keyed, NEW y \in Zeilen \ unterbrochen, NEW d \in Empfaenger, NEW f \in Fassungen
               PROVE  post'[<<y, d, f>>] <= 1
    BY <1>1, <1>3 DEF JedesEinmal
  <2>1. CASE y = z
    BY <1>10, <2>1
  <2>2. CASE y # z
    BY <1>11, <2>2 DEF HInv, JedesEinmal
  <2> QED BY <2>1, <2>2
<1> QED BY <1>9, <1>12, <1>13 DEF HInv

LEMMA EinmalSchritt == IInv /\ HInv /\ [Next]_vars => HInv'
<1> SUFFICES ASSUME IInv, HInv, [Next]_vars PROVE HInv'
  OBVIOUS
<1>1. CASE UNCHANGED vars
  BY <1>1 DEF vars, HInv, PaesseGeordnet, GehaltenesGehoert, ErzaehltesIstGedeckt, JedesEinmal, Keyed
<1>2. CASE \E z \in Zeilen : Aendert(z) \/ Umgeschrieben(z) \/ KontoEroeffnet(z)
  BY <1>2, AendertEinmal, AussenEinmal
<1>3. CASE Tick \/ Neustart
  BY <1>3, TickEinmal, NeustartEinmal
<1>4. ASSUME NEW i \in lage.instanzen, Schritt(i) PROVE HInv'
  <2>1. i \in Instanzen /\ lage.ausgaenge \subseteq Ausgaenge
    BY LageTyp, LagenAssumption DEF IInv, Lage
  <2>2. CASE Claim(i) \/ ClaimLost(i) \/ Stamp(i) \/ StampLost(i)
    BY <2>1, <2>2, ClaimEinmal, ClaimLostEinmal, StempelEinmal
  <2>3. CASE Versenden(i)
    <3>1. CASE \E z \in Zeilen : Aufgeben(i, z) \/ Anfangen(i, z) \/ carryAccount(i, z)
      BY <2>1, <3>1, AufgebenEinmal, AnfangenEinmal, carryAccountEinmal
    <3>2. CASE \E e \in Empfaenger : Entfaellt(i, e) \/ \E ausgang \in lage.ausgaenge : deliver(i, e, ausgang)
      BY <2>1, <3>2, EntfaelltEinmal, deliverEinmal
    <3>3. CASE ZeileFertig(i) \/ AlleZeilenFertig(i)
      BY <2>1, <3>3, ZeileFertigEinmal, AlleZeilenFertigEinmal
    <3> QED BY <2>3, <3>1, <3>2, <3>3 DEF Versenden
  <2> QED BY <1>4, <2>2, <2>3 DEF Schritt
<1> QED BY <1>1, <1>2, <1>3, <1>4 DEF Next

-----------------------------------------------------------------------------
(* The theorems. *)

LEMMA SchrittStimmt == IInv /\ [Next]_vars => IInv'
<1> SUFFICES ASSUME IInv, [Next]_vars PROVE IInv'
  OBVIOUS
<1>1. CASE UNCHANGED vars
  BY <1>1 DEF vars, IInv, TypeOK, PaesseStimmen, GedaechtnisStimmt, ZeilenStimmen, PostStimmt,
              FehlgeschlagenesGingNie, Keyed, Gefolgt
<1>2. CASE \E z \in Zeilen : Aendert(z) \/ Umgeschrieben(z) \/ KontoEroeffnet(z)
  BY <1>2, AendertStimmt, UmgeschriebenStimmt, KontoEroeffnetStimmt
<1>3. CASE Tick \/ Neustart
  BY <1>3, TickStimmt, NeustartStimmt
<1>4. ASSUME NEW i \in lage.instanzen, Schritt(i) PROVE IInv'
  <2>1. i \in Instanzen /\ lage.ausgaenge \subseteq Ausgaenge
    BY LageTyp, LagenAssumption DEF IInv, Lage
  <2>2. CASE Claim(i) \/ ClaimLost(i) \/ Stamp(i) \/ StampLost(i)
    BY <2>1, <2>2, ClaimStimmt, ClaimLostStimmt, StampStimmt, StampLostStimmt
  <2>3. CASE Versenden(i)
    <3>1. CASE \E z \in Zeilen : Aufgeben(i, z) \/ Anfangen(i, z) \/ carryAccount(i, z)
      BY <2>1, <3>1, AufgebenStimmt, AnfangenStimmt, carryAccountStimmt
    <3>2. CASE \E e \in Empfaenger : Entfaellt(i, e) \/ \E ausgang \in lage.ausgaenge : deliver(i, e, ausgang)
      BY <2>1, <3>2, EntfaelltStimmt, deliverStimmt
    <3>3. CASE ZeileFertig(i) \/ AlleZeilenFertig(i)
      BY <2>1, <3>3, ZeileFertigStimmt, AlleZeilenFertigStimmt
    <3> QED BY <2>3, <3>1, <3>2, <3>3 DEF Versenden
  <2> QED BY <1>4, <2>2, <2>3 DEF Schritt
<1> QED BY <1>1, <1>2, <1>3, <1>4 DEF Next

LEMMA Invariante == Spec => []IInv
BY AmAnfang, SchrittStimmt, PTL DEF Spec

\* Rows, passes, memories and mailboxes keep their shapes, and a pass that ends leaves
\* nothing behind it but who was told (abgleich.ts, postausgang.ts).
THEOREM Typkorrekt == Spec => []TypeOK
BY Invariante, PTL DEF IInv

\* For any rows, mailboxes, module copies and losses, a change to the grants leaves the
\* outbox told to every mailbox a send reaches, or given up at its cap, and no notice goes
\* of an address change whose account has not followed it (abgleich.ts, postausgang.ts).
THEOREM GestempeltErzaehlt == Spec => []GestempeltHeisstErzaehlt
<1>1. IInv => GestempeltHeisstErzaehlt
  <2>1. 1 \in Fassungen
    BY DEF Fassungen
  <2> QED BY <2>1 DEF IInv, ZeilenStimmen, PostStimmt, Fertig, Erzaehlt, Keyed, Gefolgt, GestempeltHeisstErzaehlt
<1> QED BY <1>1, Invariante, PTL

\* For any number of copies draining at once and any attempts the provider leaves unanswered,
\* an address change's end is told once, unless a lease lapsed under a pass, a stamp was lost
\* or a restart came between (postausgang.ts, versandAusfall.ts).
THEOREM EinmalErzaehlt == Spec => []EinHinweisJeEnde
<1>1. HInv => EinHinweisJeEnde
  <2>1. 1 \in Fassungen
    BY DEF Fassungen
  <2> QED BY <2>1 DEF HInv, JedesEinmal, EinHinweisJeEnde
<1>2. Init => IInv /\ HInv
  BY AmAnfang, HAmAnfang
<1>3. (IInv /\ HInv) /\ [Next]_vars => (IInv /\ HInv)'
  BY SchrittStimmt, EinmalSchritt
<1> QED BY <1>1, <1>2, <1>3, PTL DEF Spec

\* For any number of attempts, a send called failed put nothing in the mailbox (mail.ts,
\* versandAusfall.ts).
THEOREM FehlgeschlagenGingNie == Spec => []FehlgeschlagenesGingNie
BY Invariante, PTL DEF IInv

==============================================================================
