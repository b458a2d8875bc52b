------------------------------ MODULE MCGruppen ------------------------------
EXTENDS Gruppen, TLC

Symmetrie == Permutations(Akteure) \cup Permutations(Teams)

\* One or two groups of two: the smallest shapes the schema admits.
EineGruppe == [gruppen |-> 1, plaetze |-> 2]
ZweiGruppen == [gruppen |-> 2, plaetze |-> 2]

NurZwei == {ZweiGruppen}
Beide == {EineGruppe, ZweiGruppen}

Alle == {"eintritt", "wechsel", "austritt", "tausch", "ersatz", "ruhestand",
         "rueckkehr", "regeln", "ziehen", "loeschen", "spiel", "status"}

\* Requests one after the other: what moves a fixture, a row or a club.
DerReiheNach == [vorgaenge |-> Alle \ {"austritt"}, zugleich |-> FALSE]

\* Requests at once: a planned season, whose plan is drawn and not undrawn.
Zugleich == [vorgaenge |-> Alle \ {"rueckkehr", "loeschen", "status"}, zugleich |-> TRUE]

\* Requests at once, of every kind.
AllesZugleich == [vorgaenge |-> Alle, zugleich |-> TRUE]

Einmischung == {DerReiheNach, Zugleich}
Ueberlappung == {AllesZugleich}
=============================================================================
