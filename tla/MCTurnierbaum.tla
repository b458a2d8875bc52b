----------------------------- MODULE MCTurnierbaum -----------------------------
EXTENDS Turnierbaum, TLC

CONSTANTS t1, t2, t3, t4, t5

Platz(g, p) == [art |-> "gruppe", gruppe |-> g, platz |-> p]
Sieger(nr) == [art |-> "spiel", nr |-> nr, ausgang |-> "sieger"]

\* A group of three and one of two, whose first two play two semi-finals and a final, as
\* bracket_seeding places them.
ZweiGruppen == [A |-> {t1, t2, t3}, B |-> {t4, t5}]
VierRunde == (1 :> 1) @@ (2 :> 1) @@ (3 :> 2)
VierVerdrahtung ==
  (1 :> <<Platz("A", 1), Platz("B", 2)>>)
    @@ (2 :> <<Platz("B", 1), Platz("A", 2)>>)
    @@ (3 :> <<Sieger(1), Sieger(2)>>)

\* One group of three, whose first two play the final.
DreierGruppe == [A |-> {t1, t2, t3}]
EndspielRunde == (1 :> 1)
EndspielVerdrahtung == (1 :> <<Platz("A", 1), Platz("A", 2)>>)

\* The season without t3: its fixtures are off, and two groups of two are left.
Spielgruppe == {{t1, t2}, {t1, t3}, {t2, t3}}
Ohne_t3 == [zugleich |-> FALSE, paarungen |-> {{t1, t2}, {t4, t5}}, abgesagt |-> {{t1, t3}, {t2, t3}},
            ereignisse |-> {"remis"}, handgriffe |-> {}, ruecknahme |-> FALSE]

\* One request at a time: wins, with the sides and sources of one semi-final edited by
\* hand; or results and call-offs, with every save undone again.
VonHand == [Ohne_t3 EXCEPT !.ereignisse = {}, !.handgriffe = {2}]
Zurueck == [Ohne_t3 EXCEPT !.ereignisse = {"abgesagt"}, !.ruecknahme = TRUE]

\* Both, where one of the groups is still open.
HandZurueck == [VonHand EXCEPT !.paarungen = {{t1, t2}}, !.ruecknahme = TRUE]

\* Requests at once: results and draws.
Rennen == [Ohne_t3 EXCEPT !.zugleich = TRUE]

\* One request at a time: results of every kind in the group of three.
Dreier == [Ohne_t3 EXCEPT !.paarungen = Spielgruppe, !.abgesagt = {},
                          !.ereignisse = {"remis", "abgesagt"}]

Alle == {VonHand, Zurueck, HandZurueck, Rennen, Dreier}

\* Requests at once: wins alone, in the group of three.
NurSiege == {[Ohne_t3 EXCEPT !.zugleich = TRUE, !.paarungen = Spielgruppe, !.abgesagt = {}, !.ereignisse = {}]}

SymmetrieVier == Permutations(Akteure) \cup Permutations({t1, t2}) \cup Permutations({t4, t5})
SymmetrieDrei == Permutations(Akteure) \cup Permutations({t1, t2, t3})
=============================================================================
