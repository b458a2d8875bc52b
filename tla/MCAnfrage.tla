------------------------------ MODULE MCAnfrage ------------------------------
(* The bodies of fl_frontend's presses. A tick is two and a half seconds. *)
EXTENDS Anfrage

Ruft(art, eigen, wenn) == [art |-> art, eigen |-> eigen, wenn |-> wenn]

Save == Ruft("schreiben", FALSE, "wirft")

MCRuempfe ==
  { \* an editor's save whose step-up is judged off the stored row
    <<Ruft("lesen", FALSE, "wirft"), Save>>,
    \* postTeamAction: a club, then its entry into the season
    <<Save, Ruft("schreiben", FALSE, "teil")>>,
    \* undoAdminTeamEditAction and undoAdminSpielerEditAction, both halves
    <<Save, Ruft("schreiben", FALSE, "haelfte")>>,
    \* activateSaisonAction and the deletion calls behind it
    <<Save, Ruft("schreiben", TRUE, "schweigt"), Ruft("schreiben", TRUE, "schweigt")>>,
    \* a mint and its link, whose fan-out marks the request
    <<Save, Ruft("nachricht", FALSE, "schweigt")>>,
    \* a decision, a ban or a leaving contact, and the notice of it
    <<Save, Ruft("nachricht", TRUE, "schweigt")>>,
    \* a public route that reads behind its answered write
    <<Save, Ruft("lesen", TRUE, "schweigt")>> }
==============================================================================
