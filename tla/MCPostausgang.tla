---------------------------- MODULE MCPostausgang ----------------------------
EXTENDS Postausgang

CONSTANTS z1, z2, e1, e2, boot, aktionen

Eine == [art |-> "berechtigung", zeilen |-> {z1}, traegt |-> {}, empfaenger |-> {e1}, unerreichbar |-> {},
         instanzen |-> {Boot}, fassungen |-> 1, neustarts |-> 0, ausgaenge |-> Ausgaenge,
         verlust |-> TRUE]

MCLagen ==
  { \* two copies of the module race for one change
    [Eine EXCEPT !.instanzen = {Boot, aktionen}],
    \* two recipients, one of whom no send reaches, and a body an erasure rewrites
    [Eine EXCEPT !.empfaenger = {e1, e2}, !.unerreichbar = {e2}, !.fassungen = 2, !.neustarts = 1],
    \* two changes
    [Eine EXCEPT !.zeilen = {z1, z2}],
    \* the notice of an address change, unkeyed, in two copies of the module or across a
    \* restart, and one that carries no account
    [Eine EXCEPT !.art = "adresswechsel", !.traegt = {z1}, !.instanzen = {Boot, aktionen}],
    [Eine EXCEPT !.art = "adresswechsel", !.traegt = {z1}, !.neustarts = 1],
    [Eine EXCEPT !.art = "adresswechsel", !.neustarts = 1],
    \* two such notices, the second of which carries no account
    [Eine EXCEPT !.art = "adresswechsel", !.traegt = {z1}, !.zeilen = {z1, z2},
                 !.ausgaenge = {"angenommen", "verschluckt", "endgueltig"}] }

\* One running instance, two recipients, a body an erasure rewrites, a provider that
\* answers every send, and a backend that loses no claim and no stamp.
MCZweimal == {[Eine EXCEPT !.empfaenger = {e1, e2}, !.fassungen = 2,
                           !.ausgaenge = {"angenommen", "endgueltig"}, !.verlust = FALSE]}
==============================================================================
