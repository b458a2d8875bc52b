----------------------------- MODULE MCSitzungen -----------------------------
EXTENDS Sitzungen, TLC

CONSTANTS p1, p2

Weitere == Anmeldungen \ {Angemeldet}

\* An administrator signed in by one of two passkeys, who removes them; one signed in by a
\* code who enrols the first, by one sign-in, and pages on; a person signed in by a code whom
\* a ban meets; a person whose passkey session is slid and landed, with one sign-in more. The
\* two that page on see one instant more.
AlleLagen ==
  {[seit |-> 2, anmeldungen |-> Weitere, verwaltung |-> TRUE, passkeys |-> {p1, p2},
    passkey |-> p1, vorgaenge |-> {"loeschung"}],
   [seit |-> 2, anmeldungen |-> Weitere, verwaltung |-> FALSE, passkeys |-> {},
    passkey |-> Keine, vorgaenge |-> {"sperre"}]}
  \cup UNION
  {{[seit |-> 1, anmeldungen |-> {a}, verwaltung |-> TRUE, passkeys |-> {},
     passkey |-> Keine, vorgaenge |-> {"gleiten", "einschreibung"}],
    [seit |-> 1, anmeldungen |-> {a}, verwaltung |-> FALSE, passkeys |-> {p1},
     passkey |-> p1, vorgaenge |-> {"gleiten", "loeschung"}]} : a \in Weitere}

Symmetrie ==
  Permutations(Weitere) \cup Permutations(Loeschungen) \cup Permutations(Abrufe)
==============================================================================
