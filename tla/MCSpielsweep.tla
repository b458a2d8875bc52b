----------------------------- MODULE MCSpielsweep -----------------------------
EXTENDS Spielsweep

CONSTANTS a, b, p1, p2

\* Two slots on consecutive days.
MCTag == [s \in {a, b} |-> IF s = a THEN 2 ELSE 3]

\* Every send going out: two changes and an answer; a change, a ban and a mailbox barred
\* before, either of them to be lifted. A failing provider: a change and a failure, and two
\* changes with one mailbox barred. A stack that mails nothing, and production without its key.
MCVorraete ==
  { [eingriffe |-> 2, sperren |-> 0, antworten |-> 1, stoerungen |-> 0, versand |-> "geht", gesperrt |-> {}],
    [eingriffe |-> 1, sperren |-> 1, antworten |-> 0, stoerungen |-> 0, versand |-> "geht", gesperrt |-> {p2}],
    [eingriffe |-> 1, sperren |-> 0, antworten |-> 0, stoerungen |-> 1, versand |-> "stockt", gesperrt |-> {}],
    [eingriffe |-> 2, sperren |-> 0, antworten |-> 0, stoerungen |-> 0, versand |-> "stockt", gesperrt |-> {p2}],
    [eingriffe |-> 1, sperren |-> 0, antworten |-> 0, stoerungen |-> 1, versand |-> "ohne_versand", gesperrt |-> {}],
    [eingriffe |-> 1, sperren |-> 0, antworten |-> 0, stoerungen |-> 0, versand |-> "ohne_schluessel", gesperrt |-> {}] }

\* One change, nothing barred and no step failing: only a send can.
MCVersandStockt ==
  { [eingriffe |-> 1, sperren |-> 0, antworten |-> 0, stoerungen |-> 0, versand |-> "stockt", gesperrt |-> {}] }
==============================================================================
