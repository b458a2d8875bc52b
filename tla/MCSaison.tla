------------------------------- MODULE MCSaison -------------------------------
EXTENDS Saison, TLC
Symmetrie == Permutations(Akteure) \cup Permutations(Formen)
=============================================================================
