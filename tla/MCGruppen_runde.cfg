SPECIFICATION Spec
CONSTANTS
  Akteure = {a1, a2}
  Teams = {t1, t2, t3, t4}
  Regelwerke <- NurZwei
  Betriebe <- Ueberlappung
SYMMETRY Symmetrie
INVARIANTS
  GegnerStehenInEinerGruppe
