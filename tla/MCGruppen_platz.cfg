SPECIFICATION Spec
CONSTANTS
  Akteure = {a1, a2}
  Teams = {t1, t2, t3, t4}
  Regelwerke <- Beide
  Betriebe <- Einmischung
SYMMETRY Symmetrie
INVARIANTS
  TypeOK
  PlaetzeStimmen
  GruppenSindRunden
PROPERTIES
  UmbesetztWirdNurOffenes
