SPECIFICATION Spec
CONSTANTS
  Akteure = {a1, a2}
  t1 = t1
  t2 = t2
  t3 = t3
  t4 = t4
  t5 = t5
  Gruppen <- DreierGruppe
  Runde <- EndspielRunde
  Verdrahtung <- EndspielVerdrahtung
  Leer = leer
  Ohne = ohne
  tiebreak_order = "tordifferenz"
  Betriebe <- NurSiege
SYMMETRY SymmetrieDrei
INVARIANTS
  BaumIstAufgeloest
