SPECIFICATION Spec
CONSTANTS
  Akteure = {a1, a2}
  t1 = t1
  t2 = t2
  t3 = t3
  t4 = t4
  t5 = t5
  Gruppen <- ZweiGruppen
  Runde <- VierRunde
  Verdrahtung <- VierVerdrahtung
  Leer = leer
  Ohne = ohne
  tiebreak_order = "direkter_vergleich"
  Betriebe <- Alle
SYMMETRY SymmetrieVier
INVARIANTS
  TypeOK
  BaumIstAufgeloest
  ErgebnisGehoertDenSeiten
  JederStehtEinmal
  RuecknahmeStelltHer
PROPERTIES
  EingesetztesStehtFest
