SPECIFICATION Spec
CONSTANTS
  Zeilen = {1, 2, 3, 4}
  Spaete = {4}
  Seite = 2
  Anteil = 2
  MaxStoerungen = 1
INVARIANTS
  TypeOK
  NurDasFehlerhafteBleibtLiegen
  SchuldIstBeglichen
PROPERTIES
  LaufEndet
CHECK_DEADLOCK FALSE
