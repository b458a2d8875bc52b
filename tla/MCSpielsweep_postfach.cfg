SPECIFICATION Spec
CONSTANTS
  a = a
  b = b
  p1 = p1
  p2 = p2
  Slots = {a, b}
  Tag <- MCTag
  Anfangs = {b}
  Postfaecher = {p1, p2}
  Zeilen = {1, 2, 3}
  TAGE = 3
  Vorraete <- MCVersandStockt
  ANFRAGE_FENSTER = 2
  FRIST_TAGE = 1
  ERINNERUNG_TAGE = {0}
  MITTEILUNG_VERSUCHE_HOECHSTENS = 2
PROPERTIES
  JedesPostfachIstGewarnt
