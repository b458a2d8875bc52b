SPECIFICATION Spec
CONSTANTS
  z1 = z1
  z2 = z2
  e1 = e1
  e2 = e2
  boot = boot
  aktionen = aktionen
  Keine = Keine
  Zeilen = {z1, z2}
  Empfaenger = {e1, e2}
  Instanzen = {boot, aktionen}
  Boot = boot
  Lagen <- MCLagen
  BEANSPRUCHUNG_DAUER = 2
  VERSUCHE_HOECHSTENS = 2
  MAIL_ATTEMPTS = 2
INVARIANTS
  TypeOK
  GestempeltHeisstErzaehlt
  EinHinweisJeEnde
  FehlgeschlagenesGingNie
PROPERTIES
  JedeZeileGehtHinaus
CHECK_DEADLOCK FALSE
