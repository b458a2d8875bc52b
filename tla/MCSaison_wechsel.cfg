SPECIFICATION Spec
CONSTANTS
  Akteure = {a1, a2}
  Saisons = {1, 2}
  Nrn = {1}
  KoNrn = {}
  Formen = {f1, f2}
  OhneForm = ohne
  Personen = {p1}
  SperreDauer = 0
SYMMETRY Symmetrie
INVARIANTS
  TypeOK
  HoechstensEineAktiv
  OffenesUrteilGilt
  DokumenteStimmen
PROPERTIES
  NichtsGehtVerloren
  IstSaisonfolge
