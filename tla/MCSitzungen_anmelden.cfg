SPECIFICATION Spec
CONSTANTS
  Anmeldungen = {a0, a1, a2}
  Angemeldet = a0
  p1 = p1
  p2 = p2
  Passkeys = {p1, p2}
  Loeschungen = {e1, e2}
  Abrufe = {r1, r2}
  Keine = keine
  MaxUhr = 4
  ENROLMENT_WINDOW = 1
  STEP_UP_WINDOW = 2
  UPDATE_AGE = 1
  ADMIN_IDLE = 2
  ADMIN_ABSOLUTE = 3
  PERSON_IDLE = 3
  PERSON_ABSOLUTE = 3
  Lagen <- AlleLagen
SYMMETRY Symmetrie
INVARIANTS
  TypeOK
  BeendetesDientNie
  NurDasLetzteGeschwisterSteht
  LandungKreistNicht
  NurBenutztesBleibtOffen
PROPERTIES
  LetzterPasskeyBleibt

CHECK_DEADLOCK FALSE
