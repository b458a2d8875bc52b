SPECIFICATION Spec
CONSTANTS
  Ruempfe <- MCRuempfe
  REQUEST_DEADLINE = 12
  BASE_FETCH_TIMEOUT = 6
  WRITE_NEEDS = 5
  BACKEND_REQUEST_DEADLINE = 4
  MaxSchritte = 3
  MaxUhr = 16
INVARIANTS
  TypeOK
  AnsageStimmt
  KeinAlterCache
  ZweifelHatSeinenGrund
CHECK_DEADLOCK FALSE
