\* Crashes and write errors in any save, registration and torn POSTs at any time.
SPECIFICATION Spec
CONSTANTS
  Cred = {a, b, c}
  Empty = empty
  Absent = absent
INVARIANTS
  TypeOK
  ForgottenNotFetched
PROPERTIES
  SettingsSurvive
