\* Every page is requested, at any time; names with every kind of character.
SPECIFICATION PagesSpec
CONSTANTS
  Route = {"ap.json", "status.json", "register.json", "connect.json"}
  Nobody = nobody
  Name <- MCName
  MaxList = 1
INVARIANTS
  NobodySeesPartial
  PageReadable
PROPERTIES
  MutexObtained
