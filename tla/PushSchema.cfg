SPECIFICATION Spec
CONSTANTS
  Components = {"documents"}
  Surfaces = {"push", "response"}
  MaxDepth = 3
  Streams = {"szamla", "szamlabe", "banktranz", "xmlnyugtaarchiv"}
  PushEdits = 1
  Pushed = {"invoice", "transaction", "receipts"}
  Redeliveries = {"overwrite", "timestamped", "both"}
  Fanouts <- MCFanouts
  MaxVersion = 2
  Contents <- MCContents
  Attempts = 3
  MaxFaults = 2
  Ops = {"create", "storno", "delete", "credit", "query_number", "query_external", "probe"}
  ErrorCodes = {"1", "3", "007", "53", "55", "56", "57", "71", "73", "135", "335", "339", "463", "999", "blank"}
  Types = {"SZ", "D", "ES", "VS", "HS", "SS", "SL", "X"}
  OrderNumbers = {"mine", "none"}
  Forms = {"paper", "electronic", "none"}
  MaxForms = 1
  AnswerEdits = 1
INVARIANT StrictMeetsTheSchema
CHECK_DEADLOCK FALSE
