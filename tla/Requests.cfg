SPECIFICATION RequestsSpec
CONSTANTS
  Components = {"identity", "line", "create"}
  Words <- MCWords
  RawNamespaces <- MCNamespaces
  RawKeys <- MCKeys
  RawNumbers <- MCNumbers
  RawCorrections <- MCCorrections
  MaxDocs = 2
  MaxCoefficient = 99999
  MaxScale = 4
  MaxInteger = 9999999
  Quantities <- MCQuantities
  Prices <- MCPrices
  Rates <- MCRates
  Drift = 1
  Documents <- MCDocuments
  DefaultSettings <- MCDefaultSettings
INVARIANTS
  RequestsTypeOK IdentitiesAreApart LinesAddUp SentAsIntended
CHECK_DEADLOCK FALSE
