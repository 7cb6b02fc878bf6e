\* A behaviour is one call, which ends.
SPECIFICATION ToolsSpec
CONSTANTS
  web = web
  webService = webService
  WEBService = WEBService
  db = db
  three = three
  many = many
  kWeb = kWeb
  kWebService = kWebService
  kDb = kDb
  kThree = kThree
  kMany = kMany
  c1 = c1
  c2 = c2
  None = None
  Names <- MCNames
  Keys <- MCKeys
  Key <- MCKey
  Base <- MCBase
  Commands = {c1, c2}
  Configs <- MCConfigs
  Lines = {}
  DefaultLines = 2
  MaximumLines = 4
  Number <- MCNumber
  MaxInt = 10
  Arguments <- MCArguments
  Texts <- MCTexts
INVARIANTS OnlyConfigured StatusOfActedService InvitedIsServed OnlyOfferedRuns LinesAsAsked
CHECK_DEADLOCK FALSE
