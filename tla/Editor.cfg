SPECIFICATION Spec
CONSTANTS
  Undefined = Undefined
  NaN = NaN
  Null = Null
  MaxInteger = 2000
  GoodUrls = {"mqtt://b"}
  TooLong = {"long"}
  BrokerUrl = "mqtt://b"
  Ids = {1, 2, 3, 4}
  FirstStored <- Stored
  Page <- Portal
  Sources <- DataSources
  Typed <- Inputs
  JsonTexts <- Bodies
  EditedStructures = {"Baeume"}
  EditedFields = {1}
  MaxPages = 1
  MaxEdits = 2
  MaxRequests = 2
  RetryEdits = 0
INVARIANTS ValidIsAccepted ReopenKeeps JsonSavesTheSame SuggestionsPass PublishesWhereTheSourceListens
CHECK_DEADLOCK FALSE
