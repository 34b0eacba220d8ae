\* Any number of lines of twenty-three kinds, every outcome of a call, tools registered
\* meanwhile, stop() and end of input at any time.
SPECIFICATION Spec
CONSTANTS
  Parse <- parse
  Serialize <- serialize
  BuildSchema <- buildSchema
  BuildToolSchema <- buildToolSchema
  JsonStringToMessage <- ProtobufReads
  Methods <- MCMethods
  Descriptors <- MCDescriptors
  Fields <- MCFields
  NoMessage = "none"
  Lines <- MCLines
  Outcomes <- MCOutcomes
INVARIANTS RepliesReadBack AnsweredInOrder OneHandshake CallUsesOneTool StopTakesOneLine AdvertisedIsCallable
PROPERTIES RunReturns
CHECK_DEADLOCK FALSE
