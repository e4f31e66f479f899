CONSTANTS
  s1 = s1
  s2 = s2
  Nothing = Nothing
  DataBits = 2
  IntBits = 5
  WordBits = 7
  Sources <- MCSources
  Exports <- MCExports
  Used <- MCUsed
  ArgumentsOf <- Arguments
  MayReply <- RepliesOf
  AnswerTo <- Answer
  ValueOfData <- FromData
  ValueOfText <- FromText
  BytesOf <- Encoded
  Args <- MCArgs
  Replies <- MCReplies
  Stored <- MCStored
  Requests <- MCRequests
  Keys = {"k"}
  SettingData <- MCSettingData
  AppValues <- MCAppValues
  Alone <- MCAlone
  MaxCalls = 2
  MaxWrites = 2
  MaxActs = 3

SPECIFICATION Spec

CHECK_DEADLOCK FALSE

INVARIANTS
  CallsInTurn
  SettingsReadBack
  ReplyIsWhatWasSent
  ArgumentsTellApart

PROPERTIES
  EveryCallAnswered
