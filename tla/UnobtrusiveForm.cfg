SPECIFICATION Spec
CONSTANTS
  None = None
  user = user
  team = team
  Field <- MCField
  Remote <- MCField
  Data <- MCData
  Replace <- MCReplace
  Value <- MCValue
  Blank <- MCBlank
  Rejected <- MCRejected
  Accepts <- MCAccepts
  Default <- MCDefault
  MaxEdits = 4
  MaxLost = 1
INVARIANTS
  TypeOK
  SubmittedConfirmed
  RequestsCounted
  VerdictExact
  ErrorsStayLive
PROPERTIES
  ChecksShow
  SubmitSettles
CHECK_DEADLOCK FALSE
