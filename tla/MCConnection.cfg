SPECIFICATION Spec
CHECK_DEADLOCK FALSE
CONSTANTS
    Scripts <- MCScripts
    MessageIds <- MCMessageIds
    Request <- BerRequest
    Seen <- AnswerSeen
    StartTLSOID <- MCStartTLSOID
    WhoAmIOID <- MCWhoAmIOID
    BufSize = 16
    SmallPiece = 2
INVARIANTS HandledAsSent NoRequestLost UpgradedIsFresh AnswersIdentified
PROPERTY SentIsHandled
