SPECIFICATION FairSpec
CONSTANTS
  w1 = w1
  w2 = w2
  NoId = NoId
  MaxMessages = 2
  Chats = {"a", "b"}
  ChatOf <- OneChat
  LeadOf <- MCLeadOf
  ContactOf <- MCContactOf
  Workers = {w1, w2}
  MaxAttempts = 3
  MaxFaults = 1
INVARIANT OneActivePerChat
PROPERTIES ClosesUnlessWedged AnswersImplemented
CHECK_DEADLOCK FALSE
