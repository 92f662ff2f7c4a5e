SPECIFICATION Spec
CONSTANTS
  w1 = w1
  w2 = w2
  NoId = NoId
  MaxMessages = 2
  Chats = {"a", "b"}
  ChatOf <- TwoChats
  LeadOf <- MCLeadOf
  ContactOf <- MCContactOf
  Workers = {w1, w2}
  MaxAttempts = 3
  MaxFaults = 1
SYMMETRY Symmetry
INVARIANTS AtMostOnce Truthful
PROPERTIES ClosedStaysClosed HandoffRespected
CHECK_DEADLOCK FALSE
