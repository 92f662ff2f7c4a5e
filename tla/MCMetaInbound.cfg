SPECIFICATION FairSpec
CONSTANTS
  s1 = s1
  w1 = w1
  w2 = w2
  Senders = {s1}
  From <- FromOne
  MaxMessages = 2
  WithMedia = {1, 2}
  Workers = {w1, w2}
  MaxAttempts = 3
  MaxTries = 2
  MaxReply = 2
  MaxFaults = 1
INVARIANTS TypeOK MessagesIntact
PROPERTIES AnswersImplemented LeasesRespected EveryMessageSettles
CHECK_DEADLOCK FALSE
