CONSTANTS
  t1 = t1
  t2 = t2
  ThValue <- ThValuesDef
  Default = t1
  IdValue = t2
  Requests <- NoRequests
  AdvDuration = 0
  EvtsMax = 2
SPECIFICATION AttrSpec
INVARIANTS ThresholdsAgree
PROPERTIES WindowReadable WritesNotOverwritten SubscriberIsNotified
CHECK_DEADLOCK FALSE
