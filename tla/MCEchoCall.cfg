SPECIFICATION Spec
CONSTANTS
  Texts <- MCTexts
  TextLen <- MCTextLen
  UnknownLimit = 2
  Names <- MCNames
  Greeting <- MCGreeting
  Calls <- MCCalls
CHECK_DEADLOCK FALSE
INVARIANTS TypeOK AnswersByMeaning RepliesSatisfyRules
PROPERTIES StepsOfEchoServer
