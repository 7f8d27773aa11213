CONSTANTS
  MaxFaults = 2
  MaxFrames = 2
  Texts = {{}, {"OK", "STATUS:3"}, {"ERROR"}}
SPECIFICATION LiveSpec
INVARIANTS
  TypeOK
  
PROPERTIES
  HandledOnce
  AnswersMatch
  LoginFirst
  LoggedInAgain
