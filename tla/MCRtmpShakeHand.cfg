SPECIFICATION ShakeSpec
CONSTANTS
  Accepted <- MCAccepted
  CreateForms <- MCForms
  MaxData = 2
INVARIANTS
  
  
  InStep
PROPERTIES
  AnswersCome
  DataIsParsed
