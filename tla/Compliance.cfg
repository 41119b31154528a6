SPECIFICATION CompSpec
CONSTANT
  Files <- TheFiles
INVARIANTS
  CompTypeOK
  AnswersAgree
  CountsAgree
CHECK_DEADLOCK FALSE
