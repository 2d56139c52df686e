SPECIFICATION Spec
CONSTANTS
  Sources = {1, 2, 3}
  MaxChanges = 1
  Clients = {1, 2}
  Main = {m1, m2}
  Fallback = {f1, f2}
  Policy = {p1}
  MaxRefreshes = 2
  Asks = {1, 2}
  MaxAsked = 2
INVARIANTS
  AnswerIsRightful
  
PROPERTIES
  
  EveryQuestionAnswered
