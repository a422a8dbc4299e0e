SPECIFICATION Spec
CONSTANTS
  epic = epic
  story = story
  task = task
  NoCard = NoCard
  Cards = {epic, story, task}
  Requests = {q1, q2}
  Last = 4
  ReviewAt = {2}
  CommitAt = {2}
  Scenarios <- MCClosed
PROPERTIES PutNeverCloses
CHECK_DEADLOCK FALSE
