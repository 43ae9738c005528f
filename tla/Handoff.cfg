SPECIFICATION HandoffSpec
CONSTANTS
  e1 = e1
  e2 = e2
  t1 = t1
  t2 = t2
  Entity = {e1, e2}
  Transfer = {t1, t2}
  Subject <- SubjectOf
  None = None
INVARIANT OneWinner
PROPERTY NeverReplaced
