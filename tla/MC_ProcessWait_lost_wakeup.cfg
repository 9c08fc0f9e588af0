\* Two children, exit statuses 1 and 2 (distinct from the 0 a fresh
\* wait_info holds).  A parent stuck in sema_down with every child dead is
\* the failure reported, so deadlock is not checked separately.
CONSTANTS
  k1 = k1
  k2 = k2
  Kids <- MCKids
  Statuses = {1, 2}
  NoStatus = NoStatus
SPECIFICATION Spec
PROPERTY WaitReturns
CHECK_DEADLOCK FALSE
