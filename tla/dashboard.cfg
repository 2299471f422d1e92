\* Two projects to switch between, two tasks, the table that an unreachable
\* server empties.
SPECIFICATION Spec
CONSTANTS
  Projects = {p1, p2}
  NoProject = none
  Tasks = {t1, t2}
  NoTask = noTask
  Tables = {"logs"}
  MaxCalls = 2
INVARIANTS TypeOK OneChain CommitsWhereGenerated TablesFollowProject
PROPERTIES GenerateReturns
