SPECIFICATION RunsSpec
CONSTANTS
  VersionIds = {1, 2}
  LevelIds = {1}
  p1 = p1
  p2 = p2
  g = g
  Players = {p1, p2}
  Routers = {r1, r2}
  Programs = {"prog"}
  States = {g, "sX"}
  Calls <- MCCalls
  BoardSize = 2
  MaxUnowned = 2
  None = None
INVARIANTS RecordsProven
PROPERTIES RecordsStay TablesAgree
CHECK_DEADLOCK FALSE
