SPECIFICATION AllSpec
CONSTANTS
  Users = {a1, a2}
  Requests = {r1, r2, r3}
  Ops = {"promote", "demote", "suspend", "unsuspend"}
  Admins = {a1, a2}
  SuspendedAtFirst = {}
  None = None
  Components = {"accounts", "locks", "packs", "cache", "templates", "decks", "random", "breaker", "prices", "seed"}
  a1 = a1
  a2 = a2
  r1 = r1
  r2 = r2
  r3 = r3
  x1 = x1
  x2 = x2
  x3 = x3
  u1 = u1
  u2 = u2
  p1 = p1
  p2 = p2
  q1 = q1
  q2 = q2
  q3 = q3
  t1 = t1
  o1 = o1
  g1 = g1
  e1 = e1
  j1 = j1
  j2 = j2
INVARIANTS
  TypesOK
  DeparturesLeaveAnAdmin
  SuspensionRowsAlternate
  NoDeadlock
  AnswersAreTheRecordedOpening
  StalenessIsExplained
  WritesAreWhole
  RandomDecksKeepTheRules
  
PROPERTIES
  PacksAreDrawnAsStated
  ServicesComeToRest
CHECK_DEADLOCK FALSE
