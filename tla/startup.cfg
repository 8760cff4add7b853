SPECIFICATION Spec
CONSTANTS
  c1 = c1
  c2 = c2
  p1 = p1
  p2 = p2
  Client = {c1, c2}
  ServerCount = 2
  Started = {0, 1}
  Path = {p1, p2}
  Hash <- HashOf
  None = None
  MaxStreams = 3
  MaxStarts = 2
SYMMETRY Symmetry
INVARIANTS
  TypeOK
  OwnerServes
  ClientsAgree
  ReadyServersKeepClientsAlive
\* The job may end with all servers stopped and all processes dead.
CHECK_DEADLOCK FALSE
