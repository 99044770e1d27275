SPECIFICATION Spec
CONSTANTS
  p1 = p1
  p2 = p2
  Proc = {p1, p2}
  Setting = {servers, chunk}
  servers = servers
  chunk = chunk
  MemcachedServer = servers
  default = default
  other = other
  Value = {default, other}
  Default = default
  None = None
  MaxCommands = 3
  MaxFaults = 1
INVARIANTS
  CountsAreExact
  SettingsAreKept
CHECK_DEADLOCK FALSE
