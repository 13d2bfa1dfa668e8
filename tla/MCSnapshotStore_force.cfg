SPECIFICATION Spec
CONSTANTS
  Server = {s1}
  Command = {c}
  Document = {d}
  Other = {n}
  Indexed = {d}
  Forced = {FALSE, TRUE}
  CoarseClock = FALSE
  Nobody = Nobody
  MaxWrites = 4
  MaxFailures = 0
  MaxCrashes = 0
INVARIANT Durable
