SPECIFICATION Spec
CONSTANTS
  Server = {s1, s2}
  Command = {c}
  Document = {d}
  Other = {n}
  Indexed = {d}
  Forced = {FALSE}
  CoarseClock = FALSE
  Nobody = Nobody
  MaxWrites = 3
  MaxFailures = 1
  MaxCrashes = 1
INVARIANTS FreshView Durable Journaled
PROPERTY Refines
