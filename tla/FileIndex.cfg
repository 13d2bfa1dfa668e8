SPECIFICATION Spec
CONSTANTS
  File = {f, g}
  None = None
  MaxEdits = 3
INVARIANTS StampTells ReportExact IndexSettles Stored
