\* Both demo programs, with every outcome of MkdirAll and os.WriteFile.
CONSTANTS
  Absent = Absent
  Corrupt = Corrupt
  NoFile = NoFile
  Truncated = Truncated
  WriteOutcomes = {"ok", "open", "partial"}

SPECIFICATION Spec

INVARIANTS
  TypeOK
  WrittenAsIntended
