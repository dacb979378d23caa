SPECIFICATION Spec
CONSTANTS
  Addr = {a, b}
  MaxNodes = 2
  MaxInterviews = 2
  MaxRetries = 1
  Timeout = 2
INVARIANTS TypeOK UniqueEntries CountsMatch StagesRecorded
PROPERTIES EventsTellChanges InterviewEnds
