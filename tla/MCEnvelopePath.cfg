SPECIFICATION Spec
CONSTANTS
  Topics <- MCTopics
  Queries <- MCQueries
INVARIANTS TypeOK ObjectArrives BytesArrive MistakesExplained HeadersArrive
\* A message ends with its reader.
CHECK_DEADLOCK FALSE
