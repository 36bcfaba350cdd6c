\* Three executions of two attempts on two slots; a stream of three chunks with three
\* tools in three attempts; two laps on three keys; content of six characters; a
\* response of three items from blocks of two indexes, with two fragments. Slots can
\* leak and recovery can block on the bulkhead for ever (see the findings), and streams
\* end: the system may stop.
SPECIFICATION MCSpec
CONSTANTS
  Sessions = {s1, s2, s3}
  NoSession = NoSession
  MaxConcurrency = 2
  MaxAttempts = 2
  Tools = {ta, tb, tc}
  TaskTool = ta
  PlainTool = tb
  KindOf <- MCKindOf
  Attempts = 3
  MaxChunks = 3
  KeyCount = 3
  Laps = {l1, l2}
  PerKeyRpm = 2
  Headroom = 1
  Window = 2
  Cooldown = 2
  OverloadCooldown = 1
  Beat = 1
  MaxTime = 3
  MaxInput = 6
  BlockIndexes = {0, 1}
  NoIndex = NoIndex
  MaxItems = 3
  MaxWritten = 2
SYMMETRY Symmetry
CHECK_DEADLOCK FALSE
INVARIANTS
  StreamsAreBounded
  ClientGetsItWhole
  LapsKeepPace
  ChunksDoNotMatter
  ResponseIsWhole
PROPERTIES
  StaleStreamIsInert
  CooldownsDecide
