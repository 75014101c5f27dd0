SPECIFICATION FairSpec
CONSTANTS
  Threads = {t1, t2}
  Flusher = flusher
  MaxCalls = 2
  MaxBatches = 2
  Sizes = {1, 3}
  auto_flush = TRUE
  FlushRates = {TRUE, FALSE}
  queue_max_bytes = 4
  flush_chunk_size = 2
  Failing = {TRUE, FALSE}
INVARIANTS
  BytesAccounted
  QueueOrderKept
  TransportExclusive
  CloseFlushes
PROPERTIES
  QueueDrains
  CallsEnd
CHECK_DEADLOCK FALSE
