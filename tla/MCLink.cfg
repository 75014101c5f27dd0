SPECIFICATION MCSpec
CONSTANTS
  SeqRange = 4
  MaxCalls = 6
  MaxFrames = 4
  Window = 3
  MaxLosses = 1
  telemetry_max_frames = 2
  Values = {1, 3}
  START_BYTE = 3
  PROTOCOL_VERSION = 1
  MAX_PAYLOAD_SIZE = 2
  PacketType = {1}
  SentTypes = {1, 3}
  PayloadValues = {3}
  MaxSent = 3
  MaxSpoiled = 1
  MaxRead = 3
INVARIANTS
  LinkTypeOK
  AnswerIsOwn
  TelemetryInOrder
  DecodesIntact
  ChunksDoNotMatter
  BoardDecodesIntact
CHECK_DEADLOCK FALSE
