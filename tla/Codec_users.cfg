SPECIFICATION CodecSpec
CONSTANTS
  Word = 65536
  Chunk = 80
  Buffer = 12
  Frames <- SomeFrames
  Counts <- SomeCounts
  Lens <- SomeLens
  BufferSize = 1
  Lengths = {0, 3, 66}
  Compressed = {1, 2, 5, 68}
  MaxString = 4
  MaxInt = 70
  Overhead = 2
  MaxBytes = 13
  MaxDepth = 2
  KeyLens = {0, 2}
  ValueLens = {1, 5, 75}
  Maxes = {40, 200}
  DefaultMax = 60
  Spare = 20
  WrongLens <- SomeWrongLens
  MaxMessages = 2
INVARIANTS
  CursorAtEnd InBounds FieldsStand FrameIsExact
  SizeIsExact NearLimit DecodesWhatArrived ChangeIsContained WildOnlyInFields
  ReadsWithin ElementsWereSent SuccessIsComplete
CHECK_DEADLOCK FALSE
