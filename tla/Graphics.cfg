SPECIFICATION GraphicsSpec
CONSTANTS
  Window = 2
  OutputSlots = 3
  Scenarios <- MCScenarios
  MaxFrame = 5
  Width = 8
  Height = 4
  Tile = 2
  Strokes <- MCStrokes
  MaxStrokes = 2
  MaxFrames = 3
  IdrInterval = 3
  MaxFrameNum = 6
  IdrPicIds = 3
  MaxPictures = 7
CHECK_DEADLOCK FALSE
INVARIANTS WindowSound PictureKept RegionsExact StreamsReadBack
PROPERTIES StreamDecodable BackpressureEnds
