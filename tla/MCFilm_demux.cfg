SPECIFICATION Spec
CONSTANTS
  BlockSize = 2
  Streams = {"audio", "video"}
  MaxPacks = 2
  MaxBytes = 4
  Films <- MCFilms
  Amounts = {1, 3}
  HeadBytes = 1
  FixBytes = 1
INVARIANTS TypeOK TellIsTruth QueuesAreBounded NothingLost PacketsAreOfChunks
PROPERTIES StreamEndIsHonest CallsEnd
