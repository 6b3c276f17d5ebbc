CONSTANTS
  Kinds <- MCKinds
  HeaderLen <- MCHeaderLen
  ChunkSize = 2
  StartLength = 5
  RecvCap = 8
  HasAudio = TRUE
  MaxMessages = 5
SPECIFICATION Spec
INVARIANTS
  Reassembled
  RoomToRead
  DeliveredOnceInOrder
  NewestDelivered
PROPERTIES
  FirstPacksKept
