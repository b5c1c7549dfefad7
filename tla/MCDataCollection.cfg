SPECIFICATION FairSpec
CONSTANTS
  TotalChannels = 3
  BufferLength = 2
  SamplesPerFile = 5
  InputLengths = {0, 1, 2, 3, 10, 13}
  MaxBatch = 3
INVARIANTS
  TypeOK
  SamplesDealt
  CurrentFileIsPrefix
  PairsSent
PROPERTIES
  Ends
  RefinesArchive
