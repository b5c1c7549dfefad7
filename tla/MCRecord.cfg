SPECIFICATION FairSpec
CONSTANTS
  SampleRate = 2
  SamplesPerFile = 4
  MaxBatch = 3
  MaxSamples = 12
INVARIANTS
  TypeOK
  SamplesInOrder
  ClosedFilesFull
  CurrentFileIsPrefix
PROPERTIES
  RefinesArchive
  StopsAfterSignal
