SPECIFICATION DevicesSpec
CONSTANTS
  Apps <- MCApps
  Capacity = 16
  Retries = 3
  MaxBusy = 4
  Faults = TRUE
  LC08 <- MCLC08
  AA64 <- MCAA64
  Calls <- SoundCalls
  Strips = {strip}
  Count = 3
  Depth = 2
  MaxCalls = 2
  Masks <- MCMasks
  MaxChanges = 4
  MaxFaults = 1
  Low = {1, 2}
  High = {3}
  MaxRequests = 2
  MaxErrors = 1
  Devs <- MCDevs
  ChunkSize = 2
  ZeroSize = 3
  Said <- MCSaid
  Contents <- MCContents
  MaxTransfers = 2
  Window = 3
  Flashes <- MCFlashes
  Start = 1
  Entries <- MCEntries
  MaxTable = 2
  Wrap = 8
  LastOf <- MCLastOf
  Codes = {1, 2, 4}
  BufferSize = 24
  MaxObject = 3
  Identities <- MCIdentities
  CoilCount = 10
  RegCount = 2
  Requests <- MCRequests
  MaxExchanges = 2
INVARIANTS WritesPrefix SuccessIsStored FrameIntact CachesAgree TransfersExact EntriesFound ObjectsOnce FramesSound ChecksumIsRemainder ExchangeTrue
PROPERTIES WriteReturns UpdatesSent InputsNoticed
CHECK_DEADLOCK FALSE
