CONSTANTS
  Null = Null
  ShardAlign = 2
  ByteBits = 2  Window = 2  Polynomial = 11  MinSize = 3  MaxSize = 5  AvgBits = 1
  BloomBits = 10  BloomProbes = 2
  SubCodes = 2  SubBits = 2
  LeafCapacity = 1  MaxDepth = 3
  Budget = 4
  Depth = 2  Digits <- MCDigits
  Kinds = {"field", "code", "chunks", "bloom", "hamming", "map", "cache", "manifest"}
  Codes <- MCCodes  Stripes <- MCStripes
  Streams <- MCStreams  Digests <- MCDigests
  Hashes = {0, 1, 3, 6, 15}  Ids = {1, 2, 3}
  Places <- MCPlaces  Stamps = {0, 1}  Boxes <- MCBoxes
  Keys = {1, 2, 3}  Sizes = {1, 2, 3, 5}
  Items <- MCItems
  MaxCalls = 4
SPECIFICATION Spec
INVARIANTS TablesMultiply AnyShardsDecode ChunksAreDefined IndexesFind MapIsExact CacheHoldsRecent DiffIsDifference
CHECK_DEADLOCK FALSE
