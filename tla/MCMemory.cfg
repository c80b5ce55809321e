CONSTANTS
  NumBuffers = 3  BufferSize = 4
  Deques = {"d1", "d2"}  Values = {"x", "y"}  Capacities = {1, 3}  Raw = "raw"  Modulus = 8  Pow2 = {1, 2, 4}
  Threads = {t1, t2, t3, t4}  Word = 4  MaxLocks = 1  Nothing = Nothing  Null = Null
  Producer = "t1"  Slots <- MCSlots  Slab = {0, 1}  Rings = {TRUE, FALSE}  MaxSpan = 1  NoBuffer = NoBuffer
  Nobody = Nobody  Callers = {"r1", "r2"}  Senders = {"h1", "h2"}  Scenes <- MCScenes  PlainTypes = {"number"}  Elements <- MCElements
  Foreign <- MCForeign  Shown <- MCObjects  Strings <- MCStrings
  Parts = {"lock", "managers", "ring", "circular", "crowded", "sub",
           "chunks", "files", "windows", "converting", "dispatch", "tables"}
SPECIFICATION MCSpec
INVARIANTS WriterAlone WordExact BytesHandedOutOnce NoBufferStranded
  ChunksCounted ConversionsRight TypeTablesSound
PROPERTIES RingIsDeque SharedMemorySound
CHECK_DEADLOCK FALSE
