SPECIFICATION BenchSpec
CONSTANTS
  Data = {1, 2}
  Room = 3
  PageElements = 3
  Capacity = 3
  Keys = {1, 2, 3}
  KeyRoom = 4
  Texts = {1, 2, 3}
  Strings = 5
  Nodes = {"n1", "n2", "n3"}
  Alternatives = {0, 1, 2}
  Code = {"p", "q"}
  Callers = {"c1", "c2", "c3"}
  Pointers = {"x", "y"}
  Objects = {1, 2, 3}
  Allocators = {1, 2}
  Addresses = {1, 2, 3}
  LastAddress = 3
  Buckets = 1
  BucketSlots = 2
  PageSize = 2
  MaxSize = 2
  MaxCount = 2
  MallocSizeKnown = TRUE
  Blocks = {1, 2, 3, 4}
  Timers = {"t1", "t2"}
  StdIn = "in"
  Spatial = {"a", "b", "c", "d"}
  FindParent <- Parents
  Animated = {"o1", "o2"}
  Composites = {"o2"}
  Properties = {"x"}
INVARIANTS
  ObjectsSound
  ContainersRepresent
  ComponentsRepresent
CHECK_DEADLOCK FALSE
