CONSTANTS
  Jobs = {"a", "b", "c"}
  Files = {"u1", "u2"}
  FileOf <- ThreeLines
  NoJob = NoJob
  InitialSize = 3
  GrowSize = 2
  QueueMax = 5
SPECIFICATION Spec
INVARIANT Contiguous
PROPERTY FifoUnlessFull
