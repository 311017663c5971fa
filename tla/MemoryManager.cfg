\* The buffers of the memory manager and their users.
SPECIFICATION Spec
CONSTANTS
  Block = {b1, b2, b3, b4}
  NULL = NULL
  Users = {u1, u2, u3}
INVARIANTS MemoryTypeOK NoDanglingBuffer PairedNeverLeaks UpdateBufferRefused SharedBufferExclusive
