\* A worker behind any adapter, and a task or thread beside it.
SPECIFICATION Spec
CONSTANTS
  Null = null
  Missing = missing
  Absent = absent
  Empty = empty
  Unsafe = unsafe
  Undecodable = undecodable
  Contexts = {worker, child}
  Workers = {worker}
  Adapters <- MCAdapters
  Nestable <- MCNestable
  ClientIds = {x, u}
  NonAscii = {u}
  CloudEvents <- MCCloudEvents
  MaxRequests = 3
  MaxMessages = 1
  MaxNesting = 2
INVARIANTS TypeOK IdOfOwnWork IdThroughoutScope HopsKeepId
