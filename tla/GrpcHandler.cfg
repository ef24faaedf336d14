\* The claim that an RPC handler runs with the id of its call.
SPECIFICATION Spec
CONSTANTS
  Null = null
  Missing = missing
  Absent = absent
  Empty = empty
  Unsafe = unsafe
  Undecodable = undecodable
  Contexts = {worker, child}
  Workers = {worker}
  Adapters <- MCAdapters
  Nestable <- MCNestable
  ClientIds = {x, u}
  NonAscii = {u}
  CloudEvents <- MCCloudEvents
  MaxRequests = 3
  MaxMessages = 1
  MaxNesting = 2
INVARIANT HandlerHasId
