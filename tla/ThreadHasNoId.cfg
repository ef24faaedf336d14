\* The claim that code can ask for the current id wherever it runs.
SPECIFICATION Spec
CONSTANTS
  Null = null
  Missing = missing
  Absent = absent
  Empty = empty
  Unsafe = unsafe
  Undecodable = undecodable
  Contexts = {worker, child}
  Workers = {worker}
  Adapters = {"asgi"}
  Nestable <- MCNestable
  ClientIds = {x, u}
  NonAscii = {u}
  CloudEvents <- MCCloudEvents
  MaxRequests = 3
  MaxMessages = 1
  MaxNesting = 2
INVARIANT IdIsReadable
