\* One Dispatcher, called by one thread with pairs of backends, and by two threads.
SPECIFICATION Spec
CONSTANTS
  Inside = inside
  Outside = outside
  Faulty = faulty
  Safe = safe
  Unsafe = unsafe
  Leaves <- MCLeaves
  ExternalLeaves <- MCExternal
  FaultyLeaves <- MCFaulty
  Attachments <- MCAttachments
  EgressSafe <- MCEgressSafe
  NoBackend = no_backend
  NoKey = no_key
  Threads = {t1, t2}
  Keys = {k1, k2}
  WindowSeconds = 2
  MaxCapacity = 1
  Deployments <- MCDeployments
  ClockMayStepBack = TRUE
  MaxClock = 2
  MaxNotifies = 3
SYMMETRY ThreadKeySymmetry
INVARIANTS TypeOK EgressIsGated SuppressedOnlyAsDuplicate AloneDiscardsDuplicates TrackerBounded TrackerNeverRaises EveryBackendServed
PROPERTY ImplementsDuplicateFilter
