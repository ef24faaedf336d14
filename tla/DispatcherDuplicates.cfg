\* The claim that a duplicate within the window is discarded, with two threads.
SPECIFICATION Spec
CONSTANTS
  Inside = inside
  Outside = outside
  Faulty = faulty
  Safe = safe
  Unsafe = unsafe
  Leaves <- MCLeaves
  ExternalLeaves <- MCExternal
  FaultyLeaves <- MCFaulty
  Attachments <- MCAttachments
  EgressSafe <- MCEgressSafe
  NoBackend = no_backend
  NoKey = no_key
  Threads = {t1, t2}
  Keys = {k1, k2}
  WindowSeconds = 2
  MaxCapacity = 2
  Deployments <- OnManyThreads
  ClockMayStepBack = FALSE
  MaxClock = 2
  MaxNotifies = 3
SYMMETRY ThreadKeySymmetry
INVARIANT DuplicatesDiscarded
