\* Refuted: the upload thread outlives the wait for it.
CONSTANTS
  Session = {s1}
  Caller = {rec, ui}
  Recorder = rec
  Server = {ip1}
  DomainName = DomainName
  NULL = NULL
  LogModes = {TRUE}
  MaxPosts = 1
  Overlapping = FALSE
  ReuseSession = FALSE
  TrustHandle = FALSE
SPECIFICATION Spec
SYMMETRY Perms
INVARIANTS
  ThreadTerminated
