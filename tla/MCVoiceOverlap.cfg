\* Two sessions at a time, each with its upload thread, over one mutex;
\* a handle is used also when its session did not start.
CONSTANTS
  Session = {s1, s2}
  Caller = {rec}
  Recorder = rec
  Server = {ip1}
  DomainName = DomainName
  NULL = NULL
  LogModes = {FALSE}
  MaxPosts = 1
  Overlapping = TRUE
  ReuseSession = FALSE
  TrustHandle = TRUE
SPECIFICATION Spec
CHECK_DEADLOCK FALSE
SYMMETRY Perms
INVARIANTS
  QueueMutex
  AudioComplete
  AnswerSound
