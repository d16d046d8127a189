\* Refuted: a second utterance gets the first one's answer.
CONSTANTS
  Session = {s1}
  Caller = {rec, ui}
  Recorder = rec
  Server = {ip1}
  DomainName = DomainName
  NULL = NULL
  LogModes = {TRUE}
  MaxPosts = 3
  Overlapping = FALSE
  ReuseSession = TRUE
  TrustHandle = FALSE
SPECIFICATION Spec
SYMMETRY Perms
INVARIANTS
  AnswerCurrent
