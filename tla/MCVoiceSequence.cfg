\* Two sessions one after the other, over two servers.
CONSTANTS
  Session = {s1, s2}
  Caller = {rec, ui}
  Recorder = rec
  Server = {ip1, ip2}
  DomainName = DomainName
  NULL = NULL
  LogModes = {TRUE}
  MaxPosts = 1
  Overlapping = FALSE
  ReuseSession = FALSE
  TrustHandle = FALSE
SPECIFICATION Spec
SYMMETRY Perms
INVARIANTS
  UploadAffinity
  CurlOwned
  EndOKMeansTold
