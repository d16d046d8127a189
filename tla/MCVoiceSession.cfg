\* One session, two application threads, up to three posts, fair threads.
CONSTANTS
  Session = {s1}
  Caller = {rec, ui}
  Recorder = rec
  Server = {ip1}
  DomainName = DomainName
  NULL = NULL
  LogModes = {TRUE}
  MaxPosts = 3
  Overlapping = FALSE
  ReuseSession = FALSE
  TrustHandle = FALSE
SPECIFICATION FairSpec
INVARIANTS
  IInv
  UploadInv
  NoPopFromEmpty
  GaplessUpload
  LiveWhileRunning
PROPERTIES
  ResultStable
  NothingAfterEnd
  ImplementsAudioStream
  GetResultReturns
  EndSessionReturns
