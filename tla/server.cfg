SPECIFICATION Spec
CONSTANTS
  q1 = q1
  NoClaim = NoClaim
  NoKey = NoKey
  Char <- MCChar
  SafeChar <- MCSafeChar
  UrlPlain <- MCUrlPlain
  Encoded <- MCEncoded
  Room <- MCRoom
  Request <- OneRequest
  Setting <- MCSetting
  DefaultTTL = 1
  MaxTime = 3
INVARIANTS
  HandlerFitsToken
  AdmittedInTime
  NothingRecorded
  BucketThere
  UnverifiedStayLocal
  ServersAgree
  
