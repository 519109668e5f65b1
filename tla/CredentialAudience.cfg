SPECIFICATION Spec
CONSTANTS
  issuer = issuer
  holder = holder
  rp = rp
  embedded = embedded
  none = none
  notAString = notAString
  DIDs <- MCDIDs
  Creds <- MCCreds
  Subjects = {"m", "p"}
  SubjectID <- MCSubjectID
  NotAString = notAString
  Signers <- MCSigners
  DocVersions <- MCDocVersions
  RelyingParty = rp
  Embedded = embedded
  None = none
  Parameters <- MCParameters
  MaxTime = 2
  MaxCreds = 2
INVARIANT
  AudienceIsTheVerifier
