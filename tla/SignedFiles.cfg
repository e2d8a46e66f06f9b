\* Two people, one refund, one picture; a token and a link live a tick.
SPECIFICATION Spec
CONSTANTS
  ann = ann
  bob = bob
  f1 = f1
  a1 = a1
  a2 = a2
  Emails = {ann, bob}
  Requests = {p1, p2}
  TokenLife = 1
  RequestTime = 0
  MaxTokens = 1
  Refunds = {f1}
  Owner <- MCOwner
  Pictures = {a1}
  Uploader <- MCUploader
  Backend = "local"
  Finders = {q1}
  LinkLife = 1
  CacheTime = 2
  MaxLinks = 1
  MaxDoubts = 1
INVARIANTS
  TypeOK
  StaleRolesExpire
  LinksShowOnlyTheirReadersFiles
  NothingIsShownLate
  LinksWorkWhileARowNamesTheFile
SYMMETRY MCSymmetry
PROPERTY
  RolesOnlyGrow
