SPECIFICATION Spec
CONSTANTS
  johnny = johnny
  JOHNNY = JOHNNY
  long = long
  padded = padded
  short = short
  Nil = Nil
  Names = {johnny,JOHNNY,bob}
  Passwords = {long,padded,short}
  Certs = {c1}
  Requests = {r1,r2}
  SmtpEnabled = TRUE
  MayFail = TRUE
  MailMayFail = TRUE
  MayCrash = TRUE
  MaxCodes = 3
  Fold <- MCFold
  Trim <- MCTrim
  LongEnough <- MCLongEnough
SYMMETRY RequestSymmetry
INVARIANTS
  TypeOK
  SessionsAreVerified
  CodesMatchUnverified
  CodeIsOnItsWay
  IndInv
PROPERTIES
  LoginNeedsPassword
  ImplementsRegistry
