SPECIFICATION Spec
CONSTANTS
  johnny = johnny
  JOHNNY = JOHNNY
  long = long
  padded = padded
  short = short
  Nil = Nil
  Names = {johnny,JOHNNY}
  Passwords = {long}
  Certs = {c1}
  Requests = {r1,r2}
  SmtpEnabled = TRUE
  MayFail = FALSE
  MailMayFail = FALSE
  MayCrash = FALSE
  MaxCodes = 2
  Fold <- MCFold
  Trim <- MCTrim
  LongEnough <- MCLongEnough
INVARIANT CaseInsensitiveUnique
