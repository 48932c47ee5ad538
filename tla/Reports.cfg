SPECIFICATION Spec
CONSTANTS
  Nil = Nil
  Keys = {ann,bob}
  Posts = {p1,p2,p3,p4}
  Requests = {r1,r2}
  Limit = 1
  Window = 3
  SmtpEnabled = TRUE
  MailMayFail = TRUE
  MayCrash = TRUE
SYMMETRY ReportSymmetry
INVARIANTS
  TypeOK
  OneMailPerPost
  MailsBounded
