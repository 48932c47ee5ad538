SPECIFICATION Spec
CONSTANTS
  mod = mod
  news = news
  Nil = Nil
  Users = {ann}
  Subforums = {chat}
  Texts = {x}
  Requests = {r1,r2}
  Loops = {loop1}
  QueueCap = 1
  PathIds = {1}
  MayCrash = FALSE
  MayFail = FALSE
  IndexMayFail = FALSE
  MaxPosts = 2
  Privilege <- MCPrivilege
  ThreadPrivilege <- MCThreadPrivilege
  ReplyPrivilege <- MCReplyPrivilege
PROPERTY MutedDontPost
