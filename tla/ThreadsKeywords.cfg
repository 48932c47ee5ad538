SPECIFICATION FairSpec
CONSTANTS
  mod = mod
  news = news
  Nil = Nil
  Users = {ann}
  Subforums = {chat}
  Texts = {x,y}
  Requests = {r1,r2}
  Loops = {loop1}
  QueueCap = 1
  PathIds = {1}
  MayCrash = FALSE
  MayFail = TRUE
  IndexMayFail = TRUE
  MaxPosts = 2
  Privilege <- MCPrivilege
  ThreadPrivilege <- MCThreadPrivilege
  ReplyPrivilege <- MCReplyPrivilege
INVARIANTS
  NoPostForgotten
  QuietIndexIsRight
PROPERTIES
  RequestsAnswered
  PostsBecomeSearchable
