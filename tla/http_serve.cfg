SPECIFICATION FairSpec
CONSTANTS
  c1 = c1
  c2 = c2
  Client = {c1, c2}
  Script <- Serve
  Pages <- MCPages
  Dotted = {"index.html", "http_post.html", "a.html"}
  Template = Template
  Empty = Empty
  NoName = NoName
  NullUrl = NullUrl
  OldLogs = {2}
INVARIANTS HttpInv PageSurvives WholeAnswers
PROPERTIES GetAnswered PostTakesEffect
CHECK_DEADLOCK FALSE
