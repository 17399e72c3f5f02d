SPECIFICATION Spec
CONSTANTS
  c1 = c1
  c2 = c2
  Client = {c1, c2}
  Script <- TwoPosts
  Pages <- MCPages
  Dotted = {"index.html", "http_post.html", "a.html"}
  Template = Template
  Empty = Empty
  NoName = NoName
  NullUrl = NullUrl
  OldLogs = {}
INVARIANT PageSurvives
CHECK_DEADLOCK FALSE
