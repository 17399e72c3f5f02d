SPECIFICATION ClientSpec
CONSTANTS
  c1 = c1
  Client = {c1}
  Script <- NoScript
  Pages <- IndexPage
  Dotted = {"index.html"}
  Template = Template
  Empty = Empty
  NoName = NoName
  NullUrl = NullUrl
  OldLogs = {}
PROPERTY ClientGetsOn
CHECK_DEADLOCK FALSE
