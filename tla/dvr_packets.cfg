SPECIFICATION FairSpec
CONSTANTS
  Networks <- Packets
  INF = 999999
  Undefined = Undefined
INVARIANTS DvrInv CostTaken 
PROPERTY PacketsEnd
