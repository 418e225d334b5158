SPECIFICATION FairSpec
CONSTANTS
  People = {"ann"}
  Required = 3
  MaxFail = 2
  HeavyInterval = 2
  SeqCount = 3
INVARIANT AckMeansAsked
PROPERTIES UnlocksApart PersonOpens
