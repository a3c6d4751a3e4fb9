SPECIFICATION FairHuntSpec
CONSTANTS
  bc1 = bc1
  bc2 = bc2
  gh = gh
  algora = algora
  m1 = m1
  social = social
  Posts = {bc1, bc2, gh, algora}
  SourceOf <- MCSourceOf
  LinkOf <- MCLinkOf
  Mocks = {m1, social}
  Funded = {m1}
  Automatable = {bc1, m1}
  Dirs = {"1", "repo", "api", "post"}
  DirOf <- MCDirOf
  NoItem = NoItem
  MaxExecRetries = 2
  MaxChanges = 1
  MaxStarts = 2
CHECK_DEADLOCK FALSE
INVARIANTS OneBountyPerLink OnePullRequest
PROPERTIES EveryoneGetsATurn
