SPECIFICATION NodeFairSpec
CONSTANTS
  Self = n1
  Replica = {n1}
  Client = {c1, c2}
  Proposal <- MCProposal
  Key = {k1}
  Value = {v1}
  Missing = Missing
  NoEntry = NoEntry
  NoVote = NoVote
  Configs <- MCConfigs
  FirstIndex = 0
  MaxIndex = 3
  MaxRestarts = 0
  MaxBatch = 1
INVARIANT UnappliedReadable
INVARIANT AnswersLinear
INVARIANT WaitedProposalsAccepted
INVARIANT JoinerStaysFollower
PROPERTY ProposalsReturn
PROPERTY LonerLeads
CHECK_DEADLOCK FALSE
