\* Three operations of two jobs that wait for one token of the semaphore and for each other.
CONSTANTS
  o1 = o1
  o2 = o2
  o3 = o3
  agentJob = agentJob
  localJob = localJob
  g1 = g1
  g2 = g2
  NoOp = NoOp
  Jobs <- MCJobs
  Ops <- MCOps
  JobOf <- MCJobOf
  AgentJobs = {agentJob}
  Groups <- MCGroups
  GroupOf <- MCGroupOf
  NewGroups = {g2}
  QueueSize = 1
  MaxConcurrent = 1
  MayFail = {"status"}
SPECIFICATION FairSpec
PROPERTIES
  Completes
