\* Three operations, two jobs, room for one queued and two running; updateJobStatus works,
\* the owner files and the unmounts may fail.
CONSTANTS
  o1 = o1
  o2 = o2
  o3 = o3
  agentJob = agentJob
  localJob = localJob
  g1 = g1
  g2 = g2
  NoOp = NoOp
  Jobs <- MCJobs
  Ops <- MCOps
  JobOf <- MCJobOf
  AgentJobs = {agentJob}
  Groups <- MCGroups
  GroupOf <- MCGroupOf
  NewGroups = {g2}
  QueueSize = 1
  MaxConcurrent = 2
  MayFail = {"owner", "umount"}
SYMMETRY OpSymmetry
SPECIFICATION Spec
INVARIANTS
  LockAccount
  
  NobodyStuck
  OwnerOwed
  OneClientPerJob
PROPERTIES
  ImplementsJobExclusion
