SPECIFICATION CancelSpec
CONSTANTS
  r1 = r1
  r2 = r2
  q1 = q1
  q2 = q2
  Recipients = {r1, r2}
  NChunks = 2
  ChunkOf <- MCChunkOf
  Requests = {q1, q2}
SYMMETRY MCSymmetry
CHECK_DEADLOCK FALSE
INVARIANT CanceledCampaignSendsNothing
