SPECIFICATION MCSpec
CONSTANTS
  N = 4
  Workers = {w1, w2, w3}
  None = None
  Inputs = {c1, c2, c3}
  K = 2
  cus1 = cus1
  cus2 = cus2
  k1 = k1
  k2 = k2
  t1 = t1
  t2 = t2
  t3 = t3
  t4 = t4
  Emails = {cus1, cus2}
  Campaigns = {k1, k2}
  Calls = {t1, t2, t3, t4}
  Customer <- CustomerArgs
  Campaign <- CampaignArgs
  MaxConns = 2
  NoCall = NoCall
  Requests = {r1, r2, r3}
  Kinds = {"api", "httpx", "obs", "grpc", "plain"}
  QueueSize = 2
INVARIANTS EachItemOnce FailureReported CompleteUnlessCancelled MergeFaithful CountMatchesRows ResultsHonest NothingHeldAfterReturn DrainsBeforeExit SpansFlushed
PROPERTIES NoGoroutineLeak MergeEnds CallsReturn MainEnds
