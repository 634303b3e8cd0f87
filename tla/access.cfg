CONSTANTS
  Ips = {i1}
  Workers = {w1, w2}
  NoIp = NoIp
  Nobody = Nobody
  FailMax = 2
  MaxFails = 4
  MaxEntries = 3
  MaxFaults = 2
  Tokens = {t1}
  Sids = {s1, s2}
  NoToken = NoToken
SPECIFICATION FairSpec
INVARIANTS AttemptsLimited DiskMatches LogKept ZeroAnnounced
 
CHECK_DEADLOCK FALSE
CONSTRAINT Apart
