\* Two threads, three requests, one of which may be cut short.
SPECIFICATION FairSpec
CONSTANTS
  Workers = {w1, w2}
  Areas = {a1, a2}
  Series = {s1, s2}
  MaxRequests = 3
  MaxAborts = 1
INVARIANTS
  TypeOK
  NumbersAreConsecutive
  FlowsAreAttested
  ChangesAreRecorded
PROPERTIES
  PastIsImmutable
  ChangesGetRecorded
