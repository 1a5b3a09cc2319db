\* One thread, four requests, one of which may be cut short.
SPECIFICATION Spec
CONSTANTS
  Workers = {w1}
  Areas = {a1, a2}
  Series = {s1, s2}
  MaxRequests = 4
  MaxAborts = 1
PROPERTIES
  ImplementsLedger
