\* Two threads that choose and destroy, none that uploads; their transactions may wait for
\* each other and one request may be cut short.
SPECIFICATION CertificatesFairSpec
CONSTANTS
  Workers = {w1, w2}
  InitialCertificates = 3
  MaxCertificates = 3
  MaxRequests = 4
  MaxAborts = 1
  ChoosesDefault = TRUE
INVARIANTS
  OneDefaultAtMost
PROPERTIES
  RequestsFinish
