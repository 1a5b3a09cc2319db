\* One thread driven by the page, nothing cut short.
SPECIFICATION CertificatesSpec
CONSTANTS
  Workers = {w1}
  InitialCertificates = 0
  MaxCertificates = 3
  MaxRequests = 6
  MaxAborts = 0
  ChoosesDefault = FALSE
INVARIANTS
  OneDefault
PROPERTIES
  ChoiceIsDefault
