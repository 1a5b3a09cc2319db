\* One citizen with one valid identity, three calls, one of them lost.
SPECIFICATION Spec
CONSTANTS
  Senders = {dni}
  Nil = Nil
  MaxCalls = 3
  MaxLost = 1
CHECK_DEADLOCK FALSE
INVARIANTS
  SenderWasValidated
  ToldIsRegistered
  NoSilentSubmission
  ResultsAnswerTheSearch
