SPECIFICATION Spec
CONSTANTS
  Workers = {w1, w2}
  MaxServices = 3
INVARIANTS
  TypeOK
  FirstServiceReplies
  EarlyRegistrationIsSafe
  IInv
