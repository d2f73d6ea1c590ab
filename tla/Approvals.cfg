SPECIFICATION Spec
CONSTANTS
  c1 = c1
  c2 = c2
  m1 = m1
  u = u
  key = key
  keyB = keyB
  anna = anna
  ben = ben
  Caller = {c1, c2}
  Approval = {m1, u}
  Credential = {key, keyB}
  Actor = {anna, ben}
  ActorOf <- IssuedTo
  HolderOf <- EnrolledBy
  Merging = {m1}
  Runnable = {m1, u}
  Recorded = {m1}
  NoApproval = NoApproval
  NoCredential = NoCredential
  Faults = {"store down", "audit down", "graph down", "pending", "doubt", "crash"}
  MaxEdits = 1
SYMMETRY Symmetry
INVARIANT OutcomeIsTrue
PROPERTIES ImplementsToken LoggedOnSignedState SignedWithLivePasskey
CHECK_DEADLOCK FALSE
