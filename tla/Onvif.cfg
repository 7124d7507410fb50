SPECIFICATION MCSpec
CONSTANTS
  Client = {c1}
  User = {u, v}
  Pass = {p, q}
  AuthType = {"none", "basic", "Basic", "digest"}
  Nonce = {n1, n2}
  NoNonce = NoNonce
  Skew <- MCSkew
  Lifetime = 2
  CleanEvery = 1
  MaxChanges = 2
  Token = {"a", "b", "c"}
  Node = {"PTZNode_1", "x"}
  MaxProfiles = 3
  Prober = {r, s}
  Placeholder = Placeholder
  MaxDatagrams = 2
SYMMETRY Symmetry
INVARIANTS AdmittedWereEntitled NoncesForgotten HandlesResolve DescribedAsEncoded AnswersRelate
PROPERTIES GoodAnswerAdmitted
\* After Close the discovery loop has ended, and nothing else moves beside it here.
CHECK_DEADLOCK FALSE
