SPECIFICATION WfSpec
CONSTANTS
  staff = staff
  college1 = college1
  college2 = college2
  school = school
  d1 = d1
  d2 = d2
  Nobody = Nobody
  NoDept = NoDept
  User <- MCUser
  Dept <- MCDept
  Role <- MCRole
  Subtree <- MCSubtree
  Request = {r1, r2}
  a1 = a1
  Asset = {a1}
  Submission <- RaceSubmission
  Handler = {h1, h2, h3}
SYMMETRY Symmetry
INVARIANTS
  WfTypeOK
  OneOpenPerAsset
  EventIffArchived
  AuditTruthful
  SignedByAuthority
PROPERTIES
  ImplementsApproval
