SPECIFICATION Spec
CONSTANTS
  Users = {u1, u2}
  MaxRcpts = 3
  MaxLines = 3
CHECK_DEADLOCK FALSE
SYMMETRY UserSymmetry
INVARIANTS EnvelopeAgreed OnlyAuthenticated 
