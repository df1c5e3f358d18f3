SPECIFICATION Spec
CONSTANTS
  Msgs = {m1, m2, m3}
  Texts = {"", "Jane"}
  Cells = {p1, p2, p3, p4, p5}
  Nil = Nil
  None = None
SYMMETRY MCSymmetry
INVARIANTS TypeOK HoldsWhatWasPut
