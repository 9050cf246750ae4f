SPECIFICATION Spec
CONSTANTS
  Readers = {r1, r2}
  Buckets = {b1, b2}
  NoTx = NoTx
  MaxTx = 4
SYMMETRY Sym
INVARIANTS TypeOK CheckPasses ReadersKeepTheirPages
PROPERTY ConsistentView
