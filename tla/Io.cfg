SPECIFICATION Spec
CONSTANTS
  Req = {r1, r2, r3}
  Block = {b1, b2}
INVARIANTS AnsweredOnce WriteThrough
