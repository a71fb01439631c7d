\* Two administrators work on one return; nothing fails.
SPECIFICATION Spec
CONSTANTS
  Req = {r1, r2}
  Nobody = Nobody
  Faults = FALSE
SYMMETRY RequestsAlike
INVARIANTS RejectedReturnKeepsMoney
