\* Administrators, shipments and returns on one paid order, with faults.
SPECIFICATION Spec
CONSTANTS
  Req = {r1, r2, r3}
  Nobody = Nobody
  Faults = TRUE
SYMMETRY RequestsAlike
INVARIANTS TypeOK ShipmentTracksOrder RefundsAgree CancelReturnsMoney
  MoneyBackIsBookable
PROPERTIES HandledAtOnce
