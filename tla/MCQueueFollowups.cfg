SPECIFICATION MCSpec
CONSTANTS
  c1 = c1
  Jobs = {1, 2}
  Clients = {c1}
  Requested = {0}
  FloatExponent = 10
  MaxErrors = 1
  MaxStops = 1
  Images = {1, 2, 3}
  SweepLimit = 2
  MaxFailures = 2
PROPERTIES  ActiveEnds ImplementsReservation ReservationsSettle
