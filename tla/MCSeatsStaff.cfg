SPECIFICATION FairSpec
CONSTANTS
  ali = ali
  sana = sana
  omar = omar
  bus = bus
  van = van
  User = {omar}
  Trip = {van}
  Booking = {b1, b2}
  Request = {r1, r2}
  Role <- MCRole
  BusType <- MCBusType
  Direction <- MCDirection
  Price <- BusPrice
  Seat <- OneSeat
  WeeklyLimit = 1
  Funds <- TwoEach
  MaxCount = 1
  NewCapacity = {2}
  ManualStatus = {}
  ReapLimit = 1
  MaxRepeat = 0
  Week <- NextWeek
  MaxWeek = 1
  NewWeek = {0}
INVARIANTS QuotaRespected
PROPERTIES BookingsMoveForward HoldsEnd
