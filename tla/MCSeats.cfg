SPECIFICATION Spec
CONSTANTS
  ali = ali
  sana = sana
  omar = omar
  bus = bus
  van = van
  User = {ali, sana}
  Trip = {bus}
  Booking = {b1, b2, b3}
  Request = {r1, r2}
  Role <- MCRole
  BusType <- MCBusType
  Direction <- MCDirection
  Price <- BusPrice
  Seat <- TwoSeats
  WeeklyLimit = 2
  Funds <- TwoEach
  MaxCount = 2
  NewCapacity = {}
  ManualStatus = {"CLOSED"}
  ReapLimit = 1
  MaxRepeat = 1
  Week <- ThisWeek
  MaxWeek = 0
  NewWeek = {}
INVARIANTS IInv PaidTripsInv SeatsConserved TicketsPaid
SYMMETRY RequestSymmetry
