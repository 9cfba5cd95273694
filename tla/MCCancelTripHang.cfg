SPECIFICATION FairSpec
CONSTANTS
  ali = ali
  sana = sana
  omar = omar
  bus = bus
  van = van
  User = {ali}
  Trip = {bus}
  Booking = {b1, b2}
  Request = {r1}
  Role <- MCRole
  BusType <- MCBusType
  Direction <- MCDirection
  Price <- BusPrice
  Seat <- TwoSeats
  WeeklyLimit = 2
  Funds <- TwoEach
  MaxCount = 2
  NewCapacity = {}
  ManualStatus = {}
  ReapLimit = 1
  MaxRepeat = 0
  Week <- ThisWeek
  MaxWeek = 0
  NewWeek = {}
PROPERTIES CancelTripEnds
