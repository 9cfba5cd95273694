SPECIFICATION Spec
CONSTANTS
    h1 = h1
    h2 = h2
    c1 = c1
    c2 = c2
    out = out
    in = in
    Outbound = out
    Inbound = in
    NoTrip = NoTrip
    Hold = {h1, h2}
    TripOf <- MCTripOf
    Call = {c1, c2}
    Slots <- MCSlots
    MaxTickets = 2
INVARIANTS
    IInv
    CartMatchesServer
    LoadingHasOwner
PROPERTIES
    LeavesNoSeats
SYMMETRY Symmetry
VIEW UpToLostSeats
