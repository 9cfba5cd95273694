----------------------------- MODULE BookingProofs ----------------------------
(***************************************************************************)
(* Proofs about the booking pages.                                          *)
(***************************************************************************)
EXTENDS BookingInv, TLAPS

CallState == [op : {"none", "load", "poll", "hold", "release", "back", "leave", "confirm", "cancel"},
              at : {"idle", "asked", "fetching", "read"},
              trip : Trip \cup {NoTrip}, holds : SUBSET Hold]

LEMMA CallType ==
    ASSUME TypeOK
    PROVE  call \in [Call -> CallState]
  BY DEF TypeOK, CallState

LEMMA Slotted ==
    ASSUME TypeOK, NEW o \in Slots[isStudent]
    PROVE  o \in Call
  BY BookingAssumption DEF TypeOK

LEMMA Starting ==
    /\ Idle \in CallState
    /\ \A p : OnMount(p) \in {Idle, Start("load", "fetching")}
    /\ Start("load", "fetching") \in CallState /\ Start("poll", "fetching") \in CallState
    /\ \A op \in {"release", "back", "leave"} : Start(op, "asked") \in CallState
    /\ \A t \in Trip : [Start("hold", "asked") EXCEPT !.trip = t] \in CallState
    /\ \A S \in SUBSET Hold :
         /\ [Start("confirm", "asked") EXCEPT !.holds = S] \in CallState
         /\ [Start("cancel", "asked") EXCEPT !.holds = S] \in CallState
  BY DEF Idle, Start, OnMount, CallState

LEMMA PutValue ==
    ASSUME TypeOK, NEW o \in Call, NEW r \in CallState, Put(o, r)
    PROVE  /\ call' \in [Call -> CallState]
           /\ call'[o] = r
           /\ \A p \in Call \ {o} : call'[p] = call[p]
           /\ Busy' = IF r.at = "idle" THEN Busy \ {o} ELSE Busy \cup {o}
<1>1. /\ call' \in [Call -> CallState]
      /\ call'[o] = r
      /\ \A p \in Call \ {o} : call'[p] = call[p]
  BY CallType DEF Put
<1>2. Busy' = IF r.at = "idle" THEN Busy \ {o} ELSE Busy \cup {o}
  BY <1>1 DEF Busy
<1> QED
  BY <1>1, <1>2

-----------------------------------------------------------------------------
(* What the invariant says of the operations and the server *)

\* The part of the invariant that relates the operations to the seats.
AskInv == HoldInv /\ DataInv /\ EmptyInv

\* A new operation asks before it fetches, or only fetches; a confirmation asks
\* for the whole cart.
Opens(r) ==
    \/ r = Idle
    \/ r \in {Start("load", "fetching"), Start("poll", "fetching")}
    \/ r.at = "asked" /\ (r.op = "hold" => r.trip \in Trip)
                      /\ (r.op = "confirm" => r.holds = activeHolds)

LEMMA Begins ==
    ASSUME TypeOK, AskInv, NEW o \in Call, NEW r \in CallState, Opens(r), Begin(o, r),
           UNCHANGED <<seat, activeHolds>>
    PROVE  /\ AskInv'
           /\ doubt' \in {"no", "yes", "resolving"}
<1> USE DEF AskInv
<1>1. /\ call' \in [Call -> CallState]
      /\ call'[o] = r
      /\ \A p \in Call \ {o} : call'[p] = call[p]
      /\ Busy' = IF r.at = "idle" THEN Busy \ {o} ELSE Busy \cup {o}
  BY PutValue DEF Begin
<1>2. o \notin Busy /\ Cart' = Cart
  BY DEF Begin, Busy, Cart
<1>3. HoldInv'
  <2>1. r.op = "hold" => r.trip \in Trip
    <3>1. Idle.op = "none" /\ Start("load", "fetching").op = "load"
          /\ Start("poll", "fetching").op = "poll"
      BY DEF Idle, Start
    <3> QED
      BY <3>1 DEF Opens
  <2> QED
    BY <1>1, <2>1 DEF HoldInv
<1>4. CASE r = Idle
  <2>1. Busy' = Busy /\ doubt' = doubt /\ \A p \in Busy : call'[p] = call[p]
    BY <1>1, <1>2, <1>4 DEF Begin, Idle, Busy
  <2>2. DataInv' /\ EmptyInv'
    BY <1>2, <2>1 DEF DataInv, EmptyInv
  <2> QED
    BY <1>3, <2>1, <2>2 DEF TypeOK
<1>5. CASE r # Idle
  <2>1. doubt' = Doubt(o, r) /\ r.at \in {"asked", "fetching"} /\ Busy' = Busy \cup {o}
    BY <1>1, <1>5 DEF Begin, Opens, Start, Idle
  <2>2. doubt' \in {"no", "yes", "resolving"}
    BY <2>1 DEF Doubt, TypeOK
  <2>3. CASE doubt' # "yes"
    <3>1. Busy = {} /\ Busy' = {o}
      BY <1>2, <2>1, <2>3 DEF Doubt
    <3>2. doubt # "resolving"
      BY <3>1 DEF DataInv
    <3>3. /\ doubt' = "no" => doubt = "no" /\ activeHolds = Cart
          /\ doubt' = "resolving" => r.at = "fetching"
      BY <2>1, <2>3, <3>1, <3>2 DEF Doubt, DataInv, TypeOK
    <3>4. DataInv'
      BY <1>1, <1>2, <2>1, <3>1, <3>3 DEF DataInv
    <3>5. EmptyInv'
      <4>1. r.at = "fetching" => r.op \notin {"leave", "confirm"}
        BY <1>5 DEF Opens, Start, Idle
      <4>2. r.op = "confirm" /\ r.at = "asked" => r.holds = activeHolds
        BY <1>5 DEF Opens, Start, Idle
      <4> QED
        BY <1>1, <1>2, <2>1, <3>1, <3>3, <4>1, <4>2 DEF EmptyInv
    <3> QED
      BY <1>3, <2>2, <3>4, <3>5
  <2>4. CASE doubt' = "yes"
    BY <1>3, <2>2, <2>4 DEF DataInv, EmptyInv
  <2> QED
    BY <2>3, <2>4
<1> QED
  BY <1>4, <1>5

LEMMA Served ==
    ASSUME TypeOK, AskInv, NEW o \in Call,
           Grant(o) \/ DeleteHolds(o) \/ Buy(o) \/ Refund(o)
    PROVE  /\ AskInv'
           /\ call' \in [Call -> CallState]
           /\ seat' \in [Hold -> {"none", "held", "last", "over", "ticket", "gone"}]
           /\ doubt' \in {"no", "yes", "resolving"}
           /\ Busy' = Busy /\ \A p \in Call : call'[p].op = call[p].op
           /\ UNCHANGED <<isStudent, dataVars, loading, flowVars, pageVars, timerVars>>
<1> USE DEF AskInv
<1> DEFINE r == [call[o] EXCEPT !.at = "fetching", !.holds = {}]
<1>1. PICK seats \in SUBSET Hold, to \in {"held", "gone", "ticket"} :
        /\ Serves(o, seats, to)
        /\ call[o].op = "leave" => seats = Cart /\ to = "gone"
        /\ call[o].op = "confirm" => seats = call[o].holds /\ to = "ticket"
  <2>1. Cart \in SUBSET Hold /\ call[o].holds \in SUBSET Hold
    BY CallType DEF Cart, CallState
  <2>2. CASE Grant(o)
    BY <2>2 DEF Grant
  <2>3. CASE DeleteHolds(o)
    BY <2>1, <2>3 DEF DeleteHolds
  <2>4. CASE Buy(o)
    BY <2>1, <2>4 DEF Buy
  <2>5. CASE Refund(o)
    BY <2>1, <2>5 DEF Refund
  <2> QED
    BY <2>2, <2>3, <2>4, <2>5
<1>2. /\ call[o].at = "asked"
      /\ seat' = [h \in Hold |-> IF h \in seats THEN to ELSE seat[h]]
      /\ Put(o, r) /\ doubt' = Doubt(o, r)
      /\ UNCHANGED <<isStudent, dataVars, loading, flowVars, pageVars, timerVars>>
  BY <1>1 DEF Serves
<1>3. r \in CallState /\ r.at = "fetching" /\ r.op = call[o].op /\ r.trip = call[o].trip
  BY CallType DEF CallState
<1>4. /\ call' \in [Call -> CallState]
      /\ call'[o] = r
      /\ \A p \in Call \ {o} : call'[p] = call[p]
      /\ Busy' = Busy \cup {o}
  BY <1>2, <1>3, PutValue
<1>5. o \in Busy /\ Busy' = Busy
  BY <1>2, <1>4 DEF Busy
<1>6. HoldInv' /\ \A p \in Call : call'[p].op = call[p].op
  BY <1>3, <1>4 DEF HoldInv
<1>7. doubt' \in {"no", "yes", "resolving"}
  BY <1>2 DEF Doubt, TypeOK
<1>8. seat' \in [Hold -> {"none", "held", "last", "over", "ticket", "gone"}]
  BY <1>2 DEF TypeOK
<1>9. DataInv' /\ EmptyInv'
  <2>1. CASE doubt' = "yes"
    BY <2>1 DEF DataInv, EmptyInv
  <2>2. CASE doubt' # "yes"
    <3>1. Busy = {o}
      BY <1>2, <1>5, <2>2 DEF Doubt
    <3>2. DataInv'
      BY <1>3, <1>4, <1>5, <3>1 DEF DataInv
    <3>3. doubt' = "no" => doubt = "no"
      BY <1>2, <1>3, <1>5, <3>1 DEF Doubt, DataInv, TypeOK
    <3>4. ASSUME doubt' = "no", call[o].op \in {"leave", "confirm"}
          PROVE  Cart' = {}
      <4>1. call[o].op = "confirm" => call[o].holds = Cart
        BY <1>2, <1>5, <3>3, <3>4 DEF EmptyInv
      <4>2. seats = Cart /\ to \in {"gone", "ticket"}
        BY <1>1, <3>4, <4>1
      <4> QED
        BY <1>2, <4>2 DEF Cart
    <3>5. EmptyInv'
      BY <1>3, <1>4, <1>5, <3>1, <3>4 DEF EmptyInv
    <3> QED
      BY <3>2, <3>5
  <2> QED
    BY <2>1, <2>2
<1> QED
  BY <1>2, <1>4, <1>5, <1>6, <1>7, <1>8, <1>9

LEMMA Reads ==
    ASSUME TypeOK, AskInv, NEW o \in Call, Read(o)
    PROVE  /\ AskInv'
           /\ call' \in [Call -> CallState]
           /\ Busy' = Busy /\ \A p \in Call : call'[p].op = call[p].op
<1> USE DEF AskInv, Read
<1> DEFINE r == [call[o] EXCEPT !.at = "read", !.holds = Cart]
<1>1. r \in CallState /\ r.at = "read" /\ r.op = call[o].op /\ r.trip = call[o].trip /\ r.holds = Cart
  BY CallType DEF CallState, Cart
<1>2. Put(o, r)
  BY DEF Put, TypeOK
<1>3. /\ call' \in [Call -> CallState]
      /\ call'[o] = r
      /\ \A p \in Call \ {o} : call'[p] = call[p]
      /\ Busy' = Busy \cup {o}
  BY <1>1, <1>2, PutValue
<1>4. Busy' = Busy /\ o \in Busy /\ Cart' = Cart
  BY <1>3 DEF Busy, Cart, serverVars
<1>5. HoldInv' /\ \A p \in Call : call'[p].op = call[p].op
  BY <1>1, <1>3 DEF HoldInv
<1>6. DataInv'
  BY <1>1, <1>3, <1>4 DEF DataInv, dataVars
<1>7. EmptyInv'
  <2>1. SUFFICES ASSUME doubt = "no", NEW p \in Busy
                 PROVE  /\ call'[p].op = "confirm" /\ call'[p].at = "asked" => call'[p].holds = Cart
                        /\ call'[p].op \in {"leave", "confirm"} /\ call'[p].at \in {"fetching", "read"}
                             => Cart = {}
    BY <1>4 DEF EmptyInv
  <2>2. p \in Call
    BY DEF Busy
  <2>3. CASE p = o
    BY <1>1, <1>3, <1>4, <2>1, <2>3 DEF EmptyInv
  <2>4. CASE p # o
    BY <1>3, <2>1, <2>2, <2>4 DEF EmptyInv
  <2> QED
    BY <2>3, <2>4
<1> QED
  BY <1>3, <1>4, <1>5, <1>6, <1>7

\* An operation is over: it has fetched, its fetch has failed, or it has been
\* refused; at most it is followed by the fetch of the page that is shown next.
LEMMA Ends ==
    ASSUME TypeOK, AskInv, NEW o \in Busy, NEW r \in {Idle, Start("load", "fetching")}, Put(o, r),
           UNCHANGED seat,
           \/ /\ call[o].at = "read" /\ activeHolds' = call[o].holds
              /\ doubt' = IF doubt = "resolving" THEN "no" ELSE doubt
           \/ doubt' = "yes"
           \/ call[o].at = "asked" /\ UNCHANGED <<activeHolds, doubt>>
    PROVE  AskInv'
<1> USE DEF AskInv
<1>1. o \in Call
  BY DEF Busy
<1>2. /\ call'[o] = r
      /\ \A p \in Call \ {o} : call'[p] = call[p]
      /\ Busy' = IF r.at = "idle" THEN Busy \ {o} ELSE Busy \cup {o}
  BY <1>1, Starting, PutValue
<1>3. /\ r.op \in {"none", "load"} /\ r.at \in {"idle", "fetching"}
      /\ Cart' = Cart
  <2>1. Idle.op = "none" /\ Idle.at = "idle"
    BY DEF Idle
  <2>2. Start("load", "fetching").op = "load" /\ Start("load", "fetching").at = "fetching"
    BY DEF Idle, Start
  <2>3. Cart' = Cart
    BY DEF Cart
  <2> QED
    BY <2>1, <2>2, <2>3
<1>4. HoldInv'
  BY <1>2, <1>3 DEF HoldInv
<1>5. DataInv' /\ EmptyInv'
  <2>1. CASE doubt' = "yes"
    BY <2>1 DEF DataInv, EmptyInv
  <2>2. CASE doubt' # "yes"
    <3>1. doubt # "yes" /\ Busy = {o}
      BY <2>2 DEF DataInv
    <3>2. call[o].at = "read" => call[o].holds = Cart
      BY <3>1 DEF DataInv
    <3>3. doubt' = "no"
      BY <2>2, <3>1 DEF DataInv, TypeOK
    <3>4. activeHolds' = Cart
      BY <2>2, <3>1, <3>2, <3>3 DEF DataInv
    <3>5. DataInv'
      BY <1>2, <1>3, <3>1, <3>3, <3>4 DEF DataInv
    <3>6. EmptyInv'
      BY <1>2, <1>3, <3>1 DEF EmptyInv
    <3> QED
      BY <3>5, <3>6
  <2> QED
    BY <2>1, <2>2
<1> QED
  BY <1>4, <1>5

LEMMA Clock ==
    ASSUME TypeOK, AskInv, NEW h \in Hold, LastSecond(h) \/ Expire(h)
    PROVE  AskInv' /\ TypeOK'
<1>1. TypeOK'
  BY DEF TypeOK, LastSecond, Expire, dataVars, flowVars, pageVars, timerVars
<1>2. CASE LastSecond(h)
  <2>1. Cart' = Cart
    BY <1>2 DEF LastSecond, Cart, TypeOK
  <2> QED
    BY <1>1, <1>2, <2>1 DEF LastSecond, AskInv, HoldInv, DataInv, EmptyInv, Busy, dataVars
<1>3. CASE Expire(h)
  BY <1>1, <1>3 DEF Expire, AskInv, HoldInv, DataInv, EmptyInv
<1> QED
  BY <1>2, <1>3

LEMMA Elsewhere ==
    ASSUME AskInv, UNCHANGED <<seat, activeHolds, call, doubt>>
    PROVE  AskInv'
  BY DEF AskInv, HoldInv, DataInv, EmptyInv, Busy, Cart

-----------------------------------------------------------------------------
(* The steps of the user and the effects *)

\* What the store and the pages keep beside the operations.
LocalOK ==
    /\ {loading, initialized, isRoundTrip, showConfirmModal, confirming, due} \subseteq BOOLEAN
    /\ selected \subseteq Trip
    /\ page \in Pages
    /\ blocked \in Pages \cup {"none"}
    /\ timeLeft \in {"some", "zero"}

LEMMA Types ==
    TypeOK <=> /\ isStudent \in BOOLEAN
               /\ seat \in [Hold -> {"none", "held", "last", "over", "ticket", "gone"}]
               /\ activeHolds \subseteq Hold
               /\ call \in [Call -> CallState]
               /\ doubt \in {"no", "yes", "resolving"}
               /\ LocalOK
  BY DEF TypeOK, LocalOK, CallState

LEMMA Rendered ==
    ASSUME TypeOK, NEW fetched \in BOOLEAN, Renders(fetched)
    PROVE  due' \in BOOLEAN /\ timeLeft' \in {"some", "zero"}
  BY DEF TypeOK, Renders

\* A step that begins an operation, or none.
LEMMA Opened ==
    ASSUME IInv, NEW o \in Call, NEW r \in CallState, Opens(r), Begin(o, r),
           UNCHANGED <<isStudent, seat, activeHolds>>, LocalOK',
           loading' => loading \/ (r.at # "idle" /\ r.op # "poll")
    PROVE  IInv'
<1>1. TypeOK /\ AskInv /\ LoadingHasOwner
  BY DEF IInv, AskInv
<1>2. AskInv' /\ doubt' \in {"no", "yes", "resolving"}
  BY <1>1, Begins
<1>3. /\ call' \in [Call -> CallState]
      /\ call'[o] = r
      /\ \A p \in Call \ {o} : call'[p] = call[p]
      /\ Busy' = IF r.at = "idle" THEN Busy \ {o} ELSE Busy \cup {o}
  BY <1>1, PutValue DEF Begin
<1>4. TypeOK'
  BY <1>1, <1>2, <1>3 DEF TypeOK, LocalOK, CallState
<1>5. LoadingHasOwner'
  <2>1. o \notin Busy
    BY DEF Begin, Busy
  <2>2. \A p \in Busy : p \in Busy' /\ call'[p] = call[p]
    BY <1>3, <2>1 DEF Busy
  <2> QED
    BY <1>1, <1>3, <2>2 DEF LoadingHasOwner
<1> QED
  BY <1>2, <1>4, <1>5 DEF IInv, AskInv

\* A step of the pages alone.
LEMMA Shown ==
    ASSUME IInv, UNCHANGED <<isStudent, seat, activeHolds, call, doubt, loading>>, LocalOK'
    PROVE  IInv'
<1>1. TypeOK /\ AskInv /\ LoadingHasOwner
  BY DEF IInv, AskInv
<1>2. AskInv'
  BY <1>1, Elsewhere
<1>3. TypeOK'
  BY <1>1 DEF TypeOK, LocalOK
<1>4. LoadingHasOwner'
  BY <1>1 DEF LoadingHasOwner, Busy
<1> QED
  BY <1>2, <1>3, <1>4 DEF IInv, AskInv

LEMMA GoStep ==
    ASSUME IInv, NEW o \in Call, NEW p \in Pages, Go(o, p)
    PROVE  IInv'
<1> USE DEF dataVars, serverVars, flowVars, timerVars, Go
<1>1. TypeOK /\ LocalOK
  BY Types DEF IInv
<1>2. CASE Blocks
  <2>1. LocalOK'
    BY <1>1, <1>2 DEF LocalOK
  <2> QED
    BY <1>2, <2>1, Shown
<1>3. CASE ~Blocks
  <2>1. /\ Begin(o, OnMount(p)) /\ Show(p) /\ loading' = (loading \/ p = "transport")
        /\ Renders(FALSE)
    BY <1>3
  <2>2. LocalOK'
    BY <1>1, <2>1, Rendered DEF LocalOK, Show
  <2>3. OnMount(p) \in CallState /\ Opens(OnMount(p))
    BY Starting DEF Opens
  <2>4. p = "transport" => OnMount(p).at # "idle" /\ OnMount(p).op # "poll"
    BY DEF OnMount, Start, Idle
  <2> QED
    BY <2>1, <2>2, <2>3, <2>4, Opened
<1> QED
  BY <1>2, <1>3

LEMMA ReleaseStep ==
    ASSUME IInv, NEW o \in Call, NEW op \in {"release", "back", "leave"}, StartRelease(o, op)
    PROVE  IInv'
<1> USE DEF dataVars, serverVars, flowVars, pageVars, StartRelease
<1>1. TypeOK /\ LocalOK
  BY Types DEF IInv
<1>2. LocalOK'
  BY <1>1, Rendered DEF LocalOK
<1>3. Start(op, "asked") \in CallState /\ Opens(Start(op, "asked"))
      /\ Start(op, "asked").at # "idle" /\ Start(op, "asked").op # "poll"
  BY Starting DEF Opens, Start, Idle
<1> QED
  BY <1>2, <1>3, Opened

LEMMA BookStep ==
    ASSUME IInv, NEW o \in Call, NEW t \in Trip, Book(o, t)
    PROVE  IInv'
<1> USE DEF dataVars, serverVars, flowVars, pageVars, Book
<1> DEFINE r == [Start("hold", "asked") EXCEPT !.trip = t]
<1>1. TypeOK /\ LocalOK
  BY Types DEF IInv
<1>2. LocalOK'
  BY <1>1, Rendered DEF LocalOK
<1>3. r \in CallState /\ Opens(r) /\ r.at # "idle" /\ r.op # "poll"
  BY Starting DEF Opens, Start, Idle
<1> QED
  BY <1>2, <1>3, Opened

LEMMA ConfirmStep ==
    ASSUME IInv, NEW o \in Call, Confirm(o)
    PROVE  IInv'
<1> USE DEF dataVars, serverVars, flowVars, Confirm
<1> DEFINE r == [Start("confirm", "asked") EXCEPT !.holds = activeHolds]
<1>1. TypeOK /\ LocalOK /\ activeHolds \in SUBSET Hold
  BY Types DEF IInv
<1>2. LocalOK'
  BY <1>1, Rendered DEF LocalOK
<1>3. r \in CallState
  BY <1>1, Starting
<1>4. Opens(r) /\ r.at # "idle" /\ r.op # "poll"
  BY DEF Opens, Start, Idle
<1> QED
  BY <1>2, <1>3, <1>4, Opened

LEMMA CancelStep ==
    ASSUME IInv, NEW o \in Call, NEW h \in Hold, CancelTicket(o, h)
    PROVE  IInv'
<1> USE DEF dataVars, serverVars, flowVars, pageVars, CancelTicket
<1> DEFINE r == [Start("cancel", "asked") EXCEPT !.holds = {h}]
<1>1. TypeOK /\ LocalOK
  BY Types DEF IInv
<1>2. LocalOK'
  BY <1>1, Rendered DEF LocalOK
<1>3. r \in CallState
  BY Starting
<1>4. Opens(r) /\ r.at # "idle" /\ r.op # "poll"
  BY DEF Opens, Start, Idle
<1> QED
  BY <1>2, <1>3, <1>4, Opened

LEMMA EffectSteps ==
    ASSUME IInv, NEW o \in Call, Redirect(o) \/ Poll(o) \/ ExpiryEffect(o)
    PROVE  IInv'
<1> USE DEF dataVars, serverVars, flowVars
<1>1. TypeOK /\ LocalOK
  BY Types DEF IInv
<1>2. CASE Redirect(o)
  <2>1. LocalOK'
    BY <1>1, <1>2, Rendered DEF Redirect, LocalOK, Show, Pages
  <2>2. OnMount("transport") \in CallState /\ Opens(OnMount("transport"))
        /\ OnMount("transport").at # "idle" /\ OnMount("transport").op # "poll"
    BY Starting DEF Opens, OnMount, Start, Idle
  <2> QED
    BY <1>2, <2>1, <2>2, Opened DEF Redirect
<1>3. CASE Poll(o)
  <2>1. LocalOK'
    BY <1>1, <1>3 DEF Poll, LocalOK, pageVars, timerVars
  <2>2. Start("poll", "fetching") \in CallState /\ Opens(Start("poll", "fetching"))
    BY Starting DEF Opens
  <2> QED
    BY <1>3, <2>1, <2>2, Opened DEF Poll
<1>4. CASE ExpiryEffect(o)
  <2>1. LocalOK'
    BY <1>1, <1>4 DEF ExpiryEffect, ResetBookingFlow, LocalOK, pageVars
  <2>2. Start("poll", "fetching") \in CallState /\ Opens(Start("poll", "fetching"))
    BY Starting DEF Opens
  <2> QED
    BY <1>4, <2>1, <2>2, Opened, Shown DEF ExpiryEffect
<1> QED
  BY <1>2, <1>3, <1>4

LEMMA PageSteps ==
    ASSUME IInv,
           \/ Stay \/ Continue \/ Review \/ CloseModal \/ ConfirmNothing \/ Tick
           \/ \E b \in BOOLEAN : SetRoundTrip(b)
    PROVE  IInv'
<1> USE DEF dataVars, serverVars, flowVars, pageVars, timerVars
<1>1. TypeOK /\ LocalOK
  BY Types DEF IInv
<1>2. CASE Stay \/ CloseModal \/ Review
  <2>1. LocalOK'
    BY <1>1, <1>2 DEF Stay, CloseModal, Review, LocalOK
  <2> QED
    BY <1>2, <2>1, Shown DEF Stay, CloseModal, Review
<1>3. CASE Continue
  <2>1. LocalOK'
    BY <1>1, <1>3, Rendered DEF Continue, Proceed, Show, LocalOK, Pages
  <2> QED
    BY <1>3, <2>1, Shown DEF Continue
<1>4. CASE ConfirmNothing
  <2>1. LocalOK'
    BY <1>1, <1>4, Rendered DEF ConfirmNothing, Show, LocalOK, Pages
  <2> QED
    BY <1>4, <2>1, Shown DEF ConfirmNothing
<1>5. CASE Tick
  <2>1. LocalOK'
    BY <1>1, <1>5 DEF Tick, LocalOK
  <2> QED
    BY <1>5, <2>1, Shown DEF Tick
<1>6. ASSUME NEW b \in BOOLEAN, SetRoundTrip(b)
      PROVE  IInv'
  <2>1. LocalOK'
    BY <1>1, <1>6 DEF SetRoundTrip, LocalOK
  <2> QED
    BY <1>6, <2>1, Shown DEF SetRoundTrip
<1> QED
  BY <1>2, <1>3, <1>4, <1>5, <1>6

-----------------------------------------------------------------------------
(* The answers *)

PagesOK ==
    /\ page \in Pages
    /\ blocked \in Pages \cup {"none"}
    /\ {showConfirmModal, confirming} \subseteq BOOLEAN

\* What o turns into when it is over, and who answers for the loading flag.
Over(o, r) ==
    /\ r \in {Idle, Start("load", "fetching")}
    /\ Put(o, r)
    /\ loading' \in BOOLEAN
    /\ loading' => r # Idle \/ (loading /\ call[o].op = "poll")
    /\ PagesOK'

LEMMA Mounts ==
    /\ OnMount("transport") = Start("load", "fetching") /\ OnMount("transport") # Idle
    /\ \A p : OnMount(p) \in {Idle, Start("load", "fetching")}
  BY DEF OnMount, Start, Idle

LEMMA LeavesOver ==
    ASSUME TypeOK, NEW o \in Call, NEW p \in Pages, Leaves(o, p)
    PROVE  Over(o, OnMount(p))
<1>1. PagesOK'
  BY DEF Leaves, Show, PagesOK
<1>2. OnMount(p) \in {Idle, Start("load", "fetching")}
  BY Mounts
<1>3. p = "transport" => OnMount(p) # Idle
  BY Mounts
<1> QED
  BY <1>1, <1>2, <1>3 DEF Leaves, Over

LEMMA StaysOver ==
    ASSUME TypeOK, NEW o \in Call, Stays(o)
    PROVE  Over(o, Idle)
  BY DEF Stays, Over, PagesOK, TypeOK, pageVars

LEMMA GoBackOver ==
    ASSUME TypeOK, NEW o \in Call, GoBack(o)
    PROVE  \E r : Over(o, r)
<1>1. CASE Stays(o)
  BY <1>1, StaysOver
<1>2. CASE Leaves(o, "transport")
  BY <1>2, LeavesOver DEF Pages
<1>3. ASSUME blocked' = "transport", Put(o, Idle), loading' = FALSE,
             UNCHANGED <<page, showConfirmModal, confirming>>
      PROVE  Over(o, Idle)
  BY <1>3 DEF Over, PagesOK, TypeOK, Pages
<1> QED
  BY <1>1, <1>2, <1>3 DEF GoBack

LEMMA AfterBookOver ==
    ASSUME TypeOK, NEW o \in Call, NEW chosen, AfterBook(o, chosen)
    PROVE  Over(o, Idle)
<1>1. PagesOK'
  BY DEF AfterBook, Proceed, Show, PagesOK, TypeOK, Pages, pageVars
<1> QED
  BY <1>1 DEF AfterBook, Over

LEMMA GoBookedOver ==
    ASSUME TypeOK, NEW o \in Call, GoBooked(o), loading' = FALSE
    PROVE  Over(o, Idle)
<1>1. PagesOK'
  BY DEF GoBooked, Show, PagesOK, TypeOK, Pages
<1>2. Put(o, Idle)
  BY DEF GoBooked
<1> QED
  BY <1>1, <1>2 DEF Over

LEMMA AfterFetchOver ==
    ASSUME TypeOK, HoldInv, NEW o \in Call, AfterFetch(o)
    PROVE  /\ \E r : Over(o, r)
           /\ isRoundTrip' \in BOOLEAN /\ selected' \subseteq Trip
<1> USE DEF ResetBookingFlow, flowVars
<1>1. isRoundTrip \in BOOLEAN /\ selected \subseteq Trip
  BY DEF TypeOK
<1>2. CASE call[o].op \in {"load", "cancel"} /\ Stays(o) /\ UNCHANGED flowVars
  BY <1>1, <1>2, StaysOver
<1>3. CASE call[o].op = "poll" /\ Put(o, Idle) /\ UNCHANGED <<loading, flowVars, pageVars>>
  <2>1. Over(o, Idle)
    BY <1>3 DEF Over, PagesOK, TypeOK, pageVars
  <2> QED
    BY <1>1, <1>3, <2>1
<1>4. CASE call[o].op = "hold" /\ AddSelection(o)
  <2>1. AfterBook(o, selected') /\ isRoundTrip' = isRoundTrip
        /\ selected' = selected \cup {call[o].trip} /\ call[o].trip \in Trip
    BY <1>4 DEF AddSelection, HoldInv
  <2>2. Over(o, Idle)
    BY <2>1, AfterBookOver
  <2> QED
    BY <1>1, <2>1, <2>2
<1>5. CASE call[o].op = "release" /\ Stays(o) /\ ResetBookingFlow
  BY <1>1, <1>5, StaysOver
<1>6. CASE call[o].op = "back" /\ ResetBookingFlow /\ GoBack(o)
  BY <1>1, <1>6, GoBackOver
<1>7. CASE /\ call[o].op = "leave" /\ ResetBookingFlow
           /\ IF blocked = "none" THEN Stays(o) ELSE Leaves(o, blocked)
  <2>1. \E r : Over(o, r)
    BY <1>7, StaysOver, LeavesOver DEF TypeOK
  <2> QED
    BY <1>1, <1>7, <2>1
<1>8. CASE call[o].op = "confirm" /\ ResetBookingFlow /\ loading' = FALSE /\ GoBooked(o)
  BY <1>1, <1>8, GoBookedOver
<1> QED
  BY <1>2, <1>3, <1>4, <1>5, <1>6, <1>7, <1>8 DEF AfterFetch

LEMMA RefusedOver ==
    ASSUME TypeOK, NEW o \in Call, Refused(o)
    PROVE  \E r : Over(o, r)
<1>1. CASE call[o].op = "hold" /\ AfterBook(o, selected)
  BY <1>1, AfterBookOver
<1>2. CASE call[o].op = "back" /\ GoBack(o)
  BY <1>2, GoBackOver
<1>3. CASE blocked # "none" /\ Leaves(o, blocked)
  BY <1>3, LeavesOver DEF TypeOK
<1>4. ASSUME Put(o, Idle), loading' = FALSE,
             confirming' = (confirming /\ \E c \in Call \ {o} : call[c].op = "confirm"),
             UNCHANGED <<page, blocked, showConfirmModal>>
      PROVE  Over(o, Idle)
  BY <1>4 DEF Over, PagesOK, TypeOK
<1>5. CASE Stays(o)
  BY <1>5, StaysOver
<1>6. \/ call[o].op = "hold" /\ AfterBook(o, selected)
      \/ call[o].op = "back" /\ GoBack(o)
      \/ blocked # "none" /\ Leaves(o, blocked)
      \/ /\ Put(o, Idle) /\ loading' = FALSE
         /\ confirming' = (confirming /\ \E c \in Call \ {o} : call[c].op = "confirm")
         /\ UNCHANGED <<page, blocked, showConfirmModal>>
      \/ Stays(o)
  BY Zenon DEF Refused
<1> QED
  BY <1>1, <1>2, <1>3, <1>4, <1>5, <1>6

LEMMA AnswerStep ==
    ASSUME IInv, NEW o \in Call, Answer(o)
    PROVE  IInv'
<1>1. TypeOK /\ LocalOK /\ AskInv /\ LoadingHasOwner
  BY Types DEF IInv, AskInv
<1>2. o \in Busy
  BY DEF Answer, FetchDone, FetchFails, Refused, Busy
<1>3. /\ UNCHANGED <<isStudent, seat>>
      /\ activeHolds' \subseteq Hold /\ initialized' \in BOOLEAN
      /\ doubt' \in {"no", "yes", "resolving"}
      /\ \/ /\ call[o].at = "read" /\ activeHolds' = call[o].holds
            /\ doubt' = IF doubt = "resolving" THEN "no" ELSE doubt
         \/ doubt' = "yes"
         \/ call[o].at = "asked" /\ UNCHANGED <<activeHolds, doubt>>
      /\ isRoundTrip' \in BOOLEAN /\ selected' \subseteq Trip
      /\ due' \in BOOLEAN /\ timeLeft' \in {"some", "zero"}
  <2>1. CASE FetchDone(o)
    <3>1. call[o].holds \subseteq Hold
      BY <1>1, CallType DEF CallState
    <3>2. AfterFetch(o) /\ Renders(TRUE)
      BY <2>1 DEF FetchDone
    <3>3. isRoundTrip' \in BOOLEAN /\ selected' \subseteq Trip
      BY <1>1, <3>2, AfterFetchOver DEF AskInv
    <3>4. due' \in BOOLEAN /\ timeLeft' \in {"some", "zero"}
      BY <1>1, <3>2, Rendered
    <3> QED
      BY <1>1, <2>1, <3>1, <3>3, <3>4 DEF FetchDone, TypeOK, serverVars
  <2>2. CASE FetchFails(o)
    <3>1. AfterFetch(o) /\ Renders(FALSE)
      BY <2>2 DEF FetchFails
    <3>2. isRoundTrip' \in BOOLEAN /\ selected' \subseteq Trip
      BY <1>1, <3>1, AfterFetchOver DEF AskInv
    <3>3. due' \in BOOLEAN /\ timeLeft' \in {"some", "zero"}
      BY <1>1, <3>1, Rendered
    <3> QED
      BY <1>1, <2>2, <3>2, <3>3 DEF FetchFails, TypeOK, serverVars, dataVars
  <2>3. CASE Refused(o)
    <3>1. due' \in BOOLEAN /\ timeLeft' \in {"some", "zero"}
      BY <1>1, <2>3, Rendered DEF Refused
    <3> QED
      BY <1>1, <2>3, <3>1 DEF Refused, TypeOK, serverVars, dataVars, flowVars
  <2> QED
    BY <2>1, <2>2, <2>3 DEF Answer
<1>4. PICK r : Over(o, r)
  BY <1>1, AfterFetchOver, RefusedOver DEF Answer, FetchDone, FetchFails, AskInv
<1>5. r \in {Idle, Start("load", "fetching")} /\ r \in CallState /\ Put(o, r)
  BY <1>4, Starting DEF Over
<1>6. AskInv'
  BY <1>1, <1>2, <1>3, <1>5, Ends
<1>7. /\ call' \in [Call -> CallState]
      /\ call'[o] = r
      /\ \A p \in Call \ {o} : call'[p] = call[p]
      /\ Busy' = IF r.at = "idle" THEN Busy \ {o} ELSE Busy \cup {o}
  BY <1>1, <1>5, PutValue
<1>8. LocalOK'
  BY <1>3, <1>4 DEF Over, PagesOK, LocalOK
<1>9. TypeOK'
  BY <1>1, <1>3, <1>7, <1>8 DEF TypeOK, LocalOK, CallState
<1>10. LoadingHasOwner'
  <2>1. SUFFICES ASSUME loading'
                 PROVE  \E p \in Busy' : call'[p].op # "poll"
    BY DEF LoadingHasOwner
  <2>2. CASE r # Idle
    <3>1. r.at = "fetching" /\ r.op = "load"
      BY <1>5, <2>2 DEF Start, Idle
    <3> QED
      BY <1>7, <3>1
  <2>3. CASE r = Idle
    <3>1. loading /\ call[o].op = "poll"
      BY <1>4, <2>1, <2>3 DEF Over
    <3>2. PICK p \in Busy : call[p].op # "poll"
      BY <1>1, <3>1 DEF LoadingHasOwner
    <3>3. p # o /\ p \in Call /\ r.at = "idle"
      BY <2>3, <3>1, <3>2 DEF Busy, Idle
    <3> QED
      BY <1>7, <3>2, <3>3
  <2> QED
    BY <2>2, <2>3
<1> QED
  BY <1>6, <1>9, <1>10 DEF IInv, AskInv

LEMMA ServerStep ==
    ASSUME IInv, NEW o \in Call, Server(o)
    PROVE  IInv'
<1>1. TypeOK /\ AskInv /\ LoadingHasOwner
  BY DEF IInv, AskInv
<1>2. /\ AskInv'
      /\ call' \in [Call -> CallState]
      /\ seat' \in [Hold -> {"none", "held", "last", "over", "ticket", "gone"}]
      /\ doubt' \in {"no", "yes", "resolving"}
      /\ Busy' = Busy /\ \A p \in Call : call'[p].op = call[p].op
      /\ UNCHANGED <<isStudent, dataVars, loading, flowVars, pageVars, timerVars>>
  <2>1. CASE Read(o)
    BY <1>1, <2>1, Reads DEF Read, serverVars, TypeOK
  <2>2. CASE Grant(o) \/ DeleteHolds(o) \/ Buy(o) \/ Refund(o)
    BY <1>1, <2>2, Served
  <2> QED
    BY <2>1, <2>2 DEF Server
<1>3. TypeOK'
  BY <1>1, <1>2 DEF TypeOK, CallState, dataVars, flowVars, pageVars, timerVars
<1>4. LoadingHasOwner'
  BY <1>1, <1>2 DEF LoadingHasOwner, Busy
<1> QED
  BY <1>2, <1>3, <1>4 DEF IInv, AskInv

LEMMA ClockStep ==
    ASSUME IInv, NEW h \in Hold, LastSecond(h) \/ Expire(h)
    PROVE  IInv'
<1>1. TypeOK /\ AskInv /\ LoadingHasOwner
  BY DEF IInv, AskInv
<1>2. AskInv' /\ TypeOK'
  BY <1>1, Clock
<1>3. LoadingHasOwner'
  BY <1>1 DEF LastSecond, Expire, LoadingHasOwner, Busy
<1> QED
  BY <1>2, <1>3 DEF IInv, AskInv

LEMMA UserStep ==
    ASSUME IInv, NEW o \in Call, User(o)
    PROVE  IInv'
<1>1. CASE \E p \in Pages : Go(o, p)
  BY <1>1, GoStep
<1>2. CASE Abandon(o) \/ ReleaseAllHolds(o)
  BY <1>2, ReleaseStep DEF Abandon, ReleaseAllHolds, ReleaseFromTickets
<1>3. CASE Confirm(o)
  BY <1>3, ConfirmStep
<1>4. CASE \E t \in Trip : Book(o, t)
  BY <1>4, BookStep
<1>5. CASE \E h \in Hold : CancelTicket(o, h)
  BY <1>5, CancelStep
<1> QED
  BY <1>1, <1>2, <1>3, <1>4, <1>5 DEF User

-----------------------------------------------------------------------------
(* The theorems *)

LEMMA Initial == Init => IInv
<1> SUFFICES ASSUME Init PROVE IInv
  OBVIOUS
<1>1. TypeOK
  <2>1. call \in [Call -> CallState]
    BY Starting DEF Init
  <2>2. seat \in [Hold -> {"none", "held", "last", "over", "ticket", "gone"}]
    BY DEF Init
  <2> QED
    BY <2>1, <2>2 DEF Init, TypeOK, CallState, Pages
<1>2. \A o \in Call : call[o] = Idle
  BY DEF Init
<1>3. HoldInv
  BY <1>2 DEF HoldInv, Idle
<1> QED
  BY <1>1, <1>3 DEF Init, IInv, LoadingHasOwner, DataInv, EmptyInv

LEMMA Step == IInv /\ [Next]_vars => IInv'
<1> SUFFICES ASSUME IInv, [Next]_vars PROVE IInv'
  OBVIOUS
<1>1. ASSUME NEW o \in Slots[isStudent],
             User(o) \/ Server(o) \/ Answer(o) \/ Redirect(o) \/ Poll(o) \/ ExpiryEffect(o)
      PROVE  IInv'
  <2>1. o \in Call
    BY Slotted DEF IInv
  <2> QED
    BY <1>1, <2>1, UserStep, ServerStep, AnswerStep, EffectSteps
<1>2. ASSUME \/ Stay \/ Continue \/ Review \/ CloseModal \/ ConfirmNothing \/ Tick
             \/ \E b \in BOOLEAN : SetRoundTrip(b)
      PROVE  IInv'
  BY <1>2, PageSteps
<1>3. ASSUME NEW h \in Hold, LastSecond(h) \/ Expire(h)
      PROVE  IInv'
  BY <1>3, ClockStep
<1>4. CASE UNCHANGED vars
  <2>1. LocalOK
    BY Types DEF IInv
  <2>2. LocalOK'
    BY <1>4, <2>1 DEF LocalOK, vars, dataVars, flowVars, pageVars, timerVars
  <2>3. UNCHANGED <<isStudent, seat, activeHolds, call, doubt, loading>>
    BY <1>4 DEF vars, serverVars, dataVars
  <2> QED
    BY <2>2, <2>3, Shown
<1> QED
  BY <1>1, <1>2, <1>3, <1>4 DEF Next

\* The invariant of the booking pages holds for any seats, operations and
\* number of them in flight.
THEOREM Invariance == Spec => []IInv
<1> QED
  BY Initial, Step, PTL DEF Spec

\* At rest, when nothing has got lost and nothing has expired since the last
\* fetch that could tell, the cart the user is shown is the one the server has.
THEOREM CartAgrees == Spec => []CartMatchesServer
<1>1. IInv => CartMatchesServer
  BY DEF IInv, DataInv, CartMatchesServer
<1> QED
  BY <1>1, Invariance, PTL

\* The loading flag of the store is on only while an operation that turns it
\* off is in flight, however many the user has started.
THEOREM LoadingOwned == Spec => []LoadingHasOwner
<1>1. IInv => LoadingHasOwner
  BY DEF IInv
<1> QED
  BY <1>1, Invariance, PTL

\* What is in flight when a user departs has emptied the cart; with nothing in
\* flight the store knows whether it is empty.
LEMMA NoSeats ==
    ASSUME IInv, Departs, doubt = "no", Busy = {} => activeHolds = {}, UNCHANGED seat
    PROVE  Cart' = {}
<1>1. Cart' = Cart
  BY DEF Cart
<1>2. CASE Busy = {}
  BY <1>1, <1>2 DEF IInv, DataInv
<1>3. CASE Busy # {}
  <2>1. PICK o \in Busy : call[o].op \in {"leave", "confirm"} /\ call[o].at \in {"fetching", "read"}
    BY <1>3 DEF Departs
  <2> QED
    BY <1>1, <2>1 DEF IInv, EmptyInv
<1> QED
  BY <1>2, <1>3


LEMMA DepartStep ==
    ASSUME IInv, [Next]_vars, Departs, doubt = "no", doubt' = "no"
    PROVE  Cart' = {}
<1> USE DEF pageVars
<1>1. page \in {"transport", "passengers"} /\ page' = "elsewhere"
  BY DEF Departs
<1>2. ASSUME NEW o \in Call, User(o)
      PROVE  Cart' = {}
  <2>1. ASSUME NEW p \in Pages, Go(o, p)
        PROVE  Cart' = {}
    <3>1. ~Blocks
      BY <1>1, <2>1 DEF Go
    <3>2. activeHolds = {} /\ UNCHANGED seat
      BY <1>1, <2>1, <3>1 DEF Go, Blocks, serverVars
    <3> QED
      BY <3>2, NoSeats
  <2>2. Abandon(o) \/ ReleaseAllHolds(o) => UNCHANGED page
    BY DEF Abandon, ReleaseAllHolds, ReleaseFromTickets, StartRelease
  <2>3. Confirm(o) \/ (\E t \in Trip : Book(o, t)) \/ (\E h \in Hold : CancelTicket(o, h))
          => UNCHANGED page
    BY DEF Confirm, Book, CancelTicket
  <2> QED
    BY <1>1, <1>2, <2>1, <2>2, <2>3 DEF User
<1>3. ASSUME NEW o \in Call, Server(o)
      PROVE  FALSE
  <2>1. UNCHANGED page
    BY <1>3 DEF Server, Grant, DeleteHolds, Buy, Refund, Serves, Read
  <2> QED
    BY <1>1, <2>1
<1>4. ASSUME NEW o \in Call, Answer(o)
      PROVE  Cart' = {}
  <2>1. o \in Busy /\ UNCHANGED seat
    BY <1>4 DEF Answer, FetchDone, FetchFails, Refused, Busy, serverVars
  <2> QED
    BY <2>1, NoSeats
<1>5. ASSUME NEW o \in Call, Redirect(o) \/ Poll(o) \/ ExpiryEffect(o)
      PROVE  FALSE
  BY <1>1, <1>5 DEF Redirect, Poll, ExpiryEffect, Show
<1>6. ASSUME Stay \/ Continue \/ Review \/ CloseModal \/ Tick \/ \E b \in BOOLEAN : SetRoundTrip(b)
      PROVE  FALSE
  BY <1>1, <1>6 DEF Stay, Continue, Proceed, Show, Review, CloseModal, Tick, SetRoundTrip
<1>7. CASE ConfirmNothing
  BY <1>7, NoSeats DEF ConfirmNothing, serverVars
<1>8. ASSUME NEW h \in Hold, LastSecond(h) \/ Expire(h)
      PROVE  FALSE
  BY <1>1, <1>8 DEF LastSecond, Expire
<1>9. CASE UNCHANGED vars
  BY <1>1, <1>9 DEF vars
<1>10. ASSUME NEW o \in Slots[isStudent]
       PROVE  o \in Call
  BY <1>10, Slotted DEF IInv
<1> QED
  BY <1>2, <1>3, <1>4, <1>5, <1>6, <1>7, <1>8, <1>9, <1>10 DEF Next

\* A user who leaves the booking pages when nothing is under way but the end of
\* a release or of a confirmation, and nothing has gone wrong, leaves no seat
\* held: the blocker, the modals and the requests together see to it.
THEOREM NoSeatLeft == Spec => LeavesNoSeats
<1>1. IInv /\ [Next]_vars => [Departs /\ doubt = "no" /\ doubt' = "no" => Cart' = {}]_vars
  BY DepartStep
<1> QED
  BY <1>1, Invariance, PTL DEF Spec, LeavesNoSeats

=============================================================================
