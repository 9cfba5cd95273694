------------------------------ MODULE Payment -------------------------------
(***************************************************************************)
(* What top-ups promise their user, with no database, gateway protocol or  *)
(* poller in sight: an idempotency key is charged at most once, and the    *)
(* wallet gets the money at most once, and only when it was really paid or *)
(* somebody was believed who said so.                                      *)
(***************************************************************************)
EXTENDS Naturals

CONSTANT Key

VARIABLES
  charge,   \* key |-> what the gateway made of the payment with this key
  deposit,  \* key |-> how many deposits the wallet has for it
  vouched   \* keys whose deposit rests on a word and not on the gateway's decision

vars == <<charge, deposit, vouched>>

TypeOK ==
  /\ charge \in [Key -> {"none", "pending", "paid", "declined"}]
  /\ deposit \in [Key -> {0, 1}]
  /\ vouched \subseteq Key

Init == charge = [k \in Key |-> "none"] /\ deposit = [k \in Key |-> 0] /\ vouched = {}

Charge(k) ==
  /\ charge[k] = "none"
  /\ charge' = [charge EXCEPT ![k] = "pending"]
  /\ UNCHANGED <<deposit, vouched>>

Settle(k) ==
  /\ charge[k] = "pending"
  /\ \E s \in {"paid", "declined"} : charge' = [charge EXCEPT ![k] = s]
  /\ UNCHANGED <<deposit, vouched>>

\* Money that was paid, or that a callback says was paid: it is believed.
Deposit(k) ==
  /\ deposit[k] = 0
  /\ deposit' = [deposit EXCEPT ![k] = 1]
  /\ \/ charge[k] = "paid" /\ UNCHANGED vouched
     \/ vouched' = vouched \cup {k}
  /\ UNCHANGED charge

Next == \E k \in Key : Charge(k) \/ Settle(k) \/ Deposit(k)

Spec == Init /\ [][Next]_vars
=============================================================================
