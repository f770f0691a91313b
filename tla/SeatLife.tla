------------------------------- MODULE SeatLife -------------------------------
(***************************************************************************)
(* What the seat table promises, without requests, transactions or jobs: a *)
(* free seat may be held for at most Hold, a held seat may be sold to its  *)
(* holder or, once the hold is Grace past its end, be freed again, and a   *)
(* sold seat stays sold.  Seats implements this specification.             *)
(***************************************************************************)
EXTENDS Integers

CONSTANTS Seat, User, Nobody, Hold, Grace, MaxTime

VARIABLES now, life

lifeVars == <<now, life>>

FreeSeat == [kind |-> "free", user |-> Nobody, until |-> 0]

LifeInit == now = 0 /\ life = [s \in Seat |-> FreeSeat]

TakeHold(s) ==
  /\ life[s].kind = "free"
  /\ \E u \in User, end \in 0 .. now + Hold :
       life' = [life EXCEPT ![s] = [kind |-> "held", user |-> u, until |-> end]]
  /\ UNCHANGED now

Sell(s) ==
  /\ life[s].kind = "held"
  /\ now <= life[s].until + Grace
  /\ life' = [life EXCEPT ![s] = [kind |-> "sold", user |-> @.user, until |-> 0]]
  /\ UNCHANGED now

\* One run frees any number of seats whose hold has been over for Grace.
FreeExpired(due) ==
  /\ \A s \in due : life[s].kind = "held" /\ life[s].until + Grace < now
  /\ life' = [s \in Seat |-> IF s \in due THEN FreeSeat ELSE life[s]]
  /\ UNCHANGED now

Pass == now < MaxTime /\ now' = now + 1 /\ UNCHANGED life

LifeNext ==
  \/ \E s \in Seat : TakeHold(s) \/ Sell(s)
  \/ \E due \in SUBSET Seat : FreeExpired(due)
  \/ Pass

LifeSpec == LifeInit /\ [][LifeNext]_lifeVars
=============================================================================
