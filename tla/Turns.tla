--------------------------------- MODULE Turns ---------------------------------
(***************************************************************************)
(* What the waiting queue promises, without calls in flight, runs of the   *)
(* cron jobs and what they have read: tokens join behind others, at most   *)
(* Limit at a time are let in, never past one that is ahead and waits, and *)
(* each keeps its access until its time is over or it was paid with.       *)
(* WaitingQueue implements this specification.                             *)
(***************************************************************************)
EXTENDS Integers, FiniteSets

CONSTANTS Token, Limit, Ttl, MaxTime

VARIABLES
  now,
  turn,   \* of each token: none, WAITING, ACTIVE or EXPIRE
  since,  \* the time an ACTIVE one was let in
  ahead,  \* the tokens it joined behind
  paid    \* the tokens payments were made with

turnVars == <<now, turn, since, ahead, paid>>

TurnsInit ==
  /\ now = 0
  /\ turn \in [Token -> {"none", "ACTIVE"}]
  /\ since = [t \in Token |-> 0]
  /\ ahead = [t \in Token |-> {}]
  /\ paid = {}

Join(t) ==
  /\ turn[t] = "none"
  /\ turn' = [turn EXCEPT ![t] = "WAITING"]
  /\ \E before \in SUBSET {u \in Token : turn[u] # "none"} :
       ahead' = [ahead EXCEPT ![t] = before]
  /\ UNCHANGED <<now, since, paid>>

\* Nobody ahead is left waiting, and no access is dated after its beginning.
LetIn(picked) ==
  /\ Cardinality(picked) <= Limit
  /\ \A t \in picked : turn[t] = "WAITING"
  /\ \A t \in picked : \A u \in ahead[t] : turn[u] = "WAITING" => u \in picked
  /\ turn' = [t \in Token |-> IF t \in picked THEN "ACTIVE" ELSE turn[t]]
  /\ \E at \in 0 .. now : since' = [t \in Token |-> IF t \in picked THEN at ELSE since[t]]
  /\ UNCHANGED <<now, ahead, paid>>

EndTurns(due) ==
  /\ \A t \in due : turn[t] = "ACTIVE" /\ since[t] + Ttl < now
  /\ turn' = [t \in Token |-> IF t \in due THEN "EXPIRE" ELSE turn[t]]
  /\ UNCHANGED <<now, since, ahead, paid>>

\* A payment let in before may end after the turn is over.
PayWith(t) ==
  /\ turn[t] \in {"ACTIVE", "EXPIRE"} /\ t \notin paid
  /\ turn' = [turn EXCEPT ![t] = "EXPIRE"]
  /\ paid' = paid \cup {t}
  /\ UNCHANGED <<now, since, ahead>>

Pass == now < MaxTime /\ now' = now + 1 /\ UNCHANGED <<turn, since, ahead, paid>>

TurnsNext ==
  \/ \E t \in Token : Join(t) \/ PayWith(t)
  \/ \E picked \in SUBSET Token : LetIn(picked) \/ EndTurns(picked)
  \/ Pass

TurnsSpec == TurnsInit /\ [][TurnsNext]_turnVars
=============================================================================
