-------------------------------- MODULE Ledger --------------------------------
(***************************************************************************)
(* What the user table promises: a user's balance is the opening balance   *)
(* plus every entry posted, each entry is posted at most once, as a whole, *)
(* and no entry that is checked against the balance overdraws the account. *)
(***************************************************************************)
EXTENDS Integers

CONSTANTS
  User, Entry,
  Checked   \* the entries that are posted only if the balance allows them

VARIABLES
  change,   \* whose balance each entry changes, and by how much
  balance,  \* the balances
  posted    \* the entries already in them

ledgerVars == <<change, balance, posted>>

LedgerInit ==
  /\ change \in [Entry -> [user : User, by : Int]]
  /\ balance \in [User -> Nat]
  /\ posted = {}

Post(x) ==
  LET u == change[x].user IN
  /\ x \notin posted
  /\ x \in Checked => balance[u] + change[x].by >= 0
  /\ balance' = [balance EXCEPT ![u] = @ + change[x].by]
  /\ posted' = posted \cup {x}
  /\ UNCHANGED change

LedgerNext == \E x \in Entry : Post(x)

LedgerSpec == LedgerInit /\ [][LedgerNext]_ledgerVars
=============================================================================
