------------------------------- MODULE BankLog -------------------------------
(***************************************************************************)
(* Plaid, as the code uses it (external): for every item, one bank login,  *)
(* a log of what happened to its transactions.  transactions_sync returns  *)
(* the entries after a cursor, which is a position in that log.            *)
(***************************************************************************)
EXTENDS Naturals, Sequences, FiniteSets

CONSTANTS
  Items, Accts, Txns,  \* bank logins, their accounts, the accounts' transactions
  ItemOf, AcctOf,      \* the item of an account, the account of a transaction
  MaxVersion           \* bound: how often the bank modifies a transaction

ASSUME BankAssumption ==
  /\ Items # {}
  /\ ItemOf \in [Accts -> Items]
  /\ AcctOf \in [Txns -> Accts]
  /\ MaxVersion \in Nat

VARIABLE bank

Kinds    == {"added", "modified", "removed"}
Versions == 0 .. MaxVersion
Entry    == [kind : Kinds, txn : Txns, version : Versions]

Home(t)          == ItemOf[AcctOf[t]]
BankLength(t)    == Len(bank[Home(t)])
MentionsOf(t, n) == {i \in 1 .. n : bank[Home(t)][i].txn = t}

(* What the first n entries of its log say of t: {} when it does not exist  *)
(* (yet, or any more), otherwise the set of its one current version.        *)
HistoryAt(t, n) ==
  {bank[Home(t)][i].version : i \in
     {j \in MentionsOf(t, n) : /\ bank[Home(t)][j].kind # "removed"
                               /\ \A m \in MentionsOf(t, n) : m <= j}}

RemovedUpstream(t) ==
  \E i \in MentionsOf(t, BankLength(t)) : bank[Home(t)][i].kind = "removed"

BankInit == bank = [k \in Items |-> << >>]

Report(t, kind, version) ==
  bank' = [bank EXCEPT ![Home(t)] =
             Append(@, [kind |-> kind, txn |-> t, version |-> version])]

BankAdds(t) ==
  /\ MentionsOf(t, BankLength(t)) = {}
  /\ Report(t, "added", 0)

BankModifies(t) ==
  \E v \in HistoryAt(t, BankLength(t)) :
    /\ v < MaxVersion
    /\ Report(t, "modified", v + 1)

BankRemoves(t) ==
  /\ HistoryAt(t, BankLength(t)) # {}
  /\ Report(t, "removed", 0)

BankNext == \E t \in Txns : BankAdds(t) \/ BankModifies(t) \/ BankRemoves(t)
=============================================================================
