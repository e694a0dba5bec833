------------------------------ MODULE BankBook ------------------------------
(***************************************************************************)
(* What the synchronisation promises, without workers, pages or replays.   *)
(*                                                                         *)
(* book[t] is what the application shows of transaction t: no version, or  *)
(* one.  acked[k] is how much of item k's log is settled for good.  A      *)
(* transaction may be shown in any state the bank reported from acked on   *)
(* (a replay may show an older one of these again), and acked moves only   *)
(* forward, to a point no shown transaction is older than.  Waived         *)
(* transactions (archived accounts) are outside the promise.               *)
(***************************************************************************)
EXTENDS BankLog

VARIABLES acked, book, waived

bookVars == <<bank, acked, book, waived>>

UpToDate(t, n) == \E m \in n .. BankLength(t) : book[t] = HistoryAt(t, m)

BookInit ==
  /\ BankInit
  /\ acked = [k \in Items |-> 0]
  /\ book = [t \in Txns |-> {}]
  /\ waived = {}

Post == BankNext /\ UNCHANGED <<acked, book, waived>>

Show(t) ==
  /\ \E m \in acked[Home(t)] .. BankLength(t) :
       book' = [book EXCEPT ![t] = HistoryAt(t, m)]
  /\ UNCHANGED <<bank, acked, waived>>

ShowWaived(t) ==
  /\ t \in waived
  /\ \E v \in {{}} \cup {{x} : x \in Versions} : book' = [book EXCEPT ![t] = v]
  /\ UNCHANGED <<bank, acked, waived>>

Waive(t) ==
  /\ waived' = waived \cup {t}
  /\ UNCHANGED <<bank, acked, book>>

Settle(k) ==
  /\ \E n \in acked[k] .. Len(bank[k]) :
       /\ \A t \in Txns \ waived : Home(t) = k => UpToDate(t, n)
       /\ acked' = [acked EXCEPT ![k] = n]
  /\ UNCHANGED <<bank, book, waived>>

BookNext ==
  \/ Post
  \/ \E t \in Txns : Show(t) \/ ShowWaived(t) \/ Waive(t)
  \/ \E k \in Items : Settle(k)

BookSpec == BookInit /\ [][BookNext]_bookVars
=============================================================================
