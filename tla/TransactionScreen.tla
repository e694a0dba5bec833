------------------------- MODULE TransactionScreen -------------------------
(***************************************************************************)
(* The page of one transaction: TransactionPage, which holds it, the       *)
(* details and the note that update it, its tags, the default tags of its  *)
(* merchant in the hover card, and the dialog that splits it.              *)
(*                                                                         *)
(* Type and category are sent and answered with the whole transaction;     *)
(* txStore.edit stands for them, 1 being the merchant's default.  The date *)
(* and the note, sent and answered alike, are left out.  An answer that    *)
(* brings only a tag or the merchant is put into the transaction as the    *)
(* page held it when the request was sent, though default tags applied to  *)
(* all of the merchant's transactions change this one as well.  A tag of a *)
(* transaction is a row of its own, known by its id, and one tag may have  *)
(* two; all of them are one user's.  Amounts are in cents, so that the     *)
(* rounding to cents of the dialog is exact.  The bank sync is external.   *)
(***************************************************************************)
EXTENDS Integers, Sequences, SequencesExt, FiniteSets, Filters

CONSTANTS
  TxTags,      \* tags, for transactions and as defaults of the merchant
  NotOpen,     \* no dialog; no amount typed yet
  Amount,      \* the transaction's amount
  TypedAmounts,\* the amounts the user types
  MaxRemainder,\* bound: the remainder that the user puts into the last row
  MaxRows,     \* bound: the rows of the split dialog, and their keys
  MaxTxSent    \* bound: the requests of a behaviour

ASSUME AmountAssumption == Amount \in Int \ {0} /\ TypedAmounts \subseteq Int
ASSUME TxBoundsAssumption == MaxRows \in Nat \ {0, 1} /\ MaxTxSent \in Nat \ {0}

\* A row of tag and transaction: its tag and its id, which is the number of the
\* request that made it.
TagRows == TxTags \X (1..MaxTxSent)

\* kids: the amounts of the split that is there.
Transactions ==
  [edit : 1..2, tags : SUBSET TagRows, defaults : SUBSET TxTags, kids : Seq(Int),
   amount : Int, pending : BOOLEAN]

ASSUME NotOpenAssumption == NotOpen \notin Transactions \cup Int /\ \A rows \in SUBSET TagRows : rows # NotOpen

VARIABLES
  tx,         \* the transaction held, or NotOpen until the first answer
  txLoading,
  txSplit,    \* the rows of the split dialog, or NotOpen
  txSaving,   \* its saving
  txAsk,      \* what is to be confirmed: a removal of the split, default tags
  txNet, txSent,
  txStore,    \* the server's transaction
  txCalm,     \* history: all came in order, nothing failed or was refused, nobody else
              \* changed it
  txWhole,    \* history: no answer was put into an older transaction than the one held
  txApplied   \* history: the rows of default tags applied to all since the server last
              \* gave the transaction whole, or NotOpen

txDialogs == <<txSplit, txSaving, txAsk>>
txVars == <<tx, txLoading, txDialogs, txNet, txSent, txStore, txCalm, txWhole, txApplied>>
txHistory == <<txCalm, txWhole, txApplied>>

TXInit ==
  /\ txStore \in [edit : {1}, tags : {{}}, defaults : {{}}, kids : {<< >>},
                  amount : {Amount}, pending : BOOLEAN]
  /\ tx = NotOpen /\ txLoading = TRUE
  /\ txSplit = NotOpen /\ txSaving = FALSE /\ txAsk = NotOpen
  /\ txNet = <<[kind |-> "get", what |-> NotOpen, was |-> NotOpen, served |-> FALSE, answer |-> NotOpen, id |-> 1]>>
  /\ txSent = 1 /\ txCalm = TRUE /\ txWhole = TRUE /\ txApplied = NotOpen

\* Requests whose answer is put into the transaction held.
Partial == {"tag", "untag", "default"}

TXSend(kind, what) ==
  /\ txSent < MaxTxSent
  /\ txSent' = txSent + 1
  /\ txNet' = Append(txNet, [kind |-> kind, what |-> what, was |-> IF kind \in Partial THEN tx ELSE NotOpen,
                             served |-> FALSE, answer |-> NotOpen, id |-> txSent'])

TagsOf(t) == {row[1] : row \in t.tags}

TXDrawn == ~txLoading /\ tx # NotOpen

\* A dialog covers the page.
Clickable == TXDrawn /\ txSplit = NotOpen /\ txAsk = NotOpen

-----------------------------------------------------------------------------
(* Details, note, tags. *)

EditOrTag ==
  /\ Clickable
  /\ \/ \E v \in 1..2 : v # tx.edit /\ TXSend("update", v)
     \/ \E t \in TxTags \ TagsOf(tx) : TXSend("tag", t)
     \/ \E row \in tx.tags : TXSend("untag", row)
     \/ TXSend("get", NotOpen)    \* createAndAddTag
  /\ UNCHANGED <<tx, txLoading, txDialogs, txStore, txHistory>>

(* The hover card: the new list of default tags is made as the tag is        *)
(* chosen, and sent as that is confirmed.                                    *)
AskDefault ==
  /\ Clickable
  /\ \E t \in TxTags \ tx.defaults : txAsk' = [do |-> "default", list |-> tx.defaults \cup {t}]
  /\ UNCHANGED <<tx, txLoading, txSplit, txSaving, txNet, txSent, txStore, txHistory>>

RemoveDefault ==
  /\ Clickable
  /\ \E t \in tx.defaults :
       TXSend("default", [list |-> tx.defaults \ {t}, apply |-> FALSE])
  /\ UNCHANGED <<tx, txLoading, txDialogs, txStore, txHistory>>

AskUnsplit ==
  /\ Clickable /\ tx.kids # << >>
  /\ txAsk' = [do |-> "unsplit", list |-> {}]
  /\ UNCHANGED <<tx, txLoading, txSplit, txSaving, txNet, txSent, txStore, txHistory>>

TXConfirm ==
  /\ TXDrawn /\ txAsk # NotOpen
  /\ IF txAsk.do = "unsplit" THEN TXSend("unsplit", NotOpen)
     ELSE \E all \in BOOLEAN : TXSend("default", [list |-> txAsk.list, apply |-> all])
  /\ txAsk' = NotOpen
  /\ UNCHANGED <<tx, txLoading, txSplit, txSaving, txStore, txHistory>>

TXCancel ==
  /\ txAsk # NotOpen
  /\ txAsk' = NotOpen
  /\ UNCHANGED <<tx, txLoading, txSplit, txSaving, txNet, txSent, txStore, txHistory>>

-----------------------------------------------------------------------------
(* The split dialog. *)

(* Mutant: a new split begins with one row. *)
SeededOne(t) ==
  IF t.kids # << >> THEN [i \in DOMAIN t.kids |-> [key |-> i - 1, amount |-> t.kids[i]]]
                    ELSE << [key |-> 0, amount |-> NotOpen] >>

(* Its rows as it opens, and again whenever the transaction is set while it  *)
(* is open: the split that is there, or two empty rows.                      *)
Seeded(t) ==
  IF t.kids # << >> THEN [i \in DOMAIN t.kids |-> [key |-> i - 1, amount |-> t.kids[i]]]
                    ELSE [i \in 1..2 |-> [key |-> i - 1, amount |-> NotOpen]]

NumberOf(amount) == IF amount = NotOpen THEN 0 ELSE amount

SumOf(amounts) == FoldLeft(LAMBDA sum, a : sum + a, 0, amounts)

Allocated(rows) == SumOf([i \in DOMAIN rows |-> NumberOf(rows[i].amount)])

(* Mutant: the amounts need not add up. *)
CanSaveAny(rows, amount) == Len(rows) >= 2 /\ \A i \in DOMAIN rows : NumberOf(rows[i].amount) # 0

CanSave(rows, amount) ==
  /\ Len(rows) >= 2
  /\ \A i \in DOMAIN rows : NumberOf(rows[i].amount) # 0
  /\ Allocated(rows) = amount

(* Mutant: a new row's key is its place. *)
KeyByPlace(rows) == Len(rows)

NextKey(rows) == (CHOOSE k \in {rows[i].key : i \in DOMAIN rows} :
                    \A i \in DOMAIN rows : rows[i].key <= k) + 1

RowsBecome(rows) ==
  /\ txSplit' = rows
  /\ UNCHANGED <<tx, txLoading, txSaving, txAsk, txNet, txSent, txStore, txHistory>>

(* canSplit: not while it is pending. *)
OpenSplit ==
  /\ Clickable
  /\ ~tx.pending \/ tx.kids # << >>
  /\ RowsBecome(Seeded(tx))

CloseSplit == txSplit # NotOpen /\ RowsBecome(NotOpen)

\* updateRow finds the row by its key.
WithAmount(key, amount) ==
  [i \in DOMAIN txSplit |-> IF txSplit[i].key = key THEN [txSplit[i] EXCEPT !.amount = amount]
                                                    ELSE txSplit[i]]

EditRows ==
  /\ txSplit # NotOpen
  /\ \/ \E i \in DOMAIN txSplit, a \in TypedAmounts : RowsBecome(WithAmount(txSplit[i].key, a))
     \/ /\ Len(txSplit) < MaxRows /\ NextKey(txSplit) <= MaxRows
        /\ RowsBecome(Append(txSplit, [key |-> NextKey(txSplit), amount |-> NotOpen]))
     \/ /\ Len(txSplit) > 2
        /\ \E i \in DOMAIN txSplit :
             RowsBecome(Filtered(txSplit, {j \in DOMAIN txSplit : txSplit[j].key # txSplit[i].key}))
     \/ /\ Allocated(txSplit) # tx.amount
        /\ LET last == txSplit[Len(txSplit)]
               rest == NumberOf(last.amount) + tx.amount - Allocated(txSplit)
           IN  rest <= MaxRemainder /\ RowsBecome(WithAmount(last.key, rest))

SaveSplit ==
  /\ txSplit # NotOpen /\ ~txSaving
  /\ CanSave(txSplit, tx.amount)
  /\ TXSend("split", [amount |-> tx.amount, rows |-> [i \in DOMAIN txSplit |-> txSplit[i].amount]])
  /\ txSaving' = TRUE
  /\ UNCHANGED <<tx, txLoading, txSplit, txAsk, txStore, txHistory>>

-----------------------------------------------------------------------------
(* Requests. *)

(* The server takes a split that adds up, of a posted transaction, and       *)
(* removes a row that is there.                                              *)
Accepted(q) ==
  /\ q.kind = "split" => ~txStore.pending /\ SumOf(q.what.rows) = txStore.amount
  /\ q.kind = "untag" => q.what \in txStore.tags

Applies(q) == q.kind = "default" /\ q.what.apply

\* Default tags are applied to a transaction that does not have them.
RowsApplied(q) == (q.what.list \ TagsOf(txStore)) \X {q.id}

TXStored(q) ==
  CASE q.kind = "update"  -> [txStore EXCEPT !.edit = q.what]
    [] q.kind = "tag"     -> [txStore EXCEPT !.tags = @ \cup {<<q.what, q.id>>}]
    [] q.kind = "untag"   -> [txStore EXCEPT !.tags = @ \ {q.what}]
    [] Applies(q)         -> [txStore EXCEPT !.defaults = q.what.list, !.edit = 1,
                                             !.tags = @ \cup RowsApplied(q)]
    [] q.kind = "default" /\ ~q.what.apply -> [txStore EXCEPT !.defaults = q.what.list]
    [] q.kind = "unsplit" -> [txStore EXCEPT !.kids = << >>]
    [] q.kind = "split"   -> [txStore EXCEPT !.kids = q.what.rows]
    [] OTHER              -> txStore

\* What the answers leave the page without, once this one is given.
AppliedAfter(q) ==
  IF Accepted(q) /\ q.kind \notin Partial THEN NotOpen
  ELSE IF Applies(q) THEN RowsApplied(q) \cup (IF txApplied = NotOpen THEN {} ELSE txApplied)
  ELSE txApplied

TXServe(i) ==
  LET q == txNet[i] IN
  /\ ~q.served
  /\ txStore' = IF Accepted(q) THEN TXStored(q) ELSE txStore
  /\ txNet' = [txNet EXCEPT ![i].served = TRUE,
                            ![i].answer = IF Accepted(q) THEN txStore' ELSE NotOpen]
  /\ txApplied' = AppliedAfter(q)
  /\ txCalm' = (txCalm /\ Accepted(q) /\ \A j \in 1..(i - 1) : txNet[j].served)
  /\ UNCHANGED <<tx, txLoading, txDialogs, txSent, txWhole>>

(* Mutant: what came without the whole transaction is not put into it. *)
TXPutWhole(q) == IF q.kind \in Partial THEN q.was ELSE q.answer

(* What the page makes of an answer: a tag or the merchant is put into the   *)
(* transaction of the time the request was sent.                             *)
TXPut(q) ==
  CASE q.kind = "tag"     -> [q.was EXCEPT !.tags = @ \cup {<<q.what, q.id>>}]
    [] q.kind = "untag"   -> [q.was EXCEPT !.tags = @ \ {q.what}]
    [] q.kind = "default" -> [q.was EXCEPT !.defaults = q.what.list]
    [] OTHER              -> q.answer

(* The dialog that is open is filled anew, or closed by the end of a save.   *)
TransactionSet(q) ==
  /\ tx' = TXPut(q)
  /\ txSplit' = IF txSplit = NotOpen \/ q.kind = "split" THEN NotOpen ELSE Seeded(tx')
  /\ txWhole' = (txWhole /\ (q.kind \in Partial => q.was = tx))

TXAnswer(i) ==
  LET q == txNet[i] IN
  /\ q.served
  /\ txNet' = RemoveAt(txNet, i)
  /\ txLoading' = FALSE
  /\ txSaving' = (txSaving /\ q.kind # "split")
  /\ IF q.answer # NotOpen THEN TransactionSet(q) ELSE UNCHANGED <<tx, txSplit, txWhole>>
  /\ txCalm' = (txCalm /\ i = 1)
  /\ UNCHANGED <<txAsk, txSent, txStore, txApplied>>

(* A first answer that fails leaves the page without its transaction. *)
TXFail(i) ==
  LET q == txNet[i] IN
  /\ txNet' = RemoveAt(txNet, i)
  /\ txLoading' = FALSE
  /\ txSaving' = (txSaving /\ q.kind # "split")
  /\ txCalm' = FALSE
  /\ UNCHANGED <<tx, txSplit, txAsk, txSent, txStore, txWhole, txApplied>>

(* The bank's sync changes the amount. *)
BankChanges ==
  /\ txStore.amount = Amount
  /\ txStore' = [txStore EXCEPT !.amount = Amount + 1]
  /\ txCalm' = FALSE
  /\ UNCHANGED <<tx, txLoading, txDialogs, txNet, txSent, txWhole, txApplied>>

TXNext ==
  \/ EditOrTag \/ AskDefault \/ RemoveDefault \/ AskUnsplit \/ TXConfirm \/ TXCancel
  \/ OpenSplit \/ CloseSplit \/ EditRows \/ SaveSplit
  \/ \E i \in DOMAIN txNet : TXServe(i) \/ TXAnswer(i) \/ TXFail(i)
  \/ BankChanges

TXSpec == TXInit /\ [][TXNext]_txVars

-----------------------------------------------------------------------------
TXTypeOK ==
  /\ txLoading \in BOOLEAN /\ txSaving \in BOOLEAN
  /\ tx # NotOpen => tx.tags \subseteq TagRows /\ tx.defaults \subseteq TxTags /\ tx.amount \in Int
  /\ txSplit # NotOpen => tx # NotOpen /\ Len(txSplit) \in 2..MaxRows
  /\ txSent \in 0..MaxTxSent /\ Len(txNet) <= txSent

\* All of a transaction that was not applied behind the page's back.
AsKnown(t, applied) ==
  IF applied = NotOpen THEN t ELSE [t EXCEPT !.edit = 1, !.tags = @ \ applied]

(* Once nothing is under way the page holds the server's transaction, after  *)
(* edits, tags, splits and default tags in any combination: but for what     *)
(* default tags that were applied to all did to it, the rows of those tags   *)
(* and the merchant's default category, until an answer next brings it       *)
(* whole.  So long as all came in order, nothing failed, nobody else changed *)
(* it, and no answer was put into a transaction older than the one held.     *)
TransactionSettled ==
  txNet = << >> /\ txCalm /\ txWhole => AsKnown(tx, txApplied) = AsKnown(txStore, txApplied)

(* A split is refused only if the bank has changed the amount since: what    *)
(* the dialog lets through adds up to the amount, whatever rows were added,  *)
(* removed, filled with the remainder or filled anew under the user's hands. *)
SplitsAccepted ==
  [][\A i \in DOMAIN txNet :
       txNet[i].kind = "split" /\ txNet[i].what.amount = txStore.amount /\ TXServe(i) => Accepted(txNet[i])]_txVars

(* No two rows of the dialog have the same key: an amount typed or a row     *)
(* removed is that row's alone, after any sequence of additions and removals. *)
RowKeysApart ==
  txSplit # NotOpen => Cardinality({txSplit[i].key : i \in DOMAIN txSplit}) = Len(txSplit)
=============================================================================
