----------------------------- MODULE StaleSaves -----------------------------
(***************************************************************************)
(* Two forms that edit a row of the ledger without a lock.  Django's       *)
(* instance.save() writes every column, so an edit that read the row       *)
(* before a transaction of the ledger and saves it afterwards writes the   *)
(* old status, or the old balances, back.                                  *)
(*                                                                         *)
(*   - merchant/views/transaction.py: a merchant changes the note of a     *)
(*     payment (PaymentSerializer.update);                                 *)
(*   - padmin/serializers.py: an administrator changes the profile of an   *)
(*     inviter and of its account (InviterSerializer.update).              *)
(*                                                                         *)
(* The note and the profile themselves are abstracted away.                *)
(***************************************************************************)
EXTENDS Payments

CONSTANT MaxEdits   \* bound: edits that are begun

VARIABLES
  note,      \* the payment row a note is being edited of, or NotEditing
  profile,   \* the account row of an inviter being edited, or NotEditing
  edits      \* number of edits begun

editing == <<note, profile, edits>>
all == <<vars, editing>>

NotEditing == [row |-> "none"]

\* What a merchant sees, and may edit, is a payment that was received: one
\* with a Transaction row.
Received(p) == payments[p].status \notin {"NONE", "UNPAID", "CANCELLED"}

\* transaction.content_object is read ...
BeginNote(p) ==
  /\ Received(p)
  /\ note = NotEditing
  /\ edits < MaxEdits
  /\ edits' = edits + 1
  /\ note' = [row |-> "payment", serial_number |-> p, read |-> payments[p]]
  /\ UNCHANGED <<vars, profile>>

\* ... and instance.save() writes all its columns.
SaveNote ==
  /\ note # NotEditing
  /\ payments' = [payments EXCEPT ![note.serial_number] = note.read]
  /\ note' = NotEditing
  /\ rows' = << >>
  /\ UNCHANGED <<refunds, coupons, balance, withdrawable, paidOut, profile, edits>>

\* Account.objects.get(id=account_id) without a lock ...
BeginProfile(k) ==
  /\ profile = NotEditing
  /\ edits < MaxEdits
  /\ edits' = edits + 1
  /\ profile' = [row |-> "account", account |-> k,
                 balance |-> [ch \in Channel |-> balance[<<k, ch>>]],
                 withdrawable |-> [ch \in Channel |-> withdrawable[<<k, ch>>]]]
  /\ UNCHANGED <<vars, note>>

\* The columns f of account a, as they were read.
WriteBack(f, a, read) ==
  [purse \in Purse |-> IF purse[1] = a THEN read[purse[2]] ELSE f[purse]]

\* ... and account.save() writes all its columns.
SaveProfile ==
  /\ profile # NotEditing
  /\ balance' = WriteBack(balance, profile.account, profile.balance)
  /\ withdrawable' = WriteBack(withdrawable, profile.account, profile.withdrawable)
  /\ profile' = NotEditing
  /\ rows' = << >>
  /\ UNCHANGED <<payments, refunds, coupons, paidOut, note, edits>>

EditInit == Init /\ note = NotEditing /\ profile = NotEditing /\ edits = 0

EditNext ==
  \/ Next /\ UNCHANGED editing
  \/ \E p \in Serial : BeginNote(p)
  \/ SaveNote
  \/ \E k \in Marketer : BeginProfile(k)
  \/ SaveProfile

EditSpec == EditInit /\ [][EditNext]_all

-----------------------------------------------------------------------------
(* Properties *)

\* The view is documented to change the note of a payment
\* (merchant/views/transaction.py:75): saving a note leaves everything else
\* of the payment as it is.
NoteEditKeepsPayment == [][SaveNote => payments' = payments]_all

\* What the profile forms say: an administrator cannot write balances: they are read_only in
\* AccountSerializer and filtered out in InviterSerializer.update.  Saving a
\* profile leaves them as they are.
ProfileEditKeepsBalances ==
  [][SaveProfile => balance' = balance /\ withdrawable' = withdrawable]_all

\* Neither form touches what the ledger keeps.
EditsKeepLedger == NoteEditKeepsPayment /\ ProfileEditKeepsBalances

=============================================================================
