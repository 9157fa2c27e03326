------------------------------- MODULE MCSwap -------------------------------
(* The instances of Swap that TLC checks: bytes of one decimal digit, amounts *)
(* of two bytes, memos of up to two characters.                             *)
EXTENDS Swap

CONSTANTS KeyA, KeyB, KeyLong

Asked(amount, fee, to, text) ==
  [amount |-> amount, fee |-> fee, destination |-> to, memo |-> text]

\* One that is plain, and ones that do not fit: the amount (of which the last two bytes are
\* an amount as well), the memo, the address, what is printed; and one without a memo.
MCRequests ==
  {Asked(<<1, 2>>, <<3>>, KeyA, <<7, 7>>), Asked(<<1, 1, 2>>, <<3>>, KeyA, <<7, 7>>),
   Asked(<<1, 2>>, <<0, 3>>, KeyA, <<7, 7, 7>>), Asked(<<1, 2>>, <<3>>, KeyLong, <<7>>),
   Asked(<<0, 9>>, <<3>>, KeyB, <<>>), Asked(<<9, 9>>, <<3>>, KeyB, <<7>>)}

Text(s) == [type |-> "text", text |-> s]
PlainHeader ==
  [envelope |-> "tx", count |-> 1, network |-> "public", fee |-> 3, memo |-> Text(<<7, 7>>)]

\* The header of the payment, and others that differ in one particular.
MCHeaders ==
  {PlainHeader,
   [PlainHeader EXCEPT !.envelope = "feeBump"], [PlainHeader EXCEPT !.count = 2],
   [PlainHeader EXCEPT !.network = "other"], [PlainHeader EXCEPT !.fee = 4],
   [PlainHeader EXCEPT !.memo = Text(<<7, 7, 0, 8>>)],
   [PlainHeader EXCEPT !.memo = Text(<<>>)]}

PlainPayment ==
  [type |-> "payment", native |-> TRUE, amount |-> 12, destination |-> KeyA, source |-> FALSE]
MCOperations ==
  {PlainPayment,
   [PlainPayment EXCEPT !.type = "other"], [PlainPayment EXCEPT !.native = FALSE],
   [PlainPayment EXCEPT !.source = TRUE],
   [PlainPayment EXCEPT !.destination = KeyB, !.amount = 9]}
=============================================================================
