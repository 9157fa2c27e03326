-------------------------------- MODULE Swap --------------------------------
(***************************************************************************)
(* The application as a library of the Exchange application (main.c,       *)
(* swap/): it checks an address, prints an amount, or starts app_main to   *)
(* sign, without asking the user, the one payment the Exchange asks for.   *)
(* What is signed comes from a host and arrives in pieces, parsed by the   *)
(* re-entrant parse_tx_xdr; swap_check compares what that left in memory.  *)
(***************************************************************************)
EXTENDS Integers, SequencesExt

CONSTANTS
  Requests,      \* what the Exchange may ask to be signed
  TxHeaders,       \* the headers a host sends
  TxOperations,    \* and the operations
  Unparsable,    \* data that do not parse
  Keys,          \* the printed keys the application derives
  MaxItems,      \* RAW_TX_MAX_SIZE, in headers and operations; more than one APDU has room for
  ByteBase,      \* 256
  AmountBytes,   \* sizeof(uint64_t)
  MaxPrintable,  \* the largest amount print_amount has room for
  MemoSize,      \* sizeof(G_swap_values.memo)
  LongAddresses, \* the addresses that do not fit G_swap_values.destination
  Nil            \* a null pointer; memory cleared by explicit_bzero

\* A string is a sequence of characters, the last of which C does not store: 0 ends it.
Bytes      == Seq(0 .. ByteBase - 1)
Request    == [amount : Bytes, fee : Bytes, destination : Keys \cup LongAddresses, memo : Bytes]
Header     == [envelope : {"tx", "feeBump"}, count : Nat, network : {"public", "other"},
               fee : Nat, memo : [type : {"none", "text", "id"}, text : Bytes]]
Operation  == [type : {"payment", "other"}, native : BOOLEAN, amount : Nat,
               destination : Keys, source : BOOLEAN]

ASSUME SwapOK ==
  /\ Requests \subseteq Request /\ TxHeaders \subseteq Header /\ TxOperations \subseteq Operation
  /\ \A q \in Requests : \A i \in DOMAIN q.memo : q.memo[i] # 0
  /\ Nil \notin TxHeaders \cup TxOperations \cup {Unparsable} \cup Requests \cup Keys
  /\ Unparsable \notin TxHeaders \cup TxOperations
  /\ MaxItems \in Nat \ {0, 1} /\ AmountBytes \in Nat \ {0}
  /\ MaxPrintable \in Nat /\ MemoSize \in Nat \ {0}
  /\ ByteBase \in Nat \ {0, 1} /\ LongAddresses \cap Keys = {}

VARIABLES
  lib,       \* "idle" in the Exchange, "app" in app_main
  result,    \* what the last call of the library returned and wrote
  values,    \* G_swap_values
  ctx,       \* G_context: see Context
  answer,    \* the answer to the last command, and the data it is about
  request,   \* history: what the Exchange asked for
  extended   \* history: the host has sent more data after a transaction that parsed

vars == <<lib, result, values, ctx, answer, request, extended>>

Item    == TxHeaders \cup TxOperations \cup {Unparsable}
Context == [tx : BOOLEAN, raw : Seq(Item), offset : Nat, header : TxHeaders \cup {Nil},
            details : TxOperations \cup {Nil}]
ZeroContext == [tx |-> FALSE, raw |-> <<>>, offset |-> 0, header |-> Nil, details |-> Nil]

Values == [amount : Nat, fee : Nat, destination : Keys \cup {Nil}, memo : Bytes]
ZeroValues == [amount |-> 0, fee |-> 0, destination |-> Nil, memo |-> <<>>]

Statuses == {"none", "OK", "WRONG_TX_LENGTH", "BAD_STATE", "THROWN", "SWAP_CHECKING_FAIL",
             "SIGNATURE_FAIL", "signature"}
Sw(s) == [status |-> s, of |-> <<>>]

\* "written" is printable_amount, Nil for the empty string.
Result(call, returned, written) == [call |-> call, returned |-> returned, written |-> written]
NoResult == Result("none", 0, Nil)
-----------------------------------------------------------------------------
(* swap_lib_calls.c, handle_swap_sign_transaction.c                         *)

Powers[n \in Nat] == IF n = 0 THEN 1 ELSE Powers[n - 1] * ByteBase
Width == Powers[AmountBytes]

\* The loop of swap_str_to_u64, in a uint64_t: shift by a byte, and put the next one there.
Accumulated[s \in Bytes] ==
  IF s = <<>> THEN 0 ELSE ((Accumulated[Front(s)] * ByteBase) % Width) + Last(s)

\* Mutant: the length is not checked, and the most significant bytes are shifted out.
SwapStrShifted(s) == [ok |-> TRUE, value |-> Accumulated[s]]

SwapStrToU64(s) ==
  IF Len(s) > AmountBytes THEN [ok |-> FALSE, value |-> 0]
  ELSE [ok |-> TRUE, value |-> Accumulated[s]]

\* Mutant: a memo that does not fit is cut by strlcpy.
CopyCut(q) ==
  LET n == IF Len(q.memo) >= MemoSize THEN MemoSize - 1 ELSE Len(q.memo) IN
  [ok |-> q.destination \notin LongAddresses,
   values |-> [amount |-> SwapStrToU64(q.amount).value, fee |-> SwapStrToU64(q.fee).value,
               destination |-> q.destination, memo |-> SubSeq(q.memo, 1, n)]]

\* copy_transaction_parameters
Copy(q) ==
  [ok |-> /\ q.destination \notin LongAddresses /\ Len(q.memo) < MemoSize
          /\ SwapStrToU64(q.amount).ok /\ SwapStrToU64(q.fee).ok,
   values |-> [amount |-> SwapStrToU64(q.amount).value, fee |-> SwapStrToU64(q.fee).value,
               destination |-> q.destination, memo |-> q.memo]]

\* library_main is called, and returns to the Exchange.
Call(r) ==
  /\ lib = "idle"
  /\ result' = r
  /\ UNCHANGED <<lib, values, ctx, answer, request, extended>>

\* handle_check_address of an address and of parameters that name the path of key; Nil
\* stands for a null pointer, and for a path that is refused or that no key is derived
\* from, with an exception or without one.
CheckAddress ==
  \E address \in Keys \cup LongAddresses \cup {Nil}, key \in Keys \cup {Nil} :
    Call(Result("address", IF address = key /\ key # Nil THEN 1 ELSE 0, Nil))

\* handle_get_printable_amount
GetPrintableAmount ==
  \E q \in Requests :
    LET amount == SwapStrToU64(q.amount) IN
    Call(IF amount.ok /\ amount.value <= MaxPrintable
         THEN Result("amount", 0, amount.value)
         ELSE Result("amount", IF amount.ok THEN 1 ELSE 0, Nil))

\* The call that is not handled there: app_main starts if the parameters can be copied.
SignTransaction ==
  \E q \in Requests :
    \/ ~Copy(q).ok /\ Call(Result("sign", 0, Nil))
    \/ /\ Copy(q).ok
       /\ lib = "idle" /\ lib' = "app"
       /\ values' = Copy(q).values
       /\ ctx' = ZeroContext /\ answer' = Sw("none")
       /\ request' = q /\ extended' = FALSE
       /\ result' = NoResult
-----------------------------------------------------------------------------
(* handler_sign_tx in a swap.                                               *)

\* parse_tx_xdr: the place in memory it leaves, and whether it succeeds; the details of
\* an operation that does not parse are cleared or half written.
Parse(c) ==
  LET fromStart == c.offset = 0
      headed    == fromStart => c.raw # <<>> /\ Head(c.raw) \in TxHeaders
      next      == IF fromStart THEN 2 ELSE c.offset + 1
      ok        == headed /\ next <= Len(c.raw) /\ c.raw[next] \in TxOperations
  IN [ok |-> ok,
      ctx |-> [c EXCEPT !.header = IF ~fromStart THEN @ ELSE IF headed THEN Head(c.raw) ELSE Nil,
                        !.details = IF ok THEN c.raw[next] ELSE Nil,
                        !.offset = IF ok THEN next ELSE @]]

\* strcmp sees a string up to the first 0 in it.
CString(s) ==
  LET ends == {i \in 1 .. Len(s) : s[i] = 0} IN
  IF ends = {} THEN s ELSE SubSeq(s, 1, (CHOOSE i \in ends : \A j \in ends : i <= j) - 1)

\* Mutant: the number of operations is not looked at.
SwapCheckUncounted(c) ==
  LET op == c.details
      h  == c.header
  IN /\ h.envelope = "tx" /\ h.network = "public" /\ h.fee = values.fee
     /\ op.type = "payment" /\ op.native /\ op.amount = values.amount
     /\ op.destination = values.destination /\ ~op.source
     /\ h.memo.type = "text" /\ CString(h.memo.text) = values.memo

\* Mutant: the length of the memo is compared too, and that of the text is one more.
SwapCheckLonger(c) ==
  /\ SwapCheckUncounted(c) /\ c.header.count = 1
  /\ Len(c.header.memo.text) = Len(values.memo) + 1

SwapCheck(c) ==
  LET op == c.details
      h  == c.header
  IN /\ h.envelope = "tx" /\ h.count = 1
     /\ op.type = "payment" /\ op.native /\ op.amount = values.amount
     /\ op.destination = values.destination /\ ~op.source
     /\ h.memo.type = "text" /\ CString(h.memo.text) = values.memo
     /\ h.network = "public" /\ h.fee = values.fee

\* The handler leaves context c and answers a.
Reply(c, a) ==
  /\ ctx' = c /\ answer' = a
  /\ UNCHANGED <<lib, result, values, request>>

\* The data are in c, and more follow or they are parsed, checked and signed.
Finish(c) ==
  LET p == Parse(c) IN
  \/ Reply(c, Sw("OK"))
  \/ ~p.ok /\ Reply(p.ctx, Sw("THROWN"))
  \/ p.ok /\ ~SwapCheck(p.ctx) /\ Reply(p.ctx, [status |-> "SWAP_CHECKING_FAIL", of |-> c.raw])
  \/ p.ok /\ SwapCheck(p.ctx) /\ Reply(p.ctx, [status |-> "signature", of |-> c.raw])
  \/ p.ok /\ SwapCheck(p.ctx) /\ Reply(p.ctx, Sw("SIGNATURE_FAIL"))

\* A header and an operation come together or not, everything else one by one.
Pieces == {<<i>> : i \in Item}
Chunks == {<<>>} \cup Pieces \cup {<<h, o>> : h \in TxHeaders, o \in TxOperations}

\* Mutant: the context is not cleared for a new transaction.
SignTxFirstKeeps ==
  /\ lib = "app"
  /\ \E chunk \in Chunks : Finish([ctx EXCEPT !.tx = TRUE, !.raw = chunk])
  /\ extended' = FALSE

\* The path is read as in StellarApp; here it is one that can be read.
SignTxFirst ==
  /\ lib = "app"
  /\ \E chunk \in Chunks : Finish([ZeroContext EXCEPT !.tx = TRUE, !.raw = chunk])
  /\ extended' = FALSE

\* The offset is where the last operation that parsed ended.
SignTxNext ==
  /\ lib = "app"
  /\ \E chunk \in Pieces :
       \/ Len(ctx.raw) + Len(chunk) > MaxItems /\ Reply(ctx, Sw("WRONG_TX_LENGTH"))
       \/ ~ctx.tx /\ Reply(ctx, Sw("BAD_STATE"))
       \/ /\ Len(ctx.raw) + Len(chunk) <= MaxItems /\ ctx.tx
          /\ Finish([ctx EXCEPT !.raw = @ \o chunk])
  /\ extended' = (extended \/ ctx.offset > 0)

\* GET_PUBLIC_KEY and SIGN_TX_HASH clear the context for another kind of request.
OtherRequest == lib = "app" /\ Reply(ZeroContext, Sw("OK")) /\ UNCHANGED extended

\* app_main returns, or the device is reset: the memory is lost.
Leave ==
  /\ lib = "app" /\ lib' = "idle"
  /\ result' = NoResult /\ values' = ZeroValues /\ ctx' = ZeroContext /\ answer' = Sw("none")
  /\ request' = Nil /\ extended' = FALSE
-----------------------------------------------------------------------------
Init ==
  /\ lib = "idle" /\ result = NoResult /\ values = ZeroValues
  /\ ctx = ZeroContext /\ answer = Sw("none")
  /\ request = Nil /\ extended = FALSE

Next == \/ CheckAddress \/ GetPrintableAmount \/ SignTransaction
        \/ SignTxFirst \/ SignTxNext \/ OtherRequest \/ Leave

Spec == Init /\ [][Next]_vars
-----------------------------------------------------------------------------
(* Properties.                                                              *)

\* Every variable has its type, an amount that of a uint64_t; what is parsed is never beyond
\* what was sent.
TypeOK ==
  /\ lib \in {"idle", "app"}
  /\ result.call \in {"none", "address", "amount", "sign"} /\ result.returned \in {0, 1}
  /\ values \in Values /\ values.amount < Width /\ values.fee < Width
  /\ ctx \in Context /\ ctx.offset <= Len(ctx.raw) /\ Len(ctx.raw) <= MaxItems
  /\ answer.status \in Statuses /\ answer.of \in Seq(Item)
  /\ request \in Requests \cup {Nil}
  /\ extended \in BOOLEAN

\* The number that bytes are.
BigEndian[s \in Bytes] == IF s = <<>> THEN 0 ELSE BigEndian[Front(s)] * ByteBase + Last(s)

\* The data a host sent are a transaction on the public network whose k-th item is the
\* payment q in every particular the Exchange named, and the only one it announces.  Of a
\* memo C compares what is before the first zero.
IsPayment(data, k, q) ==
  /\ k \in 2 .. Len(data) /\ data[1] \in TxHeaders /\ data[k] \in TxOperations
  /\ LET h == data[1]
         op == data[k]
     IN /\ h.envelope = "tx" /\ h.network = "public" /\ h.count = 1
        /\ h.fee = BigEndian[q.fee]
        /\ h.memo.type = "text" /\ CString(h.memo.text) = q.memo
        /\ op.type = "payment" /\ op.native /\ ~op.source
        /\ op.amount = BigEndian[q.amount] /\ op.destination = q.destination

\* What is signed in a swap is the payment the Exchange asked for, not what a conversion,
\* a truncation or an operation read earlier made of it, in whatever pieces it was sent and
\* whatever was refused before; where data were added to a transaction that had parsed, the
\* payment is one of the operations in them (copy_transaction_parameters, handler_sign_tx,
\* swap_check).
SignsTheRequest ==
  answer.status = "signature" =>
    \E k \in DOMAIN answer.of : IsPayment(answer.of, k, request) /\ (extended \/ k = 2)

\* The payment the Exchange asked for is never refused by swap_check.
RefusesOnlyOthers ==
  answer.status = "SWAP_CHECKING_FAIL" /\ ~extended => ~IsPayment(answer.of, 2, request)
=============================================================================
