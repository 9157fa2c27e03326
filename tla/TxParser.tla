------------------------------ MODULE TxParser ------------------------------
(***************************************************************************)
(* parse_tx_xdr: a recursive-descent parser over the words of a            *)
(* transaction, called again for every operation.  The readers are those   *)
(* of the module Xdr; a step is one of them called, and the stack of C     *)
(* functions under way is the sequence of the calls they have still to     *)
(* make.                                                                   *)
(***************************************************************************)
EXTENDS Xdr, FiniteSets

\* The data a host sends.  A document is the words of a transaction, cut after "size" of
\* them, and what they say in the XDR encoding: the fields of the header and of the
\* operations, up to the first that should be refused.  The k-th operation starts at
\* ends[k] and ends before ends[k + 1].
CONSTANT Documents

ASSUME DocumentsOK ==
  \A d \in Documents :
    /\ d.words \in Seq(Nat) /\ d.size \in 0 .. Len(d.words)
    /\ d.ends \in Seq(Nat) /\ Len(d.ends) = Len(d.ops) + 1

VARIABLES
  doc,      \* the document: tx_info.raw, raw_size
  status,   \* what parse_tx_xdr is doing, or how it ended
  pos,      \* buffer.offset
  todo,     \* the calls to make
  offset,   \* tx_info.offset
  opIndex,  \* tx_details.operation_index
  details,  \* the rest of tx_info: from the paths of the fields written to their values
  read      \* history: what was read in full, from every offset it was read from

vars == <<doc, status, pos, todo, offset, opIndex, details, read>>

\* What is left of a document at a place.
Left(d, p) == SubSeq(d.words, p + 1, d.size)

Under(p, f) == IF Scratch \in {p, f} THEN Scratch ELSE p \o f

\* The calls cs, made by a reader that writes at p.
CallUnder(p, c) == [reader |-> c.reader, to |-> Under(p, c.to), optional |-> c.optional]
Calls(p, cs)    == [i \in DOMAIN cs |-> CallUnder(p, cs[i])]

Written(p, v) == IF p = Scratch THEN <<>> ELSE On(p, v)

\* The fields of the header.
Header(d) == [p \in {q \in DOMAIN d : q[1] # "op"} |-> d[p]]
-----------------------------------------------------------------------------
(* One call c of a reader, and the words that are left.  The reader takes   *)
(* the first n of them, calls others and writes fields.                     *)

Done(n, calls, fields) == [ok |-> TRUE, taken |-> n, calls |-> calls, fields |-> fields]

\* Or PARSER_CHECK returns false.
Refusal == [ok |-> FALSE, taken |-> 0, calls |-> <<>>, fields |-> <<>>]

CanRead(left, n) == n <= Len(left)
Ahead(left, n)   == SubSeq(left, 1, n)

\* Mutant: what there is to read is not checked.
ReadWordsUnchecked(left, c) == Done(Size[c.reader], <<>>, <<>>)

ReadWords(left, c) ==
  LET n == Size[c.reader] IN
  IF CanRead(left, n) /\ Accepts(c.reader, Ahead(left, n))
  THEN Done(n, <<>>, Written(c.to, IF c.reader = "true" THEN <<1>> ELSE Ahead(left, n)))
  ELSE Refusal

\* Mutant: the length is not rounded up to whole words.
WordsOfExact(len) == len \div 4

WordsOf(len) == (len + 3) \div 4

\* The bytes of the last of these words after the first len bytes are zero.
Padded(words, len) ==
  (len % 4 # 0) => words[Len(words)] % (256^(4 - (len % 4))) = 0

ReadText(left, c) ==
  LET t == Texts[c.reader]
      n == WordsOf(left[1])
  IN IF /\ CanRead(left, 1) /\ left[1] \in t.min .. t.max
        /\ CanRead(left, n + 1)
        /\ t.padded => Padded(Ahead(left, n + 1), left[1])
     THEN Done(n + 1, <<>>, Written(c.to, Ahead(left, n + 1)))
     ELSE Refusal

ReadUnion(left, c) ==
  LET arms == Unions[c.reader]
      type == Narrow(c.reader, left[1])
  IN IF CanRead(left, 1) /\ type \in DOMAIN arms
     THEN Done(1, Calls(c.to, arms[type]),
               IF c.reader \in Untagged THEN <<>> ELSE Written(Under(c.to, <<"type">>), <<type>>))
     ELSE Refusal

Digits == <<"0", "1", "2", "3", "4", "5", "6", "7", "8", "9">>

\* Mutant: one element too many is accepted.
ReadArrayBeyond(left, c) ==
  IF CanRead(left, 1) /\ left[1] <= Arrays[c.reader].max + 1
  THEN Done(1, [i \in 1 .. left[1] |-> Arrays[c.reader].of], <<>>)
  ELSE Refusal

ReadArray(left, c) ==
  LET a == Arrays[c.reader] IN
  IF CanRead(left, 1) /\ left[1] <= a.max
  THEN Done(1, [i \in 1 .. left[1] |-> CallUnder(Under(c.to, <<Digits[i]>>), a.of)],
            Written(Under(c.to, <<"len">>), <<left[1]>>))
  ELSE Refusal

\* parse_optional_type
ReadOptional(left, c) ==
  IF CanRead(left, 1) /\ left[1] \in {0, 1}
  THEN Done(1, IF left[1] = 1 THEN <<Call(c.to, c.reader)>> ELSE <<>>,
            Written(Under(c.to, <<"present">>), <<left[1]>>))
  ELSE Refusal

\* Mutant: an operation is written where the header is.
CallStructMisplaced(c) ==
  Done(0, Calls(IF c.reader = "operation" THEN <<>> ELSE c.to, Structs[c.reader]), <<>>)

CallStruct(c) == Done(0, Calls(c.to, Structs[c.reader]), <<>>)

\* There are no other readers.
Outcome(left, c) ==
  IF c.optional THEN ReadOptional(left, c)
  ELSE IF c.reader \in DOMAIN Size    THEN ReadWords(left, c)
  ELSE IF c.reader \in DOMAIN Texts   THEN ReadText(left, c)
  ELSE IF c.reader \in DOMAIN Unions  THEN ReadUnion(left, c)
  ELSE IF c.reader \in DOMAIN Arrays  THEN ReadArray(left, c)
  ELSE IF c.reader \in DOMAIN Structs THEN CallStruct(c)
  ELSE Refusal

\* Mutant: parse_operation does not clear the operation before it.
KeptAll(c, fields) == fields

\* parse_operation clears the operation before it.
Kept(c, fields) == IF c.reader = "operation" THEN Header(fields) ELSE fields
-----------------------------------------------------------------------------
(* parse_tx_xdr, and what its callers do to its state.                      *)

\* The previous call has returned.
Returned == status \in {"idle", "failed"}

\* Mutant: the details of the transaction are not all cleared.
BeginCounting ==
  /\ Returned
  /\ status' = "reading"
  /\ pos' = offset
  /\ IF offset = 0
     THEN /\ details' = [p \in DOMAIN details \cap {<<"network">>, <<"type">>} |-> details[p]]
          /\ todo' = <<Inline("envelope"), Read("op", "operation")>>
     ELSE /\ todo' = <<Read("op", "operation")>>
          /\ UNCHANGED details
  /\ UNCHANGED <<doc, offset, opIndex, read>>

Begin ==
  /\ Returned
  /\ status' = "reading"
  /\ pos' = offset
  /\ IF offset = 0
     THEN /\ details' = [p \in DOMAIN details \cap {<<"network">>, <<"type">>} |-> details[p]]
          /\ opIndex' = 0
          /\ todo' = <<Inline("envelope"), Read("op", "operation")>>
     ELSE /\ todo' = <<Read("op", "operation")>>
          /\ UNCHANGED <<details, opIndex>>
  /\ UNCHANGED <<doc, offset, read>>

\* The reader is done: those it calls are next.
Proceed(c, o) ==
  /\ pos' = pos + o.taken
  /\ todo' = o.calls \o Tail(todo)
  /\ details' = o.fields ++ Kept(c, details)
  /\ UNCHANGED status

\* It is refused: every caller returns false at once.  An unknown envelope type is an
\* exception.
Fail(c) ==
  /\ status' = IF c.reader = "envelope_type" /\ CanRead(Left(doc, pos), 1) THEN "thrown"
               ELSE "failed"
  /\ todo' = <<>>
  /\ UNCHANGED <<pos, details>>

Step ==
  /\ status = "reading" /\ todo # <<>>
  /\ LET c == Head(todo)
         o == Outcome(Left(doc, pos), c)
     IN \/ o.ok /\ Proceed(c, o)
        \/ ~o.ok /\ Fail(c)
  /\ UNCHANGED <<doc, offset, opIndex, read>>

\* operation_index is a uint8_t.
IndexWidth == 256

ReadFrom(x) == IF x \in DOMAIN read THEN read[x] ELSE {}
Noted == [x \in DOMAIN read \cup {offset} |->
            ReadFrom(x) \cup IF x = offset THEN {details} ELSE {}]

End ==
  /\ status = "reading" /\ todo = <<>>
  /\ status' = "idle"
  /\ offset' = pos
  /\ opIndex' = (opIndex + 1) % IndexWidth
  /\ read' = Noted
  /\ UNCHANGED <<doc, pos, todo, details>>

\* get_formatter, on the way back.
Rewind ==
  /\ Returned
  /\ offset' = 0 /\ opIndex' = 0
  /\ UNCHANGED <<doc, status, pos, todo, details, read>>

\* ui_approve_tx_init
Restart ==
  /\ Returned
  /\ offset' = 0
  /\ UNCHANGED <<doc, status, pos, todo, opIndex, details, read>>

Start(d, n) == SubSeq(d.words, 1, n)

\* handler_sign_tx clears the context for another transaction.
Load ==
  /\ status # "reading"
  /\ doc' \in Documents
  /\ status' = "idle" /\ pos' = 0 /\ todo' = <<>>
  /\ offset' = 0 /\ opIndex' = 0 /\ details' = <<>> /\ read' = <<>>

\* It adds what the host sends later to what there is, and does not start over.
Extend ==
  /\ status # "reading"
  /\ doc' \in {d \in Documents : d.size >= doc.size /\ Start(d, doc.size) = Start(doc, doc.size)}
  /\ status' = "idle"
  /\ UNCHANGED <<pos, todo, offset, opIndex, details, read>>

Init ==
  /\ doc \in Documents
  /\ status = "idle" /\ pos = 0 /\ todo = <<>>
  /\ offset = 0 /\ opIndex = 0 /\ details = <<>> /\ read = <<>>

Next == Begin \/ Step \/ End \/ Rewind \/ Restart \/ Load \/ Extend

Spec == Init /\ [][Next]_vars
-----------------------------------------------------------------------------
(* Properties.                                                              *)

Statuses == {"idle", "reading", "failed", "thrown"}

\* The variables have their types, and no reader goes beyond the data (buffer_can_read
\* before every buffer_advance), whatever is cut off or wrongly counted.
TypeOK ==
  /\ doc \in Documents
  /\ status \in Statuses
  /\ pos \in 0 .. doc.size /\ offset \in 0 .. doc.size
  /\ opIndex \in 0 .. IndexWidth - 1
  /\ DOMAIN read \subseteq 0 .. doc.size

\* The number of whole operations before a place in the data; a number there is not, if it
\* is no place between two operations.
Boundary(x) ==
  IF x = 0 THEN 0
  ELSE LET ks == {k \in 1 .. Len(doc.ops) : doc.ends[k + 1] = x}
       IN  IF ks = {} THEN Len(doc.words) + x ELSE CHOOSE k \in ks : TRUE

\* The operations of a document that were sent in full.
Sent(d) == Cardinality({k \in 1 .. Len(d.ops) : d.ends[k + 1] <= d.size})

AtBoundary == INSTANCE Reader WITH Whole <- Sent, at <- Boundary(offset), index <- opIndex,
                              Width <- IndexWidth

\* parse_tx_xdr moves from one operation to the next, never into one, and only over
\* operations that were sent in full and that the encoding allows; a refused one leaves
\* it where it was.
ImplementsReader == AtBoundary!Spec

\* The fields of the operation.
OperationOf(d) == [p \in {Tail(q) : q \in {r \in DOMAIN d : r[1] = "op"}} |-> d[<<"op">> \o p]]

\* What is in memory after an operation was read is the header and that operation, field
\* by field, and nothing of an operation read before or of one that was refused, in
\* whatever order the operations are read (parse_tx_xdr, parse_operation).
ReadsWhatWasSent ==
  \A x \in DOMAIN read : \A d \in read[x] :
    LET k == Boundary(x) + 1 IN
    /\ k <= Len(doc.ops)
    /\ Header(d) = doc.header
    /\ OperationOf(d) = doc.ops[k]

\* What is read from a place in the data is always the same: it does not matter in which
\* order the operations are read, which were read before or refused, nor how much of the data
\* was there; and the header stays the one it was (parse_tx_xdr, parse_operation).
ReadsAgree ==
  \A x, y \in DOMAIN read : \A d \in read[x], e \in read[y] :
    /\ x = y => d = e
    /\ Header(d) = Header(e)

\* operation_index is the number of operations before offset, as far as it has room for it,
\* after whatever was read, refused and read again (parse_tx_xdr, get_formatter).
OperationsAreCounted ==
  offset # 0 => opIndex = Cardinality({x \in DOMAIN read : x < offset}) % IndexWidth

\* An operation is refused only if it was not sent in full or the encoding does not allow
\* it.  The release notes count on it: "or 5 path payment operations where both send and
\* receive assets are non-native and two hops are specified".
RefusesOnlyInvalid ==
  [][status' \in {"failed", "thrown"} /\ status = "reading" => Boundary(offset) = Sent(doc)]_vars
=============================================================================
