------------------------------ MODULE TxReview ------------------------------
(***************************************************************************)
(* The review of a transaction: ui_transaction.c, which turns pages, the   *)
(* navigation half of transaction_formatter.c, which decides which page is *)
(* next, and the re-entrant parse_tx_xdr, which reads one operation at a   *)
(* time because only one fits in memory.                                   *)
(*                                                                         *)
(* A page is named by what is printed on it, not by the indices that led   *)
(* to it: the header or the operation whose details it shows, and the part *)
(* of it.  What is printed comes from op_details, which parse_tx_xdr       *)
(* overwrites, so the two can come apart.                                  *)
(***************************************************************************)
EXTENDS Integers, Sequences, FiniteSets

CONSTANTS
  Transactions,   \* the transactions the host sends, as TransactionsOK describes
  MaxFormatters   \* MAX_FORMATTERS_PER_OPERATION

\* What a header may have besides what every header has.
Options == {"network", "feeBump", "memo", "sequence", "minTime", "maxTime", "minLedger",
            "maxLedger", "minSeqNum", "minSeqAge", "minSeqLedgerGap"}

\* "count" is operations_count as the host wrote it; "pages" counts the formatters of an
\* operation from formatters[type] on, "source" is source_account_present.
Operation   == [pages : Nat \ {0}, source : BOOLEAN, parses : BOOLEAN]
Transaction == [header : SUBSET Options, count : Nat, ops : Seq(Operation)]

\* handler_sign_tx has parsed the first operation of every transaction reviewed; the stack
\* has room for a formatter and what it pushes.
ASSUME TransactionsOK ==
  /\ MaxFormatters \in Nat \ {0, 1}
  /\ \A t \in Transactions :
       /\ t \in Transaction
       /\ t.ops # <<>> /\ t.ops[1].parses

VARIABLES
  tx,        \* the transaction in tx_info.raw
  step,      \* where the flow is; "thrown" when an exception has left the review
  border,    \* G_ui_current_state
  mem,       \* the review's memory: see Memory
  seen,      \* history: the pages shown since the review started
  extended   \* history: the host has sent more data for a transaction under review

vars == <<tx, step, border, mem, seen, extended>>

Formatter == [kind : {"null", "header", "operation", "detail", "source", "next"}, part : Nat]
Null      == [kind |-> "null", part |-> 0]
NextStep  == [kind |-> "next", part |-> 0]     \* format_next_step
Confirm   == [kind |-> "operation", part |-> 0] \* format_confirm_operation
Detail(k) == [kind |-> "detail", part |-> k]

Page  == [of : Nat, part : Nat]   \* of = 0: the header
Blank == [of |-> 0, part |-> 0]

\* dataIndex is G_ui_current_data_index; opIndex and details are tx_details.operation_index
\* and .op_details (the operation read into it, complete or not); offset is tx_info.offset
\* as the number of operations before it, 0 being the start of the header.
Memory == [dataIndex : Nat, formatterIndex : -1 .. MaxFormatters - 1,
           stack : [0 .. MaxFormatters - 1 -> Formatter],
           opIndex : Nat, offset : Nat, details : Nat, page : Page]

EmptyStack == [i \in 0 .. MaxFormatters - 1 |-> Null]
Current(m) == m.stack[m.formatterIndex]
-----------------------------------------------------------------------------
(* Pages, in the order the formatters push one another.                     *)

HeaderOrder == <<"network", "feeBump", "feeSource", "feeBumpFee", "innerTx", "memo", "fee",
                 "sequence", "minTime", "maxTime", "minLedger", "maxLedger", "minSeqNum",
                 "minSeqAge", "minSeqLedgerGap", "source">>

\* How many of them the header of t has.
HeaderPages(t) ==
  LET always == {"fee", "source"}
      bump   == IF "feeBump" \in t.header THEN {"feeSource", "feeBumpFee", "innerTx"} ELSE {}
  IN  Cardinality({i \in 1 .. Len(HeaderOrder) : HeaderOrder[i] \in t.header \cup always \cup bump})

\* What follows the operations does not parse as another one.
Op(k) == IF k <= Len(tx.ops) THEN tx.ops[k]
         ELSE [pages |-> 1, source |-> FALSE, parses |-> FALSE]

\* "Operation i of n" is a page of its own if there are several.
Captions == IF tx.count > 1 THEN 1 ELSE 0

\* Mutant: the last operation is recognised one too early.
AfterOperationEarly(m) == IF m.opIndex + 1 >= tx.count THEN Null ELSE NextStep

AfterOperation(m) == IF m.opIndex = tx.count THEN Null ELSE NextStep

AfterDetail(m, k) ==
  IF k < Op(m.details).pages THEN Detail(k + 1)
  ELSE IF Op(m.details).source THEN [kind |-> "source", part |-> 0]
  ELSE AfterOperation(m)

\* What the current formatter pushes.
Successor(m) ==
  LET f == Current(m) IN
  IF f.kind = "header"
  THEN IF f.part < HeaderPages(tx) THEN [f EXCEPT !.part = @ + 1] ELSE NextStep
  ELSE IF f.kind = "operation" THEN IF Captions = 1 THEN Detail(1) ELSE AfterDetail(m, 1)
  ELSE IF f.kind = "detail" THEN AfterDetail(m, f.part)
  ELSE AfterOperation(m)

\* What it prints.
Printed(m) ==
  LET f == Current(m) IN
  IF f.kind = "header" THEN [of |-> 0, part |-> f.part]
  ELSE IF f.kind = "operation"
       THEN [of |-> IF Captions = 1 THEN m.opIndex ELSE m.details, part |-> 1]
  ELSE [of |-> m.details,
        part |-> Captions + IF f.kind = "detail" THEN f.part ELSE Op(m.details).pages + 1]
-----------------------------------------------------------------------------
(* transaction_parser.c, transaction_formatter.c.                           *)

\* parse_tx_xdr: at offset 0 it clears the details and reads the header first; the
\* offset and the index advance only if the operation parses.
Parse(m) ==
  LET k == m.offset + 1
      n == [m EXCEPT !.details = k, !.opIndex = IF m.offset = 0 THEN 0 ELSE @]
  IN IF Op(k).parses THEN [n EXCEPT !.opIndex = @ + 1, !.offset = k] ELSE n

\* The loop of get_formatter: parse until the operation of the data index is reached or
\* one fails.
ParseToData[m \in Memory] ==
  IF m.dataIndex - 1 <= m.opIndex THEN m
  ELSE IF Op(m.offset + 1).parses THEN ParseToData[Parse(m)] ELSE Parse(m)

\* get_formatter: stack[0] for the data index, NULL if its operation does not parse.
Fetch(m) ==
  LET p == ParseToData[m] IN
  IF m.dataIndex = 1 THEN [m EXCEPT !.stack[0] = [kind |-> "header", part |-> 1]]
  ELSE [p EXCEPT !.stack[0] = IF m.dataIndex - 1 > p.opIndex THEN Null ELSE Confirm]

\* Mutant: an operation that does not parse is asked for again.
NextScreenRetries(m) ==
  LET n == Fetch([m EXCEPT !.stack = EmptyStack, !.formatterIndex = 0, !.dataIndex = @ + 1])
  IN IF Current(m) # Null THEN m
     ELSE IF Current(n) = Null THEN [n EXCEPT !.dataIndex = m.dataIndex] ELSE n

\* ui_approve_tx_next_screen
NextScreen(m) ==
  IF Current(m) # Null THEN m
  ELSE Fetch([m EXCEPT !.stack = EmptyStack, !.formatterIndex = 0, !.dataIndex = @ + 1])

\* Mutant: going back does not rewind the parser.
PrevScreenKeeps(m) ==
  LET back == [m EXCEPT !.stack = EmptyStack, !.formatterIndex = 0, !.dataIndex = @ - 1] IN
  IF m.formatterIndex # -1 THEN m
  ELSE IF back.dataIndex = 0 THEN back ELSE Fetch(back)

\* ui_approve_tx_prev_screen, with the rewinding of get_formatter.
PrevScreen(m) ==
  LET back == [m EXCEPT !.stack = EmptyStack, !.formatterIndex = 0, !.dataIndex = @ - 1] IN
  IF m.formatterIndex # -1 THEN m
  ELSE IF back.dataIndex = 0 THEN back
  ELSE Fetch([back EXCEPT !.offset = 0, !.opIndex = 0])

\* Mutant: the bound is off by one.
ThrowsEarly(m) == Current(m) \notin {Null, NextStep} /\ m.formatterIndex + 2 >= MaxFormatters

Throws(m) == Current(m) \notin {Null, NextStep} /\ m.formatterIndex + 1 >= MaxFormatters

\* Call the current formatter: it prints a page and pushes its successor.
Format(m) ==
  IF Throws(m) THEN m
  ELSE [m EXCEPT !.page = Printed(m), !.stack[m.formatterIndex + 1] = Successor(m)]

\* set_state_data, once the next or the previous screen is fetched: no formatter, no
\* change; format_next_step fetches again, and leaves a blank page if there is nothing.
SetStateData(m) ==
  LET n == NextScreen([m EXCEPT !.stack[m.formatterIndex] = Null]) IN
  IF Current(m) = Null THEN m
  ELSE IF Current(m) # NextStep THEN Format(m)
  ELSE IF Current(n) = Null THEN [n EXCEPT !.page = Blank]
  ELSE Format(n)
-----------------------------------------------------------------------------
(* ui_transaction.c.  The borders are invisible steps above and below the   *)
(* page, entered from either side.                                          *)

\* The page the user is left with in memory m.
Show(m) ==
  /\ UNCHANGED <<tx, extended>>
  /\ mem' = m
  /\ step' = IF Throws(mem') THEN "thrown" ELSE "page"
  /\ seen' = IF Throws(mem') THEN seen ELSE seen \cup {mem'.page}

Leave(s, m) ==
  /\ step' = s
  /\ border' = "OUT"
  /\ mem' = m
  /\ UNCHANGED <<tx, seen, extended>>

\* display_next_state(true)
UpperBorder ==
  LET up   == [mem EXCEPT !.formatterIndex = @ - 1]
      back == IF mem.dataIndex > 0 THEN SetStateData(PrevScreen(up)) ELSE up
      more == mem.dataIndex > 0 /\ Current(back) # Null
  IN
  \/ /\ border = "OUT"
     /\ border' = "INSIDE"
     /\ \E m \in {NextScreen(mem)} : Show(SetStateData(m))
  \/ /\ border = "INSIDE" /\ UNCHANGED border
     /\ more
     /\ Show(back)
  \/ /\ border = "INSIDE"
     /\ ~more
     /\ Leave("review", [back EXCEPT !.dataIndex = 0])

\* Mutant: the bound on the data index is off by some.
MorePagesBeyond == \/ tx.count # 0 /\ mem.dataIndex <= tx.count + 1
                   \/ mem.stack[mem.formatterIndex + 1] # Null

\* Mutant: the rest of the formatters is not looked at.
MorePagesCounted == tx.count # 0 /\ mem.dataIndex <= tx.count

MorePages == \/ tx.count # 0 /\ mem.dataIndex < tx.count - 1
             \/ mem.stack[mem.formatterIndex + 1] # Null

\* display_next_state(false)
LowerBorder ==
  \/ /\ border = "OUT"
     /\ border' = "INSIDE"
     /\ \E m \in {PrevScreen(mem)} : Show(SetStateData(m))
  \/ /\ border = "INSIDE" /\ UNCHANGED border
     /\ MorePages
     /\ \E m \in {NextScreen([mem EXCEPT !.formatterIndex = @ + 1])} : Show(SetStateData(m))
  \/ /\ border = "INSIDE" /\ ~MorePages
     /\ Leave("finalize", mem)

\* The two last steps of the flow, and what their callbacks are called with.
Turn(from, to) ==
  /\ step = from
  /\ step' = to
  /\ UNCHANGED <<tx, border, mem, seen, extended>>

Right == \/ step = "review" /\ UpperBorder
         \/ step = "page" /\ LowerBorder
         \/ Turn("finalize", "cancel")

Left == \/ step = "page" /\ UpperBorder
        \/ step = "finalize" /\ LowerBorder
        \/ Turn("cancel", "finalize")

Approve == Turn("finalize", "approved")
Reject  == Turn("cancel", "rejected")

\* ui_approve_tx_init; operation_index and op_details stay as the handler's parse left
\* them.
ApproveTxInit(m) ==
  [m EXCEPT !.dataIndex = 0, !.offset = 0, !.formatterIndex = 0, !.stack = EmptyStack]

\* handler_sign_tx: a new transaction is parsed in a zeroed context and put up for review,
\* at any point of the review of another.
NewReview ==
  /\ tx' \in Transactions
  /\ mem' = ApproveTxInit([mem EXCEPT !.offset = 1, !.opIndex = 1, !.details = 1])
  /\ step' = "review" /\ border' = "OUT"
  /\ seen' = {} /\ extended' = FALSE

\* handler_sign_tx with P1_MORE on a transaction already reviewed in part: the longer one
\* is parsed from where the review left the offset, and put up for review if that
\* succeeds.
Extend ==
  /\ tx' \in {t \in Transactions :
                /\ t.header = tx.header /\ t.count = tx.count
                /\ Len(t.ops) >= Len(tx.ops) /\ SubSeq(t.ops, 1, Len(tx.ops)) = tx.ops}
  /\ LET k == mem.offset + 1
         n == [mem EXCEPT !.details = k, !.opIndex = IF mem.offset = 0 THEN 0 ELSE @]
     IN IF k <= Len(tx'.ops) /\ tx'.ops[k].parses
        THEN /\ mem' = ApproveTxInit([n EXCEPT !.opIndex = @ + 1])
             /\ step' = "review" /\ border' = "OUT" /\ seen' = {}
        ELSE mem' = n /\ UNCHANGED <<step, border, seen>>
  /\ extended' = TRUE
-----------------------------------------------------------------------------
Init ==
  /\ tx \in Transactions
  /\ mem = [dataIndex |-> 0, formatterIndex |-> 0, stack |-> EmptyStack,
            opIndex |-> 1, offset |-> 0, details |-> 1, page |-> Blank]
  /\ step = "review" /\ border = "OUT"
  /\ seen = {} /\ extended = FALSE

Next == Right \/ Left \/ Approve \/ Reject \/ NewReview \/ Extend

Spec == Init /\ [][Next]_vars

\* A host that does not send more data for a transaction it has sent in full.
PatientSpec ==
  Init /\ [][Right \/ Left \/ Approve \/ Reject \/ NewReview]_vars

\* Where there is a next page, and nothing else happens, the user turns to it.
FairSpec == Spec /\ WF_vars(Right)
-----------------------------------------------------------------------------
(* Properties.                                                              *)

\* Every variable has its type; the index into formatter_stack stays in it, and the data
\* index never runs away from the operations.
TypeOK ==
  /\ tx \in Transactions
  /\ step \in {"review", "page", "finalize", "cancel", "approved", "rejected", "thrown"}
  /\ border \in {"OUT", "INSIDE"}
  /\ mem \in Memory
  /\ step = "page" => mem.formatterIndex >= 0
  /\ mem.dataIndex - 1 <= tx.count \/ mem.dataIndex - 2 <= Len(tx.ops)
  /\ \A p \in seen : p \in Page
  /\ extended \in BOOLEAN

Parses(t, n) == \A i \in 1 .. n : i <= Len(t.ops) /\ t.ops[i].parses

Chapter(t, i) ==
  IF i = 0 THEN HeaderPages(t)
  ELSE (IF t.count > 1 THEN 1 ELSE 0) + t.ops[i].pages + IF t.ops[i].source THEN 1 ELSE 0

\* The pages of t: those of the header and of the operations before the first that does
\* not parse.
PagesOf(t) ==
  UNION {{[of |-> i, part |-> k] : k \in 1 .. Chapter(t, i)} :
         i \in {j \in 0 .. t.count : Parses(t, j)}}

\* The user can only reach Finalize, and approve, after every page of the header and of
\* every operation up to one that does not parse has been on the screen, however they
\* went back and forth, whatever was reviewed before.
EveryPageShown ==
  ~extended /\ step \in {"finalize", "approved"} => PagesOf(tx) \subseteq seen

\* If all operations parse, what is printed is what the indices say: the details in
\* memory are never those of another operation, in spite of the parser's rewinding.
PageIsCurrent ==
  ~extended /\ step = "page" /\ Parses(tx, tx.count) /\ tx.count > 0 =>
    mem.page = [of |-> mem.dataIndex - 1, part |-> mem.formatterIndex + 1]

\* A page is missing a formatter only in a chapter with as many pages as formatter_stack
\* has entries.  Data sent later that do not parse may add the page of their source to the
\* chapter under review.
ThrowsOnlyWhenFull ==
  step = "thrown" =>
    \/ HeaderPages(tx) >= MaxFormatters
    \/ \E i \in 1 .. Len(tx.ops) :
         Chapter(tx, i) + (IF extended THEN 1 ELSE 0) >= MaxFormatters

\* docs/TRANSACTION.md says the transaction is read to show its details to the user, and
\* docs/COMMANDS.md has a status word for one that does not parse: what is approved has
\* been shown, every operation of it.
EveryOperationShown ==
  step = "approved" =>
    \A i \in 1 .. tx.count : [of |-> i, part |-> 1] \in seen

\* docs/TRANSACTION.md, the same sentence, of a host that sends the rest of a transaction
\* while the beginning is under review: all of what is approved has been shown.
ExtendedIsShown ==
  step = "approved" /\ Parses(tx, tx.count) => PagesOf(tx) \subseteq seen

\* A review has an end: a user who only presses the right button gets past Finalize, or
\* the review is refused; no blank page, border or caption holds them, wherever they
\* start from, also where an operation does not parse or none is left.
ReviewEnds ==
  <>[][Right]_vars => <>[](step \notin {"review", "page", "finalize"})

\* A transaction sent as a whole, all operations of which parse.
Sound == ~extended /\ tx.count \in 1 .. Len(tx.ops) /\ Parses(tx, tx.count)

PagerOf == INSTANCE Pager WITH
  book <- IF Sound THEN [c \in 1 .. tx.count + 1 |-> Chapter(tx, c - 1)] ELSE <<1>>,
  at   <- IF ~Sound \/ step = "review" THEN <<0, 0>>
          ELSE IF step \in {"page", "thrown"} THEN <<mem.page.of + 1, mem.page.part>>
          ELSE <<tx.count + 2, 0>>

\* Reviews implement a pager, where all operations parse: no page is skipped, repeated or
\* taken from another operation, whatever else was under review before.
ImplementsPager == PagerOf!Spec
=============================================================================
