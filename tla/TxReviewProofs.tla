--------------------------- MODULE TxReviewProofs ---------------------------
(***************************************************************************)
(* That the review of a transaction shows its pages, for transactions of   *)
(* any length and a formatter_stack of any size.                           *)
(***************************************************************************)
EXTENDS TxReview, NumberProofs, FiniteSetTheorems
-----------------------------------------------------------------------------
(* The transaction.                                                         *)

\* What a step of the parser needs to know of memory and transaction.
Typed == tx \in Transactions /\ mem \in Memory

LEMMA HeaderHasPages ==
  ASSUME NEW t \in Transactions
  PROVE  HeaderPages(t) \in Nat \ {0}
<1>. DEFINE S == {i \in 1 .. Len(HeaderOrder) :
                    HeaderOrder[i] \in t.header \cup {"fee", "source"} \cup
                      IF "feeBump" \in t.header THEN {"feeSource", "feeBumpFee", "innerTx"} ELSE {}}
<1>1. HeaderPages(t) = Cardinality(S)
  BY DEF HeaderPages
<1>2. IsFiniteSet(S)
  <2>1. Len(HeaderOrder) = 16
    BY DEF HeaderOrder
  <2>2. S \in SUBSET (1 .. 16)
    BY <2>1
  <2>3. 1 \in Int /\ 16 \in Int
    OBVIOUS
  <2>. HIDE DEF S
  <2>4. IsFiniteSet(1 .. 16)
    BY <2>3, FS_Interval
  <2>. QED
    BY <2>2, <2>4, FS_Subset
<1>3. 7 \in S
  BY DEF HeaderOrder
<1>. QED
  BY <1>1, <1>2, <1>3, FS_CardinalityType, FS_EmptySet

\* An operation has pages; one that was not sent does not parse.
LEMMA OpTyped ==
  ASSUME tx \in Transactions, NEW k \in Nat \ {0}
  PROVE  /\ Op(k).pages \in Nat \ {0} /\ Op(k).source \in BOOLEAN /\ Op(k).parses \in BOOLEAN
         /\ k > Len(tx.ops) => ~Op(k).parses /\ Op(k).pages = 1 /\ ~Op(k).source
<1>1. tx.ops \in Seq(Operation)
  BY TransactionsOK DEF Transaction
<1>2. k <= Len(tx.ops) => tx.ops[k] \in Operation
  BY <1>1
<1>3. /\ k <= Len(tx.ops) => Op(k) = tx.ops[k]
      /\ k > Len(tx.ops) => Op(k) = [pages |-> 1, source |-> FALSE, parses |-> FALSE]
  BY <1>1 DEF Op
<1>4. CASE k <= Len(tx.ops)
  BY <1>1, <1>2, <1>3, <1>4 DEF Operation
<1>5. CASE k > Len(tx.ops)
  <2>1. Op(k).pages = 1 /\ Op(k).source = FALSE /\ Op(k).parses = FALSE
    BY <1>3, <1>5
  <2>2. Op(k).pages \in Nat \ {0}
    BY <2>1
  <2>3. /\ Op(k).source \in BOOLEAN /\ Op(k).parses \in BOOLEAN
        /\ ~Op(k).parses /\ ~Op(k).source
    BY <2>1, Zenon
  <2>. QED
    BY <2>1, <2>2, <2>3
<1>. QED
  BY <1>1, <1>4, <1>5

\* What TransactionsOK says of a transaction.
LEMMA TxTyped ==
  ASSUME tx \in Transactions
  PROVE  /\ tx.count \in Nat /\ Len(tx.ops) \in Nat \ {0}
         /\ tx.ops \in Seq(Operation) /\ tx.ops[1].parses /\ Op(1).parses /\ Captions \in {0, 1}
<1>1. tx \in Transaction /\ tx.ops # <<>> /\ tx.ops[1].parses
  BY TransactionsOK
<1>2. tx.ops \in Seq(Operation) /\ tx.count \in Nat
  BY <1>1 DEF Transaction
<1>3. Len(tx.ops) \in Nat /\ Len(tx.ops) # 0
  BY <1>1, <1>2
<1>. QED
  BY <1>1, <1>2, <1>3 DEF Op, Captions
-----------------------------------------------------------------------------
(* The loop of get_formatter.                                               *)

\* m with other places of the parser.
At(m, o, p, k) == [m EXCEPT !.opIndex = o, !.offset = p, !.details = k]

\* The number of the operation before the one at the offset, when the parser goes on.
Base(m) == IF m.offset = 0 THEN 0 ELSE m.opIndex

\* The first operation from the offset on that does not parse.
Stop(m) == CHOOSE k \in Nat : /\ k > m.offset /\ ~Op(k).parses
                              /\ \A j \in m.offset + 1 .. k - 1 : Op(j).parses

\* Where the loop ends: at the operation of the data index, or at one that does not parse.
Wanted(m) == m.offset + (m.dataIndex - 1 - Base(m))
Outcome(m) ==
  IF m.dataIndex - 1 <= m.opIndex THEN m
  ELSE IF Wanted(m) < Stop(m) THEN At(m, m.dataIndex - 1, Wanted(m), Wanted(m))
  ELSE At(m, Base(m) + (Stop(m) - 1 - m.offset), Stop(m) - 1, Stop(m))

LEMMA AtFields ==
  ASSUME NEW m \in Memory, NEW o \in Nat, NEW p \in Nat, NEW k \in Nat
  PROVE  /\ At(m, o, p, k) \in Memory
         /\ At(m, o, p, k).opIndex = o /\ At(m, o, p, k).offset = p /\ At(m, o, p, k).details = k
         /\ At(m, o, p, k).dataIndex = m.dataIndex /\ At(m, o, p, k).page = m.page
         /\ At(m, o, p, k).formatterIndex = m.formatterIndex /\ At(m, o, p, k).stack = m.stack
BY DEF At, Memory

LEMMA AtAt ==
  ASSUME NEW m \in Memory, NEW o \in Nat, NEW p \in Nat, NEW k \in Nat,
         NEW oo \in Nat, NEW pp \in Nat, NEW kk \in Nat
  PROVE  At(At(m, o, p, k), oo, pp, kk) = At(m, oo, pp, kk)
BY DEF At, Memory

\* What a call of the parser leaves.
LEMMA ParseIsAt ==
  ASSUME tx \in Transactions, NEW m \in Memory
  PROVE  Parse(m) = IF Op(m.offset + 1).parses THEN At(m, Base(m) + 1, m.offset + 1, m.offset + 1)
                    ELSE At(m, Base(m), m.offset, m.offset + 1)
BY DEF Parse, At, Memory, Base

\* The first operation from here on that does not parse.
LEMMA StopIsNext ==
  ASSUME tx \in Transactions, NEW m \in Memory
  PROVE  /\ Stop(m) \in Nat /\ Stop(m) > m.offset /\ ~Op(Stop(m)).parses
         /\ \A j \in m.offset + 1 .. Stop(m) - 1 : Op(j).parses
<1>. DEFINE S == {k \in Nat : k > m.offset /\ ~Op(k).parses}
<1>0. m.offset \in Nat
  BY DEF Memory
<1>1. m.offset + Len(tx.ops) + 1 \in S
  BY <1>0, TxTyped, OpTyped
<1>2. PICK k \in S : \A j \in S : k <= j
  BY <1>1, Least
<1>3. \A j \in m.offset + 1 .. k - 1 : Op(j).parses
  BY <1>0, <1>2
<1>. QED
  BY <1>2, <1>3 DEF Stop

\* A call that succeeds leaves the outcome of the loop as it was.  The places are named, so
\* that the provers see no sum in a record.
LEMMA OutcomeFrom ==
  ASSUME tx \in Transactions, NEW m \in Memory,
         m.dataIndex - 1 > m.opIndex, Op(m.offset + 1).parses,
         NEW b \in Nat, b = Base(m) + 1, NEW f \in Nat, f = m.offset + 1,
         NEW n \in Memory, n = At(m, b, f, f)
  PROVE  Outcome(n) = Outcome(m)
<1>0. m.dataIndex \in Nat /\ m.opIndex \in Nat /\ m.offset \in Nat /\ Base(m) \in Nat
      /\ Base(m) <= m.opIndex
  BY DEF Memory, Base
<1>2. n.opIndex = b /\ n.offset = f /\ n.dataIndex = m.dataIndex
  BY DEF At, Memory
<1>3. Stop(n) = Stop(m)
  <2>1. /\ Stop(m) \in Nat /\ Stop(m) > m.offset /\ ~Op(Stop(m)).parses
        /\ \A j \in m.offset + 1 .. Stop(m) - 1 : Op(j).parses
    BY StopIsNext
  <2>2. /\ Stop(n) \in Nat /\ Stop(n) > m.offset + 1 /\ ~Op(Stop(n)).parses
        /\ \A j \in f + 1 .. Stop(n) - 1 : Op(j).parses
    BY <1>2, StopIsNext
  <2>3. Stop(m) # m.offset + 1
    BY <2>1
  <2>4. ~(Stop(n) < Stop(m))
    BY <1>0, <2>1, <2>2
  <2>5. ~(Stop(m) < Stop(n))
    BY <1>0, <2>1, <2>2, <2>3
  <2>. QED
    BY <2>1, <2>2, <2>4, <2>5
<1>4. Base(n) = b /\ Wanted(n) = Wanted(m)
  BY <1>0, <1>2 DEF Base, Wanted
<1>5. Stop(m) \in Nat /\ Stop(m) > m.offset + 1
  <2>1. Stop(m) \in Nat /\ Stop(m) > m.offset /\ Stop(m) # m.offset + 1
    BY StopIsNext
  <2>. QED
    BY <1>0, <2>1
<1>6. PICK e \in Nat : e = m.dataIndex - 1
  BY <1>0
<1>7. CASE e <= b
  <2>1. e = b /\ Wanted(m) = f
    BY <1>0, <1>6, <1>7 DEF Base, Wanted
  <2>2. Outcome(n) = n
    BY <1>2, <1>6, <1>7 DEF Outcome
  <2>3. ~(m.dataIndex - 1 <= m.opIndex) /\ Wanted(m) < Stop(m)
    BY <1>0, <1>5, <2>1
  <2>4. Outcome(m) = At(m, e, Wanted(m), Wanted(m))
    BY <1>6, <2>3 DEF Outcome
  <2>. QED
    BY <2>1, <2>2, <2>4
<1>8. CASE e > b
  <2>1. PICK w \in Nat : w = Wanted(m)
    BY <1>0, <1>6, <1>8 DEF Wanted
  <2>2. At(n, e, w, w) = At(m, e, w, w)
    BY AtAt
  <2>3. PICK x \in Nat, y \in Nat, z \in Nat :
          x = Base(m) + (Stop(m) - 1 - m.offset) /\ y = Stop(m) - 1 /\ z = Stop(m)
    BY <1>0, <1>5
  <2>4. At(n, x, y, z) = At(m, x, y, z)
    BY DEF At, Memory
  <2>5. ~(m.dataIndex - 1 <= n.opIndex) /\ ~(m.dataIndex - 1 <= m.opIndex)
    BY <1>0, <1>2, <1>6, <1>8
  <2>6. CASE w < z
    <3>1. Outcome(m) = At(m, e, w, w)
      BY <1>6, <2>1, <2>3, <2>5, <2>6 DEF Outcome
    <3>2. Outcome(n) = At(n, e, w, w)
      BY <1>2, <1>3, <1>4, <1>6, <2>1, <2>3, <2>5, <2>6 DEF Outcome
    <3>. QED
      BY <2>2, <3>1, <3>2
  <2>7. CASE ~(w < z)
    <3>1. Outcome(m) = At(m, x, y, z)
      BY <2>1, <2>3, <2>5, <2>7 DEF Outcome
    <3>2. Base(n) + (Stop(n) - 1 - n.offset) = x
      BY <1>0, <1>2, <1>3, <1>4, <1>5, <2>3
    <3>3. Outcome(n) = At(n, x, y, z)
      BY <1>2, <1>3, <1>4, <2>1, <2>3, <2>5, <2>7, <3>2 DEF Outcome
    <3>. QED
      BY <2>4, <3>1, <3>3
  <2>. QED
    BY <2>6, <2>7
<1>. QED
  BY <1>0, <1>6, <1>7, <1>8

\* The outcome is the same after one more call of the parser.
LEMMA OutcomeOfParse ==
  ASSUME tx \in Transactions, NEW m \in Memory,
         m.dataIndex - 1 > m.opIndex, Op(m.offset + 1).parses
  PROVE  Parse(m) \in Memory /\ Outcome(Parse(m)) = Outcome(m)
<1>1. PICK b \in Nat, f \in Nat : b = Base(m) + 1 /\ f = m.offset + 1
  BY DEF Memory, Base
<1>2. Parse(m) = At(m, b, f, f)
  BY <1>1, ParseIsAt
<1>3. At(m, b, f, f) \in Memory
  BY AtFields
<1>. QED
  BY <1>1, <1>2, <1>3, OutcomeFrom

\* The loop does nothing, or stops where it is.
LEMMA OutcomeAtEnd ==
  ASSUME tx \in Transactions, NEW m \in Memory,
         m.dataIndex - 1 > m.opIndex, ~Op(m.offset + 1).parses
  PROVE  Parse(m) \in Memory /\ Outcome(m) = Parse(m)
<1>0. m.dataIndex \in Nat /\ m.opIndex \in Nat /\ m.offset \in Nat /\ Base(m) \in Nat
      /\ Base(m) <= m.opIndex
  BY DEF Memory, Base
<1>1. PICK b \in Nat, f \in Nat, g \in Nat : b = Base(m) /\ f = m.offset /\ g = m.offset + 1
  BY <1>0
<1>2. Parse(m) = At(m, b, f, g)
  BY <1>1, ParseIsAt
<1>3. At(m, b, f, g) \in Memory
  BY AtFields
<1>4. Stop(m) = g
  <2>1. /\ Stop(m) \in Nat /\ Stop(m) > m.offset
        /\ \A j \in m.offset + 1 .. Stop(m) - 1 : Op(j).parses
    BY StopIsNext
  <2>2. ~(g < Stop(m))
    BY <1>0, <1>1, <2>1
  <2>. QED
    BY <1>0, <1>1, <2>1, <2>2
<1>5. ~(m.dataIndex - 1 <= m.opIndex) /\ ~(Wanted(m) < g)
  BY <1>0, <1>1 DEF Wanted
<1>6. Base(m) + (Stop(m) - 1 - m.offset) = b /\ Stop(m) - 1 = f
  BY <1>0, <1>1, <1>4
<1>7. Outcome(m) = At(m, b, f, g)
  BY <1>4, <1>5, <1>6 DEF Outcome
<1>. QED
  BY <1>2, <1>3, <1>7

\* It is a memory in which only the parser's place has changed.
LEMMA OutcomeTyped ==
  ASSUME tx \in Transactions, NEW m \in Memory
  PROVE  Outcome(m) \in Memory
<1>0. m.dataIndex \in Nat /\ m.opIndex \in Nat /\ m.offset \in Nat /\ Base(m) \in Nat
      /\ Base(m) <= m.opIndex
  BY DEF Memory, Base
<1>1. CASE m.dataIndex - 1 <= m.opIndex
  BY <1>1 DEF Outcome
<1>2. CASE m.dataIndex - 1 > m.opIndex
  <2>1. Stop(m) \in Nat /\ Stop(m) > m.offset
    BY StopIsNext
  <2>2. PICK e \in Nat, w \in Nat : e = m.dataIndex - 1 /\ w = Wanted(m)
    BY <1>0, <1>2 DEF Wanted
  <2>5. PICK x \in Nat, y \in Nat, z \in Nat :
          x = Base(m) + (Stop(m) - 1 - m.offset) /\ y = Stop(m) - 1 /\ z = Stop(m)
    BY <1>0, <2>1
  <2>3. At(m, e, w, w) \in Memory /\ At(m, x, y, z) \in Memory
    BY AtFields
  <2>4. ~(m.dataIndex - 1 <= m.opIndex)
    BY <1>0, <1>2
  <2>. QED
    BY <2>2, <2>3, <2>4, <2>5 DEF Outcome
<1>. QED
  BY <1>0, <1>1, <1>2

\* What remains to be read.
Gap(m) == IF m.dataIndex - 1 <= m.opIndex THEN 0 ELSE m.dataIndex - 1 - Base(m)

\* Each call that succeeds brings the loop of get_formatter closer to its end.
LEMMA GapShrinks ==
  ASSUME tx \in Transactions, NEW m \in Memory
  PROVE  /\ Gap(m) \in Nat
         /\ m.dataIndex - 1 > m.opIndex /\ Op(m.offset + 1).parses => Gap(Parse(m)) < Gap(m)
<1>0. m.dataIndex \in Nat /\ m.opIndex \in Nat /\ m.offset \in Nat /\ Base(m) \in Nat
      /\ Base(m) <= m.opIndex
  BY DEF Memory, Base
<1>1. Gap(m) \in Nat
  BY <1>0 DEF Gap
<1>2. ASSUME m.dataIndex - 1 > m.opIndex, Op(m.offset + 1).parses
      PROVE  Gap(Parse(m)) < Gap(m)
  <2>1. PICK b \in Nat, f \in Nat : b = Base(m) + 1 /\ f = m.offset + 1
    BY <1>0
  <2>2. Parse(m) = At(m, b, f, f)
    BY <1>2, <2>1, ParseIsAt
  <2>3. Parse(m).opIndex = b /\ Parse(m).offset = f /\ Parse(m).dataIndex = m.dataIndex
    BY <2>2 DEF At, Memory
  <2>4. Base(Parse(m)) = b
    BY <1>0, <2>1, <2>3 DEF Base
  <2>. QED
    BY <1>0, <1>2, <2>1, <2>3, <2>4 DEF Gap
<1>. QED
  BY <1>1, <1>2

\* The equation of the loop has a solution...
LEMMA LoopHasSolution ==
  ASSUME tx \in Transactions
  PROVE  ParseToData =
           [m \in Memory |-> IF m.dataIndex - 1 <= m.opIndex THEN m
                             ELSE IF Op(m.offset + 1).parses THEN ParseToData[Parse(m)]
                             ELSE Parse(m)]
<1>. DEFINE Loop(f) == [m \in Memory |-> IF m.dataIndex - 1 <= m.opIndex THEN m
                                         ELSE IF Op(m.offset + 1).parses THEN f[Parse(m)]
                                         ELSE Parse(m)]
            F == [m \in Memory |-> Outcome(m)]
<1>1. ASSUME NEW m \in Memory
      PROVE  Outcome(m) = IF m.dataIndex - 1 <= m.opIndex THEN m
                          ELSE IF Op(m.offset + 1).parses THEN F[Parse(m)]
                          ELSE Parse(m)
  <2>0. m.dataIndex \in Nat /\ m.opIndex \in Nat
    BY DEF Memory
  <2>1. CASE m.dataIndex - 1 <= m.opIndex
    BY <2>1 DEF Outcome
  <2>2. CASE m.dataIndex - 1 > m.opIndex /\ Op(m.offset + 1).parses
    <3>1. Parse(m) \in Memory /\ Outcome(Parse(m)) = Outcome(m)
      BY <2>2, OutcomeOfParse
    <3>2. F[Parse(m)] = Outcome(m)
      BY <3>1
    <3>3. ~(m.dataIndex - 1 <= m.opIndex)
      BY <2>0, <2>2
    <3>. QED
      BY <2>2, <3>2, <3>3
  <2>3. CASE m.dataIndex - 1 > m.opIndex /\ ~Op(m.offset + 1).parses
    <3>1. Outcome(m) = Parse(m)
      BY <2>3, OutcomeAtEnd
    <3>3. ~(m.dataIndex - 1 <= m.opIndex)
      BY <2>0, <2>3
    <3>. QED
      BY <2>3, <3>1, <3>3
  <2>. QED
    BY <2>0, <2>1, <2>2, <2>3
<1>2. F = Loop(F)
  BY <1>1
<1>3. ParseToData = CHOOSE f : f = Loop(f)
  BY DEF ParseToData
<1>. HIDE DEF Loop, F
<1>4. (CHOOSE f : f = Loop(f)) = Loop(CHOOSE f : f = Loop(f))
  BY <1>2
<1>5. ParseToData = Loop(ParseToData)
  BY <1>3, <1>4
<1>. QED
  BY <1>5 DEF Loop

\* ... and one only: by induction on what remains to be read.
LEMMA LoopIsOutcome ==
  ASSUME tx \in Transactions, NEW m \in Memory
  PROVE  ParseToData[m] = Outcome(m)
<1>. DEFINE Wrong == {n \in Memory : ParseToData[n] # Outcome(n)}
            S == {g \in Nat : \E n \in Wrong : g = Gap(n)}
<1>1. ASSUME NEW n \in Wrong
      PROVE  \E nn \in Wrong : Gap(nn) < Gap(n)
  <2>1. n \in Memory /\ n.dataIndex \in Nat /\ n.opIndex \in Nat
    BY DEF Memory
  <2>2. ParseToData[n] = IF n.dataIndex - 1 <= n.opIndex THEN n
                         ELSE IF Op(n.offset + 1).parses THEN ParseToData[Parse(n)]
                         ELSE Parse(n)
    BY <2>1, LoopHasSolution
  <2>3. ~(n.dataIndex - 1 <= n.opIndex)
    BY <2>2 DEF Outcome
  <2>4. n.dataIndex - 1 > n.opIndex
    BY <2>1, <2>3
  <2>5. Op(n.offset + 1).parses
    BY <2>1, <2>2, <2>3, <2>4, OutcomeAtEnd
  <2>6. Parse(n) \in Memory /\ Outcome(Parse(n)) = Outcome(n)
    BY <2>1, <2>4, <2>5, OutcomeOfParse
  <2>7. Parse(n) \in Wrong
    BY <2>2, <2>3, <2>5, <2>6
  <2>8. Gap(Parse(n)) < Gap(n)
    BY <2>1, <2>4, <2>5, GapShrinks
  <2>. QED
    BY <2>7, <2>8
<1>2. SUFFICES ASSUME m \in Wrong PROVE FALSE
  OBVIOUS
<1>3. \A n \in Wrong : Gap(n) \in Nat
  BY GapShrinks
<1>. HIDE DEF Wrong
<1>4. Gap(m) \in S
  BY <1>2, <1>3
<1>5. PICK g \in S : \A h \in S : g <= h
  BY <1>4, Least
<1>6. PICK n \in Wrong : g = Gap(n)
  BY <1>5
<1>7. PICK nn \in Wrong : Gap(nn) < g
  BY <1>1, <1>6
<1>8. Gap(nn) \in S /\ Gap(nn) \in Nat /\ g \in Nat
  BY <1>3, <1>5, <1>7
<1>. QED
  BY <1>5, <1>7, <1>8
-----------------------------------------------------------------------------
(* The invariant.                                                           *)

Header(k) == [kind |-> "header", part |-> k]
Source    == [kind |-> "source", part |-> 0]
Nothing   == {Null, NextStep}

\* The chapter of an operation has more than i pages.
Fits(i) == \E j \in 1 .. Len(tx.ops) : i < Chapter(tx, j)

\* What entry i of the stack may be while the details are those of operation k.  The host
\* may have sent data since that replaced the details.
IsHeader(g, i)    == g = Header(i + 1) /\ i < HeaderPages(tx)
IsConfirm(g, i)   == g = Confirm /\ i = 0
IsDetail(g, i, k) == /\ \E n \in 1 .. i + 1 :
                          /\ g = Detail(n) /\ n + Captions = i + 1
                          /\ ~extended => n <= Op(k).pages
                     /\ Fits(i)
IsSource(g, i, k) == /\ g = Source
                     /\ Fits(IF extended THEN i - 1 ELSE i)
                     /\ ~extended => Op(k).source /\ i = Captions + Op(k).pages
Entry(g, i, k)    == \/ g \in Nothing \/ IsHeader(g, i) \/ IsConfirm(g, i)
                     \/ IsDetail(g, i, k) \/ IsSource(g, i, k)

\* The parser is at the start, or after as many operations as it has counted.
Placed(m) == m.offset \in {0, m.opIndex} /\ Parses(tx, m.opIndex) /\ m.details # 0

Bounded(m) == m.dataIndex - 1 <= tx.count \/ m.dataIndex - 2 <= Len(tx.ops)

Good(m) ==
  /\ m \in Memory /\ Placed(m) /\ Bounded(m)
  /\ \A i \in 0 .. MaxFormatters - 1 : Entry(m.stack[i], i, m.details)

\* There are formatters up to the current one, or none.
Real(m)  == /\ \A i \in 0 .. m.formatterIndex : m.stack[i] \notin Nothing
            /\ m.dataIndex - 1 <= Len(tx.ops)
Empty(m) == m.formatterIndex = 0 /\ m.stack = EmptyStack

Turned == {"page", "finalize", "cancel", "approved", "rejected"}

Shape ==
  /\ tx \in Transactions /\ extended \in BOOLEAN /\ Good(mem)
  /\ seen \in SUBSET Page
  /\ step \in Turned \cup {"review", "thrown"}
  /\ border = IF step \in {"page", "thrown"} THEN "INSIDE" ELSE "OUT"
  /\ step = "review" => mem.dataIndex = 0 /\ Empty(mem)
  /\ step = "thrown" => Throws(mem)
  /\ step \in Turned => /\ mem.dataIndex >= 1 /\ mem.formatterIndex \in 0 .. MaxFormatters - 2
                        /\ Real(mem) \/ Empty(mem)

\* At the header the parser is before the first operation, or has read it.
Beginning(m) == m.opIndex = 0 \/ (m.opIndex = 1 /\ m.details = 1)

\* The formatters and the details are those of the chapter of the data index.
InChapter(m) ==
  IF m.dataIndex = 1
  THEN Beginning(m) /\ \A i \in 0 .. m.formatterIndex : IsHeader(m.stack[i], i)
  ELSE /\ m.opIndex = m.dataIndex - 1 /\ m.details = m.dataIndex - 1
       /\ \A i \in 0 .. m.formatterIndex : ~IsHeader(m.stack[i], i)
       /\ tx.count > 0 => m.dataIndex - 1 <= tx.count

\* The pages before chapter c, and k pages of chapter c.
ShownBefore(s, c)  == \A i \in 0 .. c - 1 : \A j \in 1 .. Chapter(tx, i) : [of |-> i, part |-> j] \in s
ShownOf(s, c, k)   == \A j \in 1 .. k : [of |-> c, part |-> j] \in s

OnPage(m, s) ==
  /\ Real(m) /\ InChapter(m)
  /\ m.page = [of |-> m.dataIndex - 1, part |-> m.formatterIndex + 1]
  /\ m.stack[m.formatterIndex + 1] = Successor(m)
  /\ ShownBefore(s, m.dataIndex - 1)
  /\ ShownOf(s, m.dataIndex - 1, m.formatterIndex + 1)

Normal ==
  /\ step = "review" => Beginning(mem)
  /\ step \in Turned => OnPage(mem, seen)
  /\ step \in Turned \ {"page"} => Successor(mem) = Null

\* Once an operation has failed to parse, all pages have been shown.
AllShown == ~Sound /\ PagesOf(tx) \subseteq seen

IInv == Shape /\ (~extended => Normal \/ AllShown)
-----------------------------------------------------------------------------
(* Chapters and formatters.                                                 *)

\* The pages of an operation that was sent.
LEMMA ChapterOf ==
  ASSUME tx \in Transactions, NEW i \in 1 .. Len(tx.ops)
  PROVE  /\ Op(i) = tx.ops[i]
         /\ Chapter(tx, i) = Captions + Op(i).pages + IF Op(i).source THEN 1 ELSE 0
         /\ Chapter(tx, i) \in Nat \ {0}
<1>1. i \in Nat \ {0} /\ i <= Len(tx.ops) /\ Len(tx.ops) \in Nat
  BY TxTyped
<1>2. Op(i) = tx.ops[i]
  BY <1>1 DEF Op
<1>3. Chapter(tx, i) = Captions + Op(i).pages + IF Op(i).source THEN 1 ELSE 0
  BY <1>1, <1>2 DEF Chapter, Captions
<1>4. Op(i).pages \in Nat \ {0} /\ Captions \in {0, 1}
  BY <1>1, OpTyped, TxTyped
<1>. QED
  BY <1>2, <1>3, <1>4

\* Operations that parse have been sent.
LEMMA ParsesIs ==
  ASSUME tx \in Transactions, NEW n \in Nat
  PROVE  /\ Parses(tx, n) <=> \A i \in 1 .. n : Op(i).parses
         /\ Parses(tx, n) => n <= Len(tx.ops)
         /\ \A k \in 0 .. n : Parses(tx, n) => Parses(tx, k)
         /\ Parses(tx, 0) /\ Parses(tx, 1)
<1>0. Len(tx.ops) \in Nat /\ Len(tx.ops) # 0 /\ tx.ops[1].parses
  BY TxTyped
<1>1. ASSUME NEW i \in 1 .. n PROVE (i <= Len(tx.ops) /\ tx.ops[i].parses) <=> Op(i).parses
  <2>1. CASE i <= Len(tx.ops)
    BY <2>1 DEF Op
  <2>2. CASE i > Len(tx.ops)
    <3>1. ~Op(i).parses
      BY <2>2, OpTyped
    <3>. QED
      BY <1>0, <2>2, <3>1
  <2>. QED
    BY <1>0, <2>1, <2>2
<1>2. Parses(tx, n) <=> \A i \in 1 .. n : Op(i).parses
  BY <1>1 DEF Parses
<1>3. Parses(tx, n) => n <= Len(tx.ops)
  BY <1>0 DEF Parses
<1>4. \A k \in 0 .. n : Parses(tx, n) => Parses(tx, k)
  BY DEF Parses
<1>5. Parses(tx, 0) /\ Parses(tx, 1)
  BY <1>0 DEF Parses
<1>. QED
  BY <1>2, <1>3, <1>4, <1>5

\* The kinds of formatters differ.
LEMMA FormatterKinds ==
  /\ Null \in Formatter /\ NextStep \in Formatter /\ Confirm \in Formatter /\ Source \in Formatter
  /\ \A k \in Nat : Header(k) \in Formatter /\ Detail(k) \in Formatter
  /\ Null # NextStep /\ Confirm \notin Nothing /\ Source \notin Nothing /\ Confirm # Source
  /\ \A k \in Nat : Header(k) \notin Nothing /\ Detail(k) \notin Nothing
BY DEF Formatter, Null, NextStep, Confirm, Source, Header, Detail, Nothing

\* The current formatter is an entry of the stack.
LEMMA CurrentTyped ==
  ASSUME NEW m \in Memory, m.formatterIndex # -1
  PROVE  /\ m.formatterIndex \in 0 .. MaxFormatters - 1 /\ Current(m) \in Formatter
         /\ Current(m) = m.stack[m.formatterIndex] /\ Current(m).part \in Nat
BY TransactionsOK DEF Memory, Current, Formatter

LEMMA AfterDetailTyped ==
  ASSUME tx \in Transactions, NEW m \in Memory, m.details # 0, NEW k \in Nat
  PROVE  AfterDetail(m, k) \in Formatter /\ AfterOperation(m) \in {Null, NextStep}
<1>1. AfterOperation(m) \in {Null, NextStep} /\ AfterOperation(m) \in Formatter
  BY FormatterKinds DEF AfterOperation
<1>2. Detail(k + 1) \in Formatter
  BY FormatterKinds
<1>3. [kind |-> "source", part |-> 0] \in Formatter
  BY DEF Formatter
<1>. QED
  BY <1>1, <1>2, <1>3 DEF AfterDetail

LEMMA SuccessorTyped ==
  ASSUME tx \in Transactions, NEW m \in Memory, m.details # 0, m.formatterIndex # -1
  PROVE  Successor(m) \in Formatter /\ Printed(m) \in Page
<1>1. Current(m) \in Formatter /\ Current(m).part \in Nat
  BY CurrentTyped
<1>2. [Current(m) EXCEPT !.part = @ + 1] \in Formatter
  BY <1>1 DEF Formatter
<1>3. AfterDetail(m, 1) \in Formatter /\ AfterDetail(m, Current(m).part) \in Formatter
  BY <1>1, AfterDetailTyped
<1>4. AfterOperation(m) \in Formatter /\ NextStep \in Formatter /\ Detail(1) \in Formatter
  BY AfterDetailTyped, FormatterKinds
<1>5. Successor(m) \in Formatter
  BY <1>2, <1>3, <1>4 DEF Successor
<1>6. m.details \in Nat \ {0} /\ m.opIndex \in Nat
  BY DEF Memory
<1>7. Op(m.details).pages \in Nat /\ Captions \in {0, 1}
  BY <1>6, OpTyped, TxTyped
<1>8. Printed(m) \in Page
  BY <1>1, <1>6, <1>7 DEF Printed, Page
<1>. QED
  BY <1>5, <1>8

\* What follows a formatter in the stack belongs there.
LEMMA SuccessorFits ==
  ASSUME tx \in Transactions, NEW m \in Memory, m.details # 0, extended \in BOOLEAN,
         m.formatterIndex # -1, Current(m) \notin Nothing,
         Entry(Current(m), m.formatterIndex, m.details)
  PROVE  Entry(Successor(m), m.formatterIndex + 1, m.details)
<1>. DEFINE i == m.formatterIndex
            k == m.details
            H == HeaderPages(tx)
<1>0. /\ i \in Nat /\ k \in Nat \ {0} /\ H \in Nat \ {0} /\ Captions \in {0, 1}
      /\ Len(tx.ops) \in Nat /\ tx.ops[1].parses /\ Len(tx.ops) # 0
  BY CurrentTyped, HeaderHasPages, TxTyped DEF Memory
<1>1. Op(k).pages \in Nat \ {0} /\ (k > Len(tx.ops) => Op(k).pages = 1 /\ ~Op(k).source)
  BY <1>0, OpTyped
<1>2. AfterOperation(m) \in Nothing
  BY AfterDetailTyped DEF Nothing
<1>3. ASSUME NEW n \in Nat \ {0}, n + Captions = i + 1, ~extended => n <= Op(k).pages, Fits(i)
      PROVE  Entry(AfterDetail(m, n), i + 1, k)
  <2>1. CASE n < Op(k).pages
    <3>1. AfterDetail(m, n) = Detail(n + 1)
      BY <2>1 DEF AfterDetail
    <3>2. k \in 1 .. Len(tx.ops)
      BY <1>0, <1>1, <1>3, <2>1
    <3>3. i + 1 < Chapter(tx, k)
      BY <1>0, <1>1, <1>3, <2>1, <3>2, ChapterOf
    <3>4. Fits(i + 1)
      BY <3>2, <3>3 DEF Fits
    <3>5. n + 1 \in 1 .. (i + 1) + 1 /\ (n + 1) + Captions = (i + 1) + 1 /\ n + 1 <= Op(k).pages
      BY <1>0, <1>1, <1>3, <2>1
    <3>6. IsDetail(Detail(n + 1), i + 1, k)
      BY <3>4, <3>5 DEF IsDetail
    <3>. QED
      BY <3>1, <3>6 DEF Entry
  <2>2. CASE ~(n < Op(k).pages) /\ Op(k).source
    <3>1. AfterDetail(m, n) = Source
      BY <2>2 DEF AfterDetail, Source
    <3>2. CASE extended
      <4>1. (i + 1) - 1 = i
        BY <1>0
      <4>2. IsSource(Source, i + 1, k)
        BY <1>3, <3>2, <4>1 DEF IsSource
      <4>. QED
        BY <3>1, <4>2 DEF Entry
    <3>3. CASE ~extended
      <4>1. n = Op(k).pages /\ i + 1 = Captions + Op(k).pages
        BY <1>0, <1>1, <1>3, <2>2, <3>3
      <4>2. k \in 1 .. Len(tx.ops)
        BY <1>0, <1>1, <2>2
      <4>3. i + 1 < Chapter(tx, k)
        BY <1>0, <1>1, <2>2, <4>1, <4>2, ChapterOf
      <4>4. Fits(i + 1)
        BY <4>2, <4>3 DEF Fits
      <4>5. IsSource(Source, i + 1, k)
        BY <2>2, <3>3, <4>1, <4>4 DEF IsSource
      <4>. QED
        BY <3>1, <4>5 DEF Entry
    <3>. QED
      BY <3>2, <3>3
  <2>3. CASE ~(n < Op(k).pages) /\ ~Op(k).source
    <3>1. AfterDetail(m, n) \in Nothing
      BY <1>2, <2>3 DEF AfterDetail
    <3>. QED
      BY <3>1 DEF Entry
  <2>. QED
    BY <2>1, <2>2, <2>3
<1>4. CASE IsHeader(Current(m), i)
  <2>1. Current(m).kind = "header" /\ Current(m).part = i + 1
    BY <1>4 DEF IsHeader, Header
  <2>2. CASE i + 1 < H
    <3>1. Successor(m) = Header((i + 1) + 1)
      BY <1>0, <1>4, <2>1, <2>2 DEF Successor, Header, IsHeader
    <3>. QED
      BY <2>2, <3>1 DEF Entry, IsHeader
  <2>3. CASE ~(i + 1 < H)
    <3>1. Successor(m) = NextStep
      BY <2>1, <2>3 DEF Successor
    <3>. QED
      BY <3>1 DEF Entry, Nothing
  <2>. QED
    BY <2>2, <2>3
<1>5. CASE IsConfirm(Current(m), i)
  <2>1. Current(m).kind = "operation" /\ i = 0
    BY <1>5 DEF IsConfirm, Confirm
  <2>2. CASE Captions = 1
    <3>1. Successor(m) = Detail(1)
      BY <2>1, <2>2 DEF Successor
    <3>2. 1 < Chapter(tx, 1)
      <4>1. 1 \in 1 .. Len(tx.ops) /\ Op(1).pages \in Nat \ {0}
        BY <1>0, OpTyped
      <4>2. Chapter(tx, 1) = Captions + Op(1).pages + IF Op(1).source THEN 1 ELSE 0
        BY <4>1, ChapterOf
      <4>. QED
        BY <2>2, <4>1, <4>2
    <3>3. Fits(1)
      <4>1. 1 \in 1 .. Len(tx.ops)
        BY <1>0
      <4>. QED
        BY <3>2, <4>1 DEF Fits
    <3>4. 1 \in 1 .. 1 + 1 /\ 1 + Captions = 1 + 1 /\ 1 <= Op(k).pages
      BY <1>1, <2>2
    <3>5. IsDetail(Detail(1), 1, k)
      BY <3>3, <3>4 DEF IsDetail
    <3>6. i + 1 = 1
      BY <2>1
    <3>. QED
      BY <3>1, <3>5, <3>6 DEF Entry
  <2>3. CASE Captions = 0
    <3>1. Successor(m) = AfterDetail(m, 1)
      BY <2>1, <2>3 DEF Successor
    <3>2. Fits(0)
      <4>1. 1 \in 1 .. Len(tx.ops)
        BY <1>0
      <4>2. 0 < Chapter(tx, 1)
        BY <4>1, ChapterOf
      <4>. QED
        BY <4>1, <4>2 DEF Fits
    <3>. QED
      BY <1>1, <1>3, <2>1, <2>3, <3>1, <3>2
  <2>. QED
    BY <1>0, <2>2, <2>3
<1>6. CASE IsDetail(Current(m), i, k)
  <2>1. PICK n \in 1 .. i + 1 : /\ Current(m) = Detail(n) /\ n + Captions = i + 1
                                /\ ~extended => n <= Op(k).pages
    BY <1>6 DEF IsDetail
  <2>2. Current(m).kind = "detail" /\ Current(m).part = n
    BY <2>1 DEF Detail
  <2>3. Successor(m) = AfterDetail(m, n)
    BY <2>2 DEF Successor
  <2>4. n \in Nat \ {0}
    BY <1>0
  <2>. QED
    BY <1>3, <1>6, <2>1, <2>3, <2>4 DEF IsDetail
<1>7. CASE IsSource(Current(m), i, k)
  <2>1. Current(m).kind = "source"
    BY <1>7 DEF IsSource, Source
  <2>2. Successor(m) = AfterOperation(m)
    BY <2>1 DEF Successor
  <2>. QED
    BY <1>2, <2>2 DEF Entry
<1>. QED
  BY <1>4, <1>5, <1>6, <1>7 DEF Entry

\* While the chapter is of one operation, what is printed is the page the indices say.
LEMMA PrintedIsCurrent ==
  ASSUME tx \in Transactions, NEW m \in Memory, m.details # 0, ~extended,
         m.formatterIndex # -1, Current(m) \notin Nothing,
         Entry(Current(m), m.formatterIndex, m.details), InChapter(m), m.dataIndex # 0
  PROVE  Printed(m) = [of |-> m.dataIndex - 1, part |-> m.formatterIndex + 1]
<1>. DEFINE i == m.formatterIndex
            k == m.details
<1>0. i \in 0 .. MaxFormatters - 1 /\ Current(m) = m.stack[i] /\ m.dataIndex \in Nat \ {0}
      /\ Captions \in {0, 1} /\ i \in 0 .. i /\ m.opIndex \in Nat
  BY CurrentTyped, TxTyped, TransactionsOK DEF Memory
<1>1. CASE m.dataIndex = 1
  <2>1. IsHeader(Current(m), i)
    BY <1>0, <1>1 DEF InChapter
  <2>2. Current(m).kind = "header" /\ Current(m).part = i + 1
    BY <2>1 DEF IsHeader, Header
  <2>. QED
    BY <1>1, <2>2 DEF Printed
<1>2. CASE m.dataIndex # 1
  <2>0. k = m.dataIndex - 1 /\ m.opIndex = m.dataIndex - 1 /\ ~IsHeader(Current(m), i)
    BY <1>0, <1>2 DEF InChapter
  <2>1. CASE IsConfirm(Current(m), i)
    <3>1. Current(m).kind = "operation" /\ i = 0
      BY <2>1 DEF IsConfirm, Confirm
    <3>. QED
      BY <2>0, <3>1 DEF Printed
  <2>2. CASE IsDetail(Current(m), i, k)
    <3>1. PICK n \in 1 .. i + 1 : Current(m) = Detail(n) /\ n + Captions = i + 1
      BY <2>2 DEF IsDetail
    <3>2. Current(m).kind = "detail" /\ Current(m).part = n
      BY <3>1 DEF Detail
    <3>3. Captions + n = i + 1
      BY <1>0, <3>1
    <3>. QED
      BY <2>0, <3>2, <3>3 DEF Printed
  <2>3. CASE IsSource(Current(m), i, k)
    <3>1. Current(m).kind = "source" /\ i = Captions + Op(k).pages
      BY <2>3 DEF IsSource, Source
    <3>2. Op(k).pages \in Nat
      BY <1>0, <1>2, <2>0, OpTyped
    <3>3. Captions + (Op(k).pages + 1) = i + 1
      BY <1>0, <3>1, <3>2
    <3>. QED
      BY <2>0, <3>1, <3>3 DEF Printed
  <2>. QED
    BY <2>0, <2>1, <2>2, <2>3 DEF Entry
<1>. QED
  BY <1>1, <1>2
-----------------------------------------------------------------------------
(* What the functions do to the memory.                                     *)

\* Calling the current formatter.
LEMMA FormatFields ==
  ASSUME tx \in Transactions, NEW m \in Memory, m.details # 0,
         m.formatterIndex \in 0 .. MaxFormatters - 2, Current(m) \notin Nothing
  PROVE  /\ ~Throws(m) /\ Format(m) \in Memory
         /\ Format(m).page = Printed(m)
         /\ Format(m).stack = [m.stack EXCEPT ![m.formatterIndex + 1] = Successor(m)]
         /\ Format(m).dataIndex = m.dataIndex /\ Format(m).formatterIndex = m.formatterIndex
         /\ Format(m).opIndex = m.opIndex /\ Format(m).offset = m.offset
         /\ Format(m).details = m.details
<1>0. MaxFormatters \in Nat /\ m.formatterIndex \in Nat /\ m.formatterIndex # -1
      /\ m.formatterIndex + 1 < MaxFormatters
  BY TransactionsOK
<1>1. ~Throws(m)
  BY <1>0 DEF Throws
<1>2. Successor(m) \in Formatter /\ Printed(m) \in Page
  BY <1>0, SuccessorTyped
<1>3. PICK g \in Formatter, p \in Page, j \in 0 .. MaxFormatters - 1 :
        g = Successor(m) /\ p = Printed(m) /\ j = m.formatterIndex + 1
  BY <1>0, <1>2
<1>4. Format(m) = [m EXCEPT !.page = p, !.stack[j] = g]
  BY <1>1, <1>3 DEF Format
<1>5. [m.stack EXCEPT ![j] = g] \in [0 .. MaxFormatters - 1 -> Formatter]
  BY DEF Memory
<1>. QED
  BY <1>1, <1>3, <1>4, <1>5 DEF Memory

\* Afterwards, what it prints and pushes is still the same.
LEMMA FormatKeeps ==
  ASSUME tx \in Transactions, NEW m \in Memory, m.details # 0,
         m.formatterIndex \in 0 .. MaxFormatters - 2, Current(m) \notin Nothing
  PROVE  /\ Current(Format(m)) = Current(m) /\ Successor(Format(m)) = Successor(m)
         /\ Format(m).stack[m.formatterIndex + 1] = Successor(m)
         /\ \A i \in 0 .. m.formatterIndex : Format(m).stack[i] = m.stack[i]
         /\ \A i \in 0 .. MaxFormatters - 1 \ {m.formatterIndex + 1} : Format(m).stack[i] = m.stack[i]
<1>. DEFINE n == Format(m)
<1>0. /\ MaxFormatters \in Nat /\ m.formatterIndex \in Nat /\ m.formatterIndex + 1 < MaxFormatters
      /\ m.stack \in [0 .. MaxFormatters - 1 -> Formatter]
  BY TransactionsOK DEF Memory
<1>1. /\ n.stack = [m.stack EXCEPT ![m.formatterIndex + 1] = Successor(m)]
      /\ n.formatterIndex = m.formatterIndex /\ n.opIndex = m.opIndex /\ n.details = m.details
  BY FormatFields
<1>. HIDE DEF n
<1>2. /\ n.stack[m.formatterIndex + 1] = Successor(m)
      /\ \A i \in 0 .. m.formatterIndex : n.stack[i] = m.stack[i]
      /\ \A i \in 0 .. MaxFormatters - 1 \ {m.formatterIndex + 1} : n.stack[i] = m.stack[i]
  BY <1>0, <1>1
<1>3. Current(n) = Current(m)
  BY <1>0, <1>1, <1>2 DEF Current
<1>4. AfterOperation(n) = AfterOperation(m)
  BY <1>1 DEF AfterOperation
<1>5. \A k : AfterDetail(n, k) = AfterDetail(m, k)
  BY <1>1, <1>4 DEF AfterDetail
<1>6. Successor(n) = Successor(m)
  BY <1>3, <1>4, <1>5 DEF Successor
<1>. QED
  BY <1>2, <1>3, <1>6 DEF n

\* The loop of get_formatter reads up to the operation asked for, or one that does not parse.
LEMMA Reached ==
  ASSUME tx \in Transactions, NEW m \in Memory, m.dataIndex \in Nat \ {0},
         m.offset \in {0, m.opIndex}, Parses(tx, m.opIndex), m.details # 0,
         NEW p, p = ParseToData[m]
  PROVE  /\ p \in Memory /\ p.dataIndex = m.dataIndex /\ p.formatterIndex = m.formatterIndex
         /\ p.stack = m.stack /\ p.page = m.page
         /\ Placed(p)
         /\ m.dataIndex - 1 <= m.opIndex => p = m
         /\ m.dataIndex - 1 > m.opIndex =>
              \/ p.opIndex = m.dataIndex - 1 /\ p.details = m.dataIndex - 1
              \/ p.opIndex < m.dataIndex - 1 /\ ~Parses(tx, m.dataIndex - 1)
<1>0. m.dataIndex \in Nat /\ m.opIndex \in Nat /\ m.offset \in Nat
  BY DEF Memory
<1>1. p = Outcome(m)
  BY LoopIsOutcome
<1>2. CASE m.dataIndex - 1 <= m.opIndex
  <2>1. p = m
    BY <1>1, <1>2 DEF Outcome
  <2>. QED
    BY <1>0, <1>2, <2>1 DEF Placed
<1>3. CASE m.dataIndex - 1 > m.opIndex
  <2>0. ~(m.dataIndex - 1 <= m.opIndex) /\ Parses(tx, m.offset)
    BY <1>0, <1>3, ParsesIs
  <2>1. PICK z \in Nat : /\ z = Stop(m) /\ z > m.offset /\ ~Op(z).parses
                         /\ \A j \in m.offset + 1 .. z - 1 : Op(j).parses
    BY StopIsNext
  <2>2. \A j \in 1 .. z - 1 : Op(j).parses
    <3>1. \A j \in 1 .. m.offset : Op(j).parses
      BY <1>0, <2>0, ParsesIs
    <3>. QED
      BY <1>0, <2>1, <3>1
  <2>3. PICK e \in Nat : e = m.dataIndex - 1
    BY <1>0
  <2>4. Wanted(m) = e
    BY <1>0, <2>3 DEF Wanted, Base
  <2>5. CASE e < z
    <3>1. p = At(m, e, e, e)
      BY <1>1, <2>0, <2>1, <2>3, <2>4, <2>5 DEF Outcome
    <3>2. /\ p \in Memory /\ p.dataIndex = m.dataIndex /\ p.formatterIndex = m.formatterIndex
          /\ p.stack = m.stack /\ p.page = m.page
          /\ p.opIndex = e /\ p.offset = e /\ p.details = e
      BY <3>1 DEF At, Memory
    <3>3. \A j \in 1 .. e : Op(j).parses
      BY <2>1, <2>2, <2>5
    <3>4. Parses(tx, e) /\ e # 0
      BY <1>0, <1>3, <2>3, <3>3, ParsesIs
    <3>. QED
      BY <1>3, <2>0, <2>3, <3>2, <3>4 DEF Placed
  <2>6. CASE ~(e < z)
    <3>1. PICK x \in Nat, y \in Nat : x = Base(m) + (z - 1 - m.offset) /\ y = z - 1
      BY <1>0, <2>1 DEF Base
    <3>2. x = y
      BY <1>0, <2>1, <3>1 DEF Base
    <3>3. p = At(m, y, y, z)
      BY <1>1, <2>0, <2>1, <2>4, <2>6, <3>1, <3>2 DEF Outcome
    <3>4. /\ p \in Memory /\ p.dataIndex = m.dataIndex /\ p.formatterIndex = m.formatterIndex
          /\ p.stack = m.stack /\ p.page = m.page
          /\ p.opIndex = y /\ p.offset = y /\ p.details = z
      BY <3>3 DEF At, Memory
    <3>5. Parses(tx, y)
      BY <2>2, <3>1, ParsesIs
    <3>6. ~Parses(tx, e)
      BY <1>0, <2>1, <2>6, ParsesIs
    <3>7. z # 0 /\ y < e
      BY <1>0, <2>1, <2>6, <3>1
    <3>. QED
      BY <1>3, <2>0, <2>3, <3>4, <3>5, <3>6, <3>7 DEF Placed
  <2>. QED
    BY <2>1, <2>3, <2>5, <2>6
<1>. QED
  BY <1>0, <1>2, <1>3

\* The memory get_formatter is called with on the way to the next chapter, and to the one
\* before.
Ahead(m)  == [m EXCEPT !.stack = EmptyStack, !.formatterIndex = 0, !.dataIndex = @ + 1]
Behind(m) == [m EXCEPT !.stack = EmptyStack, !.formatterIndex = 0, !.dataIndex = @ - 1,
                       !.offset = 0, !.opIndex = 0]

\* Ready to fetch the first formatter of a chapter.
Cleared(m) ==
  /\ m \in Memory /\ m.dataIndex # 0 /\ m.formatterIndex = 0 /\ m.stack = EmptyStack
  /\ Placed(m) /\ Bounded(m)

\* n is m with the first formatter of the chapter, if there is one.
Fetched(m, n) ==
  /\ Good(n) /\ n.dataIndex = m.dataIndex /\ n.formatterIndex = 0 /\ n.page = m.page
  /\ m.dataIndex = 1 =>
       n.stack[0] = Header(1) /\ n.opIndex = m.opIndex /\ n.details = m.details
  /\ m.dataIndex > 1 =>
       \/ /\ n.stack[0] = Confirm /\ m.dataIndex - 1 <= Len(tx.ops)
          /\ m.dataIndex - 1 <= m.opIndex => n.opIndex = m.opIndex /\ n.details = m.details
          /\ m.dataIndex - 1 > m.opIndex =>
               n.opIndex = m.dataIndex - 1 /\ n.details = m.dataIndex - 1
       \/ n.stack = EmptyStack /\ ~Parses(tx, m.dataIndex - 1)

LEMMA EmptyStackTyped ==
  /\ EmptyStack \in [0 .. MaxFormatters - 1 -> Formatter]
  /\ \A i \in 0 .. MaxFormatters - 1 : EmptyStack[i] = Null
BY FormatterKinds DEF EmptyStack

\* What a chapter may begin with.
LEMMA StartFits ==
  ASSUME tx \in Transactions, NEW k
  PROVE  Entry(Null, 0, k) /\ Entry(Header(1), 0, k) /\ Entry(Confirm, 0, k)
         /\ \A i : Entry(Null, i, k)
<1>1. IsHeader(Header(1), 0)
  BY HeaderHasPages DEF IsHeader
<1>. QED
  BY <1>1 DEF Entry, IsConfirm, Nothing

First(p, g) == [p EXCEPT !.stack[0] = g]

LEMMA FirstFormatter ==
  ASSUME tx \in Transactions, NEW p \in Memory, NEW g \in Formatter,
         Placed(p), Bounded(p), p.stack = EmptyStack, p.formatterIndex = 0,
         Entry(g, 0, p.details)
  PROVE  /\ Good(First(p, g)) /\ First(p, g).dataIndex = p.dataIndex
         /\ First(p, g).formatterIndex = 0 /\ First(p, g).page = p.page
         /\ First(p, g).stack[0] = g /\ First(p, g).stack = [EmptyStack EXCEPT ![0] = g]
         /\ First(p, g).opIndex = p.opIndex /\ First(p, g).details = p.details
<1>. DEFINE n == First(p, g)
<1>. DEFINE I == 0 .. MaxFormatters - 1
<1>0. 0 \in I
  BY TransactionsOK
<1>1. /\ n \in Memory /\ n.dataIndex = p.dataIndex /\ n.formatterIndex = 0
      /\ n.page = p.page /\ n.opIndex = p.opIndex /\ n.details = p.details
      /\ n.offset = p.offset /\ n.stack = [EmptyStack EXCEPT ![0] = g]
  BY <1>0, EmptyStackTyped DEF Memory, First
<1>. HIDE DEF n
<1>2. n.stack[0] = g /\ \A i \in I \ {0} : n.stack[i] = Null
  BY <1>0, <1>1, EmptyStackTyped
<1>3. ASSUME NEW i \in I PROVE Entry(n.stack[i], i, n.details)
  <2>1. CASE i = 0
    BY <1>1, <1>2, <2>1
  <2>2. CASE i # 0
    <3>1. n.stack[i] = Null
      BY <1>2, <2>2
    <3>2. Null \in Nothing
      BY DEF Nothing
    <3>. QED
      BY <3>1, <3>2 DEF Entry
  <2>. QED
    BY <2>1, <2>2
<1>4. Placed(n)
  BY <1>1 DEF Placed
<1>5. Bounded(n)
  BY <1>1 DEF Bounded
<1>. QED
  BY <1>1, <1>2, <1>3, <1>4, <1>5 DEF Good, n

\* What get_formatter leaves, whether it has to parse or not.
LEMMA FetchFields ==
  ASSUME tx \in Transactions, NEW m, Cleared(m)
  PROVE  Fetched(m, Fetch(m))
<1>0. /\ m \in Memory /\ m.dataIndex \in Nat \ {0} /\ m.opIndex \in Nat
      /\ m.formatterIndex = 0 /\ m.stack = EmptyStack /\ m.details # 0
      /\ m.offset \in {0, m.opIndex} /\ Parses(tx, m.opIndex) /\ Placed(m)
  BY TransactionsOK DEF Cleared, Placed, Memory
<1>1. PICK n : n = Fetch(m)
  OBVIOUS
<1>. SUFFICES Fetched(m, n)
  BY <1>1
<1>2. CASE m.dataIndex = 1
  <2>1. n = First(m, Header(1))
    BY <1>1, <1>2 DEF Fetch, Header, First
  <2>2. Header(1) \in Formatter /\ Entry(Header(1), 0, m.details) /\ Bounded(m)
    BY FormatterKinds, StartFits DEF Cleared
  <2>3. /\ Good(n) /\ n.dataIndex = m.dataIndex /\ n.formatterIndex = 0
        /\ n.page = m.page /\ n.stack[0] = Header(1)
        /\ n.opIndex = m.opIndex /\ n.details = m.details
    BY <1>0, <2>1, <2>2, FirstFormatter
  <2>. QED
    BY <1>2, <2>3 DEF Fetched
<1>3. CASE m.dataIndex > 1
  <2>0. m.dataIndex # 1
    BY <1>3
  <2>1. PICK p : p = ParseToData[m]
    OBVIOUS
  <2>2. /\ p \in Memory /\ p.dataIndex = m.dataIndex /\ p.formatterIndex = 0
        /\ p.stack = EmptyStack /\ p.page = m.page /\ Placed(p)
    BY <1>0, <2>1, Reached
  <2>12. Bounded(p)
    BY <2>2 DEF Bounded, Cleared
  <2>3. m.dataIndex - 1 <= m.opIndex => p = m
    BY <1>0, <2>1, Reached
  <2>4. m.dataIndex - 1 > m.opIndex =>
              \/ p.opIndex = m.dataIndex - 1 /\ p.details = m.dataIndex - 1
              \/ p.opIndex < m.dataIndex - 1 /\ ~Parses(tx, m.dataIndex - 1)
    BY <1>0, <2>1, Reached
  <2>5. PICK g : g = IF m.dataIndex - 1 > p.opIndex THEN Null ELSE Confirm
    OBVIOUS
  <2>6. g \in Formatter /\ Entry(g, 0, p.details)
    BY <2>5, FormatterKinds, StartFits
  <2>7. n = First(p, g)
    BY <1>1, <2>0, <2>1, <2>5 DEF Fetch, First
  <2>8. /\ Good(n) /\ n.dataIndex = m.dataIndex /\ n.formatterIndex = 0
        /\ n.page = m.page /\ n.stack[0] = g /\ n.stack = [EmptyStack EXCEPT ![0] = g]
        /\ n.opIndex = p.opIndex /\ n.details = p.details
    BY <2>2, <2>6, <2>7, <2>12, FirstFormatter
  <2>9. p.opIndex \in Nat /\ p.opIndex <= Len(tx.ops) /\ Len(tx.ops) \in Nat
    BY <2>2, ParsesIs, TxTyped DEF Placed, Memory
  <2>10. CASE m.dataIndex - 1 > p.opIndex
    <3>1. g = Null /\ ~Parses(tx, m.dataIndex - 1)
      BY <1>0, <2>3, <2>4, <2>5, <2>9, <2>10
    <3>2. n.stack = EmptyStack
      BY <2>8, <3>1, EmptyStackTyped DEF EmptyStack
    <3>. QED
      BY <2>0, <2>8, <3>1, <3>2 DEF Fetched
  <2>11. CASE ~(m.dataIndex - 1 > p.opIndex)
    <3>1. g = Confirm /\ m.dataIndex - 1 <= Len(tx.ops)
      BY <1>0, <2>5, <2>9, <2>11
    <3>2. m.dataIndex - 1 <= m.opIndex => p.opIndex = m.opIndex /\ p.details = m.details
      BY <2>3
    <3>3. m.dataIndex - 1 > m.opIndex =>
            p.opIndex = m.dataIndex - 1 /\ p.details = m.dataIndex - 1
      BY <1>0, <2>4, <2>9, <2>11
    <3>. QED
      BY <2>0, <2>8, <3>1, <3>2, <3>3 DEF Fetched
  <2>. QED
    BY <2>10, <2>11
<1>. QED
  BY <1>0, <1>1, <1>2, <1>3

\* Going to the next chapter, nothing is known of the formatters of the one before.
LEMMA AheadCleared ==
  ASSUME tx \in Transactions, NEW m, Good(m),
         m.dataIndex <= tx.count \/ m.dataIndex - 1 <= Len(tx.ops)
  PROVE  /\ Cleared(Ahead(m)) /\ Ahead(m).dataIndex = m.dataIndex + 1 /\ Ahead(m).page = m.page
         /\ Ahead(m).opIndex = m.opIndex /\ Ahead(m).details = m.details
<1>1. m \in Memory /\ m.dataIndex \in Nat /\ 0 \in -1 .. MaxFormatters - 1
  BY TransactionsOK DEF Good, Memory
<1>2. PICK d \in Nat : d = m.dataIndex + 1
  BY <1>1
<1>3. Ahead(m) = [m EXCEPT !.stack = EmptyStack, !.formatterIndex = 0, !.dataIndex = d]
  BY <1>2 DEF Ahead
<1>4. /\ Ahead(m) \in Memory /\ Ahead(m).dataIndex = d /\ Ahead(m).page = m.page
      /\ Ahead(m).opIndex = m.opIndex /\ Ahead(m).details = m.details
      /\ Ahead(m).offset = m.offset /\ Ahead(m).formatterIndex = 0 /\ Ahead(m).stack = EmptyStack
  BY <1>1, <1>3, EmptyStackTyped DEF Memory
<1>5. Placed(Ahead(m))
  BY <1>4 DEF Placed, Good
<1>6. Bounded(Ahead(m))
  BY <1>1, <1>2, <1>4, TxTyped DEF Bounded
<1>. QED
  BY <1>1, <1>2, <1>4, <1>5, <1>6 DEF Cleared

\* Nor going back to the previous one, to which the parser is rewound.
LEMMA BehindCleared ==
  ASSUME tx \in Transactions, NEW m, Good(m), m.dataIndex > 1
  PROVE  /\ Cleared(Behind(m)) /\ Behind(m).dataIndex = m.dataIndex - 1
         /\ Behind(m).page = m.page /\ Behind(m).opIndex = 0
<1>1. m \in Memory /\ m.dataIndex \in Nat /\ 0 \in -1 .. MaxFormatters - 1 /\ m.details # 0
  BY TransactionsOK DEF Good, Memory, Placed
<1>2. PICK d \in Nat : d = m.dataIndex - 1
  BY <1>1
<1>3. Behind(m) = [m EXCEPT !.stack = EmptyStack, !.formatterIndex = 0, !.dataIndex = d,
                            !.offset = 0, !.opIndex = 0]
  BY <1>2 DEF Behind
<1>4. /\ Behind(m) \in Memory /\ Behind(m).dataIndex = d /\ Behind(m).page = m.page
      /\ Behind(m).opIndex = 0 /\ Behind(m).details = m.details
      /\ Behind(m).offset = 0 /\ Behind(m).formatterIndex = 0 /\ Behind(m).stack = EmptyStack
  <2>1. PICK n : n = [m EXCEPT !.stack = EmptyStack, !.formatterIndex = 0, !.dataIndex = d]
    OBVIOUS
  <2>2. /\ n \in Memory /\ n.dataIndex = d /\ n.page = m.page /\ n.details = m.details
        /\ n.formatterIndex = 0 /\ n.stack = EmptyStack
    BY <1>1, <2>1, EmptyStackTyped DEF Memory
  <2>3. Behind(m) = [n EXCEPT !.offset = 0, !.opIndex = 0]
    BY <1>3, <2>1
  <2>4. Behind(m) \in Memory
    <3>1. PICK z \in Nat, k \in Nat : z = 0 /\ k = n.details
      BY <2>2 DEF Memory
    <3>2. Behind(m) = At(n, z, z, k)
      BY <2>2, <2>3, <3>1 DEF At, Memory
    <3>. QED
      BY <2>2, <3>2 DEF At, Memory
  <2>5. Behind(m).dataIndex = d /\ Behind(m).page = m.page /\ Behind(m).details = m.details
    BY <2>2, <2>3 DEF Memory
  <2>6. Behind(m).formatterIndex = 0 /\ Behind(m).stack = EmptyStack
    BY <2>2, <2>3 DEF Memory
  <2>7. Behind(m).offset = 0 /\ Behind(m).opIndex = 0
    BY <2>2, <2>3 DEF Memory
  <2>. QED
    BY <2>4, <2>5, <2>6, <2>7
<1>5. Placed(Behind(m))
  BY <1>1, <1>4, ParsesIs DEF Placed
<1>6. Bounded(Behind(m))
  BY <1>1, <1>2, <1>4, TxTyped DEF Bounded, Good
<1>. QED
  BY <1>1, <1>2, <1>4, <1>5, <1>6 DEF Cleared

\* A memory whose current formatter can be called.
Ready(m) == Good(m) /\ m.dataIndex >= 1 /\ m.formatterIndex \in 0 .. MaxFormatters - 2 /\ Real(m)

Move(m, i) == [m EXCEPT !.formatterIndex = i]

LEMMA MoveFields ==
  ASSUME NEW m, Good(m), NEW i \in -1 .. MaxFormatters - 1
  PROVE  /\ Good(Move(m, i)) /\ Move(m, i).formatterIndex = i /\ Move(m, i).page = m.page
         /\ Move(m, i).dataIndex = m.dataIndex /\ Move(m, i).stack = m.stack
         /\ Move(m, i).opIndex = m.opIndex /\ Move(m, i).details = m.details
<1>1. /\ Move(m, i).formatterIndex = i /\ Move(m, i).page = m.page /\ Move(m, i) \in Memory
      /\ Move(m, i).dataIndex = m.dataIndex /\ Move(m, i).stack = m.stack
      /\ Move(m, i).opIndex = m.opIndex /\ Move(m, i).details = m.details
      /\ Move(m, i).offset = m.offset
  BY DEF Move, Memory, Good
<1>. QED
  BY <1>1 DEF Good, Placed, Bounded

LEMMA ReadyCurrent ==
  ASSUME NEW m, Ready(m)
  PROVE  /\ m \in Memory /\ m.details # 0 /\ m.formatterIndex # -1
         /\ m.formatterIndex \in 0 .. MaxFormatters - 2
         /\ Current(m) = m.stack[m.formatterIndex] /\ Current(m) \notin Nothing
         /\ Entry(Current(m), m.formatterIndex, m.details)
<1>1. m.formatterIndex \in 0 .. m.formatterIndex /\ m.formatterIndex \in 0 .. MaxFormatters - 1
  BY TransactionsOK DEF Ready
<1>2. Current(m) = m.stack[m.formatterIndex]
  BY DEF Current
<1>. QED
  BY <1>1, <1>2 DEF Ready, Good, Placed, Real

\* Where there is a formatter and room for the next, a page is printed and it is pushed.
LEMMA ReadyFormat ==
  ASSUME tx \in Transactions, extended \in BOOLEAN, NEW m, Ready(m)
  PROVE  Ready(Format(m)) /\ ~Throws(m) /\ ~Throws(Format(m)) /\ Format(m).page \in Page
<1>. DEFINE n == Format(m)
            f == m.formatterIndex
<1>0. /\ m \in Memory /\ m.details # 0 /\ f # -1 /\ f \in 0 .. MaxFormatters - 2
      /\ Current(m) = m.stack[f] /\ Current(m) \notin Nothing /\ Entry(Current(m), f, m.details)
  BY ReadyCurrent
<1>1. /\ ~Throws(m) /\ n \in Memory /\ n.page = Printed(m)
      /\ n.dataIndex = m.dataIndex /\ n.formatterIndex = f
      /\ n.opIndex = m.opIndex /\ n.offset = m.offset /\ n.details = m.details
  BY <1>0, FormatFields
<1>2. /\ n.stack[f + 1] = Successor(m)
      /\ \A i \in 0 .. f : n.stack[i] = m.stack[i]
      /\ \A i \in 0 .. MaxFormatters - 1 \ {f + 1} : n.stack[i] = m.stack[i]
  BY <1>0, FormatKeeps
<1>. HIDE DEF n
<1>3. Entry(Successor(m), f + 1, m.details)
  BY <1>0, SuccessorFits
<1>4. ASSUME NEW i \in 0 .. MaxFormatters - 1 PROVE Entry(n.stack[i], i, n.details)
  <2>1. CASE i = f + 1
    BY <1>1, <1>2, <1>3, <2>1
  <2>2. CASE i # f + 1
    <3>1. n.stack[i] = m.stack[i]
      BY <1>2, <2>2
    <3>. QED
      BY <1>1, <3>1 DEF Ready, Good
  <2>. QED
    BY <2>1, <2>2
<1>5. Good(n)
  BY <1>1, <1>4 DEF Good, Ready, Placed, Bounded
<1>6. Real(n)
  BY <1>1, <1>2 DEF Real, Ready
<1>7. ~Throws(n)
  BY <1>0, <1>1, TransactionsOK DEF Throws
<1>8. n.page \in Page
  BY <1>1 DEF Memory
<1>. QED
  BY <1>1, <1>5, <1>6, <1>7, <1>8 DEF Ready, n

\* What get_formatter returns is ready, if there is something.
LEMMA FetchedReady ==
  ASSUME tx \in Transactions, NEW m, Cleared(m), NEW n, n = Fetch(m)
  PROVE  /\ Fetched(m, n) /\ n \in Memory
         /\ \/ Ready(n) /\ Current(n) \notin Nothing
            \/ Empty(n) /\ Current(n) = Null /\ ~Parses(tx, m.dataIndex - 1) /\ m.dataIndex > 1
<1>1. Fetched(m, n)
  BY FetchFields
<1>2. m.dataIndex \in Nat \ {0} /\ MaxFormatters \in Nat \ {0, 1} /\ Len(tx.ops) \in Nat
  BY TransactionsOK, TxTyped DEF Cleared, Memory
<1>3. Good(n) /\ n \in Memory /\ n.formatterIndex = 0 /\ n.dataIndex = m.dataIndex
      /\ Current(n) = n.stack[0]
  BY <1>1 DEF Fetched, Good, Current
<1>4. CASE n.stack[0] \notin Nothing /\ m.dataIndex - 1 <= Len(tx.ops)
  <2>1. \A i \in 0 .. n.formatterIndex : n.stack[i] \notin Nothing
    BY <1>3, <1>4
  <2>2. Ready(n)
    BY <1>2, <1>3, <1>4, <2>1 DEF Ready, Real
  <2>. QED
    BY <1>1, <1>3, <1>4, <2>2
<1>5. CASE m.dataIndex > 1 /\ n.stack = EmptyStack /\ ~Parses(tx, m.dataIndex - 1)
  <2>1. n.stack[0] = Null
    BY <1>2, <1>5, EmptyStackTyped
  <2>. QED
    BY <1>1, <1>3, <1>5, <2>1 DEF Empty
<1>6. CASE m.dataIndex = 1
  <2>1. n.stack[0] = Header(1) /\ m.dataIndex - 1 <= Len(tx.ops)
    BY <1>1, <1>2, <1>6 DEF Fetched
  <2>2. Header(1) \notin Nothing
    BY FormatterKinds
  <2>. QED
    BY <1>4, <2>1, <2>2
<1>7. CASE m.dataIndex > 1 /\ n.stack[0] = Confirm /\ m.dataIndex - 1 <= Len(tx.ops)
  BY <1>4, <1>7, FormatterKinds
<1>8. m.dataIndex = 1 \/ m.dataIndex > 1
  BY <1>2
<1>. QED
  BY <1>1, <1>5, <1>6, <1>7, <1>8 DEF Fetched

LEMMA NextScreenIs ==
  ASSUME NEW m
  PROVE  /\ Current(m) = Null => NextScreen(m) = Fetch(Ahead(m))
         /\ Current(m) # Null => NextScreen(m) = m
BY DEF NextScreen, Ahead

LEMMA SetStateDataIs ==
  ASSUME NEW m \in Memory, m.formatterIndex # -1
  PROVE  /\ Current(m) = Null => SetStateData(m) = m
         /\ Current(m) \notin Nothing => SetStateData(m) = Format(m)
         /\ Current(m) = NextStep =>
              SetStateData(m) = IF Current(Fetch(Ahead(m))) = Null
                                THEN [Fetch(Ahead(m)) EXCEPT !.page = Blank]
                                ELSE Format(Fetch(Ahead(m)))
<1>. DEFINE c == [m EXCEPT !.stack[m.formatterIndex] = Null]
<1>1. m.formatterIndex \in 0 .. MaxFormatters - 1 /\ m.stack \in [0 .. MaxFormatters - 1 -> Formatter]
  BY CurrentTyped DEF Memory
<1>2. Current(c) = Null
  BY <1>1 DEF Current, Memory
<1>3. Ahead(c) = Ahead(m)
  BY <1>1 DEF Ahead, Memory
<1>4. NextScreen(c) = Fetch(Ahead(m))
  BY <1>2, <1>3, NextScreenIs
<1>. HIDE DEF c
<1>5. SetStateData(m) = IF Current(m) = Null THEN m
                        ELSE IF Current(m) # NextStep THEN Format(m)
                        ELSE IF Current(NextScreen(c)) = Null THEN [NextScreen(c) EXCEPT !.page = Blank]
                        ELSE Format(NextScreen(c))
  BY DEF SetStateData, c
<1>. QED
  BY <1>4, <1>5, FormatterKinds DEF Nothing
-----------------------------------------------------------------------------
(* What the actions do.                                                     *)

\* The page of m is shown; a page without a formatter stays or is blanked.
Shows(m) ==
  /\ step' = "page" /\ border' = "INSIDE" /\ mem' = Format(m) /\ seen' = seen \cup {Format(m).page}
  /\ UNCHANGED <<tx, extended>>

Stays(m) ==
  /\ step' = "page" /\ border' = "INSIDE" /\ mem' = m /\ seen' = seen \cup {m.page}
  /\ UNCHANGED <<tx, extended>>

\* The next chapter, entered from the header's border or from the last page of the one
\* before.
Advance ==
  \/ Ready(Fetch(Ahead(mem))) /\ Shows(Fetch(Ahead(mem)))
  \/ /\ Empty(Fetch(Ahead(mem))) /\ ~Parses(tx, mem.dataIndex)
     /\ \E p \in Page : Stays([Fetch(Ahead(mem)) EXCEPT !.page = p])

\* Right, before the first page: the header is shown.
LEMMA RightFromReview ==
  ASSUME Shape, step = "review", UpperBorder
  PROVE  /\ Fetched(Ahead(mem), Fetch(Ahead(mem))) /\ Ahead(mem).dataIndex = 1
         /\ Ready(Fetch(Ahead(mem))) /\ Shows(Fetch(Ahead(mem)))
<1>. DEFINE n == Fetch(Ahead(mem))
<1>0. /\ border = "OUT" /\ mem.dataIndex = 0 /\ Empty(mem) /\ Good(mem) /\ tx \in Transactions
      /\ extended \in BOOLEAN
  BY DEF Shape
<1>1. border' = "INSIDE" /\ Show(SetStateData(NextScreen(mem)))
  BY <1>0 DEF UpperBorder
<1>2. Current(mem) = Null
  BY <1>0, EmptyStackTyped, TransactionsOK DEF Current, Empty
<1>3. Cleared(Ahead(mem)) /\ Ahead(mem).dataIndex = 1
  BY <1>0, TxTyped, AheadCleared
<1>4. /\ Fetched(Ahead(mem), n) /\ n \in Memory
      /\ Ready(n) /\ Current(n) \notin Nothing
  BY <1>0, <1>3, FetchedReady
<1>5. n.formatterIndex # -1
  BY <1>4, ReadyCurrent
<1>6. SetStateData(NextScreen(mem)) = Format(n)
  BY <1>2, <1>4, <1>5, NextScreenIs, SetStateDataIs
<1>7. ~Throws(Format(n))
  BY <1>0, <1>4, ReadyFormat
<1>. QED
  BY <1>1, <1>3, <1>4, <1>6, <1>7 DEF Show, Shows

\* Right, on a page: the next formatter, the next chapter, a page left blank, or the end.
LEMMA RightFromPage ==
  ASSUME Shape, step = "page", LowerBorder,
         NEW f, f = mem.formatterIndex, NEW g, g = mem.stack[f + 1]
  PROVE  \/ /\ g \notin Nothing /\ Real(mem) /\ f + 1 \in 0 .. MaxFormatters - 2
            /\ Ready(Move(mem, f + 1)) /\ Shows(Move(mem, f + 1))
         \/ /\ Throws(Move(mem, f + 1)) /\ step' = "thrown" /\ mem' = Move(mem, f + 1)
            /\ UNCHANGED <<tx, border, seen, extended>>
         \/ /\ g = NextStep \/ (g = Null /\ mem.dataIndex < tx.count - 1)
            /\ Cleared(Ahead(mem)) /\ Fetched(Ahead(mem), Fetch(Ahead(mem)))
            /\ Advance
         \/ g = Null /\ Leave("finalize", mem)
<1>. DEFINE m == Move(mem, f + 1)
            n == Fetch(Ahead(mem))
<1>0. /\ border = "INSIDE" /\ Good(mem) /\ tx \in Transactions /\ extended \in BOOLEAN
      /\ mem.dataIndex >= 1 /\ f \in 0 .. MaxFormatters - 2
      /\ Real(mem) \/ Empty(mem)
  BY DEF Shape, Turned
<1>1. /\ MaxFormatters \in Nat \ {0, 1} /\ f + 1 \in 0 .. MaxFormatters - 1
      /\ f \in Nat /\ tx.count \in Nat /\ Len(tx.ops) \in Nat
      /\ mem \in Memory /\ mem.dataIndex \in Nat
  <2>1. MaxFormatters \in Nat \ {0, 1} /\ f + 1 \in 0 .. MaxFormatters - 1 /\ f \in Nat
    BY <1>0, TransactionsOK
  <2>2. tx.count \in Nat /\ Len(tx.ops) \in Nat
    BY <1>0, TxTyped
  <2>3. mem \in Memory /\ mem.dataIndex \in Nat
    BY <1>0 DEF Good, Memory
  <2>. QED
    BY <2>1, <2>2, <2>3
<1>2. /\ Good(m) /\ m.formatterIndex = f + 1 /\ m.dataIndex = mem.dataIndex
      /\ m.stack = mem.stack /\ m \in Memory /\ m.formatterIndex # -1 /\ Current(m) = g
  <2>1. f + 1 \in -1 .. MaxFormatters - 1
    BY <1>1
  <2>2. /\ Good(m) /\ m.formatterIndex = f + 1 /\ m.dataIndex = mem.dataIndex
        /\ m.stack = mem.stack
    BY <1>0, <2>1, MoveFields
  <2>. QED
    BY <1>1, <2>2 DEF Good, Current
<1>3. Ahead(m) = Ahead(mem)
  BY <1>1 DEF Ahead, Move, Memory
<1>4. m = [mem EXCEPT !.formatterIndex = @ + 1]
  BY DEF Move
<1>5. CASE ~MorePages
  <2>1. Leave("finalize", mem)
    BY <1>0, <1>5 DEF LowerBorder
  <2>2. g = Null
    BY <1>5 DEF MorePages
  <2>. QED
    BY <2>1, <2>2
<1>6. CASE MorePages
  <2>1. Show(SetStateData(NextScreen(m))) /\ UNCHANGED border
    BY <1>0, <1>4, <1>6 DEF LowerBorder
  <2>2. g # Null \/ (g = Null /\ mem.dataIndex < tx.count - 1)
    BY <1>6 DEF MorePages
  <2>. HIDE DEF m, n
  <2>3. CASE g \notin Nothing
    <3>1. SetStateData(NextScreen(m)) = Format(m)
      BY <1>2, <2>3, NextScreenIs, SetStateDataIs DEF Nothing
    <3>2. Real(mem) /\ Real(m)
      <4>1. Real(mem)
        BY <1>0, <1>1, <2>3, EmptyStackTyped DEF Empty, Nothing
      <4>2. \A i \in 0 .. f + 1 : i \in 0 .. f \/ i = f + 1
        BY <1>1
      <4>. QED
        BY <1>2, <2>3, <4>1, <4>2 DEF Real
    <3>3. CASE f + 1 \in 0 .. MaxFormatters - 2
      <4>1. Ready(m)
        <5>1. m.formatterIndex \in 0 .. MaxFormatters - 2
          BY <1>2, <3>3
        <5>2. m.dataIndex >= 1
          BY <1>0, <1>2
        <5>. QED
          BY <1>2, <3>2, <5>1, <5>2 DEF Ready
      <4>2. ~Throws(Format(m))
        BY <1>0, <4>1, ReadyFormat
      <4>3. Shows(m)
        BY <1>0, <2>1, <3>1, <4>2 DEF Show, Shows
      <4>. QED
        BY <2>3, <3>2, <3>3, <4>1, <4>3 DEF m
    <3>4. CASE ~(f + 1 \in 0 .. MaxFormatters - 2)
      <4>1. Throws(m)
        BY <1>1, <1>2, <2>3, <3>4 DEF Throws, Nothing
      <4>2. Format(m) = m
        BY <4>1 DEF Format
      <4>. QED
        BY <2>1, <3>1, <4>1, <4>2 DEF Show, m
    <3>. QED
      BY <3>3, <3>4
  <2>4. CASE g \in Nothing
    <3>0. mem.dataIndex <= tx.count \/ mem.dataIndex - 1 <= Len(tx.ops)
      <4>1. CASE g = NextStep
        <5>1. Real(mem)
          BY <1>0, <1>1, <4>1, EmptyStackTyped, FormatterKinds DEF Empty
        <5>. QED
          BY <5>1 DEF Real
      <4>2. CASE g = Null
        BY <1>1, <2>2, <4>2
      <4>. QED
        BY <2>4, <4>1, <4>2 DEF Nothing
    <3>1. Cleared(Ahead(mem)) /\ Ahead(mem).dataIndex = mem.dataIndex + 1
      BY <1>0, <3>0, AheadCleared
    <3>2. /\ Fetched(Ahead(mem), n) /\ n \in Memory
          /\ \/ Ready(n) /\ Current(n) \notin Nothing
             \/ Empty(n) /\ Current(n) = Null /\ ~Parses(tx, mem.dataIndex)
      <4>1. Ahead(mem).dataIndex - 1 = mem.dataIndex
        BY <1>1, <3>1
      <4>. QED
        BY <1>0, <3>1, <4>1, FetchedReady DEF n
    <3>3. n.formatterIndex # -1
      BY <3>2, ReadyCurrent DEF Empty
    <3>4. CASE Ready(n) /\ Current(n) \notin Nothing
      <4>1. SetStateData(NextScreen(m)) = Format(n)
        <5>1. CASE g = Null
          BY <1>2, <1>3, <3>2, <3>3, <3>4, <5>1, NextScreenIs, SetStateDataIs DEF n
        <5>2. CASE g = NextStep
          BY <1>2, <1>3, <3>4, <5>2, NextScreenIs, SetStateDataIs, FormatterKinds DEF n, Nothing
        <5>. QED
          BY <2>4, <5>1, <5>2 DEF Nothing
      <4>2. ~Throws(Format(n))
        BY <1>0, <3>4, ReadyFormat
      <4>3. Shows(n)
        BY <1>0, <2>1, <4>1, <4>2 DEF Show, Shows
      <4>4. Advance
        BY <3>4, <4>3 DEF Advance, n
      <4>. QED
        BY <2>2, <2>4, <3>1, <3>2, <4>4 DEF n, Nothing
    <3>5. CASE Empty(n) /\ Current(n) = Null /\ ~Parses(tx, mem.dataIndex)
      <4>1. PICK p \in Page : SetStateData(NextScreen(m)) = [n EXCEPT !.page = p]
        <5>1. CASE g = Null
          <6>1. SetStateData(NextScreen(m)) = n
            BY <1>2, <1>3, <3>2, <3>3, <3>5, <5>1, NextScreenIs, SetStateDataIs DEF n
          <6>2. n.page \in Page /\ n = [n EXCEPT !.page = n.page]
            BY <3>2 DEF Memory
          <6>. QED
            BY <6>1, <6>2
        <5>2. CASE g = NextStep
          <6>1. SetStateData(NextScreen(m)) = [n EXCEPT !.page = Blank]
            BY <1>2, <1>3, <3>5, <5>2, NextScreenIs, SetStateDataIs, FormatterKinds DEF n, Nothing
          <6>2. Blank \in Page
            BY DEF Blank, Page
          <6>. QED
            BY <6>1, <6>2
        <5>. QED
          BY <2>4, <5>1, <5>2 DEF Nothing
      <4>2. PICK q : q = [n EXCEPT !.page = p]
        OBVIOUS
      <4>3. Current(q) = Null
        BY <3>2, <3>5, <4>2 DEF Current, Memory
      <4>4. ~Throws(q)
        BY <4>3 DEF Throws
      <4>5. Stays(q)
        BY <1>0, <2>1, <4>1, <4>2, <4>4 DEF Show, Stays
      <4>6. Advance
        BY <3>5, <4>2, <4>5 DEF Advance, n
      <4>. QED
        BY <2>2, <2>4, <3>1, <3>2, <4>6 DEF n, Nothing
    <3>. QED
      BY <3>2, <3>4, <3>5
  <2>. QED
    BY <2>3, <2>4
<1>. QED
  BY <1>5, <1>6

\* Left, behind the last page: it is shown again.
LEMMA LeftFromFinalize ==
  ASSUME Shape, step = "finalize", LowerBorder
  PROVE  \/ Ready(mem) /\ Shows(mem)
         \/ Empty(mem) /\ Stays(mem)
<1>0. /\ border = "OUT" /\ Good(mem) /\ tx \in Transactions /\ extended \in BOOLEAN
      /\ mem.dataIndex >= 1 /\ mem.formatterIndex \in 0 .. MaxFormatters - 2
      /\ Real(mem) \/ Empty(mem)
  BY DEF Shape, Turned
<1>1. border' = "INSIDE" /\ Show(SetStateData(PrevScreen(mem)))
  BY <1>0 DEF LowerBorder
<1>2. mem \in Memory /\ mem.formatterIndex # -1 /\ PrevScreen(mem) = mem
  BY <1>0, TransactionsOK DEF Good, PrevScreen
<1>3. CASE Real(mem)
  <2>1. Ready(mem)
    BY <1>0, <1>3 DEF Ready
  <2>2. Current(mem) \notin Nothing
    BY <2>1, ReadyCurrent
  <2>3. SetStateData(PrevScreen(mem)) = Format(mem)
    BY <1>2, <2>2, SetStateDataIs
  <2>4. ~Throws(Format(mem))
    BY <1>0, <2>1, ReadyFormat
  <2>. QED
    BY <1>1, <2>1, <2>3, <2>4 DEF Show, Shows
<1>4. CASE Empty(mem)
  <2>1. Current(mem) = Null
    BY <1>4, EmptyStackTyped, TransactionsOK DEF Current, Empty
  <2>2. SetStateData(PrevScreen(mem)) = mem
    BY <1>2, <2>1, SetStateDataIs
  <2>3. ~Throws(mem)
    BY <2>1 DEF Throws
  <2>. QED
    BY <1>1, <1>4, <2>2, <2>3 DEF Show, Stays
<1>. QED
  BY <1>0, <1>3, <1>4

\* Where the review starts again.
Restart(m) == [m EXCEPT !.stack = EmptyStack, !.formatterIndex = 0, !.dataIndex = 0]

\* Left, on a page: the formatter before, the previous chapter, or the beginning.
LEMMA LeftFromPage ==
  ASSUME Shape, step = "page", UpperBorder,
         NEW f, f = mem.formatterIndex
  PROVE  \/ /\ f > 0 /\ Real(mem) /\ f - 1 \in 0 .. MaxFormatters - 2
            /\ Ready(Move(mem, f - 1)) /\ Shows(Move(mem, f - 1))
         \/ /\ f = 0 /\ mem.dataIndex > 1
            /\ Cleared(Behind(mem)) /\ Fetched(Behind(mem), Fetch(Behind(mem)))
            /\ \/ Ready(Fetch(Behind(mem))) /\ Shows(Fetch(Behind(mem)))
               \/ /\ ~Parses(tx, mem.dataIndex - 2) /\ mem.dataIndex > 2
                  /\ Leave("review", Restart(Fetch(Behind(mem))))
         \/ f = 0 /\ mem.dataIndex = 1 /\ Leave("review", Restart(mem))
<1>. DEFINE up   == Move(mem, f - 1)
            back == SetStateData(PrevScreen(up))
            n    == Fetch(Behind(mem))
<1>0. /\ border = "INSIDE" /\ Good(mem) /\ tx \in Transactions /\ extended \in BOOLEAN
      /\ mem.dataIndex >= 1 /\ f \in 0 .. MaxFormatters - 2
      /\ Real(mem) \/ Empty(mem)
  BY DEF Shape, Turned
<1>1. /\ MaxFormatters \in Nat \ {0, 1} /\ f \in Nat /\ f - 1 \in -1 .. MaxFormatters - 1
      /\ mem \in Memory /\ mem.dataIndex \in Nat
  <2>1. MaxFormatters \in Nat \ {0, 1} /\ f - 1 \in -1 .. MaxFormatters - 1 /\ f \in Nat
    BY <1>0, TransactionsOK
  <2>3. mem \in Memory /\ mem.dataIndex \in Nat
    BY <1>0 DEF Good, Memory
  <2>. QED
    BY <2>1, <2>3
<1>2. /\ Good(up) /\ up.formatterIndex = f - 1 /\ up.dataIndex = mem.dataIndex
      /\ up.stack = mem.stack /\ up \in Memory
  <2>1. /\ Good(up) /\ up.formatterIndex = f - 1 /\ up.dataIndex = mem.dataIndex
        /\ up.stack = mem.stack
    BY <1>0, <1>1, MoveFields
  <2>. QED
    BY <2>1 DEF Good
<1>3. up = [mem EXCEPT !.formatterIndex = @ - 1] /\ mem.dataIndex > 0
  BY <1>0, <1>1 DEF Move
<1>4. \/ Current(back) # Null /\ Show(back) /\ UNCHANGED border
      \/ Current(back) = Null /\ Leave("review", [back EXCEPT !.dataIndex = 0])
  BY <1>0, <1>3 DEF UpperBorder
<1>. HIDE DEF up, back, n
<1>5. CASE f > 0
  <2>1. Real(mem) /\ f - 1 \in 0 .. MaxFormatters - 2 /\ up.formatterIndex # -1
    BY <1>0, <1>1, <1>2, <1>5 DEF Empty
  <2>2. Real(up)
    <3>1. \A i \in 0 .. f - 1 : i \in 0 .. f
      BY <1>1
    <3>. QED
      BY <1>2, <2>1, <3>1 DEF Real
  <2>3. Ready(up)
    BY <1>0, <1>2, <2>1, <2>2 DEF Ready
  <2>4. Current(up) \notin Nothing
    BY <2>3, ReadyCurrent
  <2>5. back = Format(up)
    BY <1>2, <2>1, <2>4, SetStateDataIs DEF PrevScreen, back
  <2>6. /\ ~Throws(back) /\ Current(back) # Null
    <3>1. ~Throws(back)
      BY <1>0, <2>3, <2>5, ReadyFormat
    <3>2. Current(back) = Current(up)
      BY <1>0, <2>3, <2>5, ReadyCurrent, FormatKeeps
    <3>. QED
      BY <2>4, <3>1, <3>2 DEF Nothing
  <2>7. Shows(up)
    BY <1>0, <1>4, <2>5, <2>6 DEF Show, Shows
  <2>. QED
    BY <1>5, <2>1, <2>3, <2>7 DEF up
<1>6. CASE f = 0 /\ mem.dataIndex > 1
  <2>1. up.formatterIndex = -1 /\ mem.dataIndex - 1 # 0
    BY <1>1, <1>2, <1>6
  <2>2. PrevScreen(up) = n
    <3>1. [[up EXCEPT !.stack = EmptyStack, !.formatterIndex = 0, !.dataIndex = @ - 1]
             EXCEPT !.offset = 0, !.opIndex = 0] = Behind(mem)
      BY <1>1, <1>3 DEF Behind, Memory
    <3>2. [up EXCEPT !.stack = EmptyStack, !.formatterIndex = 0, !.dataIndex = @ - 1].dataIndex # 0
      BY <1>2, <2>1 DEF Memory
    <3>. QED
      BY <2>1, <3>1, <3>2 DEF PrevScreen, n
  <2>3. Cleared(Behind(mem)) /\ Behind(mem).dataIndex - 1 = mem.dataIndex - 2
    <3>1. Cleared(Behind(mem)) /\ Behind(mem).dataIndex = mem.dataIndex - 1
      BY <1>0, <1>6, BehindCleared
    <3>. QED
      BY <1>1, <3>1
  <2>4. /\ Fetched(Behind(mem), n) /\ n \in Memory
        /\ \/ Ready(n) /\ Current(n) \notin Nothing
           \/ /\ Empty(n) /\ Current(n) = Null /\ ~Parses(tx, mem.dataIndex - 2)
              /\ mem.dataIndex > 2
    <3>1. Behind(mem).dataIndex > 1 => mem.dataIndex > 2
      BY <1>0, <1>1, <1>6, BehindCleared
    <3>. QED
      BY <1>0, <2>3, <3>1, FetchedReady DEF n
  <2>5. n.formatterIndex # -1
    BY <2>4, ReadyCurrent DEF Empty
  <2>6. CASE Ready(n) /\ Current(n) \notin Nothing
    <3>1. back = Format(n)
      BY <2>2, <2>4, <2>5, <2>6, SetStateDataIs DEF back
    <3>2. ~Throws(back)
      BY <1>0, <2>6, <3>1, ReadyFormat
    <3>3. Current(back) # Null
      <4>1. Current(back) = Current(n)
        BY <1>0, <2>6, <3>1, ReadyCurrent, FormatKeeps
      <4>. QED
        BY <2>6, <4>1 DEF Nothing
    <3>4. Shows(n)
      BY <1>0, <1>4, <3>1, <3>2, <3>3 DEF Show, Shows
    <3>. QED
      BY <1>6, <2>3, <2>4, <2>6, <3>4 DEF n
  <2>7. CASE /\ Empty(n) /\ Current(n) = Null /\ ~Parses(tx, mem.dataIndex - 2)
             /\ mem.dataIndex > 2
    <3>1. back = n
      BY <2>2, <2>4, <2>5, <2>7, SetStateDataIs DEF back
    <3>2. [n EXCEPT !.dataIndex = 0] = Restart(n)
      BY <2>4, <2>7 DEF Restart, Empty, Memory
    <3>3. Leave("review", Restart(n))
      BY <1>4, <2>7, <3>1, <3>2
    <3>. QED
      BY <1>6, <2>3, <2>4, <2>7, <3>3 DEF n
  <2>. QED
    BY <2>4, <2>6, <2>7
<1>7. CASE f = 0 /\ mem.dataIndex = 1
  <2>1. up.formatterIndex = -1
    BY <1>1, <1>2, <1>7
  <2>2. PICK b : b = [up EXCEPT !.stack = EmptyStack, !.formatterIndex = 0, !.dataIndex = @ - 1]
    OBVIOUS
  <2>3. /\ b = Restart(mem) /\ b.dataIndex = 0 /\ b \in Memory /\ b.formatterIndex = 0
        /\ b.stack = EmptyStack /\ [b EXCEPT !.dataIndex = 0] = b
    <3>1. b = Restart(mem)
      <4>1. b = [mem EXCEPT !.stack = EmptyStack, !.formatterIndex = 0, !.dataIndex = @ - 1]
        BY <1>1, <1>3, <2>2 DEF Memory
      <4>2. mem.dataIndex - 1 = 0
        BY <1>7
      <4>. QED
        BY <4>1, <4>2 DEF Restart
    <3>2. 0 \in -1 .. MaxFormatters - 1
      BY <1>1
    <3>3. b.dataIndex = 0 /\ b.formatterIndex = 0 /\ b.stack = EmptyStack /\ b \in Memory
      BY <1>1, <3>1, <3>2, EmptyStackTyped DEF Restart, Memory
    <3>4. [b EXCEPT !.dataIndex = 0] = b
      BY <3>3 DEF Memory
    <3>. QED
      BY <3>1, <3>3, <3>4
  <2>4. PrevScreen(up) = b
    BY <2>1, <2>2, <2>3 DEF PrevScreen
  <2>5. Current(b) = Null
    BY <1>1, <2>3, EmptyStackTyped DEF Current
  <2>6. back = b
    BY <2>3, <2>4, <2>5, SetStateDataIs DEF back
  <2>. QED
    BY <1>4, <1>7, <2>3, <2>5, <2>6
<1>. QED
  BY <1>0, <1>1, <1>5, <1>6, <1>7
-----------------------------------------------------------------------------
(* The first half of the invariant.                                         *)

\* While the transaction stays, what is said of the memory is said of the next one.
LEMMA SameTransaction ==
  ASSUME tx' = tx, extended' = extended
  PROVE  /\ Good(mem)' <=> Good(mem') 
         /\ Real(mem)' <=> Real(mem')
         /\ Successor(mem)' = Successor(mem')
         /\ Throws(mem)' <=> Throws(mem')
         /\ InChapter(mem)' <=> InChapter(mem')
<1>1. Captions' = Captions
  BY DEF Captions
<1>2. ASSUME NEW k PROVE Op(k)' = Op(k)
  BY DEF Op
<1>3. ASSUME NEW i PROVE Fits(i)' <=> Fits(i)
  BY DEF Fits
<1>4. ASSUME NEW g, NEW i PROVE IsHeader(g, i)' <=> IsHeader(g, i)
  BY DEF IsHeader
<1>5. ASSUME NEW g, NEW i, NEW k PROVE Entry(g, i, k)' <=> Entry(g, i, k)
  <2>1. IsDetail(g, i, k)' <=> IsDetail(g, i, k)
    BY <1>1, <1>2, <1>3 DEF IsDetail
  <2>2. IsSource(g, i, k)' <=> IsSource(g, i, k)
    BY <1>1, <1>2, <1>3 DEF IsSource
  <2>. QED
    BY <1>4, <2>1, <2>2 DEF Entry, IsConfirm
<1>6. Good(mem)' <=> Good(mem')
  BY <1>5 DEF Good, Placed, Bounded
<1>7. Real(mem)' <=> Real(mem')
  BY DEF Real
<1>8. Successor(mem)' = Successor(mem')
  BY <1>1, <1>2 DEF Successor, AfterDetail, AfterOperation
<1>9. Throws(mem)' <=> Throws(mem')
  BY DEF Throws
<1>10. InChapter(mem)' <=> InChapter(mem')
  BY <1>4 DEF InChapter
<1>. QED
  BY <1>6, <1>7, <1>8, <1>9, <1>10

\* The ways a step may end keep the shape.
LEMMA ShowsShape ==
  ASSUME Shape, NEW m, Ready(m), Shows(m)
  PROVE  Shape'
<1>1. /\ tx \in Transactions /\ extended \in BOOLEAN /\ seen \in SUBSET Page
      /\ tx' = tx /\ extended' = extended /\ step' = "page" /\ border' = "INSIDE"
      /\ mem' = Format(m) /\ seen' = seen \cup {Format(m).page}
  BY DEF Shape, Shows
<1>2. Ready(mem') /\ Format(m).page \in Page
  BY <1>1, ReadyFormat
<1>3. Good(mem)' /\ Real(mem)'
  BY <1>1, <1>2, SameTransaction DEF Ready
<1>4. mem'.dataIndex >= 1 /\ mem'.formatterIndex \in 0 .. MaxFormatters - 2
  BY <1>2 DEF Ready
<1>. QED
  BY <1>1, <1>2, <1>3, <1>4 DEF Shape, Turned

LEMMA StaysShape ==
  ASSUME Shape, NEW m, Good(m), Empty(m), m.dataIndex >= 1, Stays(m)
  PROVE  Shape'
<1>1. /\ tx \in Transactions /\ extended \in BOOLEAN /\ seen \in SUBSET Page
      /\ tx' = tx /\ extended' = extended /\ step' = "page" /\ border' = "INSIDE"
      /\ mem' = m /\ seen' = seen \cup {m.page}
  BY DEF Shape, Stays
<1>2. m.page \in Page
  BY DEF Good, Memory
<1>3. Good(mem)'
  BY <1>1, SameTransaction
<1>4. mem'.formatterIndex \in 0 .. MaxFormatters - 2
  BY <1>1, TransactionsOK DEF Empty
<1>. QED
  BY <1>1, <1>2, <1>3, <1>4 DEF Shape, Turned, Empty

LEMMA BlankGood ==
  ASSUME NEW n, Good(n), NEW p \in Page
  PROVE  /\ Good([n EXCEPT !.page = p])
         /\ Empty(n) => Empty([n EXCEPT !.page = p])
         /\ [n EXCEPT !.page = p].dataIndex = n.dataIndex
<1>1. PICK q : q = [n EXCEPT !.page = p]
  OBVIOUS
<1>2. /\ q \in Memory /\ q.dataIndex = n.dataIndex /\ q.formatterIndex = n.formatterIndex
      /\ q.stack = n.stack /\ q.opIndex = n.opIndex /\ q.offset = n.offset
      /\ q.details = n.details
  BY <1>1 DEF Good, Memory
<1>3. Good(q)
  BY <1>2 DEF Good, Placed, Bounded
<1>. QED
  BY <1>1, <1>2, <1>3 DEF Empty

LEMMA RestartGood ==
  ASSUME tx \in Transactions, NEW m, Good(m)
  PROVE  /\ Good(Restart(m)) /\ Empty(Restart(m)) /\ Restart(m).dataIndex = 0
         /\ Restart(m).opIndex = m.opIndex /\ Restart(m).details = m.details
<1>1. /\ Restart(m) \in Memory /\ Restart(m).dataIndex = 0 /\ Restart(m).formatterIndex = 0
      /\ Restart(m).stack = EmptyStack /\ Restart(m).opIndex = m.opIndex
      /\ Restart(m).offset = m.offset /\ Restart(m).details = m.details
  <2>1. 0 \in -1 .. MaxFormatters - 1 /\ m \in Memory
    BY TransactionsOK DEF Good
  <2>. QED
    BY <2>1, EmptyStackTyped DEF Restart, Memory
<1>2. Bounded(Restart(m))
  BY <1>1, TxTyped DEF Bounded
<1>3. ASSUME NEW i \in 0 .. MaxFormatters - 1
      PROVE  Entry(Restart(m).stack[i], i, Restart(m).details)
  <2>1. Restart(m).stack[i] = Null
    BY <1>1, EmptyStackTyped
  <2>. QED
    BY <2>1 DEF Entry, Nothing
<1>. QED
  BY <1>1, <1>2, <1>3 DEF Good, Placed, Empty

LEMMA LeaveShape ==
  ASSUME Shape, NEW m, Good(m), Empty(m), m.dataIndex = 0, Leave("review", m)
  PROVE  Shape'
<1>1. /\ tx \in Transactions /\ extended \in BOOLEAN /\ seen \in SUBSET Page
      /\ tx' = tx /\ extended' = extended /\ step' = "review" /\ border' = "OUT"
      /\ mem' = m /\ seen' = seen
  BY DEF Shape, Leave
<1>2. Good(mem)'
  BY <1>1, SameTransaction
<1>. QED
  BY <1>1, <1>2 DEF Shape, Turned, Empty

LEMMA TurnShape ==
  ASSUME Shape, step \in Turned, mem' = mem, UNCHANGED <<tx, seen, extended>>,
         step' \in Turned \ {"page"}, border' = "OUT"
  PROVE  Shape'
<1>1. Good(mem)' /\ (Real(mem)' <=> Real(mem))
  BY SameTransaction DEF Shape
<1>. QED
  BY <1>1 DEF Shape, Turned, Empty

LEMMA RightShape == Shape /\ Right => Shape'
<1>. SUFFICES ASSUME Shape, Right PROVE Shape'
  OBVIOUS
<1>0. Good(mem) /\ tx \in Transactions /\ extended \in BOOLEAN
  BY DEF Shape
<1>1. CASE step = "review" /\ UpperBorder
  BY <1>1, RightFromReview, ShowsShape
<1>2. CASE step = "page" /\ LowerBorder
  <2>1. PICK f, g : f = mem.formatterIndex /\ g = mem.stack[f + 1]
    OBVIOUS
  <2>2. CASE Ready(Move(mem, f + 1)) /\ Shows(Move(mem, f + 1))
    BY <2>2, ShowsShape
  <2>3. CASE /\ Throws(Move(mem, f + 1)) /\ step' = "thrown" /\ mem' = Move(mem, f + 1)
             /\ UNCHANGED <<tx, border, seen, extended>>
    <3>1. f + 1 \in -1 .. MaxFormatters - 1
      BY <1>2, <2>1, TransactionsOK DEF Shape, Turned
    <3>2. Good(mem')
      BY <1>0, <2>3, <3>1, MoveFields
    <3>3. Good(mem)' /\ Throws(mem)'
      BY <2>3, <3>2, SameTransaction
    <3>. QED
      BY <1>2, <2>3, <3>3 DEF Shape, Turned
  <2>4. CASE Fetched(Ahead(mem), Fetch(Ahead(mem))) /\ Cleared(Ahead(mem)) /\ Advance
    <3>1. Good(Fetch(Ahead(mem))) /\ Fetch(Ahead(mem)).dataIndex >= 1
      BY <2>4 DEF Fetched, Cleared, Memory
    <3>2. CASE Ready(Fetch(Ahead(mem))) /\ Shows(Fetch(Ahead(mem)))
      BY <3>2, ShowsShape
    <3>3. CASE Empty(Fetch(Ahead(mem))) /\
               \E p \in Page : Stays([Fetch(Ahead(mem)) EXCEPT !.page = p])
      <4>1. PICK p \in Page : Stays([Fetch(Ahead(mem)) EXCEPT !.page = p])
        BY <3>3
      <4>2. PICK q : q = [Fetch(Ahead(mem)) EXCEPT !.page = p]
        OBVIOUS
      <4>3. Good(q) /\ Empty(q) /\ q.dataIndex >= 1
        BY <3>1, <3>3, <4>2, BlankGood
      <4>. QED
        BY <4>1, <4>2, <4>3, StaysShape
    <3>. QED
      BY <2>4, <3>2, <3>3 DEF Advance
  <2>5. CASE Leave("finalize", mem)
    BY <1>2, <2>5, TurnShape DEF Leave, Turned
  <2>. QED
    BY <1>2, <2>1, <2>2, <2>3, <2>4, <2>5, RightFromPage
<1>3. CASE Turn("finalize", "cancel")
  <2>1. border = "OUT"
    BY <1>3 DEF Turn, Shape
  <2>. QED
    BY <1>3, <2>1, TurnShape DEF Turn, Turned
<1>. QED
  BY <1>1, <1>2, <1>3 DEF Right

LEMMA LeftShape == Shape /\ Left => Shape'
<1>. SUFFICES ASSUME Shape, Left PROVE Shape'
  OBVIOUS
<1>0. Good(mem) /\ tx \in Transactions /\ extended \in BOOLEAN
  BY DEF Shape
<1>1. CASE step = "page" /\ UpperBorder
  <2>1. PICK f : f = mem.formatterIndex
    OBVIOUS
  <2>2. CASE Ready(Move(mem, f - 1)) /\ Shows(Move(mem, f - 1))
    BY <2>2, ShowsShape
  <2>3. CASE Ready(Fetch(Behind(mem))) /\ Shows(Fetch(Behind(mem)))
    BY <2>3, ShowsShape
  <2>4. CASE Fetched(Behind(mem), Fetch(Behind(mem))) /\ Leave("review", Restart(Fetch(Behind(mem))))
    <3>1. Good(Fetch(Behind(mem)))
      BY <2>4 DEF Fetched
    <3>. QED
      BY <1>0, <2>4, <3>1, RestartGood, LeaveShape
  <2>5. CASE Leave("review", Restart(mem))
    BY <1>0, <2>5, RestartGood, LeaveShape
  <2>. QED
    BY <1>1, <2>1, <2>2, <2>3, <2>4, <2>5, LeftFromPage
<1>2. CASE step = "finalize" /\ LowerBorder
  <2>1. mem.dataIndex >= 1
    BY <1>2 DEF Shape, Turned
  <2>. QED
    BY <1>0, <1>2, <2>1, LeftFromFinalize, ShowsShape, StaysShape
<1>3. CASE Turn("cancel", "finalize")
  <2>1. border = "OUT"
    BY <1>3 DEF Turn, Shape
  <2>. QED
    BY <1>3, <2>1, TurnShape DEF Turn, Turned
<1>. QED
  BY <1>1, <1>2, <1>3 DEF Left

\* Something was sent.
LEMMA Sent ==
  ASSUME NEW t \in Transactions
  PROVE  /\ t.ops \in Seq(Operation) /\ Len(t.ops) \in Nat \ {0} /\ t.count \in Nat
         /\ Parses(t, 0) /\ Parses(t, 1)
<1>1. t.ops \in Seq(Operation) /\ t.count \in Nat /\ t.ops # <<>> /\ t.ops[1].parses
  BY TransactionsOK DEF Transaction
<1>2. Len(t.ops) \in Nat /\ Len(t.ops) # 0
  BY <1>1
<1>3. Parses(t, 0) /\ Parses(t, 1)
  BY <1>1, <1>2 DEF Parses
<1>. QED
  BY <1>1, <1>2, <1>3

\* The memory a review starts from.
LEMMA InitFields ==
  ASSUME NEW m \in Memory, NEW o \in Nat, NEW k \in Nat, NEW p \in Nat,
         NEW n, n = ApproveTxInit(At(m, o, p, k))
  PROVE  /\ n \in Memory /\ n.dataIndex = 0 /\ n.offset = 0 /\ n.formatterIndex = 0
         /\ n.stack = EmptyStack /\ n.opIndex = o /\ n.details = k
<1>1. PICK q : q = At(m, o, p, k)
  OBVIOUS
<1>2. q \in Memory /\ q.opIndex = o /\ q.details = k
  BY <1>1 DEF At, Memory
<1>3. 0 \in -1 .. MaxFormatters - 1
  BY TransactionsOK
<1>4. /\ ApproveTxInit(q) \in Memory /\ ApproveTxInit(q).dataIndex = 0
      /\ ApproveTxInit(q).offset = 0 /\ ApproveTxInit(q).formatterIndex = 0
      /\ ApproveTxInit(q).stack = EmptyStack
      /\ ApproveTxInit(q).opIndex = o /\ ApproveTxInit(q).details = k
  BY <1>2, <1>3, EmptyStackTyped DEF ApproveTxInit, Memory
<1>. QED
  BY <1>1, <1>4

\* A review starts, whatever was there before.
LEMMA StartShape ==
  ASSUME tx' \in Transactions, extended' \in BOOLEAN, NEW o \in Nat, NEW k \in Nat, k # 0,
         Parses(tx', o), mem' \in Memory, mem'.dataIndex = 0, mem'.offset = 0,
         mem'.formatterIndex = 0, mem'.stack = EmptyStack, mem'.opIndex = o, mem'.details = k,
         step' = "review", border' = "OUT", seen' = {}
  PROVE  Shape'
<1>1. \A i \in 0 .. MaxFormatters - 1 : Entry(mem.stack[i], i, mem.details)'
  <2>1. ASSUME NEW i \in 0 .. MaxFormatters - 1 PROVE Entry(mem.stack[i], i, mem.details)'
    <3>1. mem'.stack[i] = Null
      BY EmptyStackTyped
    <3>. QED
      BY <3>1 DEF Entry, Nothing
  <2>. QED
    BY <2>1
<1>2. Placed(mem)'
  BY DEF Placed
<1>3. Bounded(mem)'
  <2>1. tx'.count \in Nat
    BY Sent
  <2>. QED
    BY <2>1 DEF Bounded
<1>4. Good(mem)'
  BY <1>1, <1>2, <1>3 DEF Good
<1>. QED
  BY <1>4 DEF Shape, Turned, Empty

LEMMA NewReviewShape == Shape /\ NewReview => Shape'
<1>. SUFFICES ASSUME Shape, NewReview PROVE Shape'
  OBVIOUS
<1>0. mem \in Memory
  BY DEF Shape, Good
<1>1. /\ tx' \in Transactions /\ extended' = FALSE /\ step' = "review" /\ border' = "OUT"
      /\ seen' = {} /\ mem' = ApproveTxInit(At(mem, 1, 1, 1))
  BY <1>0 DEF NewReview, At, Memory
<1>2. Parses(tx', 1)
  BY <1>1, Sent
<1>3. PICK u \in Nat : u = 1
  OBVIOUS
<1>4. /\ mem' \in Memory /\ mem'.dataIndex = 0 /\ mem'.offset = 0 /\ mem'.formatterIndex = 0
      /\ mem'.stack = EmptyStack /\ mem'.opIndex = u /\ mem'.details = u
  BY <1>0, <1>1, <1>3, InitFields
<1>5. Parses(tx', u) /\ u # 0
  BY <1>2, <1>3
<1>6. extended' \in BOOLEAN
  BY <1>1
<1>. QED
  BY <1>1, <1>4, <1>5, <1>6, StartShape

\* What the host sends later leaves what has been read as it was.
LEMMA LongerTransaction ==
  ASSUME tx \in Transactions, tx' \in Transactions, tx'.header = tx.header,
         tx'.count = tx.count, Len(tx'.ops) >= Len(tx.ops),
         SubSeq(tx'.ops, 1, Len(tx.ops)) = tx.ops, extended' = TRUE
  PROVE  /\ HeaderPages(tx') = HeaderPages(tx) /\ Captions' = Captions
         /\ \A j \in 1 .. Len(tx.ops) : tx'.ops[j] = tx.ops[j] /\ Chapter(tx', j) = Chapter(tx, j)
         /\ \A n \in Nat : Parses(tx, n) => Parses(tx', n)
         /\ \A g, i, k, kk : i \in Nat /\ Entry(g, i, k) => Entry(g, i, kk)'
<1>0. /\ Len(tx.ops) \in Nat \ {0} /\ Len(tx'.ops) \in Nat \ {0}
      /\ tx.ops \in Seq(Operation) /\ tx'.ops \in Seq(Operation)
  BY Sent
<1>1. HeaderPages(tx') = HeaderPages(tx)
  BY DEF HeaderPages
<1>2. Captions' = Captions
  BY DEF Captions
<1>3. ASSUME NEW j \in 1 .. Len(tx.ops)
      PROVE  tx'.ops[j] = tx.ops[j] /\ Chapter(tx', j) = Chapter(tx, j)
  <2>1. SubSeq(tx'.ops, 1, Len(tx.ops))[j] = tx'.ops[j]
    BY <1>0
  <2>2. tx'.ops[j] = tx.ops[j]
    BY <2>1
  <2>3. j # 0
    BY <1>0
  <2>. QED
    BY <2>2, <2>3 DEF Chapter
<1>4. ASSUME NEW n \in Nat, Parses(tx, n) PROVE Parses(tx', n)
  BY <1>0, <1>3, <1>4 DEF Parses
<1>5. ASSUME NEW i, Fits(i) PROVE Fits(i)'
  <2>1. PICK j \in 1 .. Len(tx.ops) : i < Chapter(tx, j)
    BY <1>5 DEF Fits
  <2>2. j \in 1 .. Len(tx'.ops) /\ i < Chapter(tx', j)
    BY <1>0, <1>3, <2>1
  <2>. QED
    BY <2>2 DEF Fits
<1>6. ASSUME NEW i \in Nat, Fits(i) PROVE Fits(i - 1)
  <2>1. PICK j \in 1 .. Len(tx.ops) : i < Chapter(tx, j)
    BY <1>6 DEF Fits
  <2>2. i - 1 < Chapter(tx, j)
    BY <2>1, ChapterOf
  <2>. QED
    BY <2>2 DEF Fits
<1>7. ASSUME NEW g, NEW i, NEW k, NEW kk, i \in Nat, Entry(g, i, k) PROVE Entry(g, i, kk)'
  <2>1. CASE g \in Nothing \/ IsConfirm(g, i)
    BY <2>1 DEF Entry, IsConfirm
  <2>2. CASE IsHeader(g, i)
    <3>1. IsHeader(g, i)'
      BY <1>1, <2>2 DEF IsHeader
    <3>. QED
      BY <3>1 DEF Entry
  <2>3. CASE IsDetail(g, i, k)
    <3>1. IsDetail(g, i, kk)'
      BY <1>2, <1>5, <2>3 DEF IsDetail
    <3>. QED
      BY <3>1 DEF Entry
  <2>4. CASE IsSource(g, i, k)
    <3>1. Fits(i - 1)
      BY <1>6, <1>7, <2>4 DEF IsSource
    <3>2. Fits(i - 1)'
      BY <1>5, <3>1
    <3>3. IsSource(g, i, kk)'
      BY <2>4, <3>2 DEF IsSource
    <3>. QED
      BY <3>3 DEF Entry
  <2>. QED
    BY <1>7, <2>1, <2>2, <2>3, <2>4 DEF Entry
<1>. QED
  BY <1>1, <1>2, <1>3, <1>4, <1>7

\* The rest of a transaction arrives; it is put up for review if its next operation parses.
LEMMA ExtendSteps ==
  ASSUME Shape, Extend
  PROVE  /\ tx' \in Transactions /\ extended' = TRUE
         /\ HeaderPages(tx') = HeaderPages(tx) /\ tx'.count = tx.count
         /\ Len(tx'.ops) >= Len(tx.ops)
         /\ \A n \in Nat : Parses(tx, n) => Parses(tx', n)
         /\ \A g, i, k, kk : i \in Nat /\ Entry(g, i, k) => Entry(g, i, kk)'
         /\ \/ /\ step' = "review" /\ border' = "OUT" /\ seen' = {}
               /\ \E o \in Nat, k \in Nat :
                    k # 0 /\ Parses(tx', o) /\ \E p \in Nat : mem' = ApproveTxInit(At(mem, o, p, k))
            \/ /\ UNCHANGED <<step, border, seen>>
               /\ \E o \in Nat, k \in Nat :
                    k # 0 /\ mem' = At(mem, o, mem.offset, k) /\ o \in {0, mem.opIndex}
                      /\ (mem.offset # 0 => o = mem.opIndex)
<1>. DEFINE k == mem.offset + 1
            b == IF mem.offset = 0 THEN 0 ELSE mem.opIndex
            n == [mem EXCEPT !.details = k, !.opIndex = IF mem.offset = 0 THEN 0 ELSE @]
<1>0. /\ tx \in Transactions /\ mem \in Memory /\ mem.offset \in Nat /\ mem.opIndex \in Nat
      /\ mem.offset \in {0, mem.opIndex} /\ Parses(tx, mem.opIndex)
  BY DEF Shape, Good, Memory, Placed
<1>1. /\ tx' \in Transactions /\ tx'.header = tx.header /\ tx'.count = tx.count
      /\ Len(tx'.ops) >= Len(tx.ops) /\ SubSeq(tx'.ops, 1, Len(tx.ops)) = tx.ops
      /\ extended' = TRUE
  BY DEF Extend
<1>2. /\ HeaderPages(tx') = HeaderPages(tx)
      /\ \A j \in Nat : Parses(tx, j) => Parses(tx', j)
      /\ \A g, i, l, ll : i \in Nat /\ Entry(g, i, l) => Entry(g, i, ll)'
  BY <1>0, <1>1, LongerTransaction
<1>3. \/ /\ k <= Len(tx'.ops) /\ tx'.ops[k].parses
         /\ mem' = ApproveTxInit([n EXCEPT !.opIndex = @ + 1])
         /\ step' = "review" /\ border' = "OUT" /\ seen' = {}
      \/ mem' = n /\ UNCHANGED <<step, border, seen>>
  BY DEF Extend
<1>4. PICK kk \in Nat, o \in Nat, oo \in Nat, p \in Nat :
        kk # 0 /\ kk = k /\ o = b /\ oo = b + 1 /\ p = mem.offset
  BY <1>0
<1>5. n = At(mem, o, p, kk)
  BY <1>0, <1>4 DEF At, Memory
<1>8. kk # 0
  BY <1>0, <1>4
<1>6. CASE mem' = n /\ UNCHANGED <<step, border, seen>>
  <2>1. o \in {0, mem.opIndex} /\ (mem.offset # 0 => o = mem.opIndex)
    BY <1>4
  <2>. QED
    BY <1>1, <1>2, <1>4, <1>5, <1>6, <1>8, <2>1
<1>7. CASE /\ k <= Len(tx'.ops) /\ tx'.ops[k].parses
           /\ mem' = ApproveTxInit([n EXCEPT !.opIndex = @ + 1])
           /\ step' = "review" /\ border' = "OUT" /\ seen' = {}
  <2>1. [n EXCEPT !.opIndex = @ + 1] = At(mem, oo, p, kk)
    BY <1>0, <1>4, <1>5 DEF At, Memory
  <2>2. k = oo
    BY <1>0, <1>4
  <2>3. Parses(tx', mem.offset)
    <3>1. Parses(tx, mem.offset)
      BY <1>0, Sent
    <3>. QED
      BY <1>0, <1>2, <3>1
  <2>4. ASSUME NEW i \in 1 .. oo PROVE i <= Len(tx'.ops) /\ tx'.ops[i].parses
    <3>1. i \in 1 .. mem.offset \/ i = k
      BY <1>0, <1>4, <2>2
    <3>. QED
      BY <1>7, <2>3, <3>1 DEF Parses
  <2>5. Parses(tx', oo)
    BY <2>4 DEF Parses
  <2>6. mem' = ApproveTxInit(At(mem, oo, p, kk))
    BY <1>7, <2>1
  <2>. HIDE DEF k, b, n
  <2>. QED
    BY <1>1, <1>2, <1>7, <1>8, <2>5, <2>6
<1>. QED
  BY <1>3, <1>6, <1>7

LEMMA ExtendShape == Shape /\ Extend => Shape'
<1>. SUFFICES ASSUME Shape, Extend PROVE Shape'
  OBVIOUS
<1>0. /\ tx \in Transactions /\ mem \in Memory /\ mem.offset \in Nat /\ mem.opIndex \in Nat
      /\ mem.offset \in {0, mem.opIndex} /\ Parses(tx, mem.opIndex) /\ Good(mem)
  BY DEF Shape, Good, Memory, Placed
<1>1. /\ tx' \in Transactions /\ extended' = TRUE
      /\ HeaderPages(tx') = HeaderPages(tx) /\ tx'.count = tx.count
      /\ Len(tx'.ops) >= Len(tx.ops)
      /\ \A n \in Nat : Parses(tx, n) => Parses(tx', n)
      /\ \A g, i, k, kk : i \in Nat /\ Entry(g, i, k) => Entry(g, i, kk)'
  BY ExtendSteps
<1>2. CASE /\ step' = "review" /\ border' = "OUT" /\ seen' = {}
           /\ \E o \in Nat, k \in Nat :
                k # 0 /\ Parses(tx', o) /\ \E p \in Nat : mem' = ApproveTxInit(At(mem, o, p, k))
  <2>1. PICK o \in Nat, k \in Nat, p \in Nat :
          k # 0 /\ Parses(tx', o) /\ mem' = ApproveTxInit(At(mem, o, p, k))
    BY <1>2
  <2>2. /\ mem' \in Memory /\ mem'.dataIndex = 0 /\ mem'.offset = 0 /\ mem'.formatterIndex = 0
        /\ mem'.stack = EmptyStack /\ mem'.opIndex = o /\ mem'.details = k
    <3>1. mem \in Memory
      BY <1>0
    <3>2. 0 \in -1 .. MaxFormatters - 1
      BY TransactionsOK
    <3>3. mem' = [mem EXCEPT !.opIndex = o, !.offset = 0, !.details = k, !.dataIndex = 0,
                             !.formatterIndex = 0, !.stack = EmptyStack]
      BY <2>1, <3>1 DEF ApproveTxInit, At, Memory
    <3>. QED
      BY <3>1, <3>2, <3>3, EmptyStackTyped DEF Memory
  <2>3. extended' \in BOOLEAN
    BY <1>1
  <2>. QED
    BY <1>1, <1>2, <2>1, <2>2, <2>3, StartShape
<1>3. CASE /\ UNCHANGED <<step, border, seen>>
           /\ \E o \in Nat, k \in Nat :
                k # 0 /\ mem' = At(mem, o, mem.offset, k) /\ o \in {0, mem.opIndex}
                  /\ (mem.offset # 0 => o = mem.opIndex)
  <2>1. PICK o \in Nat, k \in Nat :
          k # 0 /\ mem' = At(mem, o, mem.offset, k) /\ o \in {0, mem.opIndex}
            /\ (mem.offset # 0 => o = mem.opIndex)
    BY <1>3
  <2>2. /\ mem' \in Memory /\ mem'.opIndex = o /\ mem'.offset = mem.offset /\ mem'.details = k
        /\ mem'.dataIndex = mem.dataIndex /\ mem'.page = mem.page
        /\ mem'.formatterIndex = mem.formatterIndex /\ mem'.stack = mem.stack
    BY <1>0, <2>1 DEF At, Memory
  <2>3. Placed(mem)'
    <3>1. mem'.offset \in {0, mem'.opIndex} /\ mem'.details # 0
      BY <1>0, <2>1, <2>2
    <3>2. Parses(tx', mem'.opIndex)
      BY <1>0, <1>1, <2>1, <2>2, Sent
    <3>. QED
      BY <3>1, <3>2 DEF Placed
  <2>4. Len(tx.ops) \in Nat /\ Len(tx'.ops) \in Nat /\ mem.dataIndex \in Nat
    BY <1>0, <1>1, Sent DEF Memory
  <2>5. Bounded(mem)'
    BY <1>0, <1>1, <2>2, <2>4 DEF Bounded, Good
  <2>6. Good(mem)'
    <3>1. ASSUME NEW i \in 0 .. MaxFormatters - 1 PROVE Entry(mem.stack[i], i, mem.details)'
      <4>1. Entry(mem.stack[i], i, mem.details) /\ i \in Nat
        BY <1>0 DEF Good
      <4>2. PICK g, l, ll : g = mem.stack[i] /\ l = mem.details /\ ll = mem'.details
        OBVIOUS
      <4>3. Entry(g, i, ll)'
        BY <1>1, <4>1, <4>2
      <4>. QED
        BY <2>2, <4>2, <4>3
    <3>. QED
      BY <2>2, <2>3, <2>5, <3>1 DEF Good
  <2>7. /\ Real(mem) => Real(mem)'
        /\ Empty(mem) => Empty(mem)'
        /\ Throws(mem) => Throws(mem)'
    <3>1. Real(mem) => Real(mem)'
      BY <1>1, <2>2, <2>4 DEF Real
    <3>2. Empty(mem) => Empty(mem)'
      BY <2>2 DEF Empty
    <3>3. Throws(mem) => Throws(mem)'
      BY <2>2 DEF Throws, Current
    <3>. QED
      BY <3>1, <3>2, <3>3
  <2>. QED
    BY <1>1, <1>3, <2>2, <2>6, <2>7 DEF Shape, Turned
<1>. QED
  BY <1>2, <1>3, ExtendSteps

\* The shape is there from the start, and every step keeps it, whatever the host does.
LEMMA ShapeInit == Init => Shape
<1>. SUFFICES ASSUME Init PROVE Shape
  OBVIOUS
<1>1. /\ mem = [dataIndex |-> 0, formatterIndex |-> 0, stack |-> EmptyStack,
                opIndex |-> 1, offset |-> 0, details |-> 1, page |-> Blank]
      /\ tx \in Transactions /\ step = "review" /\ border = "OUT" /\ seen = {}
      /\ extended = FALSE
  BY DEF Init
<1>2. Blank \in Page /\ 0 \in -1 .. MaxFormatters - 1
  BY TransactionsOK DEF Blank, Page
<1>3. mem \in Memory
  BY <1>1, <1>2, EmptyStackTyped DEF Memory
<1>4. \A i \in 0 .. MaxFormatters - 1 : Entry(mem.stack[i], i, mem.details)
  <2>1. ASSUME NEW i \in 0 .. MaxFormatters - 1 PROVE Entry(mem.stack[i], i, mem.details)
    <3>1. mem.stack[i] = Null
      BY <1>1, EmptyStackTyped
    <3>. QED
      BY <3>1 DEF Entry, Nothing
  <2>. QED
    BY <2>1
<1>5. Placed(mem)
  BY <1>1, Sent DEF Placed
<1>6. Bounded(mem)
  BY <1>1, Sent DEF Bounded
<1>. QED
  BY <1>1, <1>3, <1>4, <1>5, <1>6 DEF Shape, Good, Empty, Turned

LEMMA ShapeNext == Shape /\ [Next]_vars => Shape'
<1>. SUFFICES ASSUME Shape, [Next]_vars PROVE Shape'
  OBVIOUS
<1>1. CASE Right
  BY <1>1, RightShape
<1>2. CASE Left
  BY <1>2, LeftShape
<1>3. CASE Approve \/ Reject
  <2>1. step = "finalize" \/ step = "cancel"
    BY <1>3 DEF Approve, Reject, Turn
  <2>2. border' = "OUT" /\ step \in Turned
    BY <1>3, <2>1 DEF Approve, Reject, Turn, Shape, Turned
  <2>. QED
    BY <1>3, <2>2, TurnShape DEF Approve, Reject, Turn, Turned
<1>4. CASE NewReview
  BY <1>4, NewReviewShape
<1>5. CASE Extend
  BY <1>5, ExtendShape
<1>6. CASE UNCHANGED vars
  <2>1. /\ tx' = tx /\ step' = step /\ border' = border /\ mem' = mem /\ seen' = seen
        /\ extended' = extended
    BY <1>6 DEF vars
  <2>2. (Good(mem)' <=> Good(mem)) /\ (Real(mem)' <=> Real(mem)) /\ (Throws(mem)' <=> Throws(mem))
    BY <2>1, SameTransaction
  <2>. QED
    BY <2>1, <2>2 DEF Shape, Empty
<1>. QED
  BY <1>1, <1>2, <1>3, <1>4, <1>5, <1>6 DEF Next
-----------------------------------------------------------------------------
(* The second half: where the user is, while the host sends nothing more.   *)

\* What a formatter pushes tells whether its page is the last of the chapter.
LEMMA LastPage ==
  ASSUME tx \in Transactions, extended = FALSE, NEW m, Ready(m), InChapter(m)
  PROVE  /\ Successor(m) \in Nothing => m.formatterIndex + 1 = Chapter(tx, m.dataIndex - 1)
         /\ Successor(m) \notin Nothing =>
              /\ m.formatterIndex + 1 < Chapter(tx, m.dataIndex - 1)
              /\ m.dataIndex = 1 => IsHeader(Successor(m), m.formatterIndex + 1)
              /\ m.dataIndex # 1 => ~IsHeader(Successor(m), m.formatterIndex + 1)
         /\ m.dataIndex = 1 => Successor(m) # Null
         /\ m.dataIndex # 1 /\ Successor(m) = Null => m.dataIndex - 1 = tx.count
         /\ m.dataIndex # 1 /\ Successor(m) = NextStep => m.dataIndex - 1 # tx.count
<1>. DEFINE i == m.formatterIndex
            k == m.details
            H == HeaderPages(tx)
            g == Current(m)
<1>0. /\ m \in Memory /\ k # 0 /\ i \in 0 .. MaxFormatters - 2 /\ i \in Nat /\ i \in 0 .. i
      /\ g = m.stack[i] /\ g \notin Nothing /\ Entry(g, i, k)
      /\ m.dataIndex \in Nat \ {0} /\ m.opIndex \in Nat /\ k \in Nat \ {0}
  <2>1. /\ m \in Memory /\ k # 0 /\ i \in 0 .. MaxFormatters - 2
        /\ g = m.stack[i] /\ g \notin Nothing /\ Entry(g, i, k)
    BY ReadyCurrent
  <2>2. i \in Nat /\ i \in 0 .. i
    BY <2>1, TransactionsOK
  <2>3. m.dataIndex \in Nat \ {0} /\ m.opIndex \in Nat /\ k \in Nat \ {0}
    BY <2>1 DEF Ready, Memory
  <2>. QED
    BY <2>1, <2>2, <2>3
<1>1. H \in Nat \ {0} /\ Captions \in {0, 1} /\ tx.count \in Nat
  BY HeaderHasPages, TxTyped
<1>2. CASE m.dataIndex = 1
  <2>1. IsHeader(g, i)
    BY <1>0, <1>2 DEF InChapter
  <2>2. g.kind = "header" /\ g.part = i + 1 /\ i < H
    BY <2>1 DEF IsHeader, Header
  <2>3. Chapter(tx, m.dataIndex - 1) = H
    BY <1>2 DEF Chapter
  <2>4. CASE i + 1 < H
    <3>1. Successor(m) = Header((i + 1) + 1)
      BY <1>0, <2>1, <2>2, <2>4 DEF Successor, Header, IsHeader
    <3>2. Header((i + 1) + 1) \notin Nothing
      BY <1>0, FormatterKinds
    <3>3. IsHeader(Successor(m), i + 1)
      BY <2>4, <3>1 DEF IsHeader
    <3>. QED
      BY <1>2, <2>3, <2>4, <3>1, <3>2, <3>3 DEF Nothing
  <2>5. CASE ~(i + 1 < H)
    <3>1. Successor(m) = NextStep /\ i + 1 = H
      BY <1>0, <1>1, <2>2, <2>5 DEF Successor
    <3>. QED
      BY <1>2, <2>3, <3>1, FormatterKinds DEF Nothing
  <2>. QED
    BY <2>4, <2>5
<1>3. CASE m.dataIndex # 1
  <2>0. k = m.dataIndex - 1 /\ m.opIndex = m.dataIndex - 1 /\ ~IsHeader(g, i)
    BY <1>0, <1>3 DEF InChapter
  <2>1. k \in 1 .. Len(tx.ops)
    BY <1>0, <2>0 DEF Ready, Real
  <2>2. /\ Chapter(tx, k) = Captions + Op(k).pages + IF Op(k).source THEN 1 ELSE 0
        /\ Op(k).pages \in Nat \ {0}
    BY <1>0, <2>1, ChapterOf, OpTyped
  <2>. HIDE DEF k
  <2>3. /\ AfterOperation(m) \in Nothing
        /\ AfterOperation(m) = Null => k = tx.count
        /\ AfterOperation(m) = NextStep => k # tx.count
    BY <2>0, FormatterKinds DEF AfterOperation, Nothing
  <2>4. ASSUME NEW n \in Nat \ {0}, n + Captions = i + 1, n <= Op(k).pages,
               Successor(m) = AfterDetail(m, n)
        PROVE  /\ Successor(m) \in Nothing => i + 1 = Chapter(tx, k) /\ Successor(m) = AfterOperation(m)
               /\ Successor(m) \notin Nothing =>
                    i + 1 < Chapter(tx, k) /\ ~IsHeader(Successor(m), i + 1)
    <3>1. CASE n < Op(k).pages
      <4>1. Successor(m) = Detail(n + 1)
        BY <2>4, <3>1 DEF AfterDetail, k
      <4>2. Successor(m) \notin Nothing
        BY <4>1, FormatterKinds
      <4>3. ~IsHeader(Successor(m), i + 1)
        BY <4>1 DEF IsHeader, Header, Detail
      <4>4. i + 1 < Chapter(tx, k)
        BY <1>0, <1>1, <2>2, <2>4, <3>1
      <4>. QED
        BY <4>2, <4>3, <4>4
    <3>2. CASE n = Op(k).pages /\ Op(k).source
      <4>1. Successor(m) = Source
        BY <2>2, <2>4, <3>2 DEF AfterDetail, Source, k
      <4>2. Successor(m) \notin Nothing
        BY <4>1, FormatterKinds
      <4>3. ~IsHeader(Successor(m), i + 1)
        BY <4>1 DEF IsHeader, Header, Source
      <4>4. i + 1 < Chapter(tx, k)
        BY <1>0, <1>1, <2>2, <2>4, <3>2
      <4>. QED
        BY <4>2, <4>3, <4>4
    <3>3. CASE n = Op(k).pages /\ ~Op(k).source
      <4>1. Successor(m) = AfterOperation(m)
        BY <2>2, <2>4, <3>3 DEF AfterDetail, k
      <4>2. i + 1 = Chapter(tx, k)
        BY <1>0, <1>1, <2>2, <2>4, <3>3
      <4>. QED
        BY <2>3, <4>1, <4>2
    <3>4. n < Op(k).pages \/ n = Op(k).pages
      BY <2>2, <2>4
    <3>. QED
      BY <3>1, <3>2, <3>3, <3>4
  <2>5. /\ Successor(m) \in Nothing => i + 1 = Chapter(tx, k) /\ Successor(m) = AfterOperation(m)
        /\ Successor(m) \notin Nothing =>
             i + 1 < Chapter(tx, k) /\ ~IsHeader(Successor(m), i + 1)
    <3>1. CASE IsConfirm(g, i)
      <4>1. g.kind = "operation" /\ i = 0
        BY <3>1 DEF IsConfirm, Confirm
      <4>2. CASE Captions = 1
        <5>1. Successor(m) = Detail(1)
          BY <4>1, <4>2 DEF Successor
        <5>2. Successor(m) \notin Nothing
          BY <5>1, FormatterKinds
        <5>4. ~IsHeader(Successor(m), i + 1)
          BY <5>1 DEF IsHeader, Header, Detail
        <5>3. i + 1 < Chapter(tx, k)
          BY <2>2, <4>1, <4>2
        <5>. QED
          BY <5>2, <5>3, <5>4
      <4>3. CASE Captions = 0
        <5>1. Successor(m) = AfterDetail(m, 1)
          BY <4>1, <4>3 DEF Successor
        <5>. QED
          BY <2>2, <2>4, <4>1, <4>3, <5>1
      <4>. QED
        BY <1>1, <4>2, <4>3
    <3>2. CASE IsDetail(g, i, k)
      <4>1. PICK n \in 1 .. i + 1 : /\ g = Detail(n) /\ n + Captions = i + 1
                                    /\ ~extended => n <= Op(k).pages
        BY <3>2 DEF IsDetail
      <4>2. g.kind = "detail" /\ g.part = n
        BY <4>1 DEF Detail
      <4>3. Successor(m) = AfterDetail(m, n)
        BY <4>2 DEF Successor
      <4>4. n \in Nat \ {0} /\ n <= Op(k).pages
        BY <1>0, <4>1
      <4>. QED
        BY <2>4, <4>1, <4>3, <4>4
    <3>3. CASE IsSource(g, i, k)
      <4>1. g.kind = "source" /\ Op(k).source /\ i = Captions + Op(k).pages
        BY <3>3 DEF IsSource, Source
      <4>2. Successor(m) = AfterOperation(m)
        BY <4>1 DEF Successor
      <4>3. i + 1 = Chapter(tx, k)
        BY <1>1, <2>2, <4>1
      <4>. QED
        BY <2>3, <4>2, <4>3
    <3>. QED
      BY <1>0, <2>0, <3>1, <3>2, <3>3 DEF Entry, k
  <2>6. Null \in Nothing /\ NextStep \in Nothing
    BY DEF Nothing
  <2>. QED
    BY <1>3, <2>0, <2>3, <2>5, <2>6
<1>. QED
  BY <1>2, <1>3

\* Showing the next page in turn.
LEMMA FormatOnPage ==
  ASSUME tx \in Transactions, extended = FALSE, NEW m, Ready(m), InChapter(m),
         ShownBefore(seen, m.dataIndex - 1), ShownOf(seen, m.dataIndex - 1, m.formatterIndex)
  PROVE  /\ OnPage(Format(m), seen \cup {Format(m).page})
         /\ Format(m).page = [of |-> m.dataIndex - 1, part |-> m.formatterIndex + 1]
<1>. DEFINE n == Format(m)
            f == m.formatterIndex
            s == seen \cup {n.page}
<1>0. /\ m \in Memory /\ m.details # 0 /\ f # -1 /\ f \in 0 .. MaxFormatters - 2
      /\ Current(m) = m.stack[f] /\ Current(m) \notin Nothing /\ Entry(Current(m), f, m.details)
      /\ extended \in BOOLEAN /\ m.dataIndex # 0
  <2>1. m.dataIndex # 0
    BY DEF Ready
  <2>2. extended \in BOOLEAN
    OBVIOUS
  <2>. QED
    BY <2>1, <2>2, ReadyCurrent
<1>1. /\ n.page = Printed(m) /\ n.dataIndex = m.dataIndex /\ n.formatterIndex = f
      /\ n.opIndex = m.opIndex /\ n.details = m.details
  BY <1>0, FormatFields
<1>2. /\ n.stack[f + 1] = Successor(m) /\ Successor(n) = Successor(m)
      /\ \A i \in 0 .. f : n.stack[i] = m.stack[i]
  BY <1>0, FormatKeeps
<1>3. Real(n)
  BY <1>0, ReadyFormat DEF Ready
<1>. HIDE DEF n
<1>4. n.page = [of |-> m.dataIndex - 1, part |-> f + 1]
  BY <1>0, <1>1, PrintedIsCurrent
<1>5. InChapter(n)
  BY <1>1, <1>2 DEF InChapter, Beginning
<1>6. ShownBefore(s, n.dataIndex - 1)
  BY <1>1 DEF ShownBefore
<1>7. ShownOf(s, n.dataIndex - 1, n.formatterIndex + 1)
  <2>1. \A j \in 1 .. f + 1 : j \in 1 .. f \/ j = f + 1
    BY <1>0, TransactionsOK
  <2>. QED
    BY <1>1, <1>4, <2>1 DEF ShownOf
<1>. QED
  BY <1>1, <1>2, <1>3, <1>4, <1>5, <1>6, <1>7 DEF OnPage, n

\* While the transaction stays, so does what its pages are.
LEMMA SameOnPage ==
  ASSUME tx' = tx, extended' = extended
  PROVE  /\ OnPage(mem, seen)' <=> OnPage(mem', seen')
         /\ Sound' <=> Sound
         /\ ~Sound /\ PagesOf(tx) \subseteq seen /\ seen \subseteq seen' => AllShown'
<1>1. /\ Real(mem)' <=> Real(mem')
      /\ Successor(mem)' = Successor(mem')
      /\ InChapter(mem)' <=> InChapter(mem')
  BY SameTransaction
<1>2. /\ ShownBefore(seen, mem.dataIndex - 1)' <=> ShownBefore(seen', mem'.dataIndex - 1)
      /\ ShownOf(seen, mem.dataIndex - 1, mem.formatterIndex + 1)'
           <=> ShownOf(seen', mem'.dataIndex - 1, mem'.formatterIndex + 1)
  BY DEF ShownBefore, ShownOf
<1>3. OnPage(mem, seen)' <=> OnPage(mem', seen')
  BY <1>1, <1>2 DEF OnPage
<1>4. Sound' <=> Sound
  BY DEF Sound
<1>5. PagesOf(tx') = PagesOf(tx)
  OBVIOUS
<1>. QED
  BY <1>3, <1>4, <1>5 DEF AllShown

\* A page shown in its turn adds to what has been shown.
LEMMA ShowsNormal ==
  ASSUME Shape, extended = FALSE, NEW m, Ready(m), InChapter(m),
         ShownBefore(seen, m.dataIndex - 1), ShownOf(seen, m.dataIndex - 1, m.formatterIndex),
         Shows(m)
  PROVE  Normal' /\ mem'.page = [of |-> m.dataIndex - 1, part |-> m.formatterIndex + 1]
<1>1. /\ tx \in Transactions /\ tx' = tx /\ extended' = extended /\ step' = "page"
      /\ mem' = Format(m) /\ seen' = seen \cup {Format(m).page}
  BY DEF Shape, Shows
<1>2. OnPage(mem', seen') /\ mem'.page = [of |-> m.dataIndex - 1, part |-> m.formatterIndex + 1]
  BY <1>1, FormatOnPage
<1>3. OnPage(mem, seen)'
  BY <1>1, <1>2, SameOnPage
<1>. QED
  BY <1>1, <1>2, <1>3 DEF Normal, Turned

\* Where a page that is being shown is.
LEMMA PageFacts ==
  ASSUME Shape, Normal, extended = FALSE, step \in Turned
  PROVE  /\ tx \in Transactions /\ extended \in BOOLEAN /\ mem \in Memory
         /\ Ready(mem) /\ InChapter(mem) /\ ~Empty(mem)
         /\ mem.dataIndex \in Nat \ {0} /\ mem.formatterIndex \in 0 .. MaxFormatters - 2
         /\ mem.formatterIndex \in Nat
         /\ mem.page = [of |-> mem.dataIndex - 1, part |-> mem.formatterIndex + 1]
         /\ mem.stack[mem.formatterIndex + 1] = Successor(mem)
         /\ ShownBefore(seen, mem.dataIndex - 1)
         /\ ShownOf(seen, mem.dataIndex - 1, mem.formatterIndex + 1)
         /\ step # "page" => Successor(mem) = Null
<1>1. /\ tx \in Transactions /\ extended \in BOOLEAN /\ Good(mem) /\ mem.dataIndex >= 1
      /\ mem.formatterIndex \in 0 .. MaxFormatters - 2
  BY DEF Shape
<1>2. /\ Real(mem) /\ InChapter(mem)
      /\ mem.page = [of |-> mem.dataIndex - 1, part |-> mem.formatterIndex + 1]
      /\ mem.stack[mem.formatterIndex + 1] = Successor(mem)
      /\ ShownBefore(seen, mem.dataIndex - 1)
      /\ ShownOf(seen, mem.dataIndex - 1, mem.formatterIndex + 1)
      /\ step # "page" => Successor(mem) = Null
  BY DEF Normal, OnPage
<1>3. mem \in Memory /\ mem.dataIndex \in Nat \ {0} /\ Ready(mem)
  BY <1>1, <1>2 DEF Good, Memory, Ready
<1>4. mem.formatterIndex \in Nat
  BY <1>1, TransactionsOK
<1>5. ~Empty(mem)
  <2>1. ASSUME Empty(mem) PROVE FALSE
    <3>1. mem.stack[0] = Null /\ 0 \in 0 .. mem.formatterIndex
      BY <1>4, <2>1, EmptyStackTyped, TransactionsOK DEF Empty
    <3>. QED
      BY <1>2, <3>1 DEF Real, Nothing
  <2>. QED
    BY <2>1
<1>. QED
  BY <1>1, <1>2, <1>3, <1>4, <1>5

\* The first page of a chapter, fetched from the one before or the one after.
LEMMA ChapterStarts ==
  ASSUME tx \in Transactions, NEW m, Cleared(m), NEW n, Fetched(m, n), Ready(n),
         Beginning(m) \/ m.opIndex < m.dataIndex - 1,
         tx.count > 0 => m.dataIndex - 1 <= tx.count,
         m.dataIndex = 1 => Beginning(m)
  PROVE  InChapter(n) /\ n.formatterIndex = 0 /\ n.dataIndex = m.dataIndex
<1>0. /\ n.dataIndex = m.dataIndex /\ n.formatterIndex = 0 /\ m.dataIndex \in Nat \ {0}
      /\ m.opIndex \in Nat
  BY DEF Fetched, Cleared, Memory
<1>1. CASE m.dataIndex = 1
  <2>1. n.stack[0] = Header(1) /\ n.opIndex = m.opIndex /\ n.details = m.details
    BY <1>1 DEF Fetched
  <2>2. IsHeader(n.stack[0], 0)
    BY <2>1, HeaderHasPages DEF IsHeader
  <2>3. \A i \in 0 .. n.formatterIndex : IsHeader(n.stack[i], i)
    BY <1>0, <2>2
  <2>. QED
    BY <1>0, <1>1, <2>1, <2>3 DEF InChapter, Beginning
<1>2. CASE m.dataIndex > 1
  <2>1. n.stack[0] # Null
    <3>1. 0 \in 0 .. n.formatterIndex
      BY <1>0
    <3>. QED
      BY <3>1 DEF Ready, Real, Nothing
  <2>2. EmptyStack[0] = Null
    BY EmptyStackTyped, TransactionsOK
  <2>3. /\ n.stack[0] = Confirm
        /\ m.dataIndex - 1 <= m.opIndex => n.opIndex = m.opIndex /\ n.details = m.details
        /\ m.dataIndex - 1 > m.opIndex =>
             n.opIndex = m.dataIndex - 1 /\ n.details = m.dataIndex - 1
    BY <1>2, <2>1, <2>2 DEF Fetched
  <2>4. n.opIndex = m.dataIndex - 1 /\ n.details = m.dataIndex - 1
    BY <1>0, <1>2, <2>3 DEF Beginning
  <2>5. ~IsHeader(n.stack[0], 0)
    BY <2>3 DEF IsHeader, Header, Confirm
  <2>6. \A i \in 0 .. n.formatterIndex : ~IsHeader(n.stack[i], i)
    BY <1>0, <2>5
  <2>. QED
    BY <1>0, <1>2, <2>4, <2>6 DEF InChapter
<1>. QED
  BY <1>0, <1>1, <1>2

\* What the right button does to the page.
Forwards ==
  \/ step = "review" /\ step' = "page" /\ mem'.page = [of |-> 0, part |-> 1]
  \/ /\ step = "page" /\ mem.page.part < Chapter(tx, mem.page.of)
     /\ \/ step' = "page" /\ mem'.page = [of |-> mem.page.of, part |-> mem.page.part + 1]
        \/ step' = "thrown" /\ mem'.page = mem.page
  \/ /\ step = "page" /\ mem.page.part = Chapter(tx, mem.page.of)
     /\ \/ /\ mem.page.of # tx.count /\ step' = "page"
           /\ mem'.page = [of |-> mem.page.of + 1, part |-> 1]
        \/ mem.page.of = tx.count /\ step' = "finalize"
  \/ step = "finalize" /\ step' = "cancel"

\* The right button goes forwards in order; or it meets an operation that does not parse, and
\* then everything before it has been shown.
LEMMA RightNormal ==
  ASSUME Shape, Normal, extended = FALSE, Right
  PROVE  (Normal' /\ (tx.count > 0 => Forwards)) \/ AllShown'
<1>0. Good(mem) /\ tx \in Transactions /\ extended \in BOOLEAN /\ mem \in Memory
      /\ tx.count \in Nat
  BY Sent DEF Shape, Good
<1>1. CASE step = "review" /\ UpperBorder
  <2>1. PICK m, n : m = Ahead(mem) /\ n = Fetch(m)
    OBVIOUS
  <2>2. Fetched(m, n) /\ m.dataIndex = 1 /\ Ready(n) /\ Shows(n)
    BY <1>1, <2>1, RightFromReview
  <2>3. Beginning(mem) /\ mem.dataIndex = 0
    BY <1>1 DEF Normal, Shape
  <2>4. Cleared(m) /\ Beginning(m)
    BY <1>0, <2>1, <2>3, AheadCleared DEF Beginning
  <2>5. InChapter(n) /\ n.formatterIndex = 0 /\ n.dataIndex = 1
    BY <1>0, <2>2, <2>4, ChapterStarts
  <2>6. ShownBefore(seen, n.dataIndex - 1) /\ ShownOf(seen, n.dataIndex - 1, n.formatterIndex)
    BY <2>5 DEF ShownBefore, ShownOf
  <2>7. Normal' /\ mem'.page = [of |-> 0, part |-> 1]
    <3>1. Normal' /\ mem'.page = [of |-> n.dataIndex - 1, part |-> n.formatterIndex + 1]
      BY <2>2, <2>5, <2>6, ShowsNormal
    <3>2. n.dataIndex - 1 = 0 /\ n.formatterIndex + 1 = 1
      BY <2>5
    <3>. QED
      BY <3>1, <3>2
  <2>. QED
    BY <1>1, <2>2, <2>7 DEF Forwards, Shows
<1>2. CASE step = "page" /\ LowerBorder
  <2>1. PICK f, g, d : f = mem.formatterIndex /\ g = mem.stack[f + 1] /\ d = mem.dataIndex
    OBVIOUS
  <2>2. /\ Ready(mem) /\ InChapter(mem)
        /\ d \in Nat \ {0} /\ f \in 0 .. MaxFormatters - 2 /\ f \in Nat
        /\ mem.page = [of |-> d - 1, part |-> f + 1] /\ g = Successor(mem)
        /\ ShownBefore(seen, d - 1) /\ ShownOf(seen, d - 1, f + 1)
    BY <1>2, <2>1, PageFacts DEF Turned
  <2>3. /\ Successor(mem) \in Nothing => f + 1 = Chapter(tx, d - 1)
        /\ Successor(mem) \notin Nothing =>
              /\ f + 1 < Chapter(tx, d - 1)
              /\ d = 1 => IsHeader(Successor(mem), f + 1)
              /\ d # 1 => ~IsHeader(Successor(mem), f + 1)
        /\ d = 1 => Successor(mem) # Null
        /\ d # 1 /\ Successor(mem) = Null => d - 1 = tx.count
        /\ d # 1 /\ Successor(mem) = NextStep => d - 1 # tx.count
    BY <1>0, <2>1, <2>2, LastPage
  <2>4. mem.page.of = d - 1 /\ mem.page.part = f + 1
    BY <2>2
  <2>5. CASE /\ g \notin Nothing /\ f + 1 \in 0 .. MaxFormatters - 2
             /\ Ready(Move(mem, f + 1)) /\ Shows(Move(mem, f + 1))
    <3>1. PICK m : m = Move(mem, f + 1)
      OBVIOUS
    <3>2. /\ m.formatterIndex = f + 1 /\ m.dataIndex = d /\ m.stack = mem.stack
          /\ m.opIndex = mem.opIndex /\ m.details = mem.details
      <4>1. f + 1 \in -1 .. MaxFormatters - 1
        BY <2>5, TransactionsOK
      <4>. QED
        BY <1>0, <2>1, <3>1, <4>1, MoveFields
    <3>3. InChapter(m)
      <4>1. \A i \in 0 .. f + 1 : i \in 0 .. f \/ i = f + 1
        BY <2>2
      <4>2. CASE d = 1
        BY <2>1, <2>2, <2>3, <2>5, <3>2, <4>1, <4>2 DEF InChapter, Beginning
      <4>3. CASE d # 1
        BY <2>1, <2>2, <2>3, <2>5, <3>2, <4>1, <4>3 DEF InChapter
      <4>. QED
        BY <4>2, <4>3
    <3>4. Normal' /\ mem'.page = [of |-> d - 1, part |-> (f + 1) + 1]
      BY <2>2, <2>5, <3>1, <3>2, <3>3, ShowsNormal
    <3>5. step' = "page"
      BY <2>5 DEF Shows
    <3>. QED
      BY <1>2, <2>2, <2>3, <2>4, <2>5, <3>4, <3>5 DEF Forwards
  <2>6. CASE /\ Throws(Move(mem, f + 1)) /\ step' = "thrown" /\ mem' = Move(mem, f + 1)
             /\ UNCHANGED <<tx, border, seen, extended>>
    <3>1. /\ mem'.formatterIndex = f + 1 /\ mem'.page = mem.page /\ mem'.stack = mem.stack
      <4>1. f + 1 \in -1 .. MaxFormatters - 1
        BY <2>2, TransactionsOK
      <4>. QED
        BY <1>0, <2>6, <4>1, MoveFields
    <3>2. g \notin Nothing
      <4>1. Current(Move(mem, f + 1)) = g
        BY <2>1, <2>6, <3>1 DEF Current
      <4>. QED
        BY <2>6, <4>1 DEF Throws, Nothing
    <3>3. Normal'
      BY <2>6 DEF Normal, Turned
    <3>. QED
      BY <1>2, <2>2, <2>3, <2>4, <2>6, <3>1, <3>2, <3>3 DEF Forwards
  <2>7. CASE /\ g = NextStep \/ (g = Null /\ mem.dataIndex < tx.count - 1)
             /\ Cleared(Ahead(mem)) /\ Fetched(Ahead(mem), Fetch(Ahead(mem)))
             /\ Advance
    <3>1. PICK m, n : m = Ahead(mem) /\ n = Fetch(m)
      OBVIOUS
    <3>2. g = NextStep /\ g \in Nothing
      <4>1. g # Null
        BY <1>0, <2>1, <2>2, <2>3, <2>7, FormatterKinds
      <4>. QED
        BY <2>7, <4>1 DEF Nothing
    <3>3. /\ f + 1 = Chapter(tx, d - 1)
          /\ tx.count > 0 => d <= tx.count /\ d - 1 # tx.count
      <4>1. f + 1 = Chapter(tx, d - 1)
        BY <2>2, <2>3, <3>2
      <4>2. CASE d = 1
        BY <1>0, <4>1, <4>2
      <4>3. CASE d # 1
        <5>1. tx.count > 0 => d - 1 <= tx.count
          BY <2>1, <2>2, <4>3 DEF InChapter
        <5>2. d - 1 # tx.count
          BY <2>2, <2>3, <3>2, <4>3
        <5>. QED
          BY <1>0, <2>2, <4>1, <5>1, <5>2
      <4>. QED
        BY <4>2, <4>3
    <3>4. /\ m.dataIndex = d + 1 /\ m.opIndex = mem.opIndex /\ m.details = mem.details
          /\ m.dataIndex - 1 = d
      <4>1. mem.dataIndex <= tx.count \/ mem.dataIndex - 1 <= Len(tx.ops)
        BY <2>2 DEF Ready, Real
      <4>2. m.dataIndex = d + 1 /\ m.opIndex = mem.opIndex /\ m.details = mem.details
        BY <1>0, <2>1, <3>1, <4>1, AheadCleared
      <4>. QED
        BY <2>2, <4>2
    <3>5. ShownBefore(seen, d)
      <4>1. ASSUME NEW i \in 0 .. d - 1, NEW j \in 1 .. Chapter(tx, i)
            PROVE  [of |-> i, part |-> j] \in seen
        <5>1. i \in 0 .. (d - 1) - 1 \/ i = d - 1
          BY <2>2
        <5>2. CASE i \in 0 .. (d - 1) - 1
          BY <2>2, <5>2 DEF ShownBefore
        <5>3. CASE i = d - 1
          BY <2>2, <3>3, <5>3 DEF ShownOf
        <5>. QED
          BY <5>1, <5>2, <5>3
      <4>. QED
        BY <4>1 DEF ShownBefore
    <3>6. CASE Ready(n) /\ Shows(n)
      <4>1. Beginning(m) \/ m.opIndex < m.dataIndex - 1
        BY <2>1, <2>2, <3>4 DEF InChapter, Beginning
      <4>2. InChapter(n) /\ n.formatterIndex = 0 /\ n.dataIndex = d + 1
        <5>1. m.dataIndex # 1
          BY <2>2, <3>4
        <5>2. tx.count > 0 => m.dataIndex - 1 <= tx.count
          BY <1>0, <3>3, <3>4
        <5>. QED
          BY <1>0, <2>7, <3>1, <3>4, <3>6, <4>1, <5>1, <5>2, ChapterStarts
      <4>3. n.dataIndex - 1 = d
        BY <2>2, <4>2
      <4>4. ShownOf(seen, n.dataIndex - 1, n.formatterIndex)
        BY <4>2 DEF ShownOf
      <4>5. Normal' /\ mem'.page = [of |-> n.dataIndex - 1, part |-> n.formatterIndex + 1]
        BY <3>5, <3>6, <4>2, <4>3, <4>4, ShowsNormal
      <4>6. mem'.page = [of |-> (d - 1) + 1, part |-> 1]
        BY <2>2, <4>2, <4>3, <4>5
      <4>7. step' = "page"
        BY <3>6 DEF Shows
      <4>8. tx.count > 0 => Forwards
        BY <1>0, <1>2, <2>4, <3>3, <4>6, <4>7 DEF Forwards
      <4>. QED
        BY <4>5, <4>8
    <3>7. CASE /\ ~Parses(tx, mem.dataIndex)
               /\ \E p \in Page : Stays([Fetch(Ahead(mem)) EXCEPT !.page = p])
      <4>1. tx' = tx /\ extended' = extended /\ seen \subseteq seen'
        BY <3>7 DEF Stays
      <4>2. ~Sound
        BY <1>0, <2>1, <2>2, <3>3, <3>7, ParsesIs DEF Sound
      <4>3. PagesOf(tx) \subseteq seen
        <5>1. ASSUME NEW j \in 0 .. tx.count, Parses(tx, j), NEW k \in 1 .. Chapter(tx, j)
              PROVE  [of |-> j, part |-> k] \in seen
          <6>1. j \in 0 .. d - 1
            <7>1. j \in Nat /\ d \in Nat
              BY <1>0, <2>2
            <7>2. ~(d \in 0 .. j)
              BY <1>0, <2>1, <3>7, <5>1, <7>1, ParsesIs
            <7>. QED
              BY <2>2, <7>1, <7>2
          <6>. QED
            BY <3>5, <6>1 DEF ShownBefore
        <5>. QED
          BY <5>1 DEF PagesOf
      <4>. QED
        BY <4>1, <4>2, <4>3, SameOnPage
    <3>. QED
      BY <2>7, <3>1, <3>6, <3>7 DEF Advance
  <2>8. CASE g = Null /\ Leave("finalize", mem)
    <3>1. /\ tx' = tx /\ extended' = extended /\ step' = "finalize" /\ mem' = mem /\ seen' = seen
      BY <2>8 DEF Leave
    <3>2. OnPage(mem, seen)' /\ Successor(mem)' = Null
      BY <1>2, <2>2, <2>8, <3>1, SameOnPage, SameTransaction DEF Normal, Turned
    <3>3. Normal'
      BY <3>1, <3>2 DEF Normal
    <3>4. Successor(mem) = Null /\ Successor(mem) \in Nothing
      BY <2>2, <2>8 DEF Nothing
    <3>5. f + 1 = Chapter(tx, d - 1) /\ d - 1 = tx.count
      BY <2>3, <3>4
    <3>6. Forwards
      BY <1>2, <2>4, <3>1, <3>5 DEF Forwards
    <3>. QED
      BY <3>3, <3>6
  <2>. QED
    BY <1>2, <2>1, <2>5, <2>6, <2>7, <2>8, RightFromPage
<1>3. CASE Turn("finalize", "cancel")
  <2>1. /\ tx' = tx /\ extended' = extended /\ step = "finalize" /\ step' = "cancel"
        /\ mem' = mem /\ seen' = seen
    BY <1>3 DEF Turn
  <2>2. OnPage(mem, seen) /\ Successor(mem) = Null
    BY <2>1 DEF Normal, Turned
  <2>3. OnPage(mem, seen)' /\ Successor(mem)' = Null
    BY <2>1, <2>2, SameOnPage, SameTransaction
  <2>. QED
    BY <2>1, <2>3 DEF Normal, Turned, Forwards
<1>. QED
  BY <1>1, <1>2, <1>3 DEF Right

\* What the left button does to the page.
Backwards ==
  \/ step = "page" /\ mem.page.part > 1 /\ step' = "page"
       /\ mem'.page = [of |-> mem.page.of, part |-> mem.page.part - 1]
  \/ /\ step = "page" /\ mem.page.part = 1
     /\ \/ /\ mem.page.of > 0 /\ step' = "page"
           /\ mem'.page = [of |-> mem.page.of - 1, part |-> 1]
        \/ mem.page.of = 0 /\ step' = "review"
  \/ step = "finalize" /\ step' = "page"
       /\ mem'.page = [of |-> tx.count, part |-> Chapter(tx, tx.count)]
  \/ step = "cancel" /\ step' = "finalize"

\* The left button goes backwards in order.
LEMMA LeftNormal ==
  ASSUME Shape, Normal, extended = FALSE, Left
  PROVE  Normal' /\ Backwards
<1>0. Good(mem) /\ tx \in Transactions /\ extended \in BOOLEAN /\ mem \in Memory
      /\ tx.count \in Nat
  BY Sent DEF Shape, Good
<1>. SUFFICES ASSUME step \in Turned PROVE Normal' /\ Backwards
  BY DEF Left, Turn, Turned
<1>1. PICK f, d : f = mem.formatterIndex /\ d = mem.dataIndex
  OBVIOUS
<1>2. /\ Ready(mem) /\ InChapter(mem)
      /\ d \in Nat \ {0} /\ f \in 0 .. MaxFormatters - 2 /\ f \in Nat
      /\ mem.page = [of |-> d - 1, part |-> f + 1]
      /\ ShownBefore(seen, d - 1) /\ ShownOf(seen, d - 1, f + 1)
      /\ step # "page" => Successor(mem) = Null
      /\ ~Empty(mem)
  BY <1>1, PageFacts
<1>3. mem.page.of = d - 1 /\ mem.page.part = f + 1
  BY <1>2
<1>4. Successor(mem) = Null => d - 1 = tx.count /\ f + 1 = Chapter(tx, tx.count)
  BY <1>0, <1>1, <1>2, LastPage DEF Nothing
<1>5. CASE step = "page" /\ UpperBorder
  <2>1. CASE f > 0 /\ f - 1 \in 0 .. MaxFormatters - 2
             /\ Ready(Move(mem, f - 1)) /\ Shows(Move(mem, f - 1))
    <3>1. PICK m : m = Move(mem, f - 1)
      OBVIOUS
    <3>2. /\ m.formatterIndex = f - 1 /\ m.dataIndex = d /\ m.stack = mem.stack
          /\ m.opIndex = mem.opIndex /\ m.details = mem.details
      <4>1. f - 1 \in -1 .. MaxFormatters - 1
        BY <1>2, <2>1, TransactionsOK
      <4>. QED
        BY <1>0, <1>1, <3>1, <4>1, MoveFields
    <3>3. \A i \in 0 .. f - 1 : i \in 0 .. f
      BY <1>2
    <3>4. InChapter(m)
      BY <1>1, <1>2, <3>2, <3>3 DEF InChapter, Beginning
    <3>5. ShownOf(seen, d - 1, f - 1)
      <4>1. \A j \in 1 .. f - 1 : j \in 1 .. f + 1
        BY <1>2
      <4>. QED
        BY <1>2, <4>1 DEF ShownOf
    <3>6. Normal' /\ mem'.page = [of |-> d - 1, part |-> (f - 1) + 1]
      BY <1>2, <2>1, <3>1, <3>2, <3>4, <3>5, ShowsNormal
    <3>7. step' = "page" /\ (f - 1) + 1 = (f + 1) - 1 /\ f + 1 > 1
      BY <1>2, <2>1 DEF Shows
    <3>. QED
      BY <1>3, <1>5, <3>6, <3>7 DEF Backwards
  <2>2. CASE /\ f = 0 /\ mem.dataIndex > 1
             /\ Cleared(Behind(mem)) /\ Fetched(Behind(mem), Fetch(Behind(mem)))
             /\ Ready(Fetch(Behind(mem))) /\ Shows(Fetch(Behind(mem)))
    <3>1. PICK m, n : m = Behind(mem) /\ n = Fetch(m)
      OBVIOUS
    <3>2. m.dataIndex = d - 1 /\ m.opIndex = 0
      BY <1>0, <1>1, <2>2, <3>1, BehindCleared
    <3>3. Beginning(m)
      BY <3>2 DEF Beginning
    <3>4. tx.count > 0 => m.dataIndex - 1 <= tx.count
      <4>1. tx.count > 0 => d - 1 <= tx.count
        BY <1>1, <1>2, <2>2 DEF InChapter
      <4>. QED
        BY <1>0, <1>2, <3>2, <4>1
    <3>5. InChapter(n) /\ n.formatterIndex = 0 /\ n.dataIndex = d - 1
      BY <1>0, <2>2, <3>1, <3>2, <3>3, <3>4, ChapterStarts
    <3>6. ShownBefore(seen, n.dataIndex - 1)
      <4>1. \A i \in 0 .. ((d - 1) - 1) - 1 : i \in 0 .. (d - 1) - 1
        BY <1>2
      <4>. QED
        BY <1>2, <3>5, <4>1 DEF ShownBefore
    <3>7. ShownOf(seen, n.dataIndex - 1, n.formatterIndex)
      BY <3>5 DEF ShownOf
    <3>8. Normal' /\ mem'.page = [of |-> n.dataIndex - 1, part |-> n.formatterIndex + 1]
      BY <2>2, <3>1, <3>5, <3>6, <3>7, ShowsNormal
    <3>9. mem'.page = [of |-> (d - 1) - 1, part |-> 1]
      BY <3>5, <3>8
    <3>10. step' = "page" /\ d - 1 > 0 /\ f + 1 = 1
      BY <1>1, <1>2, <2>2 DEF Shows
    <3>. QED
      BY <1>3, <1>5, <3>8, <3>9, <3>10 DEF Backwards
  <2>3. CASE ~Parses(tx, mem.dataIndex - 2) /\ mem.dataIndex > 2
    <3>1. mem.opIndex = d - 1 /\ Parses(tx, mem.opIndex)
      BY <1>1, <1>2, <2>3 DEF InChapter, Ready, Good, Placed
    <3>2. d - 2 \in 0 .. d - 1 /\ d - 1 \in Nat
      BY <1>1, <1>2, <2>3
    <3>. QED
      BY <1>0, <1>1, <2>3, <3>1, <3>2, ParsesIs
  <2>4. CASE f = 0 /\ mem.dataIndex = 1 /\ Leave("review", Restart(mem))
    <3>1. Beginning(mem)
      BY <1>2, <2>4 DEF InChapter
    <3>2. mem'.opIndex = mem.opIndex /\ mem'.details = mem.details /\ step' = "review"
      BY <1>0, <2>4, RestartGood DEF Leave
    <3>3. Normal'
      BY <3>1, <3>2 DEF Normal, Turned, Beginning
    <3>. QED
      BY <1>1, <1>3, <1>5, <2>4, <3>2, <3>3 DEF Backwards
  <2>. QED
    BY <1>1, <1>5, <2>1, <2>2, <2>3, <2>4, LeftFromPage
<1>6. CASE step = "finalize" /\ LowerBorder
  <2>1. Ready(mem) /\ Shows(mem)
    BY <1>2, <1>6, LeftFromFinalize
  <2>2. ShownOf(seen, mem.dataIndex - 1, mem.formatterIndex)
    <3>1. \A j \in 1 .. f : j \in 1 .. f + 1
      BY <1>2
    <3>. QED
      BY <1>1, <1>2, <3>1 DEF ShownOf
  <2>3. Normal' /\ mem'.page = [of |-> d - 1, part |-> f + 1]
    BY <1>1, <1>2, <2>1, <2>2, ShowsNormal
  <2>. QED
    BY <1>2, <1>4, <1>6, <2>1, <2>3 DEF Backwards, Shows
<1>7. CASE Turn("cancel", "finalize")
  <2>1. /\ tx' = tx /\ extended' = extended /\ step = "cancel" /\ step' = "finalize"
        /\ mem' = mem /\ seen' = seen
    BY <1>7 DEF Turn
  <2>2. OnPage(mem, seen) /\ Successor(mem) = Null
    BY <2>1 DEF Normal, Turned
  <2>3. OnPage(mem, seen)' /\ Successor(mem)' = Null
    BY <2>1, <2>2, SameOnPage, SameTransaction
  <2>. QED
    BY <2>1, <2>3 DEF Normal, Turned, Backwards
<1>. QED
  BY <1>5, <1>6, <1>7 DEF Left

\* Nothing the user does takes away what has been shown, or changes the transaction.
LEMMA UserKeeps ==
  ASSUME Right \/ Left \/ Approve \/ Reject
  PROVE  tx' = tx /\ extended' = extended /\ seen \subseteq seen'
<1>1. ASSUME NEW m, Show(m) PROVE tx' = tx /\ extended' = extended /\ seen \subseteq seen'
  BY <1>1 DEF Show
<1>2. ASSUME NEW s, NEW m, Leave(s, m)
      PROVE  tx' = tx /\ extended' = extended /\ seen \subseteq seen'
  BY <1>2 DEF Leave
<1>3. ASSUME NEW s, NEW r, Turn(s, r)
      PROVE  tx' = tx /\ extended' = extended /\ seen \subseteq seen'
  BY <1>3 DEF Turn
<1>4. UpperBorder => tx' = tx /\ extended' = extended /\ seen \subseteq seen'
  BY <1>1, <1>2 DEF UpperBorder
<1>5. LowerBorder => tx' = tx /\ extended' = extended /\ seen \subseteq seen'
  BY <1>1, <1>2 DEF LowerBorder
<1>. QED
  BY <1>3, <1>4, <1>5 DEF Right, Left, Approve, Reject

LEMMA StartNormal ==
  ASSUME step = "review", mem.opIndex = 1, mem.details = 1
  PROVE  Normal
BY DEF Normal, Turned, Beginning

\* The invariant holds when the program starts.
LEMMA InvariantInit == Init => IInv
<1>1. Init => Normal
  BY StartNormal DEF Init
<1>2. Init => Shape
  BY ShapeInit
<1>. QED
  BY <1>1, <1>2 DEF IInv

\* Every step keeps it: pages are shown in order, or all have been.
LEMMA InvariantNext == IInv /\ [Next]_vars => IInv'
<1>. SUFFICES ASSUME IInv, [Next]_vars PROVE IInv'
  OBVIOUS
<1>0. Shape /\ (extended = FALSE => Normal \/ AllShown) /\ extended \in BOOLEAN
  BY DEF IInv, Shape
<1>1. Shape'
  BY <1>0, ShapeNext
<1>2. ASSUME extended' = FALSE PROVE Normal' \/ AllShown'
  <2>1. CASE NewReview
    <3>1. /\ mem' = ApproveTxInit(At(mem, 1, 1, 1)) /\ step' = "review"
      BY <1>0, <2>1 DEF NewReview, At, Memory, Shape, Good
    <3>2. mem \in Memory
      BY <1>0 DEF Shape, Good
    <3>3. mem'.opIndex = 1 /\ mem'.details = 1
      BY <3>1, <3>2 DEF ApproveTxInit, At, Memory
    <3>. QED
      BY <3>1, <3>3 DEF Normal, Turned, Beginning
  <2>2. CASE Extend
    BY <1>2, <2>2, ExtendSteps, <1>0
  <2>3. CASE UNCHANGED vars
    <3>1. /\ tx' = tx /\ extended' = extended /\ step' = step /\ mem' = mem /\ seen' = seen
      BY <2>3 DEF vars
    <3>2. (OnPage(mem, seen)' <=> OnPage(mem, seen)) /\ Successor(mem)' = Successor(mem)
      BY <3>1, SameOnPage, SameTransaction
    <3>3. Normal => Normal'
      BY <3>1, <3>2 DEF Normal, Turned, Beginning
    <3>4. AllShown => AllShown'
      BY <3>1, SameOnPage DEF AllShown
    <3>. QED
      BY <1>0, <1>2, <3>1, <3>3, <3>4
  <2>4. CASE Right \/ Left \/ Approve \/ Reject
    <3>1. tx' = tx /\ extended' = extended /\ seen \subseteq seen'
      BY <2>4, UserKeeps
    <3>2. CASE AllShown
      BY <3>1, <3>2, SameOnPage DEF AllShown
    <3>3. CASE Normal /\ Right
      BY <1>0, <1>2, <3>1, <3>3, RightNormal
    <3>4. CASE Normal /\ Left
      BY <1>0, <1>2, <3>1, <3>4, LeftNormal
    <3>5. CASE Normal /\ (Approve \/ Reject)
      <4>1. /\ step \in Turned \ {"page"} /\ step' \in Turned \ {"page"}
            /\ mem' = mem /\ seen' = seen
        BY <3>5 DEF Approve, Reject, Turn, Turned
      <4>2. OnPage(mem, seen) /\ Successor(mem) = Null
        BY <3>5, <4>1 DEF Normal
      <4>3. OnPage(mem, seen)' /\ Successor(mem)' = Null
        BY <3>1, <4>1, <4>2, SameOnPage, SameTransaction
      <4>. QED
        BY <4>1, <4>3 DEF Normal, Turned
    <3>. QED
      BY <1>0, <1>2, <2>4, <3>1, <3>2, <3>3, <3>4, <3>5
  <2>. QED
    BY <2>1, <2>2, <2>3, <2>4 DEF Next
<1>3. extended' \in BOOLEAN
  BY <1>1 DEF Shape
<1>4. ~extended' => Normal' \/ AllShown'
  BY <1>2, <1>3
<1>. QED
  BY <1>1, <1>4 DEF IInv

\* In every behaviour the review is where its indices say, and until the host sends more
\* data everything up to the page of the moment has been shown.
THEOREM ReviewInvariant == Spec => []IInv
BY InvariantInit, InvariantNext, PTL DEF Spec
-----------------------------------------------------------------------------
(* What follows from it.                                                    *)

\* Every variable keeps its type: formatter_stack is indexed inside it at every step, and
\* the data index stays within an operation of those of the transaction.
THEOREM ReviewTyped == Spec => []TypeOK
<1>1. IInv => TypeOK
  <2>. SUFFICES ASSUME IInv PROVE TypeOK
    OBVIOUS
  <2>1. Shape /\ Good(mem)
    BY DEF IInv, Shape
  <2>2. step \in {"review", "page", "finalize", "cancel", "approved", "rejected", "thrown"}
    BY <2>1 DEF Shape, Turned
  <2>3. border \in {"OUT", "INSIDE"}
    BY <2>1 DEF Shape
  <2>4. step = "page" => mem.formatterIndex >= 0
    <3>1. step = "page" => mem.formatterIndex \in 0 .. MaxFormatters - 2
      BY <2>1 DEF Shape, Turned
    <3>. QED
      BY <3>1
  <2>5. \A p \in seen : p \in Page
    BY <2>1 DEF Shape
  <2>6. tx \in Transactions /\ extended \in BOOLEAN
    BY <2>1 DEF Shape
  <2>7. mem \in Memory /\ (mem.dataIndex - 1 <= tx.count \/ mem.dataIndex - 2 <= Len(tx.ops))
    BY <2>1 DEF Good, Bounded
  <2>. QED
    BY <2>2, <2>3, <2>4, <2>5, <2>6, <2>7 DEF TypeOK
<1>. QED
  BY <1>1, ReviewInvariant, PTL

\* An exception leaves the review only where a chapter has as many pages as formatter_stack
\* has entries: formatters never pile up, however the user goes back and forth.
THEOREM ThrowsWhenFull == Spec => []ThrowsOnlyWhenFull
<1>1. IInv => ThrowsOnlyWhenFull
  <2>. SUFFICES ASSUME IInv, step = "thrown"
                PROVE  \/ HeaderPages(tx) >= MaxFormatters
                       \/ \E i \in 1 .. Len(tx.ops) :
                            Chapter(tx, i) + (IF extended THEN 1 ELSE 0) >= MaxFormatters
    BY DEF ThrowsOnlyWhenFull
  <2>1. Shape /\ Good(mem) /\ Throws(mem) /\ tx \in Transactions
    BY DEF IInv, Shape
  <2>2. PICK f : f = mem.formatterIndex
    OBVIOUS
  <2>3. f + 1 >= MaxFormatters /\ f \in -1 .. MaxFormatters - 1 /\ Current(mem) \notin Nothing
    BY <2>1, <2>2 DEF Throws, Good, Memory, Nothing
  <2>4. f \in 0 .. MaxFormatters - 1 /\ f \in Nat /\ f # 0 /\ f = MaxFormatters - 1
    BY <2>3, TransactionsOK
  <2>5. Current(mem) = mem.stack[f]
    BY <2>2 DEF Current
  <2>6. Entry(mem.stack[f], f, mem.details)
    BY <2>1, <2>4 DEF Good
  <2>7. ASSUME NEW i \in Nat, Fits(i), i + (IF extended THEN 1 ELSE 0) >= f
        PROVE  \E j \in 1 .. Len(tx.ops) :
                 Chapter(tx, j) + (IF extended THEN 1 ELSE 0) >= MaxFormatters
    <3>1. PICK j \in 1 .. Len(tx.ops) : i < Chapter(tx, j)
      BY <2>7 DEF Fits
    <3>2. PICK c \in Nat : c = Chapter(tx, j)
      BY <2>1, ChapterOf
    <3>3. c + (IF extended THEN 1 ELSE 0) >= MaxFormatters
      BY <2>4, <2>7, <3>1, <3>2, TransactionsOK
    <3>. QED
      BY <3>2, <3>3
  <2>8. CASE IsHeader(mem.stack[f], f)
    <3>1. f < HeaderPages(tx) /\ HeaderPages(tx) \in Nat
      BY <2>1, <2>8, HeaderHasPages DEF IsHeader
    <3>. QED
      BY <2>4, <3>1, TransactionsOK
  <2>9. CASE IsConfirm(mem.stack[f], f)
    BY <2>4, <2>9 DEF IsConfirm
  <2>10. CASE IsDetail(mem.stack[f], f, mem.details)
    <3>1. Fits(f)
      BY <2>10 DEF IsDetail
    <3>2. f + (IF extended THEN 1 ELSE 0) >= f
      BY <2>4
    <3>. QED
      BY <2>4, <2>7, <3>1, <3>2
  <2>11. CASE IsSource(mem.stack[f], f, mem.details)
    <3>1. Fits(IF extended THEN f - 1 ELSE f)
      BY <2>11 DEF IsSource
    <3>2. f - 1 \in Nat
      <4>1. f \in Nat /\ f # 0
        BY <2>4
      <4>. QED
        BY <4>1
    <3>3. CASE extended
      <4>1. Fits(f - 1) /\ (f - 1) + 1 >= f
        BY <2>4, <3>1, <3>3
      <4>. QED
        BY <2>7, <3>2, <3>3, <4>1
    <3>4. CASE ~extended
      <4>1. Fits(f) /\ f + 0 >= f
        BY <2>4, <3>1, <3>4
      <4>. QED
        BY <2>4, <2>7, <3>4, <4>1
    <3>. QED
      BY <3>3, <3>4
  <2>. QED
    BY <2>3, <2>5, <2>6, <2>8, <2>9, <2>10, <2>11 DEF Entry
<1>. QED
  BY <1>1, ReviewInvariant, PTL

\* Where every operation parses there is a page for every chapter.
LEMMA SoundChapters ==
  ASSUME tx \in Transactions, Sound
  PROVE  /\ tx.count \in Nat \ {0}
         /\ \A i \in 0 .. tx.count : Chapter(tx, i) \in Nat \ {0}
<1>1. /\ tx.count \in Nat \ {0} /\ tx.count \in 1 .. Len(tx.ops) /\ Len(tx.ops) \in Nat
  BY TxTyped DEF Sound
<1>2. ASSUME NEW i \in 0 .. tx.count PROVE Chapter(tx, i) \in Nat \ {0}
  <2>1. CASE i = 0
    BY <2>1, HeaderHasPages DEF Chapter
  <2>2. CASE i # 0
    <3>1. i \in 1 .. Len(tx.ops)
      BY <1>1, <2>2
    <3>. QED
      BY <3>1, ChapterOf
  <2>. QED
    BY <2>1, <2>2
<1>. QED
  BY <1>1, <1>2

\* If all operations parse, the page on the screen is the one the indices name: rewinding
\* the parser never leaves the details of another operation in memory.
THEOREM PagesAreCurrent == Spec => []PageIsCurrent
<1>1. IInv => PageIsCurrent
  <2>. SUFFICES ASSUME IInv, extended = FALSE, step = "page", Parses(tx, tx.count), tx.count > 0
                PROVE  mem.page = [of |-> mem.dataIndex - 1, part |-> mem.formatterIndex + 1]
    <3>1. IInv => extended \in BOOLEAN
      BY DEF IInv, Shape
    <3>. QED
      BY <3>1 DEF PageIsCurrent
  <2>1. Shape /\ tx \in Transactions /\ (Normal \/ AllShown)
    BY DEF IInv, Shape
  <2>2. tx.count \in Nat /\ tx.count <= Len(tx.ops) /\ Len(tx.ops) \in Nat
    BY <2>1, ParsesIs, TxTyped
  <2>3. Sound
    BY <2>2 DEF Sound
  <2>4. Normal
    BY <2>1, <2>3 DEF AllShown
  <2>. QED
    BY <2>4 DEF Normal, Turned, OnPage
<1>. QED
  BY <1>1, ReviewInvariant, PTL

\* Nobody reaches Finalize, or approves, before every page of the header and of every
\* operation up to one that does not parse has been on the screen.
THEOREM PagesAreShown == Spec => []EveryPageShown
<1>1. IInv => EveryPageShown
  <2>. SUFFICES ASSUME IInv, extended = FALSE, step \in {"finalize", "approved"}
                PROVE  PagesOf(tx) \subseteq seen
    <3>1. IInv => extended \in BOOLEAN
      BY DEF IInv, Shape
    <3>. QED
      BY <3>1 DEF EveryPageShown
  <2>1. Shape /\ tx \in Transactions /\ (Normal \/ AllShown) /\ step \in Turned /\ step # "page"
    BY DEF IInv, Shape, Turned
  <2>. SUFFICES ASSUME Normal PROVE PagesOf(tx) \subseteq seen
    BY <2>1 DEF AllShown
  <2>2. PICK f, d : f = mem.formatterIndex /\ d = mem.dataIndex
    OBVIOUS
  <2>3. /\ Ready(mem) /\ InChapter(mem) /\ d \in Nat \ {0} /\ f \in Nat
        /\ ShownBefore(seen, d - 1) /\ ShownOf(seen, d - 1, f + 1)
        /\ Successor(mem) = Null
    BY <2>1, <2>2, PageFacts
  <2>4. d - 1 = tx.count /\ f + 1 = Chapter(tx, d - 1)
    BY <2>1, <2>2, <2>3, LastPage DEF Nothing
  <2>5. ASSUME NEW i \in 0 .. tx.count, NEW j \in 1 .. Chapter(tx, i)
        PROVE  [of |-> i, part |-> j] \in seen
    <3>1. CASE i = d - 1
      BY <2>3, <2>4, <3>1 DEF ShownOf
    <3>2. CASE i # d - 1
      <4>1. i \in 0 .. (d - 1) - 1
        BY <2>3, <2>4, <3>2
      <4>. QED
        BY <2>3, <4>1 DEF ShownBefore
    <3>. QED
      BY <3>1, <3>2
  <2>. QED
    BY <2>5 DEF PagesOf
<1>. QED
  BY <1>1, ReviewInvariant, PTL
-----------------------------------------------------------------------------
(* A review is a pager.                                                     *)

\* The book of a transaction, if s, and the reader's place in it.
BookOf(t, s) == IF s THEN [c \in 1 .. t.count + 1 |-> Chapter(t, c - 1)] ELSE <<1>>
Book  == BookOf(tx, Sound)
Place == IF ~Sound \/ step = "review" THEN <<0, 0>>
         ELSE IF step \in {"page", "thrown"} THEN <<mem.page.of + 1, mem.page.part>>
         ELSE <<tx.count + 2, 0>>

\* It has a chapter for the header and for every operation, and no chapter is empty.
LEMMA BookTyped ==
  ASSUME NEW t \in Transactions, NEW s, s => t.count \in 1 .. Len(t.ops)
  PROVE  BookOf(t, s) \in Seq(Nat \ {0}) /\ BookOf(t, s) # <<>>
<1>1. CASE ~s
  BY <1>1 DEF BookOf
<1>2. CASE s
  <2>1. t \in Transaction /\ HeaderPages(t) \in Nat \ {0}
    BY HeaderHasPages, TransactionsOK
  <2>2. t.count \in Nat \ {0} /\ Len(t.ops) \in Nat /\ t.ops \in Seq(Operation)
        /\ t.count <= Len(t.ops)
    BY <1>2, <2>1 DEF Transaction
  <2>3. ASSUME NEW c \in 1 .. t.count + 1 PROVE Chapter(t, c - 1) \in Nat \ {0}
    <3>1. CASE c = 1
      BY <2>1, <3>1 DEF Chapter
    <3>2. CASE c # 1
      <4>1. PICK i \in 1 .. Len(t.ops) : i = c - 1
        BY <2>2, <3>2
      <4>2. t.ops[i] \in Operation
        BY <2>2
      <4>3. t.ops[i].pages \in Nat \ {0} /\ i # 0
        BY <2>2, <4>2 DEF Operation
      <4>4. PICK p \in Nat : p = t.ops[i].pages /\ p # 0
        BY <4>3
      <4>5. Chapter(t, i) = (IF t.count > 1 THEN 1 ELSE 0) + p + IF t.ops[i].source THEN 1 ELSE 0
        BY <4>3, <4>4 DEF Chapter
      <4>6. Chapter(t, i) \in Nat \ {0}
        BY <4>4, <4>5
      <4>. QED
        BY <4>1, <4>6
    <3>. QED
      BY <3>1, <3>2
  <2>4. PICK n \in Nat : n = t.count + 1 /\ n # 0
    BY <2>2
  <2>5. BookOf(t, s) = [c \in 1 .. n |-> Chapter(t, c - 1)]
    BY <1>2, <2>4 DEF BookOf
  <2>6. BookOf(t, s) \in [1 .. n -> Nat \ {0}]
    BY <2>3, <2>4, <2>5
  <2>7. BookOf(t, s) \in Seq(Nat \ {0}) /\ Len(BookOf(t, s)) = n
    BY <2>4, <2>6
  <2>. QED
    BY <2>4, <2>7
<1>. QED
  BY <1>1, <1>2

\* The chapters of the book of a transaction.
LEMMA BookFields ==
  ASSUME tx \in Transactions, Sound
  PROVE  /\ tx.count \in Nat \ {0} /\ Len(Book) = tx.count + 1
         /\ \A i \in 0 .. tx.count : Book[i + 1] = Chapter(tx, i)
<1>1. tx.count \in Nat \ {0}
  BY SoundChapters
<1>2. PICK n \in Nat : n = tx.count + 1
  BY <1>1
<1>3. Book = [c \in 1 .. n |-> Chapter(tx, c - 1)]
  BY <1>2 DEF Book, BookOf
<1>4. Len(Book) = n
  BY <1>3
<1>5. ASSUME NEW i \in 0 .. tx.count PROVE Book[i + 1] = Chapter(tx, i)
  <2>1. i + 1 \in 1 .. n /\ (i + 1) - 1 = i
    BY <1>1, <1>2
  <2>. QED
    BY <1>3, <2>1
<1>. QED
  BY <1>1, <1>2, <1>4, <1>5

\* What a pager may do, told of a book b and places p and q.
ForwardIn(b, p, q) ==
  \/ p = <<0, 0>> /\ q = <<1, 1>>
  \/ /\ p \notin {<<0, 0>>, <<Len(b) + 1, 0>>}
     /\ q = IF p[2] < b[p[1]] THEN <<p[1], p[2] + 1>>
            ELSE IF p[1] < Len(b) THEN <<p[1] + 1, 1>> ELSE <<Len(b) + 1, 0>>

BackwardIn(b, p, q) ==
  \/ p = <<Len(b) + 1, 0>> /\ q = <<Len(b), b[Len(b)]>>
  \/ /\ p \notin {<<0, 0>>, <<Len(b) + 1, 0>>}
     /\ q = IF p[2] > 1 THEN <<p[1], p[2] - 1>>
            ELSE IF p[1] > 1 THEN <<p[1] - 1, 1>> ELSE <<0, 0>>

\* A page of chapter c is neither before the book nor after it.
LEMMA OnAPage ==
  ASSUME NEW b, NEW c \in Nat, NEW k \in Nat \ {0}
  PROVE  /\ <<c + 1, k>> \notin {<<0, 0>>, <<Len(b) + 1, 0>>}
         /\ <<c + 1, k>>[1] = c + 1 /\ <<c + 1, k>>[2] = k
<1>1. c + 1 # 0
  OBVIOUS
<1>2. <<c + 1, k>>[1] = c + 1 /\ <<c + 1, k>>[2] = k
  OBVIOUS
<1>3. <<0, 0>>[2] = 0 /\ <<Len(b) + 1, 0>>[2] = 0
  OBVIOUS
<1>. QED
  BY <1>1, <1>2, <1>3

\* Where the page on the screen is in the book.
LEMMA PlaceOfPage ==
  ASSUME Shape, Normal, Sound, step \in Turned
  PROVE  \E c \in 0 .. tx.count, k \in Nat \ {0} :
           /\ mem.page.of = c /\ mem.page.part = k /\ c \in Nat
           /\ Book[c + 1] = Chapter(tx, c) /\ Chapter(tx, c) \in Nat \ {0}
<1>1. extended = FALSE /\ tx \in Transactions
  BY DEF Sound, Shape
<1>2. PICK f, d : f = mem.formatterIndex /\ d = mem.dataIndex
  OBVIOUS
<1>3. /\ InChapter(mem) /\ d \in Nat \ {0} /\ f \in Nat
      /\ mem.page = [of |-> d - 1, part |-> f + 1]
  BY <1>1, <1>2, PageFacts
<1>4. tx.count \in Nat \ {0}
  BY <1>1, SoundChapters
<1>5. d = 1 \/ d - 1 <= tx.count
  BY <1>2, <1>3, <1>4 DEF InChapter
<1>6. PICK c \in Nat, k \in Nat \ {0} : c = d - 1 /\ k = f + 1
  BY <1>3
<1>7. c \in 0 .. tx.count
  BY <1>3, <1>4, <1>5, <1>6
<1>8. mem.page.of = c /\ mem.page.part = k
  BY <1>3, <1>6
<1>9. Book[c + 1] = Chapter(tx, c) /\ Chapter(tx, c) \in Nat \ {0}
  BY <1>1, <1>7, BookFields, SoundChapters
<1>. QED
  BY <1>6, <1>7, <1>8, <1>9

\* The right button turns one page forward, or leaves the reader where they are.
LEMMA RightPages ==
  ASSUME Shape, Normal, Sound, Forwards, tx' = tx, Sound'
  PROVE  ForwardIn(Book, Place, Place') \/ Place' = Place
<1>1. extended = FALSE /\ tx \in Transactions
  BY DEF Sound, Shape
<1>2. PICK n \in Nat : n = tx.count
  BY <1>1, SoundChapters
<1>3. Len(Book) + 1 = n + 2 /\ Len(Book) = n + 1
  BY <1>1, <1>2, BookFields
<1>4. CASE step = "review" /\ step' = "page" /\ mem'.page = [of |-> 0, part |-> 1]
  <2>1. Place = <<0, 0>>
    BY <1>4 DEF Place
  <2>2. mem'.page.of + 1 = 1 /\ mem'.page.part = 1
    BY <1>4
  <2>3. Place' = <<1, 1>>
    BY <1>4, <2>2 DEF Place
  <2>. QED
    BY <2>1, <2>3 DEF ForwardIn
<1>5. CASE step = "page"
  <2>1. PICK c \in 0 .. tx.count, k \in Nat \ {0} :
             /\ mem.page.of = c /\ mem.page.part = k /\ c \in Nat
             /\ Book[c + 1] = Chapter(tx, c) /\ Chapter(tx, c) \in Nat \ {0}
    BY <1>5, PlaceOfPage DEF Turned
  <2>2. Place = <<c + 1, k>>
    BY <1>5, <2>1 DEF Place
  <2>3. /\ Place \notin {<<0, 0>>, <<Len(Book) + 1, 0>>}
        /\ Place[1] = c + 1 /\ Place[2] = k
    BY <2>1, <2>2, OnAPage
  <2>4. CASE k < Chapter(tx, c) /\ step' = "page" /\ mem'.page = [of |-> c, part |-> k + 1]
    <3>1. mem'.page.of + 1 = c + 1 /\ mem'.page.part = k + 1
      BY <2>4
    <3>2. Place' = <<c + 1, k + 1>>
      BY <2>4, <3>1 DEF Place
    <3>. QED
      BY <2>1, <2>3, <2>4, <3>2 DEF ForwardIn
  <2>5. CASE step' = "thrown" /\ mem'.page = mem.page
    BY <1>5, <2>5 DEF Place
  <2>6. CASE k = Chapter(tx, c) /\ c # tx.count /\ step' = "page"
             /\ mem'.page = [of |-> c + 1, part |-> 1]
    <3>1. mem'.page.of + 1 = (c + 1) + 1 /\ mem'.page.part = 1
      BY <2>6
    <3>2. Place' = <<(c + 1) + 1, 1>>
      BY <2>6, <3>1 DEF Place
    <3>3. c + 1 < Len(Book) /\ ~(k < Book[c + 1])
      BY <1>2, <1>3, <2>1, <2>6
    <3>. QED
      BY <2>3, <3>2, <3>3 DEF ForwardIn
  <2>7. CASE k = Chapter(tx, c) /\ c = tx.count /\ step' = "finalize"
    <3>1. Place' = <<n + 2, 0>>
      BY <1>2, <2>7 DEF Place
    <3>2. ~(c + 1 < Len(Book)) /\ ~(k < Book[c + 1])
      BY <1>2, <1>3, <2>1, <2>7
    <3>3. Place' = <<Len(Book) + 1, 0>>
      BY <1>3, <3>1
    <3>. QED
      BY <2>3, <3>2, <3>3 DEF ForwardIn
  <2>. QED
    BY <1>5, <2>1, <2>4, <2>5, <2>6, <2>7 DEF Forwards
<1>6. CASE step = "finalize" /\ step' = "cancel"
  BY <1>6 DEF Place
<1>. QED
  BY <1>4, <1>5, <1>6 DEF Forwards

\* The left button goes one page back, or to the first of the chapter before.
LEMMA LeftPages ==
  ASSUME Shape, Normal, Sound, Backwards, tx' = tx, Sound'
  PROVE  BackwardIn(Book, Place, Place') \/ Place' = Place
<1>1. extended = FALSE /\ tx \in Transactions
  BY DEF Sound, Shape
<1>2. PICK n \in Nat : n = tx.count
  BY <1>1, SoundChapters
<1>3. Len(Book) + 1 = n + 2 /\ Len(Book) = n + 1 /\ Book[n + 1] = Chapter(tx, n)
  BY <1>1, <1>2, BookFields
<1>4. CASE step = "page"
  <2>1. PICK c \in 0 .. tx.count, k \in Nat \ {0} :
             /\ mem.page.of = c /\ mem.page.part = k /\ c \in Nat
             /\ Book[c + 1] = Chapter(tx, c) /\ Chapter(tx, c) \in Nat \ {0}
    BY <1>4, PlaceOfPage DEF Turned
  <2>2. Place = <<c + 1, k>>
    BY <1>4, <2>1 DEF Place
  <2>3. /\ Place \notin {<<0, 0>>, <<Len(Book) + 1, 0>>}
        /\ Place[1] = c + 1 /\ Place[2] = k
    BY <2>1, <2>2, OnAPage
  <2>4. CASE k > 1 /\ step' = "page" /\ mem'.page = [of |-> c, part |-> k - 1]
    <3>1. mem'.page.of + 1 = c + 1 /\ mem'.page.part = k - 1
      BY <2>4
    <3>2. Place' = <<c + 1, k - 1>>
      BY <2>4, <3>1 DEF Place
    <3>. QED
      BY <2>3, <2>4, <3>2 DEF BackwardIn
  <2>5. CASE k = 1 /\ c > 0 /\ step' = "page" /\ mem'.page = [of |-> c - 1, part |-> 1]
    <3>1. mem'.page.of + 1 = c /\ mem'.page.part = 1
      BY <2>1, <2>5
    <3>2. Place' = <<c, 1>>
      BY <2>5, <3>1 DEF Place
    <3>3. c + 1 > 1 /\ (c + 1) - 1 = c /\ ~(k > 1)
      BY <2>1, <2>5
    <3>. QED
      BY <2>3, <3>2, <3>3 DEF BackwardIn
  <2>6. CASE k = 1 /\ c = 0 /\ step' = "review"
    <3>1. Place' = <<0, 0>>
      BY <2>6 DEF Place
    <3>2. ~(c + 1 > 1) /\ ~(k > 1)
      BY <2>6
    <3>. QED
      BY <2>3, <3>1, <3>2 DEF BackwardIn
  <2>. QED
    BY <1>4, <2>1, <2>4, <2>5, <2>6 DEF Backwards
<1>5. CASE step = "finalize" /\ step' = "page"
           /\ mem'.page = [of |-> tx.count, part |-> Chapter(tx, tx.count)]
  <2>1. Place = <<n + 2, 0>>
    BY <1>2, <1>5 DEF Place
  <2>2. mem'.page.of + 1 = n + 1 /\ mem'.page.part = Chapter(tx, n)
    BY <1>2, <1>5
  <2>3. Place' = <<n + 1, Chapter(tx, n)>>
    BY <1>5, <2>2 DEF Place
  <2>. QED
    BY <1>3, <2>1, <2>3 DEF BackwardIn
<1>6. CASE step = "cancel" /\ step' = "finalize"
  BY <1>6 DEF Place
<1>. QED
  BY <1>4, <1>5, <1>6 DEF Backwards

\* Book and Place are what the refinement puts for the pager's variables.
LEMMA PagerIs ==
  /\ UNCHANGED <<Book, Place>> => UNCHANGED PagerOf!pagerVars
  /\ PagerOf!Init <=> Book \in Seq(Nat \ {0}) /\ Book # <<>> /\ Place = <<0, 0>>
  /\ Book' \in Seq(Nat \ {0}) /\ Book' # <<>> /\ Place' = <<0, 0>> => PagerOf!Open
  /\ ForwardIn(Book, Place, Place') => PagerOf!Forward
  /\ BackwardIn(Book, Place, Place') => PagerOf!Backward
<1>1. UNCHANGED <<Book, Place>> => UNCHANGED PagerOf!pagerVars
  BY DEF PagerOf!pagerVars, Book, BookOf, Place
<1>2. PagerOf!Init <=> Book \in Seq(Nat \ {0}) /\ Book # <<>> /\ Place = <<0, 0>>
  BY DEF PagerOf!Init, PagerOf!Front, Book, BookOf, Place
<1>3. Book' \in Seq(Nat \ {0}) /\ Book' # <<>> /\ Place' = <<0, 0>> => PagerOf!Open
  BY DEF PagerOf!Open, PagerOf!Front, Book, BookOf, Place
<1>4. ForwardIn(Book, Place, Place') => PagerOf!Forward
  BY DEF ForwardIn, PagerOf!Forward, PagerOf!Front, PagerOf!Back, Book, BookOf, Place
<1>5. BackwardIn(Book, Place, Place') => PagerOf!Backward
  BY DEF BackwardIn, PagerOf!Backward, PagerOf!Front, PagerOf!Back, Book, BookOf, Place
<1>. QED
  BY <1>1, <1>2, <1>3, <1>4, <1>5

\* Every step of a review is one of the pager's, or none.
LEMMA ReviewTurnsPages == IInv /\ [Next]_vars => [PagerOf!Next]_(PagerOf!pagerVars)
<1>. SUFFICES ASSUME IInv, [Next]_vars PROVE PagerOf!Next \/ UNCHANGED <<Book, Place>>
  BY PagerIs
<1>1. Shape /\ extended \in BOOLEAN /\ tx \in Transactions
      /\ (extended = FALSE => Normal \/ AllShown)
  BY DEF IInv, Shape
<1>2. Shape' /\ tx' \in Transactions /\ (Sound' => tx'.count \in 1 .. Len(tx'.ops))
  BY <1>1, ShapeNext DEF Shape, Sound
<1>3. CASE NewReview \/ Extend
  <2>1. Place' = <<0, 0>>
    <3>1. step' = "review" \/ ~Sound'
      BY <1>3 DEF NewReview, Extend, Sound
    <3>. QED
      BY <3>1 DEF Place
  <2>2. Book' = BookOf(tx', Sound')
    BY DEF Book, BookOf
  <2>3. Book' \in Seq(Nat \ {0}) /\ Book' # <<>>
    BY <1>2, <2>2, BookTyped
  <2>. QED
    BY <2>1, <2>3, PagerIs DEF PagerOf!Next
<1>4. CASE UNCHANGED vars
  BY <1>4 DEF vars, Book, BookOf, Place, Sound
<1>5. CASE Right \/ Left \/ Approve \/ Reject
  <2>1. tx' = tx /\ extended' = extended
    BY <1>5, UserKeeps
  <2>2. (Sound' <=> Sound) /\ Book' = Book
    <3>1. Sound' <=> Sound
      BY <2>1, SameOnPage
    <3>. QED
      BY <2>1, <3>1 DEF Book, BookOf
  <2>3. ASSUME PagerOf!Forward \/ PagerOf!Backward \/ Place' = Place
        PROVE  PagerOf!Next \/ UNCHANGED <<Book, Place>>
    <3>1. UNCHANGED (IF Sound THEN [c \in 1 .. tx.count + 1 |-> Chapter(tx, c - 1)] ELSE <<1>>)
      BY <2>2 DEF Book, BookOf
    <3>. QED
      BY <2>2, <2>3, <3>1 DEF PagerOf!Next
  <2>4. CASE ~Sound
    BY <2>2, <2>3, <2>4 DEF Place
  <2>5. CASE Sound
    <3>1. extended = FALSE /\ Normal /\ tx.count > 0 /\ ~AllShown'
      BY <1>1, <2>2, <2>5, SoundChapters DEF AllShown, Sound
    <3>2. CASE Right
      <4>1. Forwards
        BY <1>1, <3>1, <3>2, RightNormal
      <4>. QED
        BY <1>1, <2>1, <2>2, <2>3, <2>5, <3>1, <4>1, RightPages, PagerIs
    <3>3. CASE Left
      <4>1. Backwards
        BY <1>1, <3>1, <3>3, LeftNormal
      <4>. QED
        BY <1>1, <2>1, <2>2, <2>3, <2>5, <3>1, <4>1, LeftPages, PagerIs
    <3>4. CASE Approve \/ Reject
      <4>1. Place' = Place
        BY <2>1, <2>2, <2>5, <3>4 DEF Place, Approve, Reject, Turn
      <4>. QED
        BY <2>3, <4>1
    <3>. QED
      BY <1>5, <3>2, <3>3, <3>4
  <2>. QED
    BY <2>4, <2>5
<1>. QED
  BY <1>3, <1>4, <1>5 DEF Next

\* Where all operations parse a review implements a pager: no page is skipped, repeated or
\* taken from another operation, however the user goes back and forth and whatever was
\* under review before.
THEOREM ReviewIsAPager == Spec => ImplementsPager
<1>1. Init => PagerOf!Init
  <2>. SUFFICES ASSUME Init PROVE PagerOf!Init
    OBVIOUS
  <2>1. tx \in Transactions /\ Place = <<0, 0>>
    BY DEF Init, Place
  <2>2. Sound => tx.count \in 1 .. Len(tx.ops)
    BY DEF Sound
  <2>3. Book \in Seq(Nat \ {0}) /\ Book # <<>>
    BY <2>1, <2>2, BookTyped DEF Book
  <2>. QED
    BY <2>1, <2>3, PagerIs
<1>2. IInv /\ [Next]_vars => [PagerOf!Next]_(PagerOf!pagerVars)
  BY ReviewTurnsPages
<1>. QED
  BY <1>1, <1>2, ReviewInvariant, PTL DEF Spec, ImplementsPager, PagerOf!Spec
=============================================================================
