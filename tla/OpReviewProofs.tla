--------------------------- MODULE OpReviewProofs ---------------------------
(***************************************************************************)
(* That the parser stays within the data and counts its operations, and    *)
(* that what it reads of an operation depends on nothing but the data, for *)
(* all data: whatever is cut off, miscounted or of an unknown type.  That  *)
(* the pages of an operation or of a header never outgrow formatter_stack, *)
(* whatever the parser has left in memory.  And that a header is told by   *)
(* its pages.                                                              *)
(***************************************************************************)
EXTENDS OpReview, NumberProofs, FiniteSetTheorems, TLAPS

LEMMA SizesAreNatural == \A d \in Documents : d.size \in Nat
BY DocumentsOK

(* What a reader does depends only on the words it takes.                   *)

Prefix(a, b) ==
  /\ a \in Seq(Nat) /\ b \in Seq(Nat) /\ Len(a) <= Len(b)
  /\ \A i \in 1 .. Len(a) : a[i] = b[i]

LEMMA SameAhead ==
  ASSUME NEW a, NEW b, Prefix(a, b), NEW n \in Nat, CanRead(a, n)
  PROVE  CanRead(b, n) /\ Ahead(a, n) = Ahead(b, n)
<1>1. a \in Seq(Nat) /\ b \in Seq(Nat) /\ Len(a) \in Nat /\ Len(b) \in Nat
  BY LenProperties DEF Prefix
<1>2. n <= Len(a) /\ n <= Len(b)
  BY <1>1 DEF Prefix, CanRead
<1>3. \A i \in 1 .. n : a[i] = b[i]
  BY <1>1, <1>2 DEF Prefix
<1>4. Ahead(a, n) = [i \in 1 .. n |-> a[i]] /\ Ahead(b, n) = [i \in 1 .. n |-> b[i]]
  BY <1>1, <1>2 DEF Ahead
<1>. QED
  BY <1>2, <1>3, <1>4 DEF CanRead

LEMMA SameWord ==
  ASSUME NEW a, NEW b, Prefix(a, b), CanRead(a, 1)
  PROVE  CanRead(b, 1) /\ a[1] = b[1] /\ a[1] \in Nat
<1>1. Len(a) \in Nat /\ Len(b) \in Nat /\ a \in Seq(Nat)
  BY LenProperties DEF Prefix
<1>. QED
  BY <1>1 DEF Prefix, CanRead

\* What is to be shown of every reader: o is what it does with the words a, p with b.
Settled(a, o, p) == o.ok => p = o /\ o.taken \in 0 .. Len(a)

LEMMA RefusalSettled ==
  ASSUME NEW a, NEW p
  PROVE  Settled(a, Refusal, p)
BY DEF Settled, Refusal

LEMMA DoneSettled ==
  ASSUME NEW a \in Seq(Nat), NEW n \in Nat, CanRead(a, n), NEW calls, NEW fields
  PROVE  Settled(a, Done(n, calls, fields), Done(n, calls, fields))
<1>1. Len(a) \in Nat /\ Done(n, calls, fields).taken = n
  BY DEF Done
<1>. QED
  BY <1>1 DEF Settled, CanRead

LEMMA WordsSettled ==
  ASSUME NEW a, NEW b, Prefix(a, b), NEW c, c.reader \in DOMAIN Size
  PROVE  Settled(a, ReadWords(a, c), ReadWords(b, c))
<1>. DEFINE n == Size[c.reader]
<1>1. n \in Nat
  BY DEF Size
<1>2. a \in Seq(Nat)
  BY DEF Prefix
<1>. HIDE DEF n
<1>3. CASE CanRead(a, n) /\ Accepts(c.reader, Ahead(a, n))
  <2>1. CanRead(b, n) /\ Ahead(b, n) = Ahead(a, n)
    BY <1>1, <1>3, SameAhead
  <2>. DEFINE done == Done(n, <<>>, Written(c.to, IF c.reader = "true" THEN <<1>> ELSE Ahead(a, n)))
  <2>2. ReadWords(a, c) = done /\ ReadWords(b, c) = done
    BY <1>3, <2>1 DEF ReadWords, n
  <2>. QED
    BY <1>1, <1>2, <1>3, <2>2, DoneSettled
<1>4. CASE ~(CanRead(a, n) /\ Accepts(c.reader, Ahead(a, n)))
  <2>1. ReadWords(a, c) = Refusal
    BY <1>4 DEF ReadWords, n
  <2>. QED
    BY <2>1, RefusalSettled
<1>. QED
  BY <1>3, <1>4

LEMMA TextSettled ==
  ASSUME NEW a, NEW b, Prefix(a, b), NEW c, c.reader \in DOMAIN Texts
  PROVE  Settled(a, ReadText(a, c), ReadText(b, c))
<1>. DEFINE t    == Texts[c.reader]
            n    == WordsOf(a[1])
            fits == /\ CanRead(a, 1) /\ a[1] \in t.min .. t.max
                    /\ CanRead(a, n + 1)
                    /\ t.padded => Padded(Ahead(a, n + 1), a[1])
<1>1. a \in Seq(Nat)
  BY DEF Prefix
<1>2. CASE fits
  <2>1. CanRead(b, 1) /\ a[1] = b[1] /\ a[1] \in Nat
    BY <1>2, SameWord
  <2>2. n + 1 \in Nat
    BY <2>1 DEF WordsOf
  <2>3. CanRead(b, n + 1) /\ Ahead(b, n + 1) = Ahead(a, n + 1)
    BY <1>2, <2>2, SameAhead
  <2>. DEFINE done == Done(n + 1, <<>>, Written(c.to, Ahead(a, n + 1)))
  <2>4. ReadText(a, c) = done
    BY <1>2 DEF ReadText
  <2>5. ReadText(b, c) = done
    BY <1>2, <2>1, <2>3 DEF ReadText
  <2>. QED
    BY <1>1, <1>2, <2>2, <2>4, <2>5, DoneSettled
<1>3. CASE ~fits
  <2>1. ReadText(a, c) = Refusal
    BY <1>3 DEF ReadText
  <2>. QED
    BY <2>1, RefusalSettled
<1>. QED
  BY <1>2, <1>3

LEMMA UnionSettled ==
  ASSUME NEW a, NEW b, Prefix(a, b), NEW c
  PROVE  Settled(a, ReadUnion(a, c), ReadUnion(b, c))
<1>1. a \in Seq(Nat)
  BY DEF Prefix
<1>2. CASE CanRead(a, 1) /\ Narrow(c.reader, a[1]) \in DOMAIN Unions[c.reader]
  <2>1. CanRead(b, 1) /\ a[1] = b[1]
    BY <1>2, SameWord
  <2>2. ReadUnion(b, c) = ReadUnion(a, c)
    BY <1>2, <2>1 DEF ReadUnion
  <2>3. \E calls, fields : ReadUnion(a, c) = Done(1, calls, fields)
    BY <1>2, Zenon DEF ReadUnion
  <2>. QED
    BY <1>1, <1>2, <2>2, <2>3, DoneSettled
<1>3. CASE ~(CanRead(a, 1) /\ Narrow(c.reader, a[1]) \in DOMAIN Unions[c.reader])
  <2>1. ReadUnion(a, c) = Refusal
    BY <1>3 DEF ReadUnion
  <2>. QED
    BY <2>1, RefusalSettled
<1>. QED
  BY <1>2, <1>3

LEMMA ArraySettled ==
  ASSUME NEW a, NEW b, Prefix(a, b), NEW c
  PROVE  Settled(a, ReadArray(a, c), ReadArray(b, c))
<1>1. a \in Seq(Nat)
  BY DEF Prefix
<1>2. CASE CanRead(a, 1) /\ a[1] <= Arrays[c.reader].max
  <2>1. CanRead(b, 1) /\ a[1] = b[1]
    BY <1>2, SameWord
  <2>2. ReadArray(b, c) = ReadArray(a, c)
    BY <1>2, <2>1 DEF ReadArray
  <2>3. \E calls, fields : ReadArray(a, c) = Done(1, calls, fields)
    BY <1>2, Zenon DEF ReadArray
  <2>. QED
    BY <1>1, <1>2, <2>2, <2>3, DoneSettled
<1>3. CASE ~(CanRead(a, 1) /\ a[1] <= Arrays[c.reader].max)
  <2>1. ReadArray(a, c) = Refusal
    BY <1>3 DEF ReadArray
  <2>. QED
    BY <2>1, RefusalSettled
<1>. QED
  BY <1>2, <1>3

LEMMA OptionalSettled ==
  ASSUME NEW a, NEW b, Prefix(a, b), NEW c
  PROVE  Settled(a, ReadOptional(a, c), ReadOptional(b, c))
<1>1. a \in Seq(Nat)
  BY DEF Prefix
<1>2. CASE CanRead(a, 1) /\ a[1] \in {0, 1}
  <2>1. CanRead(b, 1) /\ a[1] = b[1]
    BY <1>2, SameWord
  <2>2. ReadOptional(b, c) = ReadOptional(a, c)
    BY <1>2, <2>1 DEF ReadOptional
  <2>3. \E calls, fields : ReadOptional(a, c) = Done(1, calls, fields)
    BY <1>2, Zenon DEF ReadOptional
  <2>. QED
    BY <1>1, <1>2, <2>2, <2>3, DoneSettled
<1>3. CASE ~(CanRead(a, 1) /\ a[1] \in {0, 1})
  <2>1. ReadOptional(a, c) = Refusal
    BY <1>3 DEF ReadOptional
  <2>. QED
    BY <2>1, RefusalSettled
<1>. QED
  BY <1>2, <1>3

LEMMA StructSettled ==
  ASSUME NEW a \in Seq(Nat), NEW c
  PROVE  Settled(a, CallStruct(c), CallStruct(c))
<1>1. CanRead(a, 0)
  BY LenProperties DEF CanRead
<1>. QED
  BY <1>1, DoneSettled DEF CallStruct

\* What a reader does with some words it also does if there are more.
LEMMA MoreIsTheSame ==
  ASSUME NEW a, NEW b, Prefix(a, b), NEW c, Outcome(a, c).ok
  PROVE  Outcome(b, c) = Outcome(a, c) /\ Outcome(a, c).taken \in 0 .. Len(a)
<1>0. a \in Seq(Nat)
  BY DEF Prefix
<1>1. Settled(a, Outcome(a, c), Outcome(b, c))
  <2>1. CASE c.optional
    BY <2>1, OptionalSettled DEF Outcome
  <2>2. CASE ~c.optional /\ c.reader \in DOMAIN Size
    BY <2>2, WordsSettled DEF Outcome
  <2>3. CASE ~c.optional /\ c.reader \notin DOMAIN Size
    BY <1>0, <2>3, TextSettled, UnionSettled, ArraySettled, StructSettled, RefusalSettled
    DEF Outcome
  <2>. QED
    BY <2>1, <2>2, <2>3
<1>. QED
  BY <1>1 DEF Settled
-----------------------------------------------------------------------------
(* Readings as runs.                                                        *)

State(p, t, f) == [pos |-> p, todo |-> t, details |-> f]

OutcomeAt(d, s) == Outcome(Left(d, s.pos), Head(s.todo))
Goes(d, s) == s.pos \in 0 .. d.size /\ s.todo # <<>> /\ OutcomeAt(d, s).ok
Turn(d, s) ==
  State(s.pos + OutcomeAt(d, s).taken, OutcomeAt(d, s).calls \o Tail(s.todo),
        OutcomeAt(d, s).fields ++ Kept(Head(s.todo), s.details))

IsReading(d, s, t, n, h) ==
  /\ n \in Nat /\ h[0] = s /\ h[n] = t
  /\ \A i \in Nat : i < n => Goes(d, h[i]) /\ h[i + 1] = Turn(d, h[i])

\* A parser that starts in s comes to t.
Reaches(d, s, t) == \E n, h : IsReading(d, s, t, n, h)

LEMMA ReachesItself ==
  ASSUME NEW d, NEW s
  PROVE  Reaches(d, s, s)
<1>. DEFINE h == [i \in {0} |-> s]
<1>1. h[0] = s
  OBVIOUS
<1>. HIDE DEF h
<1>2. IsReading(d, s, s, 0, h)
  BY <1>1 DEF IsReading
<1>. QED
  BY <1>2 DEF Reaches

LEMMA ReachesMore ==
  ASSUME NEW d, NEW s, NEW t, Reaches(d, s, t), Goes(d, t)
  PROVE  Reaches(d, s, Turn(d, t))
<1>1. PICK n, h : IsReading(d, s, t, n, h)
  BY DEF Reaches
<1>2. n \in Nat /\ h[0] = s /\ h[n] = t
  BY <1>1 DEF IsReading
<1>. DEFINE last == Turn(d, t)
            g    == [i \in 0 .. n + 1 |-> IF i = n + 1 THEN last ELSE h[i]]
<1>. HIDE DEF last
<1>3. \A i \in Nat : i <= n => g[i] = h[i]
  BY <1>2
<1>4. g[n + 1] = last
  BY <1>2
<1>. HIDE DEF g
<1>5. ASSUME NEW i \in Nat, i < n + 1 PROVE Goes(d, g[i]) /\ g[i + 1] = Turn(d, g[i])
  <2>1. CASE i = n
    <3>1. g[i] = t /\ g[i + 1] = last
      BY <1>2, <1>3, <1>4, <2>1
    <3>. QED
      BY <3>1 DEF last
  <2>2. CASE i # n
    <3>1. i < n /\ i <= n /\ i + 1 <= n /\ i + 1 \in Nat
      BY <1>2, <1>5, <2>2
    <3>2. g[i] = h[i] /\ g[i + 1] = h[i + 1]
      BY <1>3, <3>1
    <3>. QED
      BY <1>1, <3>1, <3>2 DEF IsReading
  <2>. QED
    BY <2>1, <2>2
<1>6. n + 1 \in Nat /\ g[0] = s
  BY <1>2, <1>3
<1>7. IsReading(d, s, last, n + 1, g)
  BY <1>4, <1>5, <1>6 DEF IsReading
<1>. QED
  BY <1>7 DEF Reaches, last

LEMMA ReadingsAgree ==
  ASSUME NEW d, NEW s, NEW t, NEW u, NEW n, NEW m, NEW g, NEW h,
         IsReading(d, s, t, n, g), IsReading(d, s, u, m, h)
  PROVE  \A i \in Nat : i <= n /\ i <= m => g[i] = h[i]
<1>. DEFINE S == {i \in Nat : i <= n /\ i <= m => g[i] = h[i]}
<1>0. n \in Nat /\ m \in Nat
  BY DEF IsReading
<1>1. 0 \in S
  BY DEF IsReading
<1>2. ASSUME NEW i \in Nat, i \in S PROVE i + 1 \in S
  <2>1. SUFFICES ASSUME i + 1 <= n, i + 1 <= m PROVE g[i + 1] = h[i + 1]
    OBVIOUS
  <2>2. i < n /\ i < m /\ i <= n /\ i <= m
    BY <1>0, <2>1
  <2>3. g[i] = h[i]
    BY <1>2, <2>2
  <2>4. g[i + 1] = Turn(d, g[i]) /\ h[i + 1] = Turn(d, h[i])
    BY <2>2, Zenon DEF IsReading
  <2>. QED
    BY <2>3, <2>4, Zenon
<1>. HIDE DEF S
<1>3. \A i \in Nat : i \in S
  BY <1>1, <1>2, Induction
<1>. QED
  BY <1>3 DEF S

\* A reading of an operation has one end.
LEMMA OneEnd ==
  ASSUME NEW d, NEW s, NEW t, NEW u,
         Reaches(d, s, t), Reaches(d, s, u), t.todo = <<>>, u.todo = <<>>
  PROVE  t = u
<1>1. PICK n, g : IsReading(d, s, t, n, g)
  BY DEF Reaches
<1>2. PICK m, h : IsReading(d, s, u, m, h)
  BY DEF Reaches
<1>3. n \in Nat /\ m \in Nat /\ g[n] = t /\ h[m] = u
  BY <1>1, <1>2 DEF IsReading
<1>4. \A i \in Nat : i <= n /\ i <= m => g[i] = h[i]
  BY <1>1, <1>2, ReadingsAgree
<1>5. ~(n < m)
  <2>1. SUFFICES ASSUME n < m PROVE FALSE
    OBVIOUS
  <2>2. Goes(d, h[n])
    BY <1>2, <1>3, <2>1 DEF IsReading
  <2>3. h[n] = t
    BY <1>3, <1>4, <2>1
  <2>. QED
    BY <2>2, <2>3 DEF Goes
<1>6. ~(m < n)
  <2>1. SUFFICES ASSUME m < n PROVE FALSE
    OBVIOUS
  <2>2. Goes(d, g[m])
    BY <1>1, <1>3, <2>1 DEF IsReading
  <2>3. g[m] = u
    BY <1>3, <1>4, <2>1
  <2>. QED
    BY <2>2, <2>3 DEF Goes
<1>7. n = m /\ n <= n
  BY <1>3, <1>5, <1>6
<1>. QED
  BY <1>3, <1>4, <1>7

HasWords(d) == d.words \in Seq(Nat) /\ d.size \in 0 .. Len(d.words)

LEMMA DocumentsHaveWords == \A d \in Documents : HasWords(d)
BY DocumentsOK DEF HasWords

LEMMA WordsAreCounted ==
  ASSUME NEW d, HasWords(d)
  PROVE  d.size \in Nat /\ Len(d.words) \in Nat
BY LenProperties DEF HasWords

\* There is more of e than of d.
Extends(e, d) ==
  /\ HasWords(d) /\ HasWords(e)
  /\ e.size >= d.size /\ Start(e, d.size) = Start(d, d.size)

LEMMA ExtendsItself ==
  ASSUME NEW d, HasWords(d)
  PROVE  Extends(d, d)
BY WordsAreCounted DEF Extends

LEMMA MoreIsLeft ==
  ASSUME NEW d, NEW e, Extends(e, d), NEW p \in 0 .. d.size
  PROVE  Prefix(Left(d, p), Left(e, p))
<1>1. /\ d.words \in Seq(Nat) /\ d.size \in 0 .. Len(d.words)
      /\ e.words \in Seq(Nat) /\ e.size \in 0 .. Len(e.words) /\ e.size >= d.size
  BY DEF Extends, HasWords
<1>. DEFINE n == d.size
            m == e.size
            a == d.words
            b == e.words
<1>2. SubSeq(b, 1, n) = SubSeq(a, 1, n)
  BY DEF Extends, Start
<1>3. Len(a) \in Nat /\ Len(b) \in Nat
  BY <1>1, LenProperties
<1>4. a \in Seq(Nat) /\ b \in Seq(Nat) /\ n \in Nat /\ m \in Nat /\ n <= Len(a) /\ m <= Len(b) /\ n <= m
  BY <1>1, <1>3
<1>5. p \in Nat /\ p <= n
  BY <1>4
<1>. HIDE DEF n, m, a, b
<1>6. \A i \in 1 .. n : b[i] = a[i]
  <2>1. SubSeq(b, 1, n) = [i \in 1 .. n |-> b[i]] /\ SubSeq(a, 1, n) = [i \in 1 .. n |-> a[i]]
    BY <1>3, <1>4
  <2>. QED
    BY <1>2, <2>1
<1>7. /\ SubSeq(a, p + 1, n) \in Seq(Nat) /\ SubSeq(b, p + 1, m) \in Seq(Nat)
      /\ Len(SubSeq(a, p + 1, n)) = n - p /\ Len(SubSeq(b, p + 1, m)) = m - p
      /\ \A i \in 1 .. n - p : SubSeq(a, p + 1, n)[i] = a[p + i]
      /\ \A i \in 1 .. m - p : SubSeq(b, p + 1, m)[i] = b[p + i]
  BY <1>3, <1>4, <1>5
<1>8. Left(d, p) = SubSeq(a, p + 1, n) /\ Left(e, p) = SubSeq(b, p + 1, m)
  BY DEF Left, a, b, n, m
<1>9. \A i \in 1 .. n - p : p + i \in 1 .. n /\ i \in 1 .. m - p
  BY <1>4, <1>5
<1>. QED
  BY <1>4, <1>5, <1>6, <1>7, <1>8, <1>9 DEF Prefix

LEMMA GoesOn ==
  ASSUME NEW d, NEW e, Extends(e, d), NEW s, Goes(d, s)
  PROVE  Goes(e, s) /\ Turn(e, s) = Turn(d, s)
<1>1. Prefix(Left(d, s.pos), Left(e, s.pos))
  BY MoreIsLeft DEF Goes
<1>2. OutcomeAt(e, s) = OutcomeAt(d, s)
  BY <1>1, MoreIsTheSame DEF OutcomeAt, Goes
<1>3. s.pos \in 0 .. e.size
  BY WordsAreCounted DEF Goes, Extends
<1>. QED
  BY <1>2, <1>3, Zenon DEF Goes, Turn

LEMMA ReachesThen ==
  ASSUME NEW d, NEW e, Extends(e, d), NEW s, NEW t, Reaches(d, s, t)
  PROVE  Reaches(e, s, t)
<1>1. PICK n, h : IsReading(d, s, t, n, h)
  BY DEF Reaches
<1>2. ASSUME NEW i \in Nat, i < n PROVE Goes(e, h[i]) /\ h[i + 1] = Turn(e, h[i])
  <2>1. Goes(d, h[i]) /\ h[i + 1] = Turn(d, h[i])
    BY <1>1, <1>2, Zenon DEF IsReading
  <2>. QED
    BY <2>1, GoesOn
<1>3. IsReading(e, s, t, n, h)
  BY <1>1, <1>2 DEF IsReading
<1>. QED
  BY <1>3 DEF Reaches

LEMMA TurnsForward ==
  ASSUME NEW d, HasWords(d), NEW s, Goes(d, s)
  PROVE  OutcomeAt(d, s).taken \in Nat /\ Turn(d, s).pos \in s.pos .. d.size
<1>1. Extends(d, d)
  BY ExtendsItself
<1>2. Prefix(Left(d, s.pos), Left(d, s.pos))
  BY <1>1, MoreIsLeft DEF Goes
<1>3. OutcomeAt(d, s).taken \in 0 .. Len(Left(d, s.pos))
  BY <1>2, MoreIsTheSame DEF OutcomeAt, Goes
<1>4. /\ s.pos \in 0 .. d.size /\ d.size \in 0 .. Len(d.words) /\ Len(d.words) \in Nat
      /\ d.words \in Seq(Nat)
  BY WordsAreCounted DEF Goes, HasWords
<1>5. Len(Left(d, s.pos)) = d.size - s.pos
  BY <1>4 DEF Left
<1>. DEFINE n == OutcomeAt(d, s).taken
<1>6. Turn(d, s).pos = s.pos + n
  BY DEF Turn, State
<1>. HIDE DEF n
<1>7. n \in 0 .. d.size - s.pos
  BY <1>3, <1>5 DEF n
<1>. QED
  BY <1>4, <1>6, <1>7 DEF n
-----------------------------------------------------------------------------
(* The parser's steps.                                                      *)

Now == State(pos, todo, details)

LEMMA StepIsTurn ==
  ASSUME TypeOK, Step
  PROVE  /\ UNCHANGED <<doc, offset, opIndex, read>>
         /\ \/ Goes(doc, Now) /\ Now' = Turn(doc, Now) /\ status' = "reading"
            \/ status' \in {"failed", "thrown"} /\ UNCHANGED <<pos, details>>
<1>. DEFINE c == Head(todo)
            o == Outcome(Left(doc, pos), c)
<1>1. status = "reading" /\ todo # <<>> /\ UNCHANGED <<doc, offset, opIndex, read>>
  BY DEF Step
<1>2. Now.pos = pos /\ Now.todo = todo /\ Now.details = details /\ OutcomeAt(doc, Now) = o
  BY DEF Now, State, OutcomeAt
<1>3. CASE o.ok /\ Proceed(c, o)
  <2>1. Now' = Turn(doc, Now)
    BY <1>2, <1>3, Zenon DEF Now, Turn, Proceed
  <2>2. Goes(doc, Now)
    BY <1>1, <1>2, <1>3 DEF Goes, TypeOK
  <2>. QED
    BY <1>1, <1>3, <2>1, <2>2 DEF Proceed
<1>4. CASE Fail(c)
  BY <1>1, <1>4 DEF Fail
<1>. QED
  BY <1>1, <1>3, <1>4 DEF Step

LEMMA StepStays ==
  ASSUME TypeOK, Step
  PROVE  TypeOK'
<1>1. CASE Goes(doc, Now) /\ Now' = Turn(doc, Now) /\ status' = "reading"
  <2>1. Turn(doc, Now).pos \in pos .. doc.size
    BY <1>1, TurnsForward, DocumentsHaveWords DEF TypeOK, Now, State
  <2>2. pos' = Turn(doc, Now).pos
    BY <1>1 DEF Now, State
  <2>. QED
    BY <1>1, <2>1, <2>2, SizesAreNatural, StepIsTurn DEF TypeOK, Statuses
<1>2. CASE status' \in {"failed", "thrown"} /\ UNCHANGED <<pos, details>>
  BY <1>2, StepIsTurn DEF TypeOK, Statuses
<1>. QED
  BY <1>1, <1>2, StepIsTurn

LEMMA EndStays ==
  ASSUME TypeOK, End
  PROVE  TypeOK'
<1>1. DOMAIN read' = DOMAIN read \cup {offset}
  BY DEF End, Noted
<1>. QED
  BY <1>1 DEF End, TypeOK, Statuses, IndexWidth

\* No reader goes beyond what the host has sent (buffer_can_read before every
\* buffer_advance), for any document.
THEOREM StaysInside == Spec => []TypeOK
<1>1. Init => TypeOK
  BY SizesAreNatural DEF Init, TypeOK, Statuses, IndexWidth
<1>2. ASSUME TypeOK, [Next]_vars
      PROVE  TypeOK'
  <2>1. CASE Begin
    BY <1>2, <2>1 DEF Begin, TypeOK, Statuses, IndexWidth
  <2>2. CASE Step
    BY <1>2, <2>2, StepStays
  <2>3. CASE End
    BY <1>2, <2>3, EndStays
  <2>4. CASE Rewind
    BY <1>2, <2>4, SizesAreNatural DEF Rewind, TypeOK, IndexWidth
  <2>5. CASE Restart
    BY <1>2, <2>5, SizesAreNatural DEF Restart, TypeOK
  <2>6. CASE Load
    BY <1>2, <2>6, SizesAreNatural DEF Load, TypeOK, Statuses, IndexWidth
  <2>7. CASE Extend
    BY <1>2, <2>7, SizesAreNatural DEF Extend, TypeOK, Statuses
  <2>8. CASE UNCHANGED vars
    BY <1>2, <2>8 DEF vars, TypeOK
  <2>. QED
    BY <1>2, <2>1, <2>2, <2>3, <2>4, <2>5, <2>6, <2>7, <2>8 DEF Next
<1>. QED
  BY <1>1, <1>2, PTL DEF Spec
-----------------------------------------------------------------------------
(* The grammar is one: every path is a sequence, and so is every list of    *)
(* calls.                                                                   *)

IsSequence(s) == \E S : s \in Seq(S)

AreCalls(S)  == \A c \in S : IsSequence(c.to)
IsList(cs)   == \E S : cs \in Seq(S) /\ AreCalls(S)
AreLists(F)  == \A t \in DOMAIN F : IsList(F[t])

LEMMA ShortSequences ==
  ASSUME NEW a
  PROVE  IsSequence(<<>>) /\ IsSequence(<<a>>) /\ \A b : IsSequence(<<a, b>>)
<1>1. <<>> \in Seq({})
  OBVIOUS
<1>2. <<a>> \in Seq({a})
  OBVIOUS
<1>3. ASSUME NEW b PROVE <<a, b>> \in Seq({a, b})
  OBVIOUS
<1>. QED
  BY <1>1, <1>2, <1>3 DEF IsSequence

LEMMA CallsHavePaths ==
  ASSUME NEW f, NEW g, NEW r
  PROVE  /\ IsSequence(Read(f, r).to) /\ IsSequence(Inline(r).to) /\ IsSequence(Local(r).to)
         /\ IsSequence(Option(f, r).to) /\ IsSequence(Call(<<f, g>>, r).to)
BY ShortSequences DEF Read, Inline, Local, Option, Call, Scratch

LEMMA ListOf ==
  ASSUME NEW S, NEW cs \in Seq(S), AreCalls(S)
  PROVE  IsList(cs)
BY DEF IsList

LEMMA EmptyList == IsList(<<>>)
<1>1. AreCalls({})
  BY DEF AreCalls
<1>2. <<>> \in Seq({})
  OBVIOUS
<1>. QED
  BY <1>1, <1>2, ListOf

LEMMA ListOf1 ==
  ASSUME NEW a,
         IsSequence(a.to)
  PROVE  IsList(<<a>>)
<1>1. AreCalls({a})
  BY DEF AreCalls
<1>2. <<a>> \in Seq({a})
  OBVIOUS
<1>. QED
  BY <1>1, <1>2, ListOf

LEMMA ListOf2 ==
  ASSUME NEW a, NEW b,
         IsSequence(a.to), IsSequence(b.to)
  PROVE  IsList(<<a, b>>)
<1>1. AreCalls({a, b})
  BY DEF AreCalls
<1>2. <<a, b>> \in Seq({a, b})
  OBVIOUS
<1>. QED
  BY <1>1, <1>2, ListOf

LEMMA ListOf3 ==
  ASSUME NEW a, NEW b, NEW c,
         IsSequence(a.to), IsSequence(b.to), IsSequence(c.to)
  PROVE  IsList(<<a, b, c>>)
<1>1. AreCalls({a, b, c})
  BY DEF AreCalls
<1>2. <<a, b, c>> \in Seq({a, b, c})
  OBVIOUS
<1>. QED
  BY <1>1, <1>2, ListOf

LEMMA ListOf4 ==
  ASSUME NEW a, NEW b, NEW c, NEW d,
         IsSequence(a.to), IsSequence(b.to), IsSequence(c.to), IsSequence(d.to)
  PROVE  IsList(<<a, b, c, d>>)
<1>1. AreCalls({a, b, c, d})
  BY DEF AreCalls
<1>2. <<a, b, c, d>> \in Seq({a, b, c, d})
  OBVIOUS
<1>. QED
  BY <1>1, <1>2, ListOf

LEMMA ListOf5 ==
  ASSUME NEW a, NEW b, NEW c, NEW d, NEW e,
         IsSequence(a.to), IsSequence(b.to), IsSequence(c.to), IsSequence(d.to),
         IsSequence(e.to)
  PROVE  IsList(<<a, b, c, d, e>>)
<1>1. AreCalls({a, b, c, d, e})
  BY DEF AreCalls
<1>2. <<a, b, c, d, e>> \in Seq({a, b, c, d, e})
  OBVIOUS
<1>. QED
  BY <1>1, <1>2, ListOf

LEMMA ListOf6 ==
  ASSUME NEW a, NEW b, NEW c, NEW d, NEW e, NEW f,
         IsSequence(a.to), IsSequence(b.to), IsSequence(c.to), IsSequence(d.to),
         IsSequence(e.to), IsSequence(f.to)
  PROVE  IsList(<<a, b, c, d, e, f>>)
<1>1. AreCalls({a, b, c, d, e, f})
  BY DEF AreCalls
<1>2. <<a, b, c, d, e, f>> \in Seq({a, b, c, d, e, f})
  OBVIOUS
<1>. QED
  BY <1>1, <1>2, ListOf

LEMMA ListOf9 ==
  ASSUME NEW a, NEW b, NEW c, NEW d, NEW e, NEW f, NEW g, NEW h, NEW i,
         IsSequence(a.to), IsSequence(b.to), IsSequence(c.to), IsSequence(d.to),
         IsSequence(e.to), IsSequence(f.to), IsSequence(g.to), IsSequence(h.to), IsSequence(i.to)
  PROVE  IsList(<<a, b, c, d, e, f, g, h, i>>)
<1>1. AreCalls({a, b, c, d, e, f, g, h, i})
  BY DEF AreCalls
<1>2. <<a, b, c, d, e, f, g, h, i>> \in Seq({a, b, c, d, e, f, g, h, i})
  OBVIOUS
<1>. QED
  BY <1>1, <1>2, ListOf

LEMMA ListsTogether ==
  ASSUME NEW a, NEW b, IsList(a), IsList(b)
  PROVE  IsList(a \o b)
<1>1. PICK S : a \in Seq(S) /\ AreCalls(S)
  BY DEF IsList
<1>2. PICK T : b \in Seq(T) /\ AreCalls(T)
  BY DEF IsList
<1>3. a \in Seq(S \cup T) /\ b \in Seq(S \cup T)
  BY <1>1, <1>2, SeqMonotonic
<1>4. a \o b \in Seq(S \cup T)
  BY <1>3, ConcatProperties
<1>5. AreCalls(S \cup T)
  BY <1>1, <1>2 DEF AreCalls
<1>. QED
  BY <1>4, <1>5, ListOf

LEMMA ListsOn ==
  ASSUME NEW t, NEW cs, IsList(cs)
  PROVE  AreLists(On(t, cs))
BY DEF AreLists, On

LEMMA ListsOver ==
  ASSUME NEW F, NEW G, AreLists(F), AreLists(G)
  PROVE  AreLists(F ++ G)
BY DEF AreLists, ++

LEMMA ArmsOfAccountsAndAssets ==
  /\ AreLists(MuxedAccount) /\ AreLists(SignerKey) /\ AreLists(Asset)
  /\ AreLists(TrustLineAsset) /\ AreLists(ChangeTrustAsset)
  /\ AreLists(LiquidityPoolParameters) /\ AreLists(ClaimableBalanceId)
<1>. USE CallsHavePaths, EmptyList, ListOf1, ListOf2, ListOf3, ListsOn, ListsOver
<1>1. AreLists(MuxedAccount)
  BY Zenon DEF MuxedAccount
<1>2. AreLists(SignerKey)
  BY Zenon DEF SignerKey
<1>3. AreLists(Asset)
  BY Zenon DEF Asset
<1>4. AreLists(TrustLineAsset)
  BY <1>3, Zenon DEF TrustLineAsset
<1>5. AreLists(ChangeTrustAsset)
  BY <1>3, Zenon DEF ChangeTrustAsset
<1>6. AreLists(LiquidityPoolParameters)
  BY Zenon DEF LiquidityPoolParameters
<1>7. AreLists(ClaimableBalanceId)
  BY Zenon DEF ClaimableBalanceId
<1>. QED
  BY <1>1, <1>2, <1>3, <1>4, <1>5, <1>6, <1>7

LEMMA ArmsOfOperations ==
  /\ AreLists(AllowTrustAsset) /\ AreLists(ClaimPredicate) /\ AreLists(PredicatePair)
  /\ AreLists(Claimant) /\ AreLists(LedgerKey) /\ AreLists(RevokeSponsorship)
  /\ AreLists(Body) /\ AreLists(HomeDomain) /\ AreLists(DataValue)
<1>. USE CallsHavePaths, EmptyList, ListOf1, ListOf2, ListOf3, ListsOn, ListsOver
<1>1. AreLists(AllowTrustAsset)
  BY Zenon DEF AllowTrustAsset
<1>2. AreLists(ClaimPredicate)
  <2>. DEFINE perhaps == [reader |-> "claim_predicate", to |-> Scratch, optional |-> TRUE]
  <2>1. IsSequence(perhaps.to)
    BY ShortSequences DEF Scratch
  <2>. HIDE DEF perhaps
  <2>2. IsList(<<perhaps>>)
    BY <2>1, ListOf1
  <2>. QED
    BY <2>2, Zenon DEF ClaimPredicate, perhaps
<1>3. AreLists(PredicatePair)
  BY Zenon DEF PredicatePair
<1>4. AreLists(Claimant)
  BY Zenon DEF Claimant
<1>5. AreLists(LedgerKey)
  <2>1. /\ IsList(<<Read("account_id", "account_id")>>)
        /\ IsList(<<Read("account_id", "account_id"), Read("asset", "trust_line_asset")>>)
        /\ IsList(<<Read("seller_id", "account_id"), Read("offer_id", "u64")>>)
        /\ IsList(<<Read("account_id", "account_id"), Read("data_name", "data_name")>>)
        /\ IsList(<<Read("balance_id", "claimable_balance_id")>>)
        /\ IsList(<<Read("liquidity_pool_id", "key")>>)
    BY Zenon
  <2>. QED
    BY <2>1, ListsOn, ListsOver, Zenon DEF LedgerKey
<1>6. AreLists(RevokeSponsorship)
  BY Zenon DEF RevokeSponsorship
<1>7. AreLists(Body)
  BY DEF Body, AreLists
<1>8. AreLists(HomeDomain) /\ AreLists(DataValue)
  BY Zenon DEF HomeDomain, DataValue
<1>. QED
  BY <1>1, <1>2, <1>3, <1>4, <1>5, <1>6, <1>7, <1>8

LEMMA ArmsOfHeaders ==
  /\ AreLists(Memo) /\ AreLists(EnvelopeType) /\ AreLists(InnerEnvelope)
  /\ AreLists(Preconditions)
<1>. USE CallsHavePaths, EmptyList, ListOf1, ListOf2, ListOf4, ListOf6, ListsOn, ListsOver
<1>1. AreLists(Memo)
  BY Zenon DEF Memo
<1>2. AreLists(EnvelopeType) /\ AreLists(InnerEnvelope)
  BY Zenon DEF EnvelopeType, InnerEnvelope
<1>3. AreLists(Preconditions)
  <2>. DEFINE absent(f) == Call(<<f, "present">>, "zero")
              newer == <<absent("min_seq_num"), absent("ledger_bounds"),
                         Read("min_seq_ledger_gap", "zero"), Read("min_seq_age", "zero")>>
              old   == <<Call(<<"time_bounds", "present">>, "true"),
                         Read("time_bounds", "time_bounds")>>
              all   == <<Option("time_bounds", "time_bounds"), Option("ledger_bounds", "ledger_bounds"),
                         Option("min_seq_num", "u64"), Read("min_seq_age", "u64"),
                         Read("min_seq_ledger_gap", "u32"), Local("extra_signers")>>
  <2>1. IsList(newer)
    BY Zenon
  <2>2. IsList(<<absent("time_bounds")>>) /\ IsList(old) /\ IsList(all)
    BY Zenon
  <2>. DEFINE none == <<absent("time_bounds")>>
  <2>3. Preconditions = On(0, none \o newer) ++ On(1, old \o newer) ++ On(2, all)
    BY DEF Preconditions
  <2>4. IsList(none)
    BY <2>2
  <2>. HIDE DEF absent, newer, old, all, none
  <2>5. IsList(none \o newer) /\ IsList(old \o newer)
    BY <2>1, <2>2, <2>4, ListsTogether
  <2>. QED
    BY <2>2, <2>3, <2>5, ListsOn, ListsOver, Zenon
<1>. QED
  BY <1>1, <1>2, <1>3

LEMMA UnionsHaveLists == \A r \in DOMAIN Unions : AreLists(Unions[r])
<1>1. /\ AreLists(Unions.muxed_account) /\ AreLists(Unions.signer_key)
      /\ AreLists(Unions.asset) /\ AreLists(Unions.trust_line_asset)
      /\ AreLists(Unions.change_trust_asset) /\ AreLists(Unions.claimable_balance_id)
      /\ AreLists(Unions.liquidity_pool_parameters)
  BY ArmsOfAccountsAndAssets, Zenon DEF Unions
<1>2. /\ AreLists(Unions.claimant) /\ AreLists(Unions.ledger_key)
      /\ AreLists(Unions.revoke_sponsorship) /\ AreLists(Unions.body)
      /\ AreLists(Unions.allow_trust_asset) /\ AreLists(Unions.claim_predicate)
      /\ AreLists(Unions.predicate_pair) /\ AreLists(Unions.optional_home_domain)
      /\ AreLists(Unions.optional_data_value)
  BY ArmsOfOperations, Zenon DEF Unions
<1>3. /\ AreLists(Unions.memo) /\ AreLists(Unions.envelope_type)
      /\ AreLists(Unions.preconditions) /\ AreLists(Unions.inner_envelope)
  BY ArmsOfHeaders, Zenon DEF Unions
<1>4. DOMAIN Unions =
        {"muxed_account", "signer_key", "asset", "trust_line_asset", "change_trust_asset",
         "claimable_balance_id", "claimant", "ledger_key", "revoke_sponsorship", "memo", "body",
         "envelope_type", "liquidity_pool_parameters", "preconditions", "allow_trust_asset",
         "claim_predicate", "predicate_pair", "inner_envelope", "optional_home_domain",
         "optional_data_value"}
  BY DEF Unions
<1>. QED
  BY <1>1, <1>2, <1>3, <1>4, Zenon

LEMMA BodiesOfPayments ==
  AreLists(Payments) /\ AreLists(PathPayments) /\ AreLists(Offers)
<1>. USE CallsHavePaths, EmptyList, ListOf1, ListOf2, ListOf3, ListOf6
<1>1. AreLists(Payments)
  <2>1. /\ IsList(Payments.create_account) /\ IsList(Payments.payment)
        /\ IsList(Payments.account_merge) /\ IsList(Payments.inflation)
        /\ IsList(Payments.bump_sequence)
    BY Zenon DEF Payments
  <2>2. DOMAIN Payments =
          {"create_account", "payment", "account_merge", "inflation", "bump_sequence"}
    BY DEF Payments
  <2>. QED
    BY <2>1, <2>2, Zenon DEF AreLists
<1>2. AreLists(PathPayments)
  <2>1. /\ IsList(PathPayments.path_payment_strict_receive)
        /\ IsList(PathPayments.path_payment_strict_send)
    BY Zenon DEF PathPayments
  <2>2. DOMAIN PathPayments = {"path_payment_strict_receive", "path_payment_strict_send"}
    BY DEF PathPayments
  <2>. QED
    BY <2>1, <2>2, Zenon DEF AreLists
<1>3. AreLists(Offers)
  <2>. DEFINE ends   == <<Read("selling", "asset"), Read("buying", "asset")>>
              price  == <<Read("amount", "u64"), Read("price", "price")>>
              sell   == <<Read("amount", "u64"), Read("price", "price"), Read("offer_id", "u64")>>
              buy    == <<Read("buy_amount", "u64"), Read("price", "price"), Read("offer_id", "u64")>>
  <2>1. IsList(ends) /\ IsList(price) /\ IsList(sell) /\ IsList(buy)
    BY Zenon
  <2>2. Offers = [manage_sell_offer |-> ends \o sell, manage_buy_offer |-> ends \o buy,
                  create_passive_sell_offer |-> ends \o price]
    BY DEF Offers
  <2>. HIDE DEF ends, price, sell, buy
  <2>3. IsList(ends \o sell) /\ IsList(ends \o buy) /\ IsList(ends \o price)
    BY <2>1, ListsTogether
  <2>4. \A r \in DOMAIN Offers :
          r \in {"manage_sell_offer", "manage_buy_offer", "create_passive_sell_offer"}
    BY <2>2
  <2>5. /\ Offers["manage_sell_offer"] = ends \o sell
        /\ Offers["manage_buy_offer"] = ends \o buy
        /\ Offers["create_passive_sell_offer"] = ends \o price
    BY <2>2
  <2>. QED
    BY <2>3, <2>4, <2>5, Zenon DEF AreLists
<1>. QED
  BY <1>1, <1>2, <1>3

LEMMA BodiesOfTheRest ==
  AreLists(Trust) /\ AreLists(ClaimableBalances) /\ AreLists(Sponsorship)
  /\ AreLists(Clawbacks) /\ AreLists(LiquidityPools)
<1>. USE CallsHavePaths, EmptyList, ListOf1, ListOf2, ListOf3, ListOf4, ListOf5
<1>1. AreLists(Trust)
  <2>1. IsList(Trust.change_trust) /\ IsList(Trust.allow_trust)
        /\ IsList(Trust.set_trust_line_flags)
    BY Zenon DEF Trust
  <2>2. DOMAIN Trust = {"change_trust", "allow_trust", "set_trust_line_flags"}
    BY DEF Trust
  <2>. QED
    BY <2>1, <2>2, Zenon DEF AreLists
<1>2. AreLists(ClaimableBalances)
  <2>1. IsList(ClaimableBalances.create_claimable_balance)
        /\ IsList(ClaimableBalances.claim_claimable_balance)
    BY Zenon DEF ClaimableBalances
  <2>2. DOMAIN ClaimableBalances = {"create_claimable_balance", "claim_claimable_balance"}
    BY DEF ClaimableBalances
  <2>. QED
    BY <2>1, <2>2, Zenon DEF AreLists
<1>3. AreLists(Sponsorship)
  <2>1. IsList(Sponsorship.begin_sponsoring_future_reserves)
        /\ IsList(Sponsorship.end_sponsoring_future_reserves)
    BY Zenon DEF Sponsorship
  <2>2. DOMAIN Sponsorship =
          {"begin_sponsoring_future_reserves", "end_sponsoring_future_reserves"}
    BY DEF Sponsorship
  <2>. QED
    BY <2>1, <2>2, Zenon DEF AreLists
<1>4. AreLists(Clawbacks)
  <2>1. IsList(Clawbacks.clawback) /\ IsList(Clawbacks.clawback_claimable_balance)
    BY Zenon DEF Clawbacks
  <2>2. DOMAIN Clawbacks = {"clawback", "clawback_claimable_balance"}
    BY DEF Clawbacks
  <2>. QED
    BY <2>1, <2>2, Zenon DEF AreLists
<1>5. AreLists(LiquidityPools)
  <2>1. IsList(LiquidityPools.liquidity_pool_deposit)
        /\ IsList(LiquidityPools.liquidity_pool_withdraw)
    BY Zenon DEF LiquidityPools
  <2>2. DOMAIN LiquidityPools = {"liquidity_pool_deposit", "liquidity_pool_withdraw"}
    BY DEF LiquidityPools
  <2>. QED
    BY <2>1, <2>2, Zenon DEF AreLists
<1>. QED
  BY <1>1, <1>2, <1>3, <1>4, <1>5

LEMMA StructsHaveLists == AreLists(Structs)
<1>. USE CallsHavePaths, ListOf2, ListOf6, ListOf9
<1>. DEFINE rest ==
       [account_id |-> AccountId, price |-> Price, signer |-> Signer, set_options |-> SetOptions,
        manage_data |-> ManageData, operation |-> Operation, time_bounds |-> TimeBounds,
        ledger_bounds |-> LedgerBounds, transaction |-> TransactionDetails, fee_bump |-> FeeBump,
        envelope |-> Envelope]
<1>1. Structs = rest ++ Payments ++ PathPayments ++ Offers ++ Trust ++ ClaimableBalances
                ++ Sponsorship ++ Clawbacks ++ LiquidityPools
  BY Zenon DEF Structs
<1>2. /\ IsList(AccountId) /\ IsList(Price) /\ IsList(Signer) /\ IsList(ManageData)
      /\ IsList(Operation) /\ IsList(TimeBounds) /\ IsList(LedgerBounds) /\ IsList(FeeBump)
      /\ IsList(Envelope)
  BY Zenon DEF AccountId, Price, Signer, ManageData, Operation, TimeBounds, LedgerBounds, FeeBump,
               Envelope
<1>3. IsList(SetOptions)
  BY Zenon DEF SetOptions
<1>4. IsList(TransactionDetails)
  BY Zenon DEF TransactionDetails
<1>5. AreLists(rest)
  BY <1>2, <1>3, <1>4 DEF AreLists
<1>. HIDE DEF rest
<1>. QED
  BY <1>1, <1>5, BodiesOfPayments, BodiesOfTheRest, ListsOver, Zenon
-----------------------------------------------------------------------------
(* A reader that writes in an operation calls others that do.               *)

\* A place in an operation, or nowhere.
InOperation(p) == p = Scratch \/ (IsSequence(p) /\ p # <<>> /\ p[1] = "op")

WriteThere(S) == \A c \in S : InOperation(c.to)

LEMMA StaysThere ==
  ASSUME NEW p, InOperation(p), NEW f, IsSequence(f)
  PROVE  InOperation(Under(p, f))
<1>1. CASE Scratch \in {p, f}
  BY <1>1 DEF Under, InOperation
<1>2. CASE Scratch \notin {p, f}
  <2>1. PICK S : p \in Seq(S)
    BY <1>2 DEF InOperation, IsSequence
  <2>2. PICK T : f \in Seq(T)
    BY DEF IsSequence
  <2>3. p \in Seq(S \cup T) /\ f \in Seq(S \cup T) /\ p # <<>> /\ p[1] = "op"
    BY <1>2, <2>1, <2>2, SeqMonotonic DEF InOperation
  <2>. DEFINE U == S \cup T
  <2>. HIDE DEF U
  <2>4. p \in Seq(U) /\ f \in Seq(U)
    BY <2>3 DEF U
  <2>5. p \o f \in Seq(U) /\ Len(p) \in Nat /\ Len(f) \in Nat /\ Len(p) >= 1
    BY <2>3, <2>4, ConcatProperties, LenProperties, EmptySeq
  <2>6. (p \o f)[1] = p[1] /\ Len(p \o f) = Len(p) + Len(f)
    BY <2>4, <2>5, ConcatProperties
  <2>7. p \o f # <<>>
    BY <2>4, <2>5, <2>6, EmptySeq
  <2>. QED
    BY <1>2, <2>3, <2>5, <2>6, <2>7 DEF InOperation, IsSequence, Under
<1>. QED
  BY <1>1, <1>2

LEMMA WrittenThere ==
  ASSUME NEW p, InOperation(p), NEW v
  PROVE  \A q \in DOMAIN Written(p, v) : q[1] = "op"
<1>1. CASE p = Scratch
  BY <1>1 DEF Written
<1>2. CASE p # Scratch
  BY <1>2 DEF Written, InOperation, On
<1>. QED
  BY <1>1, <1>2

LEMMA CallsThere ==
  ASSUME NEW p, InOperation(p), NEW cs, IsList(cs)
  PROVE  \E S : Calls(p, cs) \in Seq(S) /\ WriteThere(S)
<1>1. PICK T : cs \in Seq(T) /\ AreCalls(T)
  BY DEF IsList
<1>. DEFINE S == {CallUnder(p, c) : c \in T}
<1>2. cs \in [1 .. Len(cs) -> T] /\ Len(cs) \in Nat
  BY <1>1, LenProperties
<1>3. Calls(p, cs) \in [1 .. Len(cs) -> S]
  BY <1>2 DEF Calls
<1>4. Calls(p, cs) \in Seq(S)
  BY <1>2, <1>3
<1>5. ASSUME NEW c \in T PROVE InOperation(CallUnder(p, c).to)
  <2>1. IsSequence(c.to)
    BY <1>1 DEF AreCalls
  <2>. QED
    BY <2>1, StaysThere DEF CallUnder
<1>6. WriteThere(S)
  BY <1>5, Zenon DEF WriteThere
<1>. QED
  BY <1>4, <1>6

\* The fields and the calls of a reader that is not refused.
OnlyThere(o) == /\ \A q \in DOMAIN o.fields : q[1] = "op"
                /\ \E S : o.calls \in Seq(S) /\ WriteThere(S)

LEMMA NothingThere ==
  /\ \A q \in DOMAIN <<>> : q[1] = "op"
  /\ \E S : <<>> \in Seq(S) /\ WriteThere(S)
<1>1. WriteThere({}) /\ <<>> \in Seq({})
  BY DEF WriteThere
<1>. QED
  BY <1>1

LEMMA DoneThere ==
  ASSUME NEW n, NEW calls, NEW fields, NEW S, calls \in Seq(S), WriteThere(S),
         \A q \in DOMAIN fields : q[1] = "op"
  PROVE  OnlyThere(Done(n, calls, fields))
<1>. DEFINE o == Done(n, calls, fields)
<1>1. o.calls = calls /\ o.fields = fields
  BY DEF Done
<1>. HIDE DEF o
<1>2. OnlyThere(o)
  BY <1>1 DEF OnlyThere
<1>. QED
  BY <1>2 DEF o

LEMMA WordsThere ==
  ASSUME NEW left, NEW c, InOperation(c.to), ReadWords(left, c).ok
  PROVE  OnlyThere(ReadWords(left, c))
<1>. DEFINE n == Size[c.reader]
            v == IF c.reader = "true" THEN <<1>> ELSE Ahead(left, n)
<1>1. ReadWords(left, c) = Done(n, <<>>, Written(c.to, v))
  BY Zenon DEF ReadWords, Refusal
<1>. HIDE DEF n, v
<1>. QED
  BY <1>1, WrittenThere, NothingThere, DoneThere

LEMMA TextThere ==
  ASSUME NEW left, NEW c, InOperation(c.to), ReadText(left, c).ok
  PROVE  OnlyThere(ReadText(left, c))
<1>. DEFINE n == WordsOf(left[1]) + 1
            v == Ahead(left, n)
<1>1. ReadText(left, c) = Done(n, <<>>, Written(c.to, v))
  BY Zenon DEF ReadText, Refusal
<1>. HIDE DEF n, v
<1>. QED
  BY <1>1, WrittenThere, NothingThere, DoneThere

LEMMA UnionThere ==
  ASSUME NEW left, NEW c, InOperation(c.to), c.reader \in DOMAIN Unions, ReadUnion(left, c).ok
  PROVE  OnlyThere(ReadUnion(left, c))
<1>. DEFINE type   == Narrow(c.reader, left[1])
            calls  == Calls(c.to, Unions[c.reader][type])
            fields == IF c.reader \in Untagged THEN <<>>
                      ELSE Written(Under(c.to, <<"type">>), <<type>>)
<1>1. type \in DOMAIN Unions[c.reader] /\ ReadUnion(left, c) = Done(1, calls, fields)
  BY Zenon DEF ReadUnion, Refusal
<1>2. IsList(Unions[c.reader][type])
  BY <1>1, UnionsHaveLists DEF AreLists
<1>3. PICK S : calls \in Seq(S) /\ WriteThere(S)
  BY <1>2, CallsThere
<1>4. InOperation(Under(c.to, <<"type">>))
  BY ShortSequences, StaysThere
<1>5. \A q \in DOMAIN fields : q[1] = "op"
  BY <1>4, WrittenThere, NothingThere
<1>. HIDE DEF calls, fields
<1>. QED
  BY <1>1, <1>3, <1>5, DoneThere

LEMMA ArrayThere ==
  ASSUME NEW left, left \in Seq(Nat), NEW c, InOperation(c.to), c.reader \in DOMAIN Arrays,
         ReadArray(left, c).ok
  PROVE  OnlyThere(ReadArray(left, c))
<1>. DEFINE of      == Arrays[c.reader].of
            call(i) == CallUnder(Under(c.to, <<Digits[i]>>), of)
            calls   == [i \in 1 .. left[1] |-> call(i)]
            fields  == Written(Under(c.to, <<"len">>), <<left[1]>>)
            S       == {call(i) : i \in 1 .. left[1]}
<1>1. CanRead(left, 1) /\ ReadArray(left, c) = Done(1, calls, fields)
  BY Zenon DEF ReadArray, Refusal
<1>2. left[1] \in Nat
  BY <1>1, LenProperties DEF CanRead
<1>3. IsSequence(of.to)
  <2>1. IsSequence(Arrays.claimants.of.to) /\ IsSequence(Arrays.extra_signers.of.to)
    BY CallsHavePaths, Zenon DEF Arrays, Claimants, ExtraSigners
  <2>2. DOMAIN Arrays = {"claimants", "extra_signers"}
    BY DEF Arrays
  <2>. QED
    BY <2>1, <2>2, Zenon
<1>4. ASSUME NEW i \in 1 .. left[1] PROVE InOperation(call(i).to)
  <2>1. InOperation(Under(c.to, <<Digits[i]>>))
    BY ShortSequences, StaysThere
  <2>2. InOperation(Under(Under(c.to, <<Digits[i]>>), of.to))
    BY <1>3, <2>1, StaysThere
  <2>. QED
    BY <2>2 DEF CallUnder
<1>5. WriteThere(S)
  BY <1>4, Zenon DEF WriteThere
<1>6. calls \in Seq(S)
  <2>. HIDE DEF call
  <2>. DEFINE n == left[1]
  <2>1. calls \in [1 .. n -> S]
    OBVIOUS
  <2>. HIDE DEF calls, S, n
  <2>2. n \in Nat => [1 .. n -> S] \subseteq Seq(S)
    OBVIOUS
  <2>. QED
    BY <1>2, <2>1, <2>2 DEF n
<1>7. InOperation(Under(c.to, <<"len">>))
  BY ShortSequences, StaysThere
<1>8. \A q \in DOMAIN fields : q[1] = "op"
  BY <1>7, WrittenThere
<1>. HIDE DEF calls, fields, S
<1>. QED
  BY <1>1, <1>5, <1>6, <1>8, DoneThere

LEMMA OptionalThere ==
  ASSUME NEW left, NEW c, InOperation(c.to), ReadOptional(left, c).ok
  PROVE  OnlyThere(ReadOptional(left, c))
<1>. DEFINE call   == Call(c.to, c.reader)
            calls  == IF left[1] = 1 THEN <<call>> ELSE <<>>
            fields == Written(Under(c.to, <<"present">>), <<left[1]>>)
<1>1. ReadOptional(left, c) = Done(1, calls, fields)
  BY Zenon DEF ReadOptional, Refusal
<1>2. WriteThere({call})
  BY DEF WriteThere, Call
<1>3. calls \in Seq({call})
  <2>. HIDE DEF call
  <2>1. <<call>> \in Seq({call}) /\ <<>> \in Seq({call})
    OBVIOUS
  <2>. QED
    BY <2>1
<1>4. InOperation(Under(c.to, <<"present">>))
  BY ShortSequences, StaysThere
<1>5. \A q \in DOMAIN fields : q[1] = "op"
  BY <1>4, WrittenThere
<1>. HIDE DEF calls, fields, call
<1>. QED
  BY <1>1, <1>2, <1>3, <1>5, DoneThere

LEMMA StructThere ==
  ASSUME NEW c, InOperation(c.to), c.reader \in DOMAIN Structs
  PROVE  OnlyThere(CallStruct(c))
<1>. DEFINE calls == Calls(c.to, Structs[c.reader])
<1>1. IsList(Structs[c.reader])
  BY StructsHaveLists DEF AreLists
<1>2. PICK S : calls \in Seq(S) /\ WriteThere(S)
  BY <1>1, CallsThere
<1>. HIDE DEF calls
<1>3. CallStruct(c) = Done(0, calls, <<>>)
  BY DEF CallStruct, calls
<1>. QED
  BY <1>2, <1>3, NothingThere, DoneThere

LEMMA OutcomeThere ==
  ASSUME NEW left \in Seq(Nat), NEW c, InOperation(c.to), Outcome(left, c).ok
  PROVE  OnlyThere(Outcome(left, c))
<1>1. CASE c.optional
  BY <1>1, OptionalThere DEF Outcome
<1>2. CASE ~c.optional /\ c.reader \in DOMAIN Size
  BY <1>2, WordsThere DEF Outcome
<1>3. CASE ~c.optional /\ c.reader \notin DOMAIN Size /\ c.reader \in DOMAIN Texts
  BY <1>3, TextThere DEF Outcome
<1>4. CASE ~c.optional /\ c.reader \notin DOMAIN Size /\ c.reader \notin DOMAIN Texts
  <2>1. ~Refusal.ok
    BY DEF Refusal
  <2>. QED
    BY <1>4, <2>1, UnionThere, ArrayThere, StructThere DEF Outcome
<1>. QED
  BY <1>1, <1>2, <1>3, <1>4
-----------------------------------------------------------------------------
(* What is written.                                                         *)

LEMMA HeaderIsKept ==
  ASSUME NEW c, NEW f, NEW fields, \A q \in DOMAIN fields : q[1] = "op"
  PROVE  Header(fields ++ Kept(c, f)) = Header(f)
<1>1. CASE c.reader = "operation"
  <2>. DEFINE g == fields ++ Header(f)
  <2>1. DOMAIN g = DOMAIN fields \cup {q \in DOMAIN f : q[1] # "op"}
    BY DEF ++, Header
  <2>2. {q \in DOMAIN g : q[1] # "op"} = {q \in DOMAIN f : q[1] # "op"}
    BY <2>1
  <2>3. \A q \in DOMAIN f : q[1] # "op" => g[q] = f[q]
    BY DEF ++, Header
  <2>4. Header(g) = Header(f)
    BY <2>2, <2>3 DEF Header
  <2>. QED
    BY <1>1, <2>4 DEF Kept
<1>2. CASE c.reader # "operation"
  <2>. DEFINE g == fields ++ f
  <2>1. DOMAIN g = DOMAIN fields \cup DOMAIN f
    BY DEF ++
  <2>2. {q \in DOMAIN g : q[1] # "op"} = {q \in DOMAIN f : q[1] # "op"}
    BY <2>1
  <2>3. \A q \in DOMAIN f : q[1] # "op" => g[q] = f[q]
    BY DEF ++
  <2>4. Header(g) = Header(f)
    BY <2>2, <2>3 DEF Header
  <2>. QED
    BY <1>2, <2>4 DEF Kept
<1>. QED
  BY <1>1, <1>2

LEMMA HeaderOfHeader ==
  ASSUME NEW f
  PROVE  Header(Header(f)) = Header(f)
BY DEF Header

\* The fields that are not cleared before a transaction is read.
NotCleared == {<<"network">>, <<"type">>}

\* They make no difference to what is written over them.
LEMMA WrittenOver ==
  ASSUME NEW c, NEW fields, NEW f, NEW e, DOMAIN e \subseteq NotCleared
  PROVE  fields ++ Kept(c, f ++ e) = (fields ++ Kept(c, f)) ++ e
<1>1. \A q \in DOMAIN e : q[1] # "op"
  BY DEF NotCleared
<1>2. Header(f ++ e) = Header(f) ++ e
  BY <1>1 DEF Header, ++
<1>3. \A a, b : fields ++ (a ++ b) = (fields ++ a) ++ b
  BY DEF ++
<1>4. CASE c.reader = "operation"
  BY <1>2, <1>3, <1>4 DEF Kept
<1>5. CASE c.reader # "operation"
  BY <1>3, <1>5 DEF Kept
<1>. QED
  BY <1>4, <1>5

IsAFunction(f) == f = [x \in DOMAIN f |-> f[x]]

LEMMA OverIsAFunction ==
  ASSUME NEW f, NEW g
  PROVE  IsAFunction(f ++ g) /\ DOMAIN (f ++ g) = DOMAIN f \cup DOMAIN g
BY DEF IsAFunction, ++

LEMMA NothingIsLeft ==
  ASSUME NEW f, IsAFunction(f), NEW e, DOMAIN e \subseteq DOMAIN f
  PROVE  f ++ e = f
<1>1. DOMAIN f \cup DOMAIN e = DOMAIN f
  OBVIOUS
<1>2. f ++ e = [x \in DOMAIN f |-> f[x]]
  BY <1>1 DEF ++
<1>. QED
  BY <1>2 DEF IsAFunction
-----------------------------------------------------------------------------
(* The reading under way.                                                   *)

ReadEnvelope  == Inline("envelope")
ReadOperation == Read("op", "operation")

\* A parser with the header H in memory and no operation, about to read at a place.
Beginning(x, H) ==
  IF x = 0 THEN State(0, <<ReadEnvelope, ReadOperation>>, <<>>)
  ELSE State(x, <<ReadOperation>>, H)

\* Where the header is read, up to the fields that were not cleared.
EnvelopeStages(p, t, f) ==
  \/ p = 0 /\ t = <<ReadEnvelope, ReadOperation>>
  \/ p = 0 /\ t = Calls(<<>>, Envelope) \o <<ReadOperation>>
  \/ /\ p > 0 /\ <<"network">> \in DOMAIN f
     /\ t = <<CallUnder(<<>>, Inline("envelope_type")), ReadOperation>>
  \/ p > 0 /\ NotCleared \subseteq DOMAIN f

ReadingHeader(d, p, t, f) ==
  \E g, e :
    /\ f = g ++ e /\ DOMAIN e \subseteq NotCleared
    /\ IsAFunction(g)
    /\ Reaches(d, Beginning(0, <<>>), State(p, t, g))
    /\ EnvelopeStages(p, t, g)

OperationStages(x, p, t) ==
  \/ p = x /\ t = <<ReadOperation>>
  \/ p = x /\ t = Calls(<<"op">>, Operation)
  \/ p > x

ReadingOperation(d, x, H, p, t, f) ==
  /\ \E S : t \in Seq(S) /\ WriteThere(S)
  /\ OperationStages(x, p, t)
  /\ (t = <<ReadOperation>> /\ p = x) \/ Reaches(d, Beginning(x, H), State(p, t, f))

LEMMA FirstCallsOfTheHeader ==
  /\ Calls(<<>>, Envelope) \o <<ReadOperation>> =
       <<CallUnder(<<>>, Read("network", "key")), CallUnder(<<>>, Inline("envelope_type")),
         ReadOperation>>
  /\ CallUnder(<<>>, Read("network", "key")) = Read("network", "key")
  /\ CallUnder(<<>>, Inline("envelope_type")) = Inline("envelope_type")
<1>1. Calls(<<>>, Envelope) =
       <<CallUnder(<<>>, Read("network", "key")), CallUnder(<<>>, Inline("envelope_type"))>>
  BY DEF Calls, Envelope
<1>2. Under(<<>>, <<>>) = <<>> /\ Under(<<>>, <<"network">>) = <<"network">>
  BY DEF Under, Scratch
<1>3. CallUnder(<<>>, Read("network", "key")) = Read("network", "key")
  BY <1>2, Zenon DEF CallUnder, Read, Call
<1>4. CallUnder(<<>>, Inline("envelope_type")) = Inline("envelope_type")
  BY <1>2, Zenon DEF CallUnder, Inline, Call
<1>. DEFINE a == CallUnder(<<>>, Read("network", "key"))
            b == CallUnder(<<>>, Inline("envelope_type"))
<1>. HIDE DEF a, b
<1>5. ASSUME NEW r PROVE <<a, b>> \o <<r>> = <<a, b, r>>
  <2>. DEFINE S == {a, b, r}
  <2>1. <<a, b>> \in Seq(S) /\ <<r>> \in Seq(S) /\ <<a, b, r>> \in Seq(S)
    OBVIOUS
  <2>. HIDE DEF S
  <2>. DEFINE l == <<a, b>> \o <<r>>
              m == <<a, b, r>>
  <2>2. l \in Seq(S) /\ Len(l) = 3 /\ l[1] = a /\ l[2] = b /\ l[3] = r
    BY <2>1
  <2>3. m \in Seq(S) /\ Len(m) = 3 /\ m[1] = a /\ m[2] = b /\ m[3] = r
    BY <2>1
  <2>. HIDE DEF l, m
  <2>4. \A i \in 1 .. 3 : i = 1 \/ i = 2 \/ i = 3
    OBVIOUS
  <2>5. l = m
    BY <2>2, <2>3, <2>4, SeqEqual
  <2>. QED
    BY <2>5 DEF l, m
<1>. QED
  BY <1>1, <1>3, <1>4, <1>5 DEF a, b

LEMMA ReadersOfTheHeader ==
  /\ "envelope" \notin DOMAIN Size /\ "envelope" \notin DOMAIN Texts
  /\ "envelope" \notin DOMAIN Unions /\ "envelope" \notin DOMAIN Arrays
  /\ "envelope" \in DOMAIN Structs /\ Structs["envelope"] = Envelope
  /\ "key" \in DOMAIN Size /\ Size["key"] = 8
  /\ "envelope_type" \notin DOMAIN Size /\ "envelope_type" \notin DOMAIN Texts
  /\ "envelope_type" \in DOMAIN Unions /\ "envelope_type" \notin Untagged
<1>1. "envelope" \in DOMAIN Structs /\ Structs["envelope"] = Envelope
  <2>. DEFINE rest ==
         [account_id |-> AccountId, price |-> Price, signer |-> Signer, set_options |-> SetOptions,
          manage_data |-> ManageData, operation |-> Operation, time_bounds |-> TimeBounds,
          ledger_bounds |-> LedgerBounds, transaction |-> TransactionDetails, fee_bump |-> FeeBump,
          envelope |-> Envelope]
  <2>1. Structs = rest ++ Payments ++ PathPayments ++ Offers ++ Trust ++ ClaimableBalances
                  ++ Sponsorship ++ Clawbacks ++ LiquidityPools
    BY Zenon DEF Structs
  <2>2. "envelope" \in DOMAIN rest /\ rest["envelope"] = Envelope
    OBVIOUS
  <2>. HIDE DEF rest
  <2>. DEFINE Has(f) == "envelope" \in DOMAIN f /\ f["envelope"] = Envelope
  <2>3. ASSUME NEW f, NEW g, Has(f) PROVE Has(f ++ g)
    BY <2>3 DEF ++
  <2>4. Has(rest)
    BY <2>2
  <2>. HIDE DEF Has
  <2>5. Has(Structs)
    BY <2>1, <2>3, <2>4, Zenon
  <2>. QED
    BY <2>5 DEF Has
<1>2. "envelope" \notin DOMAIN Size /\ "key" \in DOMAIN Size /\ "envelope_type" \notin DOMAIN Size
      /\ Size["key"] = 8
  BY DEF Size
<1>3. "envelope" \notin DOMAIN Texts /\ "envelope_type" \notin DOMAIN Texts
  BY DEF Texts
<1>4. "envelope" \notin DOMAIN Unions /\ "envelope_type" \in DOMAIN Unions
  BY DEF Unions
<1>5. "envelope" \notin DOMAIN Arrays
  BY DEF Arrays
<1>6. "envelope_type" \notin Untagged
  BY DEF Untagged
<1>. QED
  BY <1>1, <1>2, <1>3, <1>4, <1>5, <1>6

LEMMA FirstIsNext ==
  ASSUME NEW a, NEW b
  PROVE  Head(<<a, b>>) = a /\ Tail(<<a, b>>) = <<b>> /\ <<>> \o <<b>> = <<b>>
<1>1. <<a, b>> \in Seq({a, b}) /\ <<b>> \in Seq({a, b})
  OBVIOUS
<1>. QED
  BY <1>1

LEMMA FirstOfThreeIsNext ==
  ASSUME NEW a, NEW b, NEW c
  PROVE  Head(<<a, b, c>>) = a /\ <<>> \o Tail(<<a, b, c>>) = <<b, c>>
<1>1. <<a, b, c>> \in Seq({a, b, c}) /\ <<b, c>> \in Seq({a, b, c})
  OBVIOUS
<1>2. Tail(<<a, b, c>>) = <<b, c>>
  BY <1>1
<1>. QED
  BY <1>1, <1>2

LEMMA EnvelopeTurns ==
  ASSUME NEW d \in Documents, NEW p, NEW t, NEW f, EnvelopeStages(p, t, f), Goes(d, State(p, t, f)),
         NEW q, NEW u, NEW g, State(q, u, g) = Turn(d, State(p, t, f))
  PROVE  EnvelopeStages(q, u, g)
<1>. DEFINE s    == State(p, t, f)
            left == Left(d, p)
            c    == Head(t)
            o    == Outcome(left, c)
<1>1. s.pos = p /\ s.todo = t /\ s.details = f
  BY DEF State
<1>2. o.ok /\ o.taken \in Nat /\ p \in Nat
  BY <1>1, TurnsForward, DocumentsHaveWords, SizesAreNatural DEF Goes, OutcomeAt
<1>3. q = p + o.taken /\ u = o.calls \o Tail(t) /\ g = o.fields ++ Kept(c, f)
  <2>1. State(q, u, g) = State(p + o.taken, o.calls \o Tail(t), o.fields ++ Kept(c, f))
    BY <1>1, Zenon DEF Turn, OutcomeAt
  <2>. HIDE DEF o, c, left
  <2>. QED
    BY <2>1 DEF State
<1>4. \A x \in NotCleared : x \in DOMAIN o.fields \/ x \in DOMAIN f => x \in DOMAIN g
  <2>. HIDE DEF o
  <2>1. DOMAIN g = DOMAIN o.fields \cup DOMAIN Kept(c, f)
    BY <1>3, OverIsAFunction
  <2>2. \A x \in NotCleared : x \in DOMAIN f => x \in DOMAIN Kept(c, f)
    BY DEF Kept, Header, NotCleared
  <2>. QED
    BY <2>1, <2>2
<1>5. CASE p = 0 /\ t = <<ReadEnvelope, ReadOperation>>
  <2>1. c = ReadEnvelope /\ Tail(t) = <<ReadOperation>>
    BY <1>5, FirstIsNext
  <2>2. o = Done(0, Calls(<<>>, Envelope), <<>>)
    <3>1. c.optional = FALSE /\ c.reader = "envelope" /\ c.to = <<>>
      BY <2>1 DEF ReadEnvelope, Inline, Call
    <3>2. o = CallStruct(c)
      BY <3>1, ReadersOfTheHeader, Zenon DEF Outcome
    <3>. QED
      BY <3>1, <3>2, ReadersOfTheHeader, Zenon DEF CallStruct
  <2>. HIDE DEF o, c
  <2>3. o.taken = 0 /\ o.calls = Calls(<<>>, Envelope)
    BY <2>2 DEF Done
  <2>. QED
    BY <1>2, <1>3, <1>5, <2>1, <2>3 DEF EnvelopeStages
<1>6. CASE p = 0 /\ t = Calls(<<>>, Envelope) \o <<ReadOperation>>
  <2>0. t = <<CallUnder(<<>>, Read("network", "key")), CallUnder(<<>>, Inline("envelope_type")),
               ReadOperation>>
    BY <1>6, FirstCallsOfTheHeader
  <2>1. c = Read("network", "key")
        /\ <<>> \o Tail(t) = <<CallUnder(<<>>, Inline("envelope_type")), ReadOperation>>
    <3>1. Head(t) = CallUnder(<<>>, Read("network", "key"))
      BY <2>0, FirstOfThreeIsNext, Zenon
    <3>2. <<>> \o Tail(t) = <<CallUnder(<<>>, Inline("envelope_type")), ReadOperation>>
      BY <2>0, FirstOfThreeIsNext, Zenon
    <3>. QED
      BY <3>1, <3>2, FirstCallsOfTheHeader, Zenon
  <2>2. \E v : o = Done(8, <<>>, Written(<<"network">>, v))
    <3>1. c.optional = FALSE /\ c.reader = "key" /\ c.to = <<"network">>
      BY <2>1 DEF Read, Call
    <3>2. o = ReadWords(left, c)
      BY <3>1, ReadersOfTheHeader, Zenon DEF Outcome
    <3>3. ~Refusal.ok
      BY DEF Refusal
    <3>. QED
      BY <1>2, <3>1, <3>2, <3>3, ReadersOfTheHeader, Zenon DEF ReadWords
  <2>3. PICK v : o = Done(8, <<>>, Written(<<"network">>, v))
    BY <2>2
  <2>. HIDE DEF o, c
  <2>4. o.taken = 8 /\ o.calls = <<>> /\ o.fields = Written(<<"network">>, v)
    BY <2>3 DEF Done
  <2>5. <<"network">> \in DOMAIN o.fields
    BY <2>4 DEF Written, On, Scratch
  <2>6. <<"network">> \in NotCleared
    BY DEF NotCleared
  <2>7. <<"network">> \in DOMAIN g
    BY <1>4, <2>5, <2>6
  <2>8. q > 0
    BY <1>2, <1>3, <1>6, <2>4
  <2>. QED
    BY <1>3, <2>1, <2>4, <2>7, <2>8 DEF EnvelopeStages
<1>7. CASE /\ p > 0 /\ <<"network">> \in DOMAIN f
           /\ t = <<CallUnder(<<>>, Inline("envelope_type")), ReadOperation>>
  <2>1. c = Inline("envelope_type")
    BY <1>7, FirstCallsOfTheHeader, FirstIsNext
  <2>2. \E n, calls, v : o = Done(n, calls, Written(<<"type">>, v))
    <3>1. c.optional = FALSE /\ c.reader = "envelope_type" /\ c.to = <<>>
      BY <2>1 DEF Inline, Call
    <3>2. o = ReadUnion(left, c)
      BY <3>1, ReadersOfTheHeader, Zenon DEF Outcome
    <3>3. ~Refusal.ok
      BY DEF Refusal
    <3>4. Under(<<>>, <<"type">>) = <<"type">>
      BY DEF Under, Scratch
    <3>. QED
      BY <1>2, <3>1, <3>2, <3>3, <3>4, ReadersOfTheHeader, Zenon DEF ReadUnion
  <2>3. PICK n, calls, v : o = Done(n, calls, Written(<<"type">>, v))
    BY <2>2
  <2>. HIDE DEF o, c
  <2>4. o.fields = Written(<<"type">>, v)
    BY <2>3 DEF Done
  <2>5. <<"type">> \in DOMAIN o.fields
    BY <2>4 DEF Written, On, Scratch
  <2>6. NotCleared \subseteq DOMAIN g
    BY <1>4, <1>7, <2>5 DEF NotCleared
  <2>7. q > 0
    BY <1>2, <1>3, <1>7
  <2>. QED
    BY <2>6, <2>7 DEF EnvelopeStages
<1>8. CASE p > 0 /\ NotCleared \subseteq DOMAIN f
  <2>. HIDE DEF o, c
  <2>1. q > 0
    BY <1>2, <1>3, <1>8
  <2>2. NotCleared \subseteq DOMAIN g
    BY <1>4, <1>8
  <2>. QED
    BY <2>1, <2>2 DEF EnvelopeStages
<1>. QED
  BY <1>5, <1>6, <1>7, <1>8 DEF EnvelopeStages

TurnsTo(d, p, t, f, q, u, g) == State(q, u, g) = Turn(d, State(p, t, f))

LEMMA TurnOf ==
  ASSUME NEW d, NEW p, NEW t, NEW f, NEW q, NEW u, NEW g, TurnsTo(d, p, t, f, q, u, g)
  PROVE  /\ q = p + Outcome(Left(d, p), Head(t)).taken
         /\ u = Outcome(Left(d, p), Head(t)).calls \o Tail(t)
         /\ g = Outcome(Left(d, p), Head(t)).fields ++ Kept(Head(t), f)
<1>. DEFINE s == State(p, t, f)
            o == Outcome(Left(d, p), Head(t))
<1>1. s.pos = p /\ s.todo = t /\ s.details = f
  BY DEF State
<1>2. State(q, u, g) = State(p + o.taken, o.calls \o Tail(t), o.fields ++ Kept(Head(t), f))
  BY <1>1, Zenon DEF TurnsTo, Turn, OutcomeAt
<1>. HIDE DEF o
<1>3. q = p + o.taken /\ u = o.calls \o Tail(t) /\ g = o.fields ++ Kept(Head(t), f)
  BY <1>2 DEF State
<1>. QED
  BY <1>3 DEF o

LEMMA GoesOf ==
  ASSUME NEW d, NEW p, NEW t, NEW f, Goes(d, State(p, t, f))
  PROVE  /\ p \in 0 .. d.size /\ t # <<>> /\ Outcome(Left(d, p), Head(t)).ok
         /\ \A g : Goes(d, State(p, t, g))
BY DEF Goes, OutcomeAt, State

LEMMA HeaderTurns ==
  ASSUME NEW d \in Documents, NEW p, NEW t, NEW f, NEW q, NEW u, NEW f2,
         ReadingHeader(d, p, t, f), Goes(d, State(p, t, f)),
         TurnsTo(d, p, t, f, q, u, f2)
  PROVE  ReadingHeader(d, q, u, f2)
<1>. DEFINE c == Head(t)
            o == Outcome(Left(d, p), c)
<1>1. PICK g, e : /\ f = g ++ e /\ DOMAIN e \subseteq NotCleared
                  /\ IsAFunction(g)
                  /\ Reaches(d, Beginning(0, <<>>), State(p, t, g))
                  /\ EnvelopeStages(p, t, g)
  BY DEF ReadingHeader
<1>. DEFINE g2 == o.fields ++ Kept(c, g)
<1>2. q = p + o.taken /\ u = o.calls \o Tail(t) /\ f2 = o.fields ++ Kept(c, f)
  BY TurnOf, Zenon
<1>3. f2 = g2 ++ e
  BY <1>1, <1>2, WrittenOver
<1>4. Goes(d, State(p, t, g))
  BY GoesOf
<1>5. Turn(d, State(p, t, g)) = State(q, u, g2)
  <2>. DEFINE s == State(p, t, g)
  <2>1. s.pos = p /\ s.todo = t /\ s.details = g
    BY DEF State
  <2>. QED
    BY <1>2, <2>1, Zenon DEF Turn, OutcomeAt
<1>. HIDE DEF c, o, g2
<1>6. Reaches(d, Beginning(0, <<>>), State(q, u, g2))
  BY <1>1, <1>4, <1>5, ReachesMore
<1>7. EnvelopeStages(q, u, g2)
  BY <1>1, <1>4, <1>5, EnvelopeTurns
<1>8. IsAFunction(g2)
  BY OverIsAFunction DEF g2
<1>. QED
  BY <1>1, <1>3, <1>6, <1>7, <1>8 DEF ReadingHeader

LEMMA ReadersOfOperations ==
  /\ "operation" \notin DOMAIN Size /\ "operation" \notin DOMAIN Texts
  /\ "operation" \notin DOMAIN Unions /\ "operation" \notin DOMAIN Arrays
  /\ "operation" \in DOMAIN Structs /\ Structs["operation"] = Operation
<1>1. "operation" \in DOMAIN Structs /\ Structs["operation"] = Operation
  <2>. DEFINE rest ==
         [account_id |-> AccountId, price |-> Price, signer |-> Signer, set_options |-> SetOptions,
          manage_data |-> ManageData, operation |-> Operation, time_bounds |-> TimeBounds,
          ledger_bounds |-> LedgerBounds, transaction |-> TransactionDetails, fee_bump |-> FeeBump,
          envelope |-> Envelope]
  <2>1. Structs = rest ++ Payments ++ PathPayments ++ Offers ++ Trust ++ ClaimableBalances
                  ++ Sponsorship ++ Clawbacks ++ LiquidityPools
    BY Zenon DEF Structs
  <2>2. "operation" \in DOMAIN rest /\ rest["operation"] = Operation
    OBVIOUS
  <2>. HIDE DEF rest
  <2>. DEFINE Has(f) == "operation" \in DOMAIN f /\ f["operation"] = Operation
  <2>3. ASSUME NEW f, NEW g, Has(f) PROVE Has(f ++ g)
    BY <2>3 DEF ++
  <2>4. Has(rest)
    BY <2>2
  <2>. HIDE DEF Has
  <2>5. Has(Structs)
    BY <2>1, <2>3, <2>4, Zenon
  <2>. QED
    BY <2>5 DEF Has
<1>2. "operation" \notin DOMAIN Size
  BY DEF Size
<1>3. "operation" \notin DOMAIN Texts
  BY DEF Texts
<1>4. "operation" \notin DOMAIN Unions
  BY DEF Unions
<1>5. "operation" \notin DOMAIN Arrays
  BY DEF Arrays
<1>. QED
  BY <1>1, <1>2, <1>3, <1>4, <1>5

LEMMA OperationIsCalled ==
  ASSUME NEW left
  PROVE  /\ Outcome(left, ReadOperation) = Done(0, Calls(<<"op">>, Operation), <<>>)
         /\ ReadOperation.reader = "operation"
<1>. DEFINE c == ReadOperation
<1>1. c.optional = FALSE /\ c.reader = "operation" /\ c.to = <<"op">>
  BY DEF ReadOperation, Read, Call
<1>2. Outcome(left, c) = CallStruct(c)
  BY <1>1, ReadersOfOperations, Zenon DEF Outcome
<1>. QED
  BY <1>1, <1>2, ReadersOfOperations, Zenon DEF CallStruct

LEMMA FirstCallOfAnOperation ==
  Head(Calls(<<"op">>, Operation)).optional = TRUE
<1>. DEFINE a == CallUnder(<<"op">>, Option("source_account", "muxed_account"))
            b == CallUnder(<<"op">>, Inline("body"))
<1>1. Calls(<<"op">>, Operation) = <<a, b>>
  BY DEF Calls, Operation
<1>2. a.optional = TRUE
  BY DEF CallUnder, Option
<1>. HIDE DEF a, b
<1>3. Head(<<a, b>>) = a
  BY FirstIsNext
<1>. QED
  BY <1>1, <1>2, <1>3

LEMMA OperationTurns ==
  ASSUME NEW d \in Documents, NEW x \in Nat, x # 0, NEW H, NEW p, NEW t, NEW f,
         NEW q, NEW u, NEW g,
         ReadingOperation(d, x, H, p, t, f), Header(f) = H, Goes(d, State(p, t, f)),
         TurnsTo(d, p, t, f, q, u, g)
  PROVE  ReadingOperation(d, x, H, q, u, g) /\ Header(g) = H
<1>. DEFINE left == Left(d, p)
            c    == Head(t)
            o    == Outcome(left, c)
<1>1. q = p + o.taken /\ u = o.calls \o Tail(t) /\ g = o.fields ++ Kept(c, f)
  BY TurnOf, Zenon
<1>2. p \in 0 .. d.size /\ t # <<>> /\ o.ok
  BY GoesOf
<1>3. o.taken \in Nat /\ p \in Nat
  <2>1. OutcomeAt(d, State(p, t, f)) = o
    BY DEF OutcomeAt, State
  <2>. QED
    BY <1>2, <2>1, TurnsForward, DocumentsHaveWords, SizesAreNatural
<1>4. PICK S : t \in Seq(S) /\ WriteThere(S)
  BY DEF ReadingOperation
<1>5. c \in S /\ Tail(t) \in Seq(S)
  BY <1>2, <1>4
<1>6. left \in Seq(Nat)
  <2>1. Extends(d, d)
    BY ExtendsItself, DocumentsHaveWords
  <2>. QED
    BY <1>2, <2>1, MoreIsLeft DEF Prefix
<1>7. OnlyThere(o)
  <2>. HIDE DEF left
  <2>1. InOperation(c.to)
    BY <1>4, <1>5 DEF WriteThere
  <2>. QED
    BY <1>2, <1>6, <2>1, OutcomeThere
<1>8. Header(g) = H
  BY <1>1, <1>7, HeaderIsKept DEF OnlyThere
<1>9. \E T : u \in Seq(T) /\ WriteThere(T)
  <2>. HIDE DEF o, c
  <2>1. PICK T : o.calls \in Seq(T) /\ WriteThere(T)
    BY <1>7 DEF OnlyThere
  <2>2. o.calls \in Seq(S \cup T) /\ Tail(t) \in Seq(S \cup T)
    BY <1>5, <2>1, SeqMonotonic
  <2>3. u \in Seq(S \cup T)
    BY <1>1, <2>2, ConcatProperties
  <2>4. WriteThere(S \cup T)
    BY <1>4, <2>1 DEF WriteThere
  <2>. QED
    BY <2>3, <2>4
<1>10. OperationStages(x, q, u)
  <2>1. CASE p = x /\ t = <<ReadOperation>>
    <3>1. c = ReadOperation /\ Tail(t) = <<>>
      BY <2>1
    <3>2. o = Done(0, Calls(<<"op">>, Operation), <<>>)
      BY <3>1, OperationIsCalled, Zenon
    <3>3. PICK T : Calls(<<"op">>, Operation) \in Seq(T)
      <4>1. IsList(Operation)
        BY ReadersOfOperations, StructsHaveLists DEF AreLists
      <4>2. InOperation(<<"op">>)
        BY ShortSequences DEF InOperation
      <4>. QED
        BY <4>1, <4>2, CallsThere
    <3>. HIDE DEF o, c
    <3>4. o.taken = 0 /\ o.calls = Calls(<<"op">>, Operation)
      BY <3>2 DEF Done
    <3>. DEFINE calls == Calls(<<"op">>, Operation)
    <3>. HIDE DEF calls
    <3>5. calls \o <<>> = calls
      BY <3>3, ConcatEmptySeq DEF calls
    <3>6. u = calls /\ q = x
      BY <1>1, <1>3, <2>1, <3>1, <3>4, <3>5 DEF calls
    <3>. QED
      BY <3>6 DEF OperationStages, calls
  <2>2. CASE p = x /\ t = Calls(<<"op">>, Operation)
    <3>1. c.optional = TRUE
      BY <2>2, FirstCallOfAnOperation
    <3>2. o = ReadOptional(left, c)
      BY <3>1, Zenon DEF Outcome
    <3>3. ~Refusal.ok
      BY DEF Refusal
    <3>4. \E calls, fields : o = Done(1, calls, fields)
      BY <1>2, <3>2, <3>3, Zenon DEF ReadOptional
    <3>. HIDE DEF o
    <3>5. o.taken = 1
      BY <3>4 DEF Done
    <3>6. q > x
      BY <1>1, <2>2, <3>5
    <3>. QED
      BY <3>6 DEF OperationStages
  <2>3. CASE p > x
    <3>. HIDE DEF o
    <3>1. q > x
      BY <1>1, <1>3, <2>3
    <3>. QED
      BY <3>1 DEF OperationStages
  <2>. QED
    BY <2>1, <2>2, <2>3 DEF ReadingOperation, OperationStages
<1>11. Reaches(d, Beginning(x, H), State(q, u, g))
  <2>1. CASE t = <<ReadOperation>> /\ p = x
    <3>. DEFINE b == State(x, <<ReadOperation>>, H)
    <3>1. Beginning(x, H) = b /\ b = State(p, t, H)
      BY <2>1 DEF Beginning
    <3>2. Goes(d, State(p, t, H))
      BY GoesOf
    <3>3. Turn(d, State(p, t, H)) = State(q, u, o.fields ++ Kept(c, H))
      <4>. DEFINE s == State(p, t, H)
      <4>1. s.pos = p /\ s.todo = t /\ s.details = H
        BY DEF State
      <4>. QED
        BY <1>1, <4>1, Zenon DEF Turn, OutcomeAt
    <3>4. Kept(c, H) = Kept(c, f)
      <4>1. c = ReadOperation
        BY <2>1
      <4>. QED
        BY <4>1, OperationIsCalled, HeaderOfHeader DEF Kept
    <3>5. Turn(d, b) = State(q, u, g)
      BY <1>1, <3>1, <3>3, <3>4, Zenon
    <3>. HIDE DEF b
    <3>. QED
      BY <3>1, <3>2, <3>5, ReachesItself, ReachesMore
  <2>2. CASE ~(t = <<ReadOperation>> /\ p = x)
    <3>1. Reaches(d, Beginning(x, H), State(p, t, f))
      BY <2>2 DEF ReadingOperation
    <3>. QED
      BY <3>1, ReachesMore, Zenon DEF TurnsTo
  <2>. QED
    BY <2>1, <2>2
<1>. QED
  BY <1>8, <1>9, <1>10, <1>11 DEF ReadingOperation
-----------------------------------------------------------------------------
(* What was read.                                                           *)

\* A whole operation at x, read with the header H: t is the parser after it.
Whole(d, x, H, t) == Reaches(d, Beginning(x, H), t) /\ t.todo = <<>> /\ Header(t.details) = H

\* What rd has for x is the operation there; the next place is after[x], or none yet.
KnownAt(d, rd, H, after, top, x) ==
  /\ after[x] \in Nat /\ x < after[x] /\ after[x] <= top
  /\ after[x] \in DOMAIN rd \cup {top}
  /\ \A y \in DOMAIN rd : y <= x \/ after[x] <= y
  /\ \E t : Whole(d, x, H, t) /\ t.pos = after[x] /\ rd[x] = {t.details}

\* The operations that were read are all of those before top, and offset is between two.
History(d, rd, x, H, after, top) ==
  /\ top \in Nat /\ DOMAIN rd \subseteq Nat
  /\ 0 \in DOMAIN rd \cup {top} /\ x \in DOMAIN rd \cup {top}
  /\ \A y \in DOMAIN rd : KnownAt(d, rd, H, after, top, y)

\* Another reading from x.
Added(rd, x, t, rd2) ==
  /\ DOMAIN rd2 = DOMAIN rd \cup {x}
  /\ \A y \in DOMAIN rd : y # x => rd2[y] = rd[y]
  /\ rd2[x] = (IF x \in DOMAIN rd THEN rd[x] ELSE {}) \cup {t.details}

\* A reading from x comes to its end.
Ended(d, x, H, t) ==
  /\ Reaches(d, Beginning(x, H), t) /\ t.todo = <<>>
  /\ t.pos \in Nat /\ t.pos > x
  /\ x # 0 => Header(t.details) = H

LEMMA ReadAgain ==
  ASSUME NEW d, NEW rd, NEW x, NEW H, NEW after, NEW top, History(d, rd, x, H, after, top),
         NEW t, Ended(d, x, H, t), x \in DOMAIN rd
  PROVE  /\ t.pos = after[x] /\ rd[x] = {t.details} /\ Header(t.details) = H
<1>1. KnownAt(d, rd, H, after, top, x)
  BY DEF History
<1>2. PICK u : Whole(d, x, H, u) /\ u.pos = after[x] /\ rd[x] = {u.details}
  BY <1>1 DEF KnownAt
<1>3. t = u
  BY <1>2, OneEnd DEF Ended, Whole
<1>. QED
  BY <1>2, <1>3 DEF Whole

LEMMA ReadFirst ==
  ASSUME NEW d, NEW rd, NEW x, NEW H, NEW after, NEW top, History(d, rd, x, H, after, top),
         NEW t, Ended(d, x, H, t), x \notin DOMAIN rd
  PROVE  /\ x = top /\ \A y \in DOMAIN rd : y < x
         /\ x = 0 => DOMAIN rd = {}
<1>1. x = top /\ top \in Nat
  BY DEF History
<1>2. ASSUME NEW y \in DOMAIN rd PROVE y < x
  <2>1. KnownAt(d, rd, H, after, top, y) /\ y \in Nat
    BY DEF History
  <2>. QED
    BY <1>1, <2>1 DEF KnownAt
<1>3. x = 0 => DOMAIN rd = {}
  <2>1. DOMAIN rd \subseteq Nat
    BY DEF History
  <2>. QED
    BY <1>2, <2>1
<1>. QED
  BY <1>1, <1>2, <1>3

LEMMA HistoryGoesOn ==
  ASSUME NEW d, NEW rd, NEW x, NEW H, NEW after, NEW top, History(d, rd, x, H, after, top),
         NEW t, Ended(d, x, H, t), NEW rd2, Added(rd, x, t, rd2)
  PROVE  /\ \E after2, top2 : History(d, rd2, t.pos, Header(t.details), after2, top2)
         /\ \A y \in DOMAIN rd : y < t.pos <=> y <= x
<1>1. top \in Nat /\ DOMAIN rd \subseteq Nat /\ x \in Nat /\ t.pos \in Nat /\ t.pos > x
  BY DEF History, Ended
<1>2. CASE x \in DOMAIN rd
  <2>1. t.pos = after[x] /\ rd[x] = {t.details} /\ Header(t.details) = H
    BY <1>2, ReadAgain
  <2>2. DOMAIN rd2 = DOMAIN rd
    BY <1>2 DEF Added
  <2>3. rd2[x] = rd[x]
    BY <1>2, <2>1 DEF Added
  <2>4. \A y \in DOMAIN rd : rd2[y] = rd[y]
    BY <2>3 DEF Added
  <2>5. KnownAt(d, rd, H, after, top, x)
    BY <1>2 DEF History
  <2>6. t.pos \in DOMAIN rd2 \cup {top}
    BY <2>1, <2>2, <2>5 DEF KnownAt
  <2>7. ASSUME NEW y \in DOMAIN rd2 PROVE KnownAt(d, rd2, H, after, top, y)
    <3>1. KnownAt(d, rd, H, after, top, y) /\ rd2[y] = rd[y]
      BY <2>2, <2>4 DEF History
    <3>. QED
      BY <2>2, <3>1 DEF KnownAt
  <2>8. History(d, rd2, t.pos, H, after, top)
    BY <2>2, <2>6, <2>7 DEF History
  <2>9. ASSUME NEW y \in DOMAIN rd PROVE y < t.pos <=> y <= x
    <3>1. y <= x \/ after[x] <= y
      BY <2>5 DEF KnownAt
    <3>. QED
      BY <1>1, <2>1, <3>1
  <2>. QED
    BY <2>1, <2>8, <2>9
<1>3. CASE x \notin DOMAIN rd
  <2>. DEFINE G      == Header(t.details)
              after2 == [y \in DOMAIN rd2 |-> IF y = x THEN t.pos ELSE after[y]]
              top2   == t.pos
  <2>1. x = top /\ (\A y \in DOMAIN rd : y < x) /\ (x = 0 => DOMAIN rd = {})
    BY <1>3, ReadFirst
  <2>2. DOMAIN rd # {} => G = H
    BY <2>1 DEF Ended
  <2>3. DOMAIN rd2 = DOMAIN rd \cup {x}
    BY DEF Added
  <2>4. after2[x] = t.pos /\ \A y \in DOMAIN rd : after2[y] = after[y]
    BY <1>3, <2>3
  <2>. HIDE DEF after2
  <2>5. KnownAt(d, rd2, G, after2, top2, x)
    <3>1. \A y \in DOMAIN rd2 : y <= x
      BY <1>1, <2>1, <2>3
    <3>2. rd2[x] = {t.details}
      BY <1>3 DEF Added
    <3>3. Beginning(x, H) = Beginning(x, G)
      BY DEF Beginning, Ended
    <3>4. Whole(d, x, G, t)
      BY <3>3 DEF Whole, Ended
    <3>5. after2[x] \in Nat /\ x < after2[x] /\ after2[x] <= top2
      BY <1>1, <2>4
    <3>. HIDE DEF G
    <3>. QED
      BY <2>4, <3>1, <3>2, <3>4, <3>5 DEF KnownAt
  <2>6. ASSUME NEW y \in DOMAIN rd PROVE KnownAt(d, rd2, G, after2, top2, y)
    <3>1. KnownAt(d, rd, H, after, top, y) /\ y \in Nat
      BY DEF History
    <3>2. G = H /\ y < x /\ after2[y] = after[y]
      BY <2>1, <2>2, <2>4
    <3>3. rd2[y] = rd[y]
      BY <1>3 DEF Added
    <3>4. after[y] \in DOMAIN rd2
      BY <2>1, <2>3, <3>1 DEF KnownAt
    <3>5. after[y] \in Nat /\ y < after[y] /\ after[y] <= top2
      BY <1>1, <2>1, <3>1 DEF KnownAt
    <3>6. \A z \in DOMAIN rd2 : z <= y \/ after[y] <= z
      BY <2>1, <2>3, <3>1 DEF KnownAt
    <3>7. \E u : Whole(d, y, H, u) /\ u.pos = after[y] /\ rd[y] = {u.details}
      BY <3>1 DEF KnownAt
    <3>. HIDE DEF G, top2
    <3>. QED
      BY <3>2, <3>3, <3>4, <3>5, <3>6, <3>7, Zenon DEF KnownAt
  <2>7. \A y \in DOMAIN rd2 : KnownAt(d, rd2, G, after2, top2, y)
    BY <2>3, <2>5, <2>6
  <2>8. 0 \in DOMAIN rd2
    BY <2>1, <2>3 DEF History
  <2>9. DOMAIN rd2 \subseteq Nat
    BY <1>1, <2>3
  <2>10. History(d, rd2, t.pos, G, after2, top2)
    BY <1>1, <2>7, <2>8, <2>9 DEF History
  <2>11. \A y \in DOMAIN rd : y < t.pos /\ y <= x
    BY <1>1, <2>1
  <2>. QED
    BY <2>10, <2>11
<1>. QED
  BY <1>2, <1>3

\* More data take nothing back.
LEMMA HistoryStays ==
  ASSUME NEW d, NEW e, Extends(e, d), NEW rd, NEW x, NEW H, NEW after, NEW top,
         History(d, rd, x, H, after, top)
  PROVE  History(e, rd, x, H, after, top)
<1>1. ASSUME NEW y \in DOMAIN rd PROVE KnownAt(e, rd, H, after, top, y)
  <2>1. KnownAt(d, rd, H, after, top, y)
    BY DEF History
  <2>2. PICK t : Whole(d, y, H, t) /\ t.pos = after[y] /\ rd[y] = {t.details}
    BY <2>1 DEF KnownAt
  <2>3. Whole(e, y, H, t)
    BY <2>2, ReachesThen DEF Whole
  <2>. QED
    BY <2>1, <2>2, <2>3 DEF KnownAt
<1>. QED
  BY <1>1 DEF History
-----------------------------------------------------------------------------
(* The invariant.                                                           *)

\* What is in memory, and the reading under way.
UnderWay(H) ==
  /\ offset # 0 => Header(details) = H
  /\ status = "reading" => IF offset = 0 THEN ReadingHeader(doc, pos, todo, details)
                           ELSE ReadingOperation(doc, offset, H, pos, todo, details)

Before(rd, x) == {y \in DOMAIN rd : y < x}

Counted == offset # 0 \/ status = "reading" =>
             opIndex = Cardinality(Before(read, offset)) % IndexWidth

ReadingInv ==
  /\ \E H, after, top : History(doc, read, offset, H, after, top) /\ UnderWay(H)
  /\ Counted

LEMMA NothingIsRead ==
  ASSUME NEW d
  PROVE  History(d, <<>>, 0, <<>>, <<>>, 0)
<1>1. DOMAIN <<>> = {}
  OBVIOUS
<1>2. \A y \in DOMAIN <<>> : KnownAt(d, <<>>, <<>>, <<>>, 0, y)
  BY <1>1
<1>3. 0 \in Nat
  OBVIOUS
<1>. DEFINE rd == <<>>
<1>. HIDE DEF rd
<1>4. DOMAIN rd = {} /\ \A y \in DOMAIN rd : KnownAt(d, rd, <<>>, <<>>, 0, y)
  BY <1>1, <1>2 DEF rd
<1>5. History(d, rd, 0, <<>>, <<>>, 0)
  BY <1>3, <1>4 DEF History
<1>. QED
  BY <1>5 DEF rd

LEMMA BeginReads ==
  ASSUME TypeOK, Begin, NEW H, UnderWay(H)
  PROVE  UnderWay(H)'
<1>1. CASE offset = 0
  <2>1. /\ pos' = 0 /\ todo' = <<ReadEnvelope, ReadOperation>> /\ offset' = 0
        /\ DOMAIN details' \subseteq NotCleared /\ IsAFunction(details')
    BY <1>1 DEF Begin, ReadEnvelope, ReadOperation, NotCleared, IsAFunction
  <2>. DEFINE g == <<>>
  <2>2. IsAFunction(g) /\ DOMAIN g = {}
    BY DEF IsAFunction
  <2>3. Beginning(0, <<>>) = State(0, <<ReadEnvelope, ReadOperation>>, g)
    BY DEF Beginning
  <2>4. Reaches(doc', Beginning(0, <<>>), State(pos', todo', g))
    BY <2>1, <2>3, ReachesItself
  <2>5. EnvelopeStages(pos', todo', g)
    BY <2>1 DEF EnvelopeStages
  <2>. HIDE DEF g
  <2>6. details' = g ++ details'
    BY <2>1, <2>2 DEF ++, IsAFunction
  <2>7. ReadingHeader(doc', pos', todo', details')
    BY <2>1, <2>2, <2>4, <2>5, <2>6 DEF ReadingHeader
  <2>. QED
    BY <2>1, <2>7 DEF UnderWay
<1>2. CASE offset # 0
  <2>1. /\ pos' = offset /\ todo' = <<ReadOperation>> /\ offset' = offset
        /\ details' = details
    BY <1>2 DEF Begin, ReadOperation
  <2>2. <<ReadOperation>> \in Seq({ReadOperation})
    OBVIOUS
  <2>3. WriteThere({ReadOperation})
    <3>1. ReadOperation.to = <<"op">>
      BY DEF ReadOperation, Read, Call
    <3>2. InOperation(<<"op">>)
      BY ShortSequences DEF InOperation
    <3>. QED
      BY <3>1, <3>2 DEF WriteThere
  <2>4. \E S : todo' \in Seq(S) /\ WriteThere(S)
    BY <2>1, <2>2, <2>3
  <2>5. ReadingOperation(doc', offset', H, pos', todo', details')
    BY <2>1, <2>4 DEF ReadingOperation, OperationStages
  <2>. QED
    BY <1>2, <2>1, <2>5 DEF UnderWay
<1>. QED
  BY <1>1, <1>2

LEMMA StepReads ==
  ASSUME TypeOK, Step, NEW H, UnderWay(H)
  PROVE  UnderWay(H)'
<1>0. doc \in Documents /\ offset \in Nat /\ status = "reading" /\ UNCHANGED <<doc, offset>>
  BY SizesAreNatural, StepIsTurn DEF TypeOK, Step
<1>1. CASE Goes(doc, Now) /\ Now' = Turn(doc, Now) /\ status' = "reading"
  <2>1. Goes(doc, State(pos, todo, details))
        /\ TurnsTo(doc, pos, todo, details, pos', todo', details')
    BY <1>1 DEF Now, TurnsTo
  <2>2. CASE offset = 0
    <3>1. ReadingHeader(doc, pos', todo', details')
      BY <1>0, <2>1, <2>2, HeaderTurns DEF UnderWay
    <3>. QED
      BY <1>0, <2>2, <3>1 DEF UnderWay
  <2>3. CASE offset # 0
    <3>1. ReadingOperation(doc, offset, H, pos', todo', details') /\ Header(details') = H
      BY <1>0, <2>1, <2>3, OperationTurns DEF UnderWay
    <3>. QED
      BY <1>0, <2>3, <3>1 DEF UnderWay
  <2>. QED
    BY <2>2, <2>3
<1>2. CASE status' \in {"failed", "thrown"} /\ UNCHANGED <<pos, details>>
  BY <1>0, <1>2 DEF UnderWay
<1>. QED
  BY <1>1, <1>2, StepIsTurn

LEMMA ReadingEnds ==
  ASSUME TypeOK, End, NEW H, UnderWay(H)
  PROVE  Ended(doc, offset, H, Now) /\ Added(read, offset, Now, read')
<1>0. /\ status = "reading" /\ todo = <<>> /\ pos \in Nat /\ offset \in Nat
      /\ Now.pos = pos /\ Now.todo = <<>> /\ Now.details = details
  BY SizesAreNatural DEF End, TypeOK, Now, State
<1>1. ASSUME offset = 0 PROVE Ended(doc, offset, H, Now)
  <2>1. PICK g, e : /\ details = g ++ e /\ DOMAIN e \subseteq NotCleared
                    /\ IsAFunction(g)
                    /\ Reaches(doc, Beginning(0, <<>>), State(pos, todo, g))
                    /\ EnvelopeStages(pos, todo, g)
    BY <1>0, <1>1 DEF UnderWay, ReadingHeader
  <2>2. todo # <<ReadEnvelope, ReadOperation>>
        /\ todo # <<CallUnder(<<>>, Inline("envelope_type")), ReadOperation>>
        /\ todo # Calls(<<>>, Envelope) \o <<ReadOperation>>
    BY <1>0, FirstCallsOfTheHeader
  <2>3. pos > 0 /\ NotCleared \subseteq DOMAIN g
    BY <2>1, <2>2 DEF EnvelopeStages
  <2>4. details = g
    BY <2>1, <2>3, NothingIsLeft
  <2>5. Beginning(0, <<>>) = Beginning(0, H)
    BY DEF Beginning
  <2>6. Reaches(doc, Beginning(0, H), Now)
    BY <2>1, <2>4, <2>5 DEF Now
  <2>. DEFINE t == Now
  <2>7. Reaches(doc, Beginning(offset, H), t) /\ t.todo = <<>> /\ t.pos \in Nat /\ t.pos > offset
    BY <1>0, <1>1, <2>3, <2>6
  <2>. HIDE DEF t
  <2>8. Ended(doc, offset, H, t)
    BY <1>1, <2>7 DEF Ended
  <2>. QED
    BY <2>8 DEF t
<1>2. ASSUME offset # 0 PROVE Ended(doc, offset, H, Now)
  <2>1. ReadingOperation(doc, offset, H, pos, todo, details) /\ Header(details) = H
    BY <1>0, <1>2 DEF UnderWay
  <2>2. todo # <<ReadOperation>> /\ todo # Calls(<<"op">>, Operation)
    <3>1. Calls(<<"op">>, Operation) # <<>>
      BY DEF Calls, Operation
    <3>. QED
      BY <1>0, <3>1
  <2>3. pos > offset /\ Reaches(doc, Beginning(offset, H), Now)
    BY <2>1, <2>2 DEF ReadingOperation, OperationStages, Now
  <2>. DEFINE t == Now
  <2>4. /\ Reaches(doc, Beginning(offset, H), t) /\ t.todo = <<>> /\ t.pos \in Nat
        /\ t.pos > offset /\ Header(t.details) = H
    BY <1>0, <2>1, <2>3
  <2>. HIDE DEF t
  <2>5. Ended(doc, offset, H, t)
    BY <2>4 DEF Ended
  <2>. QED
    BY <2>5 DEF t
<1>3. Added(read, offset, Now, read')
  <2>1. read' = [x \in DOMAIN read \cup {offset} |->
                   ReadFrom(x) \cup IF x = offset THEN {details} ELSE {}]
    BY DEF End, Noted
  <2>2. \A x \in DOMAIN read : x # offset => read'[x] = read[x]
    BY <2>1 DEF ReadFrom
  <2>3. read'[offset] = ReadFrom(offset) \cup {details}
    BY <2>1
  <2>. QED
    BY <1>0, <2>1, <2>2, <2>3 DEF Added, ReadFrom
<1>. QED
  BY <1>1, <1>2, <1>3

LEMMA OneMore ==
  ASSUME NEW n \in Nat
  PROVE  ((n % IndexWidth) + 1) % IndexWidth = (n + 1) % IndexWidth
BY DEF IndexWidth

LEMMA EndReads ==
  ASSUME TypeOK, End, NEW H, NEW after, NEW top,
         History(doc, read, offset, H, after, top), UnderWay(H), Counted
  PROVE  ReadingInv'
<1>0. /\ status = "reading" /\ status' = "idle" /\ UNCHANGED <<doc, pos, details>>
      /\ offset' = pos /\ opIndex' = (opIndex + 1) % IndexWidth
      /\ Now.pos = pos /\ Now.details = details
  BY DEF End, Now, State
<1>1. Ended(doc, offset, H, Now) /\ Added(read, offset, Now, read')
  BY ReadingEnds
<1>. DEFINE t == Now
<1>2. /\ \E after2, top2 : History(doc, read', t.pos, Header(t.details), after2, top2)
      /\ \A y \in DOMAIN read : y < t.pos <=> y <= offset
  <2>. HIDE DEF t
  <2>1. Ended(doc, offset, H, t) /\ Added(read, offset, t, read')
    BY <1>1 DEF t
  <2>. QED
    BY <2>1, HistoryGoesOn
<1>3. PICK after2, top2 : History(doc, read', pos, Header(details), after2, top2)
  BY <1>0, <1>2
<1>4. (\E G, after3, top3 : History(doc, read, offset, G, after3, top3) /\ UnderWay(G))'
  <2>1. UnderWay(Header(details))'
    BY <1>0 DEF UnderWay
  <2>. QED
    BY <1>0, <1>3, <2>1
<1>5. Counted'
  <2>. DEFINE B == Before(read, offset)
  <2>1. DOMAIN read \subseteq 0 .. doc.size /\ offset \in Nat /\ pos > offset /\ pos \in Nat
        /\ doc.size \in Nat
    BY <1>0, <1>1, SizesAreNatural DEF TypeOK, Ended
  <2>2. IsFiniteSet(B) /\ offset \notin B
    <3>1. IsFiniteSet(0 .. doc.size)
      BY <2>1, FS_Interval
    <3>2. B \subseteq 0 .. doc.size /\ offset \notin B
      BY <2>1 DEF Before
    <3>. QED
      BY <3>1, <3>2, FS_Subset
  <2>3. Before(read', pos) = B \cup {offset}
    <3>1. DOMAIN read' = DOMAIN read \cup {offset}
      BY <1>1 DEF Added
    <3>2. \A y \in DOMAIN read : y < pos <=> y < offset \/ y = offset
      BY <1>0, <1>2, <2>1
    <3>. QED
      BY <2>1, <3>1, <3>2 DEF Before
  <2>4. Cardinality(B) \in Nat /\ Cardinality(B \cup {offset}) = Cardinality(B) + 1
    BY <2>2, FS_CardinalityType, FS_AddElement
  <2>5. opIndex = Cardinality(B) % IndexWidth
    BY <1>0 DEF Counted
  <2>. HIDE DEF B
  <2>6. opIndex' = (Cardinality(B) + 1) % IndexWidth
    BY <1>0, <2>4, <2>5, OneMore
  <2>7. opIndex' = Cardinality(Before(read', offset')) % IndexWidth
    BY <1>0, <2>3, <2>4, <2>6
  <2>. QED
    BY <2>7 DEF Counted
<1>. QED
  BY <1>4, <1>5 DEF ReadingInv

LEMMA NothingBefore ==
  ASSUME TypeOK
  PROVE  Cardinality(Before(read, 0)) % IndexWidth = 0
<1>1. Before(read, 0) = {}
  BY SizesAreNatural DEF TypeOK, Before
<1>2. Cardinality(Before(read, 0)) = 0
  BY <1>1, FS_EmptySet
<1>. QED
  BY <1>2 DEF IndexWidth

LEMMA InvStarts ==
  ASSUME offset = 0, status = "idle", read = <<>>
  PROVE  ReadingInv
<1>1. History(doc, read, offset, <<>>, <<>>, 0) /\ UnderWay(<<>>)
  BY NothingIsRead DEF UnderWay
<1>. QED
  BY <1>1 DEF ReadingInv, Counted

LEMMA InvStays ==
  ASSUME TypeOK, ReadingInv, [Next]_vars
  PROVE  ReadingInv'
<1>. PICK H, after, top : History(doc, read, offset, H, after, top) /\ UnderWay(H)
  BY DEF ReadingInv
<1>0. Counted
  BY DEF ReadingInv
<1>1. CASE Begin
  <2>1. UnderWay(H)'
    BY <1>1, BeginReads
  <2>2. UNCHANGED <<doc, offset, read>>
    BY <1>1 DEF Begin
  <2>3. Counted'
    BY <1>0, <1>1, <2>2, NothingBefore DEF Begin, Counted
  <2>. QED
    BY <2>1, <2>2, <2>3 DEF ReadingInv
<1>2. CASE Step
  <2>1. UnderWay(H)'
    BY <1>2, StepReads
  <2>2. UNCHANGED <<doc, offset, opIndex, read>> /\ status = "reading"
    BY <1>2 DEF Step
  <2>3. Counted'
    BY <1>0, <2>2 DEF Counted
  <2>. QED
    BY <2>1, <2>2, <2>3 DEF ReadingInv
<1>3. CASE End
  BY <1>0, <1>3, EndReads
<1>4. CASE Rewind \/ Restart
  <2>1. offset' = 0 /\ UNCHANGED <<doc, read>> /\ status' # "reading"
    BY <1>4 DEF Rewind, Restart, Returned
  <2>2. History(doc, read, 0, H, after, top)
    BY DEF History
  <2>3. UnderWay(H)' /\ Counted'
    BY <2>1 DEF UnderWay, Counted
  <2>. QED
    BY <2>1, <2>2, <2>3 DEF ReadingInv
<1>5. CASE Load
  <2>1. (offset = 0 /\ status = "idle" /\ read = <<>>)'
    BY <1>5 DEF Load
  <2>. QED
    BY <2>1, InvStarts, PTL
<1>6. CASE Extend
  <2>1. Extends(doc', doc) /\ UNCHANGED <<offset, opIndex, details, read>> /\ status' = "idle"
    BY <1>6, DocumentsHaveWords DEF Extend, Extends, TypeOK
  <2>2. History(doc', read, offset, H, after, top)
    BY <2>1, HistoryStays
  <2>3. UnderWay(H)' /\ Counted'
    BY <1>0, <2>1 DEF UnderWay, Counted
  <2>. QED
    BY <2>1, <2>2, <2>3 DEF ReadingInv
<1>7. CASE UNCHANGED vars
  BY <1>0, <1>7 DEF vars, ReadingInv, UnderWay, Counted
<1>. QED
  BY <1>1, <1>2, <1>3, <1>4, <1>5, <1>6, <1>7 DEF Next
-----------------------------------------------------------------------------
(* What follows.                                                            *)

LEMMA InvHolds == Spec => []ReadingInv
<1>1. Init => ReadingInv
  BY InvStarts DEF Init
<1>2. TypeOK /\ ReadingInv /\ [Next]_vars => ReadingInv'
  BY InvStays
<1>3. Spec => []TypeOK
  BY StaysInside
<1>. QED
  BY <1>1, <1>2, <1>3, PTL DEF Spec

\* Some header, and everything that was read.
AsAFreshParser ==
  \E H : \A x \in DOMAIN read : \E t : Whole(doc, x, H, t) /\ read[x] = {t.details}

\* Every operation that was read is the one that a parser reads that has just begun: it starts
\* at the first word, or after the header with nothing else in memory, and has the data of now.
\* Its outcome is a function of the data and of where it starts.  The parser of the device has
\* it in any order, with anything in between (parse_tx_xdr).
THEOREM ReadsAfresh == Spec => []AsAFreshParser
<1>1. ReadingInv => AsAFreshParser
  <2>. SUFFICES ASSUME NEW H, NEW after, NEW top, History(doc, read, offset, H, after, top)
                PROVE  AsAFreshParser
    BY DEF ReadingInv
  <2>1. ASSUME NEW x \in DOMAIN read
        PROVE  \E t : Whole(doc, x, H, t) /\ read[x] = {t.details}
    BY DEF History, KnownAt
  <2>. QED
    BY <2>1 DEF AsAFreshParser
<1>. QED
  BY <1>1, InvHolds, PTL

\* What is read from a place is always the same, and the header stays the one it was, for any
\* document and any order of readings, refusals and more data.
THEOREM ReadingsNeverDiffer == Spec => []ReadsAgree
<1>1. AsAFreshParser => ReadsAgree
  <2>. SUFFICES ASSUME NEW H,
                       \A x \in DOMAIN read : \E t : Whole(doc, x, H, t) /\ read[x] = {t.details}
                PROVE  ReadsAgree
    BY DEF AsAFreshParser
  <2>1. ASSUME NEW x \in DOMAIN read
        PROVE  \E d : read[x] = {d} /\ Header(d) = H
    BY DEF Whole
  <2>. QED
    BY <2>1 DEF ReadsAgree
<1>. QED
  BY <1>1, ReadsAfresh, PTL

\* operation_index is the number of operations before offset, modulo its width, for any document.
THEOREM IndexIsTheCount == Spec => []OperationsAreCounted
<1>1. ReadingInv => OperationsAreCounted
  BY DEF ReadingInv, Counted, Before, OperationsAreCounted
<1>. QED
  BY <1>1, InvHolds, PTL
-----------------------------------------------------------------------------
(* Fewer words are enough for what ends before them.                        *)

\* o is what a reader does with the words a, p with more of them.
Sufficient(a, o, p) == p.ok /\ p.taken <= Len(a) => o = p

LEMMA RefusalSuffices ==
  ASSUME NEW a, NEW o
  PROVE  Sufficient(a, o, Refusal)
BY DEF Sufficient, Refusal

LEMMA DoneIs ==
  ASSUME NEW n, NEW calls, NEW fields
  PROVE  Done(n, calls, fields).taken = n
BY DEF Done

LEMMA WordsSuffice ==
  ASSUME NEW a, NEW b, Prefix(a, b), NEW c, c.reader \in DOMAIN Size
  PROVE  Sufficient(a, ReadWords(a, c), ReadWords(b, c))
<1>. DEFINE n == Size[c.reader]
<1>1. n \in Nat
  BY DEF Size
<1>. HIDE DEF n
<1>2. CASE CanRead(b, n) /\ Accepts(c.reader, Ahead(b, n))
  <2>. DEFINE done == Done(n, <<>>, Written(c.to, IF c.reader = "true" THEN <<1>> ELSE Ahead(b, n)))
  <2>1. ReadWords(b, c) = done /\ done.taken = n
    BY <1>2, DoneIs DEF ReadWords, n
  <2>2. ASSUME n <= Len(a) PROVE ReadWords(a, c) = done
    <3>1. CanRead(a, n)
      BY <2>2 DEF CanRead
    <3>2. Ahead(a, n) = Ahead(b, n)
      BY <1>1, <3>1, SameAhead
    <3>. QED
      BY <1>2, <3>1, <3>2 DEF ReadWords, n
  <2>. HIDE DEF done
  <2>. QED
    BY <2>1, <2>2 DEF Sufficient
<1>3. CASE ~(CanRead(b, n) /\ Accepts(c.reader, Ahead(b, n)))
  <2>1. ReadWords(b, c) = Refusal
    BY <1>3 DEF ReadWords, n
  <2>. QED
    BY <2>1, RefusalSuffices
<1>. QED
  BY <1>2, <1>3

LEMMA TextSuffices ==
  ASSUME NEW a, NEW b, Prefix(a, b), NEW c, c.reader \in DOMAIN Texts
  PROVE  Sufficient(a, ReadText(a, c), ReadText(b, c))
<1>. DEFINE t    == Texts[c.reader]
            n    == WordsOf(b[1])
            fits == /\ CanRead(b, 1) /\ b[1] \in t.min .. t.max
                    /\ CanRead(b, n + 1)
                    /\ t.padded => Padded(Ahead(b, n + 1), b[1])
<1>1. CASE fits
  <2>. DEFINE done == Done(n + 1, <<>>, Written(c.to, Ahead(b, n + 1)))
  <2>1. ReadText(b, c) = done
    BY <1>1 DEF ReadText
  <2>2. done.taken = n + 1
    BY DoneIs
  <2>3. ASSUME n + 1 <= Len(a) PROVE ReadText(a, c) = done
    <3>1. b[1] \in Nat
      <4>1. t.min \in Nat /\ t.max \in Nat
        BY DEF Texts
      <4>. QED
        BY <1>1, <4>1
    <3>2. n + 1 \in Nat /\ 1 <= n + 1
      BY <3>1 DEF WordsOf
    <3>3. Len(a) \in Nat
      BY LenProperties DEF Prefix
    <3>4. CanRead(a, n + 1) /\ CanRead(a, 1)
      <4>. HIDE DEF n
      <4>. QED
        BY <2>3, <3>2, <3>3 DEF CanRead
    <3>5. a[1] = b[1]
      BY <3>4, SameWord
    <3>6. Ahead(a, n + 1) = Ahead(b, n + 1)
      BY <3>2, <3>4, SameAhead
    <3>. QED
      BY <1>1, <3>4, <3>5, <3>6 DEF ReadText
  <2>. HIDE DEF done
  <2>. QED
    BY <2>1, <2>2, <2>3 DEF Sufficient
<1>2. CASE ~fits
  <2>1. ReadText(b, c) = Refusal
    BY <1>2 DEF ReadText
  <2>. QED
    BY <2>1, RefusalSuffices
<1>. QED
  BY <1>1, <1>2

\* The readers that take one word.
LEMMA OneWordSuffices ==
  ASSUME NEW a, NEW b, Prefix(a, b), NEW o, NEW p,
         CanRead(a, 1) /\ CanRead(b, 1) /\ a[1] = b[1] => o = p,
         p.ok => p.taken = 1 /\ CanRead(b, 1)
  PROVE  Sufficient(a, o, p)
<1>1. SUFFICES ASSUME p.ok, p.taken <= Len(a) PROVE o = p
  BY DEF Sufficient
<1>2. CanRead(a, 1)
  BY <1>1 DEF CanRead
<1>. QED
  BY <1>1, <1>2, SameWord

LEMMA UnionSuffices ==
  ASSUME NEW a, NEW b, Prefix(a, b), NEW c
  PROVE  Sufficient(a, ReadUnion(a, c), ReadUnion(b, c))
<1>1. CanRead(a, 1) /\ CanRead(b, 1) /\ a[1] = b[1] => ReadUnion(a, c) = ReadUnion(b, c)
  BY DEF ReadUnion
<1>2. ReadUnion(b, c).ok => ReadUnion(b, c).taken = 1 /\ CanRead(b, 1)
  <2>1. CASE CanRead(b, 1) /\ Narrow(c.reader, b[1]) \in DOMAIN Unions[c.reader]
    <3>1. \E calls, fields : ReadUnion(b, c) = Done(1, calls, fields)
      BY <2>1, Zenon DEF ReadUnion
    <3>. QED
      BY <2>1, <3>1, DoneIs
  <2>2. CASE ~(CanRead(b, 1) /\ Narrow(c.reader, b[1]) \in DOMAIN Unions[c.reader])
    <3>1. ReadUnion(b, c) = Refusal
      BY <2>2 DEF ReadUnion
    <3>. QED
      BY <3>1 DEF Refusal
  <2>. QED
    BY <2>1, <2>2
<1>. QED
  BY <1>1, <1>2, OneWordSuffices

LEMMA ArraySuffices ==
  ASSUME NEW a, NEW b, Prefix(a, b), NEW c
  PROVE  Sufficient(a, ReadArray(a, c), ReadArray(b, c))
<1>1. CanRead(a, 1) /\ CanRead(b, 1) /\ a[1] = b[1] => ReadArray(a, c) = ReadArray(b, c)
  BY DEF ReadArray
<1>2. ReadArray(b, c).ok => ReadArray(b, c).taken = 1 /\ CanRead(b, 1)
  <2>1. CASE CanRead(b, 1) /\ b[1] <= Arrays[c.reader].max
    <3>1. \E calls, fields : ReadArray(b, c) = Done(1, calls, fields)
      BY <2>1, Zenon DEF ReadArray
    <3>. QED
      BY <2>1, <3>1, DoneIs
  <2>2. CASE ~(CanRead(b, 1) /\ b[1] <= Arrays[c.reader].max)
    <3>1. ReadArray(b, c) = Refusal
      BY <2>2 DEF ReadArray
    <3>. QED
      BY <3>1 DEF Refusal
  <2>. QED
    BY <2>1, <2>2
<1>. QED
  BY <1>1, <1>2, OneWordSuffices

LEMMA OptionalSuffices ==
  ASSUME NEW a, NEW b, Prefix(a, b), NEW c
  PROVE  Sufficient(a, ReadOptional(a, c), ReadOptional(b, c))
<1>1. CanRead(a, 1) /\ CanRead(b, 1) /\ a[1] = b[1] => ReadOptional(a, c) = ReadOptional(b, c)
  BY DEF ReadOptional
<1>2. ReadOptional(b, c).ok => ReadOptional(b, c).taken = 1 /\ CanRead(b, 1)
  <2>1. CASE CanRead(b, 1) /\ b[1] \in {0, 1}
    <3>1. \E calls, fields : ReadOptional(b, c) = Done(1, calls, fields)
      BY <2>1, Zenon DEF ReadOptional
    <3>. QED
      BY <2>1, <3>1, DoneIs
  <2>2. CASE ~(CanRead(b, 1) /\ b[1] \in {0, 1})
    <3>1. ReadOptional(b, c) = Refusal
      BY <2>2 DEF ReadOptional
    <3>. QED
      BY <3>1 DEF Refusal
  <2>. QED
    BY <2>1, <2>2
<1>. QED
  BY <1>1, <1>2, OneWordSuffices

\* What a reader does with some words it also does without those that it does not take.
LEMMA LessIsTheSame ==
  ASSUME NEW a, NEW b, Prefix(a, b), NEW c, Outcome(b, c).ok, Outcome(b, c).taken <= Len(a)
  PROVE  Outcome(a, c) = Outcome(b, c)
<1>1. Sufficient(a, Outcome(a, c), Outcome(b, c))
  <2>1. CASE c.optional
    BY <2>1, OptionalSuffices DEF Outcome
  <2>2. CASE ~c.optional /\ c.reader \in DOMAIN Size
    BY <2>2, WordsSuffice DEF Outcome
  <2>3. CASE ~c.optional /\ c.reader \notin DOMAIN Size /\ c.reader \in DOMAIN Texts
    BY <2>3, TextSuffices DEF Outcome
  <2>4. CASE ~c.optional /\ c.reader \notin DOMAIN Size /\ c.reader \notin DOMAIN Texts
    <3>1. Sufficient(a, CallStruct(c), CallStruct(c)) /\ Sufficient(a, Refusal, Refusal)
      BY DEF Sufficient
    <3>. QED
      BY <2>4, <3>1, UnionSuffices, ArraySuffices DEF Outcome
  <2>. QED
    BY <2>1, <2>2, <2>3, <2>4
<1>. QED
  BY <1>1 DEF Sufficient

LEMMA GoesBefore ==
  ASSUME NEW d, NEW e, Extends(e, d), NEW s, Goes(e, s), Turn(e, s).pos <= d.size
  PROVE  Goes(d, s) /\ Turn(d, s) = Turn(e, s)
<1>1. HasWords(d) /\ HasWords(e) /\ d.size \in Nat /\ s.pos \in 0 .. e.size /\ e.size \in Nat
  BY WordsAreCounted DEF Extends, Goes
<1>. DEFINE n == OutcomeAt(e, s).taken
<1>2. n \in Nat /\ Turn(e, s).pos = s.pos + n
  BY <1>1, TurnsForward DEF Turn, State
<1>. HIDE DEF n
<1>3. s.pos \in 0 .. d.size /\ n <= d.size - s.pos
  BY <1>1, <1>2
<1>4. Prefix(Left(d, s.pos), Left(e, s.pos))
  BY <1>3, MoreIsLeft
<1>5. Len(Left(d, s.pos)) = d.size - s.pos
  <2>1. d.words \in Seq(Nat) /\ d.size \in 0 .. Len(d.words) /\ Len(d.words) \in Nat
    BY <1>1, WordsAreCounted DEF HasWords
  <2>. QED
    BY <1>3, <2>1 DEF Left
<1>6. OutcomeAt(d, s) = OutcomeAt(e, s)
  BY <1>3, <1>4, <1>5, LessIsTheSame DEF OutcomeAt, Goes, n
<1>. QED
  BY <1>3, <1>6, Zenon DEF Goes, Turn

LEMMA ReadingsForward ==
  ASSUME NEW d, HasWords(d), NEW s, NEW t, NEW n, NEW h, IsReading(d, s, t, n, h)
  PROVE  \A i \in Nat : i < n => h[i + 1].pos <= t.pos
<1>0. n \in Nat /\ h[n] = t
  BY DEF IsReading
<1>. DEFINE S == {j \in Nat : \A i \in Nat : i < n /\ n <= i + 1 + j => h[i + 1].pos <= t.pos}
<1>1. 0 \in S
  <2>1. SUFFICES ASSUME NEW i \in Nat, i < n, n <= i + 1 + 0 PROVE h[i + 1].pos <= t.pos
    OBVIOUS
  <2>2. i + 1 = n
    BY <1>0, <2>1
  <2>3. Goes(d, h[i]) /\ h[i + 1] = Turn(d, h[i])
    BY <2>1 DEF IsReading
  <2>4. h[i + 1].pos \in Int
    BY <2>3, TurnsForward, WordsAreCounted DEF Goes
  <2>. QED
    BY <1>0, <2>2, <2>4
<1>2. ASSUME NEW j \in Nat, j \in S PROVE j + 1 \in S
  <2>1. SUFFICES ASSUME NEW i \in Nat, i < n, n <= i + 1 + (j + 1) PROVE h[i + 1].pos <= t.pos
    OBVIOUS
  <2>2. CASE n <= i + 1 + j
    BY <1>2, <2>1, <2>2
  <2>3. CASE ~(n <= i + 1 + j)
    <3>1. i + 1 < n /\ n <= (i + 1) + 1 + j /\ i + 1 \in Nat
      BY <1>0, <2>1, <2>3
    <3>2. h[(i + 1) + 1].pos <= t.pos
      BY <1>2, <3>1
    <3>3. Goes(d, h[i + 1]) /\ h[(i + 1) + 1] = Turn(d, h[i + 1])
      BY <3>1, Zenon DEF IsReading
    <3>. DEFINE k == i + 1
    <3>. HIDE DEF k
    <3>4. Goes(d, h[k]) /\ h[k + 1] = Turn(d, h[k]) /\ h[k + 1].pos <= t.pos
      BY <3>2, <3>3 DEF k
    <3>5. h[k].pos \in 0 .. d.size /\ h[k + 1].pos \in h[k].pos .. d.size /\ d.size \in Nat
      BY <3>4, TurnsForward, WordsAreCounted DEF Goes
    <3>6. t.pos \in Int
      <4>1. n - 1 \in Nat /\ n - 1 < n /\ (n - 1) + 1 = n
        BY <1>0, <3>1
      <4>2. Goes(d, h[n - 1]) /\ t = Turn(d, h[n - 1])
        BY <1>0, <4>1 DEF IsReading
      <4>. QED
        BY <4>2, TurnsForward, WordsAreCounted DEF Goes
    <3>7. h[k].pos <= t.pos
      BY <3>4, <3>5, <3>6
    <3>. QED
      BY <3>7 DEF k
  <2>. QED
    BY <2>2, <2>3
<1>. HIDE DEF S
<1>3. \A j \in Nat : j \in S
  BY <1>1, <1>2, Induction
<1>4. ASSUME NEW i \in Nat, i < n PROVE h[i + 1].pos <= t.pos
  <2>1. n \in S /\ n <= i + 1 + n
    BY <1>0, <1>3
  <2>. QED
    BY <1>4, <2>1 DEF S
<1>. QED
  BY <1>4

LEMMA ReachesBefore ==
  ASSUME NEW d, NEW e, Extends(e, d), NEW s, NEW t, Reaches(e, s, t), t.pos <= d.size
  PROVE  Reaches(d, s, t)
<1>1. PICK n, h : IsReading(e, s, t, n, h)
  BY DEF Reaches
<1>2. HasWords(e) /\ HasWords(d)
  BY DEF Extends
<1>3. ASSUME NEW i \in Nat, i < n PROVE Goes(d, h[i]) /\ h[i + 1] = Turn(d, h[i])
  <2>1. Goes(e, h[i]) /\ h[i + 1] = Turn(e, h[i])
    BY <1>1, <1>3, Zenon DEF IsReading
  <2>2. h[i + 1].pos <= t.pos
    BY <1>1, <1>2, <1>3, ReadingsForward
  <2>3. n \in Nat /\ h[n] = t
    BY <1>1 DEF IsReading
  <2>4. t.pos \in Int
    <3>1. n - 1 \in Nat /\ n - 1 < n /\ (n - 1) + 1 = n
      BY <1>3, <2>3
    <3>2. Goes(e, h[n - 1]) /\ t = Turn(e, h[n - 1])
      BY <1>1, <2>3, <3>1 DEF IsReading
    <3>. QED
      BY <1>2, <3>2, TurnsForward, WordsAreCounted DEF Goes
  <2>5. h[i + 1].pos \in Int
    BY <1>2, <2>1, TurnsForward, WordsAreCounted DEF Goes
  <2>6. Turn(e, h[i]).pos <= d.size
    <3>1. d.size \in Int
      BY <1>2, WordsAreCounted
    <3>2. h[i + 1].pos <= d.size
      BY <2>2, <2>4, <2>5, <3>1
    <3>. QED
      BY <2>1, <3>2
  <2>. QED
    BY <2>1, <2>6, GoesBefore
<1>4. IsReading(d, s, t, n, h)
  BY <1>1, <1>3 DEF IsReading
<1>. QED
  BY <1>4 DEF Reaches

\* A reading that comes to an end goes on until then.
LEMMA OnTheWay ==
  ASSUME NEW d, NEW s, NEW t, NEW u, Reaches(d, s, t), Reaches(d, s, u), u.todo = <<>>
  PROVE  t = u \/ Goes(d, t)
<1>1. PICK n, g : IsReading(d, s, t, n, g)
  BY DEF Reaches
<1>2. PICK m, h : IsReading(d, s, u, m, h)
  BY DEF Reaches
<1>3. n \in Nat /\ m \in Nat /\ g[n] = t /\ h[m] = u
  BY <1>1, <1>2 DEF IsReading
<1>4. \A i \in Nat : i <= n /\ i <= m => g[i] = h[i]
  BY <1>1, <1>2, ReadingsAgree
<1>5. CASE n < m
  <2>1. Goes(d, h[n])
    BY <1>2, <1>3, <1>5 DEF IsReading
  <2>2. h[n] = t
    BY <1>3, <1>4, <1>5
  <2>. QED
    BY <2>1, <2>2
<1>6. CASE m < n
  <2>1. Goes(d, g[m])
    BY <1>1, <1>3, <1>6 DEF IsReading
  <2>2. g[m] = u
    BY <1>3, <1>4, <1>6
  <2>. QED
    BY <2>1, <2>2 DEF Goes
<1>7. CASE n = m
  BY <1>3, <1>4, <1>7
<1>. QED
  BY <1>3, <1>5, <1>6, <1>7
-----------------------------------------------------------------------------
(* Documents and what they say.                                             *)

\* Where the k-th operation of a document ends.
Place(d, k) == IF k = 0 THEN 0 ELSE d.ends[k + 1]

\* All of its words.
Full(d) == [words |-> d.words, size |-> Len(d.words)]

\* Its k-th operation is what a parser reads that has just begun, with everything there.
Described(d, k, t) ==
  /\ Whole(Full(d), Place(d, k - 1), d.header, t)
  /\ t.pos = Place(d, k) /\ OperationOf(t.details) = d.ops[k]

\* After the last one there is none.
Describes(d) ==
  /\ Len(d.ops) \in Nat
  /\ \A j, k \in 0 .. Len(d.ops) : Place(d, j) \in Nat /\ (j < k => Place(d, j) < Place(d, k))
  /\ \A k \in 1 .. Len(d.ops) : \E t : Described(d, k, t)
  /\ \A t : Reaches(Full(d), Beginning(Place(d, Len(d.ops)), d.header), t) => t.todo # <<>>

LEMMA AllOfTheWords ==
  ASSUME NEW d, HasWords(d)
  PROVE  Extends(Full(d), d)
<1>1. Full(d).words = d.words /\ Full(d).size = Len(d.words)
  BY DEF Full
<1>2. HasWords(Full(d)) /\ d.size <= Len(d.words)
  BY <1>1, WordsAreCounted DEF HasWords
<1>3. Start(Full(d), d.size) = Start(d, d.size)
  BY <1>1 DEF Start
<1>. QED
  BY <1>1, <1>2, <1>3 DEF Extends

LEMMA EndsAtPlace ==
  ASSUME NEW d, HasWords(d), Describes(d), NEW k \in 0 .. Len(d.ops),
         NEW t, Reaches(d, Beginning(Place(d, k), d.header), t), t.todo = <<>>
  PROVE  k < Len(d.ops) /\ Described(d, k + 1, t) /\ t.pos = Place(d, k + 1)
<1>1. Reaches(Full(d), Beginning(Place(d, k), d.header), t)
  BY AllOfTheWords, ReachesThen
<1>2. k # Len(d.ops)
  BY <1>1 DEF Describes
<1>3. k < Len(d.ops) /\ k + 1 \in 1 .. Len(d.ops) /\ (k + 1) - 1 = k
  BY <1>2 DEF Describes
<1>4. PICK u : Described(d, k + 1, u)
  BY <1>3 DEF Describes
<1>5. Reaches(Full(d), Beginning(Place(d, k), d.header), u) /\ u.todo = <<>>
  BY <1>3, <1>4 DEF Described, Whole
<1>6. t = u
  BY <1>1, <1>5, OneEnd
<1>. QED
  BY <1>3, <1>4, <1>6 DEF Described

\* An operation that was sent in full is there for the parser.
LEMMA SentIsThere ==
  ASSUME NEW d, HasWords(d), Describes(d), NEW k \in 1 .. Len(d.ops), Place(d, k) <= d.size,
         NEW t, Described(d, k, t)
  PROVE  Whole(d, Place(d, k - 1), d.header, t)
<1>1. Reaches(Full(d), Beginning(Place(d, k - 1), d.header), t) /\ t.pos <= d.size
  BY DEF Described, Whole
<1>2. Reaches(d, Beginning(Place(d, k - 1), d.header), t)
  BY <1>1, AllOfTheWords, ReachesBefore
<1>. QED
  BY <1>2 DEF Described, Whole

\* The operations of d that were sent in full are the same in e.
SameOperation(d, e, k) ==
  /\ k <= Len(e.ops) /\ Place(e, k) = Place(d, k)
  /\ k # 0 => e.header = d.header /\ \A t : Described(d, k, t) => Described(e, k, t)

LEMMA SameOperations ==
  ASSUME NEW d, NEW e, Extends(e, d), Describes(d), Describes(e)
  PROVE  \A k \in 0 .. Len(d.ops) : Place(d, k) <= d.size => SameOperation(d, e, k)
<1>. DEFINE Same(k) == k <= Len(d.ops) /\ Place(d, k) <= d.size => SameOperation(d, e, k)
            S == {k \in Nat : Same(k)}
<1>0. HasWords(d) /\ HasWords(e) /\ Len(d.ops) \in Nat /\ Len(e.ops) \in Nat /\ d.size \in Nat
  BY WordsAreCounted DEF Extends, Describes
<1>1. 0 \in S
  BY <1>0 DEF Place, SameOperation
<1>2. ASSUME NEW k \in Nat, k \in S PROVE k + 1 \in S
  <2>1. SUFFICES ASSUME k + 1 <= Len(d.ops), Place(d, k + 1) <= d.size
                 PROVE  SameOperation(d, e, k + 1)
    OBVIOUS
  <2>. DEFINE l == k + 1
  <2>2. l \in 1 .. Len(d.ops) /\ k \in 0 .. Len(d.ops) /\ k < l /\ l # 0 /\ l - 1 = k
    BY <1>0, <2>1
  <2>. HIDE DEF l
  <2>3. Place(d, k) < Place(d, l) /\ Place(d, k) \in Nat /\ Place(d, l) \in Nat
    BY <2>2 DEF Describes
  <2>4. Place(d, l) <= d.size
    BY <2>1 DEF l
  <2>5. SameOperation(d, e, k)
    <3>1. Place(d, k) <= d.size
      BY <1>0, <2>3, <2>4
    <3>. QED
      BY <1>2, <2>2, <3>1
  <2>6. ASSUME NEW t, Described(d, l, t)
        PROVE  /\ k < Len(e.ops) /\ Described(e, l, t) /\ Place(e, l) = Place(d, l)
               /\ e.header = d.header
    <3>1. Whole(d, Place(d, k), d.header, t)
      BY <1>0, <2>2, <2>4, <2>6, SentIsThere
    <3>2. Reaches(e, Beginning(Place(d, k), d.header), t)
      BY <3>1, ReachesThen DEF Whole
    <3>3. Beginning(Place(d, k), d.header) = Beginning(Place(e, k), e.header)
      <4>1. CASE k = 0
        BY <4>1 DEF Place, Beginning
      <4>2. CASE k # 0
        BY <2>5, <4>2 DEF SameOperation
      <4>. QED
        BY <4>1, <4>2
    <3>4. k \in 0 .. Len(e.ops)
      BY <1>0, <2>5 DEF SameOperation
    <3>5. k < Len(e.ops) /\ Described(e, k + 1, t) /\ t.pos = Place(e, k + 1)
      BY <1>0, <3>1, <3>2, <3>3, <3>4, EndsAtPlace DEF Whole
    <3>6. t.pos = Place(d, l) /\ Header(t.details) = d.header
      BY <2>6, <3>1 DEF Described, Whole
    <3>7. Header(t.details) = e.header
      BY <3>5 DEF Described, Whole
    <3>. QED
      BY <3>5, <3>6, <3>7 DEF l
  <2>7. \E t : Described(d, l, t)
    BY <2>2 DEF Describes
  <2>8. k < Len(e.ops) /\ Place(e, l) = Place(d, l)
    BY <2>6, <2>7
  <2>9. l <= Len(e.ops)
    BY <1>0, <2>8 DEF l
  <2>10. SameOperation(d, e, l)
    BY <2>6, <2>7, <2>9 DEF SameOperation
  <2>. QED
    BY <2>10 DEF l
<1>. HIDE DEF S
<1>3. \A k \in Nat : k \in S
  BY <1>1, <1>2, Induction
<1>. QED
  BY <1>3 DEF S
-----------------------------------------------------------------------------
(* What is read of them.                                                    *)

DocumentsDescribed == \A d \in Documents : Describes(d)

\* f is what the document says at x.
IsSent(d, x, f) ==
  \E k, t : /\ k \in 1 .. Len(d.ops) /\ x = Place(d, k - 1) /\ Place(d, k) <= d.size
            /\ Described(d, k, t) /\ f = t.details

SentInv ==
  /\ \E k \in 0 .. Len(doc.ops) : offset = Place(doc, k)
  /\ UnderWay(doc.header)
  /\ \A x \in DOMAIN read : \A f \in read[x] : IsSent(doc, x, f)

LEMMA SentStarts ==
  ASSUME DocumentsDescribed, doc \in Documents, offset = 0, status = "idle", read = <<>>
  PROVE  SentInv
<1>1. Len(doc.ops) \in Nat
  BY DEF DocumentsDescribed, Describes
<1>2. 0 \in 0 .. Len(doc.ops) /\ offset = Place(doc, 0)
  BY <1>1 DEF Place
<1>3. DOMAIN read = {}
  OBVIOUS
<1>. QED
  BY <1>2, <1>3 DEF SentInv, UnderWay

LEMMA SentEnds ==
  ASSUME DocumentsDescribed, TypeOK, SentInv, End,
         NEW k \in 0 .. Len(doc.ops), offset = Place(doc, k)
  PROVE  /\ k < Len(doc.ops) /\ Described(doc, k + 1, Now)
         /\ pos = Place(doc, k + 1) /\ pos <= doc.size /\ Added(read, offset, Now, read')
<1>0. /\ HasWords(doc) /\ Describes(doc) /\ pos <= doc.size
      /\ Now.pos = pos /\ Now.todo = <<>> /\ Now.details = details
  BY DocumentsHaveWords, SizesAreNatural DEF DocumentsDescribed, TypeOK, End, Now, State
<1>. PICK H : H = doc.header
  OBVIOUS
<1>1. Ended(doc, offset, H, Now) /\ Added(read, offset, Now, read')
  BY ReadingEnds DEF SentInv
<1>. DEFINE t == Now
<1>. HIDE DEF t
<1>2. Reaches(doc, Beginning(Place(doc, k), doc.header), t) /\ t.todo = <<>>
  BY <1>1 DEF Ended, t
<1>3. k < Len(doc.ops) /\ Described(doc, k + 1, t) /\ t.pos = Place(doc, k + 1)
  BY <1>0, <1>2, EndsAtPlace
<1>. QED
  BY <1>0, <1>1, <1>3 DEF t

LEMMA SentStays ==
  ASSUME DocumentsDescribed, TypeOK, SentInv, [Next]_vars
  PROVE  SentInv'
<1>0. doc \in Documents /\ HasWords(doc) /\ Describes(doc)
  BY DocumentsHaveWords DEF TypeOK, DocumentsDescribed
<1>. PICK H : H = doc.header
  OBVIOUS
<1>. PICK k \in 0 .. Len(doc.ops) : offset = Place(doc, k)
  BY DEF SentInv
<1>00. UnderWay(H)
  BY DEF SentInv
<1>1. CASE Begin
  <2>1. UnderWay(H)' /\ UNCHANGED <<doc, offset, read>>
    BY <1>1, <1>00, BeginReads DEF Begin
  <2>. QED
    BY <2>1 DEF SentInv
<1>2. CASE Step
  <2>1. UnderWay(H)' /\ UNCHANGED <<doc, offset, read>>
    BY <1>2, <1>00, StepReads DEF Step
  <2>. QED
    BY <2>1 DEF SentInv
<1>3. CASE End
  <2>1. /\ k < Len(doc.ops) /\ Described(doc, k + 1, Now)
        /\ pos = Place(doc, k + 1) /\ pos <= doc.size /\ Added(read, offset, Now, read')
    BY <1>3, SentEnds
  <2>2. offset' = pos /\ status' = "idle" /\ UNCHANGED <<doc, details>> /\ Now.details = details
    BY <1>3 DEF End, Now, State
  <2>3. k + 1 \in 1 .. Len(doc.ops) /\ k + 1 \in 0 .. Len(doc.ops) /\ (k + 1) - 1 = k
    BY <1>0, <2>1 DEF Describes
  <2>. DEFINE t == Now
  <2>. HIDE DEF t
  <2>4. IsSent(doc, offset, t.details) /\ Header(t.details) = doc.header
    BY <2>1, <2>3 DEF IsSent, Described, Whole, t
  <2>5. ASSUME NEW x \in DOMAIN read', NEW f \in read'[x] PROVE IsSent(doc, x, f)
    <3>1. CASE x = offset
      <4>1. f = t.details \/ (x \in DOMAIN read /\ f \in read[x])
        BY <2>1, <2>5, <3>1 DEF Added, t
      <4>. QED
        BY <2>4, <3>1, <4>1 DEF SentInv
    <3>2. CASE x # offset
      <4>1. x \in DOMAIN read /\ f \in read[x]
        BY <2>1, <2>5, <3>2 DEF Added
      <4>. QED
        BY <4>1 DEF SentInv
    <3>. QED
      BY <3>1, <3>2
  <2>6. UnderWay(doc.header)'
    BY <2>2, <2>4 DEF UnderWay, t
  <2>7. (\E l \in 0 .. Len(doc.ops) : offset = Place(doc, l))'
    BY <2>1, <2>2, <2>3
  <2>8. (\A x \in DOMAIN read : \A f \in read[x] : IsSent(doc, x, f))'
    BY <2>2, <2>5
  <2>. QED
    BY <2>6, <2>7, <2>8 DEF SentInv
<1>4. CASE Rewind \/ Restart
  <2>1. offset' = 0 /\ UNCHANGED <<doc, read>> /\ status' # "reading"
    BY <1>4 DEF Rewind, Restart, Returned
  <2>2. 0 \in 0 .. Len(doc.ops) /\ Place(doc, 0) = 0
    BY <1>0 DEF Describes, Place
  <2>3. UnderWay(doc.header)'
    BY <2>1 DEF UnderWay
  <2>. QED
    BY <2>1, <2>2, <2>3 DEF SentInv
<1>5. CASE Load
  <2>1. (doc \in Documents /\ offset = 0 /\ status = "idle" /\ read = <<>>)'
    BY <1>5 DEF Load
  <2>2. Len(doc'.ops) \in Nat
    BY <2>1 DEF DocumentsDescribed, Describes
  <2>3. 0 \in 0 .. Len(doc'.ops) /\ offset' = Place(doc', 0)
    BY <2>1, <2>2 DEF Place
  <2>4. DOMAIN read' = {}
    BY <2>1
  <2>. QED
    BY <2>1, <2>3, <2>4 DEF SentInv, UnderWay
<1>6. CASE Extend
  <2>1. /\ Extends(doc', doc) /\ doc' \in Documents /\ doc'.size >= doc.size
        /\ UNCHANGED <<offset, details, read>> /\ status' = "idle"
    BY <1>0, <1>6, DocumentsHaveWords DEF Extend, Extends
  <2>2. Describes(doc') /\ doc'.size \in Nat /\ doc.size \in Nat
    BY <1>0, <2>1, SizesAreNatural DEF DocumentsDescribed
  <2>3. \A l \in 0 .. Len(doc.ops) : Place(doc, l) <= doc.size => SameOperation(doc, doc', l)
    BY <1>0, <2>1, <2>2, SameOperations
  <2>4. SameOperation(doc, doc', k)
    BY <2>3, SizesAreNatural DEF TypeOK
  <2>5. k \in 0 .. Len(doc'.ops) /\ offset' = Place(doc', k)
    BY <1>0, <2>1, <2>2, <2>4 DEF SameOperation, Describes
  <2>6. UnderWay(doc.header)'
    <3>1. offset # 0 => doc'.header = doc.header
      BY <2>4 DEF SameOperation, Place
    <3>. QED
      BY <2>1, <3>1 DEF SentInv, UnderWay
  <2>7. ASSUME NEW x \in DOMAIN read, NEW f \in read[x] PROVE IsSent(doc', x, f)
    <3>1. PICK l, t : /\ l \in 1 .. Len(doc.ops) /\ x = Place(doc, l - 1) /\ Place(doc, l) <= doc.size
                      /\ Described(doc, l, t) /\ f = t.details
      BY <2>7 DEF SentInv, IsSent
    <3>2. l \in 0 .. Len(doc.ops) /\ l - 1 \in 0 .. Len(doc.ops) /\ l - 1 < l /\ l # 0
      BY <1>0, <3>1 DEF Describes
    <3>3. Place(doc, l - 1) < Place(doc, l) /\ Place(doc, l - 1) \in Nat /\ Place(doc, l) \in Nat
      BY <1>0, <3>2 DEF Describes
    <3>4. SameOperation(doc, doc', l) /\ SameOperation(doc, doc', l - 1)
      <4>1. Place(doc, l - 1) <= doc.size
        BY <2>2, <3>1, <3>3
      <4>. QED
        BY <2>3, <3>1, <3>2, <4>1
    <3>5. /\ l \in 1 .. Len(doc'.ops) /\ Described(doc', l, t)
          /\ Place(doc', l) = Place(doc, l) /\ Place(doc', l - 1) = x
      BY <2>2, <3>1, <3>2, <3>4 DEF SameOperation, Describes
    <3>6. Place(doc', l) <= doc'.size
      BY <2>1, <2>2, <3>1, <3>3, <3>5
    <3>. QED
      BY <3>1, <3>5, <3>6 DEF IsSent
  <2>8. (\A x \in DOMAIN read : \A f \in read[x] : IsSent(doc, x, f))'
    BY <2>1, <2>7
  <2>. QED
    BY <2>5, <2>6, <2>8 DEF SentInv
<1>7. CASE UNCHANGED vars
  BY <1>7 DEF vars, SentInv, UnderWay
<1>. QED
  BY <1>1, <1>2, <1>3, <1>4, <1>5, <1>6, <1>7 DEF Next

LEMMA SentHolds ==
  ASSUME DocumentsDescribed
  PROVE  Spec => []SentInv
<1>1. Init => SentInv
  BY SentStarts DEF Init
<1>2. TypeOK /\ SentInv /\ [Next]_vars => SentInv'
  BY SentStays
<1>3. Spec => []TypeOK
  BY StaysInside
<1>. QED
  BY <1>1, <1>2, <1>3, PTL DEF Spec
-----------------------------------------------------------------------------
(* Where the parser is.                                                     *)

BoundaryIn(d, x) ==
  IF x = 0 THEN 0
  ELSE LET ks == {k \in 1 .. Len(d.ops) : d.ends[k + 1] = x}
       IN  IF ks = {} THEN Len(d.words) + x ELSE CHOOSE k \in ks : TRUE

LEMMA BoundaryHere ==
  /\ \A x : Boundary(x) = BoundaryIn(doc, x)
  /\ Boundary(offset)' = BoundaryIn(doc', offset')
BY DEF Boundary, BoundaryIn

LEMMA PlacesAreBoundaries ==
  ASSUME NEW d, Describes(d), NEW k \in 0 .. Len(d.ops)
  PROVE  BoundaryIn(d, Place(d, k)) = k
<1>0. Len(d.ops) \in Nat
  BY DEF Describes
<1>1. CASE k = 0
  BY <1>1 DEF Place, BoundaryIn
<1>2. CASE k # 0
  <2>. DEFINE n  == Len(d.ops)
              x  == Place(d, k)
              ks == {j \in 1 .. n : d.ends[j + 1] = x}
  <2>1. k \in 1 .. n /\ n \in Nat
    BY <1>0, <1>2
  <2>2. \A i, j \in 0 .. n : Place(d, j) \in Nat /\ (i < j => Place(d, i) < Place(d, j))
    BY DEF Describes
  <2>3. x # 0
    <3>1. Place(d, 0) < Place(d, k) /\ Place(d, 0) = 0
      BY <2>1, <2>2 DEF Place
    <3>. QED
      BY <3>1
  <2>4. \A j \in 1 .. n : d.ends[j + 1] = Place(d, j)
    BY DEF Place
  <2>. HIDE DEF n
  <2>5. \A j \in 1 .. n : Place(d, j) = Place(d, k) => j = k
    <3>1. SUFFICES ASSUME NEW j \in 1 .. n, j # k PROVE Place(d, j) # Place(d, k)
      OBVIOUS
    <3>2. j \in 0 .. n /\ k \in 0 .. n /\ (j < k \/ k < j)
      BY <2>1, <3>1
    <3>3. /\ Place(d, j) \in Nat /\ Place(d, k) \in Nat
          /\ Place(d, j) < Place(d, k) \/ Place(d, k) < Place(d, j)
      BY <2>2, <3>2
    <3>. QED
      BY <3>3
  <2>6. ks = {k}
    BY <2>1, <2>4, <2>5
  <2>7. BoundaryIn(d, x) = IF ks = {} THEN Len(d.words) + x ELSE CHOOSE j \in ks : TRUE
    BY <2>3 DEF BoundaryIn, n
  <2>8. (CHOOSE j \in {k} : TRUE) = k
    OBVIOUS
  <2>. QED
    BY <2>6, <2>7, <2>8
<1>. QED
  BY <1>1, <1>2

SentIn(d) == {k \in 1 .. Len(d.ops) : Place(d, k) <= d.size}

LEMMA SentAreCounted ==
  ASSUME NEW d, Describes(d)
  PROVE  Sent(d) = Cardinality(SentIn(d)) /\ IsFiniteSet(SentIn(d)) /\ Sent(d) \in Nat
<1>0. Len(d.ops) \in Nat
  BY DEF Describes
<1>1. SentIn(d) = {k \in 1 .. Len(d.ops) : d.ends[k + 1] <= d.size}
  BY DEF SentIn, Place
<1>2. IsFiniteSet(1 .. Len(d.ops)) /\ SentIn(d) \in SUBSET (1 .. Len(d.ops))
  BY <1>0, FS_Interval DEF SentIn
<1>. QED
  BY <1>1, <1>2, FS_Subset, FS_CardinalityType DEF Sent

\* There are k operations if the k-th was sent in full and the next was not.
LEMMA SentUpTo ==
  ASSUME NEW d, HasWords(d), Describes(d), NEW k \in 0 .. Len(d.ops), Place(d, k) <= d.size
  PROVE  /\ k <= Sent(d)
         /\ k < Len(d.ops) /\ Place(d, k + 1) <= d.size => k < Sent(d)
         /\ k < Len(d.ops) /\ ~(Place(d, k + 1) <= d.size) => Sent(d) = k
         /\ k = Len(d.ops) => Sent(d) = k
<1>. DEFINE n == Len(d.ops)
<1>0. n \in Nat /\ d.size \in Nat
  BY WordsAreCounted DEF Describes
<1>1. \A i, j \in 0 .. n : Place(d, j) \in Nat /\ (i < j => Place(d, i) < Place(d, j))
  BY DEF Describes
<1>2. SentIn(d) = {j \in 1 .. n : Place(d, j) <= d.size}
  BY DEF SentIn
<1>3. k \in 0 .. n
  OBVIOUS
<1>. HIDE DEF n
<1>4. ASSUME NEW m \in 0 .. n, Place(d, m) <= d.size PROVE m <= Sent(d) /\ 1 .. m \subseteq SentIn(d)
  <2>1. ASSUME NEW j \in 1 .. m PROVE j \in SentIn(d)
    <3>1. j \in 0 .. n /\ j \in 1 .. n /\ (j = m \/ j < m)
      BY <1>0
    <3>2. Place(d, j) \in Nat /\ Place(d, m) \in Nat /\ Place(d, j) <= Place(d, m)
      BY <1>1, <3>1
    <3>. QED
      BY <1>0, <1>2, <1>4, <3>1, <3>2
  <2>2. 1 .. m \in SUBSET SentIn(d)
    BY <2>1
  <2>3. Cardinality(1 .. m) = m
    BY <1>0, FS_Interval
  <2>4. Cardinality(1 .. m) <= Cardinality(SentIn(d))
    BY <2>2, SentAreCounted, FS_Subset
  <2>. QED
    BY <2>2, <2>3, <2>4, SentAreCounted
<1>5. ASSUME SentIn(d) \subseteq 1 .. k PROVE Sent(d) = k
  <2>1. SentIn(d) = 1 .. k
    BY <1>3, <1>4, <1>5
  <2>2. Cardinality(1 .. k) = k
    BY <1>0, <1>3, FS_Interval
  <2>. QED
    BY <2>1, <2>2, SentAreCounted
<1>6. ASSUME k < n, ~(Place(d, k + 1) <= d.size) PROVE SentIn(d) \subseteq 1 .. k
  <2>1. SUFFICES ASSUME NEW j \in 1 .. n, ~(j <= k) PROVE ~(Place(d, j) <= d.size)
    BY <1>0, <1>2, <1>3
  <2>. DEFINE l == k + 1
  <2>2. j \in 0 .. n /\ l \in 0 .. n /\ (j = l \/ l < j)
    BY <1>0, <1>3, <1>6, <2>1
  <2>. HIDE DEF l
  <2>3. Place(d, l) \in Nat /\ Place(d, j) \in Nat /\ Place(d, l) <= Place(d, j)
    BY <1>1, <2>2
  <2>4. ~(Place(d, l) <= d.size)
    BY <1>6 DEF l
  <2>. QED
    BY <1>0, <2>3, <2>4
<1>7. k = n => SentIn(d) \subseteq 1 .. k
  BY <1>2
<1>8. k < n /\ Place(d, k + 1) <= d.size => k + 1 <= Sent(d)
  BY <1>0, <1>3, <1>4
<1>9. Sent(d) \in Nat
  BY SentAreCounted
<1>. QED
  BY <1>3, <1>4, <1>5, <1>6, <1>7, <1>8, <1>9 DEF n
-----------------------------------------------------------------------------
(* The promises of the reader.                                              *)

\* If the documents say what a parser reads that has just begun, with all of the data there,
\* then the parser of the device reads what they say: in any order of the operations, again, after
\* refusals, and whatever was cut off at first.
THEOREM WhatWasSentIsRead ==
  ASSUME DocumentsDescribed
  PROVE  Spec => []ReadsWhatWasSent
<1>1. TypeOK /\ SentInv => ReadsWhatWasSent
  <2>. SUFFICES ASSUME TypeOK, SentInv, NEW x \in DOMAIN read, NEW f \in read[x]
                PROVE  /\ Boundary(x) + 1 <= Len(doc.ops)
                       /\ Header(f) = doc.header
                       /\ OperationOf(f) = doc.ops[Boundary(x) + 1]
    BY DEF ReadsWhatWasSent
  <2>0. Describes(doc)
    BY DEF DocumentsDescribed, TypeOK
  <2>1. PICK k, t : /\ k \in 1 .. Len(doc.ops) /\ x = Place(doc, k - 1)
                    /\ Described(doc, k, t) /\ f = t.details
    BY DEF SentInv, IsSent
  <2>2. k - 1 \in 0 .. Len(doc.ops) /\ (k - 1) + 1 = k /\ k <= Len(doc.ops)
    BY <2>0, <2>1 DEF Describes
  <2>3. Boundary(x) = k - 1
    BY <2>0, <2>1, <2>2, BoundaryHere, PlacesAreBoundaries
  <2>. QED
    BY <2>1, <2>2, <2>3 DEF Described, Whole
<1>2. Spec => []TypeOK /\ []SentInv
  BY StaysInside, SentHolds
<1>. QED
  BY <1>1, <1>2, PTL

\* Where there is another operation, sent in full, it is read.
LEMMA NothingIsRefused ==
  ASSUME DocumentsDescribed, TypeOK, SentInv, status = "reading", todo # <<>>, ~Goes(doc, Now),
         NEW k \in 0 .. Len(doc.ops), offset = Place(doc, k)
  PROVE  ~(k < Len(doc.ops) /\ Place(doc, k + 1) <= doc.size)
<1>1. SUFFICES ASSUME k < Len(doc.ops), Place(doc, k + 1) <= doc.size PROVE FALSE
  OBVIOUS
<1>2. HasWords(doc) /\ Describes(doc)
  BY DocumentsHaveWords DEF DocumentsDescribed, TypeOK
<1>3. k + 1 \in 1 .. Len(doc.ops) /\ (k + 1) - 1 = k
  BY <1>1, <1>2 DEF Describes
<1>4. PICK u : Described(doc, k + 1, u)
  BY <1>2, <1>3 DEF Describes
<1>5. Reaches(doc, Beginning(offset, doc.header), u) /\ u.todo = <<>>
  BY <1>1, <1>2, <1>3, <1>4, SentIsThere DEF Whole
<1>6. ASSUME NEW f, Reaches(doc, Beginning(offset, doc.header), State(pos, todo, f)) PROVE FALSE
  <2>. DEFINE s == State(pos, todo, f)
  <2>1. s.todo = todo /\ s.pos = pos
    BY DEF State
  <2>2. s # u
    BY <1>5, <2>1
  <2>3. Goes(doc, s)
    BY <1>5, <1>6, <2>2, OnTheWay
  <2>. QED
    BY <2>3, GoesOf DEF Now
<1>7. CASE offset = 0
  <2>1. ReadingHeader(doc, pos, todo, details)
    BY <1>7 DEF SentInv, UnderWay
  <2>2. Beginning(0, <<>>) = Beginning(offset, doc.header)
    BY <1>7 DEF Beginning
  <2>. QED
    BY <1>6, <2>1, <2>2 DEF ReadingHeader
<1>8. CASE offset # 0
  <2>1. ReadingOperation(doc, offset, doc.header, pos, todo, details)
    BY <1>8 DEF SentInv, UnderWay
  <2>2. ~(todo = <<ReadOperation>> /\ pos = offset)
    <3>1. SUFFICES ASSUME todo = <<ReadOperation>> PROVE Goes(doc, Now)
      OBVIOUS
    <3>2. Head(todo) = ReadOperation
      BY <3>1
    <3>3. Outcome(Left(doc, pos), Head(todo)).ok
      <4>1. Outcome(Left(doc, pos), Head(todo)) = Done(0, Calls(<<"op">>, Operation), <<>>)
        BY <3>2, OperationIsCalled, Zenon
      <4>. QED
        BY <4>1 DEF Done
    <3>4. Now.pos = pos /\ Now.todo = todo
      BY DEF Now, State
    <3>. QED
      BY <3>3, <3>4 DEF Goes, OutcomeAt, TypeOK
  <2>3. Reaches(doc, Beginning(offset, doc.header), State(pos, todo, details))
    BY <2>1, <2>2 DEF ReadingOperation
  <2>. QED
    BY <1>6, <2>3
<1>. QED
  BY <1>7, <1>8

\* Whether an operation is refused does not depend on what was read before: it is if and only
\* if it was not sent in full, or a parser that has just begun refuses it as well.
THEOREM OnlyTheDataAreRefused ==
  ASSUME DocumentsDescribed
  PROVE  Spec => RefusesOnlyInvalid
<1>. DEFINE Refused == status' \in {"failed", "thrown"} /\ status = "reading"
<1>1. ASSUME TypeOK, SentInv, [Next]_vars, Refused
      PROVE  Boundary(offset) = Sent(doc)
  <2>0. HasWords(doc) /\ Describes(doc) /\ offset <= doc.size
    BY <1>1, DocumentsHaveWords, SizesAreNatural DEF DocumentsDescribed, TypeOK
  <2>1. PICK k \in 0 .. Len(doc.ops) : offset = Place(doc, k)
    BY <1>1 DEF SentInv
  <2>2. Step
    BY <1>1 DEF Next, Begin, End, Rewind, Restart, Load, Extend, Returned, vars
  <2>3. ~Goes(doc, Now)
    <3>. DEFINE o == Outcome(Left(doc, pos), Head(todo))
    <3>1. status' # "reading"
      BY <1>1
    <3>2. ~o.ok
      <4>1. (o.ok /\ Proceed(Head(todo), o)) \/ ~o.ok
        BY <2>2 DEF Step
      <4>2. Proceed(Head(todo), o) => UNCHANGED status
        BY DEF Proceed
      <4>. QED
        BY <1>1, <4>1, <4>2
    <3>. QED
      BY <3>2 DEF Goes, OutcomeAt, Now, State
  <2>4. status = "reading" /\ todo # <<>>
    BY <2>2 DEF Step
  <2>5. ~(k < Len(doc.ops) /\ Place(doc, k + 1) <= doc.size)
    BY <1>1, <2>1, <2>3, <2>4, NothingIsRefused
  <2>6. Sent(doc) = k
    <3>1. k = Len(doc.ops) \/ k < Len(doc.ops)
      BY <2>0 DEF Describes
    <3>. QED
      BY <2>0, <2>1, <2>5, <3>1, SentUpTo
  <2>7. Boundary(offset) = k
    BY <2>0, <2>1, BoundaryHere, PlacesAreBoundaries
  <2>. QED
    BY <2>6, <2>7
<1>2. Spec => []TypeOK /\ []SentInv /\ [][Next]_vars
  BY StaysInside, SentHolds, PTL DEF Spec
<1>3. TypeOK /\ SentInv /\ [Next]_vars => [Refused => Boundary(offset) = Sent(doc)]_vars
  BY <1>1
<1>. QED
  BY <1>2, <1>3, PTL DEF RefusesOnlyInvalid

\* The parser implements the reader: it moves over the data one operation at a time, only over
\* operations that were sent in full, and numbers them.
THEOREM ParserImplementsReader ==
  ASSUME DocumentsDescribed
  PROVE  Spec => ImplementsReader
<1>1. ASSUME Init
      PROVE  AtBoundary!Init
  <2>1. Boundary(offset) = 0
    BY <1>1 DEF Init, Boundary
  <2>. QED
    BY <1>1, <2>1 DEF Init, AtBoundary!Init
<1>2. ASSUME TypeOK, SentInv, Counted, [Next]_vars
      PROVE  [AtBoundary!Next]_AtBoundary!vars
  <2>0. doc \in Documents /\ HasWords(doc) /\ Describes(doc) /\ offset <= doc.size
    BY <1>2, DocumentsHaveWords, SizesAreNatural DEF DocumentsDescribed, TypeOK
  <2>1. PICK k \in 0 .. Len(doc.ops) : offset = Place(doc, k)
    BY <1>2 DEF SentInv
  <2>2. Boundary(offset) = k
    BY <2>0, <2>1, BoundaryHere, PlacesAreBoundaries
  <2>3. offset' = 0 => Boundary(offset)' = 0
    BY DEF Boundary
  <2>4. doc' = doc /\ offset' = offset => Boundary(offset)' = Boundary(offset)
    BY BoundaryHere
  <2>5. CASE Begin
    <3>1. CASE offset = 0
      <4>1. Boundary(offset) = 0
        BY <3>1 DEF Boundary
      <4>2. AtBoundary!Begin
        BY <2>4, <2>5, <3>1, <4>1 DEF Begin, AtBoundary!Begin
      <4>. QED
        BY <4>2 DEF AtBoundary!Next
    <3>2. CASE offset # 0
      BY <2>4, <2>5, <3>2 DEF Begin, AtBoundary!vars
    <3>. QED
      BY <3>1, <3>2
  <2>6. CASE Step
    BY <2>4, <2>6 DEF Step, AtBoundary!vars
  <2>7. CASE End
    <3>1. /\ k < Len(doc.ops) /\ pos = Place(doc, k + 1) /\ pos <= doc.size
      BY <1>2, <2>1, <2>7, SentEnds
    <3>2. offset' = pos /\ doc' = doc /\ opIndex' = (opIndex + 1) % IndexWidth /\ status = "reading"
      BY <2>7 DEF End
    <3>3. k + 1 \in 0 .. Len(doc.ops)
      BY <2>0, <3>1 DEF Describes
    <3>4. Boundary(offset)' = k + 1
      <4>1. BoundaryIn(doc, Place(doc, k + 1)) = k + 1
        BY <2>0, <3>3, PlacesAreBoundaries
      <4>. QED
        BY <3>1, <3>2, <4>1, BoundaryHere
    <3>5. k < Sent(doc)
      BY <2>0, <2>1, <3>1, SentUpTo
    <3>6. k = 0 => opIndex = 0
      <4>1. k = 0 => offset = 0
        BY <2>1 DEF Place
      <4>. QED
        BY <1>2, <3>2, <4>1, NothingBefore DEF Counted
    <3>7. AtBoundary!ReadOperation
      BY <2>2, <3>2, <3>4, <3>5, <3>6 DEF AtBoundary!ReadOperation
    <3>. QED
      BY <3>7 DEF AtBoundary!Next
  <2>8. CASE Rewind
    <3>1. AtBoundary!Rewind
      BY <2>3, <2>8 DEF Rewind, AtBoundary!Rewind
    <3>. QED
      BY <3>1 DEF AtBoundary!Next
  <2>9. CASE Restart
    <3>1. AtBoundary!Restart
      BY <2>3, <2>9 DEF Restart, AtBoundary!Restart
    <3>. QED
      BY <3>1 DEF AtBoundary!Next
  <2>10. CASE Load
    <3>1. AtBoundary!Load
      BY <2>3, <2>10 DEF Load, AtBoundary!Load
    <3>. QED
      BY <3>1 DEF AtBoundary!Next
  <2>11. CASE Extend
    <3>1. /\ Extends(doc', doc) /\ doc' \in Documents /\ doc'.size >= doc.size
          /\ UNCHANGED <<offset, opIndex>>
      BY <2>0, <2>11, DocumentsHaveWords DEF Extend, Extends
    <3>2. Describes(doc') /\ doc'.size \in Nat /\ doc.size \in Nat
      BY <2>0, <3>1, SizesAreNatural DEF DocumentsDescribed
    <3>3. \A l \in 0 .. Len(doc.ops) : Place(doc, l) <= doc.size => SameOperation(doc, doc', l)
      BY <2>0, <3>1, <3>2, SameOperations
    <3>4. k \in 0 .. Len(doc'.ops) /\ offset' = Place(doc', k)
      BY <2>0, <2>1, <3>1, <3>2, <3>3 DEF SameOperation, Describes
    <3>5. Boundary(offset)' = k
      BY <3>2, <3>4, BoundaryHere, PlacesAreBoundaries
    <3>6. SentIn(doc) \in SUBSET SentIn(doc')
      <4>1. SUFFICES ASSUME NEW l \in 1 .. Len(doc.ops), Place(doc, l) <= doc.size
                     PROVE  l \in 1 .. Len(doc'.ops) /\ Place(doc', l) <= doc'.size
        BY DEF SentIn
      <4>2. l \in 0 .. Len(doc.ops) /\ Place(doc, l) \in Nat
        BY <2>0 DEF Describes
      <4>3. SameOperation(doc, doc', l)
        BY <3>3, <4>1, <4>2
      <4>4. l \in 1 .. Len(doc'.ops)
        BY <3>2, <4>3 DEF SameOperation, Describes
      <4>5. Place(doc', l) <= doc'.size
        BY <3>1, <3>2, <4>1, <4>2, <4>3 DEF SameOperation
      <4>. QED
        BY <4>4, <4>5
    <3>7. Sent(doc') >= Sent(doc)
      <4>1. Cardinality(SentIn(doc)) <= Cardinality(SentIn(doc'))
        BY <3>2, <3>6, SentAreCounted, FS_Subset
      <4>2. Sent(doc) = Cardinality(SentIn(doc)) /\ Sent(doc') = Cardinality(SentIn(doc'))
            /\ Sent(doc) \in Nat /\ Sent(doc') \in Nat
        BY <2>0, <3>2, SentAreCounted
      <4>. QED
        BY <4>1, <4>2
    <3>8. AtBoundary!Extend
      BY <2>2, <3>1, <3>5, <3>7 DEF AtBoundary!Extend
    <3>. QED
      BY <3>8 DEF AtBoundary!Next
  <2>12. CASE UNCHANGED vars
    BY <2>4, <2>12 DEF vars, AtBoundary!vars
  <2>. QED
    BY <1>2, <2>5, <2>6, <2>7, <2>8, <2>9, <2>10, <2>11, <2>12 DEF Next
<1>3. Spec => []TypeOK /\ []SentInv /\ []Counted /\ [][Next]_vars
  <2>1. ReadingInv => Counted
    BY DEF ReadingInv
  <2>. QED
    BY <2>1, StaysInside, SentHolds, InvHolds, PTL DEF Spec
<1>. QED
  BY <1>1, <1>2, <1>3, PTL DEF Spec, ImplementsReader, AtBoundary!Spec
-----------------------------------------------------------------------------
(* How many pages there are.                                                *)

\* There are at most n pages.  Pages have no type: they hold whatever was in a field.
AtMost(pages, n) == \E S : pages \in Seq(S) /\ Len(pages) <= n

LEMMA NoPages == AtMost(<<>>, 0)
<1>1. <<>> \in Seq({}) /\ Len(<<>>) = 0
  BY EmptySeq
<1>. QED
  BY <1>1 DEF AtMost

LEMMA OnePage ==
  ASSUME NEW a
  PROVE  AtMost(<<a>>, 1)
<1>. PICK S : a \in S
  <2>1. a \in {a}
    OBVIOUS
  <2>. QED
    BY <2>1
<1>1. <<a>> \in Seq(S) /\ Len(<<a>>) = 1
  OBVIOUS
<1>. QED
  BY <1>1 DEF AtMost

LEMMA Weaker ==
  ASSUME NEW p, NEW n \in Nat, NEW m \in Nat, AtMost(p, n), n <= m
  PROVE  AtMost(p, m)
<1>1. PICK S : p \in Seq(S) /\ Len(p) <= n
  BY DEF AtMost
<1>2. Len(p) \in Nat
  BY <1>1, LenProperties
<1>. QED
  BY <1>1, <1>2 DEF AtMost

LEMMA Together ==
  ASSUME NEW p, NEW q, NEW n \in Nat, NEW m \in Nat, AtMost(p, n), AtMost(q, m)
  PROVE  AtMost(p \o q, n + m)
<1>1. PICK S : p \in Seq(S) /\ Len(p) <= n
  BY DEF AtMost
<1>2. PICK T : q \in Seq(T) /\ Len(q) <= m
  BY DEF AtMost
<1>3. p \in Seq(S \cup T) /\ q \in Seq(S \cup T)
  BY <1>1, <1>2, SeqMonotonic
<1>4. p \o q \in Seq(S \cup T) /\ Len(p \o q) = Len(p) + Len(q)
  BY <1>3, ConcatProperties
<1>5. Len(p) \in Nat /\ Len(q) \in Nat
  BY <1>3, LenProperties
<1>6. Len(p \o q) <= n + m
  BY <1>1, <1>2, <1>4, <1>5
<1>. QED
  BY <1>4, <1>6 DEF AtMost

LEMMA Perhaps ==
  ASSUME NEW condition, NEW p, NEW n \in Nat, AtMost(p, n)
  PROVE  AtMost(When(condition, p), n)
<1>1. AtMost(<<>>, n)
  BY NoPages, Weaker
<1>. QED
  BY <1>1 DEF When

\* Pages that are written one by one.
LEMMA SomePages ==
  ASSUME NEW a, NEW b, NEW c, NEW d, NEW e, NEW f
  PROVE  /\ AtMost(<<a, b>>, 2) /\ AtMost(<<a, b, c>>, 3) /\ AtMost(<<a, b, c, d>>, 4)
         /\ AtMost(<<a, b, c, d, e>>, 5) /\ AtMost(<<a, b, c, d, e, f>>, 6)
<1>. PICK S : a \in S /\ b \in S /\ c \in S /\ d \in S /\ e \in S /\ f \in S
  <2>. DEFINE T == {a, b, c, d, e, f}
  <2>1. a \in T /\ b \in T /\ c \in T /\ d \in T /\ e \in T /\ f \in T
    OBVIOUS
  <2>. QED
    BY <2>1
<1>1. <<a, b>> \in Seq(S) /\ Len(<<a, b>>) = 2
  OBVIOUS
<1>2. <<a, b, c>> \in Seq(S) /\ Len(<<a, b, c>>) = 3
  OBVIOUS
<1>3. <<a, b, c, d>> \in Seq(S) /\ Len(<<a, b, c, d>>) = 4
  OBVIOUS
<1>4. <<a, b, c, d, e>> \in Seq(S) /\ Len(<<a, b, c, d, e>>) = 5
  OBVIOUS
<1>5. <<a, b, c, d, e, f>> \in Seq(S) /\ Len(<<a, b, c, d, e, f>>) = 6
  OBVIOUS
<1>. QED
  BY <1>1, <1>2, <1>3, <1>4, <1>5 DEF AtMost
-----------------------------------------------------------------------------
(* Operations.                                                              *)

LEMMA SignerFits ==
  ASSUME NEW o
  PROVE  AtMost(SignerPages(o), 3)
<1>. DEFINE weight == At(o, <<"signer", "weight">>)
            first == <<IF IsZero(weight) THEN "Remove Signer" ELSE "Add Signer",
                       Type(o, <<"signer", "key">>)>>
            second == <<"Signer Key", SignerKeyText(o, <<"signer", "key">>)>>
            third == <<"Weight", weight>>
            condition == ~IsZero(weight)
<1>1. SignerPages(o) = <<first, second>> \o When(condition, <<third>>)
  BY DEF SignerPages
<1>. HIDE DEF first, second, third, condition
<1>2. AtMost(<<first, second>>, 2) /\ AtMost(When(condition, <<third>>), 1)
  BY SomePages, OnePage, Perhaps
<1>. QED
  BY <1>1, <1>2, Together

\* Every option has a page, a signer up to three; a body that is empty has one that says so.
LEMMA SetOptionsFits ==
  ASSUME NEW o
  PROVE  AtMost(SetOptionsPages(o), 13)
<1>. DEFINE word(caption, f)  == When(Present(o, f), <<<<caption, Field(o, f)>>>>)
            flags(caption, f) == When(Present(o, f), <<<<caption, AccountFlags(Field(o, f))>>>>)
            domain            == Field(o, "home_domain") # <<>>
            empty             == ~domain /\ \A f \in OptionFields : ~Present(o, f)
            a1  == <<Title("Set Options")>>
            a2  == When(empty, <<<<"SET OPTIONS", "BODY IS EMPTY">>>>)
            a3  == word("Inflation Dest", "inflation_destination")
            a4  == flags("Clear Flags", "clear_flags")
            a5  == flags("Set Flags", "set_flags")
            a6  == word("Master Weight", "master_weight")
            a7  == word("Low Threshold", "low_threshold")
            a8  == word("Medium Threshold", "medium_threshold")
            a9  == word("High Threshold", "high_threshold")
            a10 == When(domain, <<HomeDomainPage(o)>>)
            a11 == When(Present(o, "signer"), SignerPages(o))
<1>1. SetOptionsPages(o) = a1 \o a2 \o a3 \o a4 \o a5 \o a6 \o a7 \o a8 \o a9 \o a10 \o a11
  BY DEF SetOptionsPages
<1>2. AtMost(a1, 1) /\ AtMost(a2, 1) /\ AtMost(a10, 1)
  BY OnePage, Perhaps
<1>3. ASSUME NEW caption, NEW f PROVE AtMost(word(caption, f), 1) /\ AtMost(flags(caption, f), 1)
  BY OnePage, Perhaps
<1>4. AtMost(a11, 3)
  BY SignerFits, Perhaps
<1>5. /\ AtMost(a3, 1) /\ AtMost(a4, 1) /\ AtMost(a5, 1) /\ AtMost(a6, 1) /\ AtMost(a7, 1)
      /\ AtMost(a8, 1) /\ AtMost(a9, 1)
  BY <1>3
<1>. HIDE DEF a1, a2, a3, a4, a5, a6, a7, a8, a9, a10, a11
<1>6. AtMost(a1 \o a2 \o a3, 3)
  BY <1>2, <1>5, Together
<1>7. AtMost(a1 \o a2 \o a3 \o a4 \o a5, 5)
  BY <1>5, <1>6, Together
<1>8. AtMost(a1 \o a2 \o a3 \o a4 \o a5 \o a6 \o a7, 7)
  BY <1>5, <1>7, Together
<1>9. AtMost(a1 \o a2 \o a3 \o a4 \o a5 \o a6 \o a7 \o a8 \o a9, 9)
  BY <1>5, <1>8, Together
<1>10. AtMost(a1 \o a2 \o a3 \o a4 \o a5 \o a6 \o a7 \o a8 \o a9 \o a10 \o a11, 13)
  BY <1>2, <1>4, <1>9, Together
<1>. QED
  BY <1>1, <1>10

LEMMA ChangeTrustFits ==
  ASSUME NEW o
  PROVE  AtMost(ChangeTrust(o), 5)
<1>. DEFINE limit   == Field(o, "limit")
            caption == IF IsZero(limit) THEN "Remove Trust" ELSE "Change Trust"
            type    == Type(o, <<"line">>)
            last    == When(~IsZero(limit) /\ limit # Int64Max, <<<<"Trust Limit", limit>>>>)
            asset   == <<AssetPage(caption, o, "line")>>
            pool    == <<<<caption, "Liquidity Pool Asset">>,
                         <<"Asset A">> \o AssetIn(o, <<"line", "asset_a">>),
                         <<"Asset B">> \o AssetIn(o, <<"line", "asset_b">>),
                         <<"Pool Fee Rate", At(o, <<"line", "fee">>)>>>>
<1>1. ChangeTrust(o) = CASE type = 0 -> <<>>
                         [] type \in {1, 2} -> asset \o last
                         [] OTHER -> pool \o last
  BY DEF ChangeTrust
<1>2. AtMost(last, 1) /\ AtMost(asset, 1) /\ AtMost(pool, 4)
  BY OnePage, Perhaps, SomePages
<1>. HIDE DEF last, asset, pool, type
<1>3. AtMost(<<>>, 5) /\ AtMost(asset \o last, 2) /\ AtMost(pool \o last, 5)
  BY <1>2, Together, NoPages, Weaker
<1>4. AtMost(asset \o last, 5)
  BY <1>3, Weaker
<1>. QED
  BY <1>1, <1>3, <1>4

LEMMA OfferFits ==
  ASSUME NEW o, NEW amount, NEW pages, AtMost(pages, 3)
  PROVE  AtMost(Offer(o, amount, pages), 4)
<1>. DEFINE id    == Field(o, "offer_id")
            gone  == <<"Remove Offer", id>>
            first == IF IsZero(id) THEN <<"Create Offer", "Type Active">> ELSE <<"Change Offer", id>>
<1>1. Offer(o, amount, pages) = IF IsZero(Field(o, amount)) THEN <<gone>> ELSE <<first>> \o pages
  BY DEF Offer
<1>. HIDE DEF gone, first
<1>2. AtMost(<<gone>>, 4) /\ AtMost(<<first>>, 1)
  BY OnePage, Weaker
<1>3. AtMost(<<first>> \o pages, 4)
  BY <1>2, Together
<1>. QED
  BY <1>1, <1>2, <1>3

LEMMA OffersFit ==
  ASSUME NEW o
  PROVE  /\ AtMost(ManageSellOffer(o), 4) /\ AtMost(ManageBuyOffer(o), 4)
         /\ AtMost(PassiveSellOffer(o), 4)
<1>1. AtMost(ManageSellOffer(o), 4)
  BY SomePages, OfferFits DEF ManageSellOffer
<1>2. AtMost(ManageBuyOffer(o), 4)
  BY SomePages, OfferFits DEF ManageBuyOffer
<1>3. AtMost(PassiveSellOffer(o), 4)
  BY SomePages DEF PassiveSellOffer
<1>. QED
  BY <1>1, <1>2, <1>3

LEMMA PaymentsFit ==
  ASSUME NEW o
  PROVE  /\ AtMost(CreateAccount(o), 3) /\ AtMost(Payment(o), 2)
         /\ AtMost(PathPaymentPages(o), 3) /\ AtMost(Clawback(o), 3)
<1>1. AtMost(CreateAccount(o), 3)
  BY SomePages DEF CreateAccount
<1>2. AtMost(Payment(o), 2)
  BY SomePages DEF Payment
<1>3. AtMost(PathPaymentPages(o), 3)
  BY SomePages DEF PathPaymentPages
<1>4. AtMost(Clawback(o), 3)
  BY SomePages DEF Clawback
<1>. QED
  BY <1>1, <1>2, <1>3, <1>4

LEMMA AccountsFit ==
  ASSUME NEW o, NEW payer
  PROVE  /\ AtMost(AccountMerge(o, payer), 3) /\ AtMost(AllowTrust(o), 4)
         /\ AtMost(BumpSequence(o), 2) /\ AtMost(Inflation(o), 1)
         /\ AtMost(ManageDataPages(o), 2) /\ AtMost(SetTrustLineFlags(o), 5)
<1>1. AtMost(AccountMerge(o, payer), 3)
  BY SomePages DEF AccountMerge
<1>2. AtMost(AllowTrust(o), 4)
  BY SomePages DEF AllowTrust
<1>3. AtMost(BumpSequence(o), 2)
  BY SomePages DEF BumpSequence
<1>4. AtMost(Inflation(o), 1)
  BY OnePage DEF Inflation
<1>5. AtMost(ManageDataPages(o), 2)
  <2>1. ASSUME NEW a PROVE AtMost(<<a>>, 2)
    BY OnePage, Weaker
  <2>. QED
    BY <2>1, SomePages DEF ManageDataPages
<1>6. AtMost(SetTrustLineFlags(o), 5)
  BY SomePages DEF SetTrustLineFlags
<1>. QED
  BY <1>1, <1>2, <1>3, <1>4, <1>5, <1>6

LEMMA BalancesFit ==
  ASSUME NEW o
  PROVE  /\ AtMost(CreateClaimableBalance(o), 3) /\ AtMost(ClaimClaimableBalance(o), 2)
         /\ AtMost(ClawbackClaimableBalance(o), 2)
         /\ AtMost(PoolDeposit(o), 6) /\ AtMost(PoolWithdraw(o), 5)
<1>1. AtMost(CreateClaimableBalance(o), 3)
  BY SomePages DEF CreateClaimableBalance
<1>2. AtMost(ClaimClaimableBalance(o), 2)
  BY SomePages DEF ClaimClaimableBalance
<1>3. AtMost(ClawbackClaimableBalance(o), 2)
  BY SomePages DEF ClawbackClaimableBalance
<1>4. AtMost(PoolDeposit(o), 6)
  BY SomePages DEF PoolDeposit
<1>5. AtMost(PoolWithdraw(o), 5)
  BY SomePages DEF PoolWithdraw
<1>. QED
  BY <1>1, <1>2, <1>3, <1>4, <1>5

LEMMA SponsorshipsFit ==
  ASSUME NEW o
  PROVE  AtMost(Sponsoring(o), 2) /\ AtMost(Revoke(o), 4)
<1>0. ASSUME NEW a, NEW b, NEW c
      PROVE  AtMost(<<a>>, 2) /\ AtMost(<<a, b>>, 4) /\ AtMost(<<a, b, c>>, 4)
  <2>1. AtMost(<<a>>, 1) /\ AtMost(<<a, b>>, 2) /\ AtMost(<<a, b, c>>, 3)
    BY OnePage, SomePages
  <2>. QED
    BY <2>1, Weaker
<1>1. AtMost(Sponsoring(o), 2)
  BY <1>0, SomePages DEF Sponsoring
<1>2. AtMost(RevokedSigner(o), 4)
  BY SomePages DEF RevokedSigner
<1>3. AtMost(RevokedEntry(o), 4)
  BY <1>0 DEF RevokedEntry
<1>. QED
  BY <1>1, <1>2, <1>3 DEF Revoke

LEMMA PagesFit ==
  ASSUME NEW o, NEW payer
  PROVE  AtMost(Pages(o, payer), 13)
<1>0. ASSUME NEW p, NEW n \in 0 .. 13, AtMost(p, n) PROVE AtMost(p, 13)
  BY <1>0, Weaker
<1>1. AtMost(CreateAccount(o), 13) /\ AtMost(Payment(o), 13)
  BY <1>0, PaymentsFit
<1>2. AtMost(PathPaymentPages(o), 13) /\ AtMost(Clawback(o), 13)
  BY <1>0, PaymentsFit
<1>3. AtMost(ManageSellOffer(o), 13) /\ AtMost(ManageBuyOffer(o), 13)
  BY <1>0, OffersFit
<1>4. AtMost(PassiveSellOffer(o), 13) /\ AtMost(ChangeTrust(o), 13)
  BY <1>0, OffersFit, ChangeTrustFits
<1>5. AtMost(AccountMerge(o, payer), 13) /\ AtMost(AllowTrust(o), 13)
  BY <1>0, AccountsFit
<1>6. AtMost(BumpSequence(o), 13) /\ AtMost(Inflation(o), 13)
  BY <1>0, AccountsFit
<1>7. AtMost(ManageDataPages(o), 13) /\ AtMost(SetTrustLineFlags(o), 13)
  BY <1>0, AccountsFit
<1>8. AtMost(CreateClaimableBalance(o), 13) /\ AtMost(ClaimClaimableBalance(o), 13)
  BY <1>0, BalancesFit
<1>9. AtMost(ClawbackClaimableBalance(o), 13) /\ AtMost(PoolDeposit(o), 13)
  BY <1>0, BalancesFit
<1>10. AtMost(PoolWithdraw(o), 13) /\ AtMost(Sponsoring(o), 13) /\ AtMost(Revoke(o), 13)
  BY <1>0, BalancesFit, SponsorshipsFit
<1>. QED
  BY <1>1, <1>2, <1>3, <1>4, <1>5, <1>6, <1>7, <1>8, <1>9, <1>10, SetOptionsFits DEF Pages

\* With the page of the source there are up to fourteen.
LEMMA OperationFits ==
  ASSUME NEW d
  PROVE  AtMost(Shown(d), 14)
<1>. DEFINE o      == OperationOf(d)
            pages  == Pages(o, Payer(d))
            source == When(pages # <<>> /\ Present(o, "source_account"), <<SourcePage(d)>>)
<1>1. Shown(d) = pages \o source
  BY DEF Shown
<1>2. AtMost(pages, 13) /\ AtMost(source, 1)
  BY PagesFit, OnePage, Perhaps
<1>. HIDE DEF pages, source
<1>. QED
  BY <1>1, <1>2, Together
-----------------------------------------------------------------------------
(* Headers.                                                                 *)

LEMMA ConditionFits ==
  ASSUME NEW caption, NEW d, NEW p
  PROVE  AtMost(Condition(caption, d, p), 1)
BY OnePage, Perhaps DEF Condition

LEMMA PreconditionsFit ==
  ASSUME NEW d
  PROVE  AtMost(PreconditionPages(d), 7)
<1>1. AtMost(TimeBoundsPages(d), 2)
  <2>. DEFINE a == Condition("Valid After (UTC)", d, <<"time_bounds", "min_time">>)
              b == Condition("Valid Before (UTC)", d, <<"time_bounds", "max_time">>)
  <2>1. AtMost(a, 1) /\ AtMost(b, 1)
    BY ConditionFits
  <2>2. TimeBoundsPages(d) = When(HasCondition(d, "time_bounds"), a \o b)
    BY DEF TimeBoundsPages
  <2>. HIDE DEF a, b
  <2>3. AtMost(a \o b, 2)
    BY <2>1, Together
  <2>. QED
    BY <2>2, <2>3, Perhaps
<1>2. AtMost(LedgerBoundsPages(d), 2)
  <2>. DEFINE a == Condition("Ledger Bounds Min", d, <<"ledger_bounds", "min_ledger">>)
              b == Condition("Ledger Bounds Max", d, <<"ledger_bounds", "max_ledger">>)
  <2>1. AtMost(a, 1) /\ AtMost(b, 1)
    BY ConditionFits
  <2>2. LedgerBoundsPages(d) = When(HasCondition(d, "ledger_bounds"), a \o b)
    BY DEF LedgerBoundsPages
  <2>. HIDE DEF a, b
  <2>3. AtMost(a \o b, 2)
    BY <2>1, Together
  <2>. QED
    BY <2>2, <2>3, Perhaps
<1>. DEFINE time   == TimeBoundsPages(d)
            ledger == LedgerBoundsPages(d)
            number == When(HasCondition(d, "min_seq_num"), Condition("Min Seq Num", d, <<"min_seq_num">>))
            age    == Condition("Min Seq Age", d, <<"min_seq_age">>)
            gap    == Condition("Min Seq Ledger Gap", d, <<"min_seq_ledger_gap">>)
<1>3. PreconditionPages(d) = time \o ledger \o number \o age \o gap
  BY DEF PreconditionPages
<1>4. AtMost(number, 1) /\ AtMost(age, 1) /\ AtMost(gap, 1)
  BY ConditionFits, Perhaps
<1>. HIDE DEF time, ledger, number, age, gap
<1>5. AtMost(time \o ledger \o number, 5)
  BY <1>1, <1>2, <1>4, Together DEF time, ledger
<1>6. AtMost(time \o ledger \o number \o age \o gap, 7)
  BY <1>4, <1>5, Together
<1>. QED
  BY <1>3, <1>6

\* A fee bump with every condition there is, without its sequence number: fifteen pages.
LEMMA HeaderFits ==
  ASSUME NEW h
  PROVE  AtMost(HeaderPages(h, FALSE), 15)
<1>. DEFINE network    == NetworkPage(h)
            bump       == When(IsFeeBump(h), FeeBumpPages(h))
            memo       == When(Type(h, <<"memo">>) # 0, <<MemoPage(h)>>)
            fee        == <<<<"Max Fee", Field(h, "fee")>>>>
            number     == When(FALSE, <<<<"Sequence Num", Field(h, "sequence_number")>>>>)
            conditions == PreconditionPages(h)
            source     == <<TxSourcePage(h)>>
<1>1. HeaderPages(h, FALSE) = network \o bump \o memo \o fee \o number \o conditions \o source
  BY DEF HeaderPages
<1>2. AtMost(network, 1)
  BY OnePage, Perhaps DEF NetworkPage
<1>3. AtMost(bump, 4)
  <2>1. AtMost(FeeBumpPages(h), 4)
    BY SomePages DEF FeeBumpPages
  <2>. QED
    BY <2>1, Perhaps
<1>4. AtMost(memo, 1) /\ AtMost(fee, 1) /\ AtMost(source, 1)
  BY OnePage, Perhaps
<1>5. AtMost(number, 0)
  BY NoPages DEF When
<1>6. AtMost(conditions, 7)
  BY PreconditionsFit
<1>. HIDE DEF network, bump, memo, fee, number, conditions, source
<1>7. AtMost(network \o bump \o memo, 6)
  BY <1>2, <1>3, <1>4, Together
<1>8. AtMost(network \o bump \o memo \o fee \o number, 7)
  BY <1>4, <1>5, <1>7, Together
<1>9. AtMost(network \o bump \o memo \o fee \o number \o conditions \o source, 15)
  BY <1>4, <1>6, <1>8, Together
<1>. QED
  BY <1>1, <1>9

\* No operation and no header, whatever the parser has left of it and of what was in memory
\* before, has more formatters than the stack has entries: neither review throws
\* (push_to_formatter_stack, MAX_FORMATTERS_PER_OPERATION).
THEOREM StackSuffices == Spec => []FitsStack
<1>0. ASSUME NEW p, NEW n \in Nat, AtMost(p, n) PROVE Len(p) \in Nat /\ Len(p) <= n
  <2>1. PICK S : p \in Seq(S) /\ Len(p) <= n
    BY <1>0 DEF AtMost
  <2>. QED
    BY <2>1, LenProperties
<1>1. ASSUME NEW d
      PROVE  LET captions == IF d[<<"operations_count">>][1] > 1 THEN 1 ELSE 0
             IN captions + Len(Shown(d)) + 1 <= StackSize
  <2>. DEFINE captions == IF d[<<"operations_count">>][1] > 1 THEN 1 ELSE 0
  <2>1. captions \in {0, 1}
    OBVIOUS
  <2>. HIDE DEF captions
  <2>2. Len(Shown(d)) \in Nat /\ Len(Shown(d)) <= 14
    BY <1>0, OperationFits
  <2>3. captions + Len(Shown(d)) + 1 <= StackSize
    BY <2>1, <2>2 DEF StackSize
  <2>. QED
    BY <2>3 DEF captions
<1>2. ASSUME NEW h PROVE Len(HeaderPages(h, FALSE)) + 1 <= StackSize
  <2>1. Len(HeaderPages(h, FALSE)) \in Nat /\ Len(HeaderPages(h, FALSE)) <= 15
    BY <1>0, HeaderFits
  <2>2. \A n \in Nat : n <= 15 => n + 1 <= StackSize
    BY DEF StackSize
  <2>. QED
    BY <2>1, <2>2, Zenon
<1>3. FitsStack
  BY <1>1, <1>2 DEF FitsStack
<1>. QED
  BY <1>3, PTL
-----------------------------------------------------------------------------
(* A header is told by its pages.  The pages come in a fixed order, each    *)
(* with its rank: headers with the same pages have the same at every rank.  *)

\* The place of a page in the header.
Rank(caption) ==
  CASE caption = "Network"           -> 1
    [] caption = "Fee Bump"          -> 2
    [] caption \in {"Memo Text", "Memo Text (base64)", "Memo ID", "Memo Hash", "Memo Return"} -> 3
    [] caption = "Max Fee"           -> 4
    [] caption = "Sequence Num"      -> 5
    [] caption = "Valid After (UTC)" -> 6
    [] caption = "Valid Before (UTC)" -> 7
    [] caption = "Ledger Bounds Min" -> 8
    [] caption = "Ledger Bounds Max" -> 9
    [] caption = "Min Seq Num"       -> 10
    [] caption = "Min Seq Age"       -> 11
    [] caption = "Min Seq Ledger Gap" -> 12
    [] OTHER -> 13

\* Parts, each a page or some, or none.
LEMMA PutInFront ==
  ASSUME NEW S, NEW a \in S, NEW x \in Seq(S), NEW z \in Seq(S), Len(z) = Len(x) + 1,
         z[1] = a, \A i \in 1 .. Len(x) : z[i + 1] = x[i]
  PROVE  << a >> \o x = z
<1>. DEFINE u == << a >>
            v == u \o x
<1>1. u \in Seq(S) /\ Len(u) = 1 /\ u[1] = a /\ Len(x) \in Nat
  BY LenProperties
<1>. HIDE DEF u
<1>2. /\ v \in Seq(S) /\ Len(v) = 1 + Len(x)
      /\ \A i \in 1 .. 1 + Len(x) : v[i] = IF i <= 1 THEN u[i] ELSE x[i - 1]
  <2>1. /\ v \in Seq(S) /\ Len(v) = Len(u) + Len(x)
        /\ \A i \in 1 .. Len(u) + Len(x) : v[i] = IF i <= Len(u) THEN u[i] ELSE x[i - Len(u)]
    BY <1>1, ConcatProperties
  <2>. HIDE DEF v
  <2>. QED
    BY <1>1, <2>1
<1>. HIDE DEF v
<1>3. ASSUME NEW i \in 1 .. Len(v) PROVE v[i] = z[i]
  <2>1. CASE i = 1
    BY <1>1, <1>2, <2>1
  <2>2. CASE i # 1
    <3>. DEFINE k == i - 1
    <3>1. k \in 1 .. Len(x) /\ k + 1 = i /\ ~(i <= 1) /\ i \in 1 .. 1 + Len(x)
      BY <1>1, <1>2, <2>2
    <3>2. v[i] = x[k]
      BY <1>2, <3>1
    <3>. HIDE DEF k
    <3>3. z[k + 1] = x[k]
      BY <3>1
    <3>. QED
      BY <3>1, <3>2, <3>3
  <2>. QED
    BY <2>1, <2>2
<1>4. v = z
  BY <1>1, <1>2, <1>3, SeqEqual
<1>. QED
  BY <1>4 DEF u, v

LEMMA Pairs ==
  ASSUME NEW a, NEW b
  PROVE  << a >> \o << b >> = << a, b >>
<1>. DEFINE S == {a, b}
            x == << b >>
            z == << a, b >>
<1>1. /\ a \in S /\ x \in Seq(S) /\ z \in Seq(S) /\ Len(x) = 1 /\ Len(z) = 2
      /\ x[1] = b /\ z[1] = a /\ z[2] = b
  OBVIOUS
<1>. HIDE DEF S, x, z
<1>2. Len(z) = Len(x) + 1 /\ \A i \in 1 .. Len(x) : z[i + 1] = x[i]
  BY <1>1
<1>3. << a >> \o x = z
  BY <1>1, <1>2, PutInFront
<1>. QED
  BY <1>3 DEF x, z

LEMMA Triples ==
  ASSUME NEW a, NEW b, NEW c
  PROVE  << a >> \o << b, c >> = << a, b, c >>
<1>. DEFINE S == {a, b, c}
            x == << b, c >>
            z == << a, b, c >>
<1>1. /\ a \in S /\ x \in Seq(S) /\ z \in Seq(S) /\ Len(x) = 2 /\ Len(z) = 3
      /\ x[1] = b /\ x[2] = c /\ z[1] = a /\ z[2] = b /\ z[3] = c
  OBVIOUS
<1>. HIDE DEF S, x, z
<1>2. Len(z) = Len(x) + 1 /\ \A i \in 1 .. Len(x) : z[i + 1] = x[i]
  <2>1. \A i \in 1 .. 2 : i = 1 \/ i = 2
    OBVIOUS
  <2>. QED
    BY <1>1, <2>1
<1>3. << a >> \o x = z
  BY <1>1, <1>2, PutInFront
<1>. QED
  BY <1>3 DEF x, z

LEMMA Quadruples ==
  ASSUME NEW a, NEW b, NEW c, NEW d
  PROVE  << a >> \o << b, c, d >> = << a, b, c, d >>
<1>. DEFINE S == {a, b, c, d}
            x == << b, c, d >>
            z == << a, b, c, d >>
<1>1. /\ a \in S /\ x \in Seq(S) /\ z \in Seq(S) /\ Len(x) = 3 /\ Len(z) = 4
      /\ x[1] = b /\ x[2] = c /\ x[3] = d /\ z[1] = a /\ z[2] = b /\ z[3] = c /\ z[4] = d
  OBVIOUS
<1>. HIDE DEF S, x, z
<1>2. Len(z) = Len(x) + 1 /\ \A i \in 1 .. Len(x) : z[i + 1] = x[i]
  <2>1. \A i \in 1 .. 3 : i = 1 \/ i = 2 \/ i = 3
    OBVIOUS
  <2>. QED
    BY <1>1, <2>1
<1>3. << a >> \o x = z
  BY <1>1, <1>2, PutInFront
<1>. QED
  BY <1>3 DEF x, z

\* The n pages of rank k, if they are there; and those of rank k and more.
IsPart(a, S, n, k) == a \in Seq(S) /\ (a = <<>> \/ (Len(a) = n /\ Rank(a[1][1]) = k))
IsRest(x, S, k)    == x \in Seq(S) /\ x # <<>> /\ Rank(x[1][1]) \in Nat /\ Rank(x[1][1]) >= k

SamePages(a, x, b, y) == a \o x = b \o y

LEMMA Peeled ==
  ASSUME NEW S, NEW n \in Nat \ {0}, NEW k \in Nat, NEW j, j = k + 1,
         NEW a, IsPart(a, S, n, k), NEW b, IsPart(b, S, n, k),
         NEW x, IsRest(x, S, j), NEW y, IsRest(y, S, j), SamePages(a, x, b, y)
  PROVE  a = b /\ x = y
<1>1. /\ a \in Seq(S) /\ b \in Seq(S) /\ x \in Seq(S) /\ y \in Seq(S)
      /\ Len(a) \in Nat /\ Len(b) \in Nat /\ Len(x) \in Nat \ {0} /\ Len(y) \in Nat \ {0}
      /\ a = <<>> \/ Len(a) = n
      /\ b = <<>> \/ Len(b) = n
  BY EmptySeq, LenProperties DEF IsPart, IsRest
<1>0. /\ Rank(x[1][1]) # k /\ Rank(y[1][1]) # k
      /\ a # <<>> => Rank(a[1][1]) = k
      /\ b # <<>> => Rank(b[1][1]) = k
  BY DEF IsPart, IsRest
<1>2. /\ Len(a \o x) = Len(a) + Len(x) /\ Len(b \o y) = Len(b) + Len(y)
      /\ \A i \in 1 .. Len(a) + Len(x) : (a \o x)[i] = IF i <= Len(a) THEN a[i] ELSE x[i - Len(a)]
      /\ \A i \in 1 .. Len(b) + Len(y) : (b \o y)[i] = IF i <= Len(b) THEN b[i] ELSE y[i - Len(b)]
  BY <1>1, ConcatProperties
<1>. DEFINE u == a \o x
            v == b \o y
<1>3. u = v
  BY DEF SamePages
<1>. HIDE DEF u, v
<1>4. a = <<>> => u[1] = x[1]
  BY <1>1, <1>2 DEF u
<1>5. a # <<>> => u[1] = a[1]
  BY <1>1, <1>2 DEF u
<1>6. b = <<>> => v[1] = y[1]
  BY <1>1, <1>2 DEF v
<1>7. b # <<>> => v[1] = b[1]
  BY <1>1, <1>2 DEF v
<1>8. a = <<>> <=> b = <<>>
  BY <1>0, <1>3, <1>4, <1>5, <1>6, <1>7
<1>9. Len(a) = Len(b)
  BY <1>1, <1>8
<1>10. Len(x) = Len(y)
  BY <1>1, <1>2, <1>3, <1>9 DEF u, v
<1>11. \A i \in 1 .. Len(a) : a[i] = b[i]
  BY <1>1, <1>2, <1>3, <1>9 DEF u, v
<1>12. \A i \in 1 .. Len(x) : x[i] = y[i]
  <2>1. ASSUME NEW i \in 1 .. Len(x) PROVE x[i] = y[i]
    <3>. DEFINE m == Len(a) + i
    <3>1. m \in 1 .. Len(a) + Len(x) /\ m \in 1 .. Len(b) + Len(y) /\ ~(m <= Len(a)) /\ ~(m <= Len(b))
          /\ m - Len(a) = i /\ m - Len(b) = i
      BY <1>1, <1>9, <1>10
    <3>. HIDE DEF m
    <3>2. u[m] = x[i] /\ v[m] = y[i]
      BY <1>2, <3>1 DEF u, v
    <3>. QED
      BY <1>3, <3>2
  <2>. QED
    BY <2>1
<1>13. \A s, t \in Seq(S) : Len(s) = Len(t) /\ (\A i \in 1 .. Len(s) : s[i] = t[i]) => s = t
  BY SeqEqual
<1>. QED
  BY <1>1, <1>9, <1>10, <1>11, <1>12, <1>13

LEMMA RestFollows ==
  ASSUME NEW S, NEW n \in Nat \ {0}, NEW k \in Nat, NEW j, j = k + 1,
         NEW a, IsPart(a, S, n, k), NEW x, IsRest(x, S, j)
  PROVE  IsRest(a \o x, S, k)
<1>1. /\ a \in Seq(S) /\ x \in Seq(S) /\ Len(a) \in Nat /\ Len(x) \in Nat \ {0}
      /\ a = <<>> \/ Len(a) = n
  BY EmptySeq, LenProperties DEF IsPart, IsRest
<1>0. /\ Rank(x[1][1]) \in Nat /\ Rank(x[1][1]) >= k
      /\ a # <<>> => Rank(a[1][1]) = k
  BY DEF IsPart, IsRest
<1>2. /\ a \o x \in Seq(S) /\ Len(a \o x) = Len(a) + Len(x)
      /\ \A i \in 1 .. Len(a) + Len(x) : (a \o x)[i] = IF i <= Len(a) THEN a[i] ELSE x[i - Len(a)]
  BY <1>1, ConcatProperties
<1>. DEFINE u == a \o x
<1>. HIDE DEF u
<1>3. a = <<>> => u[1] = x[1]
  BY <1>1, <1>2 DEF u
<1>4. a # <<>> => u[1] = a[1]
  BY <1>1, <1>2 DEF u
<1>5. u \in Seq(S) /\ u # <<>>
  BY <1>1, <1>2 DEF u
<1>6. Rank(u[1][1]) \in Nat /\ Rank(u[1][1]) >= k
  BY <1>0, <1>3, <1>4
<1>. QED
  BY <1>5, <1>6 DEF IsRest, u

LEMMA AccountIs ==
  ASSUME NEW h, NEW p, HasAccount(h, p)
  PROVE  \/ /\ h[p \o <<"type">>] = <<0>> /\ p \o <<"id">> \notin DOMAIN h /\ Type(h, p) = 0
            /\ MuxedIn(h, p) = << h[p \o <<"ed25519">>] >>
         \/ /\ h[p \o <<"type">>] = <<256>> /\ p \o <<"id">> \in DOMAIN h /\ Type(h, p) = 256
            /\ MuxedIn(h, p) = << h[p \o <<"ed25519">>], h[p \o <<"id">>] >>
<1>. DEFINE k == p \o <<"ed25519">>
            i == p \o <<"id">>
            t == p \o <<"type">>
<1>1. /\ k \in DOMAIN h /\ t \in DOMAIN h /\ (h[t] = <<0>> \/ h[t] = <<256>>)
      /\ i \in DOMAIN h <=> h[t] = <<256>>
  BY DEF HasAccount
<1>2. /\ Type(h, p) = h[t][1]
      /\ MuxedIn(h, p) = << h[k] >> \o When(h[t][1] # 0, << At(h, i) >>)
  BY <1>1 DEF Type, MuxedIn, At
<1>. HIDE DEF k, i, t
<1>3. CASE h[t] = <<0>>
  <2>1. h[t][1] = 0 /\ << 0 >> # << 256 >>
    BY <1>3
  <2>2. MuxedIn(h, p) = << h[k] >> \o << >>
    BY <1>2, <2>1 DEF When
  <2>3. << h[k] >> \o << >> = << h[k] >>
    OBVIOUS
  <2>. QED
    BY <1>1, <1>2, <1>3, <2>1, <2>2, <2>3 DEF k, i, t
<1>4. CASE h[t] = <<256>>
  <2>1. h[t][1] = 256 /\ i \in DOMAIN h
    BY <1>1, <1>4
  <2>2. MuxedIn(h, p) = << h[k] >> \o << h[i] >>
    BY <1>2, <2>1 DEF When, At
  <2>3. MuxedIn(h, p) = << h[k], h[i] >>
    BY <2>2, Pairs
  <2>. QED
    BY <1>1, <1>2, <1>4, <2>1, <2>3 DEF k, i, t
<1>. QED
  BY <1>1, <1>3, <1>4

\* The account and whether it is shortened.
LEMMA AccountTextIs ==
  ASSUME NEW h, NEW p, HasAccount(h, p), NEW short \in BOOLEAN, NEW c
  PROVE  LET k == h[p \o <<"ed25519">>]
             i == h[p \o <<"id">>]
             page == << c >> \o AccountText(h, p, short)
         IN \/ short /\ page = << c, "short", Ends(k) >>
            \/ ~short /\ h[p \o <<"type">>] = <<0>> /\ page = << c, "long", k >>
            \/ ~short /\ h[p \o <<"type">>] = <<256>> /\ page = << c, "long", k, i >>
<1>. DEFINE k == h[p \o <<"ed25519">>]
            i == h[p \o <<"id">>]
            t == h[p \o <<"type">>]
            m == MuxedIn(h, p)
            a == AccountText(h, p, short)
<1>1. \/ t = <<0>> /\ m = << k >>
      \/ t = <<256>> /\ m = << k, i >>
  BY AccountIs
<1>2. At(h, p \o <<"ed25519">>) = k
  BY DEF HasAccount, At
<1>3. a = IF short THEN << "short", Ends(k) >> ELSE << "long" >> \o m
  BY <1>2 DEF AccountText
<1>. HIDE DEF m, a, k, i, t
<1>4. CASE short
  <2>1. a = << "short", Ends(k) >>
    BY <1>3, <1>4
  <2>2. << c >> \o << "short", Ends(k) >> = << c, "short", Ends(k) >>
    BY Triples
  <2>. QED
    BY <1>4, <2>1, <2>2 DEF a, k, i, t
<1>5. CASE ~short /\ t = <<0>> /\ m = << k >>
  <2>1. a = << "long", k >>
    BY <1>3, <1>5, Pairs
  <2>2. << c >> \o << "long", k >> = << c, "long", k >>
    BY Triples
  <2>. QED
    BY <1>5, <2>1, <2>2 DEF a, k, i, t
<1>6. CASE ~short /\ t = <<256>> /\ m = << k, i >>
  <2>1. << "long" >> \o << k, i >> = << "long", k, i >>
    BY Triples
  <2>2. a = << "long", k, i >>
    BY <1>3, <1>6, <2>1
  <2>3. << c >> \o << "long", k, i >> = << c, "long", k, i >>
    BY Quadruples
  <2>. QED
    BY <1>6, <2>2, <2>3 DEF a, k, i, t
<1>. QED
  BY <1>1, <1>4, <1>5, <1>6

\* The account at p is shown under the caption c, shortened in g if s and in h if t.
SameText(c, g, h, p, s, t) == <<c>> \o AccountText(g, p, s) = <<c>> \o AccountText(h, p, t)

\* The field at p is told of g: h has it as well.
Told1(g, h, p) == p \in DOMAIN h /\ g[p] = h[p]

AccountTold(g, h, p) == \A f \in AccountFields(p) \cap DOMAIN g : Told1(g, h, f)

LEMMA AccountIsTold ==
  ASSUME NEW g, NEW h, NEW p, HasAccount(g, p), HasAccount(h, p), NEW c,
         NEW s \in BOOLEAN, NEW t \in BOOLEAN, s => IsOwn(g, p), t => IsOwn(h, p),
         SameText(c, g, h, p, s, t)
  PROVE  AccountTold(g, h, p)
<1>. DEFINE type == p \o <<"type">>
            key  == p \o <<"ed25519">>
            id   == p \o <<"id">>
            u    == << c >> \o AccountText(g, p, s)
            v    == << c >> \o AccountText(h, p, t)
<1>1. \/ s /\ u = << c, "short", Ends(g[key]) >>
      \/ ~s /\ g[type] = <<0>> /\ u = << c, "long", g[key] >>
      \/ ~s /\ g[type] = <<256>> /\ u = << c, "long", g[key], g[id] >>
  BY AccountTextIs
<1>2. \/ t /\ v = << c, "short", Ends(h[key]) >>
      \/ ~t /\ h[type] = <<0>> /\ v = << c, "long", h[key] >>
      \/ ~t /\ h[type] = <<256>> /\ v = << c, "long", h[key], h[id] >>
  BY AccountTextIs
<1>3. /\ type \in DOMAIN g /\ key \in DOMAIN g /\ type \in DOMAIN h /\ key \in DOMAIN h
      /\ id \in DOMAIN g <=> g[type] = <<256>>
      /\ id \in DOMAIN h <=> h[type] = <<256>>
  BY DEF HasAccount
<1>4. IsOwn(g, p) => g[type] = <<0>> /\ g[key] = DeviceKey
  <2>1. g[type][1] = 0 => g[type] = <<0>>
    BY DEF HasAccount
  <2>. QED
    BY <1>3, <2>1 DEF IsOwn, Type, At
<1>5. IsOwn(h, p) => h[type] = <<0>> /\ h[key] = DeviceKey
  <2>1. h[type][1] = 0 => h[type] = <<0>>
    BY DEF HasAccount
  <2>. QED
    BY <1>3, <2>1 DEF IsOwn, Type, At
<1>6. u = v
  BY DEF SameText
<1>. HIDE DEF type, key, id, u, v
<1>7. << 0 >> # << 256 >>
  OBVIOUS
<1>8. CASE s
  <2>1. u = << c, "short", Ends(g[key]) >>
    BY <1>1, <1>8
  <2>2. u[2] = "short"
    BY <2>1
  <2>3. t
    BY <1>2, <1>6, <2>2
  <2>4. g[type] = <<0>> /\ h[type] = <<0>> /\ g[key] = h[key]
    BY <1>4, <1>5, <1>8, <2>3
  <2>. QED
    BY <1>3, <1>7, <2>4 DEF type, key, id, AccountTold, AccountFields, Told1
<1>9. CASE ~s
  <2>1. u[2] = "long" /\ u[3] = g[key]
    BY <1>1, <1>9
  <2>2. ~t /\ v[3] = h[key]
    BY <1>2, <1>6, <2>1
  <2>3. g[key] = h[key]
    BY <1>6, <2>1, <2>2
  <2>4. g[type] = h[type] /\ (g[type] = <<256>> => g[id] = h[id])
    <3>1. \/ g[type] = <<0>> /\ Len(u) = 3
          \/ g[type] = <<256>> /\ Len(u) = 4 /\ u[4] = g[id]
      BY <1>1, <1>9
    <3>2. \/ h[type] = <<0>> /\ Len(v) = 3
          \/ h[type] = <<256>> /\ Len(v) = 4 /\ v[4] = h[id]
      BY <1>2, <2>2
    <3>. QED
      BY <1>6, <3>1, <3>2
  <2>. QED
    BY <1>3, <2>3, <2>4 DEF type, key, id, AccountTold, AccountFields, Told1
<1>. QED
  BY <1>8, <1>9

\* A page for the value at q, if it is none of zeros; and if a condition on it is there.
IfAny(h, caption, q)        == When(~IsZero(At(h, q)), <<<<caption, At(h, q)>>>>)
IfBound(h, f, caption, q)   == When(HasCondition(h, f), IfAny(h, caption, q))

\* The pages of the header from those of a rank on.
From13(h)    == <<TxSourcePage(h)>>
From12(h)    == IfAny(h, "Min Seq Ledger Gap", <<"cond", "min_seq_ledger_gap">>) \o From13(h)
From11(h)    == IfAny(h, "Min Seq Age", <<"cond", "min_seq_age">>) \o From12(h)
From10(h)    == IfBound(h, "min_seq_num", "Min Seq Num", <<"cond", "min_seq_num">>) \o From11(h)
From9(h)     == IfBound(h, "ledger_bounds", "Ledger Bounds Max",
                        <<"cond", "ledger_bounds", "max_ledger">>) \o From10(h)
From8(h)     == IfBound(h, "ledger_bounds", "Ledger Bounds Min",
                        <<"cond", "ledger_bounds", "min_ledger">>) \o From9(h)
From7(h)     == IfBound(h, "time_bounds", "Valid Before (UTC)",
                        <<"cond", "time_bounds", "max_time">>) \o From8(h)
From6(h)     == IfBound(h, "time_bounds", "Valid After (UTC)",
                        <<"cond", "time_bounds", "min_time">>) \o From7(h)
From5(h, sequence) == When(sequence, <<<<"Sequence Num", Field(h, "sequence_number")>>>>) \o From6(h)
From4(h, sequence) == <<<<"Max Fee", Field(h, "fee")>>>> \o From5(h, sequence)
From3(h, sequence) == When(Type(h, <<"memo">>) # 0, <<MemoPage(h)>>) \o From4(h, sequence)
From2(h, sequence) == When(IsFeeBump(h), FeeBumpPages(h)) \o From3(h, sequence)
From1(h, sequence) == NetworkPage(h) \o From2(h, sequence)

ConditionPagesOf(h) ==
  {<<"Min Seq Ledger Gap", At(h, <<"cond", "min_seq_ledger_gap">>)>>,
   <<"Min Seq Age", At(h, <<"cond", "min_seq_age">>)>>,
   <<"Min Seq Num", At(h, <<"cond", "min_seq_num">>)>>,
   <<"Ledger Bounds Max", At(h, <<"cond", "ledger_bounds", "max_ledger">>)>>,
   <<"Ledger Bounds Min", At(h, <<"cond", "ledger_bounds", "min_ledger">>)>>,
   <<"Valid Before (UTC)", At(h, <<"cond", "time_bounds", "max_time">>)>>,
   <<"Valid After (UTC)", At(h, <<"cond", "time_bounds", "min_time">>)>>}

PagesOf(h) ==
  ConditionPagesOf(h)
  \cup {TxSourcePage(h), <<"Sequence Num", Field(h, "sequence_number")>>,
        <<"Max Fee", Field(h, "fee")>>, MemoPage(h), <<"Network", NetworkName(Field(h, "network"))>>}
  \cup {FeeBumpPages(h)[i] : i \in 1 .. 4}

LEMMA OnePagePart ==
  ASSUME NEW S, NEW page \in S, NEW k \in Nat, Rank(page[1]) = k, NEW c
  PROVE  IsPart(<< page >>, S, 1, k) /\ IsPart(When(c, << page >>), S, 1, k)
<1>1. << page >> \in Seq(S) /\ Len(<< page >>) = 1 /\ << page >>[1] = page
  OBVIOUS
<1>2. << >> \in Seq(S)
  BY EmptySeq
<1>. QED
  BY <1>1, <1>2 DEF IsPart, When

LEMMA PartOrNone ==
  ASSUME NEW S, NEW a, NEW n, NEW k, IsPart(a, S, n, k), NEW c
  PROVE  IsPart(When(c, a), S, n, k)
<1>1. << >> \in Seq(S)
  BY EmptySeq
<1>. QED
  BY <1>1 DEF IsPart, When

LEMMA Ranks ==
  /\ Rank("Network") = 1 /\ Rank("Fee Bump") = 2
  /\ Rank("Memo Text") = 3 /\ Rank("Memo Text (base64)") = 3 /\ Rank("Memo ID") = 3
  /\ Rank("Memo Hash") = 3 /\ Rank("Memo Return") = 3
  /\ Rank("Max Fee") = 4 /\ Rank("Sequence Num") = 5
  /\ Rank("Valid After (UTC)") = 6 /\ Rank("Valid Before (UTC)") = 7
  /\ Rank("Ledger Bounds Min") = 8 /\ Rank("Ledger Bounds Max") = 9
  /\ Rank("Min Seq Num") = 10 /\ Rank("Min Seq Age") = 11 /\ Rank("Min Seq Ledger Gap") = 12
  /\ Rank("Tx Source") = 13
BY DEF Rank

LEMMA ConditionParts ==
  ASSUME NEW h, NEW S, ConditionPagesOf(h) \subseteq S
  PROVE  /\ IsPart(IfAny(h, "Min Seq Ledger Gap", <<"cond", "min_seq_ledger_gap">>), S, 1, 12)
         /\ IsPart(IfAny(h, "Min Seq Age", <<"cond", "min_seq_age">>), S, 1, 11)
         /\ IsPart(IfBound(h, "min_seq_num", "Min Seq Num", <<"cond", "min_seq_num">>), S, 1, 10)
         /\ IsPart(IfBound(h, "ledger_bounds", "Ledger Bounds Max",
                           <<"cond", "ledger_bounds", "max_ledger">>), S, 1, 9)
         /\ IsPart(IfBound(h, "ledger_bounds", "Ledger Bounds Min",
                           <<"cond", "ledger_bounds", "min_ledger">>), S, 1, 8)
         /\ IsPart(IfBound(h, "time_bounds", "Valid Before (UTC)",
                           <<"cond", "time_bounds", "max_time">>), S, 1, 7)
         /\ IsPart(IfBound(h, "time_bounds", "Valid After (UTC)",
                           <<"cond", "time_bounds", "min_time">>), S, 1, 6)
<1>1. ASSUME NEW caption, NEW q, NEW k \in Nat, Rank(caption) = k, << caption, At(h, q) >> \in S
      PROVE  IsPart(IfAny(h, caption, q), S, 1, k) /\ \A f : IsPart(IfBound(h, f, caption, q), S, 1, k)
  <2>. DEFINE page == << caption, At(h, q) >>
  <2>1. page \in S /\ Rank(page[1]) = k
    BY <1>1
  <2>. HIDE DEF page
  <2>2. IsPart(When(~IsZero(At(h, q)), << page >>), S, 1, k)
    BY <2>1, OnePagePart
  <2>3. IsPart(IfAny(h, caption, q), S, 1, k)
    BY <2>2 DEF IfAny, page
  <2>4. \A f : IsPart(When(HasCondition(h, f), IfAny(h, caption, q)), S, 1, k)
    BY <2>3, PartOrNone
  <2>. QED
    BY <2>3, <2>4 DEF IfBound
<1>2. /\ 6 \in Nat /\ 7 \in Nat /\ 8 \in Nat /\ 9 \in Nat /\ 10 \in Nat /\ 11 \in Nat /\ 12 \in Nat
  OBVIOUS
<1>. QED
  BY <1>1, <1>2, Ranks DEF ConditionPagesOf

LEMMA HeaderParts ==
  ASSUME NEW h, NEW S, PagesOf(h) \subseteq S, NEW sequence \in BOOLEAN
  PROVE  /\ IsPart(<<TxSourcePage(h)>>, S, 1, 13)
         /\ IsPart(When(sequence, <<<<"Sequence Num", Field(h, "sequence_number")>>>>), S, 1, 5)
         /\ IsPart(<<<<"Max Fee", Field(h, "fee")>>>>, S, 1, 4)
         /\ IsPart(When(Type(h, <<"memo">>) # 0, <<MemoPage(h)>>), S, 1, 3)
         /\ IsPart(When(IsFeeBump(h), FeeBumpPages(h)), S, 4, 2)
         /\ IsPart(NetworkPage(h), S, 1, 1)
<1>0. /\ TxSourcePage(h) \in S /\ MemoPage(h) \in S
      /\ << "Sequence Num", Field(h, "sequence_number") >> \in S
      /\ << "Max Fee", Field(h, "fee") >> \in S
      /\ << "Network", NetworkName(Field(h, "network")) >> \in S
      /\ \A i \in 1 .. 4 : FeeBumpPages(h)[i] \in S
  BY DEF PagesOf
<1>1. Rank(TxSourcePage(h)[1]) = 13
  <2>. DEFINE p     == <<"source_account">>
              k     == At(h, p \o <<"ed25519">>)
              id    == At(h, p \o <<"id">>)
              short == ~IsFeeBump(h) /\ IsOwn(h, p)
              Q     == {"Tx Source", "short", "long", k, id, Ends(k)}
              m     == MuxedIn(h, p)
              a     == AccountText(h, p, short)
  <2>1. m \in Seq(Q)
    <3>1. << k >> \in Seq(Q) /\ << id >> \in Seq(Q) /\ << >> \in Seq(Q)
      OBVIOUS
    <3>2. m = << k >> \o When(Type(h, p) # 0, << id >>)
      BY DEF MuxedIn
    <3>3. When(Type(h, p) # 0, << id >>) \in Seq(Q)
      BY <3>1 DEF When
    <3>. HIDE DEF m, k, id, Q
    <3>. QED
      BY <3>1, <3>2, <3>3, ConcatProperties
  <2>2. << "short", Ends(k) >> \in Seq(Q) /\ << "long" >> \in Seq(Q) /\ << "Tx Source" >> \in Seq(Q)
    OBVIOUS
  <2>3. a = IF short THEN << "short", Ends(k) >> ELSE << "long" >> \o m
    BY DEF AccountText
  <2>4. TxSourcePage(h) = << "Tx Source" >> \o a
    BY DEF TxSourcePage
  <2>. HIDE DEF m, k, id, Q, a, short
  <2>5. << "long" >> \o m \in Seq(Q)
    BY <2>1, <2>2, ConcatProperties
  <2>6. a \in Seq(Q)
    BY <2>2, <2>3, <2>5
  <2>. DEFINE c == << "Tx Source" >>
  <2>7. c \in Seq(Q) /\ Len(c) = 1 /\ c[1] = "Tx Source" /\ Len(a) \in Nat
    BY <2>2, <2>6, LenProperties
  <2>. HIDE DEF c
  <2>8. \A i \in 1 .. Len(c) + Len(a) : (c \o a)[i] = IF i <= Len(c) THEN c[i] ELSE a[i - Len(c)]
    BY <2>6, <2>7, ConcatProperties
  <2>9. (c \o a)[1] = "Tx Source"
    <3>0. Len(c) = 1 /\ Len(a) \in Nat
      BY <2>7, Zenon
    <3>1. 1 \in 1 .. Len(c) + Len(a) /\ 1 <= Len(c)
      BY <3>0
    <3>2. (c \o a)[1] = IF 1 <= Len(c) THEN c[1] ELSE a[1 - Len(c)]
      BY <2>8, <3>1
    <3>. QED
      BY <2>7, <3>1, <3>2
  <2>. QED
    BY <2>4, <2>9, Ranks DEF c
<1>2. Rank(MemoPage(h)[1]) = 3
  BY Ranks DEF MemoPage
<1>3. IsPart(<<TxSourcePage(h)>>, S, 1, 13)
  BY <1>0, <1>1, OnePagePart
<1>4. IsPart(When(Type(h, <<"memo">>) # 0, <<MemoPage(h)>>), S, 1, 3)
  BY <1>0, <1>2, OnePagePart
<1>5. ASSUME NEW caption, NEW v, NEW k \in Nat, Rank(caption) = k, << caption, v >> \in S
      PROVE  IsPart(<< << caption, v >> >>, S, 1, k) /\ \A c : IsPart(When(c, << << caption, v >> >>), S, 1, k)
  <2>. DEFINE page == << caption, v >>
  <2>1. page \in S /\ Rank(page[1]) = k
    BY <1>5
  <2>. HIDE DEF page
  <2>2. IsPart(<< page >>, S, 1, k) /\ \A c : IsPart(When(c, << page >>), S, 1, k)
    BY <2>1, OnePagePart
  <2>. QED
    BY <2>2 DEF page
<1>6. /\ IsPart(When(sequence, <<<<"Sequence Num", Field(h, "sequence_number")>>>>), S, 1, 5)
      /\ IsPart(<<<<"Max Fee", Field(h, "fee")>>>>, S, 1, 4)
  BY <1>0, <1>5, Ranks
<1>7. IsPart(NetworkPage(h), S, 1, 1)
  BY <1>0, <1>5, Ranks DEF NetworkPage
<1>8. IsPart(When(IsFeeBump(h), FeeBumpPages(h)), S, 4, 2)
  <2>. DEFINE f == FeeBumpPages(h)
  <2>1. PICK b, c, d : f = << <<"Fee Bump", "Transaction Details">>, b, c, d >>
    BY DEF FeeBumpPages
  <2>. HIDE DEF f
  <2>2. f \in Seq({f[1], f[2], f[3], f[4]}) /\ Len(f) = 4 /\ f[1][1] = "Fee Bump"
    <3>. DEFINE e == <<"Fee Bump", "Transaction Details">>
    <3>1. e[1] = "Fee Bump"
      OBVIOUS
    <3>. HIDE DEF e
    <3>2. f = << e, b, c, d >>
      BY <2>1 DEF e
    <3>3. f[1] = e /\ f[2] = b /\ f[3] = c /\ f[4] = d /\ Len(f) = 4
      BY <3>2
    <3>4. f \in Seq({e, b, c, d})
      BY <3>2
    <3>. QED
      BY <3>1, <3>3, <3>4
  <2>3. \A i \in 1 .. 4 : f[i] \in S
    BY <1>0 DEF f
  <2>4. f \in Seq(S)
    <3>1. {f[1], f[2], f[3], f[4]} \subseteq S
      BY <2>3
    <3>. QED
      BY <2>2, <3>1, SeqMonotonic
  <2>5. IsPart(f, S, 4, 2)
    BY <2>2, <2>4, Ranks DEF IsPart
  <2>. QED
    BY <2>5, PartOrNone DEF f
<1>. QED
  BY <1>3, <1>4, <1>6, <1>7, <1>8

LeftToRight(a, b, c, d, e, f, t) == (((((a \o b) \o c) \o d) \o e) \o f) \o t
RightToLeft(a, b, c, d, e, f, t) == a \o (b \o (c \o (d \o (e \o (f \o t)))))

AreOf(S, a, b, c, d, e, f, t) ==
  /\ a \in Seq(S) /\ b \in Seq(S) /\ c \in Seq(S) /\ d \in Seq(S) /\ e \in Seq(S)
  /\ f \in Seq(S) /\ t \in Seq(S)

AllOf(S, a, b, c) == a \in Seq(S) /\ b \in Seq(S) /\ c \in Seq(S)

LEMMA Reassociated ==
  ASSUME NEW S, NEW a, NEW b, NEW c, AllOf(S, a, b, c)
  PROVE  (a \o b) \o c = a \o (b \o c)
<1>1. a \in Seq(S) /\ b \in Seq(S) /\ c \in Seq(S)
  BY DEF AllOf
<1>. QED
  BY <1>1, ConcatAssociative

LEMMA Bracketed ==
  ASSUME NEW S, NEW a, NEW b, NEW c, NEW d, NEW e, NEW f, NEW t, AreOf(S, a, b, c, d, e, f, t)
  PROVE  LeftToRight(a, b, c, d, e, f, t) = RightToLeft(a, b, c, d, e, f, t)
<1>. DEFINE v1 == a \o b
            v2 == v1 \o c
            v3 == v2 \o d
            v4 == v3 \o e
            w1 == f \o t
            w2 == e \o w1
            w3 == d \o w2
            w4 == c \o w3
            w5 == b \o w4
<1>0. /\ a \in Seq(S) /\ b \in Seq(S) /\ c \in Seq(S) /\ d \in Seq(S) /\ e \in Seq(S)
      /\ f \in Seq(S) /\ t \in Seq(S)
  BY DEF AreOf
<1>1. v1 \in Seq(S) /\ w1 \in Seq(S)
  BY <1>0, ConcatProperties
<1>2. v2 \in Seq(S) /\ w2 \in Seq(S)
  <2>. HIDE DEF v1, w1
  <2>. QED
    BY <1>0, <1>1, ConcatProperties
<1>3. v3 \in Seq(S) /\ w3 \in Seq(S)
  <2>. HIDE DEF v2, w2
  <2>. QED
    BY <1>0, <1>2, ConcatProperties
<1>4. v4 \in Seq(S) /\ w4 \in Seq(S)
  <2>. HIDE DEF v3, w3
  <2>. QED
    BY <1>0, <1>3, ConcatProperties
<1>5. (v4 \o f) \o t = v4 \o w1
  <2>. HIDE DEF v4
  <2>1. AllOf(S, v4, f, t)
    BY <1>0, <1>4 DEF AllOf
  <2>. QED
    BY <2>1, Reassociated
<1>6. (v3 \o e) \o w1 = v3 \o w2
  <2>. HIDE DEF v3, w1
  <2>1. AllOf(S, v3, e, w1)
    BY <1>0, <1>1, <1>3 DEF AllOf
  <2>. QED
    BY <2>1, Reassociated
<1>7. (v2 \o d) \o w2 = v2 \o w3
  <2>. HIDE DEF v2, w2
  <2>1. AllOf(S, v2, d, w2)
    BY <1>0, <1>2 DEF AllOf
  <2>. QED
    BY <2>1, Reassociated
<1>8. (v1 \o c) \o w3 = v1 \o w4
  <2>. HIDE DEF v1, w3
  <2>1. AllOf(S, v1, c, w3)
    BY <1>0, <1>1, <1>3 DEF AllOf
  <2>. QED
    BY <2>1, Reassociated
<1>9. (a \o b) \o w4 = a \o w5
  <2>. HIDE DEF w4
  <2>1. AllOf(S, a, b, w4)
    BY <1>0, <1>4 DEF AllOf
  <2>. QED
    BY <2>1, Reassociated
<1>. QED
  BY <1>5, <1>6, <1>7, <1>8, <1>9 DEF LeftToRight, RightToLeft

LEMMA Paths ==
  /\ <<"cond">> \o <<"min_seq_ledger_gap">> = <<"cond", "min_seq_ledger_gap">>
  /\ <<"cond">> \o <<"min_seq_age">> = <<"cond", "min_seq_age">>
  /\ <<"cond">> \o <<"min_seq_num">> = <<"cond", "min_seq_num">>
  /\ <<"cond">> \o <<"ledger_bounds", "max_ledger">> = <<"cond", "ledger_bounds", "max_ledger">>
  /\ <<"cond">> \o <<"ledger_bounds", "min_ledger">> = <<"cond", "ledger_bounds", "min_ledger">>
  /\ <<"cond">> \o <<"time_bounds", "max_time">> = <<"cond", "time_bounds", "max_time">>
  /\ <<"cond">> \o <<"time_bounds", "min_time">> = <<"cond", "time_bounds", "min_time">>
BY Pairs, Triples

LEMMA ConditionIs ==
  ASSUME NEW h, NEW caption, NEW p
  PROVE  Condition(caption, h, p) = IfAny(h, caption, <<"cond">> \o p)
BY DEF Condition, IfAny

LEMMA RangeIs ==
  ASSUME NEW S, NEW c, NEW a \in Seq(S), NEW b \in Seq(S)
  PROVE  When(c, a \o b) = When(c, a) \o When(c, b)
<1>1. << >> \o << >> = << >>
  OBVIOUS
<1>. QED
  BY <1>1 DEF When

\* The pages of a header, one part behind the other.
LEMMA Arranged ==
  ASSUME NEW h, NEW sequence \in BOOLEAN
  PROVE  HeaderPages(h, sequence) = From1(h, sequence)
<1>. DEFINE S   == PagesOf(h)
            a1  == NetworkPage(h)
            a2  == When(IsFeeBump(h), FeeBumpPages(h))
            a3  == When(Type(h, <<"memo">>) # 0, <<MemoPage(h)>>)
            a4  == <<<<"Max Fee", Field(h, "fee")>>>>
            a5  == When(sequence, <<<<"Sequence Num", Field(h, "sequence_number")>>>>)
            a6  == IfBound(h, "time_bounds", "Valid After (UTC)", <<"cond", "time_bounds", "min_time">>)
            a7  == IfBound(h, "time_bounds", "Valid Before (UTC)", <<"cond", "time_bounds", "max_time">>)
            a8  == IfBound(h, "ledger_bounds", "Ledger Bounds Min",
                           <<"cond", "ledger_bounds", "min_ledger">>)
            a9  == IfBound(h, "ledger_bounds", "Ledger Bounds Max",
                           <<"cond", "ledger_bounds", "max_ledger">>)
            a10 == IfBound(h, "min_seq_num", "Min Seq Num", <<"cond", "min_seq_num">>)
            a11 == IfAny(h, "Min Seq Age", <<"cond", "min_seq_age">>)
            a12 == IfAny(h, "Min Seq Ledger Gap", <<"cond", "min_seq_ledger_gap">>)
            a13 == <<TxSourcePage(h)>>
            P   == PreconditionPages(h)
<1>1. ConditionPagesOf(h) \subseteq S
  BY DEF PagesOf
<1>2. /\ a6 \in Seq(S) /\ a7 \in Seq(S) /\ a8 \in Seq(S) /\ a9 \in Seq(S) /\ a10 \in Seq(S)
      /\ a11 \in Seq(S) /\ a12 \in Seq(S)
  <2>. HIDE DEF S
  <2>. QED
    BY <1>1, ConditionParts DEF IsPart
<1>3. /\ a1 \in Seq(S) /\ a2 \in Seq(S) /\ a3 \in Seq(S) /\ a4 \in Seq(S) /\ a5 \in Seq(S)
      /\ a13 \in Seq(S)
  BY HeaderParts DEF IsPart
<1>4. TimeBoundsPages(h) = a6 \o a7
  <2>. DEFINE x == IfAny(h, "Valid After (UTC)", <<"cond", "time_bounds", "min_time">>)
              y == IfAny(h, "Valid Before (UTC)", <<"cond", "time_bounds", "max_time">>)
  <2>1. TimeBoundsPages(h) = When(HasCondition(h, "time_bounds"), x \o y)
    BY ConditionIs, Paths DEF TimeBoundsPages
  <2>2. \E T : x \in Seq(T) /\ y \in Seq(T)
    <3>. DEFINE v == <<"Valid After (UTC)", At(h, <<"cond", "time_bounds", "min_time">>)>>
                w == <<"Valid Before (UTC)", At(h, <<"cond", "time_bounds", "max_time">>)>>
    <3>1. x = << v >> \/ x = << >>
      BY Zenon DEF IfAny, When
    <3>2. y = << w >> \/ y = << >>
      BY Zenon DEF IfAny, When
    <3>. HIDE DEF x, y, v, w
    <3>3. /\ << v >> \in Seq({v, w}) /\ << w >> \in Seq({v, w}) /\ << >> \in Seq({v, w})
      OBVIOUS
    <3>4. x \in Seq({v, w}) /\ y \in Seq({v, w})
      BY <3>1, <3>2, <3>3
    <3>. QED
      BY <3>4
  <2>. HIDE DEF x, y
  <2>3. When(HasCondition(h, "time_bounds"), x \o y)
        = When(HasCondition(h, "time_bounds"), x) \o When(HasCondition(h, "time_bounds"), y)
    BY <2>2, RangeIs
  <2>. QED
    BY <2>1, <2>3 DEF IfBound, x, y
<1>5. LedgerBoundsPages(h) = a8 \o a9
  <2>. DEFINE x == IfAny(h, "Ledger Bounds Min", <<"cond", "ledger_bounds", "min_ledger">>)
              y == IfAny(h, "Ledger Bounds Max", <<"cond", "ledger_bounds", "max_ledger">>)
  <2>1. LedgerBoundsPages(h) = When(HasCondition(h, "ledger_bounds"), x \o y)
    BY ConditionIs, Paths DEF LedgerBoundsPages
  <2>2. \E T : x \in Seq(T) /\ y \in Seq(T)
    <3>. DEFINE v == <<"Ledger Bounds Min", At(h, <<"cond", "ledger_bounds", "min_ledger">>)>>
                w == <<"Ledger Bounds Max", At(h, <<"cond", "ledger_bounds", "max_ledger">>)>>
    <3>1. x = << v >> \/ x = << >>
      BY Zenon DEF IfAny, When
    <3>2. y = << w >> \/ y = << >>
      BY Zenon DEF IfAny, When
    <3>. HIDE DEF x, y, v, w
    <3>3. /\ << v >> \in Seq({v, w}) /\ << w >> \in Seq({v, w}) /\ << >> \in Seq({v, w})
      OBVIOUS
    <3>4. x \in Seq({v, w}) /\ y \in Seq({v, w})
      BY <3>1, <3>2, <3>3
    <3>. QED
      BY <3>4
  <2>. HIDE DEF x, y
  <2>3. When(HasCondition(h, "ledger_bounds"), x \o y)
        = When(HasCondition(h, "ledger_bounds"), x) \o When(HasCondition(h, "ledger_bounds"), y)
    BY <2>2, RangeIs
  <2>. QED
    BY <2>1, <2>3 DEF IfBound, x, y
<1>6. P = (((((a6 \o a7) \o (a8 \o a9)) \o a10) \o a11) \o a12)
  <2>1. /\ Condition("Min Seq Num", h, <<"min_seq_num">>) = IfAny(h, "Min Seq Num", <<"cond", "min_seq_num">>)
        /\ Condition("Min Seq Age", h, <<"min_seq_age">>) = a11
        /\ Condition("Min Seq Ledger Gap", h, <<"min_seq_ledger_gap">>) = a12
    BY ConditionIs, Paths
  <2>. QED
    BY <1>4, <1>5, <2>1 DEF PreconditionPages, IfBound
<1>7. HeaderPages(h, sequence) = (((((a1 \o a2) \o a3) \o a4) \o a5) \o P) \o a13
  BY DEF HeaderPages
<1>8. From1(h, sequence) =
        a1 \o (a2 \o (a3 \o (a4 \o (a5 \o (a6 \o (a7 \o (a8 \o (a9 \o (a10 \o (a11 \o (a12 \o a13)))))))))))
  BY DEF From1, From2, From3, From4, From5, From6, From7, From8, From9, From10, From11, From12, From13
<1>. HIDE DEF S, a1, a2, a3, a4, a5, a6, a7, a8, a9, a10, a11, a12, a13, P
<1>9. P \in Seq(S)
  <2>1. a6 \o a7 \in Seq(S) /\ a8 \o a9 \in Seq(S)
    BY <1>2, ConcatProperties
  <2>. DEFINE x == a6 \o a7
              y == a8 \o a9
              z == x \o y
  <2>2. x \in Seq(S) /\ y \in Seq(S)
    BY <2>1
  <2>3. z \in Seq(S)
    <3>. HIDE DEF x, y
    <3>. QED
      BY <2>2, ConcatProperties
  <2>. HIDE DEF z
  <2>4. z \o a10 \in Seq(S)
    BY <1>2, <2>3, ConcatProperties
  <2>. DEFINE z2 == z \o a10
              z3 == z2 \o a11
  <2>5. z2 \in Seq(S)
    BY <2>4
  <2>6. z3 \in Seq(S)
    <3>. HIDE DEF z2
    <3>. QED
      BY <1>2, <2>5, ConcatProperties
  <2>7. P = z3 \o a12
    BY <1>6 DEF z
  <2>. HIDE DEF z3
  <2>. QED
    BY <1>2, <2>6, <2>7, ConcatProperties
<1>10. (((((a1 \o a2) \o a3) \o a4) \o a5) \o P) \o a13 = a1 \o (a2 \o (a3 \o (a4 \o (a5 \o (P \o a13)))))
  <2>1. LeftToRight(a1, a2, a3, a4, a5, P, a13) = RightToLeft(a1, a2, a3, a4, a5, P, a13)
    <3>1. AreOf(S, a1, a2, a3, a4, a5, P, a13)
      BY <1>3, <1>9 DEF AreOf
    <3>. QED
      BY <3>1, Bracketed
  <2>. QED
    BY <2>1 DEF LeftToRight, RightToLeft
<1>11. P \o a13 = a6 \o (a7 \o (a8 \o (a9 \o (a10 \o (a11 \o (a12 \o a13))))))
  <2>. DEFINE y == a8 \o a9
              w == a10 \o (a11 \o (a12 \o a13))
  <2>1. y \in Seq(S)
    BY <1>2, ConcatProperties
  <2>2. w \in Seq(S)
    <3>1. a12 \o a13 \in Seq(S)
      BY <1>2, <1>3, ConcatProperties
    <3>. DEFINE w1 == a12 \o a13
                w2 == a11 \o w1
    <3>2. w1 \in Seq(S)
      BY <3>1
    <3>3. w2 \in Seq(S)
      <4>. HIDE DEF w1
      <4>. QED
        BY <1>2, <3>2, ConcatProperties
    <3>4. w = a10 \o w2
      OBVIOUS
    <3>. HIDE DEF w, w2
    <3>. QED
      BY <1>2, <3>3, <3>4, ConcatProperties
  <2>3. P \o a13 = ((((((a6 \o a7) \o y) \o a10) \o a11) \o a12) \o a13)
    BY <1>6
  <2>. HIDE DEF y
  <2>4. ((((((a6 \o a7) \o y) \o a10) \o a11) \o a12) \o a13) = a6 \o (a7 \o (y \o w))
    <3>1. LeftToRight(a6, a7, y, a10, a11, a12, a13) = RightToLeft(a6, a7, y, a10, a11, a12, a13)
      <4>1. AreOf(S, a6, a7, y, a10, a11, a12, a13)
        BY <1>2, <1>3, <2>1 DEF AreOf
      <4>. QED
        BY <4>1, Bracketed
    <3>. QED
      BY <3>1 DEF LeftToRight, RightToLeft
  <2>. HIDE DEF w
  <2>5. y \o w = a8 \o (a9 \o w)
    <3>1. AllOf(S, a8, a9, w)
      BY <1>2, <2>2 DEF AllOf
    <3>. QED
      BY <3>1, Reassociated DEF y
  <2>. QED
    BY <2>3, <2>4, <2>5 DEF w
<1>. QED
  BY <1>7, <1>8, <1>10, <1>11

LEMMA RestsAre ==
  ASSUME NEW h, NEW S, PagesOf(h) \subseteq S, NEW sequence \in BOOLEAN
  PROVE  /\ IsRest(From1(h, sequence), S, 1)
         /\ IsRest(From2(h, sequence), S, 2)
         /\ IsRest(From3(h, sequence), S, 3)
         /\ IsRest(From4(h, sequence), S, 4)
         /\ IsRest(From5(h, sequence), S, 5)
         /\ IsRest(From6(h), S, 6)
         /\ IsRest(From7(h), S, 7)
         /\ IsRest(From8(h), S, 8)
         /\ IsRest(From9(h), S, 9)
         /\ IsRest(From10(h), S, 10)
         /\ IsRest(From11(h), S, 11)
         /\ IsRest(From12(h), S, 12)
         /\ IsRest(From13(h), S, 13)
<1>0. ConditionPagesOf(h) \subseteq S
  BY DEF PagesOf
<1>. DEFINE t == <<TxSourcePage(h)>>
<1>13. IsRest(From13(h), S, 13)
  <2>1. IsPart(t, S, 1, 13)
    BY HeaderParts
  <2>2. t # << >>
    OBVIOUS
  <2>. HIDE DEF t
  <2>3. t \in Seq(S) /\ Rank(t[1][1]) = 13
    BY <2>1, <2>2, Zenon DEF IsPart
  <2>4. 13 \in Nat /\ 13 >= 13
    OBVIOUS
  <2>5. IsRest(t, S, 13)
    BY <2>2, <2>3, <2>4 DEF IsRest
  <2>. QED
    BY <2>5 DEF From13, t
<1>12. IsRest(From12(h), S, 12)
  <2>. DEFINE a == IfAny(h, "Min Seq Ledger Gap", <<"cond", "min_seq_ledger_gap">>)
              x == From13(h)
  <2>1. IsPart(a, S, 1, 12)
    BY <1>0, ConditionParts
  <2>2. IsRest(x, S, 13)
    BY <1>13
  <2>. HIDE DEF a, x
  <2>3. 12 \in Nat /\ 1 \in Nat \ {0} /\ 13 = 12 + 1
    OBVIOUS
  <2>4. IsRest(a \o x, S, 12)
    BY <2>1, <2>2, <2>3, RestFollows
  <2>. QED
    BY <2>4 DEF From12, a, x
<1>11. IsRest(From11(h), S, 11)
  <2>. DEFINE a == IfAny(h, "Min Seq Age", <<"cond", "min_seq_age">>)
              x == From12(h)
  <2>1. IsPart(a, S, 1, 11)
    BY <1>0, ConditionParts
  <2>2. IsRest(x, S, 12)
    BY <1>12
  <2>. HIDE DEF a, x
  <2>3. 11 \in Nat /\ 1 \in Nat \ {0} /\ 12 = 11 + 1
    OBVIOUS
  <2>4. IsRest(a \o x, S, 11)
    BY <2>1, <2>2, <2>3, RestFollows
  <2>. QED
    BY <2>4 DEF From11, a, x
<1>10. IsRest(From10(h), S, 10)
  <2>. DEFINE a == IfBound(h, "min_seq_num", "Min Seq Num", <<"cond", "min_seq_num">>)
              x == From11(h)
  <2>1. IsPart(a, S, 1, 10)
    BY <1>0, ConditionParts
  <2>2. IsRest(x, S, 11)
    BY <1>11
  <2>. HIDE DEF a, x
  <2>3. 10 \in Nat /\ 1 \in Nat \ {0} /\ 11 = 10 + 1
    OBVIOUS
  <2>4. IsRest(a \o x, S, 10)
    BY <2>1, <2>2, <2>3, RestFollows
  <2>. QED
    BY <2>4 DEF From10, a, x
<1>9. IsRest(From9(h), S, 9)
  <2>. DEFINE a == IfBound(h, "ledger_bounds", "Ledger Bounds Max", <<"cond", "ledger_bounds", "max_ledger">>)
              x == From10(h)
  <2>1. IsPart(a, S, 1, 9)
    BY <1>0, ConditionParts
  <2>2. IsRest(x, S, 10)
    BY <1>10
  <2>. HIDE DEF a, x
  <2>3. 9 \in Nat /\ 1 \in Nat \ {0} /\ 10 = 9 + 1
    OBVIOUS
  <2>4. IsRest(a \o x, S, 9)
    BY <2>1, <2>2, <2>3, RestFollows
  <2>. QED
    BY <2>4 DEF From9, a, x
<1>8. IsRest(From8(h), S, 8)
  <2>. DEFINE a == IfBound(h, "ledger_bounds", "Ledger Bounds Min", <<"cond", "ledger_bounds", "min_ledger">>)
              x == From9(h)
  <2>1. IsPart(a, S, 1, 8)
    BY <1>0, ConditionParts
  <2>2. IsRest(x, S, 9)
    BY <1>9
  <2>. HIDE DEF a, x
  <2>3. 8 \in Nat /\ 1 \in Nat \ {0} /\ 9 = 8 + 1
    OBVIOUS
  <2>4. IsRest(a \o x, S, 8)
    BY <2>1, <2>2, <2>3, RestFollows
  <2>. QED
    BY <2>4 DEF From8, a, x
<1>7. IsRest(From7(h), S, 7)
  <2>. DEFINE a == IfBound(h, "time_bounds", "Valid Before (UTC)", <<"cond", "time_bounds", "max_time">>)
              x == From8(h)
  <2>1. IsPart(a, S, 1, 7)
    BY <1>0, ConditionParts
  <2>2. IsRest(x, S, 8)
    BY <1>8
  <2>. HIDE DEF a, x
  <2>3. 7 \in Nat /\ 1 \in Nat \ {0} /\ 8 = 7 + 1
    OBVIOUS
  <2>4. IsRest(a \o x, S, 7)
    BY <2>1, <2>2, <2>3, RestFollows
  <2>. QED
    BY <2>4 DEF From7, a, x
<1>6. IsRest(From6(h), S, 6)
  <2>. DEFINE a == IfBound(h, "time_bounds", "Valid After (UTC)", <<"cond", "time_bounds", "min_time">>)
              x == From7(h)
  <2>1. IsPart(a, S, 1, 6)
    BY <1>0, ConditionParts
  <2>2. IsRest(x, S, 7)
    BY <1>7
  <2>. HIDE DEF a, x
  <2>3. 6 \in Nat /\ 1 \in Nat \ {0} /\ 7 = 6 + 1
    OBVIOUS
  <2>4. IsRest(a \o x, S, 6)
    BY <2>1, <2>2, <2>3, RestFollows
  <2>. QED
    BY <2>4 DEF From6, a, x
<1>5. IsRest(From5(h, sequence), S, 5)
  <2>. DEFINE a == When(sequence, <<<<"Sequence Num", Field(h, "sequence_number")>>>>)
              x == From6(h)
  <2>1. IsPart(a, S, 1, 5)
    BY HeaderParts
  <2>2. IsRest(x, S, 6)
    BY <1>6
  <2>. HIDE DEF a, x
  <2>3. 5 \in Nat /\ 1 \in Nat \ {0} /\ 6 = 5 + 1
    OBVIOUS
  <2>4. IsRest(a \o x, S, 5)
    BY <2>1, <2>2, <2>3, RestFollows
  <2>. QED
    BY <2>4 DEF From5, a, x
<1>4. IsRest(From4(h, sequence), S, 4)
  <2>. DEFINE a == <<<<"Max Fee", Field(h, "fee")>>>>
              x == From5(h, sequence)
  <2>1. IsPart(a, S, 1, 4)
    BY HeaderParts
  <2>2. IsRest(x, S, 5)
    BY <1>5
  <2>. HIDE DEF a, x
  <2>3. 4 \in Nat /\ 1 \in Nat \ {0} /\ 5 = 4 + 1
    OBVIOUS
  <2>4. IsRest(a \o x, S, 4)
    BY <2>1, <2>2, <2>3, RestFollows
  <2>. QED
    BY <2>4 DEF From4, a, x
<1>3. IsRest(From3(h, sequence), S, 3)
  <2>. DEFINE a == When(Type(h, <<"memo">>) # 0, <<MemoPage(h)>>)
              x == From4(h, sequence)
  <2>1. IsPart(a, S, 1, 3)
    BY HeaderParts
  <2>2. IsRest(x, S, 4)
    BY <1>4
  <2>. HIDE DEF a, x
  <2>3. 3 \in Nat /\ 1 \in Nat \ {0} /\ 4 = 3 + 1
    OBVIOUS
  <2>4. IsRest(a \o x, S, 3)
    BY <2>1, <2>2, <2>3, RestFollows
  <2>. QED
    BY <2>4 DEF From3, a, x
<1>2. IsRest(From2(h, sequence), S, 2)
  <2>. DEFINE a == When(IsFeeBump(h), FeeBumpPages(h))
              x == From3(h, sequence)
  <2>1. IsPart(a, S, 4, 2)
    BY HeaderParts
  <2>2. IsRest(x, S, 3)
    BY <1>3
  <2>. HIDE DEF a, x
  <2>3. 2 \in Nat /\ 4 \in Nat \ {0} /\ 3 = 2 + 1
    OBVIOUS
  <2>4. IsRest(a \o x, S, 2)
    BY <2>1, <2>2, <2>3, RestFollows
  <2>. QED
    BY <2>4 DEF From2, a, x
<1>1. IsRest(From1(h, sequence), S, 1)
  <2>. DEFINE a == NetworkPage(h)
              x == From2(h, sequence)
  <2>1. IsPart(a, S, 1, 1)
    BY HeaderParts
  <2>2. IsRest(x, S, 2)
    BY <1>2
  <2>. HIDE DEF a, x
  <2>3. 1 \in Nat /\ 1 \in Nat \ {0} /\ 2 = 1 + 1
    OBVIOUS
  <2>4. IsRest(a \o x, S, 1)
    BY <2>1, <2>2, <2>3, RestFollows
  <2>. QED
    BY <2>4 DEF From1, a, x
<1>. QED
  BY <1>1, <1>2, <1>3, <1>4, <1>5, <1>6, <1>7, <1>8, <1>9, <1>10, <1>11, <1>12, <1>13

\* Headers with the same pages have the same pages in every part.
LEMMA PartsAgree ==
  ASSUME NEW g, NEW h, NEW sequence \in BOOLEAN,
         HeaderPages(g, sequence) = HeaderPages(h, sequence)
  PROVE  /\ NetworkPage(g) =
              NetworkPage(h)
         /\ When(IsFeeBump(g), FeeBumpPages(g)) =
              When(IsFeeBump(h), FeeBumpPages(h))
         /\ When(Type(g, <<"memo">>) # 0, <<MemoPage(g)>>) =
              When(Type(h, <<"memo">>) # 0, <<MemoPage(h)>>)
         /\ <<<<"Max Fee", Field(g, "fee")>>>> =
              <<<<"Max Fee", Field(h, "fee")>>>>
         /\ When(sequence, <<<<"Sequence Num", Field(g, "sequence_number")>>>>) =
              When(sequence, <<<<"Sequence Num", Field(h, "sequence_number")>>>>)
         /\ IfBound(g, "time_bounds", "Valid After (UTC)", <<"cond", "time_bounds", "min_time">>) =
              IfBound(h, "time_bounds", "Valid After (UTC)", <<"cond", "time_bounds", "min_time">>)
         /\ IfBound(g, "time_bounds", "Valid Before (UTC)", <<"cond", "time_bounds", "max_time">>) =
              IfBound(h, "time_bounds", "Valid Before (UTC)", <<"cond", "time_bounds", "max_time">>)
         /\ IfBound(g, "ledger_bounds", "Ledger Bounds Min", <<"cond", "ledger_bounds", "min_ledger">>) =
              IfBound(h, "ledger_bounds", "Ledger Bounds Min", <<"cond", "ledger_bounds", "min_ledger">>)
         /\ IfBound(g, "ledger_bounds", "Ledger Bounds Max", <<"cond", "ledger_bounds", "max_ledger">>) =
              IfBound(h, "ledger_bounds", "Ledger Bounds Max", <<"cond", "ledger_bounds", "max_ledger">>)
         /\ IfBound(g, "min_seq_num", "Min Seq Num", <<"cond", "min_seq_num">>) =
              IfBound(h, "min_seq_num", "Min Seq Num", <<"cond", "min_seq_num">>)
         /\ IfAny(g, "Min Seq Age", <<"cond", "min_seq_age">>) =
              IfAny(h, "Min Seq Age", <<"cond", "min_seq_age">>)
         /\ IfAny(g, "Min Seq Ledger Gap", <<"cond", "min_seq_ledger_gap">>) =
              IfAny(h, "Min Seq Ledger Gap", <<"cond", "min_seq_ledger_gap">>)
         /\ <<TxSourcePage(g)>> =
              <<TxSourcePage(h)>>
<1>. DEFINE S == PagesOf(g) \cup PagesOf(h)
<1>0. /\ PagesOf(g) \subseteq S /\ PagesOf(h) \subseteq S
      /\ ConditionPagesOf(g) \subseteq S /\ ConditionPagesOf(h) \subseteq S
  BY DEF PagesOf
<1>. HIDE DEF S
<1>1. From1(g, sequence) = From1(h, sequence)
  BY Arranged
<1>2. /\ NetworkPage(g) =
           NetworkPage(h)
      /\ From2(g, sequence) = From2(h, sequence)
  <2>. DEFINE a == NetworkPage(g)
              b == NetworkPage(h)
              x == From2(g, sequence)
              y == From2(h, sequence)
  <2>1. IsPart(a, S, 1, 1) /\ IsPart(b, S, 1, 1)
    BY <1>0, HeaderParts
  <2>2. IsRest(x, S, 2) /\ IsRest(y, S, 2)
    BY <1>0, RestsAre
  <2>3. SamePages(a, x, b, y)
    BY <1>1 DEF From1, SamePages
  <2>. HIDE DEF a, b, x, y
  <2>4. 1 \in Nat /\ 1 \in Nat \ {0} /\ 2 = 1 + 1
    OBVIOUS
  <2>5. a = b /\ x = y
    BY <2>1, <2>2, <2>3, <2>4, Peeled
  <2>. QED
    BY <2>5 DEF a, b, x, y
<1>3. /\ When(IsFeeBump(g), FeeBumpPages(g)) =
           When(IsFeeBump(h), FeeBumpPages(h))
      /\ From3(g, sequence) = From3(h, sequence)
  <2>. DEFINE a == When(IsFeeBump(g), FeeBumpPages(g))
              b == When(IsFeeBump(h), FeeBumpPages(h))
              x == From3(g, sequence)
              y == From3(h, sequence)
  <2>1. IsPart(a, S, 4, 2) /\ IsPart(b, S, 4, 2)
    BY <1>0, HeaderParts
  <2>2. IsRest(x, S, 3) /\ IsRest(y, S, 3)
    BY <1>0, RestsAre
  <2>3. SamePages(a, x, b, y)
    BY <1>2 DEF From2, SamePages
  <2>. HIDE DEF a, b, x, y
  <2>4. 2 \in Nat /\ 4 \in Nat \ {0} /\ 3 = 2 + 1
    OBVIOUS
  <2>5. a = b /\ x = y
    BY <2>1, <2>2, <2>3, <2>4, Peeled
  <2>. QED
    BY <2>5 DEF a, b, x, y
<1>4. /\ When(Type(g, <<"memo">>) # 0, <<MemoPage(g)>>) =
           When(Type(h, <<"memo">>) # 0, <<MemoPage(h)>>)
      /\ From4(g, sequence) = From4(h, sequence)
  <2>. DEFINE a == When(Type(g, <<"memo">>) # 0, <<MemoPage(g)>>)
              b == When(Type(h, <<"memo">>) # 0, <<MemoPage(h)>>)
              x == From4(g, sequence)
              y == From4(h, sequence)
  <2>1. IsPart(a, S, 1, 3) /\ IsPart(b, S, 1, 3)
    BY <1>0, HeaderParts
  <2>2. IsRest(x, S, 4) /\ IsRest(y, S, 4)
    BY <1>0, RestsAre
  <2>3. SamePages(a, x, b, y)
    BY <1>3 DEF From3, SamePages
  <2>. HIDE DEF a, b, x, y
  <2>4. 3 \in Nat /\ 1 \in Nat \ {0} /\ 4 = 3 + 1
    OBVIOUS
  <2>5. a = b /\ x = y
    BY <2>1, <2>2, <2>3, <2>4, Peeled
  <2>. QED
    BY <2>5 DEF a, b, x, y
<1>5. /\ <<<<"Max Fee", Field(g, "fee")>>>> =
           <<<<"Max Fee", Field(h, "fee")>>>>
      /\ From5(g, sequence) = From5(h, sequence)
  <2>. DEFINE a == <<<<"Max Fee", Field(g, "fee")>>>>
              b == <<<<"Max Fee", Field(h, "fee")>>>>
              x == From5(g, sequence)
              y == From5(h, sequence)
  <2>1. IsPart(a, S, 1, 4) /\ IsPart(b, S, 1, 4)
    BY <1>0, HeaderParts
  <2>2. IsRest(x, S, 5) /\ IsRest(y, S, 5)
    BY <1>0, RestsAre
  <2>3. SamePages(a, x, b, y)
    BY <1>4 DEF From4, SamePages
  <2>. HIDE DEF a, b, x, y
  <2>4. 4 \in Nat /\ 1 \in Nat \ {0} /\ 5 = 4 + 1
    OBVIOUS
  <2>5. a = b /\ x = y
    BY <2>1, <2>2, <2>3, <2>4, Peeled
  <2>. QED
    BY <2>5 DEF a, b, x, y
<1>6. /\ When(sequence, <<<<"Sequence Num", Field(g, "sequence_number")>>>>) =
           When(sequence, <<<<"Sequence Num", Field(h, "sequence_number")>>>>)
      /\ From6(g) = From6(h)
  <2>. DEFINE a == When(sequence, <<<<"Sequence Num", Field(g, "sequence_number")>>>>)
              b == When(sequence, <<<<"Sequence Num", Field(h, "sequence_number")>>>>)
              x == From6(g)
              y == From6(h)
  <2>1. IsPart(a, S, 1, 5) /\ IsPart(b, S, 1, 5)
    BY <1>0, HeaderParts
  <2>2. IsRest(x, S, 6) /\ IsRest(y, S, 6)
    BY <1>0, RestsAre
  <2>3. SamePages(a, x, b, y)
    BY <1>5 DEF From5, SamePages
  <2>. HIDE DEF a, b, x, y
  <2>4. 5 \in Nat /\ 1 \in Nat \ {0} /\ 6 = 5 + 1
    OBVIOUS
  <2>5. a = b /\ x = y
    BY <2>1, <2>2, <2>3, <2>4, Peeled
  <2>. QED
    BY <2>5 DEF a, b, x, y
<1>7. /\ IfBound(g, "time_bounds", "Valid After (UTC)", <<"cond", "time_bounds", "min_time">>) =
           IfBound(h, "time_bounds", "Valid After (UTC)", <<"cond", "time_bounds", "min_time">>)
      /\ From7(g) = From7(h)
  <2>. DEFINE a == IfBound(g, "time_bounds", "Valid After (UTC)", <<"cond", "time_bounds", "min_time">>)
              b == IfBound(h, "time_bounds", "Valid After (UTC)", <<"cond", "time_bounds", "min_time">>)
              x == From7(g)
              y == From7(h)
  <2>1. IsPart(a, S, 1, 6) /\ IsPart(b, S, 1, 6)
    BY <1>0, ConditionParts
  <2>2. IsRest(x, S, 7) /\ IsRest(y, S, 7)
    BY <1>0, RestsAre
  <2>3. SamePages(a, x, b, y)
    BY <1>6 DEF From6, SamePages
  <2>. HIDE DEF a, b, x, y
  <2>4. 6 \in Nat /\ 1 \in Nat \ {0} /\ 7 = 6 + 1
    OBVIOUS
  <2>5. a = b /\ x = y
    BY <2>1, <2>2, <2>3, <2>4, Peeled
  <2>. QED
    BY <2>5 DEF a, b, x, y
<1>8. /\ IfBound(g, "time_bounds", "Valid Before (UTC)", <<"cond", "time_bounds", "max_time">>) =
           IfBound(h, "time_bounds", "Valid Before (UTC)", <<"cond", "time_bounds", "max_time">>)
      /\ From8(g) = From8(h)
  <2>. DEFINE a == IfBound(g, "time_bounds", "Valid Before (UTC)", <<"cond", "time_bounds", "max_time">>)
              b == IfBound(h, "time_bounds", "Valid Before (UTC)", <<"cond", "time_bounds", "max_time">>)
              x == From8(g)
              y == From8(h)
  <2>1. IsPart(a, S, 1, 7) /\ IsPart(b, S, 1, 7)
    BY <1>0, ConditionParts
  <2>2. IsRest(x, S, 8) /\ IsRest(y, S, 8)
    BY <1>0, RestsAre
  <2>3. SamePages(a, x, b, y)
    BY <1>7 DEF From7, SamePages
  <2>. HIDE DEF a, b, x, y
  <2>4. 7 \in Nat /\ 1 \in Nat \ {0} /\ 8 = 7 + 1
    OBVIOUS
  <2>5. a = b /\ x = y
    BY <2>1, <2>2, <2>3, <2>4, Peeled
  <2>. QED
    BY <2>5 DEF a, b, x, y
<1>9. /\ IfBound(g, "ledger_bounds", "Ledger Bounds Min", <<"cond", "ledger_bounds", "min_ledger">>) =
           IfBound(h, "ledger_bounds", "Ledger Bounds Min", <<"cond", "ledger_bounds", "min_ledger">>)
      /\ From9(g) = From9(h)
  <2>. DEFINE a == IfBound(g, "ledger_bounds", "Ledger Bounds Min", <<"cond", "ledger_bounds", "min_ledger">>)
              b == IfBound(h, "ledger_bounds", "Ledger Bounds Min", <<"cond", "ledger_bounds", "min_ledger">>)
              x == From9(g)
              y == From9(h)
  <2>1. IsPart(a, S, 1, 8) /\ IsPart(b, S, 1, 8)
    BY <1>0, ConditionParts
  <2>2. IsRest(x, S, 9) /\ IsRest(y, S, 9)
    BY <1>0, RestsAre
  <2>3. SamePages(a, x, b, y)
    BY <1>8 DEF From8, SamePages
  <2>. HIDE DEF a, b, x, y
  <2>4. 8 \in Nat /\ 1 \in Nat \ {0} /\ 9 = 8 + 1
    OBVIOUS
  <2>5. a = b /\ x = y
    BY <2>1, <2>2, <2>3, <2>4, Peeled
  <2>. QED
    BY <2>5 DEF a, b, x, y
<1>10. /\ IfBound(g, "ledger_bounds", "Ledger Bounds Max", <<"cond", "ledger_bounds", "max_ledger">>) =
           IfBound(h, "ledger_bounds", "Ledger Bounds Max", <<"cond", "ledger_bounds", "max_ledger">>)
      /\ From10(g) = From10(h)
  <2>. DEFINE a == IfBound(g, "ledger_bounds", "Ledger Bounds Max", <<"cond", "ledger_bounds", "max_ledger">>)
              b == IfBound(h, "ledger_bounds", "Ledger Bounds Max", <<"cond", "ledger_bounds", "max_ledger">>)
              x == From10(g)
              y == From10(h)
  <2>1. IsPart(a, S, 1, 9) /\ IsPart(b, S, 1, 9)
    BY <1>0, ConditionParts
  <2>2. IsRest(x, S, 10) /\ IsRest(y, S, 10)
    BY <1>0, RestsAre
  <2>3. SamePages(a, x, b, y)
    BY <1>9 DEF From9, SamePages
  <2>. HIDE DEF a, b, x, y
  <2>4. 9 \in Nat /\ 1 \in Nat \ {0} /\ 10 = 9 + 1
    OBVIOUS
  <2>5. a = b /\ x = y
    BY <2>1, <2>2, <2>3, <2>4, Peeled
  <2>. QED
    BY <2>5 DEF a, b, x, y
<1>11. /\ IfBound(g, "min_seq_num", "Min Seq Num", <<"cond", "min_seq_num">>) =
           IfBound(h, "min_seq_num", "Min Seq Num", <<"cond", "min_seq_num">>)
      /\ From11(g) = From11(h)
  <2>. DEFINE a == IfBound(g, "min_seq_num", "Min Seq Num", <<"cond", "min_seq_num">>)
              b == IfBound(h, "min_seq_num", "Min Seq Num", <<"cond", "min_seq_num">>)
              x == From11(g)
              y == From11(h)
  <2>1. IsPart(a, S, 1, 10) /\ IsPart(b, S, 1, 10)
    BY <1>0, ConditionParts
  <2>2. IsRest(x, S, 11) /\ IsRest(y, S, 11)
    BY <1>0, RestsAre
  <2>3. SamePages(a, x, b, y)
    BY <1>10 DEF From10, SamePages
  <2>. HIDE DEF a, b, x, y
  <2>4. 10 \in Nat /\ 1 \in Nat \ {0} /\ 11 = 10 + 1
    OBVIOUS
  <2>5. a = b /\ x = y
    BY <2>1, <2>2, <2>3, <2>4, Peeled
  <2>. QED
    BY <2>5 DEF a, b, x, y
<1>12. /\ IfAny(g, "Min Seq Age", <<"cond", "min_seq_age">>) =
           IfAny(h, "Min Seq Age", <<"cond", "min_seq_age">>)
      /\ From12(g) = From12(h)
  <2>. DEFINE a == IfAny(g, "Min Seq Age", <<"cond", "min_seq_age">>)
              b == IfAny(h, "Min Seq Age", <<"cond", "min_seq_age">>)
              x == From12(g)
              y == From12(h)
  <2>1. IsPart(a, S, 1, 11) /\ IsPart(b, S, 1, 11)
    BY <1>0, ConditionParts
  <2>2. IsRest(x, S, 12) /\ IsRest(y, S, 12)
    BY <1>0, RestsAre
  <2>3. SamePages(a, x, b, y)
    BY <1>11 DEF From11, SamePages
  <2>. HIDE DEF a, b, x, y
  <2>4. 11 \in Nat /\ 1 \in Nat \ {0} /\ 12 = 11 + 1
    OBVIOUS
  <2>5. a = b /\ x = y
    BY <2>1, <2>2, <2>3, <2>4, Peeled
  <2>. QED
    BY <2>5 DEF a, b, x, y
<1>13. /\ IfAny(g, "Min Seq Ledger Gap", <<"cond", "min_seq_ledger_gap">>) =
           IfAny(h, "Min Seq Ledger Gap", <<"cond", "min_seq_ledger_gap">>)
      /\ From13(g) = From13(h)
  <2>. DEFINE a == IfAny(g, "Min Seq Ledger Gap", <<"cond", "min_seq_ledger_gap">>)
              b == IfAny(h, "Min Seq Ledger Gap", <<"cond", "min_seq_ledger_gap">>)
              x == From13(g)
              y == From13(h)
  <2>1. IsPart(a, S, 1, 12) /\ IsPart(b, S, 1, 12)
    BY <1>0, ConditionParts
  <2>2. IsRest(x, S, 13) /\ IsRest(y, S, 13)
    BY <1>0, RestsAre
  <2>3. SamePages(a, x, b, y)
    BY <1>12 DEF From12, SamePages
  <2>. HIDE DEF a, b, x, y
  <2>4. 12 \in Nat /\ 1 \in Nat \ {0} /\ 13 = 12 + 1
    OBVIOUS
  <2>5. a = b /\ x = y
    BY <2>1, <2>2, <2>3, <2>4, Peeled
  <2>. QED
    BY <2>5 DEF a, b, x, y
<1>14. <<TxSourcePage(g)>> = <<TxSourcePage(h)>>
  BY <1>13 DEF From13
<1>. QED
  BY <1>2, <1>3, <1>4, <1>5, <1>6, <1>7, <1>8, <1>9, <1>10, <1>11, <1>12, <1>13, <1>14

LEMMA AnyIsTold ==
  ASSUME NEW g, NEW h, NEW c, NEW q, IfAny(g, c, q) = IfAny(h, c, q),
         q \in DOMAIN g, q \in DOMAIN h, ~IsZero(g[q])
  PROVE  g[q] = h[q]
<1>1. IfAny(g, c, q) = << << c, g[q] >> >>
  BY DEF IfAny, When, At
<1>2. IfAny(h, c, q) = << >> \/ IfAny(h, c, q) = << << c, h[q] >> >>
  BY DEF IfAny, When, At
<1>3. \A v, w : << << c, v >> >> = << << c, w >> >> => v = w
  OBVIOUS
<1>4. \A v : << << c, v >> >> # << >>
  OBVIOUS
<1>. QED
  BY <1>1, <1>2, <1>3, <1>4, Zenon

LEMMA BoundIsTold ==
  ASSUME NEW g, NEW h, NEW f, NEW c, NEW q, IfBound(g, f, c, q) = IfBound(h, f, c, q),
         q \in DOMAIN g, HasCondition(g, f), q \in DOMAIN h <=> HasCondition(h, f), ~IsZero(g[q])
  PROVE  q \in DOMAIN h /\ g[q] = h[q]
<1>1. IfBound(g, f, c, q) = << << c, g[q] >> >>
  BY DEF IfBound, IfAny, When, At
<1>2. << << c, g[q] >> >> # << >>
  OBVIOUS
<1>3. HasCondition(h, f)
  BY <1>1, <1>2 DEF IfBound, When
<1>4. IfAny(g, c, q) = IfAny(h, c, q)
  BY <1>3 DEF IfBound, When
<1>. QED
  BY <1>3, <1>4, AnyIsTold

LEMMA ConditionIsTold ==
  ASSUME NEW g, NEW h, IsHeader(g), IsHeader(h), NEW sequence \in BOOLEAN,
         HeaderPages(g, sequence) = HeaderPages(h, sequence),
         NEW p \in DOMAIN g, ~IsZero(g[p]),
         p \in {<<"cond", "min_seq_age">>, <<"cond", "min_seq_ledger_gap">>}
               \cup UNION {ConditionFields[f] : f \in DOMAIN ConditionFields}
  PROVE  Told1(g, h, p)
<1>1. /\ IfBound(g, "time_bounds", "Valid After (UTC)", <<"cond", "time_bounds", "min_time">>)
         = IfBound(h, "time_bounds", "Valid After (UTC)", <<"cond", "time_bounds", "min_time">>)
      /\ IfBound(g, "time_bounds", "Valid Before (UTC)", <<"cond", "time_bounds", "max_time">>)
         = IfBound(h, "time_bounds", "Valid Before (UTC)", <<"cond", "time_bounds", "max_time">>)
      /\ IfBound(g, "ledger_bounds", "Ledger Bounds Min", <<"cond", "ledger_bounds", "min_ledger">>)
         = IfBound(h, "ledger_bounds", "Ledger Bounds Min", <<"cond", "ledger_bounds", "min_ledger">>)
      /\ IfBound(g, "ledger_bounds", "Ledger Bounds Max", <<"cond", "ledger_bounds", "max_ledger">>)
         = IfBound(h, "ledger_bounds", "Ledger Bounds Max", <<"cond", "ledger_bounds", "max_ledger">>)
      /\ IfBound(g, "min_seq_num", "Min Seq Num", <<"cond", "min_seq_num">>)
         = IfBound(h, "min_seq_num", "Min Seq Num", <<"cond", "min_seq_num">>)
  BY PartsAgree
<1>2. /\ IfAny(g, "Min Seq Age", <<"cond", "min_seq_age">>)
         = IfAny(h, "Min Seq Age", <<"cond", "min_seq_age">>)
      /\ IfAny(g, "Min Seq Ledger Gap", <<"cond", "min_seq_ledger_gap">>)
         = IfAny(h, "Min Seq Ledger Gap", <<"cond", "min_seq_ledger_gap">>)
  BY PartsAgree
<1>3. /\ <<"cond", "min_seq_age">> \in DOMAIN h /\ <<"cond", "min_seq_ledger_gap">> \in DOMAIN h
  BY DEF IsHeader, FixedFields
<1>4. ASSUME NEW f, NEW c, NEW q, p = q, f \in DOMAIN ConditionFields, q \in ConditionFields[f],
             IfBound(g, f, c, q) = IfBound(h, f, c, q)
      PROVE  Told1(g, h, p)
  <2>1. HasCondition(g, f) /\ (q \in DOMAIN h <=> HasCondition(h, f))
    BY <1>4 DEF IsHeader
  <2>. QED
    BY <1>4, <2>1, BoundIsTold DEF Told1
<1>5. ASSUME NEW c, NEW q, p = q, q \in DOMAIN h, IfAny(g, c, q) = IfAny(h, c, q)
      PROVE  Told1(g, h, p)
  BY <1>5, AnyIsTold DEF Told1
<1>6. /\ DOMAIN ConditionFields = {"time_bounds", "ledger_bounds", "min_seq_num"}
      /\ ConditionFields["time_bounds"] = {<<"cond", "time_bounds", "min_time">>,
                                           <<"cond", "time_bounds", "max_time">>}
      /\ ConditionFields["ledger_bounds"] = {<<"cond", "ledger_bounds", "min_ledger">>,
                                             <<"cond", "ledger_bounds", "max_ledger">>}
      /\ ConditionFields["min_seq_num"] = {<<"cond", "min_seq_num">>}
  BY DEF ConditionFields
<1>7. CASE p = <<"cond", "min_seq_age">>
  BY <1>2, <1>3, <1>5, <1>7
<1>8. CASE p = <<"cond", "min_seq_ledger_gap">>
  BY <1>2, <1>3, <1>5, <1>8
<1>9. CASE p = <<"cond", "time_bounds", "min_time">>
  BY <1>1, <1>4, <1>6, <1>9
<1>10. CASE p = <<"cond", "time_bounds", "max_time">>
  BY <1>1, <1>4, <1>6, <1>10
<1>11. CASE p = <<"cond", "ledger_bounds", "min_ledger">>
  BY <1>1, <1>4, <1>6, <1>11
<1>12. CASE p = <<"cond", "ledger_bounds", "max_ledger">>
  BY <1>1, <1>4, <1>6, <1>12
<1>13. CASE p = <<"cond", "min_seq_num">>
  BY <1>1, <1>4, <1>6, <1>13
<1>14. p \in {<<"cond", "min_seq_age">>, <<"cond", "min_seq_ledger_gap">>}
       \/ \E f \in DOMAIN ConditionFields : p \in ConditionFields[f]
  OBVIOUS
<1>. QED
  BY <1>6, <1>7, <1>8, <1>9, <1>10, <1>11, <1>12, <1>13, <1>14

LEMMA SinglesAndPairs ==
  /\ \A x, y : << x >> = << y >> => x = y
  /\ \A x : << x >> # << >>
  /\ \A a, b, c, d : << a, b >> = << c, d >> => a = c /\ b = d
  /\ \A a, b : << a, b >>[1] = a /\ << a, b >>[2] = b
OBVIOUS

LEMMA NetworkIsTold ==
  ASSUME NEW g, NEW h, IsHeader(g), IsHeader(h), NetworkPage(g) = NetworkPage(h)
  PROVE  NetworkName(g[<<"network">>]) = NetworkName(h[<<"network">>])
<1>. DEFINE n == NetworkName(g[<<"network">>])
            m == NetworkName(h[<<"network">>])
<1>1. Field(g, "network") = g[<<"network">>] /\ Field(h, "network") = h[<<"network">>]
  BY DEF IsHeader, FixedFields, Field, At
<1>2. /\ NetworkPage(g) = When(n # "Public", << <<"Network", n>> >>)
      /\ NetworkPage(h) = When(m # "Public", << <<"Network", m>> >>)
  BY <1>1 DEF NetworkPage
<1>. HIDE DEF n, m
<1>3. n = m
  <2>1. \/ n = "Public" /\ NetworkPage(g) = << >>
        \/ NetworkPage(g) = << <<"Network", n>> >>
    BY <1>2 DEF When
  <2>2. \/ m = "Public" /\ NetworkPage(h) = << >>
        \/ NetworkPage(h) = << <<"Network", m>> >>
    BY <1>2 DEF When
  <2>. QED
    BY <2>1, <2>2, SinglesAndPairs, Zenon
<1>. QED
  BY <1>3 DEF n, m

LEMMA FeeBumpIsTold ==
  ASSUME NEW g, NEW h, IsHeader(g), IsHeader(h),
         When(IsFeeBump(g), FeeBumpPages(g)) = When(IsFeeBump(h), FeeBumpPages(h)),
         NEW p \in DOMAIN g, p = <<"type">> \/ p[1] = "fee_bump",
         p \in {<<"type">>, <<"fee_bump", "fee">>} \cup AccountFields(<<"fee_bump", "fee_source">>)
  PROVE  Told1(g, h, p)
<1>. DEFINE a == FeeBumpPages(g)
            b == FeeBumpPages(h)
            s == <<"fee_bump", "fee_source">>
<1>1. PICK a1, a4 : a = << a1, <<"Fee Source">> \o AccountText(g, s, IsOwn(g, s)),
                           <<"Max Fee", At(g, <<"fee_bump", "fee">>)>>, a4 >>
  BY DEF FeeBumpPages
<1>2. PICK b1, b4 : b = << b1, <<"Fee Source">> \o AccountText(h, s, IsOwn(h, s)),
                           <<"Max Fee", At(h, <<"fee_bump", "fee">>)>>, b4 >>
  BY DEF FeeBumpPages
<1>3. /\ a[2] = <<"Fee Source">> \o AccountText(g, s, IsOwn(g, s))
      /\ a[3] = <<"Max Fee", At(g, <<"fee_bump", "fee">>)>> /\ a # << >>
  <2>. DEFINE x == <<"Fee Source">> \o AccountText(g, s, IsOwn(g, s))
              y == <<"Max Fee", At(g, <<"fee_bump", "fee">>)>>
  <2>. HIDE DEF a, x, y
  <2>1. a = << a1, x, y, a4 >>
    BY <1>1 DEF x, y
  <2>2. a[2] = x /\ a[3] = y /\ a # << >>
    BY <2>1
  <2>. QED
    BY <2>2 DEF x, y
<1>4. /\ b[2] = <<"Fee Source">> \o AccountText(h, s, IsOwn(h, s))
      /\ b[3] = <<"Max Fee", At(h, <<"fee_bump", "fee">>)>> /\ b # << >>
  <2>. DEFINE x == <<"Fee Source">> \o AccountText(h, s, IsOwn(h, s))
              y == <<"Max Fee", At(h, <<"fee_bump", "fee">>)>>
  <2>. HIDE DEF b, x, y
  <2>1. b = << b1, x, y, b4 >>
    BY <1>2 DEF x, y
  <2>2. b[2] = x /\ b[3] = y /\ b # << >>
    BY <2>1
  <2>. QED
    BY <2>2 DEF x, y
<1>. HIDE DEF a, b
<1>5. /\ IsFeeBump(g) <=> IsFeeBump(h)
      /\ IsFeeBump(g) => a = b
  BY <1>3, <1>4 DEF When, a, b
<1>6. HasFee(g) /\ HasFee(h) /\ <<"type">> \in DOMAIN g /\ <<"type">> \in DOMAIN h
  BY DEF IsHeader, FixedFields
<1>7. CASE p = <<"type">>
  <2>1. /\ g[p] = IF IsFeeBump(g) THEN <<5>> ELSE <<2>>
        /\ h[p] = IF IsFeeBump(h) THEN <<5>> ELSE <<2>>
    BY <1>6, <1>7 DEF HasFee, IsFeeBump, At
  <2>. QED
    BY <1>5, <1>6, <1>7, <2>1 DEF Told1
<1>8. CASE p[1] = "fee_bump"
  <2>1. IsFeeBump(g) /\ IsFeeBump(h)
    BY <1>5, <1>6, <1>8 DEF HasFee
  <2>2. /\ <<"fee_bump", "fee">> \in DOMAIN g /\ HasAccount(g, s)
        /\ <<"fee_bump", "fee">> \in DOMAIN h /\ HasAccount(h, s)
    BY <1>6, <2>1 DEF HasFee
  <2>3. g[<<"fee_bump", "fee">>] = h[<<"fee_bump", "fee">>]
    <3>1. <<"Max Fee", g[<<"fee_bump", "fee">>]>> = <<"Max Fee", h[<<"fee_bump", "fee">>]>>
      BY <1>3, <1>4, <1>5, <2>1, <2>2 DEF At
    <3>. QED
      BY <3>1, SinglesAndPairs, Zenon
  <2>. DEFINE v == IsOwn(g, s)
              w == IsOwn(h, s)
  <2>4. SameText("Fee Source", g, h, s, v, w)
    BY <1>3, <1>4, <1>5, <2>1 DEF SameText
  <2>5. v \in BOOLEAN /\ w \in BOOLEAN /\ (v => IsOwn(g, s)) /\ (w => IsOwn(h, s))
    BY DEF IsOwn
  <2>. HIDE DEF v, w
  <2>. HIDE DEF s
  <2>6. AccountTold(g, h, s)
    BY <2>2, <2>4, <2>5, AccountIsTold
  <2>7. p \in AccountFields(s) => Told1(g, h, p)
    BY <2>6 DEF AccountTold
  <2>8. p = <<"fee_bump", "fee">> => Told1(g, h, p)
    BY <2>2, <2>3 DEF Told1
  <2>9. p # <<"type">>
    BY <1>8
  <2>. QED
    BY <2>7, <2>8, <2>9 DEF s
<1>. QED
  BY <1>7, <1>8

\* The field at p tells as much of h as of g.
SameLegible(g, h, p) == p \in DOMAIN h /\ LegibleInHeader(g, p) = LegibleInHeader(h, p)

\* A page alone.
Alone(caption, v) == << << caption, v >> >>

LEMMA AloneIs ==
  \A c, v : Alone(c, v)[1][1] = c /\ Alone(c, v)[1][2] = v /\ Alone(c, v) # << >>
BY DEF Alone

\* The type of the memo, from its page.
MemoTypeOf(pages) ==
  IF pages = << >> THEN <<0>>
  ELSE CASE pages[1][1] = "Memo Text"          -> <<1>>
         [] pages[1][1] = "Memo Text (base64)" -> <<1>>
         [] pages[1][1] = "Memo ID"            -> <<2>>
         [] pages[1][1] = "Memo Hash"          -> <<3>>
         [] OTHER                              -> <<4>>

LEMMA MemoTypes ==
  ASSUME NEW v
  PROVE  /\ MemoTypeOf(<< >>) = <<0>>
         /\ MemoTypeOf(Alone("Memo Text", v)) = <<1>>
         /\ MemoTypeOf(Alone("Memo Text (base64)", v)) = <<1>>
         /\ MemoTypeOf(Alone("Memo ID", v)) = <<2>>
         /\ MemoTypeOf(Alone("Memo Hash", v)) = <<3>>
         /\ MemoTypeOf(Alone("Memo Return", v)) = <<4>>
<1>1. ASSUME NEW c, NEW a, a # << >>, a[1][1] = c
      PROVE  /\ c = "Memo Text" => MemoTypeOf(a) = <<1>>
             /\ c = "Memo Text (base64)" => MemoTypeOf(a) = <<1>>
             /\ c = "Memo ID" => MemoTypeOf(a) = <<2>>
             /\ c = "Memo Hash" => MemoTypeOf(a) = <<3>>
             /\ c = "Memo Return" => MemoTypeOf(a) = <<4>>
  BY <1>1 DEF MemoTypeOf
<1>2. MemoTypeOf(<< >>) = <<0>>
  BY DEF MemoTypeOf
<1>3. ASSUME NEW c
      PROVE  /\ c = "Memo Text" => MemoTypeOf(Alone(c, v)) = <<1>>
             /\ c = "Memo Text (base64)" => MemoTypeOf(Alone(c, v)) = <<1>>
             /\ c = "Memo ID" => MemoTypeOf(Alone(c, v)) = <<2>>
             /\ c = "Memo Hash" => MemoTypeOf(Alone(c, v)) = <<3>>
             /\ c = "Memo Return" => MemoTypeOf(Alone(c, v)) = <<4>>
  <2>1. Alone(c, v) # << >> /\ Alone(c, v)[1][1] = c
    BY AloneIs
  <2>. QED
    BY <1>1, <2>1
<1>. QED
  BY <1>2, <1>3

LEMMA MemoIs ==
  ASSUME NEW h, HasMemo(h)
  PROVE  LET t     == h[<<"memo", "type">>]
             text  == Content(h[<<"memo", "text">>])
             pages == When(Type(h, <<"memo">>) # 0, <<MemoPage(h)>>)
         IN /\ <<"memo", "type">> \in DOMAIN h
            /\ <<"memo", "text">> \in DOMAIN h <=> t = <<1>>
            /\ <<"memo", "id">> \in DOMAIN h <=> t = <<2>>
            /\ <<"memo", "hash">> \in DOMAIN h <=> t = <<3>>
            /\ <<"memo", "return_hash">> \in DOMAIN h <=> t = <<4>>
            /\ t = MemoTypeOf(pages)
            /\ t = <<1>> => pages[1][2] = IF Printable(text) THEN text ELSE Ends(text)
            /\ t = <<2>> => pages[1][2] = h[<<"memo", "id">>]
            /\ t = <<3>> => pages[1][2] = h[<<"memo", "hash">>]
            /\ t = <<4>> => pages[1][2] = h[<<"memo", "return_hash">>]
<1>. DEFINE q     == <<"memo", "type">>
            text  == Content(h[<<"memo", "text">>])
            pages == When(Type(h, <<"memo">>) # 0, <<MemoPage(h)>>)
<1>0. /\ <<"memo">> \o <<"type">> = q
      /\ <<"memo">> \o <<"text">> = <<"memo", "text">>
      /\ <<"memo">> \o <<"id">> = <<"memo", "id">>
      /\ <<"memo">> \o <<"hash">> = <<"memo", "hash">>
      /\ <<"memo">> \o <<"return_hash">> = <<"memo", "return_hash">>
  BY Pairs
<1>1. PICK t \in 0 .. 4 :
        /\ h[q] = <<t>>
        /\ \A i \in 1 .. 4 : <<"memo", MemoFields[i]>> \in DOMAIN h <=> i = t
  BY DEF HasMemo
<1>2. q \in DOMAIN h
  BY DEF HasMemo
<1>3. /\ MemoFields[1] = "text" /\ MemoFields[2] = "id" /\ MemoFields[3] = "hash"
      /\ MemoFields[4] = "return_hash"
  BY DEF MemoFields
<1>4. /\ <<"memo", "text">> \in DOMAIN h <=> t = 1
      /\ <<"memo", "id">> \in DOMAIN h <=> t = 2
      /\ <<"memo", "hash">> \in DOMAIN h <=> t = 3
      /\ <<"memo", "return_hash">> \in DOMAIN h <=> t = 4
  <2>1. 1 \in 1 .. 4 /\ 2 \in 1 .. 4 /\ 3 \in 1 .. 4 /\ 4 \in 1 .. 4
    OBVIOUS
  <2>. QED
    BY <1>1, <1>3, <2>1, Zenon
<1>5. Type(h, <<"memo">>) = t
  <2>1. At(h, q) = <<t>>
    BY <1>1, <1>2 DEF At
  <2>2. <<t>>[1] = t
    OBVIOUS
  <2>. QED
    BY <1>0, <2>1, <2>2, Zenon DEF Type
<1>6. /\ t = 0 => pages = << >>
      /\ t # 0 => pages = << MemoPage(h) >>
  BY <1>5 DEF When
<1>7. /\ t = 1 /\ Printable(text) => MemoPage(h) = <<"Memo Text", text>>
      /\ t = 1 /\ ~Printable(text) => MemoPage(h) = <<"Memo Text (base64)", Ends(text)>>
      /\ t = 2 => MemoPage(h) = <<"Memo ID", h[<<"memo", "id">>]>>
      /\ t = 3 => MemoPage(h) = <<"Memo Hash", h[<<"memo", "hash">>]>>
      /\ t = 4 => MemoPage(h) = <<"Memo Return", h[<<"memo", "return_hash">>]>>
  <2>. DEFINE x == Content(At(h, <<"memo">> \o <<"text">>))
              m == Type(h, <<"memo">>)
              i == At(h, <<"memo">> \o <<"id">>)
              v == At(h, <<"memo">> \o <<"hash">>)
              r == At(h, <<"memo">> \o <<"return_hash">>)
  <2>1. MemoPage(h) = CASE m = 1 /\ Printable(x)  -> <<"Memo Text", x>>
                        [] m = 1 /\ ~Printable(x) -> <<"Memo Text (base64)", Ends(x)>>
                        [] m = 2 -> <<"Memo ID", i>>
                        [] m = 3 -> <<"Memo Hash", v>>
                        [] OTHER -> <<"Memo Return", r>>
    BY DEF MemoPage
  <2>2. /\ t = 1 => x = text
        /\ t = 2 => i = h[<<"memo", "id">>]
        /\ t = 3 => v = h[<<"memo", "hash">>]
        /\ t = 4 => r = h[<<"memo", "return_hash">>]
    BY <1>0, <1>4 DEF At
  <2>. HIDE DEF x, m, i, v, r, text
  <2>3. m = t
    BY <1>5 DEF m
  <2>9. 2 # 1 /\ 3 # 1 /\ 4 # 1 /\ 3 # 2 /\ 4 # 2 /\ 4 # 3
    OBVIOUS
  <2>4. t = 1 /\ Printable(x) => MemoPage(h) = <<"Memo Text", x>>
    BY <2>1, <2>3, <2>9, Zenon
  <2>5. t = 1 /\ ~Printable(x) => MemoPage(h) = <<"Memo Text (base64)", Ends(x)>>
    BY <2>1, <2>3, <2>9, Zenon
  <2>6. t = 2 => MemoPage(h) = <<"Memo ID", i>>
    BY <2>1, <2>3, <2>9, Zenon
  <2>7. t = 3 => MemoPage(h) = <<"Memo Hash", v>>
    BY <2>1, <2>3, <2>9, Zenon
  <2>8. t = 4 => MemoPage(h) = <<"Memo Return", r>>
    BY <2>1, <2>3, <2>9, Zenon
  <2>. QED
    BY <2>2, <2>4, <2>5, <2>6, <2>7, <2>8
<1>8. \A i \in {1, 2, 3, 4} : h[q] = << i >> <=> t = i
  BY <1>1
<1>9. \/ t = 0 \/ t = 1 \/ t = 2 \/ t = 3 \/ t = 4
  OBVIOUS
<1>. HIDE DEF text, pages, q
<1>10. /\ <<"memo", "text">> \in DOMAIN h <=> h[q] = <<1>>
       /\ <<"memo", "id">> \in DOMAIN h <=> h[q] = <<2>>
       /\ <<"memo", "hash">> \in DOMAIN h <=> h[q] = <<3>>
       /\ <<"memo", "return_hash">> \in DOMAIN h <=> h[q] = <<4>>
  BY <1>4, <1>8
<1>11. h[q] = MemoTypeOf(pages)
  BY <1>1, <1>6, <1>7, <1>9, MemoTypes DEF Alone
<1>12. /\ t = 1 => pages[1][2] = IF Printable(text) THEN text ELSE Ends(text)
       /\ t = 2 => pages[1][2] = h[<<"memo", "id">>]
       /\ t = 3 => pages[1][2] = h[<<"memo", "hash">>]
       /\ t = 4 => pages[1][2] = h[<<"memo", "return_hash">>]
  <2>2. 1 # 0 /\ 2 # 0 /\ 3 # 0 /\ 4 # 0
    OBVIOUS
  <2>3. t # 0 => pages[1][2] = MemoPage(h)[2]
    BY <1>6
  <2>4. \A c, v : << c, v >>[2] = v
    OBVIOUS
  <2>. DEFINE i == h[<<"memo", "id">>]
              v == h[<<"memo", "hash">>]
              r == h[<<"memo", "return_hash">>]
              m == MemoPage(h)
  <2>5. /\ t = 1 /\ Printable(text) => m = <<"Memo Text", text>>
        /\ t = 1 /\ ~Printable(text) => m = <<"Memo Text (base64)", Ends(text)>>
        /\ t = 2 => m = <<"Memo ID", i>>
        /\ t = 3 => m = <<"Memo Hash", v>>
        /\ t = 4 => m = <<"Memo Return", r>>
    BY <1>7
  <2>. HIDE DEF i, v, r, m, pages, text
  <2>6. /\ t = 1 => pages[1][2] = IF Printable(text) THEN text ELSE Ends(text)
        /\ t = 2 => pages[1][2] = i
        /\ t = 3 => pages[1][2] = v
        /\ t = 4 => pages[1][2] = r
    <3>1. t # 0 => pages[1][2] = m[2]
      BY <2>3 DEF m
    <3>2. /\ t = 1 /\ Printable(text) => m[2] = text
          /\ t = 1 /\ ~Printable(text) => m[2] = Ends(text)
          /\ t = 2 => m[2] = i
          /\ t = 3 => m[2] = v
          /\ t = 4 => m[2] = r
      BY <2>4, <2>5, Zenon
    <3>. QED
      BY <2>2, <3>1, <3>2, Zenon
  <2>. QED
    BY <2>6 DEF i, v, r
<1>. QED
  BY <1>2, <1>8, <1>10, <1>11, <1>12 DEF q, text, pages

LEMMA MemoIsTold ==
  ASSUME NEW g, NEW h, HasMemo(g), HasMemo(h),
         When(Type(g, <<"memo">>) # 0, <<MemoPage(g)>>) = When(Type(h, <<"memo">>) # 0, <<MemoPage(h)>>),
         NEW p \in DOMAIN g,
         p \in {<<"memo", "type">>, <<"memo", "text">>, <<"memo", "id">>, <<"memo", "hash">>,
                <<"memo", "return_hash">>}
  PROVE  SameLegible(g, h, p)
<1>. DEFINE t == g[<<"memo", "type">>]
            u == h[<<"memo", "type">>]
            a == When(Type(g, <<"memo">>) # 0, <<MemoPage(g)>>)
            b == When(Type(h, <<"memo">>) # 0, <<MemoPage(h)>>)
            x == Content(g[<<"memo", "text">>])
            y == Content(h[<<"memo", "text">>])
<1>1. /\ <<"memo", "text">> \in DOMAIN g <=> t = <<1>>
      /\ <<"memo", "id">> \in DOMAIN g <=> t = <<2>>
      /\ <<"memo", "hash">> \in DOMAIN g <=> t = <<3>>
      /\ <<"memo", "return_hash">> \in DOMAIN g <=> t = <<4>>
      /\ t = MemoTypeOf(a)
      /\ t = <<1>> => a[1][2] = IF Printable(x) THEN x ELSE Ends(x)
      /\ t = <<2>> => a[1][2] = g[<<"memo", "id">>]
      /\ t = <<3>> => a[1][2] = g[<<"memo", "hash">>]
      /\ t = <<4>> => a[1][2] = g[<<"memo", "return_hash">>]
  BY MemoIs
<1>2. /\ <<"memo", "type">> \in DOMAIN h
      /\ <<"memo", "text">> \in DOMAIN h <=> u = <<1>>
      /\ <<"memo", "id">> \in DOMAIN h <=> u = <<2>>
      /\ <<"memo", "hash">> \in DOMAIN h <=> u = <<3>>
      /\ <<"memo", "return_hash">> \in DOMAIN h <=> u = <<4>>
      /\ u = MemoTypeOf(b)
      /\ u = <<1>> => b[1][2] = IF Printable(y) THEN y ELSE Ends(y)
      /\ u = <<2>> => b[1][2] = h[<<"memo", "id">>]
      /\ u = <<3>> => b[1][2] = h[<<"memo", "hash">>]
      /\ u = <<4>> => b[1][2] = h[<<"memo", "return_hash">>]
  BY MemoIs
<1>3. a = b
  OBVIOUS
<1>. HIDE DEF t, u, a, b, x, y
<1>4. /\ t = u
      /\ t = <<1>> => (IF Printable(x) THEN x ELSE Ends(x)) = (IF Printable(y) THEN y ELSE Ends(y))
      /\ t = <<2>> => g[<<"memo", "id">>] = h[<<"memo", "id">>]
      /\ t = <<3>> => g[<<"memo", "hash">>] = h[<<"memo", "hash">>]
      /\ t = <<4>> => g[<<"memo", "return_hash">>] = h[<<"memo", "return_hash">>]
  BY <1>1, <1>2, <1>3
<1>5. ASSUME p # <<"network">>, p # <<"memo", "text">>, p \in DOMAIN h, g[p] = h[p]
      PROVE  SameLegible(g, h, p)
  BY <1>5 DEF SameLegible, LegibleInHeader
<1>6. p # <<"network">>
  OBVIOUS
<1>7. CASE p = <<"memo", "type">>
  BY <1>2, <1>4, <1>5, <1>7 DEF t, u
<1>8. CASE p = <<"memo", "text">>
  <2>1. t = <<1>> /\ p \in DOMAIN h
    BY <1>1, <1>2, <1>4, <1>8
  <2>2. /\ LegibleInHeader(g, p) = IF Printable(x) THEN x ELSE Ends(x)
        /\ LegibleInHeader(h, p) = IF Printable(y) THEN y ELSE Ends(y)
    BY <1>6, <1>8 DEF LegibleInHeader, x, y
  <2>. QED
    BY <1>4, <2>1, <2>2 DEF SameLegible
<1>9. CASE p = <<"memo", "id">>
  BY <1>1, <1>2, <1>4, <1>5, <1>9
<1>10. CASE p = <<"memo", "hash">>
  BY <1>1, <1>2, <1>4, <1>5, <1>10
<1>11. CASE p = <<"memo", "return_hash">>
  BY <1>1, <1>2, <1>4, <1>5, <1>11
<1>. QED
  BY <1>7, <1>8, <1>9, <1>10, <1>11

LEMMA SourceIsTold ==
  ASSUME NEW g, NEW h, IsHeader(g), IsHeader(h), <<TxSourcePage(g)>> = <<TxSourcePage(h)>>
  PROVE  AccountTold(g, h, <<"source_account">>)
<1>. DEFINE p == <<"source_account">>
            s == ~IsFeeBump(g) /\ IsOwn(g, p)
            t == ~IsFeeBump(h) /\ IsOwn(h, p)
<1>1. TxSourcePage(g) = TxSourcePage(h)
  BY SinglesAndPairs, Zenon
<1>2. SameText("Tx Source", g, h, p, s, t)
  BY <1>1 DEF TxSourcePage, SameText
<1>3. s \in BOOLEAN /\ t \in BOOLEAN /\ (s => IsOwn(g, p)) /\ (t => IsOwn(h, p))
  OBVIOUS
<1>4. HasAccount(g, p) /\ HasAccount(h, p)
  BY DEF IsHeader
<1>. HIDE DEF p, s, t
<1>5. AccountTold(g, h, p)
  BY <1>2, <1>3, <1>4, AccountIsTold
<1>. QED
  BY <1>5 DEF p

\* The field at p has the same part in the display of g and in that of h.
ToldAlike(g, h, p, sequence) == SameLegible(g, h, p) /\ ~HiddenInHeader(h, p, sequence)

LEMMA FirstStays ==
  ASSUME NEW S, NEW a \in Seq(S), a # << >>, NEW c \in S
  PROVE  (a \o << c >>)[1] = a[1]
<1>. DEFINE b == << c >>
<1>1. b \in Seq(S) /\ Len(b) = 1 /\ Len(a) \in Nat \ {0}
  BY LenProperties, EmptySeq
<1>. HIDE DEF b
<1>2. (a \o b)[1] = IF 1 <= Len(a) THEN a[1] ELSE b[1 - Len(a)]
  BY <1>1, ConcatProperties
<1>. QED
  BY <1>1, <1>2 DEF b

LEMMA AccountsFirst ==
  /\ \A f \in AccountFields(<<"source_account">>) : f[1] = "source_account"
  /\ \A f \in AccountFields(<<"fee_bump", "fee_source">>) : f[1] = "fee_bump"
<1>. DEFINE S == {"source_account", "fee_bump", "fee_source", "type", "ed25519", "id"}
            a == <<"source_account">>
            b == <<"fee_bump", "fee_source">>
<1>1. a \in Seq(S) /\ b \in Seq(S) /\ a # << >> /\ b # << >>
      /\ a[1] = "source_account" /\ b[1] = "fee_bump"
  OBVIOUS
<1>2. "type" \in S /\ "ed25519" \in S /\ "id" \in S
  OBVIOUS
<1>. HIDE DEF S, a, b
<1>3. \A c \in S : (a \o << c >>)[1] = "source_account" /\ (b \o << c >>)[1] = "fee_bump"
  BY <1>1, FirstStays
<1>4. /\ \A f \in AccountFields(a) : f[1] = "source_account"
      /\ \A f \in AccountFields(b) : f[1] = "fee_bump"
  BY <1>2, <1>3 DEF AccountFields
<1>. QED
  BY <1>4 DEF a, b

\* A field that is neither of the conditions, nor read otherwise than it is.
LEMMA PlainIsTold ==
  ASSUME NEW g, NEW h, NEW p, NEW sequence, Told1(g, h, p), ~HiddenInHeader(g, p, sequence),
         p # <<"network">>, p # <<"memo", "text">>
  PROVE  ToldAlike(g, h, p, sequence)
BY DEF Told1, ToldAlike, SameLegible, HiddenInHeader, LegibleInHeader

LEMMA OthersAreShown ==
  ASSUME NEW g, NEW h, NEW p, NEW sequence, ~HiddenInHeader(g, p, sequence), p[1] # "cond",
         SameLegible(g, h, p)
  PROVE  ToldAlike(g, h, p, sequence)
BY DEF ToldAlike, HiddenInHeader

MemoPaths == {<<"memo", "type">>, <<"memo", "text">>, <<"memo", "id">>, <<"memo", "hash">>,
              <<"memo", "return_hash">>}

ConditionPaths ==
  {<<"cond", "min_seq_age">>, <<"cond", "min_seq_ledger_gap">>}
  \cup UNION {ConditionFields[f] : f \in DOMAIN ConditionFields}

PresencePaths == {<<"cond", f, "present">> : f \in DOMAIN ConditionFields}

LEMMA FieldKinds ==
  ASSUME NEW p \in HeaderFields
  PROVE  \/ p \in {<<"network">>, <<"fee">>, <<"sequence_number">>, <<"operations_count">>}
         \/ p \in {<<"type">>, <<"fee_bump", "fee">>} \cup AccountFields(<<"fee_bump", "fee_source">>)
         \/ p \in AccountFields(<<"source_account">>)
         \/ p \in MemoPaths \/ p \in ConditionPaths \/ p \in PresencePaths
<1>1. CASE p \in FixedFields
  BY <1>1 DEF FixedFields, ConditionPaths
<1>2. CASE p \in {<<"operations_count">>, <<"fee_bump", "fee">>, <<"memo", "type">>}
  BY <1>2 DEF MemoPaths
<1>3. CASE p \in {<<"memo", MemoFields[i]>> : i \in 1 .. 4}
  <2>1. PICK i \in 1 .. 4 : p = <<"memo", MemoFields[i]>>
    BY <1>3
  <2>2. MemoFields[i] \in {"text", "id", "hash", "return_hash"}
    BY DEF MemoFields
  <2>. QED
    BY <2>1, <2>2 DEF MemoPaths
<1>4. CASE p \in UNION {{<<"cond", f, "present">>} \cup ConditionFields[f] : f \in DOMAIN ConditionFields}
  BY <1>4 DEF ConditionPaths, PresencePaths
<1>. QED
  BY <1>1, <1>2, <1>3, <1>4 DEF HeaderFields

LEMMA PathHeads ==
  /\ \A p \in MemoPaths : p[1] = "memo"
  /\ \A p \in ConditionPaths : p[1] = "cond" /\ p # <<"network">> /\ p # <<"memo", "text">>
  /\ \A p \in PresencePaths : p[1] = "cond" /\ Last(p) = "present"
<1>1. \A p \in MemoPaths : p[1] = "memo"
  BY DEF MemoPaths
<1>2. \A p \in ConditionPaths : p[1] = "cond"
  <2>1. \A f \in DOMAIN ConditionFields : \A p \in ConditionFields[f] : p[1] = "cond"
    BY DEF ConditionFields
  <2>. QED
    BY <2>1 DEF ConditionPaths
<1>3. \A p : p[1] = "cond" => p # <<"network">> /\ p # <<"memo", "text">>
  OBVIOUS
<1>4. \A f : <<"cond", f, "present">>[1] = "cond" /\ Last(<<"cond", f, "present">>) = "present"
  BY DEF Last
<1>5. \A p \in PresencePaths : p[1] = "cond" /\ Last(p) = "present"
  BY <1>4 DEF PresencePaths
<1>. QED
  BY <1>1, <1>2, <1>3, <1>5

LEMMA FieldIsTold ==
  ASSUME NEW g, NEW h, IsHeader(g), IsHeader(h), NEW sequence \in BOOLEAN,
         HeaderPages(g, sequence) = HeaderPages(h, sequence),
         NEW p \in DOMAIN g, ~HiddenInHeader(g, p, sequence)
  PROVE  ToldAlike(g, h, p, sequence)
<1>1. p \in HeaderFields
  BY DEF IsHeader
<1>2. /\ NetworkPage(g) = NetworkPage(h)
      /\ When(IsFeeBump(g), FeeBumpPages(g)) = When(IsFeeBump(h), FeeBumpPages(h))
      /\ When(Type(g, <<"memo">>) # 0, <<MemoPage(g)>>) = When(Type(h, <<"memo">>) # 0, <<MemoPage(h)>>)
      /\ <<<<"Max Fee", Field(g, "fee")>>>> = <<<<"Max Fee", Field(h, "fee")>>>>
      /\ When(sequence, <<<<"Sequence Num", Field(g, "sequence_number")>>>>)
         = When(sequence, <<<<"Sequence Num", Field(h, "sequence_number")>>>>)
      /\ <<TxSourcePage(g)>> = <<TxSourcePage(h)>>
  BY PartsAgree
<1>3. /\ FixedFields \subseteq DOMAIN g /\ FixedFields \subseteq DOMAIN h
      /\ HasMemo(g) /\ HasMemo(h)
  BY DEF IsHeader
<1>4. CASE p = <<"network">>
  <2>1. LegibleInHeader(g, p) = LegibleInHeader(h, p)
    BY <1>2, <1>4, NetworkIsTold DEF LegibleInHeader
  <2>2. p \in DOMAIN h /\ p[1] # "cond"
    BY <1>3, <1>4 DEF FixedFields
  <2>. QED
    BY <2>1, <2>2, OthersAreShown DEF SameLegible
<1>5. CASE p = <<"fee">>
  <2>1. /\ p \in DOMAIN h /\ p # <<"network">> /\ p # <<"memo", "text">>
        /\ Field(g, "fee") = g[p] /\ Field(h, "fee") = h[p]
    BY <1>3, <1>5 DEF FixedFields, Field, At
  <2>2. Field(g, "fee") = Field(h, "fee")
    BY <1>2, AloneIs DEF Alone
  <2>. QED
    BY <2>1, <2>2, PlainIsTold DEF Told1
<1>6. CASE p = <<"sequence_number">>
  <2>1. /\ p \in DOMAIN h /\ p # <<"network">> /\ p # <<"memo", "text">>
        /\ Field(g, "sequence_number") = g[p] /\ Field(h, "sequence_number") = h[p]
    BY <1>3, <1>6 DEF FixedFields, Field, At
  <2>2. sequence
    BY <1>6 DEF HiddenInHeader
  <2>3. Field(g, "sequence_number") = Field(h, "sequence_number")
    <3>1. Alone("Sequence Num", Field(g, "sequence_number"))
          = Alone("Sequence Num", Field(h, "sequence_number"))
      BY <1>2, <2>2 DEF When, Alone
    <3>. DEFINE v == Field(g, "sequence_number")
                w == Field(h, "sequence_number")
    <3>2. /\ Alone("Sequence Num", v)[1][2] = v
          /\ Alone("Sequence Num", w)[1][2] = w
      BY AloneIs
    <3>. HIDE DEF v, w
    <3>3. Alone("Sequence Num", v) = Alone("Sequence Num", w)
      BY <3>1 DEF v, w
    <3>4. v = w
      BY <3>2, <3>3
    <3>. QED
      BY <3>4 DEF v, w
  <2>. QED
    BY <2>1, <2>3, PlainIsTold DEF Told1
<1>7. p # <<"operations_count">>
  <2>1. <<"operations_count">>[1] = "operations_count"
    OBVIOUS
  <2>. QED
    BY <2>1 DEF HiddenInHeader
<1>8. CASE p \in {<<"type">>, <<"fee_bump", "fee">>} \cup AccountFields(<<"fee_bump", "fee_source">>)
  <2>1. p = <<"type">> \/ p[1] = "fee_bump"
    BY <1>8, AccountsFirst
  <2>2. p # <<"network">> /\ p # <<"memo", "text">>
    BY <2>1
  <2>3. Told1(g, h, p)
    BY <1>2, <1>8, <2>1, FeeBumpIsTold
  <2>. QED
    BY <2>2, <2>3, PlainIsTold
<1>9. CASE p \in AccountFields(<<"source_account">>)
  <2>1. p[1] = "source_account"
    BY <1>9, AccountsFirst
  <2>2. p # <<"network">> /\ p # <<"memo", "text">>
    BY <2>1
  <2>3. AccountTold(g, h, <<"source_account">>)
    BY <1>2, SourceIsTold
  <2>4. Told1(g, h, p)
    BY <1>9, <2>3 DEF AccountTold
  <2>. QED
    BY <2>2, <2>4, PlainIsTold
<1>10. CASE p \in MemoPaths
  <2>1. SameLegible(g, h, p)
    BY <1>2, <1>3, <1>10, MemoIsTold DEF MemoPaths
  <2>2. p[1] # "cond"
    <3>1. p[1] = "memo"
      BY <1>10, PathHeads
    <3>. QED
      BY <3>1
  <2>. QED
    BY <2>1, <2>2, OthersAreShown
<1>11. CASE p \in ConditionPaths
  <2>1. p[1] = "cond" /\ p # <<"network">> /\ p # <<"memo", "text">>
    BY <1>11, PathHeads
  <2>2. ~IsZero(g[p])
    BY <2>1 DEF HiddenInHeader
  <2>3. Told1(g, h, p)
    BY <1>11, <2>2, ConditionIsTold DEF ConditionPaths
  <2>. QED
    BY <2>1, <2>3, PlainIsTold
<1>12. p \notin PresencePaths
  BY PathHeads DEF HiddenInHeader
<1>. QED
  BY <1>1, <1>4, <1>5, <1>6, <1>7, <1>8, <1>9, <1>10, <1>11, <1>12, FieldKinds

\* Headers with the same pages tell the same.
LEMMA HeadersTellTheSame ==
  ASSUME NEW g, NEW h, IsHeader(g), IsHeader(h), NEW sequence \in BOOLEAN,
         HeaderPages(g, sequence) = HeaderPages(h, sequence)
  PROVE  ToldOfHeader(g, sequence) = ToldOfHeader(h, sequence)
<1>. DEFINE A == {q \in DOMAIN g : ~HiddenInHeader(g, q, sequence)}
            B == {q \in DOMAIN h : ~HiddenInHeader(h, q, sequence)}
<1>1. \A p \in A : p \in B /\ LegibleInHeader(g, p) = LegibleInHeader(h, p)
  BY FieldIsTold DEF ToldAlike, SameLegible
<1>2. \A p \in B : p \in A
  BY FieldIsTold DEF ToldAlike, SameLegible
<1>3. A = B
  BY <1>1, <1>2
<1>4. /\ ToldOfHeader(g, sequence) = [p \in A |-> LegibleInHeader(g, p)]
      /\ ToldOfHeader(h, sequence) = [p \in B |-> LegibleInHeader(h, p)]
  BY DEF ToldOfHeader
<1>. HIDE DEF A, B
<1>. QED
  BY <1>1, <1>3, <1>4

\* Headers with the same pages are the same header, up to what the display leaves out
\* (get_tx_formatter and the formatters after it).
THEOREM HeadersAreTold ==
  ASSUME DocumentsDescribed
  PROVE  Spec => []HeadersTellApart
<1>1. TypeOK /\ ReadsWhatWasSent => HeadersTellApart
  <2>. SUFFICES ASSUME TypeOK, ReadsWhatWasSent,
                       NEW g \in ReadHeaders, NEW sequence \in BOOLEAN, NEW h \in SentHeaders,
                       HeaderPages(g, sequence) = Reviewed[h][sequence]
                PROVE  ToldOfHeader(g, sequence) = ToldOfHeader(h, sequence)
    BY DEF HeadersTellApart
  <2>1. IsHeader(g)
    <3>1. PICK x \in DOMAIN read : \E d \in read[x] : g = Header(d)
      BY DEF ReadHeaders, Readings
    <3>2. g = doc.header /\ Boundary(x) + 1 <= Len(doc.ops)
      BY <3>1 DEF ReadsWhatWasSent
    <3>3. ASSUME doc.ops = <<>> PROVE FALSE
      <4>1. Len(doc.ops) = 0 /\ 1 .. Len(doc.ops) = {}
        BY <3>3
      <4>2. Len(doc.words) \in Nat /\ doc.size \in Nat
        BY DocumentsOK, LenProperties DEF TypeOK
      <4>3. x \in Nat
        BY <4>2 DEF TypeOK
      <4>4. Boundary(x) = 0 \/ Boundary(x) = Len(doc.words) + x
        BY <4>1 DEF Boundary
      <4>. QED
        BY <3>2, <4>1, <4>2, <4>3, <4>4
    <3>4. doc.ops # <<>>
      BY <3>3
    <3>. QED
      BY <3>2, <3>4, HeadersOK DEF TypeOK
  <2>2. IsHeader(h)
    BY HeadersOK DEF SentHeaders
  <2>3. HeaderPages(g, sequence) = HeaderPages(h, sequence)
    BY DEF Reviewed
  <2>. QED
    BY <2>1, <2>2, <2>3, HeadersTellTheSame
<1>. QED
  BY <1>1, StaysInside, WhatWasSentIsRead, PTL
=============================================================================
