---------------------------- MODULE ValuesProofs ----------------------------
(***************************************************************************)
(* That a number and an amount are printed as what they are, for all of    *)
(* them, and that no bit of what is printed in base 32 or 64 is lost.      *)
(***************************************************************************)
EXTENDS Values, BufferProofs, NumberProofs

LEMMA Split ==
  ASSUME NEW A, NEW s \in Seq(A), s # <<>>
  PROVE  /\ Front(s) \in Seq(A) /\ Last(s) \in A /\ s = Append(Front(s), Last(s))
         /\ Len(s) \in Nat \ {0} /\ Len(Front(s)) = Len(s) - 1
BY ButLast DEF Front, Last

LEMMA Joined ==
  ASSUME NEW A, NEW s \in Seq(A), NEW e \in A
  PROVE  /\ Append(s, e) \in Seq(A) /\ Append(s, e) # <<>>
         /\ Len(Append(s, e)) = Len(s) + 1
         /\ Front(Append(s, e)) = s /\ Last(Append(s, e)) = e
BY AppendParts DEF Front, Last

\* What holds of the empty sequence, and of any other if it holds of what is in front of its
\* last element, holds of all.
LEMMA FromTheFront ==
  ASSUME NEW A, NEW G, <<>> \in G,
         \A s \in Seq(A) : s # <<>> /\ Front(s) \in G => s \in G
  PROVE  \A s \in Seq(A) : s \in G
<1>. DEFINE S == {n \in Nat : \A s \in Seq(A) : Len(s) = n => s \in G}
<1>1. 0 \in S
  <2>1. \A s \in Seq(A) : Len(s) = 0 => s = <<>>
    BY EmptySeq
  <2>. QED
    BY <2>1
<1>2. ASSUME NEW n \in Nat, n \in S PROVE n + 1 \in S
  <2>1. ASSUME NEW s \in Seq(A), Len(s) = n + 1 PROVE s \in G
    <3>1. s # <<>>
      <4>1. Len(<<>>) = 0
        OBVIOUS
      <4>. QED
        BY <2>1, <4>1
    <3>2. Front(s) \in Seq(A) /\ Len(Front(s)) = n
      BY <2>1, <3>1, Split
    <3>. QED
      BY <1>2, <3>1, <3>2
  <2>. QED
    BY <2>1
<1>. HIDE DEF S
<1>3. \A n \in Nat : n \in S
  BY <1>1, <1>2, Induction
<1>4. \A s \in Seq(A) : Len(s) \in Nat
  BY LenProperties
<1>. QED
  BY <1>3, <1>4 DEF S
-----------------------------------------------------------------------------
(* The division by ten.                                                     *)

Digit     == 0 .. 9
Quotients == [quotient : Seq(Byte), digit : Digit]

\* A turn of the division.
Divided(a, byte) ==
  LET part == a.digit * 256 + byte
  IN [quotient |-> Append(a.quotient, part \div 10), digit |-> part % 10]

LEMMA PartDivided ==
  ASSUME NEW digit \in Digit, NEW byte \in Byte
  PROVE  LET part == digit * 256 + byte
         IN /\ part \div 10 \in Byte /\ part % 10 \in Digit
            /\ (part \div 10) * 10 + (part % 10) = part
            /\ part \div 256 = digit /\ part % 256 = byte
BY DEF Digit, Byte

LEMMA DividedType ==
  ASSUME NEW a \in Quotients, NEW byte \in Byte
  PROVE  Divided(a, byte) \in Quotients
<1>. DEFINE part == a.digit * 256 + byte
<1>1. a.digit \in Digit /\ a.quotient \in Seq(Byte)
  BY DEF Quotients
<1>2. part \div 10 \in Byte /\ part % 10 \in Digit
  BY <1>1, PartDivided
<1>. HIDE DEF part
<1>3. Append(a.quotient, part \div 10) \in Seq(Byte)
  BY <1>1, <1>2, Joined
<1>. QED
  BY <1>2, <1>3 DEF Divided, Quotients, part

LEMMA DivTenTurns ==
  ASSUME NEW v \in Seq(Byte)
  PROVE  /\ DivTen[v] \in Quotients
         /\ DivTen[v] = IF v = <<>> THEN [quotient |-> <<>>, digit |-> 0]
                        ELSE Divided(DivTen[Front(v)], Last(v))
<1>. DEFINE none    == [quotient |-> <<>>, digit |-> 0]
            turn    == [p \in Quotients \X Byte |-> Divided(p[1], p[2])]
            Loop(f) == [r \in Seq(Byte) |-> IF r = <<>> THEN none ELSE Divided(f[Front(r)], Last(r))]
<1>1. none \in Quotients
  BY EmptySeq DEF Quotients, Digit
<1>2. turn \in [Quotients \X Byte -> Quotients]
  BY DividedType
<1>3. ASSUME NEW a \in Quotients, NEW byte \in Byte PROVE turn[<<a, byte>>] = Divided(a, byte)
  OBVIOUS
<1>. HIDE DEF none, turn
<1>4. PICK F : IsSequenceLoop(F, Byte, Quotients, none, turn)
  BY <1>1, <1>2, SequenceRecursion
<1>5. F = Loop(F)
  <2>1. ASSUME NEW r \in Seq(Byte)
        PROVE  F[r] = IF r = <<>> THEN none ELSE Divided(F[Front(r)], Last(r))
    <3>1. F[r] = IF r = <<>> THEN none ELSE turn[<<F[Front(r)], Last(r)>>]
      BY <1>4 DEF IsSequenceLoop, Front, Last
    <3>2. r # <<>> => F[Front(r)] \in Quotients /\ Last(r) \in Byte
      BY <1>4, Split DEF IsSequenceLoop
    <3>. QED
      BY <1>3, <3>1, <3>2
  <2>. QED
    BY <1>4, <2>1 DEF IsSequenceLoop
<1>6. DivTen = CHOOSE f : f = Loop(f)
  BY DEF DivTen, Divided, none
<1>. HIDE DEF Loop
<1>7. (CHOOSE f : f = Loop(f)) = Loop(CHOOSE f : f = Loop(f))
  BY <1>5
<1>8. DivTen = Loop(DivTen)
  BY <1>6, <1>7
<1>9. ASSUME NEW r \in Seq(Byte)
      PROVE  DivTen[r] = IF r = <<>> THEN none ELSE Divided(DivTen[Front(r)], Last(r))
  BY <1>8 DEF Loop
<1>. DEFINE G == {r \in Seq(Byte) : DivTen[r] \in Quotients}
<1>10. <<>> \in G
  BY <1>1, <1>9, EmptySeq
<1>11. ASSUME NEW r \in Seq(Byte), r # <<>>, Front(r) \in G PROVE r \in G
  BY <1>9, <1>11, Split, DividedType
<1>. HIDE DEF G
<1>12. \A r \in Seq(Byte) : r \in G
  BY <1>10, <1>11, FromTheFront
<1>. QED
  BY <1>9, <1>12 DEF G, none

\* The parts of the division of more than nothing.
LEMMA DivTenParts ==
  ASSUME NEW v \in Seq(Byte), v # <<>>
  PROVE  LET high == DivTen[Front(v)]
             part == high.digit * 256 + Last(v)
         IN /\ high.quotient \in Seq(Byte) /\ high.digit \in Digit /\ Last(v) \in Byte
            /\ DivTen[v].quotient = Append(high.quotient, part \div 10)
            /\ DivTen[v].digit = part % 10
<1>1. Front(v) \in Seq(Byte) /\ Last(v) \in Byte
  BY Split
<1>2. DivTen[Front(v)] \in Quotients /\ DivTen[v] = Divided(DivTen[Front(v)], Last(v))
  BY <1>1, DivTenTurns
<1>. QED
  BY <1>1, <1>2 DEF Quotients, Divided
-----------------------------------------------------------------------------
(* Ten times a number.                                                      *)

\* A turn of the multiplication, for any carry.
Multiplied(f, byte) ==
  [carry \in Digit |-> LET part == byte * 10 + carry IN Append(f[part \div 256], part % 256)]

Products == [Digit -> Seq(Byte)]

LEMMA PartMultiplied ==
  ASSUME NEW carry \in Digit, NEW byte \in Byte
  PROVE  LET part == byte * 10 + carry
         IN part \div 256 \in Digit /\ part % 256 \in Byte
BY DEF Digit, Byte

LEMMA MultipliedType ==
  ASSUME NEW f \in Products, NEW byte \in Byte
  PROVE  Multiplied(f, byte) \in Products
<1>. DEFINE part(carry) == byte * 10 + carry
<1>1. ASSUME NEW carry \in Digit
      PROVE  Append(f[part(carry) \div 256], part(carry) % 256) \in Seq(Byte)
  <2>1. part(carry) \div 256 \in Digit /\ part(carry) % 256 \in Byte
    BY PartMultiplied
  <2>. HIDE DEF part
  <2>2. f[part(carry) \div 256] \in Seq(Byte)
    BY <2>1 DEF Products
  <2>. QED
    BY <2>1, <2>2, Joined
<1>. QED
  BY <1>1 DEF Multiplied, Products

LEMMA TimesTenTurns ==
  ASSUME NEW v \in Seq(Byte)
  PROVE  /\ TimesTen[v] \in Products
         /\ TimesTen[v] = IF v = <<>> THEN [carry \in Digit |-> <<>>]
                          ELSE Multiplied(TimesTen[Front(v)], Last(v))
<1>. DEFINE none    == [carry \in Digit |-> <<>>]
            turn    == [p \in Products \X Byte |-> Multiplied(p[1], p[2])]
            Loop(f) == [r \in Seq(Byte) |->
                          [carry \in 0 .. 9 |->
                             IF r = <<>> THEN <<>>
                             ELSE LET part == Last(r) * 10 + carry
                                  IN Append(f[Front(r)][part \div 256], part % 256)]]
<1>1. none \in Products
  BY EmptySeq DEF Products
<1>2. turn \in [Products \X Byte -> Products]
  BY MultipliedType
<1>3. ASSUME NEW f \in Products, NEW byte \in Byte PROVE turn[<<f, byte>>] = Multiplied(f, byte)
  OBVIOUS
<1>4. ASSUME NEW f, NEW r \in Seq(Byte)
      PROVE  Loop(f)[r] = IF r = <<>> THEN none ELSE Multiplied(f[Front(r)], Last(r))
  BY DEF Multiplied, Digit
<1>. HIDE DEF none, turn
<1>5. PICK F : IsSequenceLoop(F, Byte, Products, none, turn)
  BY <1>1, <1>2, SequenceRecursion
<1>6. F = Loop(F)
  <2>1. ASSUME NEW r \in Seq(Byte) PROVE F[r] = Loop(F)[r]
    <3>1. F[r] = IF r = <<>> THEN none ELSE turn[<<F[Front(r)], Last(r)>>]
      BY <1>5 DEF IsSequenceLoop, Front, Last
    <3>2. r # <<>> => F[Front(r)] \in Products /\ Last(r) \in Byte
      BY <1>5, Split DEF IsSequenceLoop
    <3>. HIDE DEF Loop
    <3>. QED
      BY <1>3, <1>4, <3>1, <3>2
  <2>. DEFINE G == Loop(F)
  <2>2. G \in [Seq(Byte) -> {G[r] : r \in Seq(Byte)}] /\ DOMAIN G = Seq(Byte)
    OBVIOUS
  <2>3. F \in [Seq(Byte) -> Products]
    BY <1>5 DEF IsSequenceLoop
  <2>4. \A r \in Seq(Byte) : F[r] = G[r]
    BY <2>1
  <2>. HIDE DEF G
  <2>5. F = G
    BY <2>2, <2>3, <2>4
  <2>. QED
    BY <2>5 DEF G
<1>7. TimesTen = CHOOSE f : f = Loop(f)
  BY DEF TimesTen
<1>. HIDE DEF Loop
<1>8. (CHOOSE f : f = Loop(f)) = Loop(CHOOSE f : f = Loop(f))
  BY <1>6
<1>9. TimesTen = Loop(TimesTen)
  BY <1>7, <1>8
<1>10. ASSUME NEW r \in Seq(Byte)
       PROVE  TimesTen[r] = IF r = <<>> THEN none ELSE Multiplied(TimesTen[Front(r)], Last(r))
  BY <1>4, <1>9
<1>. DEFINE G == {r \in Seq(Byte) : TimesTen[r] \in Products}
<1>11. <<>> \in G
  BY <1>1, <1>10, EmptySeq
<1>12. ASSUME NEW r \in Seq(Byte), r # <<>>, Front(r) \in G PROVE r \in G
  BY <1>10, <1>12, Split, MultipliedType
<1>. HIDE DEF G
<1>13. \A r \in Seq(Byte) : r \in G
  BY <1>11, <1>12, FromTheFront
<1>. QED
  BY <1>10, <1>13 DEF G, none

LEMMA TimesTenAppended ==
  ASSUME NEW v \in Seq(Byte), NEW byte \in Byte, NEW carry \in Digit,
         NEW high \in Digit, NEW low \in Byte, byte * 10 + carry = high * 256 + low
  PROVE  TimesTen[Append(v, byte)][carry] = Append(TimesTen[v][high], low)
<1>1. /\ Append(v, byte) \in Seq(Byte) /\ Append(v, byte) # <<>>
      /\ Front(Append(v, byte)) = v /\ Last(Append(v, byte)) = byte
  BY Joined
<1>2. TimesTen[Append(v, byte)] = Multiplied(TimesTen[v], byte)
  BY <1>1, TimesTenTurns
<1>3. (byte * 10 + carry) \div 256 = high /\ (byte * 10 + carry) % 256 = low
  BY PartDivided
<1>. QED
  BY <1>2, <1>3 DEF Multiplied

\* With one more byte in front.
LEMMA Widened ==
  ASSUME NEW v \in Seq(Byte), NEW byte \in Byte
  PROVE  <<0>> \o v \in Seq(Byte) /\ <<0>> \o Append(v, byte) = Append(<<0>> \o v, byte)
<1>1. <<0>> \in Seq(Byte) /\ <<byte>> \in Seq(Byte)
  BY DEF Byte
<1>2. <<0>> \o v \in Seq(Byte)
  BY <1>1, ConcatProperties
<1>3. <<0>> \o (v \o <<byte>>) = (<<0>> \o v) \o <<byte>>
  BY <1>1, ConcatAssociative
<1>. QED
  BY <1>2, <1>3, AppendIsConcat

\* Ten times the quotient and the digit are what was divided, and there is no carry.
LEMMA QuotientTimesTen ==
  ASSUME NEW v \in Seq(Byte)
  PROVE  TimesTen[<<0>> \o DivTen[v].quotient][DivTen[v].digit] = <<0>> \o v
<1>. DEFINE G == {r \in Seq(Byte) : TimesTen[<<0>> \o DivTen[r].quotient][DivTen[r].digit] = <<0>> \o r}
<1>1. <<>> \in G
  <2>1. <<>> \in Seq(Byte) /\ 0 \in Byte /\ 0 \in Digit
    BY EmptySeq DEF Byte, Digit
  <2>2. DivTen[<<>>].quotient = <<>> /\ DivTen[<<>>].digit = 0
    <3>1. DivTen[<<>>] = [quotient |-> <<>>, digit |-> 0]
      BY <2>1, DivTenTurns
    <3>. QED
      BY <3>1
  <2>3. TimesTen[<<>>][0] = <<>>
    BY <2>1, TimesTenTurns
  <2>4. TimesTen[Append(<<>>, 0)][0] = Append(<<>>, 0)
    <3>1. 0 * 10 + 0 = 0 * 256 + 0
      OBVIOUS
    <3>2. TimesTen[Append(<<>>, 0)][0] = Append(TimesTen[<<>>][0], 0)
      BY <2>1, <3>1, TimesTenAppended
    <3>. QED
      BY <2>3, <3>2
  <2>5. <<0>> \o <<>> = <<0>> /\ Append(<<>>, 0) = <<0>>
    OBVIOUS
  <2>. QED
    BY <2>1, <2>2, <2>4, <2>5
<1>2. ASSUME NEW r \in Seq(Byte), r # <<>>, Front(r) \in G PROVE r \in G
  <2>. DEFINE q    == DivTen[Front(r)].quotient
              d    == DivTen[Front(r)].digit
              part == d * 256 + Last(r)
              low  == part \div 10
              rest == part % 10
  <2>1. /\ Front(r) \in Seq(Byte) /\ r = Append(Front(r), Last(r)) /\ Last(r) \in Byte
        /\ q \in Seq(Byte) /\ d \in Digit
        /\ DivTen[r].quotient = Append(q, low) /\ DivTen[r].digit = rest
    BY <1>2, Split, DivTenParts
  <2>2. low \in Byte /\ rest \in Digit /\ low * 10 + rest = d * 256 + Last(r)
    BY <2>1, PartDivided
  <2>4. TimesTen[<<0>> \o q][d] = <<0>> \o Front(r)
    BY <1>2
  <2>. HIDE DEF q, d, part, low, rest
  <2>5. <<0>> \o q \in Seq(Byte) /\ <<0>> \o Append(q, low) = Append(<<0>> \o q, low)
    BY <2>1, <2>2, Widened
  <2>6. TimesTen[Append(<<0>> \o q, low)][rest] = Append(TimesTen[<<0>> \o q][d], Last(r))
    <3>. DEFINE w == <<0>> \o q
                b == Last(r)
    <3>1. w \in Seq(Byte) /\ b \in Byte /\ low * 10 + rest = d * 256 + b
      BY <2>1, <2>2, <2>5
    <3>. HIDE DEF w, b
    <3>2. TimesTen[Append(w, low)][rest] = Append(TimesTen[w][d], b)
      BY <2>1, <2>2, <3>1, TimesTenAppended
    <3>. QED
      BY <3>2 DEF w, b
  <2>7. Append(<<0>> \o Front(r), Last(r)) = <<0>> \o r
    BY <2>1, Widened
  <2>. QED
    BY <2>1, <2>4, <2>5, <2>6, <2>7
<1>. HIDE DEF G
<1>3. \A r \in Seq(Byte) : r \in G
  BY <1>1, <1>2, FromTheFront
<1>. QED
  BY <1>3 DEF G
-----------------------------------------------------------------------------
(* The number that bytes are.                                               *)

Magnitude[v \in Seq(Byte)] == IF v = <<>> THEN 0 ELSE Magnitude[Front(v)] * 256 + Last(v)

LEMMA BytesAreNumbers == /\ \A b \in Byte : b \in Nat /\ b < 256
                         /\ \A d \in Digit : d \in Nat
BY DEF Byte, Digit

\* The part that is divided in a turn and what becomes of it, within the whole number.
SameNumber(m, d, b, low, rest) == (m * 10 + d) * 256 + b = (m * 256 + low) * 10 + rest

LEMMA Regrouped ==
  ASSUME NEW m \in Nat, NEW d \in Nat, NEW b \in Nat, NEW low \in Nat, NEW rest \in Nat,
         low * 10 + rest = d * 256 + b
  PROVE  SameNumber(m, d, b, low, rest)
BY DEF SameNumber

LEMMA MagnitudeTurns ==
  ASSUME NEW v \in Seq(Byte)
  PROVE  /\ Magnitude[v] \in Nat
         /\ Magnitude[v] = IF v = <<>> THEN 0 ELSE Magnitude[Front(v)] * 256 + Last(v)
<1>. DEFINE turn    == [p \in Nat \X Byte |-> p[1] * 256 + p[2]]
            Loop(f) == [r \in Seq(Byte) |-> IF r = <<>> THEN 0 ELSE f[Front(r)] * 256 + Last(r)]
<1>1. turn \in [Nat \X Byte -> Nat]
  <2>1. ASSUME NEW n \in Nat, NEW byte \in Byte PROVE n * 256 + byte \in Nat
    BY DEF Byte
  <2>. QED
    BY <2>1
<1>2. ASSUME NEW n \in Nat, NEW byte \in Byte PROVE turn[<<n, byte>>] = n * 256 + byte
  OBVIOUS
<1>. HIDE DEF turn
<1>3. PICK F : IsSequenceLoop(F, Byte, Nat, 0, turn)
  BY <1>1, SequenceRecursion
<1>4. F = Loop(F)
  <2>1. ASSUME NEW r \in Seq(Byte)
        PROVE  F[r] = IF r = <<>> THEN 0 ELSE F[Front(r)] * 256 + Last(r)
    <3>1. F[r] = IF r = <<>> THEN 0 ELSE turn[<<F[Front(r)], Last(r)>>]
      BY <1>3 DEF IsSequenceLoop, Front, Last
    <3>2. r # <<>> => F[Front(r)] \in Nat /\ Last(r) \in Byte
      BY <1>3, Split DEF IsSequenceLoop
    <3>. QED
      BY <1>2, <3>1, <3>2
  <2>. QED
    BY <1>3, <2>1 DEF IsSequenceLoop
<1>5. Magnitude = CHOOSE f : f = Loop(f)
  BY DEF Magnitude
<1>6. F \in [Seq(Byte) -> Nat]
  BY <1>3 DEF IsSequenceLoop
<1>. HIDE DEF Loop
<1>7. (CHOOSE f : f = Loop(f)) = Loop(CHOOSE f : f = Loop(f))
  BY <1>4
<1>8. Magnitude = Loop(Magnitude)
  BY <1>5, <1>7
<1>9. ASSUME NEW r \in Seq(Byte)
      PROVE  Magnitude[r] = IF r = <<>> THEN 0 ELSE Magnitude[Front(r)] * 256 + Last(r)
  BY <1>8 DEF Loop
<1>. DEFINE G == {r \in Seq(Byte) : Magnitude[r] \in Nat}
<1>10. <<>> \in G
  <2>1. <<>> \in Seq(Byte)
    BY EmptySeq
  <2>2. Magnitude[<<>>] = 0
    BY <1>9, <2>1
  <2>. QED
    BY <2>1, <2>2
<1>11. ASSUME NEW r \in Seq(Byte), r # <<>>, Front(r) \in G PROVE r \in G
  <2>1. Magnitude[Front(r)] \in Nat
    BY <1>11
  <2>2. Last(r) \in Byte
    BY <1>11, Split
  <2>3. Last(r) \in Nat
    BY <2>2, BytesAreNumbers
  <2>4. Magnitude[r] = Magnitude[Front(r)] * 256 + Last(r)
    BY <1>9, <1>11
  <2>. QED
    BY <2>1, <2>3, <2>4
<1>. HIDE DEF G
<1>12. \A r \in Seq(Byte) : r \in G
  BY <1>10, <1>11, FromTheFront
<1>. QED
  BY <1>9, <1>12 DEF G

LEMMA MagnitudeAppended ==
  ASSUME NEW v \in Seq(Byte), NEW byte \in Byte
  PROVE  Magnitude[Append(v, byte)] = Magnitude[v] * 256 + byte
<1>1. /\ Append(v, byte) \in Seq(Byte) /\ Append(v, byte) # <<>>
      /\ Front(Append(v, byte)) = v /\ Last(Append(v, byte)) = byte
  BY Joined
<1>. QED
  BY <1>1, MagnitudeTurns

\* The quotient is as long as what is divided, and is the tenth of it.
LEMMA MagnitudeDivided ==
  ASSUME NEW v \in Seq(Byte)
  PROVE  /\ DivTen[v].quotient \in Seq(Byte) /\ DivTen[v].digit \in Digit
         /\ Len(DivTen[v].quotient) = Len(v)
         /\ Magnitude[v] = Magnitude[DivTen[v].quotient] * 10 + DivTen[v].digit
<1>. DEFINE G == {r \in Seq(Byte) :
                    /\ Len(DivTen[r].quotient) = Len(r)
                    /\ Magnitude[r] = Magnitude[DivTen[r].quotient] * 10 + DivTen[r].digit}
<1>1. <<>> \in G
  <2>1. <<>> \in Seq(Byte)
    BY EmptySeq
  <2>2. DivTen[<<>>] = [quotient |-> <<>>, digit |-> 0]
    BY <2>1, DivTenTurns
  <2>3. DivTen[<<>>].quotient = <<>> /\ DivTen[<<>>].digit = 0
    BY <2>2
  <2>4. Magnitude[<<>>] = 0
    BY <2>1, MagnitudeTurns
  <2>. QED
    BY <2>1, <2>3, <2>4
<1>2. ASSUME NEW r \in Seq(Byte), r # <<>>, Front(r) \in G PROVE r \in G
  <2>. DEFINE q    == DivTen[Front(r)].quotient
              d    == DivTen[Front(r)].digit
              b    == Last(r)
              part == d * 256 + b
              low  == part \div 10
              rest == part % 10
  <2>1. /\ Front(r) \in Seq(Byte) /\ b \in Byte /\ Len(Front(r)) = Len(r) - 1 /\ Len(r) \in Nat
        /\ q \in Seq(Byte) /\ d \in Digit
        /\ DivTen[r].quotient = Append(q, low) /\ DivTen[r].digit = rest
    BY <1>2, Split, DivTenParts
  <2>2. low \in Byte /\ rest \in Digit /\ low * 10 + rest = d * 256 + b
    BY <2>1, PartDivided
  <2>3. /\ Len(q) = Len(Front(r)) /\ Magnitude[Front(r)] = Magnitude[q] * 10 + d
    BY <1>2
  <2>4. Magnitude[r] = Magnitude[Front(r)] * 256 + b
    BY <1>2, MagnitudeTurns
  <2>. HIDE DEF q, d, b, part, low, rest
  <2>5. Len(Append(q, low)) = Len(r)
    <3>1. Len(Append(q, low)) = Len(q) + 1
      BY <2>1, <2>2, Joined
    <3>. QED
      BY <2>1, <2>3, <3>1
  <2>6. Magnitude[Append(q, low)] = Magnitude[q] * 256 + low
    BY <2>1, <2>2, MagnitudeAppended
  <2>. PICK m \in Nat : m = Magnitude[q]
    BY <2>1, MagnitudeTurns
  <2>7. d \in Nat /\ b \in Nat /\ low \in Nat /\ rest \in Nat
    BY <2>1, <2>2, BytesAreNumbers
  <2>8. (m * 10 + d) * 256 + b = (m * 256 + low) * 10 + rest
    <3>1. SameNumber(m, d, b, low, rest)
      BY <2>2, <2>7, Regrouped
    <3>. QED
      BY <3>1 DEF SameNumber
  <2>9. Magnitude[r] = (m * 256 + low) * 10 + rest
    BY <2>3, <2>4, <2>8
  <2>. QED
    BY <2>1, <2>5, <2>6, <2>9
<1>. HIDE DEF G
<1>3. \A r \in Seq(Byte) : r \in G
  BY <1>1, <1>2, FromTheFront
<1>4. DivTen[v] \in Quotients
  BY DivTenTurns
<1>. QED
  BY <1>3, <1>4 DEF G, Quotients

LEMMA NullIsZero ==
  ASSUME NEW v \in Seq(Byte)
  PROVE  IsNull(v) <=> Magnitude[v] = 0
<1>. DEFINE G == {r \in Seq(Byte) : IsNull(r) <=> Magnitude[r] = 0}
<1>1. <<>> \in G
  <2>1. <<>> \in Seq(Byte) /\ IsNull(<<>>)
    BY EmptySeq DEF IsNull
  <2>. QED
    BY <2>1, MagnitudeTurns
<1>2. ASSUME NEW r \in Seq(Byte), r # <<>>, Front(r) \in G PROVE r \in G
  <2>. DEFINE f == Front(r)
              b == Last(r)
  <2>1. f \in Seq(Byte) /\ b \in Byte /\ r = Append(f, b)
    BY <1>2, Split
  <2>2. Magnitude[r] = Magnitude[f] * 256 + b /\ Magnitude[f] \in Nat
    BY <1>2, <2>1, MagnitudeTurns
  <2>. HIDE DEF f, b
  <2>3. IsNull(Append(f, b)) <=> IsNull(f) /\ b = 0
    <3>1. /\ Append(f, b) \in Seq(Byte) /\ Len(Append(f, b)) = Len(f) + 1
          /\ \A i \in 1 .. Len(f) : Append(f, b)[i] = f[i]
          /\ Append(f, b)[Len(f) + 1] = b
      BY <2>1, AppendProperties
    <3>2. Len(f) \in Nat /\ DOMAIN f = 1 .. Len(f) /\ DOMAIN Append(f, b) = 1 .. Len(f) + 1
      BY <2>1, <3>1, LenProperties
    <3>3. \A i \in 1 .. Len(f) + 1 : i \in 1 .. Len(f) \/ i = Len(f) + 1
      BY <3>2
    <3>4. Len(f) + 1 \in 1 .. Len(f) + 1 /\ \A i \in 1 .. Len(f) : i \in 1 .. Len(f) + 1
      BY <3>2
    <3>. DEFINE t == Append(f, b)
    <3>5. /\ DOMAIN t = 1 .. Len(f) + 1 /\ \A i \in 1 .. Len(f) : t[i] = f[i]
          /\ t[Len(f) + 1] = b
      BY <3>1, <3>2
    <3>. HIDE DEF t
    <3>6. IsNull(t) <=> IsNull(f) /\ b = 0
      BY <3>2, <3>3, <3>4, <3>5 DEF IsNull
    <3>. QED
      BY <3>6 DEF t
  <2>4. Magnitude[r] = 0 <=> Magnitude[f] = 0 /\ b = 0
    BY <2>1, <2>2 DEF Byte
  <2>5. IsNull(f) <=> Magnitude[f] = 0
    BY <1>2 DEF f
  <2>. QED
    BY <2>1, <2>3, <2>4, <2>5
<1>. HIDE DEF G
<1>3. \A r \in Seq(Byte) : r \in G
  BY <1>1, <1>2, FromTheFront
<1>. QED
  BY <1>3 DEF G

LEMMA NullsAreEqual ==
  ASSUME NEW v \in Seq(Byte), NEW w \in Seq(Byte), IsNull(v), IsNull(w), Len(v) = Len(w)
  PROVE  v = w
<1>1. Len(v) \in Nat /\ DOMAIN v = 1 .. Len(v) /\ DOMAIN w = 1 .. Len(w)
  BY LenProperties
<1>2. \A i \in 1 .. Len(v) : v[i] = w[i]
  BY <1>1 DEF IsNull
<1>. QED
  BY <1>2, SeqEqual

\* Two bytes more make a number less than 10^5 times what it was less than.
Below(n, limit) == \A f \in Seq(Byte) : Len(f) = n => Magnitude[f] < limit

LEMMA TwoBytesMore ==
  ASSUME NEW n \in Nat, NEW limit \in Nat, Below(n, limit),
         NEW m \in Nat, m = n + 2, NEW bound \in Nat, bound = limit * 100000
  PROVE  Below(m, bound)
<1>1. ASSUME NEW k \in Nat, NEW x \in Nat, Below(k, x) PROVE Below(k + 1, x * 256)
  <2>1. SUFFICES ASSUME NEW f \in Seq(Byte), Len(f) = k + 1 PROVE Magnitude[f] < x * 256
    BY DEF Below
  <2>2. f # <<>>
    <3>1. Len(<<>>) = 0
      OBVIOUS
    <3>. QED
      BY <2>1, <3>1
  <2>3. Front(f) \in Seq(Byte) /\ Len(Front(f)) = k /\ Last(f) \in Byte
    BY <2>1, <2>2, Split
  <2>4. Magnitude[f] = Magnitude[Front(f)] * 256 + Last(f) /\ Magnitude[Front(f)] \in Nat
    BY <2>2, <2>3, MagnitudeTurns
  <2>5. Magnitude[Front(f)] < x
    BY <1>1, <2>3 DEF Below
  <2>6. Last(f) \in Nat /\ Last(f) < 256
    BY <2>3, BytesAreNumbers
  <2>7. Magnitude[Front(f)] * 256 + Last(f) < x * 256
    BY <2>4, <2>5, <2>6, DigitAdded
  <2>. QED
    BY <2>4, <2>7
<1>2. PICK x \in Nat : x = limit * 256
  OBVIOUS
<1>3. Below(n + 1, x)
  BY <1>1, <1>2
<1>4. Below((n + 1) + 1, x * 256)
  BY <1>1, <1>2, <1>3
<1>5. (n + 1) + 1 = m /\ x * 256 <= bound /\ x * 256 \in Nat
  BY <1>2
<1>6. \A f \in Seq(Byte) : Magnitude[f] \in Nat
  BY MagnitudeTurns
<1>. QED
  BY <1>4, <1>5, <1>6 DEF Below
-----------------------------------------------------------------------------
(* The number that a text denotes.                                          *)

LEMMA CharactersDiffer ==
  /\ DOMAIN Characters = 1 .. 10
  /\ \A i, j \in 1 .. 10 : Characters[i] = Characters[j] => i = j
  /\ Characters[1] = "0"
BY DEF Characters

LEMMA NumeralOfDigit ==
  ASSUME NEW digit \in Digit
  PROVE  /\ Characters[digit + 1] \in Numerals /\ Value(Characters[digit + 1]) = digit
         /\ Characters[digit + 1] = "0" => digit = 0
<1>1. digit + 1 \in 1 .. 10 /\ 1 \in 1 .. 10 /\ (digit + 1) - 1 = digit
  BY DEF Digit
<1>2. Characters[digit + 1] \in Numerals
  BY <1>1, CharactersDiffer DEF Numerals
<1>. DEFINE n == digit + 1
            chosen == CHOOSE i \in DOMAIN Characters : Characters[i] = Characters[n]
<1>3. n \in DOMAIN Characters /\ Characters[n] = Characters[n]
  BY <1>1, CharactersDiffer
<1>. HIDE DEF n
<1>4. chosen \in DOMAIN Characters /\ Characters[chosen] = Characters[n]
  BY <1>3
<1>. HIDE DEF chosen
<1>5. chosen = n
  BY <1>3, <1>4, CharactersDiffer
<1>6. Value(Characters[n]) = n - 1
  BY <1>5 DEF Value, chosen
<1>7. Characters[n] = "0" => n = 1
  BY <1>3, <1>1, CharactersDiffer
<1>. QED
  BY <1>1, <1>2, <1>6, <1>7 DEF n

LEMMA ValueIsDigit ==
  ASSUME NEW c \in Numerals
  PROVE  Value(c) \in Digit
<1>1. PICK i \in DOMAIN Characters : c = Characters[i]
  BY DEF Numerals
<1>2. PICK digit \in Digit : digit + 1 = i
  <2>1. i \in 1 .. 10
    BY CharactersDiffer
  <2>2. i - 1 \in Digit /\ (i - 1) + 1 = i
    BY <2>1 DEF Digit
  <2>. QED
    BY <2>2
<1>. QED
  BY <1>1, <1>2, NumeralOfDigit

LEMMA SymbolsDiffer ==
  /\ "," \in Symbols /\ "." \in Symbols /\ "," # "."
  /\ "," \notin Numerals /\ "." \notin Numerals /\ "0" \in Numerals
  /\ Numerals \subseteq Symbols /\ Seq(Numerals) \subseteq Seq(Symbols)
<1>1. \A i \in 1 .. 10 : Characters[i] # "," /\ Characters[i] # "."
  <2>1. Characters[1] = "0" /\ Characters[2] = "1" /\ Characters[3] = "2" /\ Characters[4] = "3"
    BY DEF Characters
  <2>2. Characters[5] = "4" /\ Characters[6] = "5" /\ Characters[7] = "6"
    BY DEF Characters
  <2>3. Characters[8] = "7" /\ Characters[9] = "8" /\ Characters[10] = "9"
    BY DEF Characters
  <2>4. \A c \in {"0", "1", "2", "3", "4", "5", "6", "7", "8", "9"} : c # "," /\ c # "."
    OBVIOUS
  <2>5. \A i \in 1 .. 10 : i \in {1, 2, 3, 4, 5, 6, 7, 8, 9, 10}
    OBVIOUS
  <2>6. ASSUME NEW i \in 1 .. 10
        PROVE  Characters[i] \in {"0", "1", "2", "3", "4", "5", "6", "7", "8", "9"}
    BY <2>1, <2>2, <2>3, <2>5
  <2>. QED
    BY <2>4, <2>6
<1>2. "," \notin Numerals /\ "." \notin Numerals
  BY <1>1, CharactersDiffer DEF Numerals
<1>3. "0" \in Numerals
  <2>1. 1 \in DOMAIN Characters /\ Characters[1] = "0"
    BY CharactersDiffer
  <2>. QED
    BY <2>1 DEF Numerals
<1>4. Numerals \subseteq Symbols /\ "," \in Symbols /\ "." \in Symbols
  BY DEF Symbols
<1>5. \A s \in Seq(Numerals) : s \in Seq(Symbols)
  BY <1>4, SeqMonotonic
<1>. QED
  BY <1>2, <1>3, <1>4, <1>5

LEMMA ZerosAreBytes ==
  ASSUME NEW n \in Nat
  PROVE  Zeros(n) \in Seq(Byte) /\ Len(Zeros(n)) = n /\ IsNull(Zeros(n))
<1>1. 0 \in Byte
  BY DEF Byte
<1>2. Zeros(n) \in Seq(Byte) /\ Len(Zeros(n)) = n /\ DOMAIN Zeros(n) = 1 .. n
  BY <1>1 DEF Zeros
<1>. QED
  BY <1>2 DEF Zeros, IsNull

LEMMA DenotesTurns ==
  ASSUME NEW text \in Seq(Symbols)
  PROVE  /\ Denotes[text] \in Seq(Byte)
         /\ Denotes[text] = IF text = <<>> THEN Zeros(9)
                            ELSE IF Last(text) \notin Numerals THEN Denotes[Front(text)]
                            ELSE TimesTen[Denotes[Front(text)]][Value(Last(text))]
<1>. DEFINE start   == Zeros(9)
            more(v, c) == IF c \notin Numerals THEN v ELSE TimesTen[v][Value(c)]
            turn    == [p \in Seq(Byte) \X Symbols |-> more(p[1], p[2])]
            Loop(f) == [t \in Seq(Symbols) |->
                          IF t = <<>> THEN start
                          ELSE IF Last(t) \notin Numerals THEN f[Front(t)]
                          ELSE TimesTen[f[Front(t)]][Value(Last(t))]]
<1>0. ASSUME NEW v \in Seq(Byte), NEW c \in Symbols PROVE more(v, c) \in Seq(Byte)
  BY TimesTenTurns, ValueIsDigit DEF Products
<1>1. start \in Seq(Byte)
  BY ZerosAreBytes
<1>2. turn \in [Seq(Byte) \X Symbols -> Seq(Byte)]
  BY <1>0
<1>3. ASSUME NEW v \in Seq(Byte), NEW c \in Symbols PROVE turn[<<v, c>>] = more(v, c)
  OBVIOUS
<1>. HIDE DEF start, turn
<1>4. PICK F : IsSequenceLoop(F, Symbols, Seq(Byte), start, turn)
  BY <1>1, <1>2, SequenceRecursion
<1>5. F = Loop(F)
  <2>1. ASSUME NEW t \in Seq(Symbols)
        PROVE  F[t] = IF t = <<>> THEN start ELSE more(F[Front(t)], Last(t))
    <3>1. F[t] = IF t = <<>> THEN start ELSE turn[<<F[Front(t)], Last(t)>>]
      BY <1>4 DEF IsSequenceLoop, Front, Last
    <3>2. t # <<>> => F[Front(t)] \in Seq(Byte) /\ Last(t) \in Symbols
      BY <1>4, Split DEF IsSequenceLoop
    <3>. QED
      BY <1>3, <3>1, <3>2
  <2>. QED
    BY <1>4, <2>1 DEF IsSequenceLoop
<1>6. Denotes = CHOOSE f : f = Loop(f)
  BY DEF Denotes, start
<1>. HIDE DEF Loop
<1>7. (CHOOSE f : f = Loop(f)) = Loop(CHOOSE f : f = Loop(f))
  BY <1>5
<1>8. Denotes = Loop(Denotes)
  BY <1>6, <1>7
<1>9. ASSUME NEW t \in Seq(Symbols)
      PROVE  Denotes[t] = IF t = <<>> THEN start ELSE more(Denotes[Front(t)], Last(t))
  BY <1>8 DEF Loop
<1>. DEFINE G == {t \in Seq(Symbols) : Denotes[t] \in Seq(Byte)}
<1>10. <<>> \in G
  BY <1>1, <1>9, EmptySeq
<1>11. ASSUME NEW t \in Seq(Symbols), t # <<>>, Front(t) \in G PROVE t \in G
  <2>1. Denotes[Front(t)] \in Seq(Byte) /\ Last(t) \in Symbols
    BY <1>11, Split
  <2>. QED
    BY <1>0, <1>9, <1>11, <2>1
<1>. HIDE DEF G
<1>12. \A t \in Seq(Symbols) : t \in G
  BY <1>10, <1>11, FromTheFront
<1>. QED
  BY <1>9, <1>12 DEF G, start

LEMMA DenotesAppended ==
  ASSUME NEW text \in Seq(Symbols), NEW digit \in Digit
  PROVE  Denotes[Append(text, Characters[digit + 1])] = TimesTen[Denotes[text]][digit]
<1>. DEFINE c == Characters[digit + 1]
            t == Append(text, c)
<1>1. c \in Numerals /\ Value(c) = digit
  BY NumeralOfDigit
<1>. HIDE DEF c
<1>2. t \in Seq(Symbols) /\ t # <<>> /\ Front(t) = text /\ Last(t) = c
  BY <1>1, Joined, SymbolsDiffer
<1>. HIDE DEF t
<1>3. Denotes[t] = TimesTen[Denotes[text]][digit]
  BY <1>1, <1>2, DenotesTurns
<1>. QED
  BY <1>3 DEF t, c

LEMMA DenotesNothing == Denotes[<<>>] = Zeros(9)
BY EmptySeq, DenotesTurns
-----------------------------------------------------------------------------
(* The loop of print_uint.                                                  *)

Printing == [text : Seq(Numerals), rest : Seq(Byte)]

\* A turn of the loop, and what is there after any number of turns.
Turn(s) == [text |-> Append(s.text, Characters[DivTen[s.rest].digit + 1]),
            rest |-> DivTen[s.rest].quotient]

IsPrinting(h, v) ==
  /\ h \in [Nat -> Printing]
  /\ h[0] = [text |-> <<>>, rest |-> v]
  /\ \A n \in Nat : h[n + 1] = IF ~IsNull(h[n].rest) THEN Turn(h[n]) ELSE h[n]

LEMMA TurnType ==
  ASSUME NEW s \in Printing
  PROVE  Turn(s) \in Printing
<1>1. s.text \in Seq(Numerals) /\ s.rest \in Seq(Byte)
  BY DEF Printing
<1>2. DivTen[s.rest].quotient \in Seq(Byte) /\ DivTen[s.rest].digit \in Digit
  BY <1>1, MagnitudeDivided
<1>3. Append(s.text, Characters[DivTen[s.rest].digit + 1]) \in Seq(Numerals)
  BY <1>1, <1>2, NumeralOfDigit, Joined
<1>. QED
  BY <1>2, <1>3 DEF Turn, Printing

LEMMA DigitsAreTurns ==
  ASSUME NEW v \in Seq(Byte)
  PROVE  \E h : IsPrinting(h, v) /\ DigitsOf(v) = h[AmountMaxLength]
<1>. DEFINE start   == [text |-> <<>>, rest |-> v]
            next(s) == IF ~IsNull(s.rest) THEN Turn(s) ELSE s
            step    == [p \in Nat \X Printing |-> next(p[2])]
            Loop(f) == [i \in Nat |-> IF i = 0 THEN start ELSE next(f[i - 1])]
            after   == CHOOSE f : f = Loop(f)
<1>1. start \in Printing
  BY EmptySeq DEF Printing
<1>2. ASSUME NEW s \in Printing PROVE next(s) \in Printing
  BY TurnType
<1>. HIDE DEF start, next
<1>3. step \in [Nat \X Printing -> Printing]
  BY <1>2
<1>4. ASSUME NEW n \in Nat, NEW s \in Printing PROVE step[<<n, s>>] = next(s)
  OBVIOUS
<1>. HIDE DEF step
<1>5. PICK h : IsLoop(h, Printing, start, step)
  BY <1>1, <1>3, PrimitiveRecursion
<1>6. h = Loop(h)
  <2>1. ASSUME NEW i \in Nat PROVE h[i] = IF i = 0 THEN start ELSE next(h[i - 1])
    <3>1. CASE i = 0
      BY <1>5, <3>1 DEF IsLoop
    <3>2. CASE i # 0
      <4>1. PICK j \in Nat : i = j + 1
        <5>1. i - 1 \in Nat /\ i = (i - 1) + 1
          BY <3>2
        <5>. QED
          BY <5>1
      <4>2. i - 1 = j /\ h[j] \in Printing /\ h[j + 1] = step[<<j + 1, h[j]>>]
        BY <1>5, <4>1 DEF IsLoop
      <4>3. step[<<j + 1, h[j]>>] = next(h[j])
        BY <1>4, <4>2
      <4>. QED
        BY <3>2, <4>1, <4>2, <4>3
    <3>. QED
      BY <3>1, <3>2
  <2>. QED
    BY <1>5, <2>1 DEF IsLoop
<1>7. DigitsOf(v) = after[AmountMaxLength]
  BY DEF DigitsOf, While, start, next, Turn
<1>. HIDE DEF Loop
<1>8. after = Loop(after)
  BY <1>6
<1>. HIDE DEF after
<1>9. after = [i \in Nat |-> IF i = 0 THEN start ELSE next(after[i - 1])]
  BY <1>8 DEF Loop
<1>10. ASSUME NEW n \in Nat PROVE after[n + 1] = next(after[n])
  <2>1. n + 1 \in Nat /\ n + 1 # 0 /\ (n + 1) - 1 = n
    OBVIOUS
  <2>. QED
    BY <1>9, <2>1
<1>11. after[0] = start
  BY <1>9
<1>. DEFINE G == {n \in Nat : after[n] \in Printing}
<1>12. 0 \in G
  BY <1>1, <1>11
<1>13. ASSUME NEW n \in Nat, n \in G PROVE n + 1 \in G
  <2>1. after[n] \in Printing
    BY <1>13
  <2>2. after[n + 1] \in Printing
    BY <1>2, <1>10, <2>1
  <2>. QED
    BY <2>2
<1>. HIDE DEF G
<1>14. \A n \in Nat : n \in G
  BY <1>12, <1>13, Induction
<1>15. after \in [Nat -> Printing]
  BY <1>9, <1>14 DEF G
<1>16. IsPrinting(after, v)
  BY <1>10, <1>11, <1>15 DEF IsPrinting, start, next
<1>. QED
  BY <1>7, <1>16

\* What a turn does to what has not been printed.
LEMMA TurnPrints ==
  ASSUME NEW v \in Seq(Byte), NEW h, IsPrinting(h, v), NEW n \in Nat
  PROVE  /\ h[n].text \in Seq(Numerals) /\ h[n].rest \in Seq(Byte)
         /\ h[n + 1].rest \in Seq(Byte)
         /\ IsNull(h[n].rest) => h[n + 1] = h[n]
         /\ ~IsNull(h[n].rest) =>
              /\ h[n + 1].text = Append(h[n].text, Characters[DivTen[h[n].rest].digit + 1])
              /\ h[n + 1].rest = DivTen[h[n].rest].quotient
<1>1. h[n] \in Printing /\ n + 1 \in Nat /\ h[n + 1] \in Printing
  BY DEF IsPrinting
<1>2. h[n + 1] = IF ~IsNull(h[n].rest) THEN Turn(h[n]) ELSE h[n]
  BY DEF IsPrinting
<1>. QED
  BY <1>1, <1>2 DEF Printing, Turn

LEMMA StaysLong ==
  ASSUME NEW v \in Seq(Byte), NEW h, IsPrinting(h, v)
  PROVE  \A n \in Nat : Len(h[n].rest) = Len(v) /\ Len(h[n].text) <= n
<1>. DEFINE G == {n \in Nat : Len(h[n].rest) = Len(v) /\ Len(h[n].text) <= n}
<1>1. 0 \in G
  <2>1. h[0] = [text |-> <<>>, rest |-> v]
    BY DEF IsPrinting
  <2>2. h[0].text = <<>> /\ h[0].rest = v
    BY <2>1
  <2>3. Len(<<>>) = 0
    OBVIOUS
  <2>. QED
    BY <2>2, <2>3
<1>2. ASSUME NEW n \in Nat, n \in G PROVE n + 1 \in G
  <2>1. /\ Len(h[n].rest) = Len(v) /\ Len(h[n].text) <= n
        /\ h[n].text \in Seq(Numerals) /\ h[n].rest \in Seq(Byte)
    BY <1>2, TurnPrints
  <2>2. Len(h[n].text) \in Nat
    BY <2>1, LenProperties
  <2>3. CASE IsNull(h[n].rest)
    <3>1. h[n + 1] = h[n]
      BY <2>3, TurnPrints
    <3>. QED
      BY <2>1, <2>2, <3>1
  <2>4. CASE ~IsNull(h[n].rest)
    <3>. DEFINE d == DivTen[h[n].rest].digit
                q == DivTen[h[n].rest].quotient
    <3>1. h[n + 1].text = Append(h[n].text, Characters[d + 1]) /\ h[n + 1].rest = q
      BY <2>4, TurnPrints
    <3>2. Len(q) = Len(v) /\ d \in Digit
      BY <2>1, MagnitudeDivided
    <3>. HIDE DEF d, q
    <3>3. Characters[d + 1] \in Numerals
      BY <3>2, NumeralOfDigit
    <3>4. Len(Append(h[n].text, Characters[d + 1])) = Len(h[n].text) + 1
      BY <2>1, <3>3, Joined
    <3>. QED
      BY <2>1, <2>2, <3>1, <3>2, <3>4
  <2>. QED
    BY <2>3, <2>4
<1>. HIDE DEF G
<1>3. \A n \in Nat : n \in G
  BY <1>1, <1>2, Induction
<1>. QED
  BY <1>3 DEF G
-----------------------------------------------------------------------------
(* The loop comes to its end.                                               *)

LEMMA TurnShrinks ==
  ASSUME NEW v \in Seq(Byte), NEW h, IsPrinting(h, v), NEW n \in Nat, NEW limit \in Nat, limit # 0,
         Magnitude[h[n].rest] < limit * 10
  PROVE  Magnitude[h[n + 1].rest] < limit
<1>1. h[n].rest \in Seq(Byte)
  BY TurnPrints
<1>2. CASE IsNull(h[n].rest)
  <2>1. h[n + 1] = h[n] /\ Magnitude[h[n].rest] = 0
    BY <1>1, <1>2, TurnPrints, NullIsZero
  <2>. QED
    BY <2>1
<1>3. CASE ~IsNull(h[n].rest)
  <2>. DEFINE q == DivTen[h[n].rest].quotient
              d == DivTen[h[n].rest].digit
  <2>1. h[n + 1].rest = q
    BY <1>3, TurnPrints
  <2>2. q \in Seq(Byte) /\ d \in Digit /\ Magnitude[h[n].rest] = Magnitude[q] * 10 + d
    BY <1>1, MagnitudeDivided
  <2>. HIDE DEF q, d
  <2>3. Magnitude[q] \in Nat /\ d \in Nat
    BY <2>2, MagnitudeTurns, BytesAreNumbers
  <2>4. Magnitude[q] < limit
    BY <2>2, <2>3
  <2>. QED
    BY <2>1, <2>4
<1>. QED
  BY <1>2, <1>3

LEMMA FiveTurnsShrink ==
  ASSUME NEW v \in Seq(Byte), NEW h, IsPrinting(h, v), NEW n \in Nat, NEW limit \in Nat, limit # 0,
         NEW m \in Nat, m = n + 5, NEW bound \in Nat, bound = limit * 100000,
         Magnitude[h[n].rest] < bound
  PROVE  Magnitude[h[m].rest] < limit
<1>. DEFINE a == limit * 10
            b == a * 10
            c == b * 10
            d == c * 10
<1>1. /\ a \in Nat /\ a # 0 /\ b \in Nat /\ b # 0 /\ c \in Nat /\ c # 0 /\ d \in Nat /\ d # 0
      /\ d * 10 = limit * 100000
  OBVIOUS
<1>2. Magnitude[h[n].rest] < d * 10
  BY <1>1
<1>. DEFINE n1 == n + 1
            n2 == n1 + 1
            n3 == n2 + 1
            n4 == n3 + 1
<1>3. n1 \in Nat /\ n2 \in Nat /\ n3 \in Nat /\ n4 \in Nat /\ n4 + 1 = n + 5
  OBVIOUS
<1>4. n1 = n + 1 /\ n2 = n1 + 1 /\ n3 = n2 + 1 /\ n4 = n3 + 1
  OBVIOUS
<1>5. d = c * 10 /\ c = b * 10 /\ b = a * 10 /\ a = limit * 10
  OBVIOUS
<1>. HIDE DEF a, b, c, d, n1, n2, n3, n4
<1>6. Magnitude[h[n1].rest] < d
  BY <1>1, <1>2, <1>4, TurnShrinks
<1>7. Magnitude[h[n2].rest] < c
  BY <1>1, <1>3, <1>4, <1>5, <1>6, TurnShrinks
<1>8. Magnitude[h[n3].rest] < b
  BY <1>1, <1>3, <1>4, <1>5, <1>7, TurnShrinks
<1>9. Magnitude[h[n4].rest] < a
  BY <1>1, <1>3, <1>4, <1>5, <1>8, TurnShrinks
<1>10. Magnitude[h[n4 + 1].rest] < limit
  BY <1>3, <1>5, <1>9, TurnShrinks
<1>. QED
  BY <1>3, <1>10

\* What is left of a uint64_t after 20 turns is nothing.
LEMMA LoopEnds ==
  ASSUME NEW v \in Seq(Byte), Len(v) = 8, NEW h, IsPrinting(h, v)
  PROVE  IsNull(h[AmountMaxLength].rest)
<1>1. PICK a \in Nat : a = 1 * 100000 /\ a # 0
  OBVIOUS
<1>2. PICK b \in Nat : b = a * 100000 /\ b # 0
  BY <1>1
<1>3. PICK c \in Nat : c = b * 100000 /\ c # 0
  BY <1>2
<1>4. PICK d \in Nat : d = c * 100000
  OBVIOUS
<1>5. Below(0, 1)
  <2>1. \A f \in Seq(Byte) : Len(f) = 0 => f = <<>>
    BY EmptySeq
  <2>2. Magnitude[<<>>] = 0
    BY EmptySeq, MagnitudeTurns
  <2>. QED
    BY <2>1, <2>2 DEF Below
<1>6. 2 = 0 + 2 /\ 4 = 2 + 2 /\ 6 = 4 + 2 /\ 8 = 6 + 2
  OBVIOUS
<1>7. Below(2, a)
  BY <1>1, <1>5, <1>6, TwoBytesMore
<1>8. Below(4, b)
  BY <1>2, <1>6, <1>7, TwoBytesMore
<1>9. Below(6, c)
  BY <1>3, <1>6, <1>8, TwoBytesMore
<1>10. Below(8, d)
  BY <1>4, <1>6, <1>9, TwoBytesMore
<1>11. Magnitude[h[0].rest] < d
  <2>1. h[0].rest = v
    BY DEF IsPrinting
  <2>. QED
    BY <1>10, <2>1 DEF Below
<1>12. 5 = 0 + 5 /\ 10 = 5 + 5 /\ 15 = 10 + 5 /\ 20 = 15 + 5
  OBVIOUS
<1>13. Magnitude[h[5].rest] < c
  BY <1>3, <1>4, <1>11, <1>12, FiveTurnsShrink
<1>14. Magnitude[h[10].rest] < b
  BY <1>2, <1>3, <1>12, <1>13, FiveTurnsShrink
<1>15. Magnitude[h[15].rest] < a
  BY <1>1, <1>2, <1>12, <1>14, FiveTurnsShrink
<1>16. Magnitude[h[20].rest] < 1
  BY <1>1, <1>12, <1>15, FiveTurnsShrink
<1>17. h[20].rest \in Seq(Byte) /\ Magnitude[h[20].rest] \in Nat
  BY TurnPrints, MagnitudeTurns
<1>18. IsNull(h[20].rest)
  <2>1. Magnitude[h[20].rest] = 0
    BY <1>16, <1>17
  <2>. QED
    BY <1>17, <2>1, NullIsZero
<1>19. h[20 + 1] = h[20]
  BY <1>18, TurnPrints
<1>. QED
  BY <1>18, <1>19 DEF AmountMaxLength
-----------------------------------------------------------------------------
(* The text.                                                                *)

LEMMA ReversedType ==
  ASSUME NEW A, NEW s \in Seq(A)
  PROVE  /\ Reverse(s) \in Seq(A) /\ Len(Reverse(s)) = Len(s)
         /\ \A i \in 1 .. Len(s) : Reverse(s)[i] = s[(Len(s) - i) + 1]
<1>1. Len(s) \in Nat /\ \A i \in 1 .. Len(s) : s[i] \in A
  BY LenProperties, ElementOfSeq
<1>2. \A i \in 1 .. Len(s) : (Len(s) - i) + 1 \in 1 .. Len(s)
  BY <1>1
<1>. QED
  BY <1>1, <1>2 DEF Reverse

LEMMA ReverseAppended ==
  ASSUME NEW A, NEW s \in Seq(A), NEW e \in A
  PROVE  /\ Reverse(s) \in Seq(A) /\ Len(Reverse(s)) = Len(s)
         /\ Reverse(Append(s, e)) = <<e>> \o Reverse(s)
<1>. DEFINE r == Reverse(s)
            t == Append(s, e)
            u == Reverse(t)
            w == <<e>> \o r
<1>1. r \in Seq(A) /\ Len(r) = Len(s) /\ \A i \in 1 .. Len(s) : r[i] = s[(Len(s) - i) + 1]
  BY ReversedType
<1>2. /\ t \in Seq(A) /\ Len(t) = Len(s) + 1 /\ \A i \in 1 .. Len(s) : t[i] = s[i]
      /\ t[Len(s) + 1] = e
  BY AppendProperties
<1>. HIDE DEF r, t
<1>3. u \in Seq(A) /\ Len(u) = Len(t) /\ \A i \in 1 .. Len(t) : u[i] = t[(Len(t) - i) + 1]
  BY <1>2, ReversedType
<1>4. /\ w \in Seq(A) /\ Len(w) = 1 + Len(r)
      /\ \A i \in 1 .. 1 + Len(r) : w[i] = IF i <= 1 THEN e ELSE r[i - 1]
  <2>1. <<e>> \in Seq(A) /\ Len(<<e>>) = 1 /\ <<e>>[1] = e
    OBVIOUS
  <2>2. /\ w \in Seq(A) /\ Len(w) = 1 + Len(r)
        /\ \A i \in 1 .. 1 + Len(r) : w[i] = IF i <= 1 THEN <<e>>[i] ELSE r[i - 1]
    BY <1>1, <2>1, ConcatProperties
  <2>3. Len(r) \in Nat
    BY <1>1, LenProperties
  <2>. HIDE DEF w
  <2>. QED
    BY <2>1, <2>2, <2>3
<1>. HIDE DEF u, w
<1>5. Len(s) \in Nat
  BY LenProperties
<1>6. ASSUME NEW i \in 1 .. Len(u) PROVE u[i] = w[i]
  <2>1. i \in 1 .. Len(s) + 1 /\ u[i] = t[((Len(s) + 1) - i) + 1]
    BY <1>2, <1>3
  <2>2. CASE i = 1
    <3>1. ((Len(s) + 1) - i) + 1 = Len(s) + 1
      BY <1>5, <2>2
    <3>. QED
      BY <1>1, <1>2, <1>4, <1>5, <2>1, <2>2, <3>1
  <2>3. CASE i # 1
    <3>1. /\ ((Len(s) + 1) - i) + 1 \in 1 .. Len(s) /\ i - 1 \in 1 .. Len(s) /\ ~(i <= 1)
          /\ ((Len(s) + 1) - i) + 1 = (Len(s) - (i - 1)) + 1
      BY <1>5, <2>1, <2>3
    <3>2. u[i] = s[(Len(s) - (i - 1)) + 1]
      BY <1>2, <2>1, <3>1
    <3>3. w[i] = r[i - 1]
      BY <1>1, <1>4, <1>5, <2>1, <3>1
    <3>. QED
      BY <1>1, <3>1, <3>2, <3>3
  <2>. QED
    BY <2>2, <2>3
<1>7. u = w
  BY <1>1, <1>2, <1>3, <1>4, <1>5, <1>6, SeqEqual
<1>. QED
  BY <1>1, <1>7 DEF r, t, u, w

\* Whatever denotes what is left, with what has been printed behind it denotes the number.
LEMMA PrintedDenotes ==
  ASSUME NEW v \in Seq(Byte), NEW h, IsPrinting(h, v)
  PROVE  \A n \in Nat : \A t \in Seq(Numerals) :
           Denotes[t] = <<0>> \o h[n].rest => Denotes[t \o Reverse(h[n].text)] = <<0>> \o v
<1>. DEFINE G == {n \in Nat : \A t \in Seq(Numerals) :
                    Denotes[t] = <<0>> \o h[n].rest => Denotes[t \o Reverse(h[n].text)] = <<0>> \o v}
<1>1. 0 \in G
  <2>1. h[0].text = <<>> /\ h[0].rest = v
    BY DEF IsPrinting
  <2>2. Reverse(<<>>) = <<>>
    BY DEF Reverse
  <2>3. \A t \in Seq(Numerals) : t \o <<>> = t
    BY ConcatEmptySeq
  <2>. QED
    BY <2>1, <2>2, <2>3
<1>2. ASSUME NEW n \in Nat, n \in G PROVE n + 1 \in G
  <2>1. SUFFICES ASSUME NEW t \in Seq(Numerals), Denotes[t] = << 0 >> \o h[n + 1].rest
                 PROVE  Denotes[t \o Reverse(h[n + 1].text)] = <<0>> \o v
    OBVIOUS
  <2>2. h[n].text \in Seq(Numerals) /\ h[n].rest \in Seq(Byte)
    BY TurnPrints
  <2>3. CASE IsNull(h[n].rest)
    <3>1. h[n + 1] = h[n]
      BY <2>3, TurnPrints
    <3>. QED
      BY <1>2, <2>1, <3>1
  <2>4. CASE ~IsNull(h[n].rest)
    <3>. DEFINE d    == DivTen[h[n].rest].digit
                q    == DivTen[h[n].rest].quotient
                c    == Characters[d + 1]
                text == h[n].text
                rest == h[n].rest
    <3>1. h[n + 1].text = Append(text, c) /\ h[n + 1].rest = q
      BY <2>4, TurnPrints
    <3>2. d \in Digit /\ TimesTen[<<0>> \o q][d] = <<0>> \o rest
      BY <2>2, MagnitudeDivided, QuotientTimesTen
    <3>3. c \in Numerals /\ text \in Seq(Numerals)
      BY <2>2, <3>2, NumeralOfDigit
    <3>4. Denotes[Append(t, c)] = TimesTen[Denotes[t]][d]
      BY <2>1, <3>2, SymbolsDiffer, DenotesAppended
    <3>5. \A u \in Seq(Numerals) : Denotes[u] = <<0>> \o rest => Denotes[u \o Reverse(text)] = <<0>> \o v
      BY <1>2
    <3>. HIDE DEF d, q, c, text, rest
    <3>6. Denotes[Append(t, c)] = <<0>> \o rest
      BY <2>1, <3>1, <3>2, <3>4
    <3>7. Append(t, c) \in Seq(Numerals) /\ Append(t, c) = t \o <<c>>
      BY <3>3, AppendProperties, AppendIsConcat
    <3>8. Denotes[Append(t, c) \o Reverse(text)] = <<0>> \o v
      BY <3>5, <3>6, <3>7
    <3>9. Reverse(text) \in Seq(Numerals) /\ Reverse(Append(text, c)) = <<c>> \o Reverse(text)
      BY <3>3, ReverseAppended
    <3>10. (t \o <<c>>) \o Reverse(text) = t \o (<<c>> \o Reverse(text))
      <4>1. <<c>> \in Seq(Numerals)
        BY <3>3
      <4>. QED
        BY <3>9, <4>1, ConcatAssociative
    <3>. QED
      BY <3>1, <3>7, <3>8, <3>9, <3>10
  <2>. QED
    BY <2>3, <2>4
<1>. HIDE DEF G
<1>3. \A n \in Nat : n \in G
  BY <1>1, <1>2, Induction
<1>. QED
  BY <1>3 DEF G

\* The last digit that is written, the first one of the number, is not zero.
LEMMA NoLeadingZero ==
  ASSUME NEW v \in Seq(Byte), NEW h, IsPrinting(h, v)
  PROVE  \A n \in Nat : h[n].text # <<>> /\ IsNull(h[n].rest) => Last(h[n].text) # "0"
<1>. DEFINE G == {n \in Nat : h[n].text # <<>> /\ IsNull(h[n].rest) => Last(h[n].text) # "0"}
<1>1. 0 \in G
  <2>1. h[0].text = <<>>
    BY DEF IsPrinting
  <2>. QED
    BY <2>1
<1>2. ASSUME NEW n \in Nat, n \in G PROVE n + 1 \in G
  <2>1. h[n].text \in Seq(Numerals) /\ h[n].rest \in Seq(Byte)
    BY TurnPrints
  <2>2. CASE IsNull(h[n].rest)
    <3>1. h[n + 1] = h[n]
      BY <2>2, TurnPrints
    <3>. QED
      BY <1>2, <3>1
  <2>3. CASE ~IsNull(h[n].rest)
    <3>. DEFINE d == DivTen[h[n].rest].digit
                q == DivTen[h[n].rest].quotient
    <3>1. h[n + 1].text = Append(h[n].text, Characters[d + 1]) /\ h[n + 1].rest = q
      BY <2>3, TurnPrints
    <3>2. d \in Digit /\ q \in Seq(Byte) /\ Magnitude[h[n].rest] = Magnitude[q] * 10 + d
      BY <2>1, MagnitudeDivided
    <3>3. Magnitude[h[n].rest] # 0
      BY <2>1, <2>3, NullIsZero
    <3>. HIDE DEF d, q
    <3>4. IsNull(q) => d # 0
      BY <3>2, <3>3, NullIsZero
    <3>5. Characters[d + 1] \in Numerals /\ (Characters[d + 1] = "0" => d = 0)
      BY <3>2, NumeralOfDigit
    <3>6. Last(h[n + 1].text) = Characters[d + 1]
      BY <2>1, <3>1, <3>5, Joined
    <3>7. IsNull(h[n + 1].rest) => Last(h[n + 1].text) # "0"
      BY <3>1, <3>4, <3>5, <3>6
    <3>. QED
      BY <3>7
  <2>. QED
    BY <2>2, <2>3
<1>. HIDE DEF G
<1>3. \A n \in Nat : n \in G
  BY <1>1, <1>2, Induction
<1>. QED
  BY <1>3 DEF G

LEMMA WidenedNull ==
  ASSUME NEW v \in Seq(Byte), Len(v) = 8, IsNull(v)
  PROVE  <<0>> \o v = Zeros(9)
<1>1. <<0>> \in Seq(Byte) /\ Len(<<0>>) = 1 /\ <<0>>[1] = 0
  BY DEF Byte
<1>. DEFINE w == <<0>> \o v
<1>2. /\ w \in Seq(Byte) /\ Len(w) = 9
      /\ \A i \in 1 .. 9 : w[i] = IF i <= 1 THEN <<0>>[i] ELSE v[i - 1]
  <2>. DEFINE zero == <<0>>
  <2>1. zero \in Seq(Byte) /\ Len(zero) = 1
    BY <1>1
  <2>. HIDE DEF zero
  <2>2. /\ zero \o v \in Seq(Byte) /\ Len(zero \o v) = Len(zero) + Len(v)
        /\ \A i \in 1 .. Len(zero) + Len(v) :
             (zero \o v)[i] = IF i <= Len(zero) THEN zero[i] ELSE v[i - Len(zero)]
    BY <2>1, ConcatProperties
  <2>3. Len(zero) + Len(v) = 9
    BY <2>1
  <2>. QED
    BY <2>1, <2>2, <2>3 DEF zero
<1>. HIDE DEF w
<1>3. DOMAIN v = 1 .. 8 /\ DOMAIN w = 1 .. 9
  BY <1>2, LenProperties
<1>4. ASSUME NEW i \in 1 .. 9 PROVE w[i] = 0
  <2>1. CASE i = 1
    BY <1>1, <1>2, <2>1
  <2>2. CASE i # 1
    <3>1. i - 1 \in 1 .. 8 /\ ~(i <= 1)
      BY <2>2
    <3>2. v[i - 1] = 0
      BY <1>3, <3>1 DEF IsNull
    <3>. QED
      BY <1>2, <3>1, <3>2
  <2>. QED
    BY <2>1, <2>2
<1>5. IsNull(w)
  BY <1>3, <1>4 DEF IsNull
<1>6. w = Zeros(9)
  <2>1. Zeros(9) \in Seq(Byte) /\ Len(Zeros(9)) = 9 /\ IsNull(Zeros(9))
    BY ZerosAreBytes
  <2>. QED
    BY <1>2, <1>5, <2>1, NullsAreEqual
<1>. QED
  BY <1>6 DEF w

\* A uint64_t is printed as what it is, without leading zeros, if there is room for 21 digits.
LEMMA NumberIsPrinted ==
  ASSUME NEW v \in Seq(Byte), Len(v) = 8, NEW length \in Nat, length > AmountMaxLength
  PROVE  LET p == PrintUint(v, length)
         IN  /\ p.ok /\ p.text \in Seq(Numerals) /\ Denotes[p.text] = <<0>> \o v
             /\ p.text[1] = "0" => Len(p.text) = 1
<1>. DEFINE p == PrintUint(v, length)
<1>1. CASE IsNull(v)
  <2>1. p.ok /\ p.text = <<"0">>
    <3>1. ~(length < 2)
      BY DEF AmountMaxLength
    <3>2. p = Printed(<<"0">>)
      BY <1>1, <3>1 DEF PrintUint
    <3>. QED
      BY <3>2 DEF Printed
  <2>2. /\ 0 \in Digit /\ Characters[0 + 1] = "0" /\ <<>> \in Seq(Symbols)
        /\ <<"0">> \in Seq(Numerals)
    <3>1. 0 \in Digit /\ 0 + 1 = 1
      BY DEF Digit
    <3>2. "0" \in Numerals
      BY SymbolsDiffer
    <3>. QED
      BY <3>1, <3>2, CharactersDiffer, EmptySeq
  <2>3. Denotes[Append(<<>>, Characters[0 + 1])] = TimesTen[Denotes[<<>>]][0]
    BY <2>2, DenotesAppended
  <2>4. Append(<<>>, "0") = <<"0">>
    OBVIOUS
  <2>5. Denotes[<<"0">>] = TimesTen[Zeros(9)][0]
    BY <2>2, <2>3, <2>4, DenotesNothing
  <2>6. TimesTen[<<0>> \o v][0] = <<0>> \o v
    <3>. DEFINE q == DivTen[v].quotient
                d == DivTen[v].digit
    <3>1. /\ q \in Seq(Byte) /\ d \in Digit /\ Len(q) = Len(v)
          /\ Magnitude[v] = Magnitude[q] * 10 + d
      BY MagnitudeDivided
    <3>2. TimesTen[<<0>> \o q][d] = <<0>> \o v
      BY QuotientTimesTen
    <3>. HIDE DEF q, d
    <3>3. Magnitude[v] = 0 /\ Magnitude[q] \in Nat /\ d \in Nat
      BY <1>1, <3>1, NullIsZero, MagnitudeTurns, BytesAreNumbers
    <3>4. Magnitude[q] = 0 /\ d = 0
      BY <3>1, <3>3
    <3>5. q = v
      BY <1>1, <3>1, <3>4, NullIsZero, NullsAreEqual
    <3>. QED
      BY <3>2, <3>4, <3>5
  <2>7. Denotes[<<"0">>] = <<0>> \o v
    BY <1>1, <2>5, <2>6, WidenedNull
  <2>8. Len(<<"0">>) = 1
    OBVIOUS
  <2>. QED
    BY <2>1, <2>2, <2>7, <2>8
<1>2. CASE ~IsNull(v)
  <2>1. PICK h : IsPrinting(h, v) /\ DigitsOf(v) = h[AmountMaxLength]
    BY DigitsAreTurns
  <2>. DEFINE n    == AmountMaxLength
              text == h[n].text
              rest == h[n].rest
  <2>2. n \in Nat /\ n < length
    BY DEF AmountMaxLength
  <2>3. /\ text \in Seq(Numerals) /\ rest \in Seq(Byte)
        /\ Len(text) <= n /\ Len(rest) = 8 /\ IsNull(rest)
    BY <2>1, <2>2, TurnPrints, StaysLong, LoopEnds
  <2>4. Len(text) \in Nat /\ DOMAIN text = 1 .. Len(text)
    BY <2>3, LenProperties
  <2>5. p = Printed(Reverse(text))
    <3>1. ~(~IsNull(rest) \/ length <= Len(text))
      BY <2>2, <2>3, <2>4
    <3>. QED
      BY <1>2, <2>1, <3>1 DEF PrintUint
  <2>6. p.ok /\ p.text = Reverse(text)
    BY <2>5 DEF Printed
  <2>7. Reverse(text) \in Seq(Numerals) /\ Len(Reverse(text)) = Len(text)
    BY <2>3, ReversedType
  <2>8. Denotes[Reverse(text)] = <<0>> \o v
    <3>1. <<>> \in Seq(Numerals)
      BY EmptySeq
    <3>2. Denotes[<<>>] = <<0>> \o rest
      BY <2>3, DenotesNothing, WidenedNull
    <3>3. Denotes[<<>> \o Reverse(text)] = <<0>> \o v
      BY <2>1, <2>2, <3>1, <3>2, PrintedDenotes
    <3>4. <<>> \o Reverse(text) = Reverse(text)
      BY <2>7, ConcatEmptySeq
    <3>. QED
      BY <3>3, <3>4
  <2>9. text # <<>>
    <3>1. SUFFICES ASSUME text = <<>> PROVE FALSE
      OBVIOUS
    <3>2. Reverse(text) = <<>>
      BY <3>1 DEF Reverse
    <3>3. <<0>> \o rest = <<0>> \o v
      BY <2>3, <2>8, <3>2, DenotesNothing, WidenedNull
    <3>4. <<0>> \in Seq(Byte)
      BY DEF Byte
    <3>5. \A s, t, u \in Seq(Byte) : s \o t = s \o u => t = u
      BY ConcatSimplifications
    <3>6. rest = v
      <4>. DEFINE zero == <<0>>
      <4>1. zero \in Seq(Byte) /\ zero \o rest = zero \o v
        BY <3>3, <3>4
      <4>. HIDE DEF zero, rest
      <4>. QED
        BY <2>3, <3>5, <4>1
    <3>. QED
      BY <1>2, <2>3, <3>6
  <2>10. Reverse(text)[1] = Last(text)
    <3>1. Len(text) # 0
      BY <2>3, <2>9, EmptySeq
    <3>2. 1 \in 1 .. Len(text) /\ (Len(text) - 1) + 1 = Len(text)
      BY <2>4, <3>1
    <3>. HIDE DEF text
    <3>. QED
      BY <3>2 DEF Reverse, Last
  <2>11. Last(text) # "0"
    BY <2>1, <2>2, <2>3, <2>9, NoLeadingZero
  <2>. QED
    BY <2>6, <2>7, <2>8, <2>10, <2>11
<1>. QED
  BY <1>1, <1>2
-----------------------------------------------------------------------------
(* The loop of print_amount.                                                *)

Paying == [text : Seq(Symbols), rest : Seq(Byte), full : BOOLEAN]

\* The condition of the loop.
Goes(s) == ~s.full /\ (~IsNull(s.rest) \/ Len(s.text) < 9)

\* h[n] is the loop after n turns.
IsPaying(h, v) ==
  /\ h \in [Nat -> Paying]
  /\ h[0] = [text |-> <<>>, rest |-> v, full |-> FALSE]
  /\ \A n \in Nat : h[n + 1] = IF Goes(h[n]) THEN AmountTurn(h[n]) ELSE h[n]

\* What a digit makes of the text.
Longer(text, c) ==
  IF Len(text) = 6 THEN Append(Append(text, c), ".")
  ELSE IF Len(text) \in {11, 15, 19} THEN Append(Append(text, ","), c)
  ELSE Append(text, c)

\* What may be at place j of the text, which is written backwards.
Fits(c, j) ==
  /\ j = 8 => c = "."
  /\ j \in {12, 16, 20} => c = ","
  /\ j \notin {8, 12, 16, 20} => c \in Numerals

\* The place of the point and of the commas; the last of them is a digit's.
IsLaid(text) ==
  /\ text \in Seq(Symbols)
  /\ Len(text) <= 23 /\ Len(text) \notin {7, 12, 16, 20}
  /\ \A j \in 1 .. Len(text) :
       Fits(text[j], j)

LEMMA Appended ==
  ASSUME NEW A, NEW s \in Seq(A), NEW e \in A, NEW n \in Nat, n = Len(s), NEW m \in Nat, m = n + 1
  PROVE  /\ Append(s, e) \in Seq(A) /\ Len(Append(s, e)) = m
         /\ (\A i \in 1 .. n : Append(s, e)[i] = s[i]) /\ Append(s, e)[m] = e
BY AppendProperties

LEMMA AppendedTwice ==
  ASSUME NEW A, NEW s \in Seq(A), NEW d \in A, NEW e \in A,
         NEW n \in Nat, n = Len(s), NEW m \in Nat, m = n + 2
  PROVE  LET t == Append(Append(s, d), e) IN
         /\ t \in Seq(A) /\ Len(t) = m
         /\ (\A i \in 1 .. n : t[i] = s[i]) /\ t[n + 1] = d /\ t[m] = e
<1>. DEFINE u == Append(s, d)
            t == Append(u, e)
<1>1. PICK k \in Nat : k = n + 1
  OBVIOUS
<1>2. u \in Seq(A) /\ Len(u) = k /\ (\A i \in 1 .. n : u[i] = s[i]) /\ u[k] = d
  BY <1>1, Appended
<1>. HIDE DEF u
<1>3. m = k + 1
  BY <1>1
<1>4. t \in Seq(A) /\ Len(t) = m /\ (\A i \in 1 .. k : t[i] = u[i]) /\ t[m] = e
  BY <1>2, <1>3, Appended
<1>. HIDE DEF t
<1>5. (\A i \in 1 .. n : t[i] = s[i]) /\ t[n + 1] = d
  BY <1>1, <1>2, <1>4
<1>. QED
  BY <1>4, <1>5 DEF t, u

LEMMA One ==
  ASSUME NEW A, NEW e \in A
  PROVE  <<e>> \in Seq(A) /\ Len(<<e>>) = 1 /\ <<e>>[1] = e
OBVIOUS

LEMMA ConcatOne ==
  ASSUME NEW A, NEW s \in Seq(A), NEW e \in A
  PROVE  s \o <<e>> = Append(s, e) /\ s \o <<>> = s
BY AppendIsConcat, ConcatEmptySeq

LEMMA AmountTurnType ==
  ASSUME NEW s \in Paying
  PROVE  AmountTurn(s) \in Paying
<1>. DEFINE q == DivTen[s.rest].quotient
            c == Characters[DivTen[s.rest].digit + 1]
            n == Len(s.text)
            comma == IF n >= 11 /\ n < AmountWithCommasMaxLength /\ (n - 11) % 4 = 0
                     THEN <<",">> ELSE <<>>
            grouped == s.text \o comma
            point   == IF Len(grouped) = 6 THEN <<".">> ELSE <<>>
            text    == Append(grouped, c) \o point
<1>1. s.text \in Seq(Symbols) /\ s.rest \in Seq(Byte) /\ s.full \in BOOLEAN
  BY DEF Paying
<1>2. q \in Seq(Byte) /\ c \in Symbols
  <2>1. DivTen[s.rest].digit \in Digit /\ q \in Seq(Byte)
    BY <1>1, MagnitudeDivided
  <2>2. c \in Numerals
    BY <2>1, NumeralOfDigit
  <2>. QED
    BY <2>1, <2>2, SymbolsDiffer
<1>3. comma \in Seq(Symbols) /\ point \in Seq(Symbols)
  <2>1. <<",">> \in Seq(Symbols) /\ <<".">> \in Seq(Symbols) /\ <<>> \in Seq(Symbols)
    BY SymbolsDiffer, One, EmptySeq
  <2>. QED
    BY <2>1
<1>. HIDE DEF comma, point, q, c
<1>4. grouped \in Seq(Symbols)
  BY <1>1, <1>3, ConcatProperties
<1>. HIDE DEF grouped
<1>5. text \in Seq(Symbols)
  BY <1>2, <1>3, <1>4, AppendProperties, ConcatProperties
<1>6. AmountTurn(s) = IF Len(grouped) >= AmountWithCommasMaxLength THEN [s EXCEPT !.full = TRUE]
                      ELSE [s EXCEPT !.text = text, !.rest = q]
  BY DEF AmountTurn, grouped, comma, point, q, c
<1>. HIDE DEF text
<1>. QED
  BY <1>1, <1>2, <1>5, <1>6 DEF Paying

\* A turn either finds no room or makes the text longer.
LEMMA AmountTurned ==
  ASSUME NEW s \in Paying, IsLaid(s.text)
  PROVE  /\ Len(s.text) = 23 => AmountTurn(s).full
         /\ Len(s.text) # 23 =>
              /\ AmountTurn(s).text = Longer(s.text, Characters[DivTen[s.rest].digit + 1])
              /\ AmountTurn(s).rest = DivTen[s.rest].quotient
              /\ AmountTurn(s).full = s.full
<1>. DEFINE q == DivTen[s.rest].quotient
            c == Characters[DivTen[s.rest].digit + 1]
            marked  == /\ Len(s.text) >= 11 /\ Len(s.text) < AmountWithCommasMaxLength
                       /\ (Len(s.text) - 11) % 4 = 0
            comma   == IF marked THEN <<",">> ELSE <<>>
            grouped == s.text \o comma
            point   == IF Len(grouped) = 6 THEN <<".">> ELSE <<>>
            text    == Append(grouped, c) \o point
<1>1. s.text \in Seq(Symbols) /\ s.rest \in Seq(Byte) /\ s.full \in BOOLEAN
  BY DEF Paying
<1>0. PICK n \in Nat : n = Len(s.text)
  BY <1>1, LenProperties
<1>2. n <= 23 /\ n \notin {7, 12, 16, 20}
  BY <1>0 DEF IsLaid
<1>3. c \in Symbols
  <2>1. DivTen[s.rest].digit \in Digit
    BY <1>1, MagnitudeDivided
  <2>2. c \in Numerals
    BY <2>1, NumeralOfDigit
  <2>. QED
    BY <2>2, SymbolsDiffer
<1>4. AmountTurn(s) = IF Len(grouped) >= AmountWithCommasMaxLength THEN [s EXCEPT !.full = TRUE]
                      ELSE [s EXCEPT !.text = text, !.rest = q]
  BY DEF AmountTurn
<1>5. /\ [s EXCEPT !.full = TRUE].full 
      /\ [s EXCEPT !.text = text, !.rest = q].text = text
      /\ [s EXCEPT !.text = text, !.rest = q].rest = q
      /\ [s EXCEPT !.text = text, !.rest = q].full = s.full
  <2>. HIDE DEF text, q
  <2>. QED
    BY DEF Paying
<1>6. marked <=> n \in {11, 15, 19, 23}
  <2>1. (n >= 11 /\ n < 24 /\ (n - 11) % 4 = 0) <=> n \in {11, 15, 19, 23}
    BY <1>2
  <2>. QED
    BY <1>0, <2>1 DEF AmountWithCommasMaxLength
<1>. HIDE DEF marked
<1>7. CASE n \in {11, 15, 19, 23}
  <2>1. grouped = Append(s.text, ",")
    <3>1. comma = <<",">>
      BY <1>6, <1>7
    <3>. QED
      BY <1>1, <3>1, SymbolsDiffer, ConcatOne
  <2>2. grouped \in Seq(Symbols) /\ Len(grouped) = n + 1
    <3>1. PICK m \in Nat : m = n + 1
      OBVIOUS
    <3>2. ASSUME NEW e \in Symbols
          PROVE  Append(s.text, e) \in Seq(Symbols) /\ Len(Append(s.text, e)) = m
      BY <1>0, <1>1, <3>1, Appended
    <3>. QED
      BY <2>1, <3>1, <3>2, SymbolsDiffer
  <2>3. Append(grouped, c) \in Seq(Symbols)
    BY <1>3, <2>2, AppendProperties
  <2>4. text = Append(grouped, c)
    <3>1. point = <<>>
      <4>1. Len(grouped) # 6
        <5>. HIDE DEF grouped
        <5>. QED
          BY <1>7, <2>2
      <4>. QED
        BY <4>1
    <3>. QED
      BY <2>3, <3>1, ConcatEmptySeq
  <2>5. n # 23 => text = Longer(s.text, c)
    <3>. HIDE DEF grouped, text, c
    <3>1. n # 6
      BY <1>7
    <3>. QED
      BY <1>0, <3>1, <1>7, <2>1, <2>4 DEF Longer
  <2>6. n = 23 <=> Len(grouped) >= AmountWithCommasMaxLength
    <3>. HIDE DEF grouped
    <3>. QED
      BY <1>2, <2>2 DEF AmountWithCommasMaxLength
  <2>. HIDE DEF text, grouped, q, c
  <2>. QED
    BY <1>0, <1>4, <1>5, <2>5, <2>6 DEF q, c
<1>8. CASE n \notin {11, 15, 19, 23}
  <2>1. grouped = s.text
    <3>1. comma = <<>>
      BY <1>6, <1>8
    <3>. QED
      BY <1>1, <3>1, ConcatEmptySeq
  <2>2. Append(s.text, c) \in Seq(Symbols)
    BY <1>1, <1>3, AppendProperties
  <2>3. text = Longer(s.text, c)
    <3>1. CASE n = 6
      <4>1. point = <<".">>
        BY <1>0, <2>1, <3>1
      <4>2. text = Append(Append(s.text, c), ".")
        <5>1. text = Append(s.text, c) \o <<".">>
          BY <2>1, <4>1
        <5>. HIDE DEF text, c
        <5>. QED
          BY <2>2, <5>1, SymbolsDiffer, ConcatOne
      <4>. QED
        BY <1>0, <3>1, <4>2 DEF Longer
    <3>2. CASE n # 6
      <4>1. point = <<>>
        <5>1. Len(grouped) # 6
          BY <1>0, <2>1, <3>2
        <5>. QED
          BY <5>1
      <4>2. text = Append(s.text, c)
        BY <2>1, <2>2, <4>1, ConcatEmptySeq
      <4>. QED
        BY <1>0, <1>8, <3>2, <4>2 DEF Longer
    <3>. QED
      BY <3>1, <3>2
  <2>4. ~(Len(grouped) >= AmountWithCommasMaxLength) /\ n # 23
    <3>. HIDE DEF grouped
    <3>. QED
      BY <1>0, <1>2, <1>8, <2>1 DEF AmountWithCommasMaxLength
  <2>. HIDE DEF text, grouped, q, c
  <2>. QED
    BY <1>0, <1>4, <1>5, <2>3, <2>4 DEF q, c
<1>. QED
  BY <1>7, <1>8

HasLength(text, n) == Len(text) = n

\* A digit leaves the point and the commas at their places.
LEMMA LongerIsLaid ==
  ASSUME NEW text, IsLaid(text), NEW n \in Nat, HasLength(text, n), n # 23, NEW c \in Numerals
  PROVE  /\ IsLaid(Longer(text, c))
         /\ Len(Longer(text, c)) = IF n \in {6, 11, 15, 19} THEN n + 2 ELSE n + 1
         /\ Last(Longer(text, c)) = IF n = 6 THEN "." ELSE c
<1>. DEFINE t == Longer(text, c)
<1>1. text \in Seq(Symbols) /\ c \in Symbols
  BY SymbolsDiffer DEF IsLaid
<1>2. n <= 22 /\ n \notin {7, 12, 16, 20} /\ \A j \in 1 .. n : Fits(text[j], j)
  <2>1. n <= 23 /\ n \notin {7, 12, 16, 20} /\ \A j \in 1 .. n : Fits(text[j], j)
    BY DEF IsLaid, HasLength
  <2>. QED
    BY <2>1
<1>3. ASSUME NEW m \in Nat, m = n + 2, NEW d \in Symbols, NEW e \in Symbols,
             t = Append(Append(text, d), e), Fits(d, n + 1), Fits(e, m), n \in {6, 11, 15, 19}
      PROVE  IsLaid(t) /\ Len(t) = n + 2 /\ Last(t) = e
  <2>1. /\ t \in Seq(Symbols) /\ Len(t) = m /\ (\A i \in 1 .. n : t[i] = text[i])
        /\ t[n + 1] = d /\ t[m] = e
    BY <1>1, <1>3, AppendedTwice DEF HasLength
  <2>. HIDE DEF t
  <2>2. ASSUME NEW j \in 1 .. m PROVE Fits(t[j], j)
    <3>1. j \in 1 .. n \/ j = n + 1 \/ j = m
      BY <1>3
    <3>. QED
      BY <1>2, <1>3, <2>1, <3>1
  <2>3. m <= 23 /\ m \notin {7, 12, 16, 20}
    BY <1>2, <1>3
  <2>. QED
    BY <1>3, <2>1, <2>2, <2>3 DEF IsLaid, Last
<1>4. ASSUME NEW m \in Nat, m = n + 1, t = Append(text, c), n \notin {6, 11, 15, 19}
      PROVE  IsLaid(t) /\ Len(t) = n + 1 /\ Last(t) = c
  <2>1. /\ t \in Seq(Symbols) /\ Len(t) = m /\ (\A i \in 1 .. n : t[i] = text[i]) /\ t[m] = c
    BY <1>1, <1>4, Appended DEF HasLength
  <2>. HIDE DEF t
  <2>2. ASSUME NEW j \in 1 .. m PROVE Fits(t[j], j)
    <3>1. j \in 1 .. n \/ j = m
      BY <1>4
    <3>2. m \notin {8, 12, 16, 20}
      BY <1>2, <1>4
    <3>3. Fits(c, m)
      BY <3>2 DEF Fits
    <3>. QED
      BY <1>2, <2>1, <3>1, <3>3
  <2>3. m <= 23 /\ m \notin {7, 12, 16, 20}
    BY <1>2, <1>4
  <2>. QED
    BY <1>4, <2>1, <2>2, <2>3 DEF IsLaid, Last
<1>5. CASE n = 6
  <2>1. t = Append(Append(text, c), ".")
    BY <1>5 DEF Longer, HasLength
  <2>2. PICK m \in Nat : m = n + 2
    OBVIOUS
  <2>3. Fits(c, n + 1) /\ Fits(".", m)
    BY <1>5, <2>2 DEF Fits
  <2>. HIDE DEF t
  <2>. QED
    BY <1>1, <1>3, <1>5, <2>1, <2>2, <2>3, SymbolsDiffer DEF t
<1>6. CASE n \in {11, 15, 19}
  <2>1. t = Append(Append(text, ","), c)
    <3>1. n # 6
      BY <1>6
    <3>. QED
      BY <1>6, <3>1 DEF Longer, HasLength
  <2>2. PICK m \in Nat : m = n + 2
    OBVIOUS
  <2>3. Fits(",", n + 1) /\ Fits(c, m)
    <3>1. n + 1 \in {12, 16, 20} /\ n + 1 # 8
      BY <1>6
    <3>2. m \notin {8, 12, 16, 20}
      BY <1>6, <2>2
    <3>. QED
      BY <3>1, <3>2 DEF Fits
  <2>4. n # 6
    BY <1>6
  <2>. HIDE DEF t
  <2>. QED
    BY <1>1, <1>3, <1>6, <2>1, <2>2, <2>3, <2>4, SymbolsDiffer DEF t
<1>7. CASE n \notin {6, 11, 15, 19}
  <2>1. t = Append(text, c)
    BY <1>7 DEF Longer, HasLength
  <2>2. PICK m \in Nat : m = n + 1
    OBVIOUS
  <2>. HIDE DEF t
  <2>. QED
    BY <1>4, <1>7, <2>1, <2>2 DEF t
<1>. QED
  BY <1>5, <1>6, <1>7

\* The loop is a function of the number of its turns.
LEMMA AmountIsTurns ==
  ASSUME NEW v \in Seq(Byte)
  PROVE  \E h : /\ IsPaying(h, v)
              /\ h[AmountWithCommasMaxLength] =
                   While([text |-> <<>>, rest |-> v, full |-> FALSE],
                         LAMBDA r : ~r.full /\ (~IsNull(r.rest) \/ Len(r.text) < 9), AmountTurn,
                         AmountWithCommasMaxLength)
<1>. DEFINE start   == [text |-> <<>>, rest |-> v, full |-> FALSE]
            turn(s) == IF Goes(s) THEN AmountTurn(s) ELSE s
            next    == [s \in Paying |-> turn(s)]
            Loop(f) == [i \in Nat |-> IF i = 0 THEN start ELSE turn(f[i - 1])]
            after   == CHOOSE f : f = Loop(f)
<1>1. start \in Paying
  BY EmptySeq DEF Paying
<1>2. ASSUME NEW s \in Paying PROVE turn(s) \in Paying
  BY AmountTurnType
<1>3. after[AmountWithCommasMaxLength] =
        While([text |-> <<>>, rest |-> v, full |-> FALSE],
              LAMBDA r : ~r.full /\ (~IsNull(r.rest) \/ Len(r.text) < 9), AmountTurn,
              AmountWithCommasMaxLength)
  BY DEF While, Goes
<1>4. start = [text |-> <<>>, rest |-> v, full |-> FALSE]
  OBVIOUS
<1>. HIDE DEF start, turn
<1>5. next \in [Paying -> Paying]
  BY <1>2
<1>6. ASSUME NEW s \in Paying PROVE next[s] = turn(s)
  OBVIOUS
<1>. HIDE DEF next
<1>7. PICK g : Iterates(g, Paying, start, next)
  BY <1>1, <1>5, Iteration
<1>8. g = Loop(g)
  <2>1. ASSUME NEW i \in Nat PROVE g[i] = IF i = 0 THEN start ELSE turn(g[i - 1])
    <3>1. g[i] = IF i = 0 THEN start ELSE next[g[i - 1]]
      BY <1>7 DEF Iterates
    <3>2. i # 0 => i - 1 \in Nat
      OBVIOUS
    <3>3. i # 0 => g[i - 1] \in Paying
      BY <1>7, <3>2 DEF Iterates
    <3>. QED
      BY <1>6, <3>1, <3>3
  <2>. QED
    BY <1>7, <2>1 DEF Iterates
<1>. HIDE DEF Loop
<1>9. after = Loop(after)
  BY <1>8
<1>. HIDE DEF after
<1>10. after = [i \in Nat |-> IF i = 0 THEN start ELSE turn(after[i - 1])]
  BY <1>9 DEF Loop
<1>11. ASSUME NEW n \in Nat PROVE after[n + 1] = turn(after[n])
  <2>1. n + 1 \in Nat /\ n + 1 # 0 /\ (n + 1) - 1 = n
    OBVIOUS
  <2>. QED
    BY <1>10, <2>1
<1>12. after[0] = start
  BY <1>10
<1>. DEFINE G == {n \in Nat : after[n] \in Paying}
<1>13. 0 \in G
  BY <1>1, <1>12
<1>14. ASSUME NEW n \in Nat, n \in G PROVE n + 1 \in G
  <2>1. after[n + 1] \in Paying
    BY <1>2, <1>11, <1>14
  <2>. QED
    BY <2>1
<1>. HIDE DEF G
<1>15. \A n \in Nat : n \in G
  BY <1>13, <1>14, Induction
<1>16. after \in [Nat -> Paying]
  BY <1>10, <1>15 DEF G
<1>17. IsPaying(after, v)
  BY <1>4, <1>11, <1>12, <1>16 DEF IsPaying, turn
<1>. QED
  BY <1>3, <1>17

\* With a character more at its end the text takes over from what is in front of it.
LEMMA TakesOver ==
  ASSUME NEW A, NEW t \in Seq(A), NEW text \in Seq(A), NEW c \in A
  PROVE  t \o Reverse(Append(text, c)) = Append(t, c) \o Reverse(text)
<1>1. Reverse(text) \in Seq(A) /\ Reverse(Append(text, c)) = <<c>> \o Reverse(text)
  BY ReverseAppended
<1>2. Append(t, c) = t \o <<c>> /\ <<c>> \in Seq(A)
  BY AppendIsConcat, One
<1>3. (t \o <<c>>) \o Reverse(text) = t \o (<<c>> \o Reverse(text))
  BY <1>1, <1>2, ConcatAssociative
<1>. QED
  BY <1>1, <1>2, <1>3

\* Commas and the point mean nothing.
LEMMA SymbolSkipped ==
  ASSUME NEW t \in Seq(Symbols), NEW c \in Symbols, c \notin Numerals
  PROVE  Denotes[Append(t, c)] = Denotes[t]
<1>. DEFINE u == Append(t, c)
<1>1. u \in Seq(Symbols) /\ u # <<>> /\ Front(u) = t /\ Last(u) = c
  BY Joined
<1>. HIDE DEF u
<1>2. Denotes[u] = Denotes[t]
  BY <1>1, DenotesTurns
<1>. QED
  BY <1>2 DEF u

\* Whatever denotes what is left, with what has been printed behind it denotes the amount.
Completes(text, rest, wide) ==
  \A t \in Seq(Symbols) : Denotes[t] = rest => Denotes[t \o Reverse(text)] = wide

\* q and the digit, which is printed as c, are what the rest was divided into.
Divides(q, digit, c, rest) ==
  digit \in Digit /\ c = Characters[digit + 1] /\ TimesTen[q][digit] = rest

\* What the text completes of the dividend, the longer text completes of the quotient.
LEMMA LongerCompletes ==
  ASSUME NEW text \in Seq(Symbols), NEW q, NEW digit, NEW c, NEW rest, Divides(q, digit, c, rest),
         NEW v, Completes(text, rest, v)
  PROVE  Completes(Longer(text, c), q, v)
<1>. SUFFICES ASSUME NEW t \in Seq(Symbols), Denotes[t] = q
              PROVE  Denotes[t \o Reverse(Longer(text, c))] = v
  BY DEF Completes
<1>0. digit \in Digit /\ c = Characters[digit + 1] /\ TimesTen[q][digit] = rest
  BY DEF Divides
<1>1. c \in Numerals /\ c \in Symbols
  BY <1>0, NumeralOfDigit, SymbolsDiffer
<1>2. Append(t, c) \in Seq(Symbols) /\ Denotes[Append(t, c)] = rest
  BY <1>0, <1>1, DenotesAppended, AppendProperties
<1>3. ASSUME NEW d \in Symbols, d \notin Numerals
      PROVE  /\ Append(t, d) \in Seq(Symbols) /\ Append(Append(t, d), c) \in Seq(Symbols)
             /\ Append(Append(t, c), d) \in Seq(Symbols)
             /\ Denotes[Append(Append(t, d), c)] = rest /\ Denotes[Append(Append(t, c), d)] = rest
  <2>1. Append(t, d) \in Seq(Symbols) /\ Append(Append(t, c), d) \in Seq(Symbols)
    BY <1>2, <1>3, AppendProperties
  <2>2. Append(Append(t, d), c) \in Seq(Symbols)
    BY <1>1, <2>1, AppendProperties
  <2>3. Denotes[Append(Append(t, c), d)] = rest
    BY <1>2, <1>3, SymbolSkipped
  <2>4. Denotes[Append(t, d)] = q
    BY <1>3, SymbolSkipped
  <2>5. Denotes[Append(Append(t, d), c)] = TimesTen[Denotes[Append(t, d)]][digit]
    BY <1>0, <2>1, DenotesAppended
  <2>. QED
    BY <1>0, <2>1, <2>2, <2>3, <2>4, <2>5
<1>4. CASE Len(text) = 6
  <2>. DEFINE point == "."
  <2>1. point \in Symbols /\ point \notin Numerals
    BY SymbolsDiffer
  <2>2. Longer(text, c) = Append(Append(text, c), point)
    BY <1>4 DEF Longer
  <2>. HIDE DEF point
  <2>3. Append(text, c) \in Seq(Symbols)
    BY <1>1, AppendProperties
  <2>4. t \o Reverse(Append(Append(text, c), point)) = Append(t, point) \o Reverse(Append(text, c))
    BY <2>1, <2>3, TakesOver
  <2>5. Append(t, point) \o Reverse(Append(text, c)) = Append(Append(t, point), c) \o Reverse(text)
    BY <1>1, <1>3, <2>1, TakesOver
  <2>6. Denotes[Append(Append(t, point), c) \o Reverse(text)] = v
    BY <1>3, <2>1 DEF Completes
  <2>. QED
    BY <2>2, <2>4, <2>5, <2>6
<1>5. CASE Len(text) # 6 /\ Len(text) \in {11, 15, 19}
  <2>. DEFINE comma == ","
  <2>1. comma \in Symbols /\ comma \notin Numerals
    BY SymbolsDiffer
  <2>2. Longer(text, c) = Append(Append(text, comma), c)
    BY <1>5 DEF Longer
  <2>. HIDE DEF comma
  <2>3. Append(text, comma) \in Seq(Symbols)
    BY <2>1, AppendProperties
  <2>4. t \o Reverse(Append(Append(text, comma), c)) = Append(t, c) \o Reverse(Append(text, comma))
    BY <1>1, <2>3, TakesOver
  <2>5. Append(t, c) \o Reverse(Append(text, comma)) = Append(Append(t, c), comma) \o Reverse(text)
    BY <1>2, <2>1, TakesOver
  <2>6. Denotes[Append(Append(t, c), comma) \o Reverse(text)] = v
    BY <1>3, <2>1 DEF Completes
  <2>. QED
    BY <2>2, <2>4, <2>5, <2>6
<1>6. CASE Len(text) # 6 /\ Len(text) \notin {11, 15, 19}
  <2>1. Longer(text, c) = Append(text, c)
    BY <1>6 DEF Longer
  <2>2. t \o Reverse(Append(text, c)) = Append(t, c) \o Reverse(text)
    BY <1>1, TakesOver
  <2>3. Denotes[Append(t, c) \o Reverse(text)] = v
    BY <1>2 DEF Completes
  <2>. QED
    BY <2>1, <2>2, <2>3
<1>. QED
  BY <1>4, <1>5, <1>6

\* What holds of the loop after n turns that all had room.
Sound(s, v, n) ==
  /\ IsLaid(s.text)
  /\ Goes(s) => n <= Len(s.text)
  /\ Len(s.text) > 9 /\ IsNull(s.rest) => Last(s.text) # "0"
  /\ Completes(s.text, <<0>> \o s.rest, <<0>> \o v)

LEMMA SoundTurn ==
  ASSUME NEW s \in Paying, NEW n \in Nat, NEW v, Sound(s, v, n), Goes(s), ~AmountTurn(s).full
  PROVE  Sound(AmountTurn(s), v, n + 1)
<1>. DEFINE q    == DivTen[s.rest].quotient
            d    == DivTen[s.rest].digit
            c    == Characters[d + 1]
            text == Longer(s.text, c)
            turn == AmountTurn(s)
<1>1. s.text \in Seq(Symbols) /\ s.rest \in Seq(Byte)
  BY DEF Paying
<1>2. PICK m \in Nat : HasLength(s.text, m)
  BY <1>1, LenProperties DEF HasLength
<1>3. /\ q \in Seq(Byte) /\ d \in Digit /\ Magnitude[s.rest] = Magnitude[q] * 10 + d
      /\ TimesTen[<<0>> \o q][d] = <<0>> \o s.rest
  BY <1>1, MagnitudeDivided, QuotientTimesTen
<1>4. c \in Numerals /\ (c = "0" => d = 0)
  BY <1>3, NumeralOfDigit
<1>5. IsLaid(s.text) /\ m # 23 /\ turn.text = text /\ turn.rest = q
  <2>1. IsLaid(s.text)
    BY DEF Sound
  <2>. QED
    BY <1>2, <2>1, AmountTurned DEF HasLength
<1>. HIDE DEF turn
<1>6. /\ IsLaid(text)
      /\ Len(text) = IF m \in {6, 11, 15, 19} THEN m + 2 ELSE m + 1
      /\ Last(text) = IF m = 6 THEN "." ELSE c
  <2>. HIDE DEF c
  <2>. QED
    BY <1>2, <1>4, <1>5, LongerIsLaid
<1>7. Completes(text, <<0>> \o q, <<0>> \o v)
  <2>. DEFINE low  == <<0>> \o q
              rest == <<0>> \o s.rest
              wide == <<0>> \o v
  <2>1. Completes(s.text, rest, wide)
    BY DEF Sound
  <2>2. Divides(low, d, c, rest)
    BY <1>3 DEF Divides
  <2>. HIDE DEF low, rest, wide, d, c
  <2>3. Completes(Longer(s.text, c), low, wide)
    BY <1>1, <2>1, <2>2, LongerCompletes
  <2>. QED
    BY <2>3 DEF low, wide
<1>8. n <= m
  BY <1>2 DEF Sound, HasLength
<1>9. n + 1 <= Len(text)
  <2>. HIDE DEF text
  <2>. QED
    BY <1>6, <1>8
<1>10. ASSUME Len(text) > 9, IsNull(q) PROVE Last(text) # "0"
  <2>1. m >= 9
    <3>. HIDE DEF text
    <3>1. Len(text) = m + 2 => m \in {6, 11, 15, 19}
      BY <1>6
    <3>2. Len(text) = m + 1 \/ (Len(text) = m + 2 /\ m # 8 /\ m # 7)
      BY <1>6
    <3>. QED
      BY <1>10, <3>2
  <2>2. ~IsNull(s.rest)
    BY <1>2, <2>1 DEF Goes, HasLength
  <2>3. d # 0
    <3>1. Magnitude[s.rest] # 0 /\ Magnitude[q] = 0
      BY <1>1, <1>3, <1>10, <2>2, NullIsZero
    <3>. HIDE DEF d, q
    <3>. QED
      BY <1>3, <3>1
  <2>4. m # 6
    BY <2>1
  <2>. QED
    BY <1>4, <1>6, <2>3, <2>4
<1>. HIDE DEF text, q
<1>11. Completes(turn.text, <<0>> \o turn.rest, <<0>> \o v)
  BY <1>5, <1>7
<1>. QED
  BY <1>5, <1>6, <1>9, <1>10, <1>11 DEF Sound, turn

\* As long as there is room.
LEMMA StaysSound ==
  ASSUME NEW v \in Seq(Byte), NEW h, IsPaying(h, v)
  PROVE  \A n \in Nat : ~h[n].full => Sound(h[n], v, n)
<1>. DEFINE G == {n \in Nat : ~h[n].full => Sound(h[n], v, n)}
<1>1. 0 \in G
  <2>1. h[0].text = <<>> /\ h[0].rest = v
    BY DEF IsPaying
  <2>2. <<>> \in Seq(Symbols) /\ Len(<<>>) = 0
    BY EmptySeq
  <2>3. IsLaid(<<>>)
    BY <2>2 DEF IsLaid
  <2>4. Completes(h[0].text, <<0>> \o h[0].rest, <<0>> \o v)
    <3>1. Reverse(<<>>) = <<>>
      BY DEF Reverse
    <3>2. \A t \in Seq(Symbols) : t \o <<>> = t
      BY ConcatEmptySeq
    <3>. QED
      BY <2>1, <3>1, <3>2 DEF Completes
  <2>5. Sound(h[0], v, 0)
    BY <2>1, <2>2, <2>3, <2>4 DEF Sound
  <2>. QED
    BY <2>5
<1>2. ASSUME NEW n \in Nat, n \in G PROVE n + 1 \in G
  <2>1. h[n] \in Paying /\ h[n + 1] = IF Goes(h[n]) THEN AmountTurn(h[n]) ELSE h[n]
    BY DEF IsPaying
  <2>2. SUFFICES ASSUME ~h[n + 1].full PROVE Sound(h[n + 1], v, n + 1)
    OBVIOUS
  <2>3. CASE Goes(h[n])
    <3>1. Sound(h[n], v, n)
      BY <1>2, <2>3 DEF Goes
    <3>2. ~AmountTurn(h[n]).full
      BY <2>1, <2>2, <2>3
    <3>3. Sound(AmountTurn(h[n]), v, n + 1)
      BY <2>1, <2>3, <3>1, <3>2, SoundTurn
    <3>. QED
      BY <2>1, <2>3, <3>3
  <2>4. CASE ~Goes(h[n])
    <3>1. h[n + 1] = h[n] /\ Sound(h[n], v, n)
      BY <1>2, <2>1, <2>2, <2>4
    <3>. QED
      BY <2>4, <3>1 DEF Sound
  <2>. QED
    BY <2>3, <2>4
<1>. HIDE DEF G
<1>3. \A n \in Nat : n \in G
  BY <1>1, <1>2, Induction
<1>. QED
  BY <1>3 DEF G

\* When the loop is over the text is whole, unless there was no room.
LEMMA AmountEnds ==
  ASSUME NEW v \in Seq(Byte), NEW h, IsPaying(h, v), NEW n \in Nat, n = 24, ~h[n].full
  PROVE  Sound(h[n], v, n) /\ IsNull(h[n].rest) /\ Len(h[n].text) >= 9
<1>1. Sound(h[n], v, n)
  BY StaysSound
<1>2. h[n].text \in Seq(Symbols) /\ Len(h[n].text) <= 23
  BY <1>1 DEF Sound, IsLaid
<1>3. PICK m \in Nat : m = Len(h[n].text)
  BY <1>2, LenProperties
<1>4. ~(n <= m)
  BY <1>2, <1>3
<1>5. ~Goes(h[n])
  BY <1>1, <1>3, <1>4 DEF Sound
<1>6. IsNull(h[n].rest) /\ ~(m < 9)
  BY <1>3, <1>5 DEF Goes
<1>. QED
  BY <1>1, <1>3, <1>6
-----------------------------------------------------------------------------
(* There is room for the amounts that are not negative.                     *)

\* The length of the text after n turns.
Place(n) == IF n <= 6 THEN n ELSE IF n <= 10 THEN n + 1 ELSE IF n <= 13 THEN n + 2
            ELSE IF n <= 16 THEN n + 3 ELSE n + 4

\* After n turns there is room, and what is left to print is below the limit.
Roomy(s, n, limit) ==
  ~s.full /\ (Goes(s) => HasLength(s.text, Place(n))) /\ Magnitude[s.rest] < limit

LEMMA PlaceTurns ==
  ASSUME NEW n \in Nat, n < 19
  PROVE  /\ Place(n) \in Nat /\ Place(n) # 23
         /\ Place(n + 1) = IF Place(n) \in {6, 11, 15, 19} THEN Place(n) + 2 ELSE Place(n) + 1
<1>1. PICK p \in Nat : p = Place(n)
  BY DEF Place
<1>2. p # 23
  BY <1>1 DEF Place
<1>3. Place(n + 1) = IF p \in {6, 11, 15, 19} THEN p + 2 ELSE p + 1
  <2>1. CASE n \in {6, 10, 13, 16}
    <3>1. p \in {6, 11, 15, 19} /\ Place(n + 1) = p + 2
      BY <1>1, <2>1 DEF Place
    <3>. QED
      BY <3>1
  <2>2. CASE n \notin {6, 10, 13, 16}
    <3>1. p \notin {6, 11, 15, 19} /\ Place(n + 1) = p + 1
      BY <1>1, <2>2 DEF Place
    <3>. QED
      BY <3>1
  <2>. QED
    BY <2>1, <2>2
<1>. QED
  BY <1>1, <1>2, <1>3

\* A turn that has room leaves a tenth to print, and room for it.
LEMMA StaysRoomy ==
  ASSUME NEW v \in Seq(Byte), NEW h, IsPaying(h, v), NEW n \in Nat, n < 19,
         NEW limit \in Nat, limit # 0, NEW bound \in Nat, bound = limit * 10, Roomy(h[n], n, bound)
  PROVE  Roomy(h[n + 1], n + 1, limit)
<1>1. h[n] \in Paying /\ h[n + 1] = IF Goes(h[n]) THEN AmountTurn(h[n]) ELSE h[n]
  BY DEF IsPaying
<1>2. h[n].text \in Seq(Symbols) /\ h[n].rest \in Seq(Byte)
  BY <1>1 DEF Paying
<1>3. CASE ~Goes(h[n])
  <2>1. IsNull(h[n].rest) /\ ~h[n].full
    BY <1>3 DEF Goes, Roomy
  <2>2. Magnitude[h[n].rest] = 0
    BY <1>2, <2>1, NullIsZero
  <2>. QED
    BY <1>1, <1>3, <2>1, <2>2 DEF Roomy
<1>4. CASE Goes(h[n])
  <2>. DEFINE q == DivTen[h[n].rest].quotient
              d == DivTen[h[n].rest].digit
              c == Characters[d + 1]
  <2>1. q \in Seq(Byte) /\ d \in Digit /\ Magnitude[h[n].rest] = Magnitude[q] * 10 + d
    BY <1>2, MagnitudeDivided
  <2>2. Magnitude[q] \in Nat /\ d \in Nat /\ Magnitude[h[n].rest] < bound
    BY <2>1, MagnitudeTurns, BytesAreNumbers DEF Roomy
  <2>3. IsLaid(h[n].text)
    BY <1>4, StaysSound DEF Goes, Sound
  <2>4. PICK p \in Nat : p = Place(n) /\ p # 23
    BY PlaceTurns
  <2>5. HasLength(h[n].text, p)
    BY <1>4, <2>4 DEF Roomy
  <2>6. c \in Numerals
    BY <2>1, NumeralOfDigit
  <2>7. /\ AmountTurn(h[n]).text = Longer(h[n].text, c)
        /\ AmountTurn(h[n]).rest = q /\ AmountTurn(h[n]).full = h[n].full
    BY <1>1, <2>3, <2>4, <2>5, AmountTurned DEF HasLength
  <2>. HIDE DEF q, d, c
  <2>8. Magnitude[q] < limit
    BY <2>1, <2>2
  <2>9. Len(Longer(h[n].text, c)) = IF p \in {6, 11, 15, 19} THEN p + 2 ELSE p + 1
    BY <2>3, <2>4, <2>5, <2>6, LongerIsLaid
  <2>10. HasLength(Longer(h[n].text, c), Place(n + 1))
    BY <2>4, <2>9, PlaceTurns DEF HasLength
  <2>. QED
    BY <1>1, <1>4, <2>7, <2>8, <2>10 DEF Roomy, Goes
<1>. QED
  BY <1>3, <1>4

LEMMA StaysRoomyForFive ==
  ASSUME NEW v \in Seq(Byte), NEW h, IsPaying(h, v), NEW n \in Nat, n < 15,
         NEW limit \in Nat, limit # 0, NEW bound \in Nat, bound = limit * 100000,
         Roomy(h[n], n, bound), NEW m \in Nat, m = n + 5
  PROVE  Roomy(h[m], m, limit)
<1>1. PICK a \in Nat : a = limit * 10 /\ a # 0
  OBVIOUS
<1>2. PICK b \in Nat : b = a * 10 /\ b # 0
  BY <1>1
<1>3. PICK c \in Nat : c = b * 10 /\ c # 0
  BY <1>2
<1>4. PICK d \in Nat : d = c * 10 /\ d # 0
  BY <1>3
<1>5. PICK e \in Nat : e = d * 10 /\ Roomy(h[n], n, e)
  <2>1. bound = d * 10
    BY <1>1, <1>2, <1>3, <1>4
  <2>. QED
    BY <2>1
<1>6. PICK n1 \in Nat : n1 = n + 1 /\ n1 < 19
  OBVIOUS
<1>7. PICK n2 \in Nat : n2 = n1 + 1 /\ n2 < 19
  BY <1>6
<1>8. PICK n3 \in Nat : n3 = n2 + 1 /\ n3 < 19
  BY <1>6, <1>7
<1>9. PICK n4 \in Nat : n4 = n3 + 1 /\ n4 < 19
  BY <1>6, <1>7, <1>8
<1>10. m = n4 + 1 /\ n < 19
  BY <1>6, <1>7, <1>8, <1>9
<1>11. Roomy(h[n1], n1, d)
  BY <1>4, <1>5, <1>6, <1>10, StaysRoomy
<1>12. Roomy(h[n2], n2, c)
  BY <1>3, <1>4, <1>6, <1>7, <1>11, StaysRoomy
<1>13. Roomy(h[n3], n3, b)
  BY <1>2, <1>3, <1>7, <1>8, <1>12, StaysRoomy
<1>14. Roomy(h[n4], n4, a)
  BY <1>1, <1>2, <1>8, <1>9, <1>13, StaysRoomy
<1>15. Roomy(h[n4 + 1], n4 + 1, limit)
  BY <1>1, <1>9, <1>14, StaysRoomy
<1>. QED
  BY <1>10, <1>15

\* A byte more makes a number less than 256 times what it was less than; the first of the
\* bytes is less than 128.
BelowSigned(n, limit) == \A f \in Seq(Byte) : Len(f) = n /\ f[1] < 128 => Magnitude[f] < limit

LEMMA ByteMore ==
  ASSUME NEW n \in Nat \ {0}, NEW limit \in Nat, BelowSigned(n, limit),
         NEW m \in Nat, m = n + 1, NEW bound \in Nat, bound = limit * 256
  PROVE  BelowSigned(m, bound)
<1>1. SUFFICES ASSUME NEW f \in Seq(Byte), Len(f) = m, f[1] < 128 PROVE Magnitude[f] < bound
  BY DEF BelowSigned
<1>2. f # <<>>
  <2>1. Len(<<>>) = 0
    OBVIOUS
  <2>. QED
    BY <1>1, <2>1
<1>3. /\ Front(f) \in Seq(Byte) /\ Len(Front(f)) = n /\ Last(f) \in Byte
      /\ f = Append(Front(f), Last(f))
  BY <1>1, <1>2, Split
<1>4. Front(f)[1] = f[1]
  <2>. DEFINE g == Front(f)
              e == Last(f)
  <2>1. \A i \in 1 .. Len(g) : Append(g, e)[i] = g[i]
    BY <1>3, AppendProperties
  <2>2. 1 \in 1 .. Len(g)
    BY <1>3
  <2>. HIDE DEF g, e
  <2>3. Append(g, e)[1] = g[1]
    BY <2>1, <2>2
  <2>. QED
    BY <1>3, <2>3 DEF g, e
<1>5. Magnitude[f] = Magnitude[Front(f)] * 256 + Last(f) /\ Magnitude[Front(f)] \in Nat
  BY <1>2, <1>3, MagnitudeTurns
<1>6. Magnitude[Front(f)] < limit
  BY <1>1, <1>3, <1>4 DEF BelowSigned
<1>7. Last(f) \in Nat /\ Last(f) < 256
  BY <1>3, BytesAreNumbers
<1>8. Magnitude[Front(f)] * 256 + Last(f) < limit * 256
  BY <1>5, <1>6, <1>7, DigitAdded
<1>. QED
  BY <1>5, <1>8

\* The powers of ten with the exponents 4, 9, 14 and 19.
Powers(a, b, c, d) == a = 10000 /\ b = a * 100000 /\ c = b * 100000 /\ d = c * 100000

LEMMA SignedIsBelow ==
  ASSUME NEW v \in Seq(Byte), Len(v) = 8, v[1] < 128,
         NEW a \in Nat, NEW b \in Nat, NEW c \in Nat, NEW d \in Nat, Powers(a, b, c, d)
  PROVE  Magnitude[v] < d
<1>1. PICK l1 \in Nat : l1 = 128
  OBVIOUS
<1>2. PICK l2 \in Nat : l2 = l1 * 256
  OBVIOUS
<1>3. PICK l3 \in Nat : l3 = l2 * 256
  OBVIOUS
<1>4. PICK l4 \in Nat : l4 = l3 * 256
  OBVIOUS
<1>5. PICK l5 \in Nat : l5 = l4 * 256
  OBVIOUS
<1>6. PICK l6 \in Nat : l6 = l5 * 256
  OBVIOUS
<1>7. PICK l7 \in Nat : l7 = l6 * 256
  OBVIOUS
<1>8. PICK l8 \in Nat : l8 = l7 * 256
  OBVIOUS
<1>9. BelowSigned(1, l1)
  <2>1. SUFFICES ASSUME NEW f \in Seq(Byte), Len(f) = 1, f[1] < 128 PROVE Magnitude[f] < 128
    BY <1>1 DEF BelowSigned
  <2>2. f # <<>> /\ Last(f) = f[1]
    <3>1. Len(<<>>) = 0
      OBVIOUS
    <3>2. f # <<>>
      <4>1. Len(f) # Len(<<>>)
        BY <2>1, <3>1
      <4>. QED
        BY <4>1
    <3>. QED
      BY <2>1, <3>2 DEF Last
  <2>3. Front(f) \in Seq(Byte) /\ Len(Front(f)) = 0 /\ Last(f) \in Byte
    BY <2>1, <2>2, Split
  <2>4. Magnitude[Front(f)] = 0
    <3>1. Front(f) = <<>>
      BY <2>3, EmptySeq
    <3>2. <<>> \in Seq(Byte)
      BY EmptySeq
    <3>. QED
      BY <3>1, <3>2, MagnitudeTurns
  <2>5. Magnitude[f] = Magnitude[Front(f)] * 256 + Last(f)
    BY <2>2, <2>3, MagnitudeTurns
  <2>6. Last(f) \in Nat
    BY <2>3, BytesAreNumbers
  <2>. QED
    BY <2>1, <2>2, <2>4, <2>5, <2>6
<1>10. BelowSigned(2, l2)
  BY <1>1, <1>2, <1>9, 2 = 1 + 1, ByteMore
<1>11. BelowSigned(3, l3)
  BY <1>3, <1>10, 3 = 2 + 1, ByteMore
<1>12. BelowSigned(4, l4)
  BY <1>4, <1>11, 4 = 3 + 1, ByteMore
<1>13. BelowSigned(5, l5)
  BY <1>5, <1>12, 5 = 4 + 1, ByteMore
<1>14. BelowSigned(6, l6)
  BY <1>6, <1>13, 6 = 5 + 1, ByteMore
<1>15. BelowSigned(7, l7)
  BY <1>7, <1>14, 7 = 6 + 1, ByteMore
<1>16. BelowSigned(8, l8)
  BY <1>8, <1>15, 8 = 7 + 1, ByteMore
<1>17. l8 < d
  BY <1>1, <1>2, <1>3, <1>4, <1>5, <1>6, <1>7, <1>8 DEF Powers
<1>18. Magnitude[v] < l8 /\ Magnitude[v] \in Nat
  BY <1>16, MagnitudeTurns DEF BelowSigned
<1>. QED
  BY <1>17, <1>18

\* An int64_t that is not negative has at most nineteen digits, for which there is room.
LEMMA RoomForAmounts ==
  ASSUME NEW v \in Seq(Byte), Len(v) = 8, v[1] < 128, NEW h, IsPaying(h, v)
  PROVE  ~h[24].full
<1>1. PICK a \in Nat : a = 10000 /\ a # 0
  OBVIOUS
<1>2. PICK b \in Nat : b = a * 100000 /\ b # 0
  BY <1>1
<1>3. PICK c \in Nat : c = b * 100000 /\ c # 0
  BY <1>2
<1>4. PICK d \in Nat : d = c * 100000 /\ d # 0
  BY <1>3
<1>5. Roomy(h[0], 0, d)
  <2>1. h[0].text = <<>> /\ h[0].rest = v /\ h[0].full = FALSE
    BY DEF IsPaying
  <2>2. Len(<<>>) = 0 /\ Place(0) = 0
    BY DEF Place
  <2>3. Magnitude[v] < d
    <3>1. Powers(a, b, c, d)
      BY <1>1, <1>2, <1>3, <1>4 DEF Powers
    <3>. QED
      BY <3>1, SignedIsBelow
  <2>. QED
    BY <2>1, <2>2, <2>3 DEF Roomy, HasLength
<1>6. 5 = 0 + 5 /\ 10 = 5 + 5 /\ 15 = 10 + 5
  OBVIOUS
<1>7. Roomy(h[5], 5, c)
  BY <1>3, <1>4, <1>5, <1>6, StaysRoomyForFive
<1>8. Roomy(h[10], 10, b)
  BY <1>2, <1>3, <1>6, <1>7, StaysRoomyForFive
<1>9. Roomy(h[15], 15, a)
  BY <1>1, <1>2, <1>6, <1>8, StaysRoomyForFive
<1>10. 16 = 15 + 1 /\ 17 = 16 + 1 /\ 18 = 17 + 1 /\ 19 = 18 + 1
  OBVIOUS
<1>11. Roomy(h[16], 16, 1000)
  <2>1. a = 1000 * 10
    BY <1>1
  <2>. QED
    BY <1>9, <1>10, <2>1, StaysRoomy
<1>12. Roomy(h[17], 17, 100)
  BY <1>10, <1>11, 1000 = 100 * 10, StaysRoomy
<1>13. Roomy(h[18], 18, 10)
  BY <1>10, <1>12, 100 = 10 * 10, StaysRoomy
<1>14. Roomy(h[19], 19, 1)
  BY <1>10, <1>13, 10 = 1 * 10, StaysRoomy
<1>15. h[19] \in Paying /\ ~Goes(h[19])
  <2>1. h[19] \in Paying
    BY DEF IsPaying
  <2>2. h[19].rest \in Seq(Byte) /\ Magnitude[h[19].rest] \in Nat
    BY <2>1, MagnitudeTurns DEF Paying
  <2>3. Magnitude[h[19].rest] = 0
    BY <1>14, <2>2 DEF Roomy
  <2>4. IsNull(h[19].rest)
    BY <2>2, <2>3, NullIsZero
  <2>5. Place(19) = 23
    BY DEF Place
  <2>. QED
    BY <1>14, <2>1, <2>4, <2>5 DEF Roomy, Goes, HasLength
<1>16. ASSUME NEW n \in Nat, ~Goes(h[n]) PROVE h[n + 1] = h[n]
  BY <1>16 DEF IsPaying
<1>17. h[20] = h[19] /\ h[21] = h[20] /\ h[22] = h[21] /\ h[23] = h[22] /\ h[24] = h[23]
  <2>1. h[20] = h[19]
    BY <1>15, <1>16, 20 = 19 + 1
  <2>2. h[21] = h[20]
    BY <1>15, <1>16, <2>1, 21 = 20 + 1
  <2>3. h[22] = h[21]
    BY <1>15, <1>16, <2>1, <2>2, 22 = 21 + 1
  <2>4. h[23] = h[22]
    BY <1>15, <1>16, <2>1, <2>2, <2>3, 23 = 22 + 1
  <2>5. h[24] = h[23]
    BY <1>15, <1>16, <2>1, <2>2, <2>3, <2>4, 24 = 23 + 1
  <2>. QED
    BY <2>1, <2>2, <2>3, <2>4, <2>5
<1>. QED
  BY <1>14, <1>17 DEF Roomy
-----------------------------------------------------------------------------
(* What is stripped.                                                        *)

LEMMA MinIsLeast ==
  ASSUME NEW S \in SUBSET Nat, NEW n \in S, \A m \in S : n <= m
  PROVE  Min(S) = n
<1>1. Min(S) \in S /\ \A m \in S : Min(S) <= m
  BY DEF Min
<1>2. Min(S) \in Nat /\ n \in Nat /\ Min(S) <= n /\ n <= Min(S)
  BY <1>1
<1>. QED
  BY <1>2

\* T is the text backwards, without the k characters that are stripped.
IsStripped(T, N, text, L, k) ==
  /\ IsLaid(text) /\ HasLength(text, L) /\ L >= 9
  /\ k \in 0 .. 6 \cup {8} /\ L = N + k
  /\ T \in Seq(Symbols) /\ HasLength(T, N) /\ \A i \in 1 .. N : T[i] = text[(L + 1) - i]
  /\ \A j \in 1 .. k : j # 8 => text[j] = "0"
  /\ k # 8 => text[k + 1] # "0"

\* The zeros end with the point at the latest.
LEMMA FirstNonZero ==
  ASSUME NEW text, IsLaid(text), NEW L \in Nat, HasLength(text, L), L >= 9
  PROVE  \E i \in 1 .. 8 : /\ WithoutZeros(text) = SubSeq(text, i, L)
                          /\ text[i] # "0" /\ \A j \in 1 .. i - 1 : text[j] = "0"
<1>. DEFINE S == {i \in 1 .. Len(text) : text[i] # "0"}
<1>1. \A j \in 1 .. L : Fits(text[j], j)
  BY DEF IsLaid, HasLength
<1>2. 8 \in S
  <2>1. 8 \in 1 .. L
    OBVIOUS
  <2>2. text[8] = "."
    BY <1>1, <2>1 DEF Fits
  <2>3. text[8] # "0"
    BY <2>2, SymbolsDiffer
  <2>. QED
    BY <2>1, <2>3 DEF HasLength
<1>3. S \in SUBSET Nat /\ S # {}
  BY <1>2 DEF HasLength
<1>4. PICK i \in S : \A m \in S : i <= m
  <2>. HIDE DEF S
  <2>. QED
    BY <1>3, Least
<1>5. Min(S) = i
  <2>. HIDE DEF S
  <2>. QED
    BY <1>3, <1>4, MinIsLeast
<1>6. WithoutZeros(text) = SubSeq(text, i, L)
  <2>1. SelectInSeq(text, LAMBDA c : c # "0") = IF S # {} THEN Min(S) ELSE 0
    BY DEF SelectInSeq
  <2>. HIDE DEF S
  <2>. QED
    BY <1>3, <1>5, <2>1 DEF WithoutZeros, HasLength
<1>7. i \in 1 .. L /\ i <= 8 /\ text[i] # "0"
  BY <1>2, <1>4 DEF HasLength
<1>8. ASSUME NEW j \in 1 .. i - 1 PROVE text[j] = "0"
  <2>1. j \in 1 .. L /\ ~(i <= j)
    BY <1>7
  <2>2. j \notin S
    BY <1>4, <2>1
  <2>. QED
    BY <2>1, <2>2 DEF HasLength
<1>9. i \in 1 .. 8
  BY <1>7
<1>. HIDE DEF S
<1>. QED
  BY <1>6, <1>7, <1>8, <1>9

LEMMA StrippedIs ==
  ASSUME NEW text, IsLaid(text), NEW L \in Nat, HasLength(text, L), L >= 9
  PROVE  \E k \in 0 .. 6 \cup {8} :
           /\ Stripped(text) = SubSeq(text, k + 1, L)
           /\ \A j \in 1 .. k : j # 8 => text[j] = "0"
           /\ k # 8 => text[k + 1] # "0"
<1>1. PICK i \in 1 .. 8 : /\ WithoutZeros(text) = SubSeq(text, i, L)
                         /\ text[i] # "0" /\ \A j \in 1 .. i - 1 : text[j] = "0"
  BY FirstNonZero
<1>2. text \in Seq(Symbols) /\ \A j \in 1 .. L : Fits(text[j], j)
  BY DEF IsLaid, HasLength
<1>3. i \in 1 .. L
  OBVIOUS
<1>. DEFINE w == SubSeq(text, i, L)
<1>4. w # <<>> /\ w[1] = text[i] /\ Tail(w) = SubSeq(text, i + 1, L)
  <2>1. \A m \in i .. L : text[m] \in Symbols
    <3>1. \A m \in 1 .. L : text[m] \in Symbols
      BY <1>2, ElementOfSeq DEF HasLength
    <3>. QED
      BY <1>3, <3>1
  <2>2. w \in Seq(Symbols) /\ Len(w) = (IF i <= L THEN (L - i) + 1 ELSE 0)
        /\ \A m \in 1 .. (L - i) + 1 : w[m] = text[(i + m) - 1]
    BY <1>3, <2>1, SubSeqProperties
  <2>3. 1 \in 1 .. (L - i) + 1 /\ (i + 1) - 1 = i
    BY <1>3
  <2>4. w[1] = text[i]
    BY <2>2, <2>3
  <2>5. Tail(w) = SubSeq(text, i + 1, L)
    <3>1. i \in 1 .. Len(text) /\ L \in i .. Len(text)
      BY <1>3 DEF HasLength
    <3>. QED
      BY <1>2, <3>1, HeadTailOfSubSeq
  <2>6. w # <<>>
    <3>1. w \in Seq(Symbols) /\ Len(w) # 0
      <4>. HIDE DEF w
      <4>. QED
        BY <1>3, <2>2
    <3>. HIDE DEF w
    <3>. QED
      BY <3>1, EmptySeq
  <2>. QED
    BY <2>4, <2>5, <2>6
<1>. HIDE DEF w
<1>5. Stripped(text) = IF w[1] = "." THEN Tail(w) ELSE w
  BY <1>1, <1>4 DEF Stripped, Without, w
<1>6. CASE i = 8
  <2>1. text[i] = "."
    BY <1>2, <1>3, <1>6 DEF Fits
  <2>2. Stripped(text) = SubSeq(text, 8 + 1, L)
    BY <1>4, <1>5, <1>6, <2>1
  <2>3. \A j \in 1 .. 8 : j # 8 => text[j] = "0"
    BY <1>1, <1>6
  <2>. QED
    BY <2>2, <2>3
<1>7. CASE i # 8
  <2>1. PICK k \in 0 .. 6 : i = k + 1
    <3>1. i - 1 \in 0 .. 6 /\ i = (i - 1) + 1
      BY <1>7
    <3>. QED
      BY <3>1
  <2>2. text[i] \in Numerals
    <3>1. i \notin {8, 12, 16, 20}
      BY <1>7
    <3>. QED
      BY <1>2, <1>3, <3>1 DEF Fits
  <2>3. Stripped(text) = SubSeq(text, k + 1, L)
    BY <1>4, <1>5, <2>1, <2>2, SymbolsDiffer DEF w
  <2>4. text[k + 1] # "0" /\ \A j \in 1 .. k : text[j] = "0"
    BY <1>1, <2>1
  <2>. QED
    BY <2>3, <2>4
<1>. QED
  BY <1>6, <1>7

LEMMA StrippedText ==
  ASSUME NEW text, IsLaid(text), NEW L \in Nat, HasLength(text, L), L >= 9
  PROVE  \E k \in Nat : \E N \in Nat : IsStripped(Reverse(Stripped(text)), N, text, L, k)
<1>1. PICK k \in 0 .. 6 \cup {8} :
        /\ Stripped(text) = SubSeq(text, k + 1, L)
        /\ \A j \in 1 .. k : j # 8 => text[j] = "0"
        /\ k # 8 => text[k + 1] # "0"
  BY StrippedIs
<1>2. text \in Seq(Symbols)
  BY DEF IsLaid
<1>3. k \in Nat /\ k <= 8
  OBVIOUS
<1>4. PICK N \in Nat : L = N + k /\ N >= 1
  <2>1. L - k \in Nat /\ L = (L - k) + k /\ L - k >= 1
    BY <1>3
  <2>. QED
    BY <2>1
<1>. DEFINE w == SubSeq(text, k + 1, L)
            T == Reverse(w)
<1>5. w \in Seq(Symbols) /\ Len(w) = N /\ \A m \in 1 .. N : w[m] = text[k + m]
  <2>1. \A m \in k + 1 .. L : text[m] \in Symbols
    <3>1. \A m \in 1 .. L : text[m] \in Symbols
      BY <1>2, ElementOfSeq DEF HasLength
    <3>. QED
      BY <1>3, <3>1
  <2>2. /\ w \in Seq(Symbols) /\ Len(w) = (IF k + 1 <= L THEN (L - (k + 1)) + 1 ELSE 0)
        /\ \A m \in 1 .. (L - (k + 1)) + 1 : w[m] = text[((k + 1) + m) - 1]
    BY <1>3, <2>1, SubSeqProperties
  <2>3. (L - (k + 1)) + 1 = N /\ k + 1 <= L
    BY <1>3, <1>4
  <2>4. \A m \in 1 .. N : ((k + 1) + m) - 1 = k + m
    BY <1>3
  <2>. HIDE DEF w
  <2>. QED
    BY <2>2, <2>3, <2>4
<1>. HIDE DEF w
<1>6. T \in Seq(Symbols) /\ Len(T) = N /\ \A m \in 1 .. N : T[m] = w[(N - m) + 1]
  BY <1>5, ReversedType
<1>. HIDE DEF T
<1>7. ASSUME NEW m \in 1 .. N PROVE T[m] = text[(L + 1) - m]
  <2>1. (N - m) + 1 \in 1 .. N /\ k + ((N - m) + 1) = (L + 1) - m
    BY <1>3, <1>4
  <2>. QED
    BY <1>5, <1>6, <2>1
<1>8. T = Reverse(Stripped(text))
  BY <1>1 DEF T, w
<1>9. IsStripped(T, N, text, L, k)
  BY <1>1, <1>4, <1>6, <1>7 DEF IsStripped, HasLength
<1>. QED
  BY <1>3, <1>8, <1>9
-----------------------------------------------------------------------------
(* What is read of it.                                                      *)

LEMMA StrippedSymbols ==
  ASSUME NEW T, NEW N \in Nat, NEW text, NEW L \in Nat, NEW k \in Nat, IsStripped(T, N, text, L, k)
  PROVE  /\ \A i \in 1 .. N : (L + 1) - i \in 1 .. L /\ Fits(T[i], (L + 1) - i)
         /\ N >= 1 /\ k <= 8 /\ k # 7 /\ L = N + k
<1>1. k \in 0 .. 6 \cup {8} /\ L = N + k /\ L >= 9
  BY DEF IsStripped
<1>2. \A j \in 1 .. L : Fits(text[j], j)
  BY DEF IsStripped, IsLaid, HasLength
<1>3. ASSUME NEW i \in 1 .. N PROVE (L + 1) - i \in 1 .. L
  BY <1>1
<1>4. \A i \in 1 .. N : T[i] = text[(L + 1) - i]
  BY DEF IsStripped
<1>. QED
  BY <1>1, <1>2, <1>3, <1>4

LEMMA FitsOnly ==
  ASSUME NEW c, NEW j \in Nat, Fits(c, j)
  PROVE  /\ c = "." <=> j = 8
         /\ c = "," <=> j \in {12, 16, 20}
         /\ j # 8 /\ j \notin {12, 16, 20} => c \in Numerals
<1>1. CASE j = 8
  BY <1>1, SymbolsDiffer DEF Fits
<1>2. CASE j \in {12, 16, 20}
  <2>1. c = "," /\ j # 8
    BY <1>2 DEF Fits
  <2>. QED
    BY <1>2, <2>1, SymbolsDiffer
<1>3. CASE j # 8 /\ j \notin {12, 16, 20}
  <2>1. c \in Numerals
    BY <1>3 DEF Fits
  <2>. QED
    BY <1>3, <2>1, SymbolsDiffer
<1>. QED
  BY <1>1, <1>2, <1>3

PointBefore(p, L) == p + 7 = L

\* The point is in front of seven digits, or where it would be.
LEMMA PointIsAt ==
  ASSUME NEW T, NEW N \in Nat, NEW text, NEW L \in Nat, NEW k \in Nat, IsStripped(T, N, text, L, k),
         NEW p \in Nat, PointBefore(p, L)
  PROVE  PointAt(T) = p
<1>1. /\ \A i \in 1 .. N : (L + 1) - i \in 1 .. L /\ Fits(T[i], (L + 1) - i)
      /\ N >= 1 /\ k <= 8 /\ k # 7 /\ L = N + k /\ L >= 9
  BY StrippedSymbols DEF IsStripped
<1>. DEFINE point == "."
            u == Append(T, point)
            S == {i \in 1 .. Len(u) : u[i] = "."}
<1>2. T \in Seq(Symbols) /\ Len(T) = N /\ point \in Symbols
  BY SymbolsDiffer DEF IsStripped, HasLength
<1>3. PICK M \in Nat : M = N + 1
  OBVIOUS
<1>4. Len(u) = M /\ (\A i \in 1 .. N : u[i] = T[i]) /\ u[M] = point
  <2>. HIDE DEF point
  <2>. QED
    BY <1>2, <1>3, Appended
<1>. HIDE DEF u
<1>5. ASSUME NEW i \in 1 .. N PROVE u[i] = "." <=> i = p
  <2>1. Fits(u[i], (L + 1) - i) /\ (L + 1) - i \in Nat
    BY <1>1, <1>4
  <2>2. u[i] = "." <=> (L + 1) - i = 8
    BY <2>1, FitsOnly
  <2>3. (L + 1) - i = 8 <=> i = p
    BY DEF PointBefore
  <2>. QED
    BY <2>2, <2>3
<1>6. p \in S
  <2>1. p \in 1 .. N \/ p = M
    BY <1>1, <1>3 DEF PointBefore
  <2>2. p \in 1 .. M
    BY <1>3, <2>1
  <2>. QED
    BY <1>4, <1>5, <2>1, <2>2
<1>7. ASSUME NEW m \in S PROVE p <= m
  <2>1. m \in 1 .. M /\ u[m] = "."
    BY <1>4
  <2>2. m \in 1 .. N \/ m = M
    BY <1>3, <2>1
  <2>3. p <= M
    BY <1>4, <1>6
  <2>. QED
    BY <1>5, <2>1, <2>2, <2>3
<1>8. S \in SUBSET Nat
  BY <1>4
<1>9. Min(S) = p /\ S # {}
  <2>. HIDE DEF S
  <2>. QED
    BY <1>6, <1>7, <1>8, MinIsLeast
<1>10. SelectInSeq(u, LAMBDA c : c = ".") = IF S # {} THEN Min(S) ELSE 0
  BY DEF SelectInSeq
<1>. HIDE DEF S
<1>. QED
  BY <1>9, <1>10 DEF PointAt, u

\* What is in front of it is grouped, and is not empty.
LEMMA WholeIs ==
  ASSUME NEW T, NEW N \in Nat, NEW text, NEW L \in Nat, NEW k \in Nat, IsStripped(T, N, text, L, k)
  PROVE  /\ Whole(T) \in Seq(Numerals \cup {","}) /\ Grouped(Whole(T))
         /\ Whole(T) # <<>> /\ HasLength(Whole(T), L - 8)
<1>1. /\ \A i \in 1 .. N : (L + 1) - i \in 1 .. L /\ Fits(T[i], (L + 1) - i)
      /\ N >= 1 /\ k <= 8 /\ k # 7 /\ L = N + k /\ L >= 9
  BY StrippedSymbols DEF IsStripped
<1>2. PICK p \in Nat : p + 7 = L
  <2>1. L - 7 \in Nat /\ (L - 7) + 7 = L
    BY <1>1
  <2>. QED
    BY <2>1
<1>3. PICK w \in Nat : w + 8 = L /\ p - 1 = w /\ w >= 1 /\ w <= N
  <2>1. L - 8 \in Nat /\ (L - 8) + 8 = L /\ p - 1 = L - 8 /\ L - 8 >= 1 /\ L - 8 <= N
    BY <1>1, <1>2
  <2>. QED
    BY <2>1
<1>. DEFINE W == SubSeq(T, 1, w)
            X == Numerals \cup {","}
<1>4. Whole(T) = W
  BY <1>2, <1>3, PointIsAt DEF Whole, PointBefore
<1>5. ASSUME NEW i \in 1 .. w
      PROVE  /\ T[i] \in Numerals \cup {","}
             /\ T[i] = "," <=> (L + 1) - i \in {12, 16, 20}
  <2>1. i \in 1 .. N /\ (L + 1) - i # 8
    BY <1>3
  <2>2. Fits(T[i], (L + 1) - i) /\ (L + 1) - i \in Nat
    BY <1>1, <2>1
  <2>. QED
    BY <2>1, <2>2, FitsOnly
<1>6. W \in Seq(Numerals \cup {","}) /\ Len(W) = w /\ \A i \in 1 .. w : W[i] = T[i]
  <2>0. \A i \in 1 .. w : T[i] \in X
    BY <1>5 DEF X
  <2>1. /\ W \in Seq(X) /\ Len(W) = (IF 1 <= w THEN (w - 1) + 1 ELSE 0)
        /\ \A i \in 1 .. (w - 1) + 1 : W[i] = T[(1 + i) - 1]
    <3>. HIDE DEF X
    <3>. QED
      BY <2>0, SubSeqProperties
  <2>2. (w - 1) + 1 = w /\ 1 <= w /\ \A i \in 1 .. w : (1 + i) - 1 = i
    BY <1>3
  <2>. HIDE DEF W
  <2>. QED
    BY <2>1, <2>2 DEF X
<1>. HIDE DEF W
<1>7. L <= 23 /\ L \notin {12, 16, 20}
  BY DEF IsStripped, IsLaid, HasLength
<1>8. Grouped(W)
  <2>1. DOMAIN W = 1 .. w
    BY <1>6, LenProperties
  <2>2. ASSUME NEW i \in 1 .. w PROVE W[i] = "," <=> (i > 1 /\ (w - i) % 4 = 3)
    <3>1. W[i] = "," <=> (L + 1) - i \in {12, 16, 20}
      BY <1>5, <1>6
    <3>2. PICK r \in Nat : i + r = w /\ (L + 1) - i = r + 9
      <4>1. w - i \in Nat /\ i + (w - i) = w /\ (L + 1) - i = (w - i) + 9
        BY <1>3
      <4>. QED
        BY <4>1
    <3>3. r <= 14 /\ (i = 1 => r \notin {3, 7, 11}) /\ w - i = r
      BY <1>3, <1>7, <3>2
    <3>4. r % 4 = 3 <=> r \in {3, 7, 11}
      BY <3>3
    <3>5. r + 9 \in {12, 16, 20} <=> r \in {3, 7, 11}
      OBVIOUS
    <3>6. i = 1 \/ i > 1
      OBVIOUS
    <3>. QED
      BY <3>1, <3>2, <3>3, <3>4, <3>5, <3>6
  <2>. QED
    BY <1>6, <2>1, <2>2 DEF Grouped
<1>9. W # <<>> /\ HasLength(W, L - 8)
  <2>1. w # 0
    BY <1>3
  <2>2. W # <<>>
    BY <1>6, <2>1, EmptySeq
  <2>3. L - 8 = w
    BY <1>3
  <2>. QED
    BY <1>6, <2>2, <2>3 DEF HasLength
<1>. QED
  BY <1>4, <1>6, <1>8, <1>9

\* What is behind it are numerals, as many as have not been stripped.
LEMMA FractionIs ==
  ASSUME NEW T, NEW N \in Nat, NEW text, NEW L \in Nat, NEW k \in Nat, IsStripped(T, N, text, L, k)
  PROVE  /\ Fraction(T) \in Seq(Numerals)
         /\ k = 8 => Fraction(T) = <<>> /\ HasLength(Fraction(T), 0)
         /\ k # 8 => k <= 6 /\ HasLength(Fraction(T), 7 - k)
<1>1. /\ \A i \in 1 .. N : (L + 1) - i \in 1 .. L /\ Fits(T[i], (L + 1) - i)
      /\ N >= 1 /\ k <= 8 /\ k # 7 /\ L = N + k /\ L >= 9
  BY StrippedSymbols DEF IsStripped
<1>2. PICK p \in Nat : p + 7 = L
  <2>1. L - 7 \in Nat /\ (L - 7) + 7 = L
    BY <1>1
  <2>. QED
    BY <2>1
<1>. DEFINE F == SubSeq(T, p + 1, N)
<1>3. Fraction(T) = F
  BY <1>2, PointIsAt DEF Fraction, PointBefore, IsStripped, HasLength
<1>4. ASSUME NEW i \in p + 1 .. N PROVE T[i] \in Numerals
  <2>1. i \in 1 .. N /\ (L + 1) - i <= 7
    BY <1>2
  <2>2. Fits(T[i], (L + 1) - i) /\ (L + 1) - i \in Nat
    BY <1>1, <2>1
  <2>3. (L + 1) - i # 8 /\ (L + 1) - i \notin {12, 16, 20}
    BY <2>1, <2>2
  <2>. QED
    BY <2>2, <2>3, FitsOnly
<1>5. F \in Seq(Numerals) /\ Len(F) = IF p + 1 <= N THEN (N - (p + 1)) + 1 ELSE 0
  BY <1>4, SubSeqProperties
<1>. HIDE DEF F
<1>6. CASE k = 8
  <2>1. ~(p + 1 <= N)
    BY <1>1, <1>2, <1>6
  <2>2. Len(F) = 0
    BY <1>5, <2>1
  <2>3. F = <<>>
    BY <1>5, <2>2, EmptySeq
  <2>. QED
    BY <1>3, <1>5, <1>6, <2>2, <2>3 DEF HasLength
<1>7. CASE k # 8
  <2>1. k <= 6 /\ p + 1 <= N /\ (N - (p + 1)) + 1 = 7 - k
    BY <1>1, <1>2, <1>7
  <2>. QED
    BY <1>3, <1>5, <1>7, <2>1 DEF HasLength
<1>. QED
  BY <1>6, <1>7
\* The zeros that have been stripped.
Noughts(n) == [i \in 1 .. n |-> "0"]

LEMMA NoughtsType ==
  ASSUME NEW n \in Nat
  PROVE  Noughts(n) \in Seq(Symbols) /\ Len(Noughts(n)) = n /\ \A i \in 1 .. n : Noughts(n)[i] = "0"
<1>1. "0" \in Symbols
  BY SymbolsDiffer
<1>. QED
  BY <1>1 DEF Noughts

IsSum(m, a, n) == m = a + n

\* A text with zeros at its end, from what its characters are.
LEMMA FilledUp ==
  ASSUME NEW u \in Seq(Symbols), NEW a \in Nat, HasLength(u, a), NEW n \in Nat,
         NEW w \in Seq(Symbols), NEW m \in Nat, HasLength(w, m), IsSum(m, a, n),
         \A i \in 1 .. a : w[i] = u[i], \A i \in 1 .. n : w[a + i] = "0"
  PROVE  u \o Noughts(n) = w
<1>. DEFINE z == Noughts(n)
            x == u \o z
<1>1. z \in Seq(Symbols) /\ Len(z) = n /\ \A i \in 1 .. n : z[i] = "0"
  BY NoughtsType
<1>. HIDE DEF z
<1>2. /\ x \in Seq(Symbols) /\ Len(x) = Len(u) + Len(z)
      /\ \A i \in 1 .. Len(u) + Len(z) : x[i] = IF i <= Len(u) THEN u[i] ELSE z[i - Len(u)]
  BY <1>1, ConcatProperties
<1>. HIDE DEF x
<1>3. Len(u) + Len(z) = m /\ Len(u) = a /\ Len(w) = m
  BY <1>1 DEF HasLength, IsSum
<1>4. \A i \in 1 .. m : x[i] = IF i <= a THEN u[i] ELSE z[i - a]
  BY <1>2, <1>3
<1>5. ASSUME NEW i \in 1 .. m PROVE x[i] = w[i]
  <2>1. CASE i <= a
    <3>1. i \in 1 .. a
      BY <2>1
    <3>. QED
      BY <1>4, <2>1, <3>1
  <2>2. CASE ~(i <= a)
    <3>1. i - a \in 1 .. n /\ a + (i - a) = i
      BY <2>2 DEF IsSum
    <3>2. w[a + (i - a)] = "0" /\ z[i - a] = "0"
      BY <1>1, <3>1
    <3>. QED
      BY <1>4, <2>2, <3>1, <3>2
  <2>. QED
    BY <2>1, <2>2
<1>6. Len(x) = Len(w) /\ \A i \in 1 .. Len(x) : x[i] = w[i]
  BY <1>2, <1>3, <1>5
<1>7. x = w
  BY <1>2, <1>6, SeqEqual
<1>. QED
  BY <1>7 DEF x, z

\* One zero more.
LEMMA NoughtMore ==
  ASSUME NEW u \in Seq(Symbols), NEW n \in Nat
  PROVE  /\ u \o Noughts(n) \in Seq(Symbols)
         /\ u \o Noughts(n + 1) = Append(u \o Noughts(n), "0")
<1>1. /\ Noughts(n) \in Seq(Symbols) /\ Noughts(n + 1) \in Seq(Symbols)
      /\ Len(Noughts(n)) = n /\ Len(Noughts(n + 1)) = n + 1
      /\ \A i \in 1 .. n : Noughts(n)[i] = "0"
      /\ \A i \in 1 .. n + 1 : Noughts(n + 1)[i] = "0"
  BY NoughtsType
<1>2. "0" \in Symbols
  BY SymbolsDiffer
<1>. DEFINE e == "0"
            z == Noughts(n)
            y == Noughts(n + 1)
            w == Append(z, e)
<1>3. PICK m \in Nat : m = n + 1
  OBVIOUS
<1>4. /\ z \in Seq(Symbols) /\ Len(z) = n /\ e \in Symbols
      /\ y \in Seq(Symbols) /\ Len(y) = m
      /\ \A i \in 1 .. n : z[i] = e
      /\ \A i \in 1 .. m : y[i] = e
  BY <1>1, <1>2, <1>3
<1>. HIDE DEF e, z, y
<1>5. /\ w \in Seq(Symbols) /\ Len(w) = m /\ (\A i \in 1 .. n : w[i] = z[i]) /\ w[m] = e
  BY <1>3, <1>4, Appended
<1>. HIDE DEF w
<1>6. \A i \in 1 .. m : y[i] = w[i]
  BY <1>3, <1>4, <1>5
<1>7. y = w
  BY <1>4, <1>5, <1>6, SeqEqual
<1>8. u \o z \in Seq(Symbols)
  BY <1>4, ConcatProperties
<1>9. Append(z, e) = z \o <<e>> /\ Append(u \o z, e) = (u \o z) \o <<e>> /\ <<e>> \in Seq(Symbols)
  BY <1>4, <1>8, AppendIsConcat, One
<1>10. (u \o z) \o <<e>> = u \o (z \o <<e>>)
  BY <1>4, <1>9, ConcatAssociative
<1>11. u \o y = Append(u \o z, e)
  BY <1>7, <1>9, <1>10 DEF w
<1>. QED
  BY <1>8, <1>11 DEF y, z, e

\* Zeros that are put back mean the same behind texts that mean the same.
LEMMA SameWithNoughts ==
  ASSUME NEW s \in Seq(Symbols), NEW u \in Seq(Symbols), Denotes[s] = Denotes[u]
  PROVE  \A n \in Nat : Denotes[s \o Noughts(n)] = Denotes[u \o Noughts(n)]
<1>. DEFINE G == {n \in Nat : Denotes[s \o Noughts(n)] = Denotes[u \o Noughts(n)]}
<1>1. 0 \in G
  <2>1. Noughts(0) \in Seq(Symbols) /\ Len(Noughts(0)) = 0
    BY NoughtsType
  <2>2. Noughts(0) = <<>>
    BY <2>1, EmptySeq
  <2>. QED
    BY <2>2, ConcatEmptySeq
<1>2. ASSUME NEW n \in Nat, n \in G PROVE n + 1 \in G
  <2>1. 0 \in Digit /\ Characters[0 + 1] = "0"
    <3>1. 0 \in Digit /\ 0 + 1 = 1
      BY DEF Digit
    <3>. QED
      BY <3>1, CharactersDiffer
  <2>2. \A x \in Seq(Symbols) : Denotes[Append(x, "0")] = TimesTen[Denotes[x]][0]
    BY <2>1, DenotesAppended
  <2>. DEFINE sn == s \o Noughts(n)
              un == u \o Noughts(n)
  <2>3. /\ sn \in Seq(Symbols) /\ s \o Noughts(n + 1) = Append(sn, "0")
        /\ un \in Seq(Symbols) /\ u \o Noughts(n + 1) = Append(un, "0")
    BY NoughtMore
  <2>4. Denotes[sn] = Denotes[un]
    BY <1>2
  <2>. HIDE DEF sn, un
  <2>5. Denotes[Append(sn, "0")] = Denotes[Append(un, "0")]
    BY <2>2, <2>3, <2>4
  <2>6. Denotes[s \o Noughts(n + 1)] = Denotes[u \o Noughts(n + 1)]
    BY <2>3, <2>5
  <2>. QED
    BY <2>6
<1>. HIDE DEF G
<1>3. \A n \in Nat : n \in G
  BY <1>1, <1>2, Induction
<1>. QED
  BY <1>3 DEF G

\* With the zeros put back, what is shown means what was printed.
LEMMA StroopsAre ==
  ASSUME NEW T, NEW N \in Nat, NEW text, NEW L \in Nat, NEW k \in Nat, IsStripped(T, N, text, L, k)
  PROVE  Denotes[Stroops(T)] = Denotes[Reverse(text)]
<1>. DEFINE R == Reverse(text)
<1>1. /\ T \in Seq(Symbols) /\ HasLength(T, N) /\ \A i \in 1 .. N : T[i] = text[(L + 1) - i]
      /\ \A j \in 1 .. k : j # 8 => text[j] = "0"
      /\ N >= 1 /\ k <= 8 /\ k # 7 /\ L = N + k
  BY StrippedSymbols DEF IsStripped
<1>2. text \in Seq(Symbols) /\ Len(text) = L
  BY DEF IsStripped, IsLaid, HasLength
<1>3. R \in Seq(Symbols) /\ HasLength(R, L) /\ \A i \in 1 .. L : R[i] = text[(L + 1) - i]
  <2>1. /\ R \in Seq(Symbols) /\ Len(R) = Len(text)
        /\ \A i \in 1 .. Len(text) : R[i] = text[(Len(text) - i) + 1]
    BY <1>2, ReversedType
  <2>2. \A i \in 1 .. L : (L - i) + 1 = (L + 1) - i
    OBVIOUS
  <2>. HIDE DEF R
  <2>. QED
    BY <1>2, <2>1, <2>2 DEF HasLength
<1>. HIDE DEF R
<1>4. \A i \in 1 .. N : R[i] = T[i]
  BY <1>1, <1>3
<1>5. CASE k # 8
  <2>1. k <= 6 /\ HasLength(Fraction(T), 7 - k)
    BY <1>5, FractionIs
  <2>2. 7 - Len(Fraction(T)) = k
    <3>1. Len(Fraction(T)) = 7 - k
      BY <2>1 DEF HasLength
    <3>. QED
      BY <2>1, <3>1
  <2>3. Stroops(T) = T \o Noughts(k)
    BY <2>2 DEF Stroops, Noughts
  <2>4. ASSUME NEW i \in 1 .. k PROVE R[N + i] = "0"
    <3>1. N + i \in 1 .. L /\ (L + 1) - (N + i) \in 1 .. k /\ (L + 1) - (N + i) # 8
      BY <1>1, <2>1
    <3>. QED
      BY <1>1, <1>3, <3>1
  <2>5. IsSum(L, N, k)
    BY <1>1 DEF IsSum
  <2>6. T \o Noughts(k) = R
    BY <1>1, <1>3, <1>4, <2>4, <2>5, FilledUp
  <2>. QED
    BY <2>3, <2>6 DEF R
<1>6. CASE k = 8
  <2>1. Fraction(T) = <<>> /\ HasLength(Fraction(T), 0)
    BY <1>6, FractionIs
  <2>2. 7 - Len(Fraction(T)) = 7
    BY <2>1 DEF HasLength
  <2>3. Stroops(T) = T \o Noughts(7)
    BY <2>2 DEF Stroops, Noughts
  <2>. DEFINE point == "."
              u == Append(T, point)
  <2>4. point \in Symbols /\ point \notin Numerals
    BY SymbolsDiffer
  <2>5. R[N + 1] = point
    <3>1. N + 1 \in 1 .. L /\ (L + 1) - (N + 1) = 8 /\ 8 \in 1 .. L
      BY <1>1, <1>6
    <3>2. text[8] = "."
      BY <1>2, <3>1 DEF IsStripped, IsLaid, Fits
    <3>. QED
      BY <1>3, <3>1, <3>2
  <2>. HIDE DEF point
  <2>6. PICK M \in Nat : M = N + 1
    OBVIOUS
  <2>7. /\ u \in Seq(Symbols) /\ HasLength(u, M) /\ (\A i \in 1 .. N : u[i] = T[i]) /\ u[M] = point
    BY <1>1, <2>4, <2>6, Appended DEF HasLength
  <2>8. Denotes[u] = Denotes[T]
    BY <1>1, <2>4, SymbolSkipped
  <2>. HIDE DEF u
  <2>9. \A i \in 1 .. M : R[i] = u[i]
    BY <1>4, <2>5, <2>6, <2>7
  <2>10. ASSUME NEW i \in 1 .. 7 PROVE R[M + i] = "0"
    <3>1. M + i \in 1 .. L /\ (L + 1) - (M + i) \in 1 .. k /\ (L + 1) - (M + i) # 8
      BY <1>1, <1>6, <2>6
    <3>. QED
      BY <1>1, <1>3, <3>1
  <2>11. IsSum(L, M, 7)
    BY <1>1, <1>6, <2>6 DEF IsSum
  <2>12. u \o Noughts(7) = R
    BY <1>3, <2>7, <2>9, <2>10, <2>11, FilledUp
  <2>13. Denotes[T \o Noughts(7)] = Denotes[u \o Noughts(7)]
    BY <1>1, <2>7, <2>8, SameWithNoughts
  <2>. QED
    BY <2>3, <2>12, <2>13 DEF R
<1>. QED
  BY <1>5, <1>6
\* The ends of the text.
LEMMA EndsAre ==
  ASSUME NEW T, NEW N \in Nat, NEW text, NEW L \in Nat, NEW k \in Nat, IsStripped(T, N, text, L, k)
  PROVE  T[1] = Last(text) /\ Last(T) # "." /\ (k # 8 => Last(T) # "0")
<1>1. /\ \A i \in 1 .. N : (L + 1) - i \in 1 .. L /\ Fits(T[i], (L + 1) - i)
      /\ N >= 1 /\ k <= 8 /\ k # 7 /\ L = N + k /\ L >= 9
  BY StrippedSymbols DEF IsStripped
<1>2. /\ Len(T) = N /\ Len(text) = L /\ \A i \in 1 .. N : T[i] = text[(L + 1) - i]
      /\ k # 8 => text[k + 1] # "0"
  BY DEF IsStripped, HasLength
<1>3. T[1] = text[L]
  <2>1. 1 \in 1 .. N /\ (L + 1) - 1 = L
    BY <1>1
  <2>. QED
    BY <1>2, <2>1
<1>4. N \in 1 .. N /\ (L + 1) - N = k + 1
  BY <1>1
<1>5. T[N] = text[k + 1]
  BY <1>2, <1>4
<1>6. T[N] # "."
  <2>1. Fits(T[N], k + 1) /\ k + 1 \in Nat /\ k + 1 # 8
    BY <1>1, <1>4
  <2>. QED
    BY <2>1, FitsOnly
<1>. QED
  BY <1>2, <1>3, <1>5, <1>6 DEF Last

\* The rest keeps its width.
LEMMA StaysWide ==
  ASSUME NEW v \in Seq(Byte), NEW h, IsPaying(h, v)
  PROVE  \A n \in Nat : Len(h[n].rest) = Len(v)
<1>. DEFINE G == {n \in Nat : Len(h[n].rest) = Len(v)}
<1>1. 0 \in G
  BY DEF IsPaying
<1>2. ASSUME NEW n \in Nat, n \in G PROVE n + 1 \in G
  <2>1. h[n] \in Paying /\ Len(h[n].rest) = Len(v)
    BY <1>2 DEF IsPaying
  <2>2. h[n].rest \in Seq(Byte)
    BY <2>1 DEF Paying
  <2>3. Len(DivTen[h[n].rest].quotient) = Len(v)
    BY <2>1, <2>2, MagnitudeDivided
  <2>4. AmountTurn(h[n]).rest \in {h[n].rest, DivTen[h[n].rest].quotient}
    <3>. DEFINE s == h[n]
    <3>1. s \in Paying
      BY <2>1
    <3>. HIDE DEF s
    <3>2. AmountTurn(s).rest \in {s.rest, DivTen[s.rest].quotient}
      BY <3>1 DEF AmountTurn, Paying
    <3>. QED
      BY <3>2 DEF s
  <2>5. Len(AmountTurn(h[n]).rest) = Len(v)
    BY <2>1, <2>3, <2>4
  <2>6. h[n + 1] = AmountTurn(h[n]) \/ h[n + 1] = h[n]
    BY DEF IsPaying
  <2>7. Len(h[n + 1].rest) = Len(v)
    BY <2>1, <2>5, <2>6
  <2>. QED
    BY <2>7
<1>. HIDE DEF G
<1>3. \A n \in Nat : n \in G
  BY <1>1, <1>2, Induction
<1>. QED
  BY <1>3 DEF G

\* What is shown of an amount.
Exact(text, v) ==
  /\ Denotes[Stroops(text)] = <<0>> \o v
  /\ Whole(text) \in Seq(Numerals \cup {","}) /\ Grouped(Whole(text))
  /\ Fraction(text) \in Seq(Numerals) /\ Len(Fraction(text)) <= 7
  /\ Fraction(text) # <<>> => Last(text) # "0"
  /\ Whole(text) # <<>> /\ Last(text) # "."
  /\ text[1] = "0" => Len(Whole(text)) = 1

\* If there was room, what is shown is exact.
LEMMA StrippedIsExact ==
  ASSUME NEW v \in Seq(Byte), Len(v) = 8, NEW h, IsPaying(h, v), NEW n \in Nat, n = 24, ~h[n].full
  PROVE  LET text == Reverse(Stripped(h[n].text)) IN Exact(text, v) /\ Len(text) \in 0 .. 23
<1>. DEFINE text == h[n].text
            T    == Reverse(Stripped(text))
<1>1. Sound(h[n], v, n) /\ IsNull(h[n].rest) /\ Len(text) >= 9
  BY AmountEnds
<1>2. IsLaid(text) /\ text \in Seq(Symbols) /\ Len(text) <= 23
  BY <1>1 DEF Sound, IsLaid
<1>3. PICK L \in Nat : L = Len(text)
  BY <1>2, LenProperties
<1>4. HasLength(text, L) /\ L >= 9 /\ L <= 23
  BY <1>1, <1>2, <1>3 DEF HasLength
<1>5. L > 9 => Last(text) # "0"
  BY <1>1, <1>3 DEF Sound
<1>6. h[n].rest \in Seq(Byte) /\ Len(h[n].rest) = 8
  <2>1. h[n].rest \in Seq(Byte)
    BY DEF IsPaying, Paying
  <2>. QED
    BY <2>1, StaysWide
<1>7. Denotes[Reverse(text)] = <<0>> \o v
  <2>1. <<>> \in Seq(Symbols) /\ Denotes[<<>>] = <<0>> \o h[n].rest
    BY <1>1, <1>6, EmptySeq, DenotesNothing, WidenedNull
  <2>2. Completes(text, <<0>> \o h[n].rest, <<0>> \o v)
    BY <1>1 DEF Sound
  <2>3. Denotes[<<>> \o Reverse(text)] = <<0>> \o v
    BY <2>1, <2>2 DEF Completes
  <2>4. <<>> \o Reverse(text) = Reverse(text)
    BY <1>2, ReversedType, ConcatEmptySeq
  <2>. QED
    BY <2>3, <2>4
<1>. HIDE DEF text
<1>8. PICK k \in Nat : \E N \in Nat : IsStripped(T, N, text, L, k)
  BY <1>2, <1>4, StrippedText
<1>9. PICK N \in Nat : IsStripped(T, N, text, L, k)
  BY <1>8
<1>. HIDE DEF T
<1>10. Denotes[Stroops(T)] = <<0>> \o v
  BY <1>7, <1>9, StroopsAre
<1>11. /\ Whole(T) \in Seq(Numerals \cup {","}) /\ Grouped(Whole(T))
       /\ Whole(T) # <<>> /\ HasLength(Whole(T), L - 8)
  BY <1>9, WholeIs
<1>12. /\ Fraction(T) \in Seq(Numerals)
       /\ k = 8 => Fraction(T) = <<>> /\ HasLength(Fraction(T), 0)
       /\ k # 8 => k <= 6 /\ HasLength(Fraction(T), 7 - k)
  BY <1>9, FractionIs
<1>13. Len(Fraction(T)) <= 7
  <2>1. CASE k = 8
    BY <1>12, <2>1 DEF HasLength
  <2>2. CASE k # 8
    <3>1. Len(Fraction(T)) = 7 - k
      BY <1>12, <2>2 DEF HasLength
    <3>. QED
      BY <3>1
  <2>. QED
    BY <2>1, <2>2
<1>14. T[1] = Last(text) /\ Last(T) # "." /\ (k # 8 => Last(T) # "0")
  BY <1>9, EndsAre
<1>15. T[1] = "0" => Len(Whole(T)) = 1
  <2>1. SUFFICES ASSUME T[1] = "0" PROVE Len(Whole(T)) = 1
    OBVIOUS
  <2>2. ~(L > 9)
    BY <1>5, <1>14, <2>1
  <2>3. L - 8 = 1
    BY <1>4, <2>2
  <2>. QED
    BY <1>11, <2>3 DEF HasLength
<1>16. Fraction(T) # <<>> => Last(T) # "0"
  BY <1>12, <1>14
<1>17. Len(T) \in 0 .. 23
  <2>1. L = N + k /\ Len(T) = N
    BY <1>9, StrippedSymbols DEF IsStripped, HasLength
  <2>2. N \in 0 .. 23
    BY <1>4, <2>1
  <2>. QED
    BY <2>1, <2>2
<1>18. Exact(T, v)
  BY <1>10, <1>11, <1>12, <1>13, <1>14, <1>15, <1>16 DEF Exact
<1>. QED
  BY <1>17, <1>18 DEF T, text

\* An amount is printed as what it is, if there is room for 24 characters.
LEMMA AmountIsPrinted ==
  ASSUME NEW v \in Seq(Byte), Len(v) = 8, NEW length \in Nat, length > 23
  PROVE  LET p == PrintAmount(v, length)
         IN  (v[1] < 128 => p.ok) /\ (p.ok => Exact(p.text, v))
<1>1. PICK h : /\ IsPaying(h, v)
              /\ h[AmountWithCommasMaxLength] =
                   While([text |-> <<>>, rest |-> v, full |-> FALSE],
                         LAMBDA r : ~r.full /\ (~IsNull(r.rest) \/ Len(r.text) < 9), AmountTurn,
                         AmountWithCommasMaxLength)
  BY AmountIsTurns
<1>. DEFINE s    == h[AmountWithCommasMaxLength]
            text == Reverse(Stripped(s.text))
            p    == PrintAmount(v, length)
<1>2. p = IF s.full \/ Len(text) >= length THEN Refused ELSE Printed(text)
  BY <1>1 DEF PrintAmount
<1>3. PICK n \in Nat : n = 24
  OBVIOUS
<1>4. s = h[n]
  BY <1>3 DEF AmountWithCommasMaxLength
<1>5. ~s.full => Exact(text, v) /\ Len(text) \in 0 .. 23
  BY <1>1, <1>3, <1>4, StrippedIsExact
<1>6. v[1] < 128 => ~s.full
  BY <1>1, <1>3, <1>4, RoomForAmounts
<1>. HIDE DEF p, s, text
<1>7. p.ok => ~s.full /\ p.text = text
  BY <1>2 DEF Refused, Printed
<1>8. ~s.full => p.ok
  <2>1. SUFFICES ASSUME ~s.full PROVE p.ok
    OBVIOUS
  <2>2. Len(text) \in 0 .. 23
    BY <1>5, <2>1
  <2>3. \A m \in 0 .. 23 : ~(m >= length)
    OBVIOUS
  <2>4. ~(Len(text) >= length)
    BY <2>2, <2>3
  <2>. QED
    BY <1>2, <2>1, <2>4 DEF Printed
<1>. QED
  BY <1>5, <1>6, <1>7, <1>8 DEF p
-----------------------------------------------------------------------------
(* The specification.                                                       *)

\* The bytes of a number that has been read.
LEMMA ReadIsBytes ==
  ASSUME Inv, ReadLong
  PROVE  last.value \in Seq(Byte) /\ Len(last.value) = 8
<1>. DEFINE read == SubSeq(memory, last.from + 1, offset)
<1>1. last.from \in Nat /\ offset \in 0 .. Capacity
  BY BufferOK DEF Inv, TypeOK
<1>2. memory \in Seq(Byte) /\ Len(memory) = Capacity
  BY MemoryIsBytes
<1>3. read \in Seq(Byte)
  <2>1. \A i \in last.from + 1 .. offset : memory[i] \in Byte
    BY <1>1, <1>2, BufferOK
  <2>. QED
    BY <1>1, <2>1, SubSeqProperties
<1>4. last.value = read \/ last.value = Reverse(read)
  BY DEF Inv, ReadsAreWhole, ReadLong
<1>5. Reverse(read) \in Seq(Byte)
  <2>1. \A s \in Seq(Byte) : Reverse(s) \in Seq(Byte)
    BY ReversedType
  <2>. HIDE DEF read
  <2>. QED
    BY <1>3, <2>1
<1>. QED
  BY <1>3, <1>4, <1>5 DEF ReadLong

\* Every uint64_t that is read is printed by print_uint as the number it is, in its shortest form.
THEOREM NumbersArePrinted == Spec => []NumbersAreExact
<1>1. ASSUME Inv PROVE NumbersAreExact
  <2>1. SUFFICES ASSUME ReadLong
                 PROVE  LET p == PrintUint(last.value, DetailValueMaxLength) IN
                        /\ p.ok /\ p.text \in Seq(Numerals)
                        /\ Denotes[p.text] = <<0>> \o last.value
                        /\ p.text[1] = "0" => Len(p.text) = 1
    BY DEF NumbersAreExact
  <2>2. last.value \in Seq(Byte) /\ Len(last.value) = 8
    BY <1>1, <2>1, ReadIsBytes
  <2>3. DetailValueMaxLength \in Nat /\ DetailValueMaxLength > AmountMaxLength
    BY DEF DetailValueMaxLength, AmountMaxLength
  <2>. QED
    BY <2>2, <2>3, NumberIsPrinted
<1>. QED
  BY <1>1, Invariance, PTL

\* Every amount that is read is shown to the last stroop, or not at all if it is negative.
THEOREM AmountsArePrinted == Spec => []AmountsAreExact
<1>1. ASSUME Inv PROVE AmountsAreExact
  <2>1. SUFFICES ASSUME ReadLong
                 PROVE  LET p == PrintAmount(last.value, DetailValueMaxLength) IN
                        /\ last.value[1] < 128 => p.ok
                        /\ p.ok => Exact(p.text, last.value)
    BY DEF AmountsAreExact, Exact
  <2>2. last.value \in Seq(Byte) /\ Len(last.value) = 8
    BY <1>1, <2>1, ReadIsBytes
  <2>3. DetailValueMaxLength \in Nat /\ DetailValueMaxLength > 23
    BY DEF DetailValueMaxLength
  <2>. QED
    BY <2>2, <2>3, AmountIsPrinted
<1>. QED
  BY <1>1, Invariance, PTL
-----------------------------------------------------------------------------
(* The bits of numbers.                                                     *)

Bit(x, m) == (x \div 2^m) % 2

IsBit(b) == b \in {0, 1}

LEMMA QuotientAndRemainder ==
  ASSUME NEW x \in Nat, NEW p \in Nat, p > 0
  PROVE  x = p * (x \div p) + (x % p)
OBVIOUS

LEMMA Divide ==
  ASSUME NEW x \in Nat, NEW p \in Nat \ {0}
  PROVE  /\ x \div p \in Nat /\ x % p \in 0 .. p - 1
         /\ x = p * (x \div p) + (x % p)
<1>1. p \in Nat /\ p > 0 /\ p \in Int /\ x \in Int /\ x >= 0
  OBVIOUS
<1>2. x \div p \in Int /\ x % p \in Int /\ x % p >= 0 /\ x % p < p
  BY <1>1
<1>3. x = p * (x \div p) + (x % p)
  BY <1>1, QuotientAndRemainder
<1>4. x \div p >= 0
  BY <1>1
<1>. QED
  BY <1>1, <1>2, <1>3, <1>4

LEMMA WholePart ==
  ASSUME NEW u \in Nat, NEW p \in Nat \ {0}, NEW r \in 0 .. p - 1
  PROVE  (p * u + r) \div p = u /\ (p * u + r) % p = r
<1>. DEFINE x == p * u + r
<1>1. x \in Nat
  <2>1. p * u \in Nat
    BY Product
  <2>. QED
    BY <2>1
<1>. DEFINE v == x \div p
            s == x % p
<1>2. v \in Nat /\ s \in 0 .. p - 1 /\ x = p * v + s
  BY <1>1, Divide
<1>3. p * u + r = p * v + s
  BY <1>2
<1>. HIDE DEF v, s
<1>4. ~(u < v)
  <2>1. SUFFICES ASSUME u < v PROVE FALSE
    OBVIOUS
  <2>2. p * (u + 1) <= p * v
    BY <1>2, <2>1
  <2>3. p * (u + 1) = p * u + p
    OBVIOUS
  <2>4. p * u \in Nat /\ p * v \in Nat
    BY <1>2, Product
  <2>. QED
    BY <1>2, <1>3, <2>2, <2>3, <2>4
<1>5. ~(v < u)
  <2>1. SUFFICES ASSUME v < u PROVE FALSE
    OBVIOUS
  <2>2. p * (v + 1) <= p * u
    BY <1>2, <2>1
  <2>3. p * (v + 1) = p * v + p
    BY <1>2
  <2>4. p * u \in Nat /\ p * v \in Nat
    BY <1>2, Product
  <2>. QED
    BY <1>2, <1>3, <2>2, <2>3, <2>4
<1>6. u = v
  BY <1>2, <1>4, <1>5
<1>7. r = s
  <2>1. p * u \in Nat
    BY Product
  <2>. QED
    BY <1>2, <1>3, <1>6, <2>1
<1>. QED
  BY <1>6, <1>7 DEF v, s

\* x is divided by p * q: first by q, then by p.
LEMMA DivideTwice ==
  ASSUME NEW x \in Nat, NEW p \in Nat \ {0}, NEW q \in Nat \ {0}
  PROVE  /\ (x \div q) \div p = x \div (p * q)
         /\ (x % (p * q)) \div q = (x \div q) % p
<1>. DEFINE u == x \div q
            s == x % q
            v == u \div p
            r == u % p
            n == p * q
            y == q * r + s
<1>1. u \in Nat /\ s \in 0 .. q - 1 /\ x = q * u + s
  BY Divide
<1>. HIDE DEF u, s
<1>2. v \in Nat /\ r \in 0 .. p - 1 /\ u = p * v + r
  BY <1>1, Divide
<1>. HIDE DEF v, r
<1>3. n \in Nat \ {0}
  OBVIOUS
<1>4. q * r \in Nat /\ q * r + q <= n
  <2>1. q * (r + 1) <= q * p
    BY <1>2
  <2>2. q * (r + 1) = q * r + q /\ q * p = n /\ q * r \in Nat
    BY <1>2
  <2>. QED
    BY <2>1, <2>2
<1>5. y \in 0 .. n - 1
  <2>. HIDE DEF n
  <2>. DEFINE z == q * r
  <2>1. z \in Nat /\ z + q <= n
    BY <1>4
  <2>. HIDE DEF z
  <2>2. z + s \in 0 .. n - 1
    BY <1>1, <1>3, <2>1
  <2>. QED
    BY <2>2 DEF z
<1>6. x = n * v + y
  <2>1. q * (p * v + r) = n * v + q * r
    BY <1>2
  <2>. QED
    BY <1>1, <1>2, <2>1
<1>7. (n * v + y) \div n = v /\ (n * v + y) % n = y
  <2>. HIDE DEF n, y
  <2>. QED
    BY <1>2, <1>3, <1>5, WholePart
<1>8. y \div q = r
  BY <1>1, <1>2, WholePart
<1>. HIDE DEF n, y
<1>9. x \div n = v /\ x % n = y
  BY <1>6, <1>7
<1>10. u \div p = v /\ u % p = r
  BY DEF v, r
<1>11. (x % n) \div q = r
  BY <1>8, <1>9
<1>. QED
  BY <1>9, <1>10, <1>11 DEF u, n
-----------------------------------------------------------------------------
\* The powers that occur.
Exponents == 0 .. 23

Power(n) == 2^n

LEMMA PowersOfTwo ==
  /\ 2^0 = 1
  /\ \A n \in 0 .. 22 : 2^(n + 1) = 2 * 2^n
  /\ \A n \in Exponents : 2^n \in Nat \ {0}
<1>1. /\ Power(0) = 1 /\ Power(1) = 2 /\ Power(2) = 4 /\ Power(3) = 8 /\ Power(4) = 16
      /\ Power(5) = 32 /\ Power(6) = 64 /\ Power(7) = 128 /\ Power(8) = 256 /\ Power(9) = 512
      /\ Power(10) = 1024 /\ Power(11) = 2048 /\ Power(12) = 4096 /\ Power(13) = 8192
      /\ Power(14) = 16384 /\ Power(15) = 32768 /\ Power(16) = 65536 /\ Power(17) = 131072
      /\ Power(18) = 262144 /\ Power(19) = 524288 /\ Power(20) = 1048576
      /\ Power(21) = 2097152 /\ Power(22) = 4194304 /\ Power(23) = 8388608
  BY DEF Power
<1>2. \A n \in Exponents :
        \/ n = 0 \/ n = 1 \/ n = 2 \/ n = 3 \/ n = 4 \/ n = 5 \/ n = 6 \/ n = 7 \/ n = 8
        \/ n = 9 \/ n = 10 \/ n = 11 \/ n = 12 \/ n = 13 \/ n = 14 \/ n = 15 \/ n = 16
        \/ n = 17 \/ n = 18 \/ n = 19 \/ n = 20 \/ n = 21 \/ n = 22 \/ n = 23
  BY DEF Exponents
<1>3. \A n \in Exponents : Power(n) \in Nat \ {0}
  BY <1>1, <1>2
<1>4. ASSUME NEW n \in 0 .. 22 PROVE Power(n + 1) = 2 * Power(n)
  <2>1. n \in Exponents /\ n # 23
    BY DEF Exponents
  <2>. QED
    BY <1>1, <1>2, <2>1
<1>. QED
  BY <1>3, <1>4 DEF Power

LEMMA PowersAdd ==
  ASSUME NEW k \in Nat, NEW m \in Nat, k + m \in Exponents
  PROVE  2^(k + m) = 2^k * 2^m
<1>. DEFINE G == {i \in Nat : k + i \in Exponents => 2^(k + i) = 2^k * 2^i}
<1>1. 0 \in G
  <2>1. ASSUME k + 0 \in Exponents PROVE 2^(k + 0) = 2^k * 2^0
    <3>1. k + 0 = k /\ 2^k \in Nat
      BY <2>1, PowersOfTwo
    <3>. QED
      BY <3>1, PowersOfTwo
  <2>. QED
    BY <2>1
<1>2. ASSUME NEW i \in Nat, i \in G PROVE i + 1 \in G
  <2>1. ASSUME k + (i + 1) \in Exponents PROVE 2^(k + (i + 1)) = 2^k * 2^(i + 1)
    <3>1. /\ k + i \in 0 .. 22 /\ i \in 0 .. 22 /\ k + (i + 1) = (k + i) + 1
          /\ k + i \in Exponents /\ k \in Exponents /\ i \in Exponents
      BY <2>1 DEF Exponents
    <3>2. 2^(k + i) = 2^k * 2^i
      BY <1>2, <3>1
    <3>3. 2^((k + i) + 1) = 2 * 2^(k + i) /\ 2^(i + 1) = 2 * 2^i
      BY <3>1, PowersOfTwo
    <3>. DEFINE a == 2^k
                b == 2^i
    <3>4. a \in Nat /\ b \in Nat
      BY <3>1, PowersOfTwo
    <3>5. 2^(k + (i + 1)) = 2 * (a * b) /\ 2^k * 2^(i + 1) = a * (2 * b)
      BY <3>1, <3>2, <3>3
    <3>. HIDE DEF a, b
    <3>6. 2 * (a * b) = a * (2 * b)
      BY <3>4
    <3>. QED
      BY <3>5, <3>6
  <2>. QED
    BY <2>1
<1>. HIDE DEF G
<1>3. \A i \in Nat : i \in G
  BY <1>1, <1>2, Induction
<1>. QED
  BY <1>3 DEF G
-----------------------------------------------------------------------------
LEMMA BitIsBit ==
  ASSUME NEW x \in Nat, NEW m \in Exponents
  PROVE  IsBit(Bit(x, m))
<1>1. 2^m \in Nat \ {0}
  BY PowersOfTwo
<1>2. x \div 2^m \in Nat
  BY <1>1, Divide
<1>. QED
  BY <1>2 DEF Bit, IsBit

LEMMA BitOfQuotient ==
  ASSUME NEW x \in Nat, NEW k \in Nat, NEW m \in Nat, k + m \in Exponents
  PROVE  Bit(x \div 2^k, m) = Bit(x, k + m)
<1>1. k \in Exponents /\ m \in Exponents
  BY DEF Exponents
<1>2. 2^k \in Nat \ {0} /\ 2^m \in Nat \ {0}
  BY <1>1, PowersOfTwo
<1>3. (x \div 2^k) \div 2^m = x \div (2^m * 2^k)
  BY <1>2, DivideTwice
<1>4. 2^m * 2^k = 2^(k + m)
  BY <1>2, PowersAdd
<1>. QED
  BY <1>3, <1>4 DEF Bit

LEMMA BitOfRemainder ==
  ASSUME NEW x \in Nat, NEW k \in Exponents, NEW m \in Nat, m < k
  PROVE  Bit(x % 2^k, m) = Bit(x, m)
<1>. DEFINE e == k - m - 1
            p == 2^e
            q == 2^m
<1>1. e \in Nat /\ e \in Exponents /\ m \in Exponents /\ e + 1 \in Exponents /\ k = m + (e + 1)
      /\ e \in 0 .. 22
  BY DEF Exponents
<1>2. p \in Nat \ {0} /\ q \in Nat \ {0}
  BY <1>1, PowersOfTwo
<1>3. 2^k = (2 * p) * q
  <2>. HIDE DEF e
  <2>1. 2^(e + 1) = 2 * 2^e
    BY <1>1, PowersOfTwo
  <2>0. 2^(m + (e + 1)) = 2^m * 2^(e + 1)
    <3>1. e + 1 \in Nat /\ m + (e + 1) \in Exponents
      BY <1>1
    <3>. QED
      BY <3>1, PowersAdd
  <2>2. 2^k = q * (2 * p)
    BY <1>1, <2>0, <2>1
  <2>. HIDE DEF p, q
  <2>3. q * (2 * p) = (2 * p) * q
    BY <1>2
  <2>. QED
    BY <2>2, <2>3
<1>. DEFINE y == x \div q
<1>4. y \in Nat
  BY <1>2, Divide
<1>5. (x % 2^k) \div q = y % (2 * p)
  <2>. HIDE DEF p, q
  <2>1. 2 * p \in Nat \ {0}
    BY <1>2
  <2>2. (x % ((2 * p) * q)) \div q = (x \div q) % (2 * p)
    BY <1>2, <2>1, DivideTwice
  <2>. QED
    BY <1>3, <2>2
<1>6. (y % (2 * p)) % 2 = y % 2
  <2>. HIDE DEF p, y
  <2>. DEFINE n == 2 * p
              r == y % n
              v == y \div n
  <2>1. n \in Nat \ {0}
    BY <1>2
  <2>2. v \in Nat /\ r \in 0 .. n - 1 /\ y = n * v + r
    <3>. HIDE DEF n
    <3>. QED
      BY <1>4, <2>1, Divide
  <2>. HIDE DEF v, r
  <2>3. n * v = 2 * (p * v) /\ p * v \in Nat /\ r \in Nat
    BY <1>2, <2>2
  <2>. DEFINE w == p * v
  <2>. HIDE DEF w, n
  <2>4. y = 2 * w + r /\ w \in Nat
    BY <2>2, <2>3 DEF w
  <2>5. (2 * w + r) % 2 = r % 2
    BY <2>3, <2>4
  <2>. QED
    BY <2>4, <2>5 DEF r, n
<1>. QED
  BY <1>5, <1>6 DEF Bit

\* Two numbers joined.
LEMMA BitOfJoined ==
  ASSUME NEW x \in Nat, NEW k \in Exponents, NEW y \in 0 .. 2^k - 1, NEW m \in Exponents
  PROVE  /\ m < k  => Bit(x * 2^k + y, m) = Bit(y, m)
         /\ m >= k => Bit(x * 2^k + y, m) = Bit(x, m - k)
<1>. DEFINE p == 2^k
            z == x * p + y
<1>1. p \in Nat \ {0}
  BY PowersOfTwo
<1>2. z \in Nat /\ z = p * x + y /\ y \in Nat
  <2>. HIDE DEF p
  <2>1. x * p \in Nat /\ x * p = p * x
    BY <1>1
  <2>. QED
    BY <1>1, <2>1 DEF p
<1>3. z \div p = x /\ z % p = y
  <2>1. y \in 0 .. p - 1
    OBVIOUS
  <2>. HIDE DEF p, z
  <2>. QED
    BY <1>1, <1>2, <2>1, WholePart
<1>. HIDE DEF z
<1>4. ASSUME m < k PROVE Bit(z, m) = Bit(y, m)
  <2>1. m \in Nat
    BY DEF Exponents
  <2>. QED
    BY <1>2, <1>3, <1>4, <2>1, BitOfRemainder
<1>5. ASSUME m >= k PROVE Bit(z, m) = Bit(x, m - k)
  <2>1. k \in Nat /\ m - k \in Nat /\ k + (m - k) = m
    BY <1>5 DEF Exponents
  <2>. QED
    BY <1>2, <1>3, <2>1, BitOfQuotient
<1>. QED
  BY <1>4, <1>5 DEF z
-----------------------------------------------------------------------------
(* Data and their digits.                                                   *)

LEMMA ZeroHasNoBits ==
  ASSUME NEW m \in Exponents
  PROVE  Bit(0, m) = 0
<1>. DEFINE p == 2^m
<1>1. p \in Nat \ {0}
  BY PowersOfTwo
<1>. HIDE DEF p
<1>2. (p * 0 + 0) \div p = 0 /\ p * 0 + 0 = 0
  <2>1. 0 \in 0 .. p - 1
    BY <1>1
  <2>. QED
    BY <1>1, <2>1, WholePart
<1>. QED
  BY <1>2 DEF Bit, p

\* The q-th bit of the data, from 0 on.
DataBit(data, q) ==
  IF q < 8 * Len(data) THEN Bit(data[(q \div 8) + 1], 7 - (q % 8)) ELSE 0

Octet(data, i) == IF i <= Len(data) THEN data[i] ELSE 0

LEMMA OctetIsByte ==
  ASSUME NEW data \in Seq(Byte), NEW i \in Nat \ {0}
  PROVE  Octet(data, i) \in 0 .. 255
<1>1. Len(data) \in Nat /\ Byte = 0 .. 255
  BY LenProperties DEF Byte
<1>2. ASSUME i <= Len(data) PROVE data[i] \in Byte
  <2>1. i \in 1 .. Len(data)
    BY <1>1, <1>2
  <2>. QED
    BY <2>1, ElementOfSeq
<1>. QED
  BY <1>1, <1>2 DEF Octet

LEMMA BitsOfOctets ==
  ASSUME NEW data \in Seq(Byte), NEW i \in Nat, NEW m \in 0 .. 7
  PROVE  Bit(Octet(data, i + 1), 7 - m) = DataBit(data, 8 * i + m)
<1>. DEFINE q == 8 * i + m
<1>1. Len(data) \in Nat /\ q \in Nat /\ 7 - m \in Exponents
  BY LenProperties DEF Exponents
<1>2. q \div 8 = i /\ q % 8 = m
  BY <1>1
<1>3. i + 1 <= Len(data) <=> q < 8 * Len(data)
  BY <1>1
<1>. HIDE DEF q
<1>4. CASE i + 1 <= Len(data)
  BY <1>2, <1>3, <1>4 DEF Octet, DataBit, q
<1>5. CASE ~(i + 1 <= Len(data))
  BY <1>1, <1>3, <1>5, ZeroHasNoBits DEF Octet, DataBit, q
<1>. QED
  BY <1>4, <1>5

\* What is to be shown of digits of some width.
Tells(digits, width, data) ==
  \A j \in 1 .. Len(digits) : \A r \in 0 .. width - 1 :
    Bit(digits[j], width - 1 - r) = DataBit(data, width * (j - 1) + r)

LEMMA BitsOfParts ==
  ASSUME NEW digits \in Seq(Nat), NEW width \in 1 .. 8
  PROVE  /\ BitsOf(digits, width) \in Seq({0, 1})
         /\ Len(BitsOf(digits, width)) = width * Len(digits)
         /\ \A i \in 1 .. width * Len(digits) :
              /\ BitsOf(digits, width)[i] =
                   Bit(digits[((i - 1) \div width) + 1], width - 1 - ((i - 1) % width))
              /\ ((i - 1) \div width) + 1 \in 1 .. Len(digits)
              /\ (i - 1) % width \in 0 .. width - 1
              /\ i - 1 = width * ((i - 1) \div width) + ((i - 1) % width)
<1>. DEFINE n == width * Len(digits)
            b == BitsOf(digits, width)
            val(i) == Bit(digits[((i - 1) \div width) + 1], width - 1 - ((i - 1) % width))
<1>1. Len(digits) \in Nat /\ n \in Nat /\ width \in Nat \ {0}
  <2>1. Len(digits) \in Nat /\ width \in Nat
    BY LenProperties
  <2>. QED
    BY <2>1, Product
<1>2. ASSUME NEW i \in 1 .. n
      PROVE  /\ ((i - 1) \div width) + 1 \in 1 .. Len(digits)
             /\ (i - 1) % width \in 0 .. width - 1
             /\ i - 1 = width * ((i - 1) \div width) + ((i - 1) % width)
  <2>. DEFINE x == i - 1
              v == x \div width
              r == x % width
  <2>1. x \in Nat /\ x < n
    BY <1>1
  <2>. HIDE DEF x
  <2>2. v \in Nat /\ r \in 0 .. width - 1 /\ x = width * v + r
    BY <1>1, <2>1, Divide
  <2>. HIDE DEF v, r
  <2>3. v < Len(digits)
    <3>1. SUFFICES ASSUME v >= Len(digits) PROVE FALSE
      BY <1>1, <2>2
    <3>2. width * v >= width * Len(digits)
      BY <1>1, <2>2, <3>1
    <3>3. width * v \in Nat
      BY <1>1, <2>2, Product
    <3>. QED
      BY <1>1, <2>1, <2>2, <3>2, <3>3
  <2>4. v + 1 \in 1 .. Len(digits)
    BY <1>1, <2>2, <2>3
  <2>. QED
    BY <2>2, <2>4 DEF x, v, r
<1>3. ASSUME NEW i \in 1 .. n PROVE val(i) \in {0, 1}
  <2>. DEFINE j == ((i - 1) \div width) + 1
              e == width - 1 - ((i - 1) % width)
  <2>1. j \in 1 .. Len(digits)
    BY <1>2
  <2>2. e \in Exponents
    <3>. DEFINE r == (i - 1) % width
    <3>1. r \in 0 .. width - 1
      BY <1>2
    <3>. HIDE DEF r
    <3>2. width - 1 - r \in 0 .. 23
      BY <3>1
    <3>. QED
      BY <3>2 DEF Exponents, r
  <2>. HIDE DEF j, e
  <2>3. digits[j] \in Nat
    BY <2>1, ElementOfSeq
  <2>. QED
    BY <2>2, <2>3, BitIsBit DEF IsBit, j, e
<1>4. b = [i \in 1 .. n |-> val(i)]
  BY DEF BitsOf, Bit
<1>. HIDE DEF val, n, b
<1>5. b \in [1 .. n -> {0, 1}]
  BY <1>3, <1>4
<1>6. b \in Seq({0, 1}) /\ Len(b) = n
  BY <1>1, <1>5
<1>7. \A i \in 1 .. n : b[i] = val(i)
  BY <1>4
<1>. QED
  BY <1>2, <1>6, <1>7 DEF val, n, b

LEMMA TellingHolds ==
  ASSUME NEW data \in Seq(Byte), NEW digits \in Seq(Nat), NEW width \in 1 .. 8,
         Tells(digits, width, data),
         width * Len(digits) \in 8 * Len(data) .. 8 * Len(data) + width - 1
  PROVE  Holds(digits, width, data)
<1>. DEFINE bits == BitsOf(digits, width)
            own  == BitsOf(data, 8)
            n    == width * Len(digits)
<1>1. /\ bits \in Seq({0, 1}) /\ Len(bits) = n
      /\ \A i \in 1 .. n :
              /\ bits[i] = Bit(digits[((i - 1) \div width) + 1], width - 1 - ((i - 1) % width))
              /\ ((i - 1) \div width) + 1 \in 1 .. Len(digits)
              /\ (i - 1) % width \in 0 .. width - 1
              /\ i - 1 = width * ((i - 1) \div width) + ((i - 1) % width)
  BY BitsOfParts, Zenon
<1>2. data \in Seq(Nat) /\ Len(data) \in Nat
  <2>1. Byte \subseteq Nat
    BY DEF Byte
  <2>. QED
    BY <2>1, SeqMonotonic, LenProperties
<1>3. \A i \in 1 .. 8 * Len(data) :
        own[i] = Bit(data[((i - 1) \div 8) + 1], 8 - 1 - ((i - 1) % 8))
  BY <1>2, BitsOfParts
<1>. HIDE DEF bits, own
<1>4. n \in Nat /\ DOMAIN bits = 1 .. n
  <2>1. Len(digits) \in Nat /\ width \in Nat
    BY LenProperties
  <2>2. n \in Nat
    BY <2>1, Product
  <2>. HIDE DEF n
  <2>. QED
    BY <1>1, <2>2
<1>5. ASSUME NEW i \in 1 .. n PROVE bits[i] = DataBit(data, i - 1)
  <2>. DEFINE v == (i - 1) \div width
              r == (i - 1) % width
  <2>1. bits[i] = Bit(digits[v + 1], width - 1 - r) /\ v + 1 \in 1 .. Len(digits)
        /\ r \in 0 .. width - 1 /\ i - 1 = width * v + r
    BY <1>1
  <2>. HIDE DEF v, r
  <2>2. v \in Nat /\ (v + 1) - 1 = v
    <3>1. i - 1 \in Nat /\ width \in Nat \ {0}
      BY <1>4
    <3>. DEFINE x == i - 1
    <3>. HIDE DEF x
    <3>2. x \div width \in Nat
      BY <3>1, Divide DEF x
    <3>. QED
      BY <3>2 DEF x, v
  <2>. DEFINE j == v + 1
  <2>3. j \in 1 .. Len(digits) /\ j - 1 = v
    BY <2>1, <2>2
  <2>4. Bit(digits[j], width - 1 - r) = DataBit(data, width * (j - 1) + r)
    BY <2>1, <2>3, Zenon DEF Tells
  <2>. QED
    BY <2>1, <2>3, <2>4
<1>6. ASSUME NEW i \in 1 .. n
      PROVE  bits[i] = IF i <= 8 * Len(data) THEN own[i] ELSE 0
  <2>1. bits[i] = DataBit(data, i - 1)
    BY <1>5
  <2>2. i - 1 < 8 * Len(data) <=> i <= 8 * Len(data)
    BY <1>2, <1>4
  <2>3. CASE i <= 8 * Len(data)
    <3>1. i \in 1 .. 8 * Len(data)
      BY <1>2, <1>4, <2>3
    <3>2. own[i] = Bit(data[((i - 1) \div 8) + 1], 7 - ((i - 1) % 8))
      BY <1>3, <3>1
    <3>. QED
      BY <2>1, <2>2, <2>3, <3>2 DEF DataBit
  <2>4. CASE ~(i <= 8 * Len(data))
    BY <2>1, <2>2, <2>4 DEF DataBit
  <2>. QED
    BY <2>3, <2>4
<1>7. Len(bits) \in 8 * Len(data) .. 8 * Len(data) + width - 1
  BY <1>1
<1>. HIDE DEF n
<1>. QED
  BY <1>4, <1>6, <1>7 DEF Holds, bits, own
-----------------------------------------------------------------------------
(* The digits of base64_encode.                                             *)

Triple(data, g) ==
  Octet(data, 3 * g + 1) * 65536 + Octet(data, 3 * g + 2) * 256 + Octet(data, 3 * g + 3)

\* The bits of three bytes.
HasBitsOf(x, a, b, c, m) ==
  /\ x \in Nat
  /\ m < 8 => Bit(x, m) = Bit(c, m)
  /\ m \in 8 .. 15 => Bit(x, m) = Bit(b, m - 8)
  /\ m > 15 => Bit(x, m) = Bit(a, m - 16)

IsOf(x, a, b, c) == x = a * 65536 + b * 256 + c

LEMMA BitsOfThree ==
  ASSUME NEW a \in 0 .. 255, NEW b \in 0 .. 255, NEW c \in 0 .. 255, NEW m \in 0 .. 23,
         NEW x, IsOf(x, a, b, c)
  PROVE  HasBitsOf(x, a, b, c, m)
<1>. DEFINE y == a * 256 + b
<1>1. x \in Nat /\ y \in Nat /\ x = y * 256 + c
  BY DEF IsOf
<1>2. Power(8) = 256
  BY DEF Power
<1>. HIDE DEF y
<1>3. x = y * 2^8 + c /\ y = a * 2^8 + b /\ 8 \in Exponents /\ m \in Exponents
      /\ c \in 0 .. 2^8 - 1 /\ b \in 0 .. 2^8 - 1
  BY <1>1 DEF Exponents, y
<1>4. /\ m < 8  => Bit(y * 2^8 + c, m) = Bit(c, m)
      /\ m >= 8 => Bit(y * 2^8 + c, m) = Bit(y, m - 8)
  BY <1>1, <1>3, BitOfJoined
<1>5. CASE m < 8
  BY <1>1, <1>3, <1>4, <1>5 DEF HasBitsOf
<1>6. CASE m >= 8
  <2>1. m - 8 \in Exponents
    BY <1>6 DEF Exponents
  <2>2. /\ m - 8 < 8  => Bit(a * 2^8 + b, m - 8) = Bit(b, m - 8)
        /\ m - 8 >= 8 => Bit(a * 2^8 + b, m - 8) = Bit(a, m - 8 - 8)
    <3>1. a \in Nat
      OBVIOUS
    <3>. QED
      BY <1>3, <2>1, <3>1, BitOfJoined
  <2>3. m - 8 - 8 = m - 16
    OBVIOUS
  <2>4. Bit(x, m) = Bit(y, m - 8)
    BY <1>3, <1>4, <1>6
  <2>5. m \in 8 .. 15 => Bit(x, m) = Bit(b, m - 8)
    BY <1>3, <2>2, <2>4
  <2>6. m > 15 => Bit(x, m) = Bit(a, m - 16)
    BY <1>3, <2>2, <2>3, <2>4
  <2>. QED
    BY <1>1, <1>6, <2>5, <2>6 DEF HasBitsOf
<1>. QED
  BY <1>5, <1>6

LEMMA BitsOfTriples ==
  ASSUME NEW data \in Seq(Byte), NEW g \in Nat, NEW t \in 0 .. 23
  PROVE  Triple(data, g) \in Nat /\ Bit(Triple(data, g), 23 - t) = DataBit(data, 24 * g + t)
<1>. DEFINE a == Octet(data, 3 * g + 1)
            b == Octet(data, 3 * g + 2)
            c == Octet(data, 3 * g + 3)
            x == Triple(data, g)
            m == 23 - t
<1>1. a \in 0 .. 255 /\ b \in 0 .. 255 /\ c \in 0 .. 255
  <2>1. 3 * g + 1 \in Nat \ {0} /\ 3 * g + 2 \in Nat \ {0} /\ 3 * g + 3 \in Nat \ {0}
    OBVIOUS
  <2>. QED
    BY <2>1, OctetIsByte
<1>2. IsOf(x, a, b, c)
  BY DEF Triple, IsOf
<1>. HIDE DEF a, b, c, x
<1>3. m \in 0 .. 23
  OBVIOUS
<1>. HIDE DEF m
<1>4. HasBitsOf(x, a, b, c, m)
  BY <1>1, <1>2, <1>3, BitsOfThree
<1>5. CASE t < 8
  <2>1. t \in 0 .. 7 /\ 3 * g \in Nat /\ 8 * (3 * g) + t = 24 * g + t /\ m > 15 /\ m - 16 = 7 - t
    BY <1>5 DEF m
  <2>2. Bit(Octet(data, 3 * g + 1), 7 - t) = DataBit(data, 8 * (3 * g) + t)
    BY <2>1, BitsOfOctets
  <2>. QED
    BY <1>4, <2>1, <2>2 DEF x, a, m, HasBitsOf
<1>6. CASE t \in 8 .. 15
  <2>1. /\ t - 8 \in 0 .. 7 /\ 3 * g + 1 \in Nat /\ (3 * g + 1) + 1 = 3 * g + 2
        /\ 8 * (3 * g + 1) + (t - 8) = 24 * g + t
        /\ m \in 8 .. 15 /\ m - 8 = 7 - (t - 8)
    BY <1>6 DEF m
  <2>2. Bit(Octet(data, (3 * g + 1) + 1), 7 - (t - 8)) = DataBit(data, 8 * (3 * g + 1) + (t - 8))
    BY <2>1, BitsOfOctets
  <2>. QED
    BY <1>4, <2>1, <2>2 DEF x, b, m, HasBitsOf
<1>7. CASE t > 15
  <2>1. /\ t - 16 \in 0 .. 7 /\ 3 * g + 2 \in Nat /\ (3 * g + 2) + 1 = 3 * g + 3
        /\ 8 * (3 * g + 2) + (t - 16) = 24 * g + t
        /\ m < 8 /\ m = 7 - (t - 16)
    BY <1>7 DEF m
  <2>2. Bit(Octet(data, (3 * g + 2) + 1), 7 - (t - 16)) = DataBit(data, 8 * (3 * g + 2) + (t - 16))
    BY <2>1, BitsOfOctets
  <2>. QED
    BY <1>4, <2>1, <2>2 DEF x, c, m, HasBitsOf
<1>8. Triple(data, g) \in Nat
  BY <1>4 DEF x, HasBitsOf
<1>. QED
  BY <1>5, <1>6, <1>7, <1>8 DEF m

PowerOf64(n) == 64^n

\* A digit of three bytes.
LEMMA DigitOfTriple ==
  ASSUME NEW x \in Nat, NEW k \in 0 .. 3
  PROVE  /\ (x \div 64^(3 - k)) % 64 \in 0 .. 63
         /\ \A r \in 0 .. 5 : Bit((x \div 64^(3 - k)) % 64, 5 - r) = Bit(x, 23 - (6 * k + r))
<1>1. PowerOf64(3 - k) = 2^(18 - 6 * k) /\ 18 - 6 * k \in 0 .. 18
  <2>1. PowerOf64(0) = 1 /\ PowerOf64(1) = 64 /\ PowerOf64(2) = 4096 /\ PowerOf64(3) = 262144
    BY DEF PowerOf64
  <2>2. Power(0) = 1 /\ Power(6) = 64 /\ Power(12) = 4096 /\ Power(18) = 262144
    BY DEF Power
  <2>3. k = 0 \/ k = 1 \/ k = 2 \/ k = 3
    OBVIOUS
  <2>4. PowerOf64(3 - k) = Power(18 - 6 * k)
    BY <2>1, <2>2, <2>3
  <2>. QED
    BY <2>4 DEF Power
<1>. DEFINE e == 18 - 6 * k
            u == x \div 2^e
            w == u % 64
<1>2. e \in Exponents /\ e \in Nat
  BY DEF Exponents
<1>3. u \in Nat
  <2>1. 2^e \in Nat \ {0}
    BY <1>2, PowersOfTwo
  <2>. HIDE DEF e
  <2>. QED
    BY <2>1, Divide
<1>4. w \in 0 .. 63
  <2>. HIDE DEF u
  <2>. QED
    BY <1>3
<1>5. ASSUME NEW r \in 0 .. 5 PROVE Bit(w, 5 - r) = Bit(x, 23 - (6 * k + r))
  <2>1. 6 \in Exponents /\ 5 - r \in Nat /\ 5 - r < 6 /\ Power(6) = 64
    BY DEF Exponents, Power
  <2>2. e + (5 - r) \in Exponents /\ e + (5 - r) = 23 - (6 * k + r)
    BY DEF Exponents
  <2>. HIDE DEF u, e
  <2>3. Bit(u % 2^6, 5 - r) = Bit(u, 5 - r)
    BY <1>3, <2>1, BitOfRemainder
  <2>4. u % 2^6 = w
    BY <2>1 DEF Power
  <2>5. Bit(u, 5 - r) = Bit(x, e + (5 - r))
    BY <1>2, <2>1, <2>2, BitOfQuotient DEF u
  <2>. QED
    BY <2>2, <2>3, <2>4, <2>5
<1>6. (x \div 64^(3 - k)) % 64 = w
  BY <1>1 DEF PowerOf64
<1>. HIDE DEF w
<1>. QED
  BY <1>4, <1>5, <1>6
-----------------------------------------------------------------------------
Places(data)  == 4 * ((Len(data) + 2) \div 3)
Fillers(data) == <<0, 2, 1>>[(Len(data) % 3) + 1]
DigitAt(data, j) == (Triple(data, (j - 1) \div 4) \div 64^(3 - ((j - 1) % 4))) % 64

LEMMA Base64Parts ==
  ASSUME NEW data
  PROVE  Base64(data) = [j \in 1 .. Places(data) |->
                           IF j > Places(data) - Fillers(data) THEN Filler ELSE DigitAt(data, j)]
BY DEF Base64, Places, Fillers, DigitAt, Triple, Octet

\* How many digits there are.
LEMMA DigitsCounted ==
  ASSUME NEW data \in Seq(Byte)
  PROVE  LET n == Places(data) - Fillers(data) IN
         /\ Places(data) \in Nat /\ Places(data) % 4 = 0 /\ n \in 0 .. Places(data)
         /\ 6 * n \in 8 * Len(data) .. 8 * Len(data) + 5
<1>. DEFINE l == Len(data)
<1>1. l \in Nat
  BY LenProperties
<1>2. /\ Fillers(data) = IF l % 3 = 0 THEN 0 ELSE IF l % 3 = 1 THEN 2 ELSE 1
      /\ Places(data) = 4 * ((l + 2) \div 3)
  <2>1. l % 3 = 0 \/ l % 3 = 1 \/ l % 3 = 2
    BY <1>1
  <2>. QED
    BY <2>1 DEF Fillers, Places
<1>. HIDE DEF l
<1>3. CASE l % 3 = 0
  BY <1>1, <1>2, <1>3 DEF l
<1>4. CASE l % 3 = 1
  BY <1>1, <1>2, <1>4 DEF l
<1>5. CASE l % 3 = 2
  BY <1>1, <1>2, <1>5 DEF l
<1>6. l % 3 = 0 \/ l % 3 = 1 \/ l % 3 = 2
  BY <1>1
<1>. QED
  BY <1>3, <1>4, <1>5, <1>6

LEMMA BitsOfDigits ==
  ASSUME NEW data \in Seq(Byte), NEW i \in Nat
  PROVE  /\ DigitAt(data, i + 1) \in 0 .. 63
         /\ \A r \in 0 .. 5 : Bit(DigitAt(data, i + 1), 5 - r) = DataBit(data, 6 * i + r)
<1>. DEFINE g == i \div 4
            k == i % 4
            x == Triple(data, g)
<1>1. g \in Nat /\ k \in 0 .. 3 /\ i = 4 * g + k
  OBVIOUS
<1>2. DigitAt(data, i + 1) = (x \div 64^(3 - k)) % 64
  <2>1. (i + 1) - 1 = i
    OBVIOUS
  <2>. QED
    BY <2>1 DEF DigitAt
<1>. HIDE DEF g, k
<1>3. x \in Nat
  <2>1. 0 \in 0 .. 23
    OBVIOUS
  <2>. QED
    BY <1>1, <2>1, BitsOfTriples, Zenon
<1>4. ASSUME NEW r \in 0 .. 5 PROVE Bit(x, 23 - (6 * k + r)) = DataBit(data, 6 * i + r)
  <2>. DEFINE t == 6 * k + r
  <2>1. t \in 0 .. 23 /\ 24 * g + t = 6 * i + r
    BY <1>1
  <2>. HIDE DEF t
  <2>2. Bit(x, 23 - t) = DataBit(data, 24 * g + t)
    BY <1>1, <2>1, BitsOfTriples, Zenon
  <2>. QED
    BY <2>1, <2>2 DEF t
<1>. HIDE DEF x
<1>5. /\ (x \div 64^(3 - k)) % 64 \in 0 .. 63
      /\ \A r \in 0 .. 5 : Bit((x \div 64^(3 - k)) % 64, 5 - r) = Bit(x, 23 - (6 * k + r))
  BY <1>1, <1>3, DigitOfTriple
<1>. QED
  BY <1>2, <1>4, <1>5

LEMMA DigitIsNoFiller ==
  \A x \in 0 .. 63 : x \in Nat /\ x # Filler
BY DEF Filler

\* Every bit of the data is in the text, which is digits and then fillers.
LEMMA Base64IsWhole ==
  ASSUME NEW data \in Seq(Byte)
  PROVE  LET text == Base64(data) IN
         /\ Len(text) % 4 = 0
         /\ \E n \in 0 .. Len(text) :
              /\ Holds(SubSeq(text, 1, n), 6, data)
              /\ \A i \in DOMAIN text : text[i] = Filler <=> i > n
<1>. DEFINE text == Base64(data)
            l    == Places(data)
            n    == l - Fillers(data)
            digits == SubSeq(text, 1, n)
<1>1. l \in Nat /\ l % 4 = 0 /\ n \in 0 .. l /\ 6 * n \in 8 * Len(data) .. 8 * Len(data) + 5
  BY DigitsCounted
<1>2. text = [j \in 1 .. l |-> IF j > n THEN Filler ELSE DigitAt(data, j)]
  BY Base64Parts
<1>. HIDE DEF text, l, n
<1>3. ASSUME NEW j \in 1 .. l
      PROVE  /\ DigitAt(data, j) \in 0 .. 63
             /\ \A r \in 0 .. 5 : Bit(DigitAt(data, j), 5 - r) = DataBit(data, 6 * (j - 1) + r)
  <2>1. j - 1 \in Nat /\ (j - 1) + 1 = j
    BY <1>1
  <2>2. /\ DigitAt(data, (j - 1) + 1) \in 0 .. 63
        /\ \A r \in 0 .. 5 :
             Bit(DigitAt(data, (j - 1) + 1), 5 - r) = DataBit(data, 6 * (j - 1) + r)
    BY <2>1, BitsOfDigits
  <2>. QED
    BY <2>1, <2>2
<1>4. text \in [1 .. l -> Nat]
  <2>1. ASSUME NEW j \in 1 .. l PROVE DigitAt(data, j) \in Nat
    <3>1. DigitAt(data, j) \in 0 .. 63
      BY <1>3
    <3>. QED
      BY <3>1, DigitIsNoFiller, Zenon
  <2>. QED
    BY <1>2, <2>1 DEF Filler
<1>5. text \in Seq(Nat) /\ Len(text) = l /\ DOMAIN text = 1 .. l
  <2>1. l \in Nat
    BY <1>1
  <2>. QED
    BY <1>4, <2>1
<1>6. digits \in Seq(Nat) /\ Len(digits) = n /\ \A j \in 1 .. n : digits[j] = text[j]
  <2>1. \A j \in 1 .. n : text[j] \in Nat
    BY <1>1, <1>4
  <2>2. /\ digits \in Seq(Nat) /\ Len(digits) = IF 1 <= n THEN n - 1 + 1 ELSE 0
        /\ \A j \in 1 .. n - 1 + 1 : digits[j] = text[1 + j - 1]
    <3>. HIDE DEF digits
    <3>1. 1 \in Int /\ n \in Int
      BY <1>1
    <3>. QED
      BY <1>5, <2>1, <3>1, SubSeqProperties DEF digits
  <2>. HIDE DEF digits
  <2>3. \A j \in 1 .. n : j \in 1 .. n - 1 + 1 /\ 1 + j - 1 = j
    BY <1>1
  <2>. QED
    BY <1>1, <2>2, <2>3
<1>. HIDE DEF digits
<1>7. ASSUME NEW j \in 1 .. n PROVE digits[j] = DigitAt(data, j)
  <2>1. j \in 1 .. l /\ ~(j > n)
    BY <1>1
  <2>. QED
    BY <1>2, <1>6, <2>1
<1>8. Tells(digits, 6, data)
  <2>1. ASSUME NEW j \in 1 .. n, NEW r \in 0 .. 5
        PROVE  Bit(digits[j], 5 - r) = DataBit(data, 6 * (j - 1) + r)
    <3>1. j \in 1 .. l
      BY <1>1
    <3>. QED
      BY <1>3, <1>7, <3>1
  <2>2. 6 - 1 = 5
    OBVIOUS
  <2>. QED
    BY <1>6, <2>1, <2>2 DEF Tells
<1>9. Holds(digits, 6, data)
  <2>1. 6 \in 1 .. 8 /\ 6 * Len(digits) \in 8 * Len(data) .. 8 * Len(data) + 6 - 1
    <3>1. Len(data) \in Nat
      BY LenProperties
    <3>. QED
      BY <1>1, <1>6, <3>1
  <2>. QED
    BY <1>6, <1>8, <2>1, TellingHolds
<1>10. ASSUME NEW i \in 1 .. l PROVE text[i] = Filler <=> i > n
  <2>1. DigitAt(data, i) # Filler
    <3>1. DigitAt(data, i) \in 0 .. 63
      BY <1>3
    <3>. QED
      BY <3>1, DigitIsNoFiller, Zenon
  <2>. QED
    BY <1>1, <1>2, <2>1
<1>. QED
  BY <1>1, <1>5, <1>9, <1>10 DEF text, digits
-----------------------------------------------------------------------------
(* The digits of base32_encode.                                             *)

\* The low bits of buffer are those of the data from the t-th one on.
HasBits(data, t, buffer, bits) ==
  /\ buffer \in 0 .. 2^bits - 1
  /\ \A j \in 0 .. bits - 1 : Bit(buffer, bits - 1 - j) = DataBit(data, t + j)

LEMMA BufferIsNumber ==
  ASSUME NEW data, NEW t, NEW bits \in 0 .. 12, NEW buffer, HasBits(data, t, buffer, bits)
  PROVE  buffer \in 0 .. 2^bits - 1 /\ buffer \in Nat
<1>1. bits \in Exponents
  BY DEF Exponents
<1>2. 2^bits \in Nat
  BY <1>1, PowersOfTwo
<1>. QED
  BY <1>2 DEF HasBits

LEMMA BelowJoined ==
  ASSUME NEW k \in Nat, NEW b \in Nat, k + b \in Exponents,
         NEW x \in 0 .. 2^b - 1, NEW y \in 0 .. 2^k - 1
  PROVE  x * 2^k + y \in 0 .. 2^(k + b) - 1
<1>. DEFINE p == 2^k
            q == 2^b
<1>1. p \in Nat \ {0} /\ q \in Nat \ {0}
  <2>1. k \in Exponents /\ b \in Exponents
    BY DEF Exponents
  <2>. QED
    BY <2>1, PowersOfTwo
<1>2. 2^(k + b) = p * q
  BY PowersAdd
<1>3. x \in Nat /\ y \in Nat /\ x < q /\ y < p
  BY <1>1
<1>. HIDE DEF p, q
<1>4. x * p + y < q * p
  BY <1>1, <1>3, DigitAdded
<1>5. x * p + y \in Nat /\ p * q = q * p /\ p * q \in Nat
  <2>1. x * p \in Nat
    BY <1>1, <1>3, Product
  <2>. QED
    BY <1>1, <1>3, <2>1, Product
<1>. QED
  BY <1>2, <1>4, <1>5 DEF p

\* A byte is taken.
LEMMA ByteTaken ==
  ASSUME NEW data \in Seq(Byte), NEW i \in Nat, i < Len(data), NEW t \in Nat, NEW bits \in 0 .. 4,
         t + bits = 8 * i, NEW buffer, HasBits(data, t, buffer, bits)
  PROVE  HasBits(data, t, buffer * 256 + data[i + 1], bits + 8)
<1>. DEFINE y == data[i + 1]
            z == buffer * 256 + y
<1>1. Len(data) \in Nat /\ Octet(data, i + 1) = y
  BY LenProperties DEF Octet
<1>2. y \in 0 .. 255
  BY <1>1, OctetIsByte
<1>3. /\ Power(8) = 256 /\ 8 \in Exponents /\ 8 + bits \in Exponents /\ bits \in Nat
      /\ bits + 8 = 8 + bits
  BY DEF Power, Exponents
<1>4. buffer \in 0 .. 2^bits - 1 /\ buffer \in Nat
  <2>1. bits \in 0 .. 12
    OBVIOUS
  <2>. QED
    BY <2>1, BufferIsNumber
<1>. HIDE DEF y
<1>5. z = buffer * 2^8 + y /\ y \in 0 .. 2^8 - 1
  BY <1>2, <1>3 DEF Power
<1>6. z \in 0 .. 2^(bits + 8) - 1
  <2>1. buffer * 2^8 + y \in 0 .. 2^(8 + bits) - 1
    BY <1>3, <1>4, <1>5, BelowJoined
  <2>. QED
    BY <1>3, <1>5, <2>1
<1>. HIDE DEF z
<1>7. ASSUME NEW j \in 0 .. bits + 7 PROVE Bit(z, bits + 7 - j) = DataBit(data, t + j)
  <2>. DEFINE m == bits + 7 - j
  <2>1. m \in Exponents /\ m \in Nat
    BY <1>3 DEF Exponents
  <2>2. /\ m < 8  => Bit(buffer * 2^8 + y, m) = Bit(y, m)
        /\ m >= 8 => Bit(buffer * 2^8 + y, m) = Bit(buffer, m - 8)
    <3>. HIDE DEF m
    <3>. QED
      BY <1>3, <1>4, <1>5, <2>1, BitOfJoined
  <2>3. CASE m < 8
    <3>. DEFINE e == j - bits
    <3>1. e \in 0 .. 7 /\ m = 7 - e /\ 8 * i + e = t + j
      BY <2>3
    <3>. HIDE DEF e
    <3>2. Bit(Octet(data, i + 1), 7 - e) = DataBit(data, 8 * i + e)
      BY <3>1, BitsOfOctets
    <3>. QED
      BY <1>1, <1>5, <2>2, <2>3, <3>1, <3>2
  <2>4. CASE m >= 8
    <3>1. j \in 0 .. bits - 1 /\ m - 8 = bits - 1 - j
      BY <2>4
    <3>2. Bit(buffer, bits - 1 - j) = DataBit(data, t + j)
      BY <3>1 DEF HasBits
    <3>. QED
      BY <1>5, <2>2, <2>4, <3>1, <3>2
  <2>. QED
    BY <2>1, <2>3, <2>4
<1>8. bits + 8 - 1 = bits + 7 /\ \A j \in 0 .. bits + 7 : bits + 8 - 1 - j = bits + 7 - j
  OBVIOUS
<1>. QED
  BY <1>6, <1>7, <1>8 DEF HasBits, y, z

\* Behind the data, zeros are.
LEMMA ZerosTaken ==
  ASSUME NEW data \in Seq(Byte), NEW t \in Nat, NEW bits \in 1 .. 4,
         t + bits = 8 * Len(data), NEW buffer, HasBits(data, t, buffer, bits)
  PROVE  HasBits(data, t, buffer * 2^(5 - bits), 5)
<1>. DEFINE k == 5 - bits
            z == buffer * 2^k
<1>1. /\ Len(data) \in Nat /\ k \in Nat /\ k \in Exponents /\ k \in 1 .. 4 /\ bits \in Nat
      /\ k + bits = 5 /\ k + bits \in Exponents
  BY LenProperties DEF Exponents
<1>. HIDE DEF k
<1>2. buffer \in 0 .. 2^bits - 1 /\ buffer \in Nat
  <2>1. bits \in 0 .. 12
    OBVIOUS
  <2>. QED
    BY <2>1, BufferIsNumber
<1>. DEFINE p == 2^k
<1>3. p \in Nat \ {0}
  BY <1>1, PowersOfTwo
<1>. HIDE DEF p
<1>4. 0 \in 0 .. p - 1 /\ buffer * p + 0 = buffer * p
  <2>1. buffer * p \in Nat
    BY <1>2, <1>3, Product
  <2>. QED
    BY <1>3, <2>1
<1>5. z = buffer * 2^k + 0 /\ 0 \in 0 .. 2^k - 1
  BY <1>4 DEF p
<1>6. z \in 0 .. 2^5 - 1
  <2>1. buffer * 2^k + 0 \in 0 .. 2^(k + bits) - 1
    BY <1>1, <1>2, <1>5, BelowJoined
  <2>. DEFINE n == k + bits
  <2>2. z \in 0 .. 2^n - 1 /\ n = 5
    BY <1>1, <1>5, <2>1
  <2>. HIDE DEF n, z
  <2>3. Power(n) = Power(5)
    BY <2>2
  <2>4. z \in 0 .. Power(5) - 1
    BY <2>2, <2>3 DEF Power
  <2>. QED
    BY <2>4 DEF Power
<1>. HIDE DEF z
<1>7. ASSUME NEW j \in 0 .. 4 PROVE Bit(z, 4 - j) = DataBit(data, t + j)
  <2>. DEFINE m == 4 - j
  <2>1. m \in Exponents /\ m \in Nat
    BY DEF Exponents
  <2>2. /\ m < k  => Bit(buffer * 2^k + 0, m) = Bit(0, m)
        /\ m >= k => Bit(buffer * 2^k + 0, m) = Bit(buffer, m - k)
    <3>. HIDE DEF m
    <3>. QED
      BY <1>1, <1>2, <1>5, <2>1, BitOfJoined
  <2>3. CASE m < k
    <3>1. ~(t + j < 8 * Len(data))
      BY <1>1, <2>3
    <3>2. Bit(0, m) = 0
      BY <2>1, ZeroHasNoBits
    <3>. QED
      BY <1>5, <2>2, <2>3, <3>1, <3>2 DEF DataBit
  <2>4. CASE m >= k
    <3>1. j \in 0 .. bits - 1 /\ m - k = bits - 1 - j
      BY <1>1, <2>4
    <3>2. Bit(buffer, bits - 1 - j) = DataBit(data, t + j)
      BY <3>1 DEF HasBits
    <3>. QED
      BY <1>5, <2>2, <2>4, <3>1, <3>2
  <2>. QED
    BY <1>1, <2>1, <2>3, <2>4
<1>8. 5 - 1 = 4
  OBVIOUS
<1>. QED
  BY <1>6, <1>7, <1>8 DEF HasBits, z, k

\* A digit is written.
LEMMA DigitTaken ==
  ASSUME NEW data \in Seq(Byte), NEW t \in Nat, NEW bits \in 5 .. 12, NEW left, left = bits - 5,
         NEW buffer, HasBits(data, t, buffer, bits)
  PROVE  /\ buffer \div 2^left \in Nat
         /\ \A r \in 0 .. 4 : Bit(buffer \div 2^left, 4 - r) = DataBit(data, t + r)
         /\ HasBits(data, t + 5, buffer % 2^left, left)
<1>. DEFINE d == buffer \div 2^left
            e == buffer % 2^left
<1>1. left \in 0 .. 7 /\ left \in Exponents /\ left \in Nat /\ left + 5 = bits
  BY DEF Exponents
<1>2. buffer \in Nat
  <2>1. bits \in 0 .. 12
    OBVIOUS
  <2>. QED
    BY <2>1, BufferIsNumber
<1>3. d \in Nat /\ e \in 0 .. 2^left - 1
  BY <1>1, <1>2, PowersOfTwo, Divide
<1>4. ASSUME NEW r \in 0 .. 4 PROVE Bit(d, 4 - r) = DataBit(data, t + r)
  <2>1. /\ 4 - r \in Nat /\ left + (4 - r) \in Exponents /\ left + (4 - r) = bits - 1 - r
        /\ r \in 0 .. bits - 1
    BY <1>1 DEF Exponents
  <2>2. Bit(d, 4 - r) = Bit(buffer, left + (4 - r))
    BY <1>1, <1>2, <2>1, BitOfQuotient
  <2>3. Bit(buffer, bits - 1 - r) = DataBit(data, t + r)
    BY <2>1 DEF HasBits
  <2>. QED
    BY <2>1, <2>2, <2>3
<1>5. ASSUME NEW j \in 0 .. left - 1 PROVE Bit(e, left - 1 - j) = DataBit(data, t + 5 + j)
  <2>1. /\ left - 1 - j \in Nat /\ left - 1 - j < left
        /\ j + 5 \in 0 .. bits - 1 /\ bits - 1 - (j + 5) = left - 1 - j
        /\ t + (j + 5) = t + 5 + j
    BY <1>1
  <2>2. Bit(e, left - 1 - j) = Bit(buffer, left - 1 - j)
    BY <1>1, <1>2, <2>1, BitOfRemainder
  <2>3. Bit(buffer, bits - 1 - (j + 5)) = DataBit(data, t + (j + 5))
    <3>. DEFINE i == j + 5
    <3>1. i \in 0 .. bits - 1
      BY <2>1
    <3>. HIDE DEF i
    <3>2. Bit(buffer, bits - 1 - i) = DataBit(data, t + i)
      BY <3>1 DEF HasBits
    <3>. QED
      BY <3>2 DEF i
  <2>. QED
    BY <2>1, <2>2, <2>3
<1>. HIDE DEF d, e
<1>6. HasBits(data, t + 5, e, left)
  BY <1>3, <1>5 DEF HasBits
<1>. QED
  BY <1>3, <1>4, <1>6 DEF d, e
-----------------------------------------------------------------------------
(* The loop of base32_encode.                                               *)

Cuttings == [next : Nat \ {0}, buffer : Nat, bits : 0 .. 7, text : Seq(Nat)]

NothingCut == [next |-> 1, buffer |-> 0, bits |-> 0, text |-> <<>>]

GoesOn(data, s) == s.bits > 0 \/ s.next <= Len(data)

Fill(data, s) ==
  IF s.bits >= 5 THEN s
  ELSE IF s.next <= Len(data)
  THEN [s EXCEPT !.buffer = @ * 256 + data[s.next], !.bits = @ + 8, !.next = @ + 1]
  ELSE [s EXCEPT !.buffer = @ * 2^(5 - s.bits), !.bits = 5]

CutTurn(data, s) ==
  LET f    == Fill(data, s)
      left == f.bits - 5
  IN [f EXCEPT !.text = Append(@, f.buffer \div 2^left), !.buffer = @ % 2^left, !.bits = left]

LEMMA ByteAdded ==
  /\ \A y \in Byte : y \in Nat
  /\ \A x, y \in Nat : x * 256 + y \in Nat
BY DEF Byte

\* What is filled has the fields of s, but for these.
LEMMA Filled ==
  ASSUME NEW data \in Seq(Byte), NEW s \in Cuttings
  PROVE  LET f == Fill(data, s) IN
         /\ f \in [next : Nat \ {0}, buffer : Nat, bits : 5 .. 12, text : Seq(Nat)]
         /\ f.text = s.text
         /\ s.bits >= 5 => f = s
         /\ s.bits < 5 /\ s.next <= Len(data) =>
              f.buffer = s.buffer * 256 + data[s.next] /\ f.bits = s.bits + 8 /\ f.next = s.next + 1
         /\ s.bits < 5 /\ ~(s.next <= Len(data)) =>
              f.buffer = s.buffer * 2^(5 - s.bits) /\ f.bits = 5 /\ f.next = s.next
<1>. DEFINE f == Fill(data, s)
<1>0. s.next \in Nat \ {0} /\ s.buffer \in Nat /\ s.bits \in 0 .. 7 /\ s.text \in Seq(Nat)
      /\ s = [next |-> s.next, buffer |-> s.buffer, bits |-> s.bits, text |-> s.text]
      /\ Len(data) \in Nat
  BY LenProperties DEF Cuttings
<1>00. /\ s.next + 1 \in Nat \ {0}
       /\ s.bits < 5 => s.bits + 8 \in 5 .. 12 /\ 5 - s.bits \in Exponents
  <2>. DEFINE n == s.next
              b == s.bits
  <2>1. n \in Nat \ {0} /\ b \in 0 .. 7
    BY <1>0
  <2>. HIDE DEF n, b
  <2>2. n + 1 \in Nat \ {0} /\ (b < 5 => b + 8 \in 5 .. 12 /\ 5 - b \in Exponents)
    BY <2>1 DEF Exponents
  <2>. QED
    BY <2>2 DEF n, b
<1>1. CASE s.bits >= 5
  <2>1. f = s
    BY <1>1 DEF Fill
  <2>. QED
    BY <1>0, <1>1, <2>1
<1>2. CASE s.bits < 5 /\ s.next <= Len(data)
  <2>. DEFINE g == [next |-> s.next + 1, buffer |-> s.buffer * 256 + data[s.next],
                    bits |-> s.bits + 8, text |-> s.text]
  <2>1. f = [s EXCEPT !.buffer = @ * 256 + data[s.next], !.bits = @ + 8, !.next = @ + 1]
    BY <1>0, <1>2 DEF Fill
  <2>2. f = g
    BY <1>0, <2>1
  <2>3. data[s.next] \in Nat
    <3>1. s.next \in 1 .. Len(data)
      BY <1>0, <1>2
    <3>2. data[s.next] \in Byte
      BY <3>1, ElementOfSeq
    <3>. QED
      BY <3>2, ByteAdded, Zenon
  <2>4. s.buffer * 256 + data[s.next] \in Nat
    BY <1>0, <2>3, ByteAdded, Zenon
  <2>5. s.bits + 8 \in 5 .. 12 /\ s.next + 1 \in Nat \ {0}
    BY <1>2, <1>00, Zenon
  <2>. HIDE DEF f
  <2>. QED
    BY <1>0, <1>2, <2>2, <2>4, <2>5 DEF f
<1>3. CASE s.bits < 5 /\ ~(s.next <= Len(data))
  <2>. DEFINE b == s.buffer * 2^(5 - s.bits)
  <2>1. f = [s EXCEPT !.buffer = b, !.bits = 5]
    BY <1>0, <1>3 DEF Fill
  <2>2. b \in Nat
    <3>. DEFINE k == 5 - s.bits
    <3>1. k \in Exponents
      BY <1>3, <1>00, Zenon
    <3>. HIDE DEF k
    <3>2. 2^k \in Nat
      BY <3>1, PowersOfTwo
    <3>. QED
      BY <1>0, <3>2, Product DEF k
  <2>. HIDE DEF b
  <2>3. f = [next |-> s.next, buffer |-> b, bits |-> 5, text |-> s.text]
    BY <1>0, <2>1
  <2>. HIDE DEF f
  <2>. QED
    BY <1>0, <1>3, <2>2, <2>3 DEF f, b
<1>4. s.bits >= 5 \/ s.bits < 5
  BY <1>0
<1>. QED
  BY <1>1, <1>2, <1>3, <1>4

LEMMA TurnParts ==
  ASSUME NEW data \in Seq(Byte), NEW s \in Cuttings
  PROVE  LET f    == Fill(data, s)
             left == f.bits - 5
             g    == CutTurn(data, s)
         IN /\ g \in Cuttings
            /\ f.buffer \div 2^left \in Nat
            /\ g.text = Append(s.text, f.buffer \div 2^left)
            /\ g.buffer = f.buffer % 2^left /\ g.bits = left /\ g.next = f.next
<1>. DEFINE f    == Fill(data, s)
            left == f.bits - 5
            d    == f.buffer \div 2^left
            e    == f.buffer % 2^left
            g    == CutTurn(data, s)
<1>1. f \in [next : Nat \ {0}, buffer : Nat, bits : 5 .. 12, text : Seq(Nat)] /\ f.text = s.text
  BY Filled
<1>2. g = [f EXCEPT !.text = Append(@, d), !.buffer = e, !.bits = left]
  BY DEF CutTurn
<1>. HIDE DEF f, g
<1>3. f.next \in Nat \ {0} /\ f.buffer \in Nat /\ f.bits \in 5 .. 12 /\ f.text \in Seq(Nat)
      /\ f = [next |-> f.next, buffer |-> f.buffer, bits |-> f.bits, text |-> f.text]
  BY <1>1
<1>4. left \in 0 .. 7 /\ left \in Exponents
  BY <1>3 DEF Exponents
<1>. HIDE DEF left
<1>5. d \in Nat /\ e \in Nat
  <2>. DEFINE p == 2^left
              x == f.buffer
  <2>1. p \in Nat \ {0} /\ x \in Nat
    BY <1>3, <1>4, PowersOfTwo
  <2>. HIDE DEF p, x
  <2>2. x \div p \in Nat /\ x % p \in Nat
    BY <2>1, Divide, Remainder
  <2>. QED
    BY <2>2 DEF p, x
<1>. HIDE DEF d, e
<1>6. g = [next |-> f.next, buffer |-> e, bits |-> left, text |-> Append(f.text, d)]
  BY <1>2, <1>3
<1>7. Append(f.text, d) \in Seq(Nat)
  BY <1>3, <1>5, AppendProperties
<1>8. g \in Cuttings /\ g.text = Append(s.text, d) /\ g.buffer = e /\ g.bits = left
      /\ g.next = f.next
  BY <1>1, <1>3, <1>4, <1>5, <1>6, <1>7 DEF Cuttings
<1>. QED
  BY <1>5, <1>8 DEF f, left, d, e, g
-----------------------------------------------------------------------------
\* The digits written and the bits in the buffer are the data taken; or zeros are behind them
\* and all is written.
IsCut(data, s) ==
  /\ s \in Cuttings
  /\ Tells(s.text, 5, data)
  /\ HasBits(data, 5 * Len(s.text), s.buffer, s.bits)
  /\ \/ 5 * Len(s.text) + s.bits = 8 * (s.next - 1) /\ s.next <= Len(data) + 1
     \/ /\ s.bits = 0 /\ ~(s.next <= Len(data))
        /\ 5 * Len(s.text) \in 8 * Len(data) .. 8 * Len(data) + 4

\* The digit d is the next one.
IsNext(data, d, t) == \A r \in 0 .. 4 : Bit(d, 4 - r) = DataBit(data, t + r)

LEMMA OneMoreTells ==
  ASSUME NEW data, NEW text \in Seq(Nat), Tells(text, 5, data), NEW d \in Nat,
         IsNext(data, d, 5 * Len(text))
  PROVE  Tells(Append(text, d), 5, data) /\ Len(Append(text, d)) = Len(text) + 1
<1>. DEFINE u == Append(text, d)
<1>1. /\ Len(text) \in Nat /\ Len(u) = Len(text) + 1
      /\ \A j \in 1 .. Len(text) : u[j] = text[j]
      /\ u[Len(text) + 1] = d
  BY AppendProperties, LenProperties
<1>. HIDE DEF u
<1>2. ASSUME NEW j \in 1 .. Len(u), NEW r \in 0 .. 4
      PROVE  Bit(u[j], 4 - r) = DataBit(data, 5 * (j - 1) + r)
  <2>1. CASE j = Len(text) + 1
    <3>1. u[j] = d /\ j - 1 = Len(text)
      BY <1>1, <2>1
    <3>. QED
      BY <3>1 DEF IsNext
  <2>2. CASE j # Len(text) + 1
    <3>1. j \in 1 .. Len(text)
      BY <1>1, <2>2
    <3>2. u[j] = text[j] /\ 5 - 1 = 4
      BY <1>1, <3>1
    <3>3. Bit(text[j], 5 - 1 - r) = DataBit(data, 5 * (j - 1) + r)
      <4>1. r \in 0 .. 5 - 1
        OBVIOUS
      <4>. QED
        BY <3>1, <4>1, Zenon DEF Tells
    <3>. QED
      BY <3>2, <3>3
  <2>. QED
    BY <2>1, <2>2
<1>3. 5 - 1 = 4
  OBVIOUS
<1>. QED
  BY <1>1, <1>2, <1>3 DEF Tells, u

LEMMA TurnCuts ==
  ASSUME NEW data \in Seq(Byte), NEW s, IsCut(data, s), GoesOn(data, s)
  PROVE  IsCut(data, CutTurn(data, s)) /\ Len(CutTurn(data, s).text) = Len(s.text) + 1
<1>. DEFINE f     == Fill(data, s)
            left  == f.bits - 5
            d     == f.buffer \div 2^left
            g     == CutTurn(data, s)
            t     == 5 * Len(s.text)
            n     == s.next
            b     == s.bits
            total == Len(data)
<1>1. /\ s \in Cuttings /\ Tells(s.text, 5, data) /\ HasBits(data, t, s.buffer, b)
      /\ n \in Nat \ {0} /\ b \in 0 .. 7 /\ s.text \in Seq(Nat) /\ s.buffer \in Nat
  BY DEF IsCut, Cuttings
<1>2. total \in Nat /\ Len(s.text) \in Nat
  BY <1>1, LenProperties
<1>3. t \in Nat
  BY <1>2
<1>4. /\ b > 0 \/ n <= total
      /\ \/ t + b = 8 * (n - 1) /\ n <= total + 1
         \/ b = 0 /\ ~(n <= total)
  BY DEF IsCut, GoesOn
<1>5. /\ f.bits \in 5 .. 12 /\ f.next \in Nat \ {0} /\ f.text = s.text
      /\ b >= 5 => f = s
      /\ b < 5 /\ n <= total =>
           f.buffer = s.buffer * 256 + data[n] /\ f.bits = b + 8 /\ f.next = n + 1
      /\ b < 5 /\ ~(n <= total) =>
           f.buffer = s.buffer * 2^(5 - b) /\ f.bits = 5 /\ f.next = n
  BY <1>1, Filled
<1>6. /\ g \in Cuttings /\ d \in Nat /\ g.text = Append(s.text, d)
      /\ g.buffer = f.buffer % 2^left /\ g.bits = left /\ g.next = f.next
  BY <1>1, TurnParts
<1>7. b >= 5 => f.buffer = s.buffer /\ f.bits = b /\ f.next = n
  BY <1>5
<1>. HIDE DEF f, g, n, b, total, t
<1>8. t + b = 8 * (n - 1) /\ n <= total + 1
  BY <1>1, <1>2, <1>4
<1>. DEFINE m == f.bits
            o == f.next
<1>9. HasBits(data, t, f.buffer, m)
  <2>1. CASE b >= 5
    BY <1>1, <1>7, <2>1
  <2>2. CASE b < 5 /\ n <= total
    <3>. DEFINE i == n - 1
    <3>1. i \in Nat /\ i < total /\ i + 1 = n /\ b \in 0 .. 4 /\ t + b = 8 * i
      BY <1>1, <1>2, <1>8, <2>2
    <3>. HIDE DEF i
    <3>2. HasBits(data, t, s.buffer * 256 + data[i + 1], b + 8)
      BY <1>1, <1>3, <3>1, ByteTaken DEF total
    <3>. QED
      BY <1>5, <2>2, <3>1, <3>2
  <2>3. CASE b < 5 /\ ~(n <= total)
    <3>0. b > 0 /\ n = total + 1
      BY <1>1, <1>2, <1>4, <1>8, <2>3
    <3>1. b \in 1 .. 4 /\ t + b = 8 * total
      <4>1. n - 1 = total /\ t + b = 8 * (n - 1)
        BY <1>2, <1>8, <3>0
      <4>. QED
        BY <1>1, <2>3, <3>0, <4>1
    <3>2. HasBits(data, t, s.buffer * 2^(5 - b), 5)
      BY <1>1, <1>3, <3>1, ZerosTaken DEF total
    <3>. QED
      BY <1>5, <2>3, <3>2
  <2>4. b >= 5 \/ b < 5
    BY <1>1
  <2>. QED
    BY <2>1, <2>2, <2>3, <2>4
<1>10. m \in 5 .. 12 /\ o \in Nat \ {0}
  BY <1>5
<1>11. \/ t + m = 8 * (o - 1) /\ o <= total + 1
       \/ m = 5 /\ ~(o <= total) /\ t + 5 \in 8 * total .. 8 * total + 4
  <2>1. \/ m = b /\ o = n
        \/ n <= total /\ m = b + 8 /\ o = n + 1
        \/ b < 5 /\ ~(n <= total) /\ m = 5 /\ o = n
    BY <1>1, <1>5, <1>7
  <2>. HIDE DEF m, o
  <2>. QED
    BY <1>1, <1>2, <1>3, <1>4, <1>8, <1>10, <2>1
<1>12. IsNext(data, d, t) /\ HasBits(data, t + 5, f.buffer % 2^left, left)
  <2>. DEFINE x == f.buffer
              l == m - 5
  <2>1. m \in 5 .. 12 /\ l = m - 5 /\ HasBits(data, t, x, m)
    BY <1>9, <1>10
  <2>. HIDE DEF m, x, l
  <2>2. /\ \A r \in 0 .. 4 : Bit(x \div 2^l, 4 - r) = DataBit(data, t + r)
        /\ HasBits(data, t + 5, x % 2^l, l)
    BY <1>3, <2>1, DigitTaken
  <2>. QED
    BY <2>2 DEF IsNext, m, x, l
<1>13. left = m - 5
  OBVIOUS
<1>. HIDE DEF d, left, m, o
<1>14. Tells(g.text, 5, data) /\ Len(g.text) = Len(s.text) + 1
  BY <1>1, <1>6, <1>12, OneMoreTells DEF t
<1>. DEFINE u == 5 * Len(g.text)
<1>15. u = t + 5
  BY <1>2, <1>14 DEF t
<1>. HIDE DEF u
<1>16. HasBits(data, u, g.buffer, g.bits)
  BY <1>6, <1>12, <1>15
<1>17. \/ u + left = 8 * (o - 1) /\ o <= total + 1
       \/ left = 0 /\ ~(o <= total) /\ u \in 8 * total .. 8 * total + 4
  BY <1>2, <1>3, <1>10, <1>11, <1>13, <1>15
<1>18. g.bits = left /\ g.next = o
  BY <1>6 DEF o
<1>19. \/ u + g.bits = 8 * (g.next - 1) /\ g.next <= total + 1
       \/ g.bits = 0 /\ ~(g.next <= total) /\ u \in 8 * total .. 8 * total + 4
  BY <1>17, <1>18
<1>. QED
  BY <1>6, <1>14, <1>16, <1>19 DEF IsCut, g, u, total
-----------------------------------------------------------------------------
\* h is the loop of base32_encode.
IsCutting(h, data) ==
  /\ h[0] = NothingCut
  /\ \A n \in Nat : h[n + 1] = IF GoesOn(data, h[n]) THEN CutTurn(data, h[n]) ELSE h[n]

LEMMA NothingCutType ==
  NothingCut \in Cuttings
BY EmptySeq DEF NothingCut, Cuttings

LEMMA TextIsCut ==
  ASSUME NEW data \in Seq(Byte)
  PROVE  \E h : IsCutting(h, data) /\ Base32(data) = h[2 * Len(data)].text
<1>. DEFINE next(s) == IF GoesOn(data, s) THEN CutTurn(data, s) ELSE s
            step    == [p \in Nat \X Cuttings |-> next(p[2])]
            Loop(f) == [i \in Nat |-> IF i = 0 THEN NothingCut ELSE next(f[i - 1])]
            after   == CHOOSE f : f = Loop(f)
<1>1. ASSUME NEW s \in Cuttings PROVE next(s) \in Cuttings
  BY TurnParts
<1>. HIDE DEF next
<1>2. step \in [Nat \X Cuttings -> Cuttings]
  BY <1>1
<1>3. ASSUME NEW n \in Nat, NEW s \in Cuttings PROVE step[<<n, s>>] = next(s)
  OBVIOUS
<1>. HIDE DEF step
<1>4. PICK h : IsLoop(h, Cuttings, NothingCut, step)
  BY <1>2, NothingCutType, PrimitiveRecursion
<1>5. h = Loop(h)
  <2>1. ASSUME NEW i \in Nat PROVE h[i] = IF i = 0 THEN NothingCut ELSE next(h[i - 1])
    <3>1. CASE i = 0
      BY <1>4, <3>1 DEF IsLoop
    <3>2. CASE i # 0
      <4>1. PICK j \in Nat : i = j + 1
        <5>1. i - 1 \in Nat /\ i = (i - 1) + 1
          BY <3>2
        <5>. QED
          BY <5>1
      <4>2. i - 1 = j /\ h[j] \in Cuttings /\ h[j + 1] = step[<<j + 1, h[j]>>]
        BY <1>4, <4>1 DEF IsLoop
      <4>3. step[<<j + 1, h[j]>>] = next(h[j])
        BY <1>3, <4>2
      <4>. QED
        BY <3>2, <4>1, <4>2, <4>3
    <3>. QED
      BY <3>1, <3>2
  <2>. QED
    BY <1>4, <2>1 DEF IsLoop
<1>6. Base32(data) = after[2 * Len(data)].text
  BY DEF Base32, While, NothingCut, next, GoesOn, CutTurn, Fill
<1>. HIDE DEF Loop
<1>7. after = Loop(after)
  BY <1>5
<1>. HIDE DEF after
<1>8. after = [i \in Nat |-> IF i = 0 THEN NothingCut ELSE next(after[i - 1])]
  BY <1>7 DEF Loop
<1>9. ASSUME NEW n \in Nat PROVE after[n + 1] = next(after[n])
  <2>1. n + 1 \in Nat /\ n + 1 # 0 /\ (n + 1) - 1 = n
    OBVIOUS
  <2>. QED
    BY <1>8, <2>1
<1>10. after[0] = NothingCut
  BY <1>8
<1>11. IsCutting(after, data)
  BY <1>9, <1>10 DEF IsCutting, next
<1>. QED
  BY <1>6, <1>11

LEMMA NothingIsCut ==
  ASSUME NEW data \in Seq(Byte)
  PROVE  IsCut(data, NothingCut) /\ Len(NothingCut.text) = 0
<1>. DEFINE s == NothingCut
<1>1. /\ s.text = << >> /\ Len(s.text) = 0 /\ s.bits = 0 /\ s.buffer = 0 /\ s.next = 1
      /\ Len(data) \in Nat
  BY LenProperties DEF NothingCut
<1>2. s \in Cuttings
  BY NothingCutType
<1>. HIDE DEF s
<1>3. Tells(s.text, 5, data)
  BY <1>1 DEF Tells
<1>4. HasBits(data, 0, 0, 0)
  <2>1. 0 \in Exponents
    BY DEF Exponents
  <2>2. 2^0 \in Nat \ {0}
    BY <2>1, PowersOfTwo
  <2>. DEFINE p == 2^0
  <2>3. p \in Nat \ {0}
    BY <2>2
  <2>. HIDE DEF p
  <2>4. 0 \in 0 .. p - 1
    BY <2>3
  <2>. QED
    BY <2>4 DEF HasBits, p
<1>5. HasBits(data, 5 * Len(s.text), s.buffer, s.bits)
  <2>1. 5 * Len(s.text) = 0
    BY <1>1
  <2>. QED
    BY <1>1, <1>4, <2>1
<1>6. 5 * Len(s.text) + s.bits = 8 * (s.next - 1) /\ s.next <= Len(data) + 1
  BY <1>1
<1>. QED
  BY <1>1, <1>2, <1>3, <1>5, <1>6 DEF IsCut, s

\* What has been cut after n turns.
LEMMA AfterTurns ==
  ASSUME NEW data \in Seq(Byte), NEW h, IsCutting(h, data)
  PROVE  \A n \in Nat : IsCut(data, h[n]) /\ (Len(h[n].text) = n \/ ~GoesOn(data, h[n]))
<1>. DEFINE G == {n \in Nat : IsCut(data, h[n]) /\ (Len(h[n].text) = n \/ ~GoesOn(data, h[n]))}
<1>1. 0 \in G
  BY NothingIsCut DEF IsCutting
<1>2. ASSUME NEW n \in Nat, n \in G PROVE n + 1 \in G
  <2>. DEFINE s == h[n]
              u == h[n + 1]
  <2>1. IsCut(data, s) /\ (Len(s.text) = n \/ ~GoesOn(data, s))
    BY <1>2
  <2>2. u = IF GoesOn(data, s) THEN CutTurn(data, s) ELSE s
    BY DEF IsCutting
  <2>. HIDE DEF s, u
  <2>3. IsCut(data, u) /\ (Len(u.text) = n + 1 \/ ~GoesOn(data, u))
    <3>1. CASE GoesOn(data, s)
      BY <2>1, <2>2, <3>1, TurnCuts
    <3>2. CASE ~GoesOn(data, s)
      BY <2>1, <2>2, <3>2
    <3>. QED
      BY <3>1, <3>2
  <2>4. n + 1 \in Nat
    OBVIOUS
  <2>. QED
    BY <2>3, <2>4 DEF u
<1>. HIDE DEF G
<1>3. \A n \in Nat : n \in G
  BY <1>1, <1>2, Induction
<1>. QED
  BY <1>3 DEF G

\* Twice as many turns as there are bytes are enough.
LEMMA CutToTheEnd ==
  ASSUME NEW data \in Seq(Byte), NEW s, IsCut(data, s),
         Len(s.text) = 2 * Len(data) \/ ~GoesOn(data, s)
  PROVE  s.text \in Seq(Nat) /\ Tells(s.text, 5, data)
         /\ 5 * Len(s.text) \in 8 * Len(data) .. 8 * Len(data) + 5 - 1
<1>. DEFINE n == s.next
            b == s.bits
            m == Len(s.text)
            total == Len(data)
<1>1. s.text \in Seq(Nat) /\ Tells(s.text, 5, data) /\ n \in Nat \ {0} /\ b \in 0 .. 7
  BY DEF IsCut, Cuttings
<1>2. m \in Nat /\ total \in Nat
  BY <1>1, LenProperties
<1>3. \/ 5 * m + b = 8 * (n - 1) /\ n <= total + 1
      \/ b = 0 /\ ~(n <= total) /\ 5 * m \in 8 * total .. 8 * total + 4
  BY DEF IsCut
<1>4. m = 2 * total \/ ~(b > 0 \/ n <= total)
  BY DEF GoesOn
<1>. HIDE DEF n, b, m, total
<1>5. 5 * m \in 8 * total .. 8 * total + 4
  <2>1. CASE b = 0 /\ ~(n <= total)
    BY <1>1, <1>2, <1>3, <2>1
  <2>2. CASE m = 2 * total /\ 5 * m + b = 8 * (n - 1) /\ n <= total + 1
    BY <1>1, <1>2, <2>2
  <2>. QED
    BY <1>1, <1>3, <1>4, <2>1, <2>2
<1>6. 8 * total + 5 - 1 = 8 * total + 4
  BY <1>2
<1>. QED
  BY <1>1, <1>5, <1>6 DEF m, total

\* Every bit of the data is in the text of base32_encode.
LEMMA Base32IsWhole ==
  ASSUME NEW data \in Seq(Byte)
  PROVE  Holds(Base32(data), 5, data)
<1>1. PICK h : IsCutting(h, data) /\ Base32(data) = h[2 * Len(data)].text
  BY TextIsCut
<1>. DEFINE n == 2 * Len(data)
            s == h[n]
<1>2. n \in Nat
  BY LenProperties
<1>3. IsCut(data, s) /\ (Len(s.text) = n \/ ~GoesOn(data, s))
  <2>. HIDE DEF n
  <2>. QED
    BY <1>1, <1>2, AfterTurns
<1>. HIDE DEF s
<1>4. s.text \in Seq(Nat) /\ Tells(s.text, 5, data)
      /\ 5 * Len(s.text) \in 8 * Len(data) .. 8 * Len(data) + 5 - 1
  BY <1>3, CutToTheEnd
<1>5. 5 \in 1 .. 8
  OBVIOUS
<1>6. Holds(s.text, 5, data)
  BY <1>4, <1>5, TellingHolds
<1>. QED
  BY <1>1, <1>6 DEF s

\* Whatever data are in the buffer, the texts shown of them hold every bit of them.
THEOREM TextsArePrinted == Spec => []TextsAreWhole
<1>1. ASSUME Inv PROVE TextsAreWhole
  <2>. DEFINE data == At(offset, Remaining)
  <2>1. /\ offset \in Nat /\ Remaining \in Nat /\ offset + Remaining <= Capacity
    BY <1>1, BufferOK DEF Inv, TypeOK, Remaining
  <2>2. data \in Seq(Byte)
    BY <1>1, <2>1, AtIsBytes
  <2>. HIDE DEF data
  <2>3. Holds(Base32(data), 5, data)
    BY <2>2, Base32IsWhole
  <2>4. LET text == Base64(data) IN
        /\ Len(text) % 4 = 0
        /\ \E n \in 0 .. Len(text) :
             /\ Holds(SubSeq(text, 1, n), 6, data)
             /\ \A i \in DOMAIN text : text[i] = Filler <=> i > n
    BY <2>2, Base64IsWhole
  <2>. QED
    BY <2>3, <2>4, Zenon DEF TextsAreWhole, data
<1>. QED
  BY <1>1, Invariance, PTL
=============================================================================
