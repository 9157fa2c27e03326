-------------------------------- MODULE Values --------------------------------
(***************************************************************************)
(* What the user is shown of the bytes that were read: print_uint,         *)
(* print_amount and base64_encode of utils.c, base32_encode of             *)
(* common/base32.c.  They work on uint64_t, which are sequences of eight   *)
(* bytes here, or on data of any length, and write into char[].  A digit   *)
(* in base 32 or 64 is its value, and Filler is '='.                       *)
(***************************************************************************)
EXTENDS Buffer

AmountMaxLength           == 21
AmountWithCommasMaxLength == 24
Filler                    == 64

Characters == <<"0", "1", "2", "3", "4", "5", "6", "7", "8", "9">>

Refused    == [ok |-> FALSE, text |-> <<>>]
Printed(t) == [ok |-> TRUE, text |-> t]

IsNull(v) == \A i \in DOMAIN v : v[i] = 0

\* The quotient and the remainder of the division by ten.
DivTen[v \in Seq(Byte)] ==
  IF v = <<>> THEN [quotient |-> <<>>, digit |-> 0]
  ELSE LET high == DivTen[Front(v)]
           part == high.digit * 256 + Last(v)
       IN [quotient |-> Append(high.quotient, part \div 10), digit |-> part % 10]

\* "turn" as often as "more", at most n times.
While(start, more(_), turn(_), n) ==
  LET after[i \in Nat] ==
        IF i = 0 THEN start
        ELSE LET s == after[i - 1] IN IF more(s) THEN turn(s) ELSE s
  IN after[n]
-----------------------------------------------------------------------------
(* Numbers.  "text" is the buffer, which is filled from the last digit on,  *)
(* "rest" what d_val is then.                                               *)

\* Mutant: the loop stops at a single digit.
DigitsLost(v) ==
  While([text |-> <<>>, rest |-> v], LAMBDA s : ~IsNull(DivTen[s.rest].quotient),
        LAMBDA s : [text |-> Append(s.text, Characters[DivTen[s.rest].digit + 1]),
                    rest |-> DivTen[s.rest].quotient],
        AmountMaxLength)

DigitsOf(v) ==
  While([text |-> <<>>, rest |-> v], LAMBDA s : ~IsNull(s.rest),
        LAMBDA s : [text |-> Append(s.text, Characters[DivTen[s.rest].digit + 1]),
                    rest |-> DivTen[s.rest].quotient],
        AmountMaxLength)

\* print_uint, into length bytes
PrintUint(v, length) ==
  LET digits == DigitsOf(v) IN
  IF IsNull(v) THEN IF length < 2 THEN Refused ELSE Printed(<<"0">>)
  ELSE IF ~IsNull(digits.rest) \/ length <= Len(digits.text) THEN Refused
  ELSE Printed(Reverse(digits.text))

\* A turn of the loop of print_amount: a comma in front of every third digit but the first
\* three, a point in front of the first seven.
AmountTurn(s) ==
  LET n       == Len(s.text)
      grouped == s.text \o IF n >= 11 /\ n < AmountWithCommasMaxLength /\ (n - 11) % 4 = 0
                           THEN <<",">> ELSE <<>>
      divided == DivTen[s.rest]
  IN IF Len(grouped) >= AmountWithCommasMaxLength THEN [s EXCEPT !.full = TRUE]
     ELSE [s EXCEPT !.text = Append(grouped, Characters[divided.digit + 1])
                             \o IF Len(grouped) = 6 THEN <<".">> ELSE <<>>,
                    !.rest = divided.quotient]

\* The text from its first character on that is not a zero.
WithoutZeros(text) == SubSeq(text, SelectInSeq(text, LAMBDA c : c # "0"), Len(text))

Without(text, c) == IF text # <<>> /\ text[1] = c THEN Tail(text) ELSE text

\* Mutant: zeros are stripped in front of the point as well.
StrippedFurther(text) ==
  LET t == Without(WithoutZeros(text), ".")
  IN IF Len(t) > 1 /\ t[1] = "0" THEN WithoutZeros(t) ELSE t

\* The zeros at the end, and then the point; the text is still backwards.
Stripped(text) == Without(WithoutZeros(text), ".")

\* print_amount without an asset, into length bytes
PrintAmount(v, length) ==
  LET s == While([text |-> <<>>, rest |-> v, full |-> FALSE],
                 LAMBDA r : ~r.full /\ (~IsNull(r.rest) \/ Len(r.text) < 9), AmountTurn,
                 AmountWithCommasMaxLength)
      text == Reverse(Stripped(s.text))
  IN IF s.full \/ Len(text) >= length THEN Refused ELSE Printed(text)
-----------------------------------------------------------------------------
(* Data.                                                                    *)

\* Mutant: the last bits are dropped if they are fewer than a digit.
Base32Cut(data) ==
  While([next |-> 1, buffer |-> 0, bits |-> 0, text |-> <<>>],
        LAMBDA s : s.bits >= 5 \/ s.next <= Len(data),
        LAMBDA s :
          LET more == IF s.bits >= 5 THEN s
                      ELSE [s EXCEPT !.buffer = @ * 256 + data[s.next], !.bits = @ + 8, !.next = @ + 1]
              left == more.bits - 5
          IN [more EXCEPT !.text = Append(@, more.buffer \div 2^left), !.buffer = @ % 2^left,
                          !.bits = left],
        2 * Len(data)).text

\* base32_encode: of "buffer" only the low "bits" are kept, the others have been written.
Base32(data) ==
  LET fill(s) == IF s.bits >= 5 THEN s
                 ELSE IF s.next <= Len(data)
                 THEN [s EXCEPT !.buffer = @ * 256 + data[s.next], !.bits = @ + 8, !.next = @ + 1]
                 ELSE [s EXCEPT !.buffer = @ * 2^(5 - s.bits), !.bits = 5]
      turn(s) == LET f    == fill(s)
                     left == f.bits - 5
                 IN [f EXCEPT !.text = Append(@, f.buffer \div 2^left), !.buffer = @ % 2^left,
                              !.bits = left]
  IN While([next |-> 1, buffer |-> 0, bits |-> 0, text |-> <<>>],
           LAMBDA s : s.bits > 0 \/ s.next <= Len(data), turn, 2 * Len(data)).text

\* base64_encode: three bytes at a time, absent ones being zero; the digits of those are
\* then overwritten.
Base64(data) ==
  LET length    == 4 * ((Len(data) + 2) \div 3)
      octet(i)  == IF i <= Len(data) THEN data[i] ELSE 0
      triple(g) == octet(3 * g + 1) * 65536 + octet(3 * g + 2) * 256 + octet(3 * g + 3)
      fillers   == <<0, 2, 1>>[(Len(data) % 3) + 1]
  IN [j \in 1 .. length |->
        IF j > length - fillers THEN Filler
        ELSE (triple((j - 1) \div 4) \div 64^(3 - ((j - 1) % 4))) % 64]
-----------------------------------------------------------------------------
(* What these are to be: the number a text denotes, and the bits of data.   *)

\* v * 10 + carry, in as many bytes.
TimesTen[v \in Seq(Byte)] ==
  [carry \in 0 .. 9 |->
     IF v = <<>> THEN <<>>
     ELSE LET part == Last(v) * 10 + carry
          IN Append(TimesTen[Front(v)][part \div 256], part % 256)]

Numerals == {Characters[i] : i \in DOMAIN Characters}
Symbols  == Numerals \cup {",", "."}
Value(c) == (CHOOSE i \in DOMAIN Characters : Characters[i] = c) - 1

\* In one byte more than a uint64_t has; only the numerals count.
Denotes[text \in Seq(Symbols)] ==
  IF text = <<>> THEN Zeros(9)
  ELSE IF Last(text) \notin Numerals THEN Denotes[Front(text)]
  ELSE TimesTen[Denotes[Front(text)]][Value(Last(text))]

\* The parts of an amount in front of the point and behind it.
PointAt(text)  == SelectInSeq(Append(text, "."), LAMBDA c : c = ".")
Whole(text)    == SubSeq(text, 1, PointAt(text) - 1)
Fraction(text) == SubSeq(text, PointAt(text) + 1, Len(text))

\* In groups of three, the first of which may be shorter.
Grouped(digits) ==
  \A i \in DOMAIN digits : digits[i] = "," <=> (i > 1 /\ (Len(digits) - i) % 4 = 3)

\* With all the seven digits of the fraction.
Stroops(text) == text \o [i \in 1 .. 7 - Len(Fraction(text)) |-> "0"]

BitsOf(digits, width) ==
  [i \in 1 .. width * Len(digits) |->
     (digits[((i - 1) \div width) + 1] \div 2^(width - 1 - ((i - 1) % width))) % 2]

\* These digits are the bits of the data, and zeros up to the next digit.
Holds(digits, width, data) ==
  LET bits == BitsOf(digits, width) IN
  /\ Len(bits) \in 8 * Len(data) .. 8 * Len(data) + width - 1
  /\ \A i \in DOMAIN bits :
       bits[i] = IF i <= 8 * Len(data) THEN BitsOf(data, 8)[i] ELSE 0
-----------------------------------------------------------------------------
(* Properties.                                                              *)

\* The last call has read a uint64_t.
ReadLong == last.op \in {"BE", "LE"} /\ last.ok /\ Len(last.value) = 8

DetailValueMaxLength == 89

\* Every amount and every number the protocol allows can be shown, and what is shown is
\* that number, to the last stroop: no digit is lost at a comma, at the point, at the end of
\* a buffer or with the zeros that are stripped, and the text is in its shortest form.
\* Amounts that as int64_t are negative are refused or shown as what they are unsigned.
AmountsAreExact ==
  ReadLong =>
    LET p == PrintAmount(last.value, DetailValueMaxLength) IN
    /\ last.value[1] < 128 => p.ok
    /\ p.ok => /\ Denotes[Stroops(p.text)] = <<0>> \o last.value
               /\ Whole(p.text) \in Seq(Numerals \cup {","}) /\ Grouped(Whole(p.text))
               /\ Fraction(p.text) \in Seq(Numerals) /\ Len(Fraction(p.text)) <= 7
               /\ Fraction(p.text) # <<>> => Last(p.text) # "0"
               /\ Whole(p.text) # <<>> /\ Last(p.text) # "."
               /\ p.text[1] = "0" => Len(Whole(p.text)) = 1

NumbersAreExact ==
  ReadLong =>
    LET p == PrintUint(last.value, DetailValueMaxLength) IN
    /\ p.ok /\ p.text \in Seq(Numerals) /\ Denotes[p.text] = <<0>> \o last.value
    /\ p.text[1] = "0" => Len(p.text) = 1

\* Keys, and data that are not printable, are shown in full: from the digits in base 32 and
\* in base 64, which only fillers follow, every bit of what remains to be read can be told,
\* and nothing else is in them.
TextsAreWhole ==
  LET data == At(offset, Remaining)
      text == Base64(data)
  IN /\ Holds(Base32(data), 5, data)
     /\ Len(text) % 4 = 0
     /\ \E n \in 0 .. Len(text) :
          /\ Holds(SubSeq(text, 1, n), 6, data)
          /\ \A i \in DOMAIN text : text[i] = Filler <=> i > n
=============================================================================
