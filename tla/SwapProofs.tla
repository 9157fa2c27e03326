----------------------------- MODULE SwapProofs -----------------------------
(***************************************************************************)
(* That a swap signs the payment that was asked for and no other, for any  *)
(* requests, headers and operations, and any length of a transaction.      *)
(***************************************************************************)
EXTENDS Swap, NumberProofs

\* While the application signs for the Exchange it has the parameters of the request.
HasTheRequest ==
  lib = "app" => request \in Requests /\ Copy(request).ok /\ values = Copy(request).values

\* A command has only been answered in the application.
SilentOutside == lib = "idle" => answer = Sw("none")

\* Where the parser stands behind the first operation, it has read the header of these data.
Read(c) ==
  c.offset # 0 => /\ c.offset >= 2 /\ c.offset <= Len(c.raw)
                  /\ c.header = c.raw[1] /\ c.raw[1] \in TxHeaders

ContextIsRead == ctx \in Context /\ Read(ctx)

Inv == /\ HasTheRequest /\ SilentOutside /\ ContextIsRead
       /\ SignsTheRequest /\ RefusesOnlyOthers
-----------------------------------------------------------------------------
(* Numbers.                                                                 *)

Byte == 0 .. ByteBase - 1

LEMMA BytesAreSequences ==
  ASSUME NEW s \in Bytes
  PROVE  /\ s \in Seq(Byte) /\ Len(s) \in Nat /\ DOMAIN s = 1 .. Len(s)
         /\ \A i \in DOMAIN s : s[i] \in Byte
<1>1. s \in Seq(Byte)
  BY DEF Bytes, Byte
<1>. QED
  BY <1>1, LenProperties, ElementOfSeq

LEMMA FrontAndLast ==
  ASSUME NEW s \in Bytes, s # <<>>
  PROVE  /\ Len(s) \in Nat \ {0} /\ Front(s) \in Bytes /\ Len(Front(s)) = Len(s) - 1
         /\ \A i \in 1 .. Len(s) - 1 : Front(s)[i] = s[i]
         /\ Last(s) \in Byte
<1>1. s \in Seq(Byte) /\ Bytes = Seq(Byte)
  BY DEF Bytes, Byte
<1>. QED
  BY <1>1, ButLast DEF Front, Last

\* F is what a loop over bytes computes that turns the number it has and the next byte into
\* a number.
IsByteLoop(F, turn) ==
  /\ F \in [Bytes -> Nat]
  /\ \A s \in Bytes : F[s] = IF s = <<>> THEN 0 ELSE turn[<<F[Front(s)], Last(s)>>]

LEMMA LoopOverBytes ==
  ASSUME NEW turn \in [Nat \X Byte -> Nat]
  PROVE  \E F : IsByteLoop(F, turn)
<1>1. PICK F : IsSequenceLoop(F, Byte, Nat, 0, turn)
  BY SequenceRecursion
<1>2. Bytes = Seq(Byte)
  BY DEF Bytes, Byte
<1>3. IsByteLoop(F, turn)
  BY <1>1, <1>2 DEF IsSequenceLoop, IsByteLoop, Front, Last
<1>. QED
  BY <1>3

\* The equation of the powers has a solution.
LEMMA PowersTurn ==
  ASSUME NEW n \in Nat
  PROVE  Powers[n] = IF n = 0 THEN 1 ELSE Powers[n - 1] * ByteBase
<1>. DEFINE step == [p \in Nat \X Nat |-> p[2] * ByteBase]
            Loop(f) == [k \in Nat |-> IF k = 0 THEN 1 ELSE f[k - 1] * ByteBase]
<1>1. step \in [Nat \X Nat -> Nat]
  <2>1. ASSUME NEW v \in Nat PROVE v * ByteBase \in Nat
    BY SwapOK, Product
  <2>. QED
    BY <2>1
<1>2. ASSUME NEW k \in Nat, NEW v \in Nat PROVE step[<<k, v>>] = v * ByteBase
  OBVIOUS
<1>. HIDE DEF step
<1>3. PICK h : IsLoop(h, Nat, 1, step)
  BY <1>1, PrimitiveRecursion
<1>4. h = Loop(h)
  <2>1. ASSUME NEW k \in Nat
        PROVE  h[k] = IF k = 0 THEN 1 ELSE h[k - 1] * ByteBase
    <3>1. CASE k = 0
      BY <1>3, <3>1 DEF IsLoop
    <3>2. CASE k # 0
      <4>1. PICK j \in Nat : k = j + 1
        <5>1. k - 1 \in Nat /\ k = (k - 1) + 1
          BY <3>2
        <5>. QED
          BY <5>1
      <4>2. k - 1 = j /\ h[j] \in Nat /\ h[j + 1] = step[<<j + 1, h[j]>>]
        BY <1>3, <4>1 DEF IsLoop
      <4>3. step[<<j + 1, h[j]>>] = h[j] * ByteBase
        BY <1>2, <4>2
      <4>. QED
        BY <3>2, <4>1, <4>2, <4>3
    <3>. QED
      BY <3>1, <3>2
  <2>. QED
    BY <1>3, <2>1 DEF IsLoop
<1>5. Powers = CHOOSE f : f = Loop(f)
  BY DEF Powers
<1>. HIDE DEF Loop
<1>6. (CHOOSE f : f = Loop(f)) = Loop(CHOOSE f : f = Loop(f))
  BY <1>4
<1>7. Powers = Loop(Powers)
  BY <1>5, <1>6
<1>. QED
  BY <1>7 DEF Loop

LEMMA PowersGrow ==
  \A n \in Nat : /\ Powers[n] \in Nat /\ Powers[n] # 0 /\ Powers[n + 1] = Powers[n] * ByteBase
                 /\ \A m \in 0 .. n : Powers[m] <= Powers[n]
<1>. DEFINE S == {n \in Nat : /\ Powers[n] \in Nat /\ Powers[n] # 0
                              /\ \A m \in 0 .. n : Powers[m] \in Nat /\ Powers[m] <= Powers[n]}
<1>0. \A n \in Nat : Powers[n + 1] = Powers[n] * ByteBase
  <2>1. ASSUME NEW n \in Nat PROVE n + 1 \in Nat /\ n + 1 # 0 /\ (n + 1) - 1 = n
    OBVIOUS
  <2>. QED
    BY <2>1, PowersTurn
<1>1. 0 \in S
  <2>1. Powers[0] = 1
    BY PowersTurn
  <2>. QED
    BY <2>1
<1>2. ASSUME NEW n \in Nat, n \in S PROVE n + 1 \in S
  <2>. PICK p \in Nat : p = Powers[n]
    BY <1>2
  <2>. PICK base \in Nat : base = ByteBase /\ base > 0
    BY SwapOK
  <2>1. p # 0 /\ \A m \in 0 .. n : Powers[m] \in Nat /\ Powers[m] <= p
    BY <1>2
  <2>2. Powers[n + 1] = p * base /\ p * base \in Nat
    BY <1>0, Product
  <2>3. p * base >= p
    BY <2>1
  <2>4. ASSUME NEW m \in 0 .. n + 1 PROVE Powers[m] \in Nat /\ Powers[m] <= p * base
    <3>1. CASE m = n + 1
      BY <2>2, <3>1
    <3>2. CASE m # n + 1
      <4>1. m \in 0 .. n
        BY <3>2
      <4>2. Powers[m] \in Nat /\ Powers[m] <= p
        BY <2>1, <4>1
      <4>. QED
        BY <2>2, <2>3, <4>2
    <3>. QED
      BY <3>1, <3>2
  <2>5. p * base # 0
    BY <2>1, <2>2, <2>3
  <2>. QED
    BY <2>2, <2>4, <2>5
<1>. HIDE DEF S
<1>3. \A n \in Nat : n \in S
  BY <1>1, <1>2, Induction
<1>. QED
  BY <1>0, <1>3 DEF S

LEMMA WidthType == Width \in Nat /\ Width # 0
BY PowersGrow, SwapOK DEF Width

\* The two loops are recursive functions; that their equations have a solution...
LEMMA BigEndianTurns ==
  ASSUME NEW s \in Bytes
  PROVE  BigEndian[s] = IF s = <<>> THEN 0 ELSE BigEndian[Front(s)] * ByteBase + Last(s)
<1>. DEFINE turn == [p \in Nat \X Byte |-> p[1] * ByteBase + p[2]]
            Loop(f) == [r \in Bytes |-> IF r = <<>> THEN 0 ELSE f[Front(r)] * ByteBase + Last(r)]
<1>1. turn \in [Nat \X Byte -> Nat]
  <2>1. ASSUME NEW v \in Nat, NEW b \in Byte PROVE v * ByteBase + b \in Nat
    BY SwapOK, Product DEF Byte
  <2>. HIDE DEF Byte
  <2>. QED
    BY <2>1
<1>2. ASSUME NEW v \in Nat, NEW b \in Byte PROVE turn[<<v, b>>] = v * ByteBase + b
  OBVIOUS
<1>. HIDE DEF turn
<1>3. PICK F : IsByteLoop(F, turn)
  BY <1>1, LoopOverBytes
<1>4. F = Loop(F)
  <2>1. ASSUME NEW r \in Bytes
        PROVE  F[r] = IF r = <<>> THEN 0 ELSE F[Front(r)] * ByteBase + Last(r)
    <3>1. CASE r = <<>>
      BY <1>3, <3>1 DEF IsByteLoop
    <3>2. CASE r # <<>>
      <4>1. F[Front(r)] \in Nat /\ Last(r) \in Byte
        BY <1>3, <3>2, FrontAndLast DEF IsByteLoop
      <4>2. F[r] = turn[<<F[Front(r)], Last(r)>>]
        BY <1>3, <3>2 DEF IsByteLoop
      <4>. QED
        BY <1>2, <3>2, <4>1, <4>2
    <3>. QED
      BY <3>1, <3>2
  <2>. QED
    BY <1>3, <2>1 DEF IsByteLoop
<1>5. BigEndian = CHOOSE f : f = Loop(f)
  BY DEF BigEndian
<1>. HIDE DEF Loop
<1>6. (CHOOSE f : f = Loop(f)) = Loop(CHOOSE f : f = Loop(f))
  BY <1>4
<1>7. BigEndian = Loop(BigEndian)
  BY <1>5, <1>6
<1>. QED
  BY <1>7 DEF Loop

LEMMA AccumulatedTurns ==
  ASSUME NEW s \in Bytes
  PROVE  Accumulated[s] = IF s = <<>> THEN 0 ELSE ((Accumulated[Front(s)] * ByteBase) % Width) + Last(s)
<1>. DEFINE turn == [p \in Nat \X Byte |-> ((p[1] * ByteBase) % Width) + p[2]]
            Loop(f) == [r \in Bytes |-> IF r = <<>> THEN 0 ELSE ((f[Front(r)] * ByteBase) % Width) + Last(r)]
<1>1. turn \in [Nat \X Byte -> Nat]
  <2>1. ASSUME NEW v \in Nat, NEW b \in Byte PROVE ((v * ByteBase) % Width) + b \in Nat
    <3>1. v * ByteBase \in Nat /\ b \in Nat
      BY SwapOK, Product DEF Byte
    <3>2. (v * ByteBase) % Width \in Nat
      BY <3>1, WidthType, Remainder
    <3>. QED
      BY <3>1, <3>2
  <2>. HIDE DEF Byte
  <2>. QED
    BY <2>1
<1>2. ASSUME NEW v \in Nat, NEW b \in Byte PROVE turn[<<v, b>>] = ((v * ByteBase) % Width) + b
  OBVIOUS
<1>. HIDE DEF turn
<1>3. PICK F : IsByteLoop(F, turn)
  BY <1>1, LoopOverBytes
<1>4. F = Loop(F)
  <2>1. ASSUME NEW r \in Bytes
        PROVE  F[r] = IF r = <<>> THEN 0 ELSE ((F[Front(r)] * ByteBase) % Width) + Last(r)
    <3>1. CASE r = <<>>
      BY <1>3, <3>1 DEF IsByteLoop
    <3>2. CASE r # <<>>
      <4>1. F[Front(r)] \in Nat /\ Last(r) \in Byte
        BY <1>3, <3>2, FrontAndLast DEF IsByteLoop
      <4>2. F[r] = turn[<<F[Front(r)], Last(r)>>]
        BY <1>3, <3>2 DEF IsByteLoop
      <4>. QED
        BY <1>2, <3>2, <4>1, <4>2
    <3>. QED
      BY <3>1, <3>2
  <2>. QED
    BY <1>3, <2>1 DEF IsByteLoop
<1>5. Accumulated = CHOOSE f : f = Loop(f)
  BY DEF Accumulated
<1>. HIDE DEF Loop
<1>6. (CHOOSE f : f = Loop(f)) = Loop(CHOOSE f : f = Loop(f))
  BY <1>4
<1>7. Accumulated = Loop(Accumulated)
  BY <1>5, <1>6
<1>. QED
  BY <1>7 DEF Loop

\* Bytes that are no more than a uint64_t has are not shifted out: the loop of the code
\* computes the number they are.
LEMMA NothingIsShiftedOut ==
  ASSUME NEW s \in Bytes
  PROVE  /\ BigEndian[s] \in Nat /\ BigEndian[s] < Powers[Len(s)]
         /\ Len(s) <= AmountBytes => Accumulated[s] = BigEndian[s]
<1>. DEFINE Good(r) == /\ BigEndian[r] \in Nat /\ BigEndian[r] < Powers[Len(r)]
                       /\ Len(r) <= AmountBytes => Accumulated[r] = BigEndian[r]
            S == {n \in Nat : \A r \in Bytes : Len(r) = n => Good(r)}
<1>1. 0 \in S
  <2>1. ASSUME NEW r \in Bytes, Len(r) = 0 PROVE Good(r)
    <3>1. r = <<>>
      BY <2>1, FrontAndLast
    <3>2. BigEndian[r] = 0 /\ Accumulated[r] = 0 /\ Powers[0] = 1
      BY <3>1, BigEndianTurns, AccumulatedTurns, PowersTurn
    <3>. QED
      BY <2>1, <3>2
  <2>. QED
    BY <2>1
<1>2. ASSUME NEW n \in Nat, n \in S PROVE n + 1 \in S
  <2>1. ASSUME NEW r \in Bytes, Len(r) = n + 1 PROVE Good(r)
    <3>1. r # <<>>
      <4>1. Len(<<>>) = 0
        OBVIOUS
      <4>. QED
        BY <2>1, <4>1
    <3>2. Front(r) \in Bytes /\ Len(Front(r)) = n /\ Last(r) \in Byte
      BY <2>1, <3>1, FrontAndLast
    <3>3. Good(Front(r))
      BY <1>2, <3>2
    <3>. PICK v \in Nat : v = BigEndian[Front(r)]
      BY <3>3
    <3>. PICK p \in Nat : p = Powers[n]
      BY PowersGrow
    <3>. PICK base \in Nat : base = ByteBase
      BY SwapOK
    <3>. PICK digit \in Nat : digit = Last(r) /\ digit < base
      BY <3>2, SwapOK DEF Byte
    <3>4. v < p /\ Powers[n + 1] = p * base
      BY <3>2, <3>3, PowersGrow
    <3>5. BigEndian[r] = v * base + digit
      BY <3>1, BigEndianTurns
    <3>6. v * base \in Nat /\ v * base + digit < p * base
      BY <3>4, Product, DigitAdded
    <3>7. CASE n + 1 <= AmountBytes
      <4>1. Accumulated[Front(r)] = v
        BY <3>2, <3>3, <3>7, SwapOK
      <4>2. Accumulated[r] = ((v * base) % Width) + digit
        BY <3>1, <4>1, AccumulatedTurns
      <4>3. Width \in Nat /\ p * base <= Width
        <5>1. n + 1 \in 0 .. AmountBytes /\ AmountBytes \in Nat
          BY <3>7, SwapOK
        <5>. QED
          BY <3>4, <5>1, PowersGrow DEF Width
      <4>4. v * base < Width
        <5>. PICK x \in Nat : x = v * base
          BY <3>6
        <5>. PICK y \in Nat : y = p * base
          BY Product
        <5>. QED
          BY <3>6, <4>3
      <4>5. (v * base) % Width = v * base
        BY <3>6, <4>3, <4>4, SmallRemainder
      <4>. QED
        BY <2>1, <3>4, <3>5, <3>6, <4>2, <4>5
    <3>. QED
      BY <2>1, <3>4, <3>5, <3>6, <3>7
  <2>. QED
    BY <2>1
<1>. HIDE DEF S
<1>3. \A n \in Nat : n \in S
  BY <1>1, <1>2, Induction
<1>4. Len(s) \in Nat
  BY BytesAreSequences
<1>. QED
  BY <1>3, <1>4 DEF S

LEMMA Converted ==
  ASSUME NEW s \in Bytes
  PROVE  /\ SwapStrToU64(s).ok <=> Len(s) <= AmountBytes
         /\ SwapStrToU64(s).ok => SwapStrToU64(s).value = BigEndian[s]
         /\ SwapStrToU64(s).value \in Nat /\ SwapStrToU64(s).value < Width
<1>1. Len(s) \in Nat /\ AmountBytes \in Nat
  BY BytesAreSequences, SwapOK
<1>2. CASE Len(s) > AmountBytes
  BY <1>1, <1>2, WidthType DEF SwapStrToU64
<1>3. CASE Len(s) <= AmountBytes
  <2>1. /\ BigEndian[s] \in Nat /\ BigEndian[s] < Powers[Len(s)]
        /\ Accumulated[s] = BigEndian[s]
    BY <1>3, NothingIsShiftedOut
  <2>2. Powers[Len(s)] \in Nat /\ Width \in Nat /\ Powers[Len(s)] <= Width
    <3>1. Len(s) \in 0 .. AmountBytes
      BY <1>1, <1>3
    <3>. QED
      BY <1>1, <3>1, PowersGrow DEF Width
  <2>3. BigEndian[s] < Width
    BY <2>1, <2>2
  <2>4. SwapStrToU64(s) = [ok |-> TRUE, value |-> Accumulated[s]]
    BY <1>1, <1>3 DEF SwapStrToU64
  <2>. QED
    BY <1>3, <2>1, <2>3, <2>4
<1>. QED
  BY <1>1, <1>2, <1>3
-----------------------------------------------------------------------------
(* The parser and the check.                                                *)

LEMMA ItemsAreNotNil == Nil \notin TxHeaders /\ Nil \notin TxOperations
BY SwapOK

\* The header is at the beginning of the data.
Headed(c) == c.offset = 0 => c.raw # <<>> /\ Head(c.raw) \in TxHeaders
NextOf(c) == IF c.offset = 0 THEN 2 ELSE c.offset + 1

\* What parse_tx_xdr leaves, field by field.
LEMMA ParseFields ==
  ASSUME NEW c \in Context
  PROVE  /\ Parse(c).ok <=>
              Headed(c) /\ NextOf(c) <= Len(c.raw) /\ c.raw[NextOf(c)] \in TxOperations
         /\ Parse(c).ctx.tx = c.tx /\ Parse(c).ctx.raw = c.raw
         /\ Parse(c).ctx.header = IF c.offset # 0 THEN c.header
                                  ELSE IF Headed(c) THEN Head(c.raw) ELSE Nil
         /\ Parse(c).ctx.details = IF Parse(c).ok THEN c.raw[NextOf(c)] ELSE Nil
         /\ Parse(c).ctx.offset = IF Parse(c).ok THEN NextOf(c) ELSE c.offset
<1>1. Parse(c).ok <=> Headed(c) /\ NextOf(c) <= Len(c.raw) /\ c.raw[NextOf(c)] \in TxOperations
  BY Zenon DEF Parse, Headed, NextOf
<1>2. Parse(c).ctx.tx = c.tx /\ Parse(c).ctx.raw = c.raw
  BY DEF Parse, Context
<1>3. Parse(c).ctx.header = IF c.offset # 0 THEN c.header
                           ELSE IF Headed(c) THEN Head(c.raw) ELSE Nil
  BY DEF Parse, Context, Headed
<1>4. Parse(c).ctx.details = IF Parse(c).ok THEN c.raw[NextOf(c)] ELSE Nil
  BY <1>1 DEF Parse, Context, Headed, NextOf
<1>5. Parse(c).ctx.offset = IF Parse(c).ok THEN NextOf(c) ELSE c.offset
  BY <1>1 DEF Parse, Context, Headed, NextOf
<1>. QED
  BY <1>1, <1>2, <1>3, <1>4, <1>5

LEMMA ContextFields ==
  ASSUME NEW c \in Context
  PROVE  /\ c.tx \in BOOLEAN /\ c.raw \in Seq(Item) /\ c.offset \in Nat
         /\ c.header \in TxHeaders \cup {Nil} /\ c.details \in TxOperations \cup {Nil}
BY DEF Context

\* After a success the details are an operation of the data, the second item if the parser
\* began at the header, and the header is the first item.
LEMMA ParsedIsSent ==
  ASSUME NEW c \in Context, Read(c), Parse(c).ok
  PROVE  /\ NextOf(c) \in 2 .. Len(c.raw)
         /\ c.raw[1] \in TxHeaders /\ c.raw[NextOf(c)] \in TxOperations
         /\ Parse(c).ctx.header = c.raw[1] /\ Parse(c).ctx.details = c.raw[NextOf(c)]
<1>1. c.raw \in Seq(Item) /\ c.offset \in Nat
  BY ContextFields
<1>2. NextOf(c) \in 2 .. Len(c.raw) /\ c.raw[NextOf(c)] \in TxOperations
  BY <1>1, ParseFields DEF Read, NextOf
<1>3. c.raw[1] \in TxHeaders /\ Parse(c).ctx.header = c.raw[1]
  BY <1>1, ParseFields DEF Read, Headed
<1>. QED
  BY <1>2, <1>3, ParseFields

\* The parser leaves what it has read where it reads on.
LEMMA ParseKeepsRead ==
  ASSUME NEW c \in Context, Read(c)
  PROVE  Parse(c).ctx \in Context /\ Read(Parse(c).ctx)
<1>1. /\ c.tx \in BOOLEAN /\ c.raw \in Seq(Item) /\ c.offset \in Nat
      /\ c.header \in TxHeaders \cup {Nil} /\ c.details \in TxOperations \cup {Nil}
  BY ContextFields
<1>2. /\ Parse(c).ctx.tx = c.tx /\ Parse(c).ctx.raw = c.raw
      /\ Parse(c).ctx.header \in TxHeaders \cup {Nil}
      /\ Parse(c).ctx.details \in TxOperations \cup {Nil}
      /\ Parse(c).ctx.offset \in Nat
  BY <1>1, ParseFields DEF Headed, NextOf
<1>3. Parse(c).ctx = [tx |-> Parse(c).ctx.tx, raw |-> Parse(c).ctx.raw,
                     offset |-> Parse(c).ctx.offset, header |-> Parse(c).ctx.header,
                     details |-> Parse(c).ctx.details]
  BY DEF Parse, Context
<1>4. Parse(c).ctx \in Context
  BY <1>1, <1>2, <1>3 DEF Context
<1>5. CASE Parse(c).ok
  <2>1. Parse(c).ctx.offset = NextOf(c)
    BY <1>5, ParseFields
  <2>. QED
    BY <1>1, <1>2, <1>4, <1>5, <2>1, ParsedIsSent DEF Read
<1>6. CASE ~Parse(c).ok
  <2>1. Parse(c).ctx.offset = c.offset
    BY <1>6, ParseFields
  <2>. QED
    BY <1>1, <1>2, <1>4, <2>1, ParseFields DEF Read
<1>. QED
  BY <1>5, <1>6

\* swap_check asks for what the Exchange asked for.
LEMMA ChecksTheRequest ==
  ASSUME HasTheRequest, lib = "app", NEW c, NEW data, NEW k \in 2 .. Len(data),
         data[1] \in TxHeaders, data[k] \in TxOperations,
         c.header = data[1], c.details = data[k]
  PROVE  SwapCheck(c) <=> IsPayment(data, k, request)
<1>1. /\ request.amount \in Bytes /\ request.fee \in Bytes /\ Copy(request).ok
      /\ values = Copy(request).values
  BY SwapOK DEF HasTheRequest, Request
<1>2. SwapStrToU64(request.amount).ok /\ SwapStrToU64(request.fee).ok
  BY <1>1 DEF Copy
<1>3. values.amount = BigEndian[request.amount] /\ values.fee = BigEndian[request.fee]
  BY <1>1, <1>2, Converted DEF Copy
<1>4. values.destination = request.destination /\ values.memo = request.memo
  BY <1>1 DEF Copy
<1>. QED
  BY <1>3, <1>4 DEF SwapCheck, IsPayment
-----------------------------------------------------------------------------
(* The commands.                                                            *)

\* The data of context c are answered with what they are worth.
LEMMA FinishKeeps ==
  ASSUME Inv, lib = "app", NEW c \in Context, Read(c), Finish(c),
         extended' \/ c.offset = 0
  PROVE  Inv'
<1>1. UNCHANGED <<lib, values, request>>
  BY DEF Finish, Reply
<1>2. HasTheRequest' /\ SilentOutside'
  BY <1>1 DEF Inv, HasTheRequest, SilentOutside
<1>3. ContextIsRead'
  <2>1. ctx' \in {c, Parse(c).ctx}
    BY DEF Finish, Reply
  <2>. QED
    BY <2>1, ParseKeepsRead DEF ContextIsRead
<1>4. CASE answer'.status \notin {"signature", "SWAP_CHECKING_FAIL"}
  BY <1>2, <1>3, <1>4 DEF Inv, SignsTheRequest, RefusesOnlyOthers
<1>5. CASE answer'.status \in {"signature", "SWAP_CHECKING_FAIL"}
  <2>1. /\ Parse(c).ok /\ answer'.of = c.raw
        /\ answer'.status = "signature" <=> SwapCheck(Parse(c).ctx)
    BY <1>5 DEF Finish, Reply, Sw
  <2>2. /\ NextOf(c) \in 2 .. Len(c.raw)
        /\ SwapCheck(Parse(c).ctx) <=> IsPayment(c.raw, NextOf(c), request)
    BY <2>1, ParsedIsSent, ChecksTheRequest DEF Inv
  <2>3. c.raw \in Seq(Item) /\ (~extended' => NextOf(c) = 2)
    BY ContextFields DEF NextOf
  <2>4. SignsTheRequest'
    BY <1>1, <2>1, <2>2, <2>3 DEF SignsTheRequest
  <2>5. RefusesOnlyOthers'
    BY <1>1, <1>5, <2>1, <2>2, <2>3 DEF RefusesOnlyOthers
  <2>. QED
    BY <1>2, <1>3, <2>4, <2>5 DEF Inv
<1>. QED
  BY <1>4, <1>5

\* The contexts that a command may leave.
LEMMA ZeroIsRead == ZeroContext \in Context /\ Read(ZeroContext)
BY DEF ZeroContext, Context, Read

LEMMA ChunksAreItems ==
  ASSUME NEW chunk \in Chunks
  PROVE  chunk \in Seq(Item)
<1>1. CASE chunk = <<>>
  BY <1>1
<1>2. CASE chunk \in Pieces
  BY <1>2 DEF Pieces
<1>3. CASE chunk \in {<<h, o>> : h \in TxHeaders, o \in TxOperations}
  <2>1. PICK h \in TxHeaders, o \in TxOperations : chunk = <<h, o>>
    BY <1>3
  <2>2. h \in Item /\ o \in Item
    BY DEF Item
  <2>. QED
    BY <2>1, <2>2
<1>. QED
  BY <1>1, <1>2, <1>3 DEF Chunks

LEMMA ContextOf ==
  ASSUME NEW t \in BOOLEAN, NEW r \in Seq(Item), NEW o \in Nat, NEW h \in TxHeaders \cup {Nil},
         NEW d \in TxOperations \cup {Nil}
  PROVE  [tx |-> t, raw |-> r, offset |-> o, header |-> h, details |-> d] \in Context
BY DEF Context

LEMMA WithRaw ==
  ASSUME NEW c \in Context, NEW r
  PROVE  [c EXCEPT !.raw = r] = [tx |-> c.tx, raw |-> r, offset |-> c.offset, header |-> c.header,
                                 details |-> c.details]
BY DEF Context

LEMMA WithTxAndRaw ==
  ASSUME NEW c \in Context, NEW t \in BOOLEAN, NEW r
  PROVE  [c EXCEPT !.tx = t, !.raw = r] =
         [tx |-> t, raw |-> r, offset |-> c.offset, header |-> c.header, details |-> c.details]
<1>. DEFINE d == [c EXCEPT !.tx = t]
<1>1. /\ d \in Context /\ d.tx = t
      /\ d.offset = c.offset /\ d.header = c.header /\ d.details = c.details
  BY DEF Context
<1>2. [c EXCEPT !.tx = t, !.raw = r] = [d EXCEPT !.raw = r]
  BY DEF Context
<1>. HIDE DEF d
<1>. QED
  BY <1>1, <1>2, WithRaw

LEMMA FreshIsRead ==
  ASSUME NEW chunk \in Chunks
  PROVE  LET c == [ZeroContext EXCEPT !.tx = TRUE, !.raw = chunk]
         IN c \in Context /\ c.offset = 0 /\ Read(c)
<1>. DEFINE c == [tx |-> TRUE, raw |-> chunk, offset |-> 0, header |-> Nil, details |-> Nil]
<1>1. [ZeroContext EXCEPT !.tx = TRUE, !.raw = chunk] = c
  <2>1. ZeroContext.offset = 0 /\ ZeroContext.header = Nil /\ ZeroContext.details = Nil
    BY DEF ZeroContext
  <2>. QED
    BY <2>1, ZeroIsRead, WithTxAndRaw
<1>2. c \in Context
  BY ContextOf, ChunksAreItems
<1>3. c.offset = 0
  OBVIOUS
<1>. HIDE DEF c
<1>4. Read(c)
  BY <1>3 DEF Read
<1>. QED
  BY <1>1, <1>2, <1>3, <1>4

\* More data leave what was read where it was.
LEMMA LongerIsRead ==
  ASSUME NEW c0 \in Context, Read(c0), NEW chunk \in Chunks
  PROVE  LET c == [c0 EXCEPT !.raw = @ \o chunk]
         IN c \in Context /\ c.offset = c0.offset /\ Read(c)
<1>. DEFINE c == [tx |-> c0.tx, raw |-> c0.raw \o chunk, offset |-> c0.offset,
                  header |-> c0.header, details |-> c0.details]
<1>1. /\ c0.tx \in BOOLEAN /\ c0.raw \in Seq(Item) /\ c0.offset \in Nat
      /\ c0.header \in TxHeaders \cup {Nil} /\ c0.details \in TxOperations \cup {Nil}
  BY ContextFields
<1>2. [c0 EXCEPT !.raw = @ \o chunk] = c
  BY WithRaw
<1>3. chunk \in Seq(Item) /\ c0.raw \o chunk \in Seq(Item)
  BY <1>1, ChunksAreItems
<1>4. c \in Context
  BY <1>1, <1>3, ContextOf
<1>5. c.offset = c0.offset /\ c.raw = c0.raw \o chunk /\ c.header = c0.header
  OBVIOUS
<1>. HIDE DEF c
<1>6. Read(c)
  <2>1. CASE c0.offset = 0
    BY <1>5, <2>1 DEF Read
  <2>2. CASE c0.offset # 0
    <3>1. /\ c0.offset >= 2 /\ c0.offset <= Len(c0.raw)
          /\ c0.header = c0.raw[1] /\ c0.raw[1] \in TxHeaders
      BY <2>2 DEF Read
    <3>2. Len(c.raw) = Len(c0.raw) + Len(chunk) /\ c.raw[1] = c0.raw[1]
      BY <1>1, <1>3, <1>5, <3>1
    <3>. QED
      BY <1>1, <1>3, <1>5, <3>1, <3>2 DEF Read
  <2>. QED
    BY <2>1, <2>2
<1>. QED
  BY <1>2, <1>4, <1>5, <1>6

LEMMA FirstKeeps ==
  ASSUME Inv, SignTxFirst
  PROVE  Inv'
<1>1. PICK chunk \in Chunks : Finish([ZeroContext EXCEPT !.tx = TRUE, !.raw = chunk])
  BY DEF SignTxFirst
<1>. DEFINE c == [ZeroContext EXCEPT !.tx = TRUE, !.raw = chunk]
<1>2. c \in Context /\ c.offset = 0 /\ Read(c)
  BY FreshIsRead
<1>3. Finish(c) /\ lib = "app"
  BY <1>1 DEF SignTxFirst
<1>. HIDE DEF c
<1>. QED
  BY <1>2, <1>3, FinishKeeps

LEMMA NextPieceKeeps ==
  ASSUME Inv, SignTxNext
  PROVE  Inv'
<1>1. PICK chunk \in Pieces :
        \/ Reply(ctx, Sw("WRONG_TX_LENGTH"))
        \/ Reply(ctx, Sw("BAD_STATE"))
        \/ Finish([ctx EXCEPT !.raw = @ \o chunk])
  BY DEF SignTxNext
<1>2. lib = "app" /\ extended' = (extended \/ ctx.offset > 0)
  BY DEF SignTxNext
<1>3. CASE Reply(ctx, Sw("WRONG_TX_LENGTH")) \/ Reply(ctx, Sw("BAD_STATE"))
  BY <1>2, <1>3 DEF Reply, Sw, Inv, HasTheRequest, SilentOutside, ContextIsRead, SignsTheRequest,
     RefusesOnlyOthers
<1>4. CASE Finish([ctx EXCEPT !.raw = @ \o chunk])
  <2>. DEFINE c == [ctx EXCEPT !.raw = @ \o chunk]
  <2>1. ctx \in Context /\ Read(ctx) /\ chunk \in Chunks
    BY DEF Inv, ContextIsRead, Chunks
  <2>2. c \in Context /\ c.offset = ctx.offset /\ Read(c)
    BY <2>1, LongerIsRead
  <2>3. extended' \/ c.offset = 0
    <3>1. ctx.offset > 0 => extended'
      BY <1>2, Zenon
    <3>2. ctx.offset \in Nat
      BY <2>1, ContextFields
    <3>. QED
      BY <2>2, <3>1, <3>2
  <2>4. Finish(c)
    BY <1>4
  <2>. HIDE DEF c
  <2>. QED
    BY <1>2, <2>2, <2>3, <2>4, FinishKeeps
<1>. QED
  BY <1>1, <1>3, <1>4

LEMMA OtherRequestKeeps ==
  ASSUME Inv, OtherRequest
  PROVE  Inv'
BY ZeroIsRead DEF OtherRequest, Reply, Sw, Inv, HasTheRequest, SilentOutside, ContextIsRead,
   SignsTheRequest, RefusesOnlyOthers

LEMMA LeaveKeeps ==
  ASSUME Leave
  PROVE  Inv'
BY ZeroIsRead DEF Leave, Sw, Inv, HasTheRequest, SilentOutside, ContextIsRead,
   SignsTheRequest, RefusesOnlyOthers

\* A call that does not start the application.
LEMMA CallKeeps ==
  ASSUME Inv, NEW r, Call(r)
  PROVE  Inv'
BY DEF Call, Inv, HasTheRequest, SilentOutside, ContextIsRead, SignsTheRequest, RefusesOnlyOthers

LEMMA SignTransactionKeeps ==
  ASSUME Inv, SignTransaction
  PROVE  Inv'
<1>1. PICK q \in Requests :
        \/ Call(Result("sign", 0, Nil))
        \/ /\ Copy(q).ok /\ lib' = "app" /\ values' = Copy(q).values /\ request' = q
           /\ ctx' = ZeroContext /\ answer' = Sw("none")
  BY DEF SignTransaction
<1>2. CASE Call(Result("sign", 0, Nil))
  BY <1>2, CallKeeps
<1>3. CASE /\ Copy(q).ok /\ lib' = "app" /\ values' = Copy(q).values /\ request' = q
           /\ ctx' = ZeroContext /\ answer' = Sw("none")
  BY <1>3, ZeroIsRead DEF Sw, Inv, HasTheRequest, SilentOutside, ContextIsRead, SignsTheRequest,
     RefusesOnlyOthers
<1>. QED
  BY <1>1, <1>2, <1>3
-----------------------------------------------------------------------------
(* Types.                                                                   *)

\* Parameters that could be copied fit the globals.
LEMMA CopyFits ==
  ASSUME NEW q \in Requests, Copy(q).ok
  PROVE  /\ Copy(q).values \in Values
         /\ Copy(q).values.amount < Width /\ Copy(q).values.fee < Width
<1>1. /\ q.amount \in Bytes /\ q.fee \in Bytes /\ q.memo \in Bytes
      /\ q.destination \in Keys \cup LongAddresses
  BY SwapOK DEF Request
<1>2. q.destination \in Keys
  BY <1>1 DEF Copy
<1>. DEFINE amount == SwapStrToU64(q.amount).value
            fee == SwapStrToU64(q.fee).value
<1>3. amount \in Nat /\ amount < Width /\ fee \in Nat /\ fee < Width
  BY <1>1, Converted
<1>. HIDE DEF amount, fee
<1>4. Copy(q).values = [amount |-> amount, fee |-> fee, destination |-> q.destination,
                        memo |-> q.memo]
  BY DEF Copy, amount, fee
<1>. HIDE DEF Bytes
<1>. QED
  BY <1>1, <1>2, <1>3, <1>4 DEF Values

LEMMA NothingFits == ZeroValues \in Values /\ ZeroValues.amount < Width /\ ZeroValues.fee < Width
<1>1. <<>> \in Bytes
  BY DEF Bytes
<1>. HIDE DEF Bytes
<1>. QED
  BY <1>1, WidthType DEF ZeroValues, Values

\* What the memory and the answer are typed like.
Contained == ctx.offset <= Len(ctx.raw) /\ Len(ctx.raw) <= MaxItems
AnswerType == answer.status \in Statuses /\ answer.of \in Seq(Item)

LEMMA StatusType ==
  ASSUME NEW s \in Statuses
  PROVE  Sw(s).status \in Statuses /\ Sw(s).of \in Seq(Item)
BY DEF Sw

\* A parser that has read is within the data.
LEMMA ReadIsContained ==
  ASSUME NEW c \in Context, Read(c)
  PROVE  c.offset <= Len(c.raw)
BY ContextFields, LenProperties DEF Read

LEMMA FinishTyped ==
  ASSUME NEW c \in Context, Len(c.raw) <= MaxItems, Finish(c), ContextIsRead'
  PROVE  Contained' /\ AnswerType' /\ UNCHANGED <<lib, result, values, request>>
<1>1. UNCHANGED <<lib, result, values, request>>
  BY DEF Finish, Reply
<1>2. ctx' \in {c, Parse(c).ctx}
  BY DEF Finish, Reply
<1>3. ctx'.raw = c.raw
  BY <1>2, ParseFields
<1>4. Contained'
  BY <1>3, ReadIsContained DEF Contained, ContextIsRead
<1>5. \/ answer' \in {Sw("OK"), Sw("THROWN"), Sw("SIGNATURE_FAIL")}
      \/ answer' = [status |-> "SWAP_CHECKING_FAIL", of |-> c.raw]
      \/ answer' = [status |-> "signature", of |-> c.raw]
  BY DEF Finish, Reply
<1>6. AnswerType'
  BY <1>5, StatusType, ContextFields DEF Statuses, AnswerType
<1>. QED
  BY <1>1, <1>4, <1>6

LEMMA ChunksAreShort ==
  ASSUME NEW chunk \in Chunks
  PROVE  Len(chunk) <= MaxItems
<1>1. CASE chunk = <<>>
  BY <1>1, SwapOK
<1>2. CASE \E i \in Item : chunk = <<i>>
  BY <1>2, SwapOK
<1>3. CASE \E h \in TxHeaders, o \in TxOperations : chunk = <<h, o>>
  BY <1>3, SwapOK
<1>. QED
  BY <1>1, <1>2, <1>3 DEF Chunks, Pieces

\* A command leaves a context that fits and an answer.
LEMMA CommandTyped ==
  ASSUME Inv, Inv', Contained, AnswerType, SignTxFirst \/ SignTxNext \/ OtherRequest
  PROVE  Contained' /\ AnswerType' /\ UNCHANGED <<lib, result, values, request>>
<1>. ctx \in Context /\ Read(ctx) /\ ContextIsRead'
  BY DEF Inv, ContextIsRead
<1>1. CASE SignTxFirst
  <2>1. PICK chunk \in Chunks : Finish([ZeroContext EXCEPT !.tx = TRUE, !.raw = chunk])
    BY <1>1 DEF SignTxFirst
  <2>. DEFINE c == [ZeroContext EXCEPT !.tx = TRUE, !.raw = chunk]
  <2>2. c \in Context /\ c.raw = chunk
    BY FreshIsRead, ZeroIsRead DEF Context
  <2>3. Finish(c) /\ Len(c.raw) <= MaxItems
    BY <2>1, <2>2, ChunksAreShort
  <2>. HIDE DEF c
  <2>. QED
    BY <2>2, <2>3, FinishTyped
<1>2. CASE SignTxNext
  <2>1. PICK chunk \in Pieces :
          \/ Reply(ctx, Sw("WRONG_TX_LENGTH")) \/ Reply(ctx, Sw("BAD_STATE"))
          \/ Len(ctx.raw) + Len(chunk) <= MaxItems /\ Finish([ctx EXCEPT !.raw = @ \o chunk])
    BY <1>2 DEF SignTxNext
  <2>2. CASE Reply(ctx, Sw("WRONG_TX_LENGTH")) \/ Reply(ctx, Sw("BAD_STATE"))
    BY <2>2, StatusType DEF Reply, Contained, AnswerType, Statuses
  <2>3. CASE Len(ctx.raw) + Len(chunk) <= MaxItems /\ Finish([ctx EXCEPT !.raw = @ \o chunk])
    <3>. DEFINE c == [ctx EXCEPT !.raw = @ \o chunk]
    <3>1. chunk \in Chunks /\ chunk \in Seq(Item) /\ ctx.raw \in Seq(Item)
      BY ChunksAreItems, ContextFields DEF Chunks
    <3>2. c \in Context /\ c.raw = ctx.raw \o chunk
      BY <3>1, LongerIsRead, ContextFields DEF Context
    <3>3. Finish(c) /\ Len(c.raw) <= MaxItems
      BY <2>3, <3>1, <3>2
    <3>. HIDE DEF c
    <3>. QED
      BY <3>2, <3>3, FinishTyped
  <2>. QED
    BY <2>1, <2>2, <2>3
<1>3. CASE OtherRequest
  <2>1. ctx' = ZeroContext /\ answer' = Sw("OK") /\ UNCHANGED <<lib, result, values, request>>
    BY <1>3 DEF OtherRequest, Reply
  <2>. QED
    BY <2>1, StatusType, SwapOK DEF Contained, AnswerType, Statuses, ZeroContext
<1>. QED
  BY <1>1, <1>2, <1>3

ResultType ==
  result.call \in {"none", "address", "amount", "sign"} /\ result.returned \in {0, 1}

LEMMA TypeKept ==
  ASSUME TypeOK, Inv, Inv', [Next]_vars
  PROVE  TypeOK'
<1>. /\ lib \in {"idle", "app"} /\ ResultType
     /\ values \in Values /\ values.amount < Width /\ values.fee < Width
     /\ ctx \in Context /\ Contained /\ AnswerType
     /\ request \in Requests \cup {Nil} /\ extended \in BOOLEAN
  BY DEF TypeOK, ResultType, Contained, AnswerType
<1>. ctx' \in Context
  BY DEF Inv, ContextIsRead
<1>1. ASSUME NEW r, Call(r), r.call \in {"none", "address", "amount", "sign"},
             r.returned \in {0, 1}
      PROVE  TypeOK'
  BY <1>1 DEF Call, TypeOK, ResultType, Contained, AnswerType
<1>2. CASE CheckAddress \/ GetPrintableAmount
  <2>1. \E r : /\ Call(r) /\ r.call \in {"none", "address", "amount", "sign"}
               /\ r.returned \in {0, 1}
    <3>1. CASE CheckAddress
      <4>1. PICK n \in {0, 1} : Call(Result("address", n, Nil))
        BY <3>1 DEF CheckAddress
      <4>. QED
        BY <4>1 DEF Result
    <3>2. CASE GetPrintableAmount
      <4>1. PICK n \in {0, 1}, q \in Requests :
              \/ Call(Result("amount", n, SwapStrToU64(q.amount).value))
              \/ Call(Result("amount", n, Nil))
        BY <3>2 DEF GetPrintableAmount
      <4>. QED
        BY <4>1 DEF Result
    <3>. QED
      BY <1>2, <3>1, <3>2
  <2>. QED
    BY <1>1, <2>1
<1>3. CASE SignTransaction
  <2>1. PICK q \in Requests :
          \/ Call(Result("sign", 0, Nil))
          \/ /\ Copy(q).ok /\ lib' = "app" /\ values' = Copy(q).values /\ request' = q
             /\ ctx' = ZeroContext /\ answer' = Sw("none") /\ result' = NoResult
             /\ extended' = FALSE
    BY <1>3 DEF SignTransaction
  <2>2. CASE Call(Result("sign", 0, Nil))
    BY <1>1, <2>2 DEF Result
  <2>3. CASE /\ Copy(q).ok /\ lib' = "app" /\ values' = Copy(q).values /\ request' = q
             /\ ctx' = ZeroContext /\ answer' = Sw("none") /\ result' = NoResult
             /\ extended' = FALSE
    <3>1. Contained' /\ AnswerType' /\ ResultType'
      BY <2>3, StatusType, SwapOK
      DEF Contained, AnswerType, ResultType, Statuses, ZeroContext, NoResult, Result
    <3>2. values' \in Values /\ values'.amount < Width /\ values'.fee < Width
      BY <2>3, CopyFits
    <3>. QED
      BY <2>3, <3>1, <3>2 DEF TypeOK, Contained, AnswerType, ResultType
  <2>. QED
    BY <2>1, <2>2, <2>3
<1>4. CASE SignTxFirst \/ SignTxNext \/ OtherRequest
  <2>1. Contained' /\ AnswerType' /\ UNCHANGED <<lib, result, values, request>>
    BY <1>4, CommandTyped
  <2>2. extended' \in BOOLEAN
    BY <1>4, Zenon DEF SignTxFirst, SignTxNext, OtherRequest
  <2>. QED
    BY <2>1, <2>2 DEF TypeOK, Contained, AnswerType, ResultType
<1>5. CASE Leave
  <2>1. Contained' /\ AnswerType' /\ ResultType'
    BY <1>5, StatusType, SwapOK
    DEF Leave, Contained, AnswerType, ResultType, Statuses, ZeroContext, NoResult, Result
  <2>2. values' \in Values /\ values'.amount < Width /\ values'.fee < Width
    BY <1>5, NothingFits DEF Leave
  <2>. QED
    BY <1>5, <2>1, <2>2 DEF Leave, TypeOK, Contained, AnswerType, ResultType
<1>6. CASE UNCHANGED vars
  BY <1>6 DEF vars, TypeOK, ResultType, Contained, AnswerType
<1>. QED
  BY <1>2, <1>3, <1>4, <1>5, <1>6 DEF Next

LEMMA InitiallyTyped == Init => TypeOK
<1>. SUFFICES ASSUME Init PROVE TypeOK
  OBVIOUS
<1>1. Contained /\ AnswerType /\ ResultType
  BY StatusType, SwapOK
  DEF Init, Contained, AnswerType, ResultType, Statuses, ZeroContext, NoResult, Result
<1>2. values \in Values /\ values.amount < Width /\ values.fee < Width
  BY NothingFits DEF Init
<1>3. ctx \in Context
  BY ZeroIsRead DEF Init
<1>. QED
  BY <1>1, <1>2, <1>3 DEF Init, TypeOK, Contained, AnswerType, ResultType
-----------------------------------------------------------------------------
(* The specification.                                                       *)

LEMMA Initially == Init => Inv
BY ZeroIsRead DEF Init, Sw, Inv, HasTheRequest, SilentOutside, ContextIsRead, SignsTheRequest,
   RefusesOnlyOthers

LEMMA NextKeeps ==
  ASSUME Inv, [Next]_vars
  PROVE  Inv'
<1>1. CASE CheckAddress \/ GetPrintableAmount
  BY <1>1, CallKeeps DEF CheckAddress, GetPrintableAmount
<1>2. CASE UNCHANGED vars
  BY <1>2 DEF vars, Inv, HasTheRequest, SilentOutside, ContextIsRead, SignsTheRequest,
     RefusesOnlyOthers
<1>. QED
  BY <1>1, <1>2, SignTransactionKeeps, FirstKeeps, NextPieceKeeps, OtherRequestKeeps,
     LeaveKeeps DEF Next

\* The request, the parameters copied of it, and what the parser has read agree.
THEOREM Invariance == Spec => []Inv
BY Initially, NextKeeps, PTL DEF Spec

\* The types of the memory of a swap: the parser stays within what was sent, which stays
\* within tx_info.raw, and the amounts copied are those of a uint64_t.
THEOREM TypeCorrect == Spec => []TypeOK
<1>1. Init => TypeOK /\ Inv
  BY Initially, InitiallyTyped
<1>2. (TypeOK /\ Inv) /\ [Next]_vars => (TypeOK /\ Inv)'
  BY NextKeeps, TypeKept
<1>. QED
  BY <1>1, <1>2, PTL DEF Spec

\* What a swap signs is the payment that the Exchange asked for (swap_check).
THEOREM SignaturesAreRequested == Spec => []SignsTheRequest
BY Invariance, PTL DEF Inv

\* And that payment is never refused for being another.
THEOREM RequestsPass == Spec => []RefusesOnlyOthers
BY Invariance, PTL DEF Inv
=============================================================================
