---------------------------- MODULE BufferProofs ----------------------------
(***************************************************************************)
(* That the reads of a command stay within it and return what is there,    *)
(* for APDU buffers of any length, any contents and any width of size_t.   *)
(***************************************************************************)
EXTENDS Buffer, SequenceTheorems, TLAPS

Inv == TypeOK /\ last.from \in Nat /\ PathsAreNearlyWhole /\ ReadsAreWhole

\* What a call that leaves the cursor at "to" has read is what ReadsAreWhole says.
Faithful(call, to) ==
  LET read == SubSeq(memory, offset + 1, to)
      n    == Len(call.value)
  IN
  /\ call.op = "BE" /\ call.ok => call.value = read
  /\ call.op = "LE" /\ call.ok => call.value = Reverse(read)
  /\ call.op = "varint" /\ call.ok =>
       Reverse(call.value) = SubSeq(read, Len(read) - n + 1, Len(read))

\* And what it has looked at is where TypeOK and PathsAreNearlyWhole have it.
Bounded(call, to) ==
  /\ call.from = offset
  /\ call.reach \in Nat /\ call.reach <= size + 4 /\ call.reach <= Capacity
  /\ call.op # "path" => call.reach <= size
  /\ ~call.ok => to = offset
-----------------------------------------------------------------------------
(* The cursor.                                                              *)

LEMMA SoughtIsInside ==
  ASSUME Inv, NEW n \in Nat
  PROVE  Sought(n) \in 0 .. size
BY BufferOK DEF Inv, TypeOK, Sought, Plus

\* Where there are n bytes, the cursor moves past them: the sum does not overflow.
LEMMA SoughtIsPast ==
  ASSUME Inv, NEW n \in Nat, CanRead(n)
  PROVE  Sought(n) = offset + n
BY BufferOK DEF Inv, TypeOK, Sought, Plus, CanRead, Remaining

\* A cursor that fails to move is where it was.
LEMMA NotSought ==
  ASSUME Inv, NEW n \in Nat, ~(Plus(offset, n) >= offset /\ Plus(offset, n) <= size)
  PROVE  Sought(n) = offset
BY BufferOK DEF Inv, TypeOK, Sought, Plus

\* A call that leaves the cursor inside the data.
LEMMA DoneKeeps ==
  ASSUME Inv, NEW to \in 0 .. size, NEW call, Done(to, call),
         Faithful(call, to), Bounded(call, to)
  PROVE  Inv'
<1>1. memory' = memory /\ size' = size /\ offset' = to /\ last' = call
  BY DEF Done
<1>2. TypeOK'
  BY <1>1, BufferOK DEF Inv, TypeOK, Bounded
<1>3. last'.from \in Nat
  BY <1>1 DEF Inv, TypeOK, Bounded
<1>4. PathsAreNearlyWhole'
  BY <1>1 DEF PathsAreNearlyWhole, Bounded
<1>5. ReadsAreWhole'
  <2>1. last'.from = offset
    BY <1>1 DEF Bounded
  <2>2. /\ (last'.op # "path" => last'.reach <= size')
        /\ (last'.op # "none" /\ ~last'.ok => offset' = last'.from)
    BY <1>1, <2>1 DEF Bounded
  <2>. QED
    BY <1>1, <2>1, <2>2 DEF ReadsAreWhole, Faithful
<1>. QED
  BY <1>2, <1>3, <1>4, <1>5 DEF Inv
-----------------------------------------------------------------------------
(* Sequences.                                                               *)

\* The image in the APDU buffer is a sequence of bytes.
LEMMA MemoryIsBytes ==
  ASSUME Inv
  PROVE  memory \in Seq(Byte) /\ Len(memory) = Capacity
BY BufferOK DEF Inv, TypeOK

\* What is read inside the buffer is as long as was asked.
LEMMA AtIsBytes ==
  ASSUME Inv, NEW i \in Nat, NEW n \in Nat, i + n <= Capacity
  PROVE  At(i, n) \in Seq(Byte) /\ Len(At(i, n)) = n
<1>1. \A j \in i + 1 .. i + n : memory[j] \in Byte
  BY MemoryIsBytes, BufferOK
<1>2. /\ SubSeq(memory, i + 1, i + n) \in Seq(Byte)
      /\ Len(SubSeq(memory, i + 1, i + n)) = IF i + 1 <= i + n THEN (i + n) - (i + 1) + 1 ELSE 0
  BY <1>1, SubSeqProperties
<1>. QED
  BY <1>2 DEF At

LEMMA ReversedTwice ==
  ASSUME NEW S, NEW s \in Seq(S)
  PROVE  Reverse(Reverse(s)) = s
<1>1. Len(s) \in Nat /\ DOMAIN s = 1 .. Len(s) /\ s = [i \in 1 .. Len(s) |-> s[i]]
  OBVIOUS
<1>2. Reverse(s) \in Seq(S) /\ Len(Reverse(s)) = Len(s)
  BY <1>1 DEF Reverse
<1>3. \A i \in 1 .. Len(s) : Reverse(Reverse(s))[i] = s[i]
  BY <1>1, <1>2 DEF Reverse
<1>4. Reverse(Reverse(s)) = [i \in 1 .. Len(s) |-> Reverse(Reverse(s))[i]]
  BY <1>2 DEF Reverse
<1>. QED
  BY <1>1, <1>3, <1>4

\* The last n of the n + 1 bytes at i are the n bytes behind it.
LEMMA LastOf ==
  ASSUME Inv, NEW i \in Nat, NEW n \in Nat, i + n + 1 <= Capacity
  PROVE  SubSeq(At(i, n + 1), 2, n + 1) = At(i + 1, n)
<1>1. i + 1 \in 1 .. Len(memory) + 1 /\ i + (n + 1) \in i .. Len(memory)
  BY MemoryIsBytes, BufferOK
<1>. QED
  BY <1>1, MemoryIsBytes, SubSeqOfSubSeq DEF At
-----------------------------------------------------------------------------
(* The actions.                                                             *)

LEMMA SeekSetKeeps ==
  ASSUME Inv, NEW n \in Nat, SeekSet(n)
  PROVE  Inv'
<1>. DEFINE to == IF n > size THEN offset ELSE n
            call == Call("seek_set", n <= size, 0, NoValue)
<1>1. to \in 0 .. size /\ Done(to, call)
  BY BufferOK DEF Inv, TypeOK, SeekSet
<1>2. Faithful(call, to)
  BY DEF Faithful, Call
<1>3. Bounded(call, to)
  <2>1. call.from = offset /\ call.reach = 0
    BY DEF Call
  <2>2. call.ok <=> n <= size
    BY Zenon DEF Call
  <2>3. ~(n <= size) => to = offset
    BY DEF Inv, TypeOK
  <2>. HIDE DEF to, call
  <2>. QED
    BY <1>1, <2>1, <2>2, <2>3, BufferOK DEF Bounded, Inv, TypeOK
<1>. HIDE DEF to, call
<1>. QED
  BY <1>1, <1>2, <1>3, DoneKeeps

LEMMA SeekCurKeeps ==
  ASSUME Inv, NEW n \in Nat, SeekCur(n)
  PROVE  Inv'
<1>. DEFINE to == Sought(n)
            call == Call("seek_cur", Plus(offset, n) >= offset /\ Plus(offset, n) <= size,
                         0, NoValue)
<1>1. to \in 0 .. size /\ Done(to, call)
  BY SoughtIsInside DEF SeekCur
<1>2. Faithful(call, to)
  BY DEF Faithful, Call
<1>3. Bounded(call, to)
  <2>1. call.from = offset /\ call.reach = 0
    BY DEF Call
  <2>2. call.ok <=> Plus(offset, n) >= offset /\ Plus(offset, n) <= size
    BY Zenon DEF Call
  <2>3. ~(Plus(offset, n) >= offset /\ Plus(offset, n) <= size) => to = offset
    BY NotSought
  <2>. HIDE DEF to, call
  <2>. QED
    BY <1>1, <2>1, <2>2, <2>3, BufferOK DEF Bounded, Inv, TypeOK
<1>. HIDE DEF to, call
<1>. QED
  BY <1>1, <1>2, <1>3, DoneKeeps

LEMMA SeekEndKeeps ==
  ASSUME Inv, NEW n \in Nat, SeekEnd(n)
  PROVE  Inv'
<1>. DEFINE to == IF n > size THEN offset ELSE size - n
            call == Call("seek_end", n <= size, 0, NoValue)
<1>1. to \in 0 .. size /\ Done(to, call)
  BY BufferOK DEF Inv, TypeOK, SeekEnd
<1>2. Faithful(call, to)
  BY DEF Faithful, Call
<1>3. Bounded(call, to)
  <2>1. call.from = offset /\ call.reach = 0
    BY DEF Call
  <2>2. call.ok <=> n <= size
    BY Zenon DEF Call
  <2>3. ~(n <= size) => to = offset
    BY DEF Inv, TypeOK
  <2>. HIDE DEF to, call
  <2>. QED
    BY <1>1, <2>1, <2>2, <2>3, BufferOK DEF Bounded, Inv, TypeOK
<1>. HIDE DEF to, call
<1>. QED
  BY <1>1, <1>2, <1>3, DoneKeeps

LEMMA ReadNumberKeeps ==
  ASSUME Inv, NEW n \in {1, 2, 4, 8}, NEW endianness \in {"BE", "LE"}, ReadNumber(n, endianness)
  PROVE  Inv'
<1>1. CASE CanRead(n)
  <2>. DEFINE to == Sought(n)
              call == Call(endianness, TRUE, offset + n,
                           IF endianness = "BE" THEN At(offset, n) ELSE Reverse(At(offset, n)))
  <2>1. to = offset + n /\ to \in 0 .. size /\ Done(to, call)
    BY <1>1, SoughtIsPast, SoughtIsInside DEF ReadNumber
  <2>2. Faithful(call, to)
    <3>1. /\ call.op = endianness
          /\ call.value = IF endianness = "BE" THEN At(offset, n) ELSE Reverse(At(offset, n))
      BY DEF Call
    <3>2. At(offset, n) = SubSeq(memory, offset + 1, to)
      BY <2>1 DEF At
    <3>. HIDE DEF to, call
    <3>. QED
      BY <3>1, <3>2 DEF Faithful
  <2>3. Bounded(call, to)
    <3>1. call.from = offset /\ call.reach = offset + n /\ call.ok
      BY DEF Call
    <3>. HIDE DEF to, call
    <3>. QED
      BY <2>1, <3>1, BufferOK DEF Bounded, Inv, TypeOK
  <2>. HIDE DEF to, call
  <2>. QED
    BY <2>1, <2>2, <2>3, DoneKeeps
<1>2. CASE ~CanRead(n)
  <2>. DEFINE call == Call(endianness, FALSE, 0, Zeros(n))
  <2>1. offset \in 0 .. size /\ Done(offset, call)
    BY <1>2 DEF ReadNumber, Inv, TypeOK
  <2>2. Faithful(call, offset)
    BY DEF Faithful, Call
  <2>3. Bounded(call, offset)
    BY BufferOK DEF Bounded, Call, Inv, TypeOK
  <2>. HIDE DEF call
  <2>. QED
    BY <2>1, <2>2, <2>3, DoneKeeps
<1>. QED
  BY <1>1, <1>2

\* The number is what follows the first byte, the least significant byte first, or is that byte.
Number(n) == IF n = 0 THEN At(offset, 1) ELSE Reverse(At(offset + 1, n))

\* Reversed, it is the last of the bytes that were passed, or the only one.
LEMMA NumberIsRead ==
  ASSUME Inv, NEW n \in Nat, offset + n + 1 <= Capacity
  PROVE  LET read == At(offset, n + 1)
         IN  Reverse(Number(n)) = SubSeq(read, Len(read) - Len(Number(n)) + 1, Len(read))
<1>0. offset \in Nat
  BY DEF Inv, TypeOK
<1>1. At(offset, n + 1) \in Seq(Byte) /\ Len(At(offset, n + 1)) = n + 1
  BY <1>0, AtIsBytes
<1>2. CASE n = 0
  <2>1. Number(n) = At(offset, n + 1)
    BY <1>2 DEF Number
  <2>2. \A r \in Seq(Byte) : Len(r) = 1 => Reverse(r) = r /\ SubSeq(r, 1, 1) = r
    BY DEF Reverse
  <2>. HIDE DEF At
  <2>. QED
    BY <1>1, <1>2, <2>1, <2>2
<1>3. CASE n # 0
  <2>1. Number(n) = Reverse(At(offset + 1, n))
    BY <1>3 DEF Number
  <2>2. At(offset + 1, n) \in Seq(Byte) /\ Len(At(offset + 1, n)) = n
    BY <1>0, AtIsBytes
  <2>3. Reverse(Number(n)) = At(offset + 1, n)
    BY <2>1, <2>2, ReversedTwice
  <2>4. \A r \in Seq(Byte) : Len(Reverse(r)) = Len(r)
    BY DEF Reverse
  <2>5. Len(Number(n)) = n
    BY <2>1, <2>2, <2>4
  <2>6. SubSeq(At(offset, n + 1), 2, n + 1) = At(offset + 1, n)
    BY <1>0, LastOf
  <2>7. (n + 1) - n + 1 = 2
    OBVIOUS
  <2>. QED
    BY <1>1, <2>3, <2>5, <2>6, <2>7
<1>. QED
  BY <1>2, <1>3

\* There are the n bytes of the number behind the first one.
LEMMA VarintKeeps ==
  ASSUME Inv, NEW n \in Nat, CanRead(n + 1),
         Done(Sought(n + 1), Call("varint", TRUE, offset + n + 1, Number(n)))
  PROVE  Inv'
<1>. DEFINE to == Sought(n + 1)
            call == Call("varint", TRUE, offset + n + 1, Number(n))
<1>1. to = offset + (n + 1)
  BY SoughtIsPast
<1>2. to \in 0 .. size
  BY SoughtIsInside
<1>3. /\ call.op = "varint" /\ call.value = Number(n)
      /\ call.from = offset /\ call.reach = offset + n + 1 /\ call.ok
  BY DEF Call
<1>4. Done(to, call)
  OBVIOUS
<1>. HIDE DEF to, call
<1>5. offset \in Nat /\ offset + n + 1 <= Capacity
  BY <1>1, <1>2, BufferOK DEF Inv, TypeOK
<1>6. SubSeq(memory, offset + 1, to) = At(offset, n + 1)
  BY <1>1, <1>5 DEF At
<1>7. Faithful(call, to)
  BY <1>3, <1>5, <1>6, NumberIsRead DEF Faithful
<1>8. Bounded(call, to)
  BY <1>1, <1>2, <1>3, <1>5, BufferOK DEF Bounded, Inv, TypeOK
<1>. QED
  BY <1>2, <1>4, <1>7, <1>8, DoneKeeps

LEMMA ReadVarintKeeps ==
  ASSUME Inv, ReadVarint
  PROVE  Inv'
<1>1. PICK n \in Nat : n = Follow(memory[offset + 1])
  BY DEF Follow
<1>2. CASE Remaining >= 1 /\ Remaining >= n + 1
  <2>1. Done(Sought(n + 1), Call("varint", TRUE, offset + n + 1, Number(n)))
    BY <1>1, <1>2 DEF ReadVarint, Number
  <2>. QED
    BY <1>2, <2>1, VarintKeeps DEF CanRead
<1>3. CASE ~(Remaining >= 1 /\ Remaining >= n + 1)
  <2>. DEFINE call == Call("varint", FALSE, IF Remaining >= 1 THEN offset + 1 ELSE 0, Zeros(8))
  <2>1. offset \in 0 .. size /\ Done(offset, call)
    BY <1>1, <1>3 DEF ReadVarint, Inv, TypeOK
  <2>2. Faithful(call, offset)
    BY DEF Faithful, Call
  <2>3. Bounded(call, offset)
    <3>1. call.from = offset /\ call.reach = IF Remaining >= 1 THEN offset + 1 ELSE 0
      BY DEF Call
    <3>. HIDE DEF call
    <3>. QED
      BY <3>1, BufferOK DEF Bounded, Remaining, Inv, TypeOK
  <2>. HIDE DEF call
  <2>. QED
    BY <2>1, <2>2, <2>3, DoneKeeps
<1>. QED
  BY <1>2, <1>3

\* A path begins behind the first byte, and its last number ends inside the buffer: for as
\* many numbers as are allowed there is room, whether the data have them or not.
LEMMA PathStaysInside ==
  ASSUME Inv, offset = 1, NEW n, IsPathLength(n)
  PROVE  /\ n \in Nat /\ 1 + 4 * n \in Nat /\ 1 + 4 * n <= Capacity
         /\ PathRead(n) => 1 + 4 * n <= size + 4
         /\ ~PathRead(n) => /\ Reached \in Nat /\ Reached <= size + 4
                            /\ Reached <= 1 + 4 * n
<1>1. n \in 1 .. MaxBip32Path
  BY DEF IsPathLength
<1>2. size \in Nat /\ Remaining = size - 1 /\ Remaining \in Nat
  BY BufferOK DEF Inv, TypeOK, Remaining
<1>3. n \in Nat /\ 1 + 4 * n \in Nat /\ 1 + 4 * n <= Capacity
  BY <1>1, BufferOK
<1>4. ASSUME PathRead(n)
      PROVE  1 + 4 * n <= size + 4
  <2>1. 4 * (n - 1) <= Remaining
    BY <1>1, <1>4, BufferOK DEF PathRead
  <2>. QED
    BY <1>2, <1>3, <2>1
<1>5. ASSUME ~PathRead(n)
      PROVE  Reached \in Nat /\ Reached <= size + 4 /\ Reached <= 1 + 4 * n
  <2>1. PICK i \in 0 .. n - 1 : ~(4 * i <= Remaining)
    BY <1>5 DEF PathRead
  <2>2. Reached = 1 + 4 * ((Remaining \div 4) + 1)
    BY DEF Reached
  <2>. QED
    BY <1>2, <1>3, <2>1, <2>2
<1>. QED
  BY <1>3, <1>4, <1>5

LEMMA ReadPathKeeps ==
  ASSUME Inv, ReadPath
  PROVE  Inv'
<1>. DEFINE n == last.value[1]
<1>0. offset = 1 /\ 1 \in 0 .. size
  BY DEF ReadPath, LengthRead, Inv, TypeOK
<1>1. CASE PathRead(n)
  <2>. DEFINE to == Sought(4 * n)
              call == Call("path", TRUE, offset + 4 * n, At(offset, 4 * n))
  <2>0. IsPathLength(n)
    BY <1>1 DEF PathRead
  <2>1. 4 * n \in Nat /\ 1 + 4 * n <= Capacity /\ 1 + 4 * n <= size + 4
    BY <1>0, <1>1, <2>0, PathStaysInside
  <2>2. to \in 0 .. size /\ Done(to, call)
    BY <1>1, <2>1, SoughtIsInside DEF ReadPath
  <2>3. Faithful(call, to)
    BY DEF Faithful, Call
  <2>4. Bounded(call, to)
    <3>1. call.from = offset /\ call.reach = offset + 4 * n /\ call.op = "path" /\ call.ok
      BY DEF Call
    <3>. HIDE DEF to, call, n
    <3>. QED
      BY <1>0, <2>1, <3>1 DEF Bounded
  <2>. HIDE DEF to, call
  <2>. QED
    BY <2>2, <2>3, <2>4, DoneKeeps
<1>2. CASE ~PathRead(n)
  <2>. DEFINE call == Call("path", FALSE, IF IsPathLength(n) THEN Reached ELSE 0, NoValue)
  <2>1. offset \in 0 .. size /\ Done(offset, call)
    BY <1>0, <1>2 DEF ReadPath
  <2>2. Faithful(call, offset)
    BY DEF Faithful, Call
  <2>3. Bounded(call, offset)
    <3>1. /\ call.from = offset /\ call.op = "path"
          /\ call.reach = IF IsPathLength(n) THEN Reached ELSE 0
      BY DEF Call
    <3>2. CASE IsPathLength(n)
      <4>1. Reached \in Nat /\ Reached <= size + 4 /\ Reached <= 1 + 4 * n
        BY <1>0, <1>2, <3>2, PathStaysInside
      <4>2. 1 + 4 * n \in Nat /\ 1 + 4 * n <= Capacity
        BY <1>0, <3>2, PathStaysInside
      <4>3. Reached <= Capacity
        <5>. HIDE DEF n
        <5>. QED
          BY <4>1, <4>2, BufferOK
      <4>. HIDE DEF call, n
      <4>. QED
        BY <3>1, <3>2, <4>1, <4>3 DEF Bounded
    <3>3. CASE ~IsPathLength(n)
      <4>. HIDE DEF call, n
      <4>. QED
        BY <3>1, <3>3, BufferOK DEF Bounded, Inv, TypeOK
    <3>. QED
      BY <3>2, <3>3
  <2>. HIDE DEF call
  <2>. QED
    BY <2>1, <2>2, <2>3, DoneKeeps
<1>. QED
  BY <1>1, <1>2

\* buffer_copy and buffer_move read what remains, and ReadsAreWhole says nothing of their values.
LEMMA TakenKeeps ==
  ASSUME Inv, NEW op \in {"copy", "move"}, NEW to \in 0 .. size,
         \/ to = offset /\ Done(to, Call(op, FALSE, 0, NoValue))
         \/ Done(to, Call(op, TRUE, size, At(offset, Remaining)))
  PROVE  Inv'
<1>1. CASE to = offset /\ Done(to, Call(op, FALSE, 0, NoValue))
  <2>. DEFINE call == Call(op, FALSE, 0, NoValue)
  <2>1. Faithful(call, to)
    BY DEF Faithful, Call
  <2>2. Bounded(call, to)
    BY <1>1, BufferOK DEF Bounded, Call, Inv, TypeOK
  <2>. HIDE DEF call
  <2>. QED
    BY <1>1, <2>1, <2>2, DoneKeeps DEF call
<1>2. CASE Done(to, Call(op, TRUE, size, At(offset, Remaining)))
  <2>. DEFINE call == Call(op, TRUE, size, At(offset, Remaining))
  <2>1. Faithful(call, to)
    BY DEF Faithful, Call
  <2>2. Bounded(call, to)
    <3>1. call.from = offset /\ call.reach = size /\ call.ok
      BY DEF Call
    <3>. HIDE DEF call
    <3>. QED
      BY <3>1, BufferOK DEF Bounded, Inv, TypeOK
  <2>. HIDE DEF call
  <2>. QED
    BY <1>2, <2>1, <2>2, DoneKeeps DEF call
<1>. QED
  BY <1>1, <1>2

LEMMA CopyKeeps ==
  ASSUME Inv, NEW n \in Nat, Copy(n)
  PROVE  Inv'
BY TakenKeeps DEF Copy, Inv, TypeOK

LEMMA MoveKeeps ==
  ASSUME Inv, NEW n \in Nat, Move(n)
  PROVE  Inv'
<1>1. offset \in 0 .. size /\ Sought(n) \in 0 .. size
  BY SoughtIsInside DEF Inv, TypeOK
<1>. QED
  BY <1>1, TakenKeeps DEF Move

\* A command begins where nothing was read.
LEMMA ReceiveEstablishes ==
  ASSUME Receive
  PROVE  Inv'
<1>1. memory' \in Images /\ size' \in 0 .. Capacity /\ offset' = 0
  BY DEF Receive
<1>2. last'.op = "none" /\ ~last'.ok /\ last'.reach = 0 /\ last'.from = 0
  BY DEF Receive
<1>. QED
  BY <1>1, <1>2, BufferOK DEF Inv, TypeOK, PathsAreNearlyWhole, ReadsAreWhole
-----------------------------------------------------------------------------
(* The specification.                                                       *)

LEMMA Initially == Init => Inv
<1>. SUFFICES ASSUME Init PROVE Inv
  OBVIOUS
<1>1. memory \in Images /\ size = 0 /\ offset = 0
  BY DEF Init
<1>2. last.op = "none" /\ ~last.ok /\ last.reach = 0 /\ last.from = 0
  BY DEF Init
<1>. QED
  BY <1>1, <1>2, BufferOK DEF Inv, TypeOK, PathsAreNearlyWhole, ReadsAreWhole

\* Every call keeps the cursor inside the data and reads what is there.
THEOREM Invariance == Spec => []Inv
<1>1. ASSUME Inv, [Next]_vars PROVE Inv'
  <2>1. CASE Receive
    BY <2>1, ReceiveEstablishes
  <2>2. ASSUME NEW n \in 0 .. SizeMax, SeekSet(n) \/ SeekCur(n) \/ SeekEnd(n)
        PROVE  Inv'
    BY <1>1, <2>2, BufferOK, SeekSetKeeps, SeekCurKeeps, SeekEndKeeps
  <2>3. ASSUME NEW n \in {1, 2, 4, 8}, NEW endianness \in {"BE", "LE"}, ReadNumber(n, endianness)
        PROVE  Inv'
    BY <1>1, <2>3, ReadNumberKeeps
  <2>4. CASE ReadVarint
    BY <1>1, <2>4, ReadVarintKeeps
  <2>5. CASE ReadPath
    BY <1>1, <2>5, ReadPathKeeps
  <2>6. ASSUME NEW n \in 0 .. Capacity, Copy(n) \/ Move(n)
        PROVE  Inv'
    BY <1>1, <2>6, BufferOK, CopyKeeps, MoveKeeps
  <2>7. CASE UNCHANGED vars
    BY <1>1, <2>7 DEF vars, Inv, TypeOK, PathsAreNearlyWhole, ReadsAreWhole
  <2>. QED
    BY <1>1, <2>1, <2>2, <2>3, <2>4, <2>5, <2>6, <2>7 DEF Next
<1>. QED
  BY <1>1, Initially, PTL DEF Spec

\* The cursor of a command never leaves its data, whatever calls are made in whatever order
\* (buffer_seek_set, buffer_seek_cur, buffer_seek_end and the reads), and no byte behind the
\* APDU buffer is looked at, even if the data fill it: a path, the only thing that is read past
\* the data, begins at their second byte and has at most MAX_BIP32_PATH numbers.
THEOREM TypeCorrect == Spec => []TypeOK
BY Invariance, PTL DEF Inv

\* buffer_read_bip32_path never looks more than one number behind the data.
THEOREM PathsStayNear == Spec => []PathsAreNearlyWhole
BY Invariance, PTL DEF Inv

\* The reads of buffer.c, read.c and varint.c return the bytes the cursor passes, or leave it.
THEOREM ReadsReturnTheData == Spec => []ReadsAreWhole
BY Invariance, PTL DEF Inv
=============================================================================
