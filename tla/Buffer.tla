------------------------------- MODULE Buffer -------------------------------
(***************************************************************************)
(* common/buffer.c and what it reads with (read.c, varint.c, bip32.c): a   *)
(* cursor over the data of a command, which are in the APDU buffer from    *)
(* OFFSET_CDATA on and may fill it; what is behind them is of a command or *)
(* an answer before.                                                       *)
(*                                                                         *)
(* A number is the sequence of its bytes, the most significant first.      *)
(***************************************************************************)
EXTENDS Naturals, SequencesExt

CONSTANTS
  Images,        \* what the APDU buffer may contain from OFFSET_CDATA on
  Capacity,      \* its length from there, which is the largest Lc
  SizeMax,       \* SIZE_MAX
  MaxBip32Path   \* MAX_BIP32_PATH

Byte == 0 .. 255

ASSUME BufferOK ==
  /\ Capacity \in Nat
  /\ SizeMax \in Nat /\ Capacity <= SizeMax
  /\ MaxBip32Path \in Nat /\ 1 + 4 * MaxBip32Path <= Capacity   \* 41 and 255 in the code
  /\ \A m \in Images : m \in Seq(Byte) /\ Len(m) = Capacity

VARIABLES
  memory,   \* the APDU buffer from OFFSET_CDATA on
  size,     \* buffer->size
  offset,   \* buffer->offset
  last      \* the last call: see Call

vars == <<memory, size, offset, last>>

\* "from" is the offset before the call, "reach" one past the last byte it looked at,
\* "value" what it has read, NoValue if it reads nothing.
Call(op, ok, reach, value) ==
  [op |-> op, ok |-> ok, from |-> offset, reach |-> reach, value |-> value]
NoValue == <<>>

\* size_t arithmetic
Plus(a, b) == IF a + b <= SizeMax THEN a + b ELSE a + b - (SizeMax + 1)

Remaining == size - offset
At(i, n)  == SubSeq(memory, i + 1, i + n)
Zeros(n)  == [i \in 1 .. n |-> 0]
-----------------------------------------------------------------------------
\* Mutant: one byte too many can be read.
CanReadOneMore(n) == Remaining + 1 >= n

\* buffer_can_read
CanRead(n) == Remaining >= n

\* Mutant: the sum is not checked for overflow.
SoughtUnchecked(n) == IF Plus(offset, n) > size THEN offset ELSE Plus(offset, n)

\* Where buffer_seek_cur leaves the offset, which is where it was if it fails.
Sought(n) == IF Plus(offset, n) < offset \/ Plus(offset, n) > size THEN offset
             ELSE Plus(offset, n)

\* The call is over; memory and size are the caller's.
Done(to, call) == offset' = to /\ last' = call /\ UNCHANGED <<memory, size>>

\* buffer_seek_set, _cur and _end
SeekSet(n) ==
  Done(IF n > size THEN offset ELSE n, Call("seek_set", n <= size, 0, NoValue))

SeekCur(n) ==
  Done(Sought(n), Call("seek_cur", Plus(offset, n) >= offset /\ Plus(offset, n) <= size, 0, NoValue))

SeekEnd(n) ==
  Done(IF n > size THEN offset ELSE size - n, Call("seek_end", n <= size, 0, NoValue))

\* buffer_read_u8, _u16, _u32 and _u64, as n = 1, 2, 4 and 8
ReadNumber(n, endianness) ==
  LET read == At(offset, n) IN
  IF CanRead(n)
  THEN Done(Sought(n), Call(endianness, TRUE, offset + n,
                            IF endianness = "BE" THEN read ELSE Reverse(read)))
  ELSE Done(offset, Call(endianness, FALSE, 0, Zeros(n)))

\* How many bytes of number follow a first byte in varint_read.
Follow(first) == CASE first = 253 -> 2 [] first = 254 -> 4 [] first = 255 -> 8 [] OTHER -> 0

\* buffer_read_varint
ReadVarint ==
  LET n  == Follow(memory[offset + 1])
      ok == Remaining >= 1 /\ Remaining >= n + 1
  IN IF ok
     THEN Done(Sought(n + 1),
               Call("varint", TRUE, offset + n + 1,
                    IF n = 0 THEN At(offset, 1) ELSE Reverse(At(offset + 1, n))))
     ELSE Done(offset, Call("varint", FALSE, IF Remaining >= 1 THEN offset + 1 ELSE 0, Zeros(8)))

\* Mutant: a path may have any number of numbers.
IsAnyLength(n) == n >= 1

\* The lengths of a path that bip32_path_read does not refuse.
IsPathLength(n) == n \in 1 .. MaxBip32Path

\* Mutant: bip32_path_read does not look for the end of the data.
PathReadOn(n) == IsPathLength(n)

\* bip32_path_read: whether there are data is asked before each number of the path, of
\* where the number starts.
PathRead(n) == IsPathLength(n) /\ \A i \in 0 .. n - 1 : 4 * i <= Remaining

\* One past the last number a path is read of before the data end.
Reached == offset + 4 * ((Remaining \div 4) + 1)

\* The handlers begin with buffer_read_u8, for the length of the path.
LengthRead == last.op \in {"BE", "LE"} /\ last.ok /\ last.from = 0 /\ offset = 1

\* buffer_read_bip32_path, which reads before it moves on and does not look whether it has.
\* The handlers call it next, and for as many numbers as that byte says.
ReadPath ==
  LET n == last.value[1] IN
  /\ LengthRead
  /\ \/ /\ PathRead(n)
        /\ Done(Sought(4 * n), Call("path", TRUE, offset + 4 * n, At(offset, 4 * n)))
     \/ /\ ~PathRead(n)
        /\ Done(offset, Call("path", FALSE, IF IsPathLength(n) THEN Reached ELSE 0, NoValue))

\* buffer_copy and buffer_move, into n bytes
Copy(n) ==
  IF Remaining > n THEN Done(offset, Call("copy", FALSE, 0, NoValue))
  ELSE Done(offset, Call("copy", TRUE, size, At(offset, Remaining)))

Move(n) ==
  IF Remaining > n THEN Done(offset, Call("move", FALSE, 0, NoValue))
  ELSE Done(Sought(n), Call("move", TRUE, size, At(offset, Remaining)))

\* The data of another command, any Lc of them; apdu_parser has seen that there are as many.
Receive ==
  /\ memory' \in Images /\ size' \in 0 .. Capacity
  /\ offset' = 0
  /\ last' = [op |-> "none", ok |-> FALSE, from |-> 0, reach |-> 0, value |-> NoValue]
-----------------------------------------------------------------------------
Init ==
  /\ memory \in Images /\ size = 0 /\ offset = 0
  /\ last = [op |-> "none", ok |-> FALSE, from |-> 0, reach |-> 0, value |-> NoValue]

Next ==
  \/ Receive
  \/ \E n \in 0 .. SizeMax : SeekSet(n) \/ SeekCur(n) \/ SeekEnd(n)
  \/ \E n \in {1, 2, 4, 8}, endianness \in {"BE", "LE"} : ReadNumber(n, endianness)
  \/ ReadVarint
  \/ ReadPath
  \/ \E n \in 0 .. Capacity : Copy(n) \/ Move(n)

Spec == Init /\ [][Next]_vars
-----------------------------------------------------------------------------
(* Properties.                                                              *)

\* The cursor stays inside the data, so that what remains is no huge unsigned number, and
\* the bytes looked at are bytes of the APDU buffer even if the data fill it: only paths are
\* read past the data, and those begin too early and are too short to leave the buffer.
TypeOK ==
  /\ memory \in Images
  /\ size \in 0 .. Capacity
  /\ offset \in 0 .. size
  /\ last.reach <= Capacity

\* A call that reads and succeeds returns the bytes between the offset it found and the one
\* it leaves, each once and in the order of their significance; one that fails leaves the
\* offset, and no read but that of a path looks behind the data.
ReadsAreWhole ==
  LET read == SubSeq(memory, last.from + 1, offset)
      n    == Len(last.value)
  IN
  /\ last.op = "BE" /\ last.ok => last.value = read
  /\ last.op = "LE" /\ last.ok => last.value = Reverse(read)
  /\ last.op = "varint" /\ last.ok =>
       Reverse(last.value) = SubSeq(read, Len(read) - n + 1, Len(read))
  /\ last.op # "path" => last.reach <= size
  /\ last.op # "none" /\ ~last.ok => offset = last.from

\* However short the data are, a path is never read further than one number behind them
\* (bip32_path_read): at most four bytes of a key's path are of a command or answer before.
PathsAreNearlyWhole ==
  last.op = "path" => last.reach <= size + 4

\* buffer.h says that buffer_read_bip32_path reads a path from the buffer and returns true
\* if it succeeds: then the path was in the data.
PathsAreWhole ==
  last.op = "path" /\ last.ok => last.reach <= size
=============================================================================
