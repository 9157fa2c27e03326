------------------------------ MODULE MCBuffer ------------------------------
(* The instances of Buffer and Values that TLC checks.                      *)
EXTENDS Values

\* APDU buffers whose bytes differ from one another, with the prefixes of all kinds of varint
\* and, in the first byte, the length of the longest path and of one that is too long.
Varints ==
  {<<3, 253, 2, 1, 254, 6, 7, 8, 9, 10, 11, 12, 13, 14, 15, 16, 17>>,
   <<255, 1, 2, 3, 4, 5, 6, 7, 8, 252, 11, 12, 13, 14, 253, 16, 17>>}

\* The path of three numbers 44'/148'/0', with what may follow it, and one of a number more.
Paths ==
  {<<3, 128, 0, 0, 44, 128, 0, 0, 148, 128, 0, 0, 0, 0, 0, 0, 2>>,
   <<4, 128, 0, 0, 44, 128, 0, 0, 148, 128, 0, 0, 0, 128, 0, 0, 1>>}

\* The largest amount and number, the smallest negative amount and zero, the last number
\* with 19 digits and the next one, 100 and 1 million, 0.05 and 123,456,789.1.
Limits ==
  {<<127, 255, 255, 255, 255, 255, 255, 255, 255, 255, 255, 255, 255, 255, 255, 255, 255>>,
   <<128, 0, 0, 0, 0, 0, 0, 0, 0, 0, 0, 0, 0, 0, 0, 0, 0>>,
   <<138, 199, 35, 4, 137, 231, 255, 255, 0, 0, 0, 0, 0, 0, 0, 0, 0>>,
   <<138, 199, 35, 4, 137, 232, 0, 0, 0, 0, 0, 0, 0, 0, 0, 0, 0>>,
   <<0, 0, 0, 0, 59, 154, 202, 0, 0, 0, 0, 0, 0, 0, 0, 0, 0>>,
   <<0, 0, 9, 24, 78, 114, 160, 0, 0, 0, 0, 0, 0, 0, 0, 0, 0>>,
   <<0, 0, 0, 0, 0, 7, 161, 32, 0, 0, 0, 0, 0, 0, 0, 0, 0>>,
   <<0, 4, 98, 213, 60, 152, 26, 192, 0, 0, 0, 0, 0, 0, 0, 0, 0>>}

MCImages == Varints \cup Paths \cup Limits
=============================================================================
