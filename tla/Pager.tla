-------------------------------- MODULE Pager --------------------------------
(* What turning the pages of a review promises, without formatters or parsers: *)
(* a book of chapters (the header, then each operation), read forwards page by *)
(* page and never past one; backwards page by page within a chapter, and from  *)
(* its first page to the first page of the chapter before.                     *)
EXTENDS Naturals, Sequences

VARIABLES
  book,   \* the number of pages of each chapter
  at      \* the place of the reader, as a chapter and a page

pagerVars == <<book, at>>

Front == <<0, 0>>
Back  == <<Len(book) + 1, 0>>

Forward ==
  \/ at = Front /\ at' = <<1, 1>>
  \/ /\ at \notin {Front, Back}
     /\ at' = IF at[2] < book[at[1]] THEN <<at[1], at[2] + 1>>
              ELSE IF at[1] < Len(book) THEN <<at[1] + 1, 1>> ELSE Back

Backward ==
  \/ at = Back /\ at' = <<Len(book), book[Len(book)]>>
  \/ /\ at \notin {Front, Back}
     /\ at' = IF at[2] > 1 THEN <<at[1], at[2] - 1>>
              ELSE IF at[1] > 1 THEN <<at[1] - 1, 1>> ELSE Front

\* Another book is put before the reader.
Open ==
  /\ book' \in Seq(Nat \ {0}) /\ book' # <<>>
  /\ at' = Front

Init == book \in Seq(Nat \ {0}) /\ book # <<>> /\ at = Front

Next == Open \/ (UNCHANGED book /\ (Forward \/ Backward))

Spec == Init /\ [][Next]_pagerVars
=============================================================================
