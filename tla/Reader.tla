------------------------------- MODULE Reader -------------------------------
(***************************************************************************)
(* What a transaction review relies on: that the parser moves over the     *)
(* data one whole, valid operation at a time, and otherwise not at all.    *)
(***************************************************************************)
EXTENDS Naturals

CONSTANTS
  Whole(_),   \* how many operations can be read from a document
  Width       \* how many numbers there are for operations
VARIABLES doc, at, index   \* the data; the operation last read, and its number

vars == <<doc, at, index>>

Init == at = 0 /\ index = 0

Load == at' = 0 /\ index' = 0

\* Reading from the beginning forgets the number of the operation.
Begin == at = 0 /\ index' = 0 /\ UNCHANGED <<doc, at>>

ReadOperation ==
  /\ at < Whole(doc)
  /\ at = 0 => index = 0
  /\ at' = at + 1
  /\ index' = (index + 1) % Width
  /\ UNCHANGED doc

Rewind  == at' = 0 /\ index' = 0 /\ UNCHANGED doc
Restart == at' = 0 /\ UNCHANGED <<doc, index>>

\* More data never takes back an operation.
Extend == Whole(doc') >= Whole(doc) /\ UNCHANGED <<at, index>>

Next == Load \/ Extend \/ Begin \/ ReadOperation \/ Rewind \/ Restart

Spec == Init /\ [][Next]_vars
=============================================================================
