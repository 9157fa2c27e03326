-------------------------- MODULE HashReviewProofs --------------------------
(***************************************************************************)
(* That a signed hash and a confirmed address were seen, and that no page  *)
(* is skipped, for any keys and hashes.                                    *)
(***************************************************************************)
EXTENDS HashReview, TLAPS

\* Where the data index and the border stand at each step of the review of a hash: the
\* functions of ui_transaction_hash.c take the user to a page without data otherwise.
HashPlace ==
  flow = "hash" =>
    /\ step \in {"review", "warning"} => border = "OUT" /\ index = 0
    /\ step = "page" => border = "INSIDE" /\ index \in {1, 2}
    /\ step \in {"approve", "reject"} => border = "OUT" /\ index = 3

\* What the user has seen when they have got there, of the context that would be signed.
HashSeen ==
  awaited /\ flow = "hash" =>
    /\ step \in {"page", "approve", "reject"} => Address(ctx.key) \in seen
    /\ step \in {"approve", "reject"} \/ (step = "page" /\ index = 2) => Hash(ctx.hash) \in seen

\* The page of an address is in the buffer from the beginning.
AddressSeen ==
  flow = "address" =>
    /\ step # "warning" /\ value.caption = "Address"
    /\ awaited => /\ value = Address(ctx.key)
                  /\ step # "review" => Address(ctx.key) \in seen

Inv == TypeOK /\ HashPlace /\ HashSeen /\ AddressSeen /\ AnswersWhatWasShown
-----------------------------------------------------------------------------
(* The pages of a hash.                                                     *)

\* The data index names a page, and it is one of the user's own context.
LEMMA DataIsAPage ==
  ASSUME Inv, NEW i \in {1, 2}
  PROVE  DataAt(i) \in Page \ {Nothing}
BY DEF Inv, TypeOK, DataAt, Address, Hash, Page, Nothing, Context

\* The user is on page i.
OnData(i) ==
  /\ step' = "page" /\ border' = "INSIDE" /\ index' = i
  /\ value' = DataAt(i) /\ seen' = seen \cup {DataAt(i)}

\* Or outside the pages, and has seen no other.
Outside(s, i) ==
  step' = s /\ border' = "OUT" /\ index' = i /\ UNCHANGED <<value, seen>>

\* Crossing the border from inside leads to the page "away", if there is one, and to
\* "outside" otherwise.
LEMMA CrossedAway ==
  ASSUME NEW into, NEW away, NEW outside, CrossBorder(into, away, outside),
         border = "INSIDE"
  PROVE  IF away \in {1, 2} THEN OnData(away) ELSE Outside(outside, away)
BY DEF CrossBorder, HasData, OnPage, OnData, Outside

\* So the ways across are from each page to the next one, or out.
HashMoves ==
  \/ (step = "warning" \/ <<step, index>> = <<"page", 2>>) /\ OnData(1)
  \/ (step = "approve" \/ <<step, index>> = <<"page", 1>>) /\ OnData(2)
  \/ step = "page" /\ index = 1 /\ Outside("warning", 0)
  \/ step = "page" /\ index = 2 /\ Outside("approve", 3)

LEMMA HashTurned ==
  ASSUME Inv, flow = "hash",
         \/ step = "warning" /\ UpperBorder
         \/ step = "page" /\ (UpperBorder \/ LowerBorder)
         \/ step = "approve" /\ LowerBorder
  PROVE  UNCHANGED <<ctx, awaited, flow, answer>> /\ HashMoves
<1>1. UNCHANGED <<ctx, awaited, flow, answer>>
  BY DEF UpperBorder, LowerBorder, CrossBorder
<1>2. CASE step = "warning" /\ UpperBorder
  <2>1. border = "OUT" /\ index = 0 /\ Up(index) = 1
    BY <1>2 DEF Inv, HashPlace, Up, IndexWidth
  <2>2. CrossBorder(1, Down(index), "warning")
    BY <1>2, <2>1 DEF UpperBorder
  <2>3. OnData(1)
    BY <2>1, <2>2 DEF CrossBorder, HasData, OnPage, OnData
  <2>. QED
    BY <1>1, <1>2, <2>3 DEF HashMoves
<1>3. CASE step = "page" /\ UpperBorder
  <2>1. border = "INSIDE" /\ index \in {1, 2} /\ Down(index) = index - 1
    BY <1>3 DEF Inv, HashPlace, Down, IndexWidth
  <2>. QED
    BY <1>1, <1>3, <2>1, CrossedAway DEF UpperBorder, HashMoves
<1>4. CASE step = "page" /\ LowerBorder
  <2>1. border = "INSIDE" /\ index \in {1, 2} /\ Up(index) = index + 1
    BY <1>4 DEF Inv, HashPlace, Up, IndexWidth
  <2>. QED
    BY <1>1, <1>4, <2>1, CrossedAway DEF LowerBorder, HashMoves
<1>5. CASE step = "approve" /\ LowerBorder
  <2>1. border = "OUT" /\ index = 3 /\ Down(index) = 2
    BY <1>5 DEF Inv, HashPlace, Down, IndexWidth
  <2>2. CrossBorder(2, Up(index), "approve")
    BY <1>5, <2>1 DEF LowerBorder
  <2>3. OnData(2)
    BY <2>1, <2>2 DEF CrossBorder, HasData, OnPage, OnData
  <2>. QED
    BY <1>1, <1>5, <2>3 DEF HashMoves
<1>. QED
  BY <1>2, <1>3, <1>4, <1>5

LEMMA HashTurnedKeeps ==
  ASSUME Inv, flow = "hash",
         \/ step = "warning" /\ UpperBorder
         \/ step = "page" /\ (UpperBorder \/ LowerBorder)
         \/ step = "approve" /\ LowerBorder
  PROVE  Inv'
<1>1. UNCHANGED <<ctx, awaited, flow, answer>> /\ HashMoves
  BY HashTurned
<1>2. ASSUME NEW i \in {1, 2}, OnData(i),
             i = 2 => step = "page" \/ step = "approve"
      PROVE  Inv'
  <2>1. TypeOK'
    BY <1>1, <1>2, DataIsAPage DEF OnData, Inv, TypeOK, IndexWidth
  <2>2. HashPlace'
    BY <1>2 DEF OnData, HashPlace
  <2>3. HashSeen'
    BY <1>1, <1>2 DEF OnData, Inv, HashSeen, DataAt
  <2>4. AddressSeen' /\ AnswersWhatWasShown'
    BY <1>1, <1>2 DEF OnData, Inv, AddressSeen, AnswersWhatWasShown
  <2>. QED
    BY <2>1, <2>2, <2>3, <2>4 DEF Inv
<1>3. CASE Outside("warning", 0)
  BY <1>1, <1>3 DEF Outside, Inv, TypeOK, IndexWidth, HashPlace, HashSeen, AddressSeen,
     AnswersWhatWasShown
<1>4. CASE step = "page" /\ index = 2 /\ Outside("approve", 3)
  BY <1>1, <1>4 DEF Outside, Inv, TypeOK, IndexWidth, HashPlace, HashSeen, AddressSeen,
     AnswersWhatWasShown
<1>. QED
  BY <1>1, <1>2, <1>3, <1>4 DEF HashMoves
-----------------------------------------------------------------------------
(* The other steps.                                                         *)

LEMMA TurnKeeps ==
  ASSUME Inv, NEW f, NEW from, NEW to, Turn(f, from, to),
         \/ f = "hash" /\ <<from, to>> \in {<<"review", "warning">>, <<"warning", "review">>}
         \/ f = "address" /\ <<from, to>> \in {<<"page", "approve">>, <<"page", "review">>}
         \/ /\ f \in {"hash", "address"}
            /\ <<from, to>> \in {<<"approve", "reject">>, <<"reject", "approve">>}
  PROVE  Inv'
BY DEF Turn, Inv, TypeOK, HashPlace, HashSeen, AddressSeen, AnswersWhatWasShown

LEMMA TurnToAddressKeeps ==
  ASSUME Inv, NEW from, TurnToAddress(from)
  PROVE  Inv'
<1>1. value \in Page \ {Nothing}
  <2>1. value \in Page /\ value.caption = "Address"
    BY DEF Inv, TypeOK, AddressSeen, TurnToAddress
  <2>2. Nothing.caption = ""
    BY DEF Nothing
  <2>. QED
    BY <2>1, <2>2
<1>. QED
  BY <1>1 DEF TurnToAddress, OnPage, Inv, TypeOK, HashPlace, HashSeen, AddressSeen,
     AnswersWhatWasShown

\* A flow that is answered shows what the answer is of, if anybody awaits it.
LEMMA AnswerKeeps ==
  ASSUME Inv, NEW kind \in {"refused", "signature", "pubkey"}, Answer(kind),
         awaited /\ kind = "signature" => {Address(ctx.key), Hash(ctx.hash)} \subseteq seen,
         awaited /\ kind = "pubkey" => Address(ctx.key) \in seen
  PROVE  Inv'
<1>1. answer' \in Answers
  BY DEF Answer, Inv, TypeOK, Answers
<1>2. TypeOK'
  BY <1>1 DEF Answer, Inv, TypeOK, Flows
<1>3. AnswersWhatWasShown'
  BY DEF Answer, Inv, AnswersWhatWasShown
<1>4. HashPlace' /\ HashSeen' /\ AddressSeen'
  BY DEF Answer, HashPlace, HashSeen, AddressSeen
<1>. QED
  BY <1>2, <1>3, <1>4 DEF Inv

LEMMA ApproveKeeps ==
  ASSUME Inv, Approve
  PROVE  Inv'
BY AnswerKeeps DEF Approve, Inv, HashSeen, AddressSeen

LEMMA RejectKeeps ==
  ASSUME Inv, Reject
  PROVE  Inv'
BY AnswerKeeps DEF Reject

\* A flow starts with nothing seen and nothing answered.
LEMMA StartKeeps ==
  ASSUME Inv, NEW c \in Context, NEW f \in Flows \ {"menu"}, Start(c, f),
         border' \in {"OUT", "INSIDE"}, index' \in 0 .. IndexWidth - 1, value' \in Page,
         f = "hash" => border' = "OUT" /\ index' = 0,
         f = "address" => value' = Address(c.key)
  PROVE  Inv'
<1>1. TypeOK'
  BY DEF Start, TypeOK, Silence, Answers, Context
<1>2. AnswersWhatWasShown'
  BY DEF Start, AnswersWhatWasShown, Silence
<1>3. HashPlace' /\ HashSeen' /\ AddressSeen'
  BY DEF Start, HashPlace, HashSeen, AddressSeen, Address
<1>. QED
  BY <1>1, <1>2, <1>3 DEF Inv

LEMMA CommandKeeps ==
  ASSUME Inv, SignTxHash \/ DisplayAddress \/ SignTx
  PROVE  Inv'
<1>1. ASSUME NEW k \in Keys, NEW h \in Hashes \cup {Zero}
      PROVE  [key |-> k, hash |-> h] \in Context /\ Address(k) \in Page
  BY DEF Context, Page, Address
<1>2. CASE SignTxHash
  BY <1>1, <1>2, StartKeeps DEF SignTxHash, Inv, TypeOK, IndexWidth, Flows
<1>3. CASE DisplayAddress
  BY <1>1, <1>3, StartKeeps DEF DisplayAddress, Inv, TypeOK, IndexWidth, Flows
<1>4. CASE SignTx
  BY <1>1, <1>4, StartKeeps DEF SignTx, Inv, TypeOK, IndexWidth, Flows
<1>. QED
  BY <1>2, <1>3, <1>4

LEMMA TurnTxPageKeeps ==
  ASSUME Inv, TurnTxPage
  PROVE  Inv'
<1>1. value' \in Page
  BY DEF TurnTxPage, Page, Nothing
<1>2. index' \in 0 .. IndexWidth - 1
  BY DEF TurnTxPage, MaxIndex, IndexWidth
<1>. QED
  BY <1>1, <1>2 DEF TurnTxPage, Inv, TypeOK, HashPlace, HashSeen, AddressSeen, AnswersWhatWasShown

\* Nobody awaits the flow any more, whatever is in the context.
LEMMA AnswerAtOnceKeeps ==
  ASSUME Inv, AnswerAtOnce
  PROVE  Inv'
<1>1. ctx' \in Context
  BY DEF AnswerAtOnce, Overwritten, Context, Inv, TypeOK
<1>. QED
  BY <1>1 DEF AnswerAtOnce, Inv, TypeOK, HashPlace, HashSeen, AddressSeen, AnswersWhatWasShown
-----------------------------------------------------------------------------
(* The specification.                                                       *)

LEMMA Initially == Init => Inv
<1>. SUFFICES ASSUME Init PROVE Inv
  OBVIOUS
<1>1. ctx \in Context /\ value \in Page /\ answer \in Answers
  BY DEF Init, Context, Page, Nothing, Answers, Silence
<1>2. answer.kind = "none"
  BY DEF Init, Silence
<1>3. TypeOK
  <2>1. awaited \in BOOLEAN
    BY Zenon DEF Init
  <2>2. index \in 0 .. IndexWidth - 1 /\ seen \subseteq Page \ {Nothing}
    BY DEF Init, IndexWidth
  <2>. QED
    BY <1>1, <2>1, <2>2 DEF Init, TypeOK, Flows
<1>4. HashPlace /\ HashSeen /\ AddressSeen
  BY DEF Init, HashPlace, HashSeen, AddressSeen
<1>5. AnswersWhatWasShown
  BY <1>2 DEF AnswersWhatWasShown
<1>. QED
  BY <1>3, <1>4, <1>5 DEF Inv

LEMMA RightKeeps ==
  ASSUME Inv, Right
  PROVE  Inv'
BY HashTurnedKeeps, TurnKeeps, TurnToAddressKeeps DEF Right

LEMMA LeftKeeps ==
  ASSUME Inv, Left
  PROVE  Inv'
BY HashTurnedKeeps, TurnKeeps, TurnToAddressKeeps DEF Left

LEMMA NextKeeps ==
  ASSUME Inv, [Next]_vars
  PROVE  Inv'
<1>1. CASE UNCHANGED vars
  BY <1>1 DEF vars, Inv, TypeOK, HashPlace, HashSeen, AddressSeen, AnswersWhatWasShown
<1>. QED
  BY <1>1, RightKeeps, LeftKeeps, ApproveKeeps, RejectKeeps, CommandKeeps, TurnTxPageKeeps,
     AnswerAtOnceKeeps DEF Next

\* The place in a flow, and what was seen on the way there, for all keys and hashes.
THEOREM Invariance == Spec => []Inv
BY Initially, NextKeeps, PTL DEF Spec

\* Types, and that no flow shows what another flow left in the buffer.
THEOREM TypeCorrect == Spec => []TypeOK
BY Invariance, PTL DEF Inv

\* A signature of a hash, or a confirmed key, that reaches the host was on display in full
\* in the flow that was approved.
THEOREM AnswersAreShown == Spec => []AnswersWhatWasShown
BY Invariance, PTL DEF Inv
-----------------------------------------------------------------------------
(* The refinement.  A page turned is a page turned; a flow that starts or    *)
(* ends is another book, and everything else leaves the reader where it is.  *)

LEMMA TheBooks ==
  /\ <<1>> \in Seq(Nat \ {0}) /\ <<1>> # <<>> /\ Len(<<1>>) = 1 /\ <<1>>[1] = 1
  /\ <<1, 1>> \in Seq(Nat \ {0}) /\ <<1, 1>> # <<>>
  /\ Len(<<1, 1>>) = 2 /\ <<1, 1>>[1] = 1 /\ <<1, 1>>[2] = 1
OBVIOUS

\* A flow that starts, or gives way to the menu.
LEMMA Opened ==
  ASSUME flow' \notin {"hash", "address"} \/ step' = "review"
  PROVE  Turns!Open
<1>1. bookBar' \in {<<1>>, <<1, 1>>}
  BY DEF bookBar
<1>2. atBar' = <<0, 0>>
  BY DEF atBar
<1>. QED
  BY <1>1, <1>2, TheBooks DEF Turns!Open, Turns!Front

LEMMA InitiallyClosed == Init => Turns!Init
<1>. SUFFICES ASSUME Init PROVE Turns!Init
  OBVIOUS
<1>1. bookBar = <<1>> /\ atBar = <<0, 0>>
  BY DEF Init, bookBar, atBar
<1>. QED
  BY <1>1, TheBooks DEF Turns!Init, Turns!Front

LEMMA HashTurnsPages ==
  ASSUME Inv, flow = "hash",
         \/ step = "warning" /\ UpperBorder
         \/ step = "page" /\ (UpperBorder \/ LowerBorder)
         \/ step = "approve" /\ LowerBorder
  PROVE  Turns!Next
<1>1. HashMoves /\ bookBar = <<1, 1>> /\ bookBar' = bookBar /\ flow' = "hash"
  BY HashTurned DEF bookBar
<1>2. CASE (step = "warning" \/ <<step, index>> = <<"page", 2>>) /\ OnData(1)
  <2>1. atBar' = <<1, 1>> /\ atBar = IF step = "warning" THEN <<0, 0>> ELSE <<2, 1>>
    BY <1>1, <1>2 DEF atBar, OnData
  <2>. QED
    BY <1>1, <2>1, TheBooks DEF Turns!Next, Turns!Forward, Turns!Backward, Turns!Front, Turns!Back
<1>3. CASE (step = "approve" \/ <<step, index>> = <<"page", 1>>) /\ OnData(2)
  <2>1. atBar' = <<2, 1>> /\ atBar = IF step = "approve" THEN <<3, 0>> ELSE <<1, 1>>
    BY <1>1, <1>3 DEF atBar, OnData
  <2>. QED
    BY <1>1, <2>1, TheBooks DEF Turns!Next, Turns!Forward, Turns!Backward, Turns!Front, Turns!Back
<1>4. CASE step = "page" /\ index = 1 /\ Outside("warning", 0)
  <2>1. atBar' = <<0, 0>> /\ atBar = <<1, 1>>
    BY <1>1, <1>4 DEF atBar, Outside
  <2>. QED
    BY <1>1, <2>1, TheBooks DEF Turns!Next, Turns!Backward, Turns!Front, Turns!Back
<1>5. CASE step = "page" /\ index = 2 /\ Outside("approve", 3)
  <2>1. atBar' = <<3, 0>> /\ atBar = <<2, 1>>
    BY <1>1, <1>5 DEF atBar, Outside
  <2>. QED
    BY <1>1, <2>1, TheBooks DEF Turns!Next, Turns!Forward, Turns!Front, Turns!Back
<1>. QED
  BY <1>1, <1>2, <1>3, <1>4, <1>5 DEF HashMoves

\* The steps of the flow of an address, and those that lead to no page.
LEMMA TurnTurns ==
  ASSUME NEW f, NEW from, NEW to, Turn(f, from, to),
         \/ f = "hash" /\ <<from, to>> \in {<<"review", "warning">>, <<"warning", "review">>}
         \/ f = "address" /\ <<from, to>> \in {<<"page", "approve">>, <<"page", "review">>}
         \/ /\ f \in {"hash", "address"}
            /\ <<from, to>> \in {<<"approve", "reject">>, <<"reject", "approve">>}
  PROVE  [Turns!Next]_(Turns!pagerVars)
<1>1. flow' = flow /\ index' = index /\ flow = f /\ step = from /\ step' = to
  BY DEF Turn
<1>2. CASE f = "address" /\ from = "page"
  <2>1. bookBar = <<1>> /\ bookBar' = <<1>> /\ atBar = <<1, 1>>
    BY <1>1, <1>2 DEF bookBar, atBar
  <2>2. atBar' \in {<<2, 0>>, <<0, 0>>}
    BY <1>1, <1>2 DEF atBar
  <2>. QED
    BY <2>1, <2>2, TheBooks DEF Turns!Next, Turns!Forward, Turns!Backward, Turns!Front, Turns!Back
<1>3. CASE ~(f = "address" /\ from = "page")
  <2>1. bookBar' = bookBar /\ atBar' = atBar
    BY <1>1, <1>3 DEF bookBar, atBar
  <2>. QED
    BY <2>1 DEF Turns!pagerVars
<1>. QED
  BY <1>2, <1>3

LEMMA TurnToAddressTurns ==
  ASSUME NEW from \in {"review", "approve"}, TurnToAddress(from)
  PROVE  Turns!Next
<1>1. bookBar = <<1>> /\ bookBar' = <<1>> /\ atBar' = <<1, 1>>
  BY DEF TurnToAddress, OnPage, bookBar, atBar
<1>2. atBar = IF from = "review" THEN <<0, 0>> ELSE <<2, 0>>
  BY DEF TurnToAddress, atBar
<1>. QED
  BY <1>1, <1>2, TheBooks DEF Turns!Next, Turns!Forward, Turns!Backward, Turns!Front, Turns!Back

LEMMA NextTurns ==
  ASSUME Inv, [Next]_vars
  PROVE  [Turns!Next]_(Turns!pagerVars)
<1>1. CASE Right \/ Left
  BY <1>1, HashTurnsPages, TurnTurns, TurnToAddressTurns DEF Right, Left
<1>2. CASE Approve \/ Reject
  BY <1>2, Opened DEF Approve, Reject, Answer, Turns!Next
<1>3. CASE SignTxHash \/ DisplayAddress \/ SignTx
  BY <1>3, Opened DEF SignTxHash, DisplayAddress, SignTx, Start, Turns!Next
<1>4. CASE TurnTxPage
  BY <1>4 DEF TurnTxPage, Turns!pagerVars, bookBar, atBar
<1>5. CASE AnswerAtOnce \/ UNCHANGED vars
  BY <1>5 DEF AnswerAtOnce, vars, Turns!pagerVars, bookBar, atBar
<1>. QED
  BY <1>1, <1>2, <1>3, <1>4, <1>5 DEF Next

\* Both flows are read like a book: no page is skipped in either direction, whatever the
\* review of a transaction left in the globals they share.
THEOREM Implementation == Spec => ImplementsPager
BY InitiallyClosed, NextTurns, Invariance, PTL DEF Spec, ImplementsPager, Turns!Spec
=============================================================================
