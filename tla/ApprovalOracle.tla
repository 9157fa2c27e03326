--------------------------- MODULE ApprovalOracle ---------------------------
(* What a hardware wallet promises about signatures, without commands,     *)
(* buffers or screens: a payload is put up for review only on request, and *)
(* a signature is issued either by the user approving the payload under    *)
(* review, which ends the review, or, when another application vouches for *)
(* the request, by delegation.                                             *)
CONSTANTS Payload, None

VARIABLES
  pending,    \* a request has been made and not been considered
  delegated,  \* another application vouches for requests
  review,     \* the payload under review, or None
  issued      \* the signed payload last handed to the requester, or None

oracleVars == <<pending, delegated, review, issued>>

\* The requester gives up what it was handed and makes a request.
Request ==
  /\ ~pending /\ pending'
  /\ issued' = None
  /\ UNCHANGED <<delegated, review>>

\* A request replaces the payload under review; a late signature may still stand.
Present ==
  /\ pending /\ ~pending'
  /\ review' \in Payload
  /\ UNCHANGED <<delegated, issued>>

\* A request is considered and leads to no signature.
Dismiss ==
  /\ pending /\ ~pending'
  /\ review' = None
  /\ issued' \in {issued, None}
  /\ UNCHANGED delegated

Delegate ==
  /\ pending /\ ~pending'
  /\ delegated
  /\ review' = None
  /\ issued' \in Payload
  /\ UNCHANGED delegated

Approve ==
  /\ review # None
  /\ review' = None
  /\ issued' = review
  /\ UNCHANGED <<pending, delegated>>

\* The user rejects, or signing fails.
Withdraw ==
  /\ review' = None
  /\ issued' \in {issued, None}
  /\ UNCHANGED <<pending, delegated>>

\* A new connection: nothing of the old one is left.
Reset ==
  /\ ~pending'
  /\ delegated' \in BOOLEAN
  /\ review' = None
  /\ issued' = None

Init == ~pending /\ ~delegated /\ review = None /\ issued = None

Next == Request \/ Present \/ Dismiss \/ Delegate \/ Approve \/ Withdraw \/ Reset

Spec == Init /\ [][Next]_oracleVars
=============================================================================
