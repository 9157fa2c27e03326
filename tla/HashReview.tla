----------------------------- MODULE HashReview -----------------------------
(***************************************************************************)
(* The reviews of a hash and of an address: ui_transaction_hash.c and      *)
(* ui_address.c.  The two pages of a hash are fetched one at a time from   *)
(* G_context, which the next command may have overwritten; the page of an  *)
(* address is written once, when its flow starts.  The place in the flow   *)
(* is kept in globals that ui_transaction.c uses as well.                  *)
(***************************************************************************)
EXTENDS Integers, Sequences

CONSTANTS
  Keys,     \* the public keys the host asks for
  Hashes,   \* the hashes the host sends
  Zero      \* memory cleared by explicit_bzero, as a key and as a hash

ASSUME HashReviewOK == Zero \notin Keys \cup Hashes

VARIABLES
  ctx,      \* G_context: the key and the hash
  awaited,  \* the host awaits the answer of the flow on display (io.c: WAITING)
  flow,     \* the flow on display
  step,     \* where it is
  border,   \* G_ui_current_state
  index,    \* G_ui_current_data_index
  value,    \* G_ui_detail_caption and G_ui_detail_value
  seen,     \* history: the pages shown since the flow started
  answer    \* the last answer a flow sent

vars == <<ctx, awaited, flow, step, border, index, value, seen, answer>>

Context == [key : Keys \cup {Zero}, hash : Hashes \cup {Zero}]
Page    == [caption : {"", "Address", "Hash"}, text : Keys \cup Hashes \cup {Zero}]
Nothing == [caption |-> "", text |-> Zero]
Address(k) == [caption |-> "Address", text |-> k]
Hash(h)    == [caption |-> "Hash", text |-> h]

\* "tx" is the review of ui_transaction.c, see TxReview.
Flows   == {"menu", "hash", "address", "tx"}
Answers == [kind : {"none", "refused", "signature", "pubkey"}, of : Context]
Silence == [kind |-> "none", of |-> [key |-> Zero, hash |-> Zero]]

\* G_ui_current_data_index is a uint8_t.
IndexWidth == 256
Up(i)   == (i + 1) % IndexWidth
Down(i) == (i + IndexWidth - 1) % IndexWidth
-----------------------------------------------------------------------------
(* ui_transaction_hash.c                                                    *)

\* get_next_data: the data index has a page or it has none.
HasData(i) == i \in {1, 2}

DataAt(i) == IF i = 1 THEN Address(ctx.key) ELSE Hash(ctx.hash)

\* The user is shown what is in the buffer.
OnPage(v) == step' = "page" /\ value' = v /\ seen' = seen \cup {v}

\* display_next_state, called from the border between the page and the step "outside":
\* "into" is the data index if the user comes from there, "away" if they were reading.
\* Without data they come to a page that has what the buffer had.
CrossBorder(into, away, outside) ==
  LET i == IF border = "OUT" THEN into ELSE away IN
  /\ index' = i
  /\ border' = IF HasData(i) THEN "INSIDE" ELSE "OUT"
  /\ IF HasData(i) \/ border = "OUT"
     THEN OnPage(IF HasData(i) THEN DataAt(i) ELSE value)
     ELSE step' = outside /\ UNCHANGED <<value, seen>>
  /\ UNCHANGED <<ctx, awaited, flow, answer>>

UpperBorder == CrossBorder(Up(index), Down(index), "warning")
LowerBorder == CrossBorder(Down(index), Up(index), "approve")

\* The steps that are the same whatever the context.
Turn(f, from, to) ==
  /\ flow = f /\ step = from
  /\ step' = to
  /\ UNCHANGED <<ctx, awaited, flow, border, index, value, seen, answer>>

\* ui_address.c: the page is what is in the buffer.
TurnToAddress(from) ==
  /\ flow = "address" /\ step = from
  /\ OnPage(value)
  /\ UNCHANGED <<ctx, awaited, flow, border, index, answer>>

Right ==
  \/ Turn("hash", "review", "warning")
  \/ flow = "hash" /\ step = "warning" /\ UpperBorder
  \/ flow = "hash" /\ step = "page" /\ LowerBorder
  \/ TurnToAddress("review")
  \/ Turn("address", "page", "approve")
  \/ \E f \in {"hash", "address"} : Turn(f, "approve", "reject")

Left ==
  \/ Turn("hash", "warning", "review")
  \/ flow = "hash" /\ step = "page" /\ UpperBorder
  \/ flow = "hash" /\ step = "approve" /\ LowerBorder
  \/ TurnToAddress("approve")
  \/ Turn("address", "page", "review")
  \/ \E f \in {"hash", "address"} : Turn(f, "reject", "approve")

\* Mutant: an answer goes out although the command it answers has had one.
AnswerAnyway(kind) ==
  /\ answer' = [kind |-> kind, of |-> ctx]
  /\ awaited' = FALSE
  /\ flow' = "menu"
  /\ UNCHANGED <<ctx, step, border, index, value, seen>>

\* ui_action_validate_transaction and ui_action_validate_pubkey, which end in the menu.  An
\* answer that nobody awaits does not get to the host (StellarApp).
Answer(kind) ==
  /\ answer' = IF awaited THEN [kind |-> kind, of |-> ctx] ELSE answer
  /\ awaited' = FALSE
  /\ flow' = "menu"
  /\ UNCHANGED <<ctx, step, border, index, value, seen>>

Approve ==
  /\ step = "approve"
  /\ \/ flow = "hash" /\ \E kind \in {"signature", "refused"} : Answer(kind)
     \/ flow = "address" /\ Answer("pubkey")

Reject == step = "reject" /\ flow \in {"hash", "address"} /\ Answer("refused")
-----------------------------------------------------------------------------
(* The commands.                                                            *)

\* The context is c, and a flow starts at its first step.
Start(c, f) ==
  /\ ctx' = c
  /\ awaited' = TRUE
  /\ flow' = f /\ step' = "review"
  /\ seen' = {} /\ answer' = Silence

\* Mutant: ui_approve_tx_hash_init leaves the border as it is.
SignTxHashKeepsBorder ==
  \E k \in Keys, h \in Hashes :
    /\ Start([key |-> k, hash |-> h], "hash")
    /\ index' = 0
    /\ UNCHANGED <<border, value>>

\* Mutant: it leaves the data index as it is.
SignTxHashKeepsIndex ==
  \E k \in Keys, h \in Hashes :
    /\ Start([key |-> k, hash |-> h], "hash")
    /\ border' = "OUT"
    /\ UNCHANGED <<index, value>>

\* handler_sign_tx_hash and ui_approve_tx_hash_init
SignTxHash ==
  \E k \in Keys, h \in Hashes :
    /\ Start([key |-> k, hash |-> h], "hash")
    /\ border' = "OUT" /\ index' = 0
    /\ UNCHANGED value

\* handler_get_public_key and ui_display_address
DisplayAddress ==
  \E k \in Keys :
    /\ Start([key |-> k, hash |-> Zero], "address")
    /\ value' = Address(k)
    /\ UNCHANGED <<border, index>>

\* handler_sign_tx and ui_approve_tx_init
SignTx ==
  \E k \in Keys, h \in Hashes :
    /\ Start([key |-> k, hash |-> h], "tx")
    /\ border' = "OUT" /\ index' = 0
    /\ UNCHANGED value

\* The pages of a transaction, of which there are at most MaxIndex.
MaxIndex == 3
TurnTxPage ==
  /\ flow = "tx"
  /\ border' \in {"OUT", "INSIDE"} /\ index' \in 0 .. MaxIndex
  /\ value' = Nothing
  /\ UNCHANGED <<ctx, awaited, flow, step, seen, answer>>

\* What a command that is answered at once leaves in the context: GET_APP_CONFIGURATION
\* nothing new, GET_PUBLIC_KEY without display its key, SIGN_TX_HASH the key if there is no
\* hash, a transaction that is refused or not complete nothing or the hash, and data that are
\* added to a reviewed one, and refused, another hash beside the key of that.
Overwritten ==
  {ctx} \cup {[key |-> k, hash |-> Zero] : k \in Keys \cup {Zero}}
        \cup {[key |-> Zero, hash |-> h] : h \in Hashes}
        \cup {[ctx EXCEPT !.hash = h] : h \in Hashes}

\* The flow stays on display.
AnswerAtOnce ==
  /\ ctx' \in Overwritten
  /\ awaited' = FALSE
  /\ UNCHANGED <<flow, step, border, index, value, seen, answer>>
-----------------------------------------------------------------------------
Init ==
  /\ ctx = [key |-> Zero, hash |-> Zero]
  /\ awaited = FALSE
  /\ flow = "menu" /\ step = "review"
  /\ border = "OUT" /\ index = 0 /\ value = Nothing
  /\ seen = {} /\ answer = Silence

Next == \/ Right \/ Left \/ Approve \/ Reject
        \/ SignTxHash \/ DisplayAddress \/ SignTx \/ TurnTxPage \/ AnswerAtOnce

Spec == Init /\ [][Next]_vars
-----------------------------------------------------------------------------
(* Properties.                                                              *)

\* Every variable has its type, and what was shown is never the buffer of another review.
TypeOK ==
  /\ ctx \in Context
  /\ awaited \in BOOLEAN
  /\ flow \in Flows
  /\ step \in {"review", "warning", "page", "approve", "reject"}
  /\ border \in {"OUT", "INSIDE"}
  /\ index \in 0 .. IndexWidth - 1
  /\ value \in Page
  /\ seen \subseteq Page \ {Nothing}
  /\ answer \in Answers

\* A signature of a hash that reaches the host is one of which the user has seen both the
\* key that signs and the hash, in the flow they approved, whatever else was asked and
\* reviewed before and whatever was asked meanwhile; a key confirmed is one they have seen.
AnswersWhatWasShown ==
  /\ answer.kind = "signature" =>
       {Address(answer.of.key), Hash(answer.of.hash)} \subseteq seen
  /\ answer.kind = "pubkey" => Address(answer.of.key) \in seen

\* The place in a flow, as a place in a book.
bookBar == IF flow = "hash" THEN <<1, 1>> ELSE <<1>>
atBar ==
  CASE flow \notin {"hash", "address"} \/ step \in {"review", "warning"} -> <<0, 0>>
    [] flow = "hash" /\ step = "page" -> <<index, 1>>
    [] flow = "hash" /\ step \in {"approve", "reject"} -> <<3, 0>>
    [] flow = "address" /\ step = "page" -> <<1, 1>>
    [] OTHER -> <<2, 0>>

Turns == INSTANCE Pager WITH book <- bookBar, at <- atBar

\* Both flows implement the pager of TxReview: the address, then the hash, neither skipped,
\* whatever place another flow left in the globals.
ImplementsPager == Turns!Spec
=============================================================================
