-------------------------- MODULE StellarAppProofs --------------------------
(* Proofs about StellarApp, for any paths, chunks, hashes and sizes.       *)
EXTENDS StellarApp, TLAPS

-----------------------------------------------------------------------------
(* The data.                                                                *)

\* The constant values have their types.
LEMMA DataTypes ==
  /\ ZeroDigest \in Digest /\ NoPayload \in Payload
  /\ NoReply \in Reply /\ Clobbered \in Reply
  /\ \A w \in StatusWords \cup {"config"} : Sw(w) \in Reply
  /\ ZeroContext \in Context
  /\ Silence \in Wire
  <1>1. <<>> \in Seq(Chunks \cup Hashes)
    OBVIOUS
  <1>2. ZeroDigest \in Digest
    BY <1>1 DEF ZeroDigest, Digest
  <1>3. NoPayload \in Payload
    BY <1>2 DEF NoPayload, Payload, MaybePath
  <1>4. ASSUME NEW w \in ReplyKinds PROVE Sw(w) \in Reply
    BY <1>3 DEF Sw, Reply
  <1>5. NoReply \in Reply /\ Clobbered \in Reply
    BY <1>4 DEF NoReply, Clobbered, ReplyKinds
  <1>6. ZeroContext \in Context
    BY <1>1, <1>2 DEF ZeroContext, Context, MaybePath
  <1>7. Silence \in Wire
    BY <1>5 DEF Silence, Wire
  <1> QED BY <1>2, <1>3, <1>4, <1>5, <1>6, <1>7 DEF ReplyKinds

\* What a context answers with has the type of an answer.
LEMMA AnswerTypes ==
  ASSUME NEW c \in Context, NEW seen \in Payload, NEW by \in {"none", "user", "swap"}
  PROVE  /\ PubkeyOf(c) \in Payload /\ SignatureOf(c) \in Payload
         /\ Pubkey(c, seen, by) \in Reply /\ Signature(c, seen, by) \in Reply
  <1>1. PubkeyOf(c) \in Payload /\ SignatureOf(c) \in Payload
    BY DataTypes DEF PubkeyOf, SignatureOf, Payload, Context
  <1> QED BY <1>1 DEF Pubkey, Signature, Reply, ReplyKinds

\* A command carries a path and at most one piece of data, a chunk if it is SIGN_TX.
LEMMA CommandTypes ==
  ASSUME NEW c \in Command
  PROVE  /\ c.path \in MaybePath /\ c.p2 \in BOOLEAN /\ c.first \in BOOLEAN
         /\ c.data \in Seq(Chunks \cup Hashes)
         /\ c.ins = "SIGN_TX" => c.data \in Seq(Chunks) /\ DataLen(c.data) \in Nat
         /\ c # NoCommand
  <1>1. CASE c.data = <<>>
    BY <1>1, ConstantsOK DEF Command, DataLen, Instructions, MaybePath, NoCommand
  <1>2. CASE c.data # <<>>
    <2>1. PICK x \in Chunks \cup Hashes : c.data = <<x>>
      BY <1>2 DEF Command
    <2>2. c.ins = "SIGN_TX" => x \in Chunks
      BY <1>2, <2>1 DEF Command
    <2> QED BY <1>2, <2>1, <2>2, ConstantsOK
            DEF Command, DataLen, Instructions, MaybePath, NoCommand
  <1> QED BY <1>1, <1>2
-----------------------------------------------------------------------------
(* What a command does to the loop.                                         *)

\* A context whose data fits in tx_info.raw.
Fits == {c \in Context : c.rawSize <= RawTxMaxSize}

\* The command was answered with r (at once, or later if app_main returned).
Replies(c, r) ==
  /\ ctx' = c /\ screen' = screen /\ out' = r
  /\ io' \in {"READY", "RECEIVED"} /\ recv' \in {"idle", "async"}
  /\ session' \in {"running", "returned"} /\ owed' \in BOOLEAN
  /\ wire' \in {wire, [reply |-> r, solicited |-> TRUE]}
  /\ IoTaken = "RECEIVED" =>
       /\ io' = "RECEIVED" /\ recv' = "idle" /\ session' = "running" /\ owed' = FALSE
       /\ wire' = [reply |-> r, solicited |-> TRUE]

\* The command put a review on display.
Displays(c, f, seen) ==
  /\ ctx' = c /\ screen' = [flow |-> f, shown |-> seen] /\ out' \in {NoReply, Clobbered}
  /\ session' = "running"
  /\ \/ io' = "WAITING" /\ recv' = "async" /\ owed' = TRUE /\ wire' = wire
     \/ /\ io' = "RECEIVED" /\ recv' = "idle" /\ owed' \in BOOLEAN
        /\ wire' \in {wire, [reply |-> Clobbered, solicited |-> TRUE]}
        /\ IoTaken = "READY"

\* The answer of a command itself is never the user's, and signs only in swap mode.
OwnAnswer ==
  {r \in Reply :
     /\ r.kind \notin {"none", "clobbered"}
     /\ r.consent = "none" => r.kind # "signature"
     /\ r.consent # "user"
     /\ r.consent = "swap" => swap}

\* The review of f a command puts on display is of the context it leaves.
Reviewable(c, f, seen) ==
  /\ seen = IF f = "address" THEN PubkeyOf(c) ELSE SignatureOf(c)
  /\ f # "address" => c.hash.kind # "zero"
  /\ f = "hash" => nv.hashSigning

Handled(c) ==
  \/ \E r \in OwnAnswer : Replies(c, r)
  \/ \E f \in Reviews : \E seen \in Payload : Reviewable(c, f, seen) /\ Displays(c, f, seen)

Taken ==
  /\ inbox \in Command /\ inbox' = NoCommand /\ asked' = inbox
  /\ UNCHANGED <<swap, nv, disturbed>>

\* Taking a command leaves io.c READY or RECEIVED, never WAITING.
LEMMA TakenState ==
  ASSUME TypeOK, WaitingScreenIsCurrent
  PROVE  IoTaken \in {"READY", "RECEIVED"} /\ OutTaken \in {NoReply, Clobbered}
  BY DEF TypeOK, WaitingScreenIsCurrent, IoTaken, OutTaken

\* Returning an answer, or throwing it, replies.
LEMMA Answered ==
  ASSUME TypeOK, WaitingScreenIsCurrent,
         NEW c, NEW r \in OwnAnswer, Return(c, r) \/ Throw(c, r)
  PROVE  Replies(c, r)
  <1> DEFINE e == SendResponse(IoTaken, r)
  <1>1. e.io = "READY" /\ e.out = r /\ e.sent = NoReply /\ (e.ok <=> IoTaken # "READY")
    BY TakenState DEF SendResponse
  <1>2. r # NoReply
    BY DEF OwnAnswer, NoReply, Sw
  <1>3. CASE Listen("READY", r, NoReply, TRUE) /\ ctx' = c /\ UNCHANGED screen
    BY <1>2, <1>3 DEF Listen, Transmit, Replies
  <1>4. CASE /\ session' = "returned" /\ io' = "READY" /\ out' = r /\ owed' = TRUE
             /\ UNCHANGED <<recv, wire>> /\ ctx' = c /\ UNCHANGED screen
             /\ IoTaken = "READY"
    BY <1>4 DEF Replies, TypeOK
  <1> QED BY <1>1, <1>3, <1>4 DEF Return, Throw

\* A flow that is started is on display; the transmission buffer is at most garbage.
LEMMA Displayed ==
  ASSUME TypeOK, WaitingScreenIsCurrent,
         NEW c, NEW f, NEW seen, NEW type, NEW state,
         c.reqType = type, c.state = state, Show(c, f, seen, type, state)
  PROVE  Displays(c, f, seen)
  <1>1. Listen(IoTaken, OutTaken, NoReply, TRUE)
    BY DEF Show
  <1>2. CASE IoTaken = "READY"
    BY <1>1, <1>2, TakenState DEF Listen, Transmit, Displays, Show
  <1>3. CASE IoTaken = "RECEIVED"
    BY <1>1, <1>3, TakenState DEF Listen, Transmit, Displays, Show
  <1> QED BY <1>2, <1>3, TakenState
-----------------------------------------------------------------------------
(* Each command is taken and handled.                                       *)

\* A command in the inbox that is taken is a command.
LEMMA TakeTaken ==
  ASSUME TypeOK, NEW ins \in Instructions, Take(ins)
  PROVE  Taken
  BY DEF TypeOK, Take, Taken, NoCommand, Instructions

\* A status word, the configuration, and a plain public key are answers of the command
\* itself; a signature is in swap mode.
LEMMA OwnAnswers ==
  ASSUME NEW c \in Context
  PROVE  /\ \A w \in StatusWords \cup {"config"} : Sw(w) \in OwnAnswer
         /\ Pubkey(c, NoPayload, "none") \in OwnAnswer
         /\ swap => Signature(c, NoPayload, "swap") \in OwnAnswer
  <1>1. ASSUME NEW w \in StatusWords \cup {"config"} PROVE Sw(w) \in OwnAnswer
    BY DataTypes DEF OwnAnswer, Sw, StatusWords
  <1>2. Pubkey(c, NoPayload, "none") \in OwnAnswer
    BY DataTypes, AnswerTypes DEF OwnAnswer, Pubkey
  <1>3. swap => Signature(c, NoPayload, "swap") \in OwnAnswer
    BY DataTypes, AnswerTypes DEF OwnAnswer, Signature
  <1> QED BY <1>1, <1>2, <1>3

\* Fits contains the cleared context, and what a handler sets in it stays in Fits.
LEMMA FitsTypes ==
  /\ ZeroContext \in Fits
  /\ \A c \in Fits :
       /\ \A p \in MaybePath : [c EXCEPT !.path = p] \in Fits /\ [c EXCEPT !.pubkey = p] \in Fits
       /\ \A d \in Digest : [c EXCEPT !.hash = d] \in Fits
       /\ \A t \in {"ADDRESS", "TX", "HASH"} : [c EXCEPT !.reqType = t] \in Fits
       /\ \A s \in {"NONE", "PARSED", "APPROVED"} : [c EXCEPT !.state = s] \in Fits
  <1>1. ZeroContext \in Fits
    BY DataTypes, ConstantsOK DEF Fits, ZeroContext
  <1> QED BY <1>1 DEF Fits, Context

\* get_public_key.c.
LEMMA GetPublicKeyHandled ==
  ASSUME TypeOK, WaitingScreenIsCurrent, GetPublicKey
  PROVE  Taken /\ \E c \in Fits : Handled(c)
  <1> DEFINE c == [ZeroContext EXCEPT !.path = inbox.path, !.pubkey = inbox.path]
  <1>1. Taken
    BY TakeTaken DEF GetPublicKey, Instructions
  <1>2. inbox.path \in MaybePath /\ NoPath \in MaybePath
    BY <1>1, CommandTypes DEF Taken, MaybePath
  <1>3. c \in Fits /\ [c EXCEPT !.pubkey = NoPath] \in Fits /\ ZeroContext \in Fits
    BY <1>2, FitsTypes DEF ZeroContext, Fits, Context
  <1>4. c.reqType = "ADDRESS" /\ c.state = "NONE"
    BY DEF ZeroContext
  <1>5. CASE Return(ZeroContext, Sw("WRONG_DATA_LENGTH"))
    BY <1>1, <1>3, <1>5, Answered, OwnAnswers DEF Handled, StatusWords, Fits
  <1>6. CASE Throw([c EXCEPT !.pubkey = NoPath], Sw("THROWN"))
    BY <1>1, <1>3, <1>6, Answered, OwnAnswers DEF Handled, StatusWords, Fits
  <1>7. CASE Show(c, "address", PubkeyOf(c), "ADDRESS", "NONE")
    <2>1. Displays(c, "address", PubkeyOf(c))
      BY <1>4, <1>7, Displayed
    <2>2. PubkeyOf(c) \in Payload
      BY <1>3, DataTypes, AnswerTypes DEF Fits
    <2> QED BY <1>1, <1>3, <2>1, <2>2 DEF Handled, Reviewable, Reviews
  <1>8. CASE Return(c, Pubkey(c, NoPayload, "none"))
    BY <1>1, <1>3, <1>8, Answered, OwnAnswers DEF Handled, Fits
  <1> QED BY <1>5, <1>6, <1>7, <1>8 DEF GetPublicKey

\* sign_transaction_hash.c.
LEMMA SignTxHashHandled ==
  ASSUME TypeOK, WaitingScreenIsCurrent, SignTxHash
  PROVE  Taken /\ \E c \in Fits : Handled(c)
  <1> DEFINE c0 == [ZeroContext EXCEPT !.reqType = "HASH"]
             c1 == [c0 EXCEPT !.path = inbox.path, !.pubkey = inbox.path]
             c2 == [c1 EXCEPT !.hash = GivenDigest(inbox.data)]
             c3 == [c1 EXCEPT !.pubkey = NoPath]
  <1>1. Taken
    BY TakeTaken DEF SignTxHash, Instructions
  <1>2. inbox.path \in MaybePath /\ NoPath \in MaybePath /\ GivenDigest(inbox.data) \in Digest
    BY <1>1, CommandTypes DEF Taken, MaybePath, GivenDigest, Digest
  <1>3. c0 \in Fits /\ c1 \in Fits /\ c2 \in Fits /\ c3 \in Fits /\ ctx \in Fits
    <2>1. c0 \in Fits
      BY FitsTypes
    <2>2. c1 \in Fits
      BY <1>2, <2>1 DEF Fits, Context
    <2>3. c2 \in Fits /\ c3 \in Fits
      BY <1>2, <2>2, FitsTypes
    <2> QED BY <2>1, <2>2, <2>3 DEF TypeOK, Fits
  <1>4. c2.reqType = "HASH" /\ c2.state = "NONE" /\ c2.hash.kind = "given"
    BY DEF ZeroContext, GivenDigest
  <1>5. CASE Return(ctx, Sw("HASH_SIGNING_NOT_ENABLED"))
    BY <1>1, <1>3, <1>5, Answered, OwnAnswers DEF Handled, StatusWords, Fits
  <1>6. CASE Return(c0, Sw("WRONG_DATA_LENGTH"))
    BY <1>1, <1>3, <1>6, Answered, OwnAnswers DEF Handled, StatusWords, Fits
  <1>7. CASE Throw(c3, Sw("THROWN"))
    BY <1>1, <1>3, <1>7, Answered, OwnAnswers DEF Handled, StatusWords, Fits
  <1>8. CASE Return(c1, Sw("WRONG_DATA_LENGTH"))
    BY <1>1, <1>3, <1>8, Answered, OwnAnswers DEF Handled, StatusWords, Fits
  <1>9. CASE nv.hashSigning /\ Show(c2, "hash", SignatureOf(c2), "HASH", "NONE")
    <2>1. Displays(c2, "hash", SignatureOf(c2))
      BY <1>4, <1>9, Displayed
    <2>2. SignatureOf(c2) \in Payload
      BY <1>3, DataTypes, AnswerTypes DEF Fits
    <2>3. Reviewable(c2, "hash", SignatureOf(c2))
      BY <1>4, <1>9 DEF Reviewable
    <2> QED BY <1>1, <1>3, <2>1, <2>2, <2>3 DEF Handled, Reviews
  <1> QED BY <1>5, <1>6, <1>7, <1>8, <1>9 DEF SignTxHash

\* sign_transaction.c, from the hash of the data on.
LEMMA FinishHandled ==
  ASSUME TypeOK, WaitingScreenIsCurrent, NEW c \in Fits, c.reqType = "TX", Finish(c)
  PROVE  \E k \in Fits : Handled(k)
  <1> DEFINE c1 == [c EXCEPT !.hash = RawDigest(c.raw)]
             c2 == [c1 EXCEPT !.state = "PARSED"]
             c3 == [c2 EXCEPT !.pubkey = c.path]
             c4 == [c2 EXCEPT !.state = "NONE"]
  <1>1. RawDigest(c.raw) \in Digest /\ c.path \in MaybePath
    BY DEF Fits, Context, RawDigest, Digest
  <1>2. c1 \in Fits /\ c2 \in Fits /\ c3 \in Fits /\ c4 \in Fits
    <2>1. c1 \in Fits
      BY <1>1, FitsTypes
    <2>2. c2 \in Fits
      BY <2>1, FitsTypes
    <2> QED BY <1>1, <2>1, <2>2, FitsTypes
  <1>3. c3.reqType = "TX" /\ c3.state = "PARSED" /\ c3.hash.kind = "raw"
    BY DEF Fits, Context, RawDigest
  <1>4. CASE Throw(c1, Sw("THROWN")) \/ Throw(c2, Sw("THROWN"))
    BY <1>2, <1>4, Answered, OwnAnswers DEF Handled, StatusWords, Fits
  <1>5. CASE Return(c2, Sw("SWAP_CHECKING_FAIL")) \/ Return(c4, Sw("SIGNATURE_FAIL"))
    BY <1>2, <1>5, Answered, OwnAnswers DEF Handled, StatusWords, Fits
  <1>6. CASE swap /\ Return(c2, Signature(c2, NoPayload, "swap"))
    BY <1>2, <1>6, Answered, OwnAnswers DEF Handled, Fits
  <1>7. CASE Show(c3, "tx", SignatureOf(c3), "TX", "PARSED")
    <2>1. Displays(c3, "tx", SignatureOf(c3))
      BY <1>3, <1>7, Displayed
    <2>2. SignatureOf(c3) \in Payload
      BY <1>2, DataTypes, AnswerTypes DEF Fits
    <2>3. Reviewable(c3, "tx", SignatureOf(c3))
      BY <1>3 DEF Reviewable
    <2> QED BY <1>2, <2>1, <2>2, <2>3 DEF Handled, Reviews
  <1> QED BY <1>4, <1>5, <1>6, <1>7 DEF Finish

\* handler_sign_tx with a chunk in place: it asks for more, or finishes the transaction.
LEMMA ContinueHandled ==
  ASSUME TypeOK, WaitingScreenIsCurrent, NEW c \in Fits, c.reqType = "TX", Continue(c)
  PROVE  \E k \in Fits : Handled(k)
  <1>1. CASE Return(c, Sw("OK"))
    BY <1>1, Answered, OwnAnswers DEF Handled, StatusWords, Fits
  <1> QED BY <1>1, FinishHandled DEF Continue

\* sign_transaction.c: the data of a first chunk fits, for the whole command does.
LEMMA SignTxFirstHandled ==
  ASSUME TypeOK, WaitingScreenIsCurrent, SignTxFirst
  PROVE  Taken /\ \E c \in Fits : Handled(c)
  <1> DEFINE c0 == [ZeroContext EXCEPT !.reqType = "TX"]
             c1 == [c0 EXCEPT !.path = inbox.path, !.raw = inbox.data,
                              !.rawSize = DataLen(inbox.data)]
  <1>1. Taken /\ inbox.ins = "SIGN_TX"
    BY TakeTaken DEF SignTxFirst, Instructions, Take
  <1>2. /\ inbox.path \in MaybePath /\ inbox.data \in Seq(Chunks \cup Hashes)
        /\ DataLen(inbox.data) \in Nat
    BY <1>1, CommandTypes DEF Taken
  <1>3. c0 \in Fits /\ ZeroContext \in Fits
    BY FitsTypes
  <1>4. CASE Return(ZeroContext, Sw("WRONG_TX_LENGTH"))
    BY <1>1, <1>3, <1>4, Answered, OwnAnswers DEF Handled, StatusWords, Fits
  <1>5. CASE Return(c0, Sw("WRONG_DATA_LENGTH"))
    BY <1>1, <1>3, <1>5, Answered, OwnAnswers DEF Handled, StatusWords, Fits
  <1>6. CASE PathLen + DataLen(inbox.data) <= RawTxMaxSize /\ Continue(c1)
    <2>1. c1 \in Fits /\ c1.reqType = "TX"
      <3>1. DataLen(inbox.data) <= RawTxMaxSize
        BY <1>2, <1>6, ConstantsOK
      <3>2. ASSUME NEW k \in Fits
            PROVE  LET j == [k EXCEPT !.path = inbox.path, !.raw = inbox.data,
                                      !.rawSize = DataLen(inbox.data)]
                   IN  j \in Fits /\ j.reqType = k.reqType
        BY <1>2, <3>1 DEF Fits, Context
      <3>3. c0.reqType = "TX"
        BY DEF ZeroContext
      <3> QED BY <1>3, <3>2, <3>3
    <2> QED BY <1>1, <1>6, <2>1, ContinueHandled
  <1> QED BY <1>4, <1>5, <1>6 DEF SignTxFirst

\* sign_transaction.c: a further chunk is appended only if it fits.
LEMMA SignTxNextHandled ==
  ASSUME TypeOK, WaitingScreenIsCurrent, SignTxNext
  PROVE  Taken /\ \E c \in Fits : Handled(c)
  <1> DEFINE size == ctx.rawSize + DataLen(inbox.data)
             c1   == [ctx EXCEPT !.raw = @ \o inbox.data, !.rawSize = size]
  <1>1. Taken /\ inbox.ins = "SIGN_TX"
    BY TakeTaken DEF SignTxNext, Instructions, Take
  <1>2. inbox.data \in Seq(Chunks \cup Hashes) /\ DataLen(inbox.data) \in Nat
    BY <1>1, CommandTypes DEF Taken
  <1>3. ctx \in Fits
    BY DEF TypeOK, Fits
  <1>4. CASE Return(ctx, Sw("WRONG_TX_LENGTH")) \/ Return(ctx, Sw("BAD_STATE"))
    BY <1>1, <1>3, <1>4, Answered, OwnAnswers DEF Handled, StatusWords, Fits
  <1>5. CASE size <= RawTxMaxSize /\ ctx.reqType = "TX" /\ Continue(c1)
    <2>1. ctx.raw \o inbox.data \in Seq(Chunks \cup Hashes) /\ size \in Nat
      BY <1>2, <1>3 DEF Fits, Context
    <2>2. c1 \in Fits /\ c1.reqType = "TX"
      BY <1>3, <1>5, <2>1 DEF Fits, Context
    <2> QED BY <1>1, <1>5, <2>2, ContinueHandled
  <1> QED BY <1>4, <1>5 DEF SignTxNext

\* Every command leaves a context whose data fits, and either answers or puts on
\* display a review of that context.
LEMMA CommandHandled ==
  ASSUME TypeOK, WaitingScreenIsCurrent, HandleCommand
  PROVE  Taken /\ \E c \in Fits : Handled(c)
  <1>1. ctx \in Fits
    BY DEF TypeOK, Fits
  <1>2. CASE RejectLength
    <2>1. Taken
      BY <1>2, TakeTaken DEF RejectLength, Instructions
    <2> QED BY <1>1, <1>2, <2>1, Answered, OwnAnswers
            DEF RejectLength, Handled, StatusWords, Fits
  <1>3. CASE RejectHeader
    <2>1. Taken
      BY <1>3, TakeTaken DEF RejectHeader, Instructions
    <2> QED BY <1>1, <1>3, <2>1, Answered, OwnAnswers
            DEF RejectHeader, Handled, StatusWords, Fits
  <1>4. CASE GetAppConfiguration
    <2>1. Taken
      BY <1>4, TakeTaken DEF GetAppConfiguration, Instructions
    <2> QED BY <1>1, <1>4, <2>1, Answered, OwnAnswers DEF GetAppConfiguration, Handled, Fits
  <1> QED BY <1>2, <1>3, <1>4, GetPublicKeyHandled, SignTxHashHandled, SignTxFirstHandled,
             SignTxNextHandled DEF HandleCommand
-----------------------------------------------------------------------------
(* What a button press does to the loop.                                    *)

\* What a callback may send: only the user's approval of the flow on display signs, and
\* it answers with what the context holds.
UserAnswer ==
  {r \in Reply :
     /\ r # NoReply /\ r.kind # "clobbered" /\ r.consent # "swap"
     /\ r.kind = "signature" => r.consent = "user" /\ screen.flow \in {"tx", "hash"}
     /\ r.consent = "user" => r.body = Consented /\ r.shown = screen.shown}

\* A callback sent r, if io.c was waiting for it, and went to the menu.
Responds(c, r) ==
  /\ ctx' = c /\ screen' = Plain("menu") /\ io' = "READY" /\ out' \in {NoReply, r}
  /\ owed' \in BOOLEAN /\ (io = "WAITING" => owed' = FALSE)
  /\ wire' = IF io = "WAITING" THEN [reply |-> r, solicited |-> owed] ELSE wire
  /\ UNCHANGED <<session, swap, nv, recv, inbox, asked, disturbed>>

\* A callback threw: an error was sent, and the flow stays although io.c is not WAITING.
Fails(c) ==
  /\ ctx' = c /\ screen' = screen /\ io' = "RECEIVED" /\ recv' = "idle" /\ session' = "running"
  /\ out' \in {NoReply, Sw("THROWN")} /\ owed' \in BOOLEAN /\ disturbed' = TRUE
  /\ wire' \in {[reply |-> Sw("THROWN"), solicited |-> o] : o \in BOOLEAN}
  /\ UNCHANGED <<swap, nv, inbox, asked>>

\* An answer of a callback leaves its context, the main menu and at most one answer sent.
LEMMA Responded ==
  ASSUME TypeOK, NEW c, NEW r \in UserAnswer, Answer(c, r)
  PROVE  Responds(c, r)
  <1>1. CASE io = "WAITING"
    BY <1>1 DEF Answer, SendResponse, Transmit, Responds, UserAnswer, TypeOK
  <1>2. CASE io # "WAITING"
    BY <1>2 DEF Answer, SendResponse, Transmit, Responds, UserAnswer, TypeOK
  <1> QED BY <1>1, <1>2

\* A callback that throws answers with the exception and leaves the review on display.
LEMMA Failed ==
  ASSUME TypeOK, NEW c, CallbackThrows(c)
  PROVE  Fails(c)
  <1>1. Sw("THROWN") # NoReply
    BY DEF Sw, NoReply
  <1>2. CASE io = "WAITING"
    BY <1>1, <1>2 DEF CallbackThrows, SendResponse, Listen, Transmit, Fails, TypeOK
  <1>3. CASE io # "WAITING"
    BY <1>1, <1>3 DEF CallbackThrows, SendResponse, Listen, Transmit, Fails, TypeOK
  <1> QED BY <1>2, <1>3

\* A button press that ends a review responds or fails.
LEMMA Decided ==
  ASSUME TypeOK, Decide \/ PageThrows
  PROVE  /\ session = "running"
         /\ \E c \in Fits : Fails(c) \/ \E r \in UserAnswer : Responds(c, r)
  <1> DEFINE none == [ctx EXCEPT !.state = "NONE"]
             done == [ctx EXCEPT !.state = "APPROVED"]
  <1>1. ctx \in Fits /\ screen.shown \in Payload
    BY DEF TypeOK, Fits, Screen
  <1>2. none \in Fits /\ done \in Fits
    BY <1>1, FitsTypes
  <1>3. Sw("DENY") \in UserAnswer /\ Sw("SIGNATURE_FAIL") \in UserAnswer
    BY DataTypes DEF UserAnswer, Sw, NoReply, StatusWords
  <1>4. CASE ApproveAddress
    <2>1. Pubkey(ctx, screen.shown, "user") \in Reply
      BY <1>1, AnswerTypes DEF Fits
    <2>2. Pubkey(ctx, screen.shown, "user") \in UserAnswer
      BY <1>4, <2>1 DEF UserAnswer, Pubkey, NoReply, Sw, Consented, ApproveAddress, Showing
    <2> QED BY <1>1, <1>4, <2>2, Responded DEF ApproveAddress, Showing
  <1>5. CASE RejectAddress
    BY <1>1, <1>3, <1>5, Responded DEF RejectAddress, Showing
  <1>6. CASE ApproveTransaction
    <2>1. Signature(ctx, screen.shown, "user") \in Reply
      BY <1>1, AnswerTypes DEF Fits
    <2>2. Signature(ctx, screen.shown, "user") \in UserAnswer
      BY <1>6, <2>1 DEF UserAnswer, Signature, NoReply, Sw, Consented, ApproveTransaction, Showing
    <2> QED BY <1>1, <1>2, <1>3, <1>6, <2>2, Responded, Failed DEF ApproveTransaction, Showing
  <1>7. CASE RejectTransaction
    BY <1>1, <1>2, <1>3, <1>7, Responded DEF RejectTransaction, Showing
  <1>8. CASE PageThrows
    BY <1>1, <1>8, Failed DEF PageThrows, Showing
  <1> QED BY <1>4, <1>5, <1>6, <1>7, <1>8 DEF Decide
-----------------------------------------------------------------------------
(* The inductive invariant.  Beside the properties it holds that a signing  *)
(* flow never shows the zeroed payload, which the oracle reads as "none".   *)

SigningShowsPayload == screen.flow \in {"tx", "hash"} => screen.shown.digest.kind # "zero"

Inv == TypeOK /\ WaitingScreenIsCurrent /\ SignedAsShown /\ HashReviewAllowed
       /\ SigningShowsPayload

\* The screens without a review.
LEMMA PlainTypes ==
  ASSUME NEW f \in {"blank", "menu", "settings"}
  PROVE  Plain(f) \in Screen /\ Plain(f).flow = f
  BY DataTypes DEF Plain, Screen

\* The invariant holds of the device as delivered.
LEMMA InitInv == Init => Inv
  <1> SUFFICES ASSUME Init PROVE Inv
    OBVIOUS
  <1>1. TypeOK
    BY DataTypes, FitsTypes, PlainTypes DEF Init, TypeOK, Settings, Fits
  <1>2. SignedAsShown
    BY DEF Init, SignedAsShown, Silence, NoReply, Sw
  <1> QED BY <1>1, <1>2, PlainTypes
          DEF Init, Inv, WaitingScreenIsCurrent, HashReviewAllowed, SigningShowsPayload

\* Commands preserve the invariant.
LEMMA CommandInv ==
  ASSUME Inv, HandleCommand
  PROVE  Inv'
  <1>1. Taken /\ TypeOK /\ WaitingScreenIsCurrent
    BY CommandHandled DEF Inv
  <1>2. PICK c \in Fits : Handled(c)
    BY <1>1, CommandHandled
  <1>3. CASE \E r \in OwnAnswer : Replies(c, r)
    <2>1. PICK r \in OwnAnswer : Replies(c, r)
      BY <1>3
    <2>2. r \in Reply /\ wire \in Wire /\ [reply |-> r, solicited |-> TRUE] \in Wire
      BY <1>1 DEF OwnAnswer, TypeOK, Wire
    <2>3. TypeOK'
      BY <1>1, <2>1, <2>2 DEF TypeOK, Replies, Taken, Fits
    <2>4. WaitingScreenIsCurrent'
      BY <2>1 DEF Replies, WaitingScreenIsCurrent
    <2>5. SignedAsShown'
      BY <1>1, <2>1 DEF Inv, Replies, SignedAsShown, OwnAnswer, Taken
    <2> QED BY <1>1, <2>1, <2>3, <2>4, <2>5
            DEF Inv, HashReviewAllowed, SigningShowsPayload, Replies, Taken
  <1>4. CASE \E f \in Reviews : \E seen \in Payload : Reviewable(c, f, seen) /\ Displays(c, f, seen)
    <2>1. PICK f \in Reviews, seen \in Payload : Reviewable(c, f, seen) /\ Displays(c, f, seen)
      BY <1>4
    <2>2. /\ wire \in Wire /\ [reply |-> Clobbered, solicited |-> TRUE] \in Wire
          /\ NoReply \in Reply /\ Clobbered \in Reply
      BY <1>1, DataTypes DEF TypeOK, Wire
    <2>3. screen' \in Screen
      BY <2>1 DEF Displays, Screen
    <2>4. TypeOK'
      BY <1>1, <2>1, <2>2, <2>3 DEF TypeOK, Displays, Taken, Fits
    <2>5. WaitingScreenIsCurrent'
      BY <2>1 DEF Displays, Reviewable, WaitingScreenIsCurrent, Consented, PubkeyOf, SignatureOf
    <2>6. SignedAsShown'
      BY <1>1, <2>1 DEF Inv, Displays, SignedAsShown, Clobbered, Sw, Taken
    <2>7. HashReviewAllowed' /\ SigningShowsPayload'
      BY <1>1, <2>1 DEF Displays, Reviewable, HashReviewAllowed, SigningShowsPayload, Taken,
                        SignatureOf
    <2> QED BY <2>4, <2>5, <2>6, <2>7 DEF Inv
  <1> QED BY <1>2, <1>3, <1>4 DEF Handled

\* The user's decisions, and pages that cannot be formatted, preserve the invariant.
LEMMA DecideInv ==
  ASSUME Inv, Decide \/ PageThrows
  PROVE  Inv'
  <1>1. TypeOK /\ WaitingScreenIsCurrent
    BY DEF Inv
  <1>2. PICK c \in Fits : Fails(c) \/ \E r \in UserAnswer : Responds(c, r)
    BY <1>1, Decided
  <1>3. CASE Fails(c)
    <2>1. PICK o \in BOOLEAN : wire' = [reply |-> Sw("THROWN"), solicited |-> o]
      BY <1>3 DEF Fails
    <2>2. Sw("THROWN") \in Reply /\ NoReply \in Reply
      BY DataTypes DEF StatusWords
    <2>3. TypeOK'
      BY <1>1, <1>3, <2>1, <2>2 DEF TypeOK, Fails, Fits, Wire
    <2>4. SignedAsShown'
      BY <2>1 DEF SignedAsShown, Sw
    <2> QED BY <1>3, <2>3, <2>4
            DEF Inv, Fails, WaitingScreenIsCurrent, HashReviewAllowed, SigningShowsPayload
  <1>4. CASE \E r \in UserAnswer : Responds(c, r)
    <2>1. PICK r \in UserAnswer : Responds(c, r)
      BY <1>4
    <2>2. r \in Reply /\ NoReply \in Reply /\ [reply |-> r, solicited |-> owed] \in Wire
      BY <1>1, DataTypes DEF UserAnswer, TypeOK, Wire
    <2>3. TypeOK'
      BY <1>1, <2>1, <2>2, PlainTypes DEF TypeOK, Responds, Fits
    <2>4. SignedAsShown'
      <3>1. CASE io = "WAITING"
        BY <1>1, <2>1, <3>1 DEF Responds, SignedAsShown, UserAnswer, WaitingScreenIsCurrent
      <3>2. CASE io # "WAITING"
        BY <2>1, <3>2 DEF Inv, Responds, SignedAsShown
      <3> QED BY <3>1, <3>2
    <2> QED BY <2>1, <2>3, <2>4, PlainTypes
            DEF Inv, Responds, WaitingScreenIsCurrent, HashReviewAllowed, SigningShowsPayload
  <1> QED BY <1>2, <1>3, <1>4

\* A host that sends, at any moment, preserves the invariant.
LEMMA SendInv ==
  ASSUME Inv, Send
  PROVE  Inv'
  <1>1. TypeOK'
    BY DataTypes DEF Inv, TypeOK, Send, deviceVars
  <1>2. SignedAsShown'
    BY DEF Send, SignedAsShown, Silence, NoReply, Sw
  <1>3. WaitingScreenIsCurrent'
    BY DEF Inv, Send, deviceVars, WaitingScreenIsCurrent, Consented, PubkeyOf, SignatureOf
  <1> QED BY <1>1, <1>2, <1>3
          DEF Inv, Send, deviceVars, HashReviewAllowed, SigningShowsPayload

\* The menu and the settings preserve the invariant: they are not on display while a
\* review waits.
LEMMA MenuInv ==
  ASSUME Inv, OpenSettings \/ LeaveSettings \/ ToggleHashSigning
  PROVE  Inv'
  <1>1. PICK f \in {"menu", "settings"}, t \in {"menu", "settings"} : Menu(f, t)
    BY DEF OpenSettings, LeaveSettings, ToggleHashSigning
  <1>2. nv' \in Settings
    BY DEF Inv, TypeOK, Settings, OpenSettings, LeaveSettings, ToggleHashSigning
  <1>3. TypeOK'
    BY <1>1, <1>2, PlainTypes DEF Inv, TypeOK, Menu, hostVars
  <1>4. io' # "WAITING"
    BY <1>1 DEF Inv, Menu, WaitingScreenIsCurrent, Showing, Reviews
  <1>5. screen' = Plain(t) /\ UNCHANGED <<swap, wire>>
    BY <1>1 DEF Menu, hostVars
  <1> QED BY <1>3, <1>4, <1>5, PlainTypes
          DEF Inv, WaitingScreenIsCurrent, SignedAsShown, HashReviewAllowed, SigningShowsPayload

\* Starting and stopping preserve the invariant.
LEMMA SessionInv ==
  ASSUME Inv, Launch \/ LaunchForSwap \/ Relaunch \/ Unplug \/ TurnOff
  PROVE  Inv'
  <1>1. StartStandalone \/ LaunchForSwap \/ PowerOff
    BY DEF Launch, Relaunch, Unplug, TurnOff, Restart
  <1>2. nv' \in Settings
    <2>1. nv' \in {nv, [initialized |-> TRUE, hashSigning |-> FALSE]}
      BY <1>1 DEF StartStandalone, LaunchForSwap, PowerOff
    <2>2. nv \in Settings /\ [initialized |-> TRUE, hashSigning |-> FALSE] \in Settings
      BY DEF Inv, TypeOK, Settings
    <2> QED BY <2>1, <2>2
  <1>3. PICK f \in {"blank", "menu", "settings"} : screen' = Plain(f)
    BY <1>1 DEF StartStandalone, LaunchForSwap, PowerOff, StartAppMain
  <1>4. /\ session' \in {"off", "running"} /\ swap' \in BOOLEAN
        /\ io' \in {"READY", "RECEIVED"} /\ recv' = "idle" /\ out' = NoReply
        /\ ctx' = ZeroContext /\ inbox' = NoCommand /\ asked' = NoCommand
        /\ owed' = FALSE /\ wire' = Silence /\ disturbed' = FALSE
    BY <1>1 DEF StartStandalone, LaunchForSwap, PowerOff, StartAppMain
  <1>5. TypeOK'
    BY <1>2, <1>3, <1>4, DataTypes, FitsTypes, PlainTypes DEF TypeOK, Fits
  <1>6. SignedAsShown'
    BY <1>4 DEF SignedAsShown, Silence, NoReply, Sw
  <1> QED BY <1>3, <1>4, <1>5, <1>6, PlainTypes
          DEF Inv, WaitingScreenIsCurrent, HashReviewAllowed, SigningShowsPayload

\* The invariant speaks of the variables only.
LEMMA StutterInv ==
  ASSUME Inv, UNCHANGED vars
  PROVE  Inv'
  BY DEF Inv, vars, TypeOK, WaitingScreenIsCurrent, Consented, PubkeyOf, SignatureOf,
         SignedAsShown, HashReviewAllowed, SigningShowsPayload

\* Every step preserves the invariant.
LEMMA NextInv ==
  ASSUME Inv, [Next]_vars
  PROVE  Inv'
  BY CommandInv, DecideInv, SendInv, MenuInv, SessionInv, StutterInv
     DEF Next, HandleCommand, Decide

\* The invariant holds in every state of every execution.
THEOREM Invariance == Spec => []Inv
  <1>1. Init => Inv
    BY InitInv
  <1>2. Inv /\ [Next]_vars => Inv'
    BY NextInv
  <1> QED BY <1>1, <1>2, PTL DEF Spec

\* Type correctness: with any chunks in any order, tx_info.raw is never overrun.
THEOREM TypeCorrect == Spec => []TypeOK
  <1>1. Inv => TypeOK
    BY DEF Inv
  <1> QED BY <1>1, Invariance, PTL

\* No command changes the context behind a review whose answer will reach the host.
THEOREM ReviewsAreCurrent == Spec => []WaitingScreenIsCurrent
  <1>1. Inv => WaitingScreenIsCurrent
    BY DEF Inv
  <1> QED BY <1>1, Invariance, PTL

\* What the host receives signed is what the user saw, whatever the host sends meanwhile.
THEOREM SignaturesAreShown == Spec => []SignedAsShown
  <1>1. Inv => SignedAsShown
    BY DEF Inv
  <1> QED BY <1>1, Invariance, PTL

\* A step that enables hash signing is one of the user in front of the settings: commands and
\* decisions leave N_settings, and a start of the application only ever disables it.
LEMMA OnlyTheUserEnables ==
  ASSUME Inv, [Next]_vars, ~nv.hashSigning, nv'.hashSigning
  PROVE  Showing({"settings"})
  <1>1. nv' # nv
    OBVIOUS
  <1>2. CASE HandleCommand
    <2>1. Taken
      BY <1>2, CommandHandled DEF Inv
    <2> QED BY <1>1, <2>1 DEF Taken
  <1>3. CASE Decide \/ PageThrows
    <2>1. PICK c \in Fits : Fails(c) \/ \E r \in UserAnswer : Responds(c, r)
      BY <1>3, Decided DEF Inv
    <2> QED BY <1>1, <2>1 DEF Fails, Responds
  <1>4. CASE Send \/ UNCHANGED vars
    BY <1>1, <1>4 DEF Send, deviceVars, vars
  <1>5. CASE OpenSettings \/ LeaveSettings \/ ToggleHashSigning
    BY <1>1, <1>5 DEF OpenSettings, LeaveSettings, ToggleHashSigning, Menu
  <1>6. CASE Launch \/ LaunchForSwap \/ Relaunch \/ Unplug \/ TurnOff
    <2>1. StartStandalone \/ LaunchForSwap \/ PowerOff
      BY <1>6 DEF Launch, Relaunch, Unplug, TurnOff, Restart
    <2>2. nv' \in {nv, [initialized |-> TRUE, hashSigning |-> FALSE]}
      BY <2>1 DEF StartStandalone, LaunchForSwap, PowerOff
    <2> QED BY <1>1, <2>2
  <1> QED BY <1>2, <1>3, <1>4, <1>5, <1>6 DEF Next, HandleCommand, Decide

\* A hash is reviewed only while the setting allows it, and only the user turns that on,
\* whatever commands, restarts, swaps and losses of power there are in between.
THEOREM HashSigningIsGated == Spec => HashSigningGated
  <1>1. Inv => HashReviewAllowed
    BY DEF Inv
  <1>2. Inv /\ [Next]_vars => [~nv.hashSigning /\ nv'.hashSigning => Showing({"settings"})]_vars
    BY OnlyTheUserEnables
  <1> QED BY <1>1, <1>2, Invariance, PTL DEF Spec, HashSigningGated
-----------------------------------------------------------------------------
(* A host that waits for its answers, and callbacks that do not throw.      *)

\* Between two commands io.c is RECEIVED, or was while it waits for the user; a review
\* is on display exactly while it waits, and then no command is on its way.
Calm ==
  ~disturbed =>
    /\ session # "returned"
    /\ session = "running" =>
         /\ IoTaken = "RECEIVED"
         /\ owed <=> io = "WAITING"
         /\ owed <=> screen.flow \in Reviews
         /\ owed => inbox = NoCommand
    /\ wire.solicited /\ wire.reply.kind # "clobbered"

\* A command handled for a host that waits is answered, or puts a review on display that
\* owes its answer.
LEMMA CommandCalm ==
  ASSUME Inv, Calm, HandleCommand
  PROVE  Calm'
  <1>1. Taken /\ session = "running"
    BY CommandHandled DEF Inv, HandleCommand, RejectLength, RejectHeader, GetAppConfiguration,
       GetPublicKey, SignTxHash, SignTxFirst, SignTxNext, Take
  <1>2. PICK c \in Fits : Handled(c)
    BY CommandHandled DEF Inv
  <1> SUFFICES ASSUME ~disturbed PROVE Calm'
    BY <1>1 DEF Calm, Taken
  <1>3. /\ IoTaken = "RECEIVED" /\ ~owed /\ screen.flow \notin Reviews
        /\ wire.solicited /\ wire.reply.kind # "clobbered"
    BY <1>1, CommandTypes DEF Calm, Taken, Inv, TypeOK
  <1>4. CASE \E r \in OwnAnswer : Replies(c, r)
    <2>1. PICK r \in OwnAnswer : Replies(c, r)
      BY <1>4
    <2>2. /\ io' = "RECEIVED" /\ recv' = "idle" /\ session' = "running" /\ owed' = FALSE
          /\ wire' = [reply |-> r, solicited |-> TRUE] /\ screen' = screen
          /\ r.kind # "clobbered"
      BY <1>3, <2>1 DEF Replies, OwnAnswer
    <2> QED BY <1>3, <2>2 DEF Calm, IoTaken
  <1>5. CASE \E f \in Reviews : \E seen \in Payload : Reviewable(c, f, seen) /\ Displays(c, f, seen)
    <2>1. PICK f \in Reviews, seen \in Payload : Displays(c, f, seen)
      BY <1>5
    <2>2. /\ io' = "WAITING" /\ recv' = "async" /\ session' = "running" /\ owed' = TRUE
          /\ wire' = wire /\ screen'.flow \in Reviews /\ inbox' = NoCommand
      BY <1>1, <1>3, <2>1 DEF Displays, Taken
    <2> QED BY <1>3, <2>2 DEF Calm, IoTaken
  <1> QED BY <1>2, <1>4, <1>5 DEF Handled

\* A decision answers what the review owes; an exception in a callback ends the calm.
LEMMA DecideCalm ==
  ASSUME Inv, Calm, Decide \/ PageThrows
  PROVE  Calm'
  <1>1. PICK c \in Fits : Fails(c) \/ \E r \in UserAnswer : Responds(c, r)
    BY Decided DEF Inv
  <1>2. session = "running" /\ screen.flow \in Reviews
    BY DEF Decide, ApproveAddress, RejectAddress, ApproveTransaction, RejectTransaction,
           PageThrows, Showing, Reviews
  <1>3. CASE Fails(c)
    BY <1>3 DEF Fails, Calm
  <1>4. CASE \E r \in UserAnswer : Responds(c, r)
    <2> SUFFICES ASSUME ~disturbed PROVE Calm'
      BY <1>4 DEF Calm, Responds
    <2>1. PICK r \in UserAnswer : Responds(c, r)
      BY <1>4
    <2>2. io = "WAITING" /\ recv = "async" /\ owed
      BY <1>2 DEF Calm, Inv, WaitingScreenIsCurrent
    <2>3. /\ io' = "READY" /\ recv' = "async" /\ session' = "running" /\ owed' = FALSE
          /\ screen' = Plain("menu") /\ wire' = [reply |-> r, solicited |-> owed]
          /\ r.kind # "clobbered"
      BY <1>2, <2>1, <2>2 DEF Responds, UserAnswer
    <2>4. screen'.flow \notin Reviews
      BY <2>3, PlainTypes DEF Reviews
    <2> QED BY <2>2, <2>3, <2>4 DEF Calm, IoTaken
  <1> QED BY <1>1, <1>3, <1>4

\* The host may only send when nothing is owed, and a restart begins calmly.
LEMMA OtherCalm ==
  ASSUME Inv, Calm,
         \/ Send \/ OpenSettings \/ LeaveSettings \/ ToggleHashSigning \/ UNCHANGED vars
         \/ Launch \/ LaunchForSwap \/ Relaunch \/ Unplug \/ TurnOff
  PROVE  Calm'
  <1>1. CASE Send
    <2> SUFFICES ASSUME ~disturbed, ~owed PROVE Calm'
      BY <1>1 DEF Send, Calm
    <2>1. /\ wire' = Silence /\ owed' = owed
          /\ UNCHANGED <<session, io, recv, screen>>
      BY <1>1 DEF Send, deviceVars
    <2> QED BY <2>1 DEF Calm, IoTaken, Silence, NoReply, Sw
  <1>2. CASE OpenSettings \/ LeaveSettings \/ ToggleHashSigning
    <2>1. PICK f \in {"menu", "settings"}, t \in {"menu", "settings"} : Menu(f, t)
      BY <1>2 DEF OpenSettings, LeaveSettings, ToggleHashSigning
    <2>2. /\ UNCHANGED <<session, io, recv, inbox, owed, wire, disturbed>>
          /\ screen.flow \notin Reviews /\ screen'.flow \notin Reviews
      BY <2>1, PlainTypes DEF Menu, hostVars, Showing, Reviews
    <2> QED BY <2>2 DEF Calm, IoTaken
  <1>3. CASE UNCHANGED vars
    BY <1>3 DEF vars, Calm, IoTaken
  <1>4. CASE Launch \/ LaunchForSwap \/ Relaunch \/ Unplug \/ TurnOff
    <2>1. StartStandalone \/ LaunchForSwap \/ PowerOff
      BY <1>4 DEF Launch, Relaunch, Unplug, TurnOff, Restart
    <2>2. PICK f \in {"blank", "menu", "settings"} : screen' = Plain(f)
      BY <2>1 DEF StartStandalone, LaunchForSwap, PowerOff, StartAppMain
    <2>3. /\ session' = "off" \/ (session' = "running" /\ io' = "RECEIVED")
          /\ io' # "WAITING" /\ recv' = "idle" /\ owed' = FALSE /\ wire' = Silence
      BY <2>1 DEF StartStandalone, LaunchForSwap, PowerOff, StartAppMain
    <2>4. screen'.flow \notin Reviews
      BY <2>2, PlainTypes DEF Reviews
    <2> QED BY <2>3, <2>4 DEF Calm, IoTaken, Silence, NoReply, Sw
  <1> QED BY <1>1, <1>2, <1>3, <1>4

\* A host that waits, and callbacks that do not throw, keep the application calm.
LEMMA Calmness == Spec => []Calm
  <1>1. Init => Calm
    BY DEF Init, Calm, Silence, NoReply, Sw
  <1>2. Inv /\ Calm /\ [Next]_vars => Calm'
    BY CommandCalm, DecideCalm, OtherCalm DEF Next, HandleCommand, Decide
  <1> QED BY <1>1, <1>2, Invariance, PTL DEF Spec

\* A review is on display exactly while a host that waits is owed an answer.
THEOREM ReviewsAreOwed == Spec => []NoOrphanReview
  <1>1. Calm => NoOrphanReview
    BY DEF Calm, NoOrphanReview
  <1> QED BY <1>1, Calmness, PTL

\* A host that waits receives answers to its commands only, never a clobbered buffer.
THEOREM RepliesAreSolicited == Spec => []NoStrayReply
  <1>1. Calm => NoStrayReply
    BY DEF Calm, NoStrayReply
  <1> QED BY <1>1, Calmness, PTL

\* A host that waits never makes app_main return.
THEOREM NeverRestarts == Spec => []NoSilentRestart
  <1>1. Calm => NoSilentRestart
    BY DEF Calm, NoSilentRestart
  <1> QED BY <1>1, Calmness, PTL
-----------------------------------------------------------------------------
(* Answers are to the last command.                                         *)

\* What approving the review on display would send, and that it would be an answer to the
\* last command: while io.c waits, no other command has been taken.
Approval == IF screen.flow = "address" THEN Pubkey(ctx, screen.shown, "user")
            ELSE Signature(ctx, screen.shown, "user")

Promised == io = "WAITING" => AnswersCommand(Approval, asked)

\* A step sends nothing new or an answer to the last command, and keeps the promise.
Answering ==
  /\ wire'.reply # wire.reply => AnswersCommand(wire'.reply, asked')
  /\ io' = "WAITING" => AnswersCommand(Approval', asked')

\* A status word answers any command.
LEMMA StatusAnswers ==
  ASSUME NEW w \in StatusWords \cup {"none", "clobbered"}, NEW c
  PROVE  AnswersCommand(Sw(w), c)
  BY DEF Sw, AnswersCommand, StatusWords

\* A handler that answers its command.
LEMMA ReplyAnswers ==
  ASSUME TypeOK, WaitingScreenIsCurrent, Taken, NEW c, NEW r \in OwnAnswer,
         AnswersCommand(r, inbox), Return(c, r) \/ Throw(c, r)
  PROVE  Answering
  <1>1. Replies(c, r)
    BY Answered
  <1>2. io' # "WAITING" /\ wire' \in {wire, [reply |-> r, solicited |-> TRUE]}
    BY <1>1 DEF Replies
  <1> QED BY <1>2 DEF Answering, Taken

\* A handler that leaves the answer to a review of its context.
LEMMA ShowAnswers ==
  ASSUME TypeOK, WaitingScreenIsCurrent, Taken,
         NEW c, NEW f, NEW seen, NEW type, NEW state, c.reqType = type, c.state = state,
         f = "address" => AnswersCommand(Pubkey(c, seen, "user"), inbox),
         f # "address" => AnswersCommand(Signature(c, seen, "user"), inbox),
         Show(c, f, seen, type, state)
  PROVE  Answering
  <1>1. Displays(c, f, seen)
    BY Displayed
  <1>2. /\ ctx' = c /\ screen'.flow = f /\ screen'.shown = seen /\ asked' = inbox
        /\ wire' = wire \/ wire'.reply = Clobbered
    BY <1>1 DEF Displays, Taken
  <1>3. AnswersCommand(Clobbered, inbox)
    BY StatusAnswers DEF Clobbered
  <1>4. Approval' = IF f = "address" THEN Pubkey(c, seen, "user") ELSE Signature(c, seen, "user")
    BY <1>2 DEF Approval, Pubkey, Signature, PubkeyOf, SignatureOf
  <1> QED BY <1>2, <1>3, <1>4 DEF Answering

\* A public key of the path that was named; a hash with the key of that path.
LEMMA GetPublicKeyAnswers ==
  ASSUME TypeOK, WaitingScreenIsCurrent, GetPublicKey
  PROVE  Answering
  <1> DEFINE c == [ZeroContext EXCEPT !.path = inbox.path, !.pubkey = inbox.path]
  <1>1. Taken /\ inbox.ins = "GET_PUBLIC_KEY"
    BY TakeTaken DEF GetPublicKey, Instructions, Take
  <1>2. inbox.path \in MaybePath
    BY <1>1, CommandTypes DEF Taken
  <1>3. c \in Context /\ c.reqType = "ADDRESS" /\ c.state = "NONE" /\ c.pubkey = inbox.path
    BY <1>2, DataTypes DEF ZeroContext, Context
  <1>4. \A w \in StatusWords : Sw(w) \in OwnAnswer
    BY DataTypes, OwnAnswers
  <1>5. CASE Return(ZeroContext, Sw("WRONG_DATA_LENGTH"))
    BY <1>1, <1>4, <1>5, StatusAnswers, ReplyAnswers DEF StatusWords
  <1>6. CASE Throw([c EXCEPT !.pubkey = NoPath], Sw("THROWN"))
    BY <1>1, <1>4, <1>6, StatusAnswers, ReplyAnswers DEF StatusWords
  <1>7. CASE inbox.p2 /\ Show(c, "address", PubkeyOf(c), "ADDRESS", "NONE")
    <2>1. AnswersCommand(Pubkey(c, PubkeyOf(c), "user"), inbox)
      BY <1>1, <1>3, <1>7 DEF AnswersCommand, Pubkey, PubkeyOf
    <2> QED BY <1>1, <1>3, <1>7, <2>1, ShowAnswers
  <1>8. CASE ~inbox.p2 /\ Return(c, Pubkey(c, NoPayload, "none"))
    <2>1. AnswersCommand(Pubkey(c, NoPayload, "none"), inbox)
      BY <1>1, <1>3, <1>8 DEF AnswersCommand, Pubkey, PubkeyOf
    <2> QED BY <1>1, <1>3, <1>8, <2>1, OwnAnswers, ReplyAnswers
  <1> QED BY <1>5, <1>6, <1>7, <1>8 DEF GetPublicKey

LEMMA SignTxHashAnswers ==
  ASSUME TypeOK, WaitingScreenIsCurrent, SignTxHash
  PROVE  Answering
  <1> DEFINE c0 == [ZeroContext EXCEPT !.reqType = "HASH"]
             c1 == [c0 EXCEPT !.path = inbox.path, !.pubkey = inbox.path]
             c2 == [c1 EXCEPT !.hash = GivenDigest(inbox.data)]
             c3 == [c1 EXCEPT !.pubkey = NoPath]
  <1>1. Taken /\ inbox.ins = "SIGN_TX_HASH"
    BY TakeTaken DEF SignTxHash, Instructions, Take
  <1>2. /\ c2.reqType = "HASH" /\ c2.state = "NONE"
        /\ c2.hash = GivenDigest(inbox.data) /\ c2.path = inbox.path
    BY DEF ZeroContext
  <1>3. \A w \in StatusWords : Sw(w) \in OwnAnswer
    BY DataTypes, OwnAnswers
  <1>4. CASE \/ Return(ctx, Sw("HASH_SIGNING_NOT_ENABLED")) \/ Return(c0, Sw("WRONG_DATA_LENGTH"))
             \/ Throw(c3, Sw("THROWN")) \/ Return(c1, Sw("WRONG_DATA_LENGTH"))
    BY <1>1, <1>3, <1>4, StatusAnswers, ReplyAnswers DEF StatusWords
  <1>5. CASE Show(c2, "hash", SignatureOf(c2), "HASH", "NONE")
    <2>1. AnswersCommand(Signature(c2, SignatureOf(c2), "user"), inbox)
      BY <1>1, <1>2 DEF AnswersCommand, Signature, SignatureOf
    <2> QED BY <1>1, <1>2, <1>5, <2>1, ShowAnswers
  <1> QED BY <1>4, <1>5 DEF SignTxHash

\* A signature of a transaction that ends with the chunk of the command.
LEMMA FinishAnswers ==
  ASSUME TypeOK, WaitingScreenIsCurrent, Taken, inbox.ins = "SIGN_TX", ~inbox.p2,
         NEW c \in Context, c.reqType = "TX",
         inbox.first => c.raw = inbox.data /\ c.path = inbox.path,
         ~inbox.first => inbox.data[1] = c.raw[Len(c.raw)],
         Finish(c)
  PROVE  Answering
  <1> DEFINE c1 == [c EXCEPT !.hash = RawDigest(c.raw)]
             c2 == [c1 EXCEPT !.state = "PARSED"]
             c3 == [c2 EXCEPT !.pubkey = c.path]
             c4 == [c2 EXCEPT !.state = "NONE"]
  <1>1. RawDigest(c.raw) \in Digest /\ c.path \in MaybePath
    BY DEF Context, RawDigest, Digest
  <1>2. /\ c2 \in Context /\ c3.reqType = "TX" /\ c3.state = "PARSED"
        /\ c2.hash = RawDigest(c.raw) /\ c2.path = c.path
        /\ c3.hash = RawDigest(c.raw) /\ c3.path = c.path
    BY <1>1 DEF Context
  <1>3. \A w \in StatusWords : Sw(w) \in OwnAnswer
    BY DataTypes, OwnAnswers
  <1>4. ASSUME NEW k, k.hash = RawDigest(c.raw), k.path = c.path, NEW seen, NEW by
        PROVE  AnswersCommand(Signature(k, seen, by), inbox)
    BY <1>4 DEF AnswersCommand, Signature, SignatureOf, RawDigest
  <1>5. CASE \/ Throw(c1, Sw("THROWN")) \/ Throw(c2, Sw("THROWN"))
             \/ Return(c2, Sw("SWAP_CHECKING_FAIL")) \/ Return(c4, Sw("SIGNATURE_FAIL"))
    BY <1>3, <1>5, StatusAnswers, ReplyAnswers DEF StatusWords
  <1>6. CASE swap /\ Return(c2, Signature(c2, NoPayload, "swap"))
    BY <1>2, <1>4, <1>6, OwnAnswers, ReplyAnswers
  <1>7. CASE Show(c3, "tx", SignatureOf(c3), "TX", "PARSED")
    BY <1>2, <1>4, <1>7, ShowAnswers
  <1> QED BY <1>5, <1>6, <1>7 DEF Finish

LEMMA ContinueAnswers ==
  ASSUME TypeOK, WaitingScreenIsCurrent, Taken, inbox.ins = "SIGN_TX",
         NEW c \in Context, c.reqType = "TX",
         inbox.first => c.raw = inbox.data /\ c.path = inbox.path,
         ~inbox.first => inbox.data[1] = c.raw[Len(c.raw)],
         Continue(c)
  PROVE  Answering
  <1>1. CASE Return(c, Sw("OK"))
    BY <1>1, OwnAnswers, StatusAnswers, ReplyAnswers DEF StatusWords
  <1>2. CASE ~inbox.p2 /\ Finish(c)
    BY <1>2, FinishAnswers
  <1> QED BY <1>1, <1>2 DEF Continue

LEMMA SignTxFirstAnswers ==
  ASSUME TypeOK, WaitingScreenIsCurrent, SignTxFirst
  PROVE  Answering
  <1> DEFINE c0 == [ZeroContext EXCEPT !.reqType = "TX"]
             c1 == [c0 EXCEPT !.path = inbox.path, !.raw = inbox.data,
                              !.rawSize = DataLen(inbox.data)]
  <1>1. Taken /\ inbox.ins = "SIGN_TX" /\ inbox.first
    BY TakeTaken DEF SignTxFirst, Instructions, Take
  <1>2. /\ inbox.path \in MaybePath /\ inbox.data \in Seq(Chunks \cup Hashes)
        /\ DataLen(inbox.data) \in Nat
    BY <1>1, CommandTypes DEF Taken
  <1>3. \A w \in StatusWords : Sw(w) \in OwnAnswer
    BY DataTypes, OwnAnswers
  <1>4. CASE Return(ZeroContext, Sw("WRONG_TX_LENGTH")) \/ Return(c0, Sw("WRONG_DATA_LENGTH"))
    BY <1>1, <1>3, <1>4, StatusAnswers, ReplyAnswers DEF StatusWords
  <1>5. CASE Continue(c1)
    <2>1. c1 \in Context /\ c1.reqType = "TX" /\ c1.raw = inbox.data /\ c1.path = inbox.path
      BY <1>2, DataTypes DEF Context, ZeroContext
    <2> QED BY <1>1, <1>5, <2>1, ContinueAnswers
  <1> QED BY <1>4, <1>5 DEF SignTxFirst

LEMMA SignTxNextAnswers ==
  ASSUME TypeOK, WaitingScreenIsCurrent, SignTxNext
  PROVE  Answering
  <1> DEFINE size == ctx.rawSize + DataLen(inbox.data)
             c1   == [ctx EXCEPT !.raw = @ \o inbox.data, !.rawSize = size]
  <1>1. Taken /\ inbox.ins = "SIGN_TX" /\ ~inbox.first /\ inbox \in Command
    BY TakeTaken DEF SignTxNext, Instructions, Take, Taken
  <1>2. ctx \in Context /\ \A w \in StatusWords : Sw(w) \in OwnAnswer
    BY DataTypes, OwnAnswers DEF TypeOK
  <1>3. CASE Return(ctx, Sw("WRONG_TX_LENGTH")) \/ Return(ctx, Sw("BAD_STATE"))
    BY <1>1, <1>2, <1>3, StatusAnswers, ReplyAnswers DEF StatusWords
  <1>4. CASE ctx.reqType = "TX" /\ Continue(c1)
    <2>1. PICK x \in Chunks \cup Hashes : inbox.data = <<x>>
      BY <1>1 DEF Command
    <2>2. DataLen(inbox.data) \in Nat
      BY <1>1, CommandTypes
    <2>3. ctx.raw \in Seq(Chunks \cup Hashes) /\ size \in Nat
      BY <1>2, <2>2 DEF Context
    <2>4. PICK raw : raw = ctx.raw \o inbox.data
      OBVIOUS
    <2>5. raw \in Seq(Chunks \cup Hashes) /\ raw[Len(raw)] = x
      BY <2>1, <2>3, <2>4
    <2>6. c1 \in Context /\ c1.reqType = "TX" /\ c1.raw = raw
      BY <1>2, <1>4, <2>3, <2>4, <2>5 DEF Context
    <2>7. inbox.data[1] = c1.raw[Len(c1.raw)]
      BY <2>1, <2>5, <2>6
    <2> QED BY <1>1, <1>4, <2>6, <2>7, ContinueAnswers
  <1> QED BY <1>3, <1>4 DEF SignTxNext

\* Every handler answers its own command, or leaves the answer to a review of it.
LEMMA CommandAnswers ==
  ASSUME TypeOK, WaitingScreenIsCurrent, HandleCommand
  PROVE  Answering
  <1>1. CASE RejectLength
    <2>1. Taken
      BY <1>1, TakeTaken DEF RejectLength, Instructions
    <2> QED BY <1>1, <2>1, DataTypes, OwnAnswers, StatusAnswers, ReplyAnswers
            DEF RejectLength, StatusWords
  <1>2. CASE RejectHeader
    <2>1. Taken
      BY <1>2, TakeTaken DEF RejectHeader, Instructions
    <2> QED BY <1>2, <2>1, DataTypes, OwnAnswers, StatusAnswers, ReplyAnswers
            DEF RejectHeader, StatusWords
  <1>3. CASE GetAppConfiguration
    <2>1. Taken /\ inbox.ins = "GET_APP_CONFIGURATION"
      BY <1>3, TakeTaken DEF GetAppConfiguration, Instructions, Take
    <2>2. AnswersCommand(Sw("config"), inbox)
      BY <2>1 DEF AnswersCommand, Sw
    <2> QED BY <1>3, <2>1, <2>2, DataTypes, OwnAnswers, ReplyAnswers DEF GetAppConfiguration
  <1> QED BY <1>1, <1>2, <1>3, GetPublicKeyAnswers, SignTxHashAnswers, SignTxFirstAnswers,
             SignTxNextAnswers DEF HandleCommand

\* A decision sends what was promised.
LEMMA DecisionAnswers ==
  ASSUME TypeOK, Promised, Decide \/ PageThrows
  PROVE  Answering
  <1>1. ASSUME NEW c, NEW w \in {"DENY", "SIGNATURE_FAIL"}, Answer(c, Sw(w)) PROVE Answering
    <2>1. Sw(w) \in UserAnswer
      BY DataTypes DEF UserAnswer, Sw, NoReply, StatusWords
    <2>2. Responds(c, Sw(w))
      BY <1>1, <2>1, Responded
    <2>3. AnswersCommand(Sw(w), asked')
      BY StatusAnswers DEF StatusWords
    <2> QED BY <2>2, <2>3 DEF Responds, Answering
  <1>2. ASSUME NEW c, CallbackThrows(c) PROVE Answering
    <2>1. Fails(c)
      BY <1>2, Failed
    <2>2. AnswersCommand(Sw("THROWN"), asked')
      BY StatusAnswers DEF StatusWords
    <2> QED BY <2>1, <2>2 DEF Fails, Answering
  <1>3. ASSUME NEW c, Answer(c, Approval), Approval \in UserAnswer PROVE Answering
    <2>1. Responds(c, Approval)
      BY <1>3, Responded
    <2> QED BY <2>1 DEF Responds, Answering, Promised
  <1>4. ctx \in Context /\ screen.shown \in Payload
    BY DEF TypeOK, Screen
  <1>5. CASE ApproveAddress
    <2>1. screen.flow = "address" /\ Answer(ctx, Approval)
      BY <1>5 DEF ApproveAddress, Showing, Approval
    <2>2. Approval \in Reply
      BY <1>4, AnswerTypes DEF Approval
    <2>3. Approval \in UserAnswer
      BY <2>1, <2>2 DEF UserAnswer, Approval, Pubkey, NoReply, Sw, Consented
    <2> QED BY <1>3, <2>1, <2>3
  <1>6. CASE Showing({"tx", "hash"}) /\ Answer([ctx EXCEPT !.state = "APPROVED"],
                                               Signature(ctx, screen.shown, "user"))
    <2>1. screen.flow \in {"tx", "hash"} /\ Approval = Signature(ctx, screen.shown, "user")
      BY <1>6 DEF Showing, Approval
    <2>2. Approval \in Reply
      BY <1>4, AnswerTypes DEF Approval
    <2>3. Approval \in UserAnswer
      BY <2>1, <2>2 DEF UserAnswer, Signature, NoReply, Sw, Consented
    <2> QED BY <1>3, <1>6, <2>1, <2>3
  <1> QED BY <1>1, <1>2, <1>5, <1>6
          DEF Decide, RejectAddress, ApproveTransaction, RejectTransaction, PageThrows

\* Nothing else sends anything, and the review that is waited for stays as it is.
LEMMA OthersAnswer ==
  ASSUME Inv, Promised,
         \/ Send \/ OpenSettings \/ LeaveSettings \/ ToggleHashSigning \/ UNCHANGED vars
         \/ Launch \/ LaunchForSwap \/ Relaunch \/ Unplug \/ TurnOff
  PROVE  Answering
  <1>1. AnswersCommand(NoReply, asked')
    BY StatusAnswers DEF NoReply
  <1>2. CASE Send \/ UNCHANGED vars
    <2>1. /\ io' = io /\ asked' = asked /\ Approval' = Approval
          /\ wire' = wire \/ wire'.reply = NoReply
      BY <1>2 DEF Send, vars, deviceVars, Silence, Approval, Pubkey, Signature, PubkeyOf,
                  SignatureOf
    <2> QED BY <1>1, <2>1 DEF Answering, Promised
  <1>3. CASE OpenSettings \/ LeaveSettings \/ ToggleHashSigning
    <2>1. PICK f \in {"menu", "settings"}, t \in {"menu", "settings"} : Menu(f, t)
      BY <1>3 DEF OpenSettings, LeaveSettings, ToggleHashSigning
    <2>2. io' # "WAITING" /\ wire' = wire
      BY <2>1 DEF Menu, hostVars, Inv, WaitingScreenIsCurrent, Showing, Reviews
    <2> QED BY <2>2 DEF Answering
  <1>4. CASE Launch \/ LaunchForSwap \/ Relaunch \/ Unplug \/ TurnOff
    <2>1. StartStandalone \/ LaunchForSwap \/ PowerOff
      BY <1>4 DEF Launch, Relaunch, Unplug, TurnOff, Restart
    <2>2. io' # "WAITING" /\ wire'.reply = NoReply
      BY <2>1 DEF StartStandalone, LaunchForSwap, PowerOff, StartAppMain, Silence
    <2> QED BY <1>1, <2>2 DEF Answering
  <1> QED BY <1>2, <1>3, <1>4

LEMMA NextAnswers ==
  ASSUME Inv, Promised, [Next]_vars
  PROVE  Answering /\ Promised'
  <1>1. Answering
    BY CommandAnswers, DecisionAnswers, OthersAnswer DEF Inv, Next, HandleCommand, Decide
  <1> QED BY <1>1 DEF Answering, Promised

\* An answer that reaches the host is to the last command: its path, its data, its hash,
\* and of a transaction only once the host has finished sending it.
THEOREM RepliesAreToCommands == Spec => RepliesAnswerCommands
  <1>1. Init => Promised
    BY DEF Init, Promised
  <1>2. Inv /\ Promised /\ [Next]_vars => Promised'
    BY NextAnswers
  <1>3. Inv /\ Promised /\ [Next]_vars =>
          [wire'.reply # wire.reply => AnswersCommand(wire'.reply, asked')]_vars
    BY NextAnswers DEF Answering
  <1> QED BY <1>1, <1>2, <1>3, Invariance, PTL DEF Spec, RepliesAnswerCommands
-----------------------------------------------------------------------------
(* The application implements the oracle.                                   *)

\* What the oracle sees of a state.
UnderReview == IF io = "WAITING" /\ screen.flow \in {"tx", "hash"} THEN screen.shown
               ELSE NoPayload
Issued == IF wire.reply.kind = "signature" THEN wire.reply.body ELSE NoPayload

\* A handled command presents a payload, or is dismissed, or is delegated.
LEMMA CommandRefines ==
  ASSUME Inv, HandleCommand
  PROVE  Oracle!Present \/ Oracle!Dismiss \/ Oracle!Delegate
  <1>1. Taken /\ TypeOK /\ WaitingScreenIsCurrent
    BY CommandHandled DEF Inv
  <1>2. PICK c \in Fits : Handled(c)
    BY <1>1, CommandHandled
  <1>3. inbox # NoCommand /\ inbox' = NoCommand /\ swap' = swap
    BY <1>1, CommandTypes DEF Taken
  <1>4. CASE \E r \in OwnAnswer : Replies(c, r)
    <2>1. PICK r \in OwnAnswer : Replies(c, r)
      BY <1>4
    <2>2. UnderReview' = NoPayload
      BY <2>1 DEF Replies, UnderReview
    <2>3. CASE Issued' \in {Issued, NoPayload}
      BY <1>3, <2>2, <2>3 DEF Oracle!Dismiss, UnderReview, Issued
    <2>4. CASE Issued' \notin {Issued, NoPayload}
      <3>1. r.kind = "signature" /\ Issued' = r.body /\ r.body \in Payload
        BY <2>1, <2>4 DEF Replies, Issued, OwnAnswer, Reply
      <3>2. swap
        BY <3>1 DEF OwnAnswer, Reply
      <3> QED BY <1>3, <2>2, <3>1, <3>2 DEF Oracle!Delegate, UnderReview, Issued
    <2> QED BY <2>3, <2>4
  <1>5. CASE \E f \in Reviews : \E seen \in Payload : Reviewable(c, f, seen) /\ Displays(c, f, seen)
    <2>1. PICK f \in Reviews, seen \in Payload : Reviewable(c, f, seen) /\ Displays(c, f, seen)
      BY <1>5
    <2>2. CASE io' = "WAITING"
      <3>1. Issued' = Issued /\ UnderReview' \in Payload
        BY <2>1, <2>2, DataTypes DEF Displays, Issued, UnderReview
      <3> QED BY <1>3, <3>1 DEF Oracle!Present, UnderReview, Issued
    <2>3. CASE io' # "WAITING"
      <3>1. Issued' \in {Issued, NoPayload} /\ UnderReview' = NoPayload
        BY <2>1, <2>3 DEF Displays, Issued, UnderReview, Clobbered, Sw
      <3> QED BY <1>3, <3>1 DEF Oracle!Dismiss, UnderReview, Issued
    <2> QED BY <2>2, <2>3
  <1> QED BY <1>2, <1>4, <1>5 DEF Handled

\* A decision approves the payload under review, or withdraws it.
LEMMA DecideRefines ==
  ASSUME Inv, Decide \/ PageThrows
  PROVE  Oracle!Approve \/ Oracle!Withdraw
  <1>1. TypeOK /\ WaitingScreenIsCurrent
    BY DEF Inv
  <1>2. PICK c \in Fits : Fails(c) \/ \E r \in UserAnswer : Responds(c, r)
    BY <1>1, Decided
  <1>3. UNCHANGED <<inbox, swap>> /\ UnderReview' = NoPayload
    BY <1>2 DEF Fails, Responds, UnderReview
  <1>4. CASE Fails(c)
    <2>1. Issued' = NoPayload
      BY <1>4 DEF Fails, Issued, Sw
    <2> QED BY <1>3, <2>1 DEF Oracle!Withdraw, UnderReview, Issued
  <1>5. CASE \E r \in UserAnswer : Responds(c, r)
    <2>1. PICK r \in UserAnswer : Responds(c, r)
      BY <1>5
    <2>2. CASE Issued' \in {Issued, NoPayload}
      BY <1>3, <2>2 DEF Oracle!Withdraw, UnderReview, Issued
    <2>3. CASE Issued' \notin {Issued, NoPayload}
      <3>1. io = "WAITING" /\ r.kind = "signature" /\ Issued' = r.body
        BY <2>1, <2>3 DEF Responds, Issued
      <3>2. /\ screen.flow \in {"tx", "hash"} /\ r.body = screen.shown
        BY <1>1, <3>1 DEF UserAnswer, WaitingScreenIsCurrent
      <3>3. UnderReview = screen.shown /\ screen.shown # NoPayload
        BY <3>1, <3>2 DEF Inv, SigningShowsPayload, UnderReview, NoPayload, ZeroDigest
      <3> QED BY <1>3, <3>1, <3>2, <3>3 DEF Oracle!Approve, UnderReview, Issued
    <2> QED BY <2>2, <2>3
  <1> QED BY <1>2, <1>4, <1>5

\* Every step of the application is a step of the oracle, or changes nothing it sees.
LEMMA NextRefines ==
  ASSUME Inv, [Next]_vars
  PROVE  [Oracle!Next]_(Oracle!oracleVars)
  <1>1. CASE HandleCommand
    BY <1>1, CommandRefines DEF Oracle!Next
  <1>2. CASE Decide \/ PageThrows
    BY <1>2, DecideRefines DEF Oracle!Next
  <1>3. CASE Send
    <2>1. inbox = NoCommand /\ inbox' # NoCommand
      BY <1>3, CommandTypes DEF Send
    <2>2. Issued' = NoPayload /\ UnderReview' = UnderReview /\ swap' = swap
      BY <1>3 DEF Send, deviceVars, Issued, UnderReview, Silence, NoReply, Sw
    <2> QED BY <2>1, <2>2 DEF Oracle!Next, Oracle!Request, UnderReview, Issued
  <1>4. CASE OpenSettings \/ LeaveSettings \/ ToggleHashSigning
    <2>1. PICK f \in {"menu", "settings"}, t \in {"menu", "settings"} : Menu(f, t)
      BY <1>4 DEF OpenSettings, LeaveSettings, ToggleHashSigning
    <2>2. UNCHANGED <<inbox, swap, wire>> /\ UnderReview' = NoPayload
      BY <2>1, PlainTypes DEF Menu, hostVars, UnderReview
    <2> QED BY <2>2 DEF Oracle!Next, Oracle!Withdraw, UnderReview, Issued
  <1>5. CASE Launch \/ LaunchForSwap \/ Relaunch \/ Unplug \/ TurnOff
    <2>1. StartStandalone \/ LaunchForSwap \/ PowerOff
      BY <1>5 DEF Launch, Relaunch, Unplug, TurnOff, Restart
    <2>2. inbox' = NoCommand /\ swap' \in BOOLEAN /\ io' # "WAITING" /\ wire' = Silence
      BY <2>1 DEF StartStandalone, LaunchForSwap, PowerOff, StartAppMain
    <2>3. Issued' = NoPayload /\ UnderReview' = NoPayload
      BY <2>2 DEF Issued, UnderReview, Silence, NoReply, Sw
    <2> QED BY <2>2, <2>3 DEF Oracle!Next, Oracle!Reset, UnderReview, Issued
  <1>6. CASE UNCHANGED vars
    BY <1>6 DEF vars, Oracle!oracleVars
  <1> QED BY <1>1, <1>2, <1>3, <1>4, <1>5, <1>6 DEF Next, HandleCommand, Decide

\* The application implements the oracle: a signature is issued only by the user
\* approving the review on display, at most once per review, or by delegation.
THEOREM Implementation == Spec => ImplementsOracle
  <1>1. Init => Oracle!Init
    BY DEF Init, Oracle!Init, Silence, NoReply, Sw
  <1>2. Inv /\ [Next]_vars => [Oracle!Next]_(Oracle!oracleVars)
    BY NextRefines
  <1> QED BY <1>1, <1>2, Invariance, PTL DEF Spec, ImplementsOracle, Oracle!Spec
=============================================================================
