----------------------------- MODULE StellarApp -----------------------------
(***************************************************************************)
(* The session layer of the Stellar application: the APDU loop of main.c,  *)
(* the I/O automaton of io.c, the dispatcher, the four command handlers    *)
(* and the user-interface callbacks that answer a command later.           *)
(*                                                                         *)
(* The program is single-threaded and blocks in one place only, inside     *)
(* io_exchange().  A state of this module is the program blocked there; a  *)
(* step is everything it does between two blockings: a command taken and   *)
(* handled up to the next io_recv_command(), a button press handled inside *)
(* io_exchange(), or the USB-unplugged event.  The host and the user act   *)
(* independently, and the host need not wait for an answer.                *)
(***************************************************************************)
EXTENDS Naturals, Sequences

CONSTANTS
  Paths,         \* the BIP-32 paths the host names
  NoPath,        \* a path of length 0 or above MAX_BIP32_PATH; also zeroed memory
  Chunks,        \* the transaction data one SIGN_TX command can carry
  ChunkLen,      \* their lengths in bytes
  Hashes,        \* the 32-byte hashes SIGN_TX_HASH can carry
  PathLen,       \* the bytes the path takes in the first chunk
  RawTxMaxSize   \* RAW_TX_MAX_SIZE

ASSUME ConstantsOK ==
  /\ NoPath \notin Paths
  /\ ChunkLen \in [Chunks -> Nat \ {0}]
  /\ PathLen \in Nat
  /\ RawTxMaxSize \in Nat

VARIABLES
  session,   \* "off", "running" (blocked in io_exchange), "returned" (app_main returned)
  swap,      \* G_called_from_swap
  nv,        \* N_settings, in NVRAM: the only state that survives a restart
  io,        \* G_io_state
  recv,      \* the io_exchange of io_recv_command it is blocked in: "idle" or "async"
  out,       \* G_io_apdu_buffer[0 .. G_output_len); NoReply when G_output_len = 0
  ctx,       \* G_context
  screen,    \* the flow on display and its validate callback
  inbox,     \* the command on its way from the host
  asked,     \* history: the last command taken
  owed,      \* the host has had no answer to the last command taken
  wire,      \* the last answer the host received since it sent a command
  disturbed  \* history: since app_main started, the host did not wait for an
             \* answer or a callback threw

deviceVars == <<session, swap, nv, io, recv, out, ctx, screen>>
hostVars   == <<inbox, asked, owed, wire, disturbed>>
vars       == <<session, swap, nv, io, recv, out, ctx, screen,
                inbox, asked, owed, wire, disturbed>>
-----------------------------------------------------------------------------
(* Data.  A digest remembers what was hashed, a key the path it was derived *)
(* from, so equal digests and keys are equal bytes.                         *)

Digest        == [kind : {"zero", "raw", "given"}, of : Seq(Chunks \cup Hashes)]
ZeroDigest    == [kind |-> "zero", of |-> <<>>]
RawDigest(r)  == [kind |-> "raw", of |-> r]
GivenDigest(h) == [kind |-> "given", of |-> h]

MaybePath == Paths \cup {NoPath}
Payload   == [digest : Digest, key : MaybePath]
NoPayload == [digest |-> ZeroDigest, key |-> NoPath]

NoCommand == [ins |-> "none", first |-> FALSE, p2 |-> FALSE, path |-> NoPath, data |-> <<>>]

StatusWords == {"OK", "DENY", "WRONG_DATA_LENGTH", "BAD_REQUEST", "WRONG_TX_LENGTH",
                "BAD_STATE", "HASH_SIGNING_NOT_ENABLED", "SWAP_CHECKING_FAIL",
                "SIGNATURE_FAIL", "THROWN"}   \* THROWN: any SW or SDK exception caught
ReplyKinds  == StatusWords \cup {"none", "config", "pubkey", "signature", "clobbered"}

\* "shown" and "consent" are history: what was on the screen when the answer was
\* allowed, and who allowed it.
Reply == [kind : ReplyKinds, body : Payload, shown : Payload,
          consent : {"none", "user", "swap"}]
Sw(w)      == [kind |-> w, body |-> NoPayload, shown |-> NoPayload, consent |-> "none"]
NoReply    == Sw("none")
Clobbered  == Sw("clobbered")   \* a response that is not the one written: a command was
                                \* received over it, and its tail may be what is left
PubkeyOf(c) == [digest |-> ZeroDigest, key |-> c.pubkey]
SignatureOf(c) == [digest |-> c.hash, key |-> c.path]
Pubkey(c, seen, by)    == [kind |-> "pubkey", body |-> PubkeyOf(c), shown |-> seen, consent |-> by]
Signature(c, seen, by) == [kind |-> "signature", body |-> SignatureOf(c), shown |-> seen,
                           consent |-> by]

\* G_context; raw is the sequence of chunks, rawSize their bytes.
Context == [reqType : {"ADDRESS", "TX", "HASH"}, state : {"NONE", "PARSED", "APPROVED"},
            path : MaybePath, pubkey : MaybePath,
            raw : Seq(Chunks \cup Hashes), rawSize : Nat, hash : Digest]
ZeroContext == [reqType |-> "ADDRESS", state |-> "NONE", path |-> NoPath, pubkey |-> NoPath,
                raw |-> <<>>, rawSize |-> 0, hash |-> ZeroDigest]

Reviews == {"address", "tx", "hash"}
Screen  == [flow : Reviews \cup {"blank", "menu", "settings"}, shown : Payload]
Plain(f) == [flow |-> f, shown |-> NoPayload]

\* S_SEQUENCE_NUMBER_ENABLED is left out: it only selects what a review displays.
Settings == [initialized : BOOLEAN, hashSigning : BOOLEAN]
Wire     == [reply : Reply, solicited : BOOLEAN]
Silence  == [reply |-> NoReply, solicited |-> TRUE]

DataLen(d) == IF d = <<>> THEN 0 ELSE ChunkLen[d[1]]
-----------------------------------------------------------------------------
\* Mutant: io_send_response transmits whatever the state.
SendResponseAtOnce(s, r) == [io |-> "READY", out |-> NoReply, sent |-> r, ok |-> TRUE]

(* io.c: io_send_response in state s with response r.                       *)
SendResponse(s, r) ==
  [io |-> "READY", out  |-> IF s = "WAITING" THEN NoReply ELSE r,
   ok |-> s # "READY", sent |-> IF s = "WAITING" THEN r ELSE NoReply]

\* The transport hands r to the host, which has an answer outstanding iff o.
Transmit(r, o) ==
  /\ wire' = IF r = NoReply THEN wire ELSE [reply |-> r, solicited |-> o]
  /\ owed' = (o /\ r = NoReply)

\* Mutant: io_recv_command never passes IO_ASYNCH_REPLY.
ListenSync(s, b, sent, o) ==
  /\ io' = IF s = "READY" THEN "RECEIVED" ELSE IF s = "RECEIVED" THEN "WAITING" ELSE "READY"
  /\ recv' = IF s = "RECEIVED" THEN "async" ELSE "idle"
  /\ session' = IF s = "WAITING" THEN "returned" ELSE "running"
  /\ out' = b
  /\ Transmit(IF sent = NoReply THEN b ELSE sent, o)

\* app_main is back at io_recv_command with G_io_state = s and b in the buffer; "sent"
\* has already left for a host that awaits an answer iff o.
Listen(s, b, sent, o) ==
  /\ io' = IF s = "READY" THEN "RECEIVED" ELSE IF s = "RECEIVED" THEN "WAITING" ELSE "READY"
  /\ recv' = IF s = "RECEIVED" THEN "async" ELSE "idle"
  /\ session' = IF s = "WAITING" THEN "returned" ELSE "running"
  /\ out' = b
  /\ Transmit(IF s = "READY" /\ sent = NoReply THEN b ELSE sent, o)

\* Mutant: io_recv_command does not go back to RECEIVED after the asynchronous exchange.
IoTakenStuck == io

\* G_io_state and the buffer once io_exchange has returned with a command.
IoTaken  == IF recv = "async" THEN "RECEIVED" ELSE io
OutTaken == IF out = NoReply THEN NoReply ELSE Clobbered

\* The command in the inbox is taken.
Take(ins) ==
  /\ session = "running"
  /\ inbox.ins = ins
  /\ inbox' = NoCommand
  /\ asked' = inbox
  /\ UNCHANGED <<swap, nv, disturbed>>

\* The handler leaves context c and returns io_send_response(r): a negative result
\* makes app_main return.
Return(c, r) ==
  LET e == SendResponse(IoTaken, r) IN
  /\ ctx' = c
  /\ UNCHANGED screen
  /\ \/ e.ok /\ Listen(e.io, e.out, e.sent, TRUE)
     \/ /\ ~e.ok
        /\ session' = "returned" /\ io' = e.io /\ out' = e.out /\ owed' = TRUE
        /\ UNCHANGED <<recv, wire>>

\* The handler leaves context c and throws, or the command does not parse: app_main
\* answers and ignores the result.
Throw(c, r) ==
  LET e == SendResponse(IoTaken, r) IN
  /\ ctx' = c
  /\ UNCHANGED screen
  /\ Listen(e.io, e.out, e.sent, TRUE)

\* The handler starts a flow if the context is as the flow's init function demands,
\* and returns 0: the answer is left to the flow's callback.
Show(c, f, seen, type, state) ==
  IF c.reqType = type /\ c.state = state
  THEN /\ ctx' = c
       /\ screen' = [flow |-> f, shown |-> seen]
       /\ Listen(IoTaken, OutTaken, NoReply, TRUE)
  ELSE Return([c EXCEPT !.state = "NONE"], Sw("BAD_STATE"))
-----------------------------------------------------------------------------
(* The host.                                                                *)

Instructions == {"GET_PUBLIC_KEY", "SIGN_TX", "GET_APP_CONFIGURATION", "SIGN_TX_HASH",
                 "BAD_LENGTH",    \* refused by apdu_parser
                 "BAD_HEADER"}    \* refused by apdu_dispatcher: CLA, INS, P1, P2, no data

\* "first" is P1 of SIGN_TX; "p2" is its P2_MORE bit, and "display" of GET_PUBLIC_KEY.
\* What follows the path is one chunk (SIGN_TX, none if the path fills the command), or
\* one hash or a wrong number of bytes, <<>> (SIGN_TX_HASH).
Command ==
  {c \in [ins : Instructions, first : BOOLEAN, p2 : BOOLEAN, path : MaybePath,
          data : {<<>>} \cup {<<x>> : x \in Chunks \cup Hashes}] :
     /\ c.first => c.ins = "SIGN_TX"
     /\ c.p2 => c.ins \in {"SIGN_TX", "GET_PUBLIC_KEY"}
     /\ c.path # NoPath => c.first \/ c.ins \in {"SIGN_TX_HASH", "GET_PUBLIC_KEY"}
     /\ c.data # <<>> =>
          \/ c.ins = "SIGN_TX" /\ c.data[1] \in Chunks
          \/ c.ins = "SIGN_TX_HASH" /\ c.data[1] \in Hashes
     /\ c.data = <<>> => c.ins # "SIGN_TX" \/ c.first}

\* The host sends a command; if it has not been answered, it abandons the last one.
Send ==
  /\ session = "running"
  /\ inbox = NoCommand
  /\ inbox' \in Command
  /\ wire' = Silence
  /\ disturbed' = (disturbed \/ owed)
  /\ UNCHANGED deviceVars
  /\ UNCHANGED <<asked, owed>>
-----------------------------------------------------------------------------
(* The commands.                                                            *)

RejectLength == Take("BAD_LENGTH") /\ Throw(ctx, Sw("WRONG_DATA_LENGTH"))

RejectHeader == Take("BAD_HEADER") /\ Return(ctx, Sw("BAD_REQUEST"))

GetAppConfiguration == Take("GET_APP_CONFIGURATION") /\ Return(ctx, Sw("config"))

\* Mutant: a key already derived is not derived again.
GetPublicKeyCached ==
  LET c == [ZeroContext EXCEPT !.path = inbox.path,
                               !.pubkey = IF ctx.pubkey = NoPath THEN inbox.path
                                          ELSE ctx.pubkey] IN
  /\ Take("GET_PUBLIC_KEY") /\ inbox.path # NoPath
  /\ \/ inbox.p2 /\ Show(c, "address", PubkeyOf(c), "ADDRESS", "NONE")
     \/ ~inbox.p2 /\ Return(c, Pubkey(c, NoPayload, "none"))

GetPublicKey ==
  LET c == [ZeroContext EXCEPT !.path = inbox.path, !.pubkey = inbox.path] IN
  /\ Take("GET_PUBLIC_KEY")
  /\ \/ inbox.path = NoPath /\ Return(ZeroContext, Sw("WRONG_DATA_LENGTH"))
     \/ inbox.path # NoPath /\ Throw([c EXCEPT !.pubkey = NoPath], Sw("THROWN"))
     \/ inbox.path # NoPath /\ inbox.p2 /\ Show(c, "address", PubkeyOf(c), "ADDRESS", "NONE")
     \/ inbox.path # NoPath /\ ~inbox.p2 /\ Return(c, Pubkey(c, NoPayload, "none"))

\* Mutant: the flow is started before the hash is copied into the context.
SignTxHashEarly ==
  LET c0 == [ZeroContext EXCEPT !.reqType = "HASH"]
      c1 == [c0 EXCEPT !.path = inbox.path, !.pubkey = inbox.path]
      c2 == [c1 EXCEPT !.hash = GivenDigest(inbox.data)]
  IN
  /\ Take("SIGN_TX_HASH") /\ nv.hashSigning /\ inbox.path # NoPath /\ inbox.data # <<>>
  /\ Show(c2, "hash", SignatureOf(c1), "HASH", "NONE")

\* Mutant: the review is of the key of the command before.
SignTxHashStale ==
  LET c0 == [ZeroContext EXCEPT !.reqType = "HASH"]
      c1 == [c0 EXCEPT !.path = inbox.path, !.pubkey = inbox.path]
      c2 == [c1 EXCEPT !.hash = GivenDigest(inbox.data)]
  IN
  /\ Take("SIGN_TX_HASH") /\ nv.hashSigning /\ inbox.path # NoPath /\ inbox.data # <<>>
  /\ ctx.path # NoPath
  /\ Show(c2, "hash", [digest |-> c2.hash, key |-> ctx.path], "HASH", "NONE")

SignTxHash ==
  LET c0 == [ZeroContext EXCEPT !.reqType = "HASH"]
      c1 == [c0 EXCEPT !.path = inbox.path, !.pubkey = inbox.path]
      c2 == [c1 EXCEPT !.hash = GivenDigest(inbox.data)]
  IN
  /\ Take("SIGN_TX_HASH")
  /\ \/ ~nv.hashSigning /\ Return(ctx, Sw("HASH_SIGNING_NOT_ENABLED"))
     \/ /\ nv.hashSigning
        /\ \/ inbox.path = NoPath /\ Return(c0, Sw("WRONG_DATA_LENGTH"))
           \/ inbox.path # NoPath /\ Throw([c1 EXCEPT !.pubkey = NoPath], Sw("THROWN"))
           \/ inbox.path # NoPath /\ inbox.data = <<>> /\ Return(c1, Sw("WRONG_DATA_LENGTH"))
           \/ /\ inbox.path # NoPath /\ inbox.data # <<>>
              /\ Show(c2, "hash", SignatureOf(c2), "HASH", "NONE")

\* Mutant: G_called_from_swap is not looked at before signing.
FinishUnasked(c) ==
  LET c2 == [c EXCEPT !.hash = RawDigest(c.raw), !.state = "PARSED"] IN
  Return(c2, Signature(c2, NoPayload, "swap"))

\* The chunk is in c: hash, parse, then check and sign (swap) or ask the user.
Finish(c) ==
  LET c1 == [c EXCEPT !.hash = RawDigest(c.raw)]
      c2 == [c1 EXCEPT !.state = "PARSED"]
      c3 == [c2 EXCEPT !.pubkey = c.path]
  IN
  \/ Throw(c1, Sw("THROWN"))                                 \* parse_tx_xdr fails
  \/ Throw(c2, Sw("THROWN"))                                 \* derivation or signature throws
  \/ swap /\ Return(c2, Sw("SWAP_CHECKING_FAIL"))
  \/ swap /\ Return([c2 EXCEPT !.state = "NONE"], Sw("SIGNATURE_FAIL"))
  \/ swap /\ Return(c2, Signature(c2, NoPayload, "swap"))
  \/ ~swap /\ Show(c3, "tx", SignatureOf(c3), "TX", "PARSED")

Continue(c) == \/ inbox.p2 /\ Return(c, Sw("OK"))
               \/ ~inbox.p2 /\ Finish(c)

\* Mutant: the context is not cleared for a new transaction.
SignTxFirstKeeps ==
  LET c1 == [ctx EXCEPT !.reqType = "TX", !.path = inbox.path, !.raw = @ \o inbox.data,
                        !.rawSize = @ + DataLen(inbox.data)] IN
  /\ Take("SIGN_TX") /\ inbox.first
  /\ ctx.rawSize + PathLen + DataLen(inbox.data) <= RawTxMaxSize
  /\ inbox.path # NoPath
  /\ Continue(c1)

\* handler_sign_tx with P1_FIRST.
SignTxFirst ==
  LET c0 == [ZeroContext EXCEPT !.reqType = "TX"]
      c1 == [c0 EXCEPT !.path = inbox.path, !.raw = inbox.data, !.rawSize = DataLen(inbox.data)]
  IN
  /\ Take("SIGN_TX") /\ inbox.first
  /\ \/ /\ PathLen + DataLen(inbox.data) > RawTxMaxSize
        /\ Return(ZeroContext, Sw("WRONG_TX_LENGTH"))
     \/ /\ PathLen + DataLen(inbox.data) <= RawTxMaxSize
        /\ \/ inbox.path = NoPath /\ Return(c0, Sw("WRONG_DATA_LENGTH"))
           \/ inbox.path # NoPath /\ Continue(c1)

\* Mutant: only the size before the chunk is checked.
SignTxNextUnbounded ==
  /\ Take("SIGN_TX") /\ ~inbox.first /\ ctx.reqType = "TX"
  /\ ctx.rawSize <= RawTxMaxSize
  /\ Continue([ctx EXCEPT !.raw = @ \o inbox.data, !.rawSize = @ + DataLen(inbox.data)])

\* handler_sign_tx with P1_MORE.
SignTxNext ==
  LET size == ctx.rawSize + DataLen(inbox.data)
      c1   == [ctx EXCEPT !.raw = @ \o inbox.data, !.rawSize = size]
  IN
  /\ Take("SIGN_TX") /\ ~inbox.first
  /\ \/ size > RawTxMaxSize /\ Return(ctx, Sw("WRONG_TX_LENGTH"))
     \/ /\ size <= RawTxMaxSize
        /\ \/ ctx.reqType # "TX" /\ Return(ctx, Sw("BAD_STATE"))
           \/ ctx.reqType = "TX" /\ Continue(c1)

HandleCommand == \/ RejectLength \/ RejectHeader \/ GetAppConfiguration \/ GetPublicKey
                 \/ SignTxHash \/ SignTxFirst \/ SignTxNext
-----------------------------------------------------------------------------
(* The user.  A callback runs inside io_exchange and ends in the main menu. *)

\* Mutant: the callback does not end in ui_menu_main.
AnswerStays(c, r) ==
  LET e == SendResponse(io, r) IN
  /\ ctx' = c
  /\ io' = e.io /\ out' = e.out
  /\ Transmit(e.sent, owed)
  /\ UNCHANGED <<session, swap, nv, recv, screen, inbox, asked, disturbed>>

\* The callback leaves context c and sends r.
Answer(c, r) ==
  LET e == SendResponse(io, r) IN
  /\ ctx' = c
  /\ io' = e.io /\ out' = e.out
  /\ Transmit(e.sent, owed)
  /\ screen' = Plain("menu")
  /\ UNCHANGED <<session, swap, nv, recv, inbox, asked, disturbed>>

\* An exception leaves io_exchange, app_main answers and listens again; the flow stays.
CallbackThrows(c) ==
  LET e == SendResponse(io, Sw("THROWN")) IN
  /\ ctx' = c
  /\ Listen(e.io, e.out, e.sent, owed)
  /\ disturbed' = TRUE
  /\ UNCHANGED <<swap, nv, screen, inbox, asked>>

Showing(flows) == session = "running" /\ screen.flow \in flows

ApproveAddress == Showing({"address"}) /\ Answer(ctx, Pubkey(ctx, screen.shown, "user"))

RejectAddress == Showing({"address"}) /\ Answer(ctx, Sw("DENY"))

ApproveTransaction ==
  LET c == [ctx EXCEPT !.state = "APPROVED"] IN
  /\ Showing({"tx", "hash"})
  /\ \/ Answer(c, Signature(ctx, screen.shown, "user"))
     \/ Answer([ctx EXCEPT !.state = "NONE"], Sw("SIGNATURE_FAIL"))
     \/ CallbackThrows(c)

\* Mutant: rejecting sends nothing.
RejectTransactionSilent ==
  /\ Showing({"tx", "hash"})
  /\ ctx' = [ctx EXCEPT !.state = "NONE"]
  /\ screen' = Plain("menu")
  /\ UNCHANGED <<session, swap, nv, io, recv, out>>
  /\ UNCHANGED hostVars

RejectTransaction ==
  Showing({"tx", "hash"}) /\ Answer([ctx EXCEPT !.state = "NONE"], Sw("DENY"))

\* Turning to a page of the transaction that cannot be formatted.
PageThrows == Showing({"tx"}) /\ CallbackThrows(ctx)

Decide == ApproveAddress \/ RejectAddress \/ ApproveTransaction \/ RejectTransaction

Menu(from, to) ==
  /\ Showing({from})
  /\ screen' = Plain(to)
  /\ UNCHANGED <<session, swap, io, recv, out, ctx>>
  /\ UNCHANGED hostVars

OpenSettings == Menu("menu", "settings") /\ UNCHANGED nv
LeaveSettings == Menu("settings", "menu") /\ UNCHANGED nv
ToggleHashSigning ==
  Menu("settings", "settings") /\ nv' = [nv EXCEPT !.hashSigning = ~@]
-----------------------------------------------------------------------------
(* Starting and stopping.                                                   *)

\* app_main starts: volatile state is cleared, the host sees a new connection.
StartAppMain(f) ==
  /\ session' = "running"
  /\ io' = "RECEIVED" /\ recv' = "idle" /\ out' = NoReply
  /\ ctx' = ZeroContext
  /\ screen' = Plain(f)
  /\ inbox' = NoCommand /\ asked' = NoCommand
  /\ owed' = FALSE /\ wire' = Silence /\ disturbed' = FALSE

\* Mutant: the settings are initialised to all ones.
StartStandaloneEnabled ==
  /\ StartAppMain("menu")
  /\ swap' = FALSE
  /\ nv' = IF nv.initialized THEN nv
           ELSE [initialized |-> TRUE, hashSigning |-> TRUE]

\* One turn of the loop of standalone_app_main, which initialises NVRAM once.
StartStandalone ==
  /\ StartAppMain("menu")
  /\ swap' = FALSE
  /\ nv' = IF nv.initialized THEN nv
           ELSE [initialized |-> TRUE, hashSigning |-> FALSE]

PowerOff ==
  /\ session' = "off"
  /\ inbox' = NoCommand /\ asked' = NoCommand
  /\ owed' = FALSE /\ wire' = Silence /\ disturbed' = FALSE
  /\ io' = "READY" /\ recv' = "idle" /\ out' = NoReply
  /\ ctx' = ZeroContext /\ screen' = Plain("blank") /\ swap' = FALSE
  /\ UNCHANGED nv

Launch == session = "off" /\ StartStandalone

\* The Exchange app calls SIGN_TRANSACTION with parameters that copy.
LaunchForSwap ==
  session = "off" /\ StartAppMain("blank") /\ swap' = TRUE /\ UNCHANGED nv

\* app_main has returned, or USB was unplugged: the standalone loop turns, a library
\* call ends.
Restart == (~swap /\ StartStandalone) \/ (swap /\ PowerOff)

Relaunch == session = "returned" /\ Restart
Unplug   == session = "running" /\ Restart
\* The Quit item of the menu, or a loss of power.
TurnOff  == session # "off" /\ PowerOff
-----------------------------------------------------------------------------
Init ==
  /\ session = "off" /\ swap = FALSE
  /\ nv = [initialized |-> FALSE, hashSigning |-> FALSE]
  /\ io = "READY" /\ recv = "idle" /\ out = NoReply
  /\ ctx = ZeroContext /\ screen = Plain("blank")
  /\ inbox = NoCommand /\ asked = NoCommand
  /\ owed = FALSE /\ wire = Silence /\ disturbed = FALSE

Next ==
  \/ Send
  \/ RejectLength \/ RejectHeader \/ GetAppConfiguration \/ GetPublicKey
  \/ SignTxHash \/ SignTxFirst \/ SignTxNext
  \/ ApproveAddress \/ RejectAddress \/ ApproveTransaction \/ RejectTransaction
  \/ PageThrows
  \/ OpenSettings \/ LeaveSettings \/ ToggleHashSigning
  \/ Launch \/ LaunchForSwap \/ Relaunch \/ Unplug \/ TurnOff

Spec == Init /\ [][Next]_vars

\* The device keeps executing, and a user in front of a review eventually decides.
Fairness == WF_vars(HandleCommand) /\ WF_vars(Relaunch) /\ WF_vars(Decide)

FairSpec == Spec /\ Fairness
-----------------------------------------------------------------------------
(* Properties.                                                              *)

\* Every variable has its type, and the bytes accumulated from any number of chunks
\* never exceed the array tx_info.raw they are copied into.
TypeOK ==
  /\ session \in {"off", "running", "returned"}
  /\ swap \in BOOLEAN
  /\ nv \in Settings
  /\ io \in {"READY", "RECEIVED", "WAITING"}
  /\ recv \in {"idle", "async"}
  /\ out \in Reply
  /\ ctx \in Context /\ ctx.rawSize <= RawTxMaxSize
  /\ screen \in Screen
  /\ inbox \in Command \cup {NoCommand}
  /\ asked \in Command \cup {NoCommand}
  /\ owed \in BOOLEAN
  /\ wire \in Wire
  /\ disturbed \in BOOLEAN

\* What approving the flow on display would answer with, were it the context's own.
Consented == IF screen.flow = "address" THEN PubkeyOf(ctx) ELSE SignatureOf(ctx)

\* While io.c waits for the user (WAITING, the only state in which a callback's answer
\* reaches the host), the host awaits an answer and the review on display is of the
\* very context a callback would sign: no command changed it behind the screen.
WaitingScreenIsCurrent ==
  io = "WAITING" =>
    /\ session = "running" /\ recv = "async" /\ owed
    /\ screen.flow \in Reviews
    /\ screen.shown = Consented

\* Every signature the host receives was allowed, by the Exchange app's check or by
\* the user; and what the user allowed, signature or address, is what the user saw,
\* even if the host kept sending commands during the review.
SignedAsShown ==
  LET r == wire.reply IN
  /\ r.kind = "signature" => r.consent # "none"
  /\ r.consent = "swap" => swap
  /\ r.consent = "user" => r.body = r.shown

\* A hash is on the screen for signing only while hash signing is enabled.
HashReviewAllowed == screen.flow = "hash" => nv.hashSigning

\* Hashes are reviewed only while the setting is on, across commands, settings changes and
\* restarts; and nothing but the user in front of the settings turns it on: no command, no
\* start of the application (standalone_app_main, which initialises N_settings), no swap and
\* no loss of power.
HashSigningGated ==
  /\ []HashReviewAllowed
  /\ [][~nv.hashSigning /\ nv'.hashSigning => Showing({"settings"})]_vars

\* The answer in the wire to command c is one that c asks for.
AnswersCommand(r, c) ==
  /\ r.kind = "config" => c.ins = "GET_APP_CONFIGURATION"
  /\ r.kind = "pubkey" =>
       /\ c.ins = "GET_PUBLIC_KEY" /\ r.body.key = c.path
       /\ r.consent = IF c.p2 THEN "user" ELSE "none"
  /\ r.kind = "signature" =>
       \/ /\ c.ins = "SIGN_TX" /\ ~c.p2
          /\ c.first => r.body = [digest |-> RawDigest(c.data), key |-> c.path]
          /\ r.body.digest.kind = "raw"
          /\ ~c.first => c.data[1] = r.body.digest.of[Len(r.body.digest.of)]
       \/ /\ c.ins = "SIGN_TX_HASH" /\ r.consent = "user"
          /\ r.body = [digest |-> GivenDigest(c.data), key |-> c.path]

\* At the moment an answer reaches the host, it answers the last command taken: the
\* key is of the path it named, the signature is of the data or hash it ended with,
\* and never of a transaction the host has not finished sending.
RepliesAnswerCommands ==
  [][wire'.reply # wire.reply => AnswersCommand(wire'.reply, asked')]_vars

\* With a host that waits for its answers and callbacks that do not throw, a review is
\* on display exactly while the host awaits an answer.
NoOrphanReview ==
  ~disturbed /\ session = "running" =>
    ((screen.flow \in Reviews) <=> owed) /\ (owed <=> io = "WAITING")

\* With such a host and callbacks, an answer is sent only to a command, once, and is
\* never the remains of a buffer that another command has overwritten.
NoStrayReply == ~disturbed => wire.solicited /\ wire.reply.kind # "clobbered"

\* With such a host and callbacks, io.c never returns -1, which ends app_main and
\* silently drops the connection and the command.
NoSilentRestart == ~disturbed => session # "returned"

\* Every command sent is taken, and every command taken is answered or ends with the
\* session, whatever the host does, if the user eventually answers reviews.
EveryCommandAnswered ==
  /\ (inbox # NoCommand) ~> (inbox = NoCommand)
  /\ owed ~> ~owed

\* What the device promises about signing: see ApprovalOracle.
Oracle == INSTANCE ApprovalOracle WITH
  Payload   <- Payload,
  None      <- NoPayload,
  pending   <- (inbox # NoCommand),
  delegated <- swap,
  review    <- (IF io = "WAITING" /\ screen.flow \in {"tx", "hash"} THEN screen.shown
                ELSE NoPayload),
  issued    <- (IF wire.reply.kind = "signature" THEN wire.reply.body ELSE NoPayload)

\* The application implements the oracle: a signature is issued only by the user
\* approving the review on display, at most once per review, or by delegation.
ImplementsOracle == Oracle!Spec
=============================================================================
