# A TLA+ model of the Ledger Stellar application

The application signs Stellar transactions on a hardware wallet. A host sends it commands
(APDUs) over USB or Bluetooth; it shows the user what is to be signed and answers with a
signature once the user has approved. These modules model the application in
`src/src/`, state what it promises, and check and prove it. Paths below are relative to
`src/src/` unless they start with `docs/` or are said to be at the root.

## 1. The system

| Component | Source | State | Operations |
|---|---|---|---|
| APDU loop, session | `main.c`, `globals.c` | `G_context`, `G_called_from_swap`, NVRAM settings | start, loop, restart, library entry, exit |
| I/O automaton | `io.c`, `send_reponse.c` | `G_io_state`, `G_io_apdu_buffer`, `G_output_len` | receive a command, send an answer, USB unplugged |
| APDU parser, dispatcher | `apdu/` | none | accept or refuse a command |
| Handlers | `handler/` | `G_context` | `GET_PUBLIC_KEY`, `SIGN_TX` (in chunks), `SIGN_TX_HASH`, `GET_APP_CONFIGURATION` |
| Approval callbacks | `ui/action/validate.c` | `G_context.state` | approve, reject |
| Menu, settings | `ui/ui_menu.c`, `settings.h` | NVRAM | toggle hash signing and sequence numbers, quit |
| Transaction review | `ui/ui_transaction.c` | `G_ui_current_state`, `G_ui_current_data_index`, `num_data` | next, previous, finalize, cancel |
| Formatters | `transaction/transaction_formatter.c` | `formatter_stack`, `formatter_index`, caption and value | print a page, push the next |
| Transaction parser | `transaction/transaction_parser.c` | `tx_info.offset`, `tx_details` | read the header, read one operation |
| Hash review, address review | `ui/ui_transaction_hash.c`, `ui/ui_address.c` | data index | next, previous, decide |
| Keys | `crypto.c`, `common/bip32.c` | none | derive, sign |
| Swap library | `swap/` | `G_swap_values` | check an address, print an amount, check and sign a transaction |
| Values to text, byte buffer | `utils.c`, `common/` | none | conversions, bounds-checked reads |

How they interact. The program has one thread and blocks in one place, `io_exchange()`,
called by `io_recv_command()`. While it is blocked, `io_event()` runs user-interface
callbacks: turning a page, or approving, which sends an answer from within the exchange
that waits for the next command. Handlers and callbacks share `G_context`, the three-valued
`G_io_state` and one buffer for commands and answers. A handler either answers, or puts a
review on display and returns; the review's callback answers later. Exceptions end a
handler or a callback anywhere, and `app_main()` answers with their code.

What is hard about it:

* The host and the user act independently. A command may arrive while a review is on
  display and rewrite the context the review's callback will sign.
* Which answer leaves, and when, is decided by `G_io_state`, which three different code
  paths drive. In the wrong state the functions return -1, and `app_main()` ends.
* `SIGN_TX` takes any number of commands, with others between them.
* An exception in a callback leaves the review on display although the host has been
  answered.
* Settings survive restarts and power loss; nothing else does.
* Only one operation of a transaction fits in memory. The review parses as it goes, and to
  go back rewinds to the beginning; what is printed comes from the operation last parsed,
  while captions and the end of the review come from three indices.

What makes each part correct: section 3 states it per property. PROJECT.json lists
the hazards with their lines and the properties that would catch them.

## 2. Modules

| Module | What it is |
|---|---|
| `StellarApp` | the session: loop, I/O automaton, dispatcher, handlers, callbacks, menu, restarts |
| `ApprovalOracle` | what the session promises about signatures, abstractly |
| `TxReview` | the review of a transaction: page turning, formatter stack, re-entrant parser |
| `HashReview` | the reviews of a hash and of an address, and the globals they share with `TxReview` |
| `Pager` | what every review promises about pages, abstractly |
| `Xdr` | the readers of the transaction parser, as a grammar |
| `TxParser` | the parser that runs them, one call of a reader per step |
| `Reader` | what a review relies on the parser for, abstractly |
| `OpFormatters`, `HeaderFormatters` | the pages of the 24 operation types, and of the header |
| `OpReview` | the pages of what the parser has read: `TxParser` and the formatters composed |
| `Swap` | the application as a library of the Exchange application |
| `Buffer` | the cursor over the data of a command, and what it reads |
| `Values` | numbers, amounts and keys as text, of what `Buffer` reads |
| `StellarAppProofs`, `TxReviewProofs`, `OpReviewProofs`, `HashReviewProofs`, `SwapProofs`, `BufferProofs`, `ValuesProofs` | theorems |
| `NumberProofs` | induction and recursion over numbers and sequences, for those proofs |
| `MCSamples` | transactions, encoded after the Stellar protocol and not after the parser |
| `MCStellarApp`, `MCTxReview`, `MCHashReview`, `MCTxParser`, `MCOpReview`, `MCSwap`, `MCBuffer` | the instances TLC checks |

`TxReview` abstracts an operation to whether it parses and how many pages it has; `TxParser`
and `OpReview` are about what it abstracts from.

### StellarApp

A state is the program blocked in `io_exchange()`. A step is all the program does between
two blockings, so each handler is one action with everything it calls.

| Variable | Code |
|---|---|
| `session` | off; running; `app_main()` has returned and its caller has not restarted it |
| `swap`, `nv`, `io`, `ctx` | `G_called_from_swap`, `N_settings`, `G_io_state`, `G_context` |
| `recv` | which of the two `io_exchange()` calls of `io_recv_command()` is blocked |
| `out` | the answer in `G_io_apdu_buffer`, which the next exchange transmits |
| `screen` | the flow on display, with what it was given to show |
| `inbox`, `wire`, `owed` | the channel: the command under way, the last answer, whether one is due |
| `asked`, `disturbed` | history, for the properties only |

`SendResponse` and `Listen` are `io_send_response()` and `io_recv_command()`. `Return`,
`Throw` and `Show` are the three ways a handler ends: with an answer, with an exception,
with a review. `Answer` and `CallbackThrows` are the two ways a callback ends. `disturbed`
remembers whether, since `app_main()` started, the host sent a command without waiting for
an answer or a callback threw.

Data is abstract: a digest remembers the chunks or the hash it is of, a key the path it was
derived from, so two are equal exactly if the bytes are. Whether a transaction
parses, whether swap parameters match and whether the SDK's cryptography succeeds are
nondeterministic. The sequence-number setting is left out: it only decides
about a page of the header, which `HeaderFormatters` has. Taking a command overwrites the shared buffer:
an answer still in it becomes `Clobbered`, which is not the answer that was written. The
first bytes are the command's; of an answer longer than the command the tail is left, and
`Clobbered` does not tell that from an answer that is gone altogether.

### TxReview

| Variable | Code |
|---|---|
| `tx` | the transaction in `tx_info.raw`: header options, announced number of operations, operations |
| `step`, `border` | the step of `ux_confirm_flow`, `G_ui_current_state` |
| `mem` | data index, formatter index, formatter stack, operation index, offset, the operation last parsed into `op_details`, the page printed |
| `seen`, `extended` | history, for the properties only |

`UpperBorder` and `LowerBorder` are `display_next_state()`; `SetStateData`, `NextScreen`,
`PrevScreen`, `Fetch` and `Parse` are the functions of the same or similar names. A page is
named by what is printed (the header's or an operation's part), which is computed from
`op_details`, and not by the indices that select it. An operation is a number of pages,
whether it has its own source account (one more page) and whether it parses. A step that
throws (`thrown`) ends the review: what a stale review can then do to the host is part of
`StellarApp`. The flow engine is the SDK's: `Right` and `Left` move along the six steps of
the flow, and paging within a long text is left out.
A review of `SIGN_TX` chunks that are incomplete or do not parse leaves the previous review
on display with a zeroed context; `TxReview` does not model turning its pages, and
`StellarApp` shows that approving it sends no signature.

### Xdr and TxParser

`transaction_parser.c` is a recursive-descent parser: most of its functions read a word, decide
by it, and call others. `Xdr` is the table of who calls whom and which field of
`tx_ctx_t` each call writes; the readers are grouped by what they do first (take a fixed number
of words, read a string, decide a union, repeat, call in turn). In `TxParser` each group is a
function of the words that are left and of the call (`ReadWords`, `ReadText`, `ReadUnion`,
`ReadArray`, `ReadOptional`, `CallStruct`; `Outcome` is the one for the reader called). Its value
is how many words are taken, the calls to make next and the fields written, or `Refusal`. `Step` calls
one reader and does what comes of it (`Proceed`, `Fail`).

| Variable | Code |
|---|---|
| `doc` | `tx_info.raw` and `raw_size`: words, and how many the host has sent |
| `status` | whether `parse_tx_xdr()` runs, has returned true or false, or has thrown |
| `pos` | `buffer.offset`, in words |
| `todo` | the C stack: the calls that the functions under way have still to make |
| `offset`, `opIndex` | `tx_info.offset`, `tx_details.operation_index` |
| `details` | the rest of `tx_details`: the fields written, and what was written there |
| `read` | history: what was in `details` after an operation was read, per offset |

A failing `PARSER_CHECK` makes every caller return, so it empties `todo`. `Begin` and `End`
are `parse_tx_xdr()` before and after the readers; `Rewind`, `Restart`, `Load` and
`Extend` are what the review and `handler_sign_tx()` do to its state between two calls. The
`memset` of `parse_operation()` (`Kept`) is what removes the fields of the operation before; a field of
another arm of a union is absent from `details`, so reading it shows as `Unwritten`.

An enumeration is stored in as few bytes as it needs when the compiler is given
`-fshort-enums`, as a comment in `utils.c` (line 296) supposes: a type is then narrowed before it
is looked at. `ShortEnums` says whether it is.

### OpFormatters, HeaderFormatters and OpReview

A chain of formatters that push one another is the sequence of their pages. A page is its
caption and what the printing functions of `utils.c` leave of the value. Most of them tell
any two values apart (a base32 key, an amount, a number; `Values` is about those): they are left
out, and the page has the value itself. The others are modelled by what they do: shortening a
text to its ends (`print_summary`, the constant `Ends`), cutting a C string at its first zero
byte, dividing a price, naming flags, replacing unprintable data. `Shown` is the chain of the
operation in `op_details` with the page of its source account, `Told` is the operation without
what the display leaves out on purpose; `HeaderPages` and `ToldOfHeader` are the same of the
header. The parser keeps the 32 bytes of the network in the model, and the page names them,
where the code names them while it reads.

### HashReview

| Variable | Code |
|---|---|
| `ctx` | the key and the hash in `G_context` |
| `awaited` | whether `G_io_state` is `WAITING` for this flow |
| `flow`, `step` | the flow on display and its step |
| `border`, `index`, `value` | `G_ui_current_state`, `G_ui_current_data_index`, the caption and value buffers |
| `seen`, `answer` | history: pages shown; the last answer that got to the host |

`CrossBorder` is `display_next_state()` of `ui_transaction_hash.c`, with `HasData` and
`DataAt` for `get_next_data()`. `AnswerAtOnce` is any command answered without a review: it may
rewrite the context, and the flow stays on display (which of the contexts is a transaction's is
not told, so that any may have its hash replaced, as data added to a transaction do). `TurnTxPage` stands for any review of a
transaction, which leaves border and index anywhere and the buffer with something else.

### Swap

| Variable | Code |
|---|---|
| `lib`, `result` | whether `library_main()` has started `app_main()`; what a call returned |
| `values` | `G_swap_values` |
| `ctx` | `G_context`: request type, `tx_info.raw` as headers and operations, the offset, and `tx_details` as the header and the operation they were read from |
| `answer` | the status and, of a signature or a refusal, the data it is about |
| `request`, `extended` | history: what was asked; whether data followed a transaction that had parsed |

Data of a transaction are a sequence of items, each a header, an operation or something that
does not parse; `Parse` is what `parse_tx_xdr()` does with them in one call (`TxParser` has its
steps). Strings are sequences, so that `strcmp` and `strlcpy` see what C sees, and the bytes of
amounts keep their width.

### Buffer and Values

| Variable | Code |
|---|---|
| `memory` | `G_io_apdu_buffer` from `OFFSET_CDATA` on, 255 bytes, with what is left behind the data |
| `size`, `offset` | `buffer_t` |
| `last` | the last call, what it returned and read, and how far it looked |

Every function of `buffer.c` that reads or moves is an action; the calls they make (`read.c`,
`varint_read`, `bip32_path_read`) are part of it. `Plus` is the addition of `size_t`, which
wraps. The data may fill `memory` to its last byte, as `Lc` may be 255. The functions are called in any
order with any arguments, but for `buffer_read_bip32_path()`: it does not stop at the end of the data,
and is modelled as its three callers use it, right after `buffer_read_u8()` at the beginning of
the data and for the number of path elements that byte says (`LengthRead`). `swap/handle_check_address.c`
calls `bip32_path_read()` itself, on parameters of the Exchange application. `Values` has print_uint, print_amount, base32_encode and base64_encode as functions of
what was read. A `uint64_t` is eight bytes and its division by ten is long division, since
TLC's integers have 32 bits.

## 3. What the runs check

| Run | Specification, instance | Properties |
|---|---|---|
| `any_host` | `StellarApp!Spec`: one path, two chunks (1 and 2 bytes), one hash, `RAW_TX_MAX_SIZE` 2; 2.5 million states | the first eight properties below, without `ImplementsOracle` |
| `two_keys` | `StellarApp!Spec`: two paths, one chunk, one hash; 2.2 million states | `WaitingScreenIsCurrent`, `RepliesAnswerCommands`, `ImplementsOracle` |
| `liveness` | `StellarApp!FairSpec`: one path, one chunk | `EveryCommandAnswered` |
| `any_transaction` | `TxReview!FairSpec`: 13 transactions, sound and not; 12 thousand states | `TypeOK`, `EveryPageShown`, `PageIsCurrent`, `ThrowsOnlyWhenFull`, `ImplementsPager`, `ReviewEnds` |
| `hash_and_address` | `HashReview!Spec`: two keys, two hashes; 5 thousand states | `TypeOK`, `AnswersWhatWasShown`, `ImplementsPager` |
| `parser` | `OpReview!Spec`: every document below; 58 thousand states | `TypeOK`, `ReadsWhatWasSent`, `ReadsAgree`, `OperationsAreCounted`, `ImplementsReader`, `RefusesOnlyInvalid`, `TellsApart`, `HeadersTellApart`, `FieldsAreWritten`, `FitsStack` |
| `swap` | `Swap!Spec`: 6 requests, 7 headers, 5 operations; 34 thousand states | `TypeOK`, `SignsTheRequest`, `RefusesOnlyOthers` |
| `buffer` | `Buffer!Spec` with `Values`: 12 images of the APDU buffer; 99 thousand states | `TypeOK`, `ReadsAreWhole`, `PathsAreNearlyWhole`, `NumbersAreExact`, `AmountsAreExact`, `TextsAreWhole` |
| `unshown` | transactions that do not parse in full | `EveryOperationShown` is violated |
| `parts` | a transaction in two parts, each of which parses | `ExtendedIsShown` is violated |
| `path_hops` | path payments over two hops | `RefusesOnlyInvalid` is violated |
| `buffer_path` | the buffer | `PathsAreWhole` is violated |

The session, for every host:

* `TypeOK` includes that no sequence of chunks overruns `tx_info.raw`.
* `WaitingScreenIsCurrent`: while an approval could reach the host, the review on display
  is of exactly the context that would be signed, and the host awaits the answer.
* `SignedAsShown`: every signature was consented to, by the user or by the exchange
  application, and a user's consent was to what was shown.
* `HashSigningGated`: no hash is on display while the setting is off, and nothing but the user in
  front of the settings turns it on: no command, start, swap or loss of power.
* `RepliesAnswerCommands`: an answer is of the kind, path and data of the last command, and
  a transaction is never signed before its last chunk.
* `ImplementsOracle`: `StellarApp` refines `ApprovalOracle`; a review yields at most one
  signature.

For hosts that wait for their answers, and callbacks that do not throw:

* `NoOrphanReview`: a review is on display exactly while an answer is owed.
* `NoStrayReply`: no answer is unsolicited, and none is a buffer another command overwrote.
* `NoSilentRestart`: `app_main()` never ends by itself.

The restriction is needed. When a command is sent during a review, or when a callback
throws and the review stays on display, approving it later buffers an answer in state
`RECEIVED`; the next command is then answered by a restart of the application
(`io_send_response()` returns -1 in `READY`), or, if it puts up a review, by the remains
of the buffer. None of this sends a signature for something not shown: that part of the
properties has no such restriction.

The review, however the pages are turned and whatever was reviewed before:

* `EveryPageShown`: Finalize is reached only after every page of the header and of every
  operation before the first that does not parse.
* `PageIsCurrent`: in spite of rewinding, the details in memory are those of the operation
  the indices name.
* `ThrowsOnlyWhenFull`: a page is refused for want of formatters only in a chapter with as
  many pages as the stack has entries; one page fewer is enough if the host sends more data
  during the review, as they may replace the details and add a page for their source.
* `ImplementsPager`: forwards is page by page; backwards is page by page, and from the first
  page of an operation to the first page of the one before.
* `ReviewEnds`: a user who only presses the right button gets past Finalize, also where an
  operation does not parse; no blank page or border holds them.

`EveryPageShown` and `PageIsCurrent` are stated for hosts that do not send more data for a
transaction they have already sent in full (`extended`). `handler_sign_tx()` accepts such
data, parses it from the offset the review has left, and starts a review in which
`operation_index` and `op_details` are those of a later operation: the pages of the
operations before it are then not shown again. Without that condition the property is
violated: that is `parts`.

The reviews of a hash and of an address, with commands and other reviews in between:

* `AnswersWhatWasShown`: a signature of a hash that reaches the host is one of which the user has
  seen both the key and the hash, in the flow they approved, although the pages are fetched
  from a context the next command may rewrite; a key confirmed is one they have seen.
* `ImplementsPager`: the address, then the hash, neither skipped, in both directions, wherever
  the review of a transaction left the globals both use.

The parser, whatever order the operations are read in, rewound and read again, and wherever the
data ends:

* `TypeOK` includes that no reader goes beyond the data.
* `ReadsWhatWasSent`: what is in memory after an operation was read is what the sender
  encoded, field by field: the header, this operation, and nothing of another.
* `ImplementsReader`: `TxParser` refines `Reader`; the parser goes from one
  operation to the next, never into one, only over operations that are valid and were sent in
  full, and a refused one leaves it where it was.
* `RefusesOnlyInvalid`: nothing else is refused.
* `ReadsAgree`: two readings from the same place agree in every field, whatever was read or
  refused between them and however little of the data was there; the header never changes.
* `OperationsAreCounted`: `operation_index`, from which the page "Operation i of n" is made, is the
  number of operations before `tx_info.offset`, modulo 256.

The pages of what was read:

* `TellsApart`: two operations of a transaction with the same pages are the same operation from
  the same source, up to what the display leaves out. Only the device's own account
  is shortened, and only where the transaction's source is the device too.
* `HeadersTellApart`: two headers with the same pages are the same header, up to what is left
  out: the number of operations (their own pages have it), the sequence number if the setting
  is off, which unknown network it is, and conditions that are absent or zero.
* `FieldsAreWritten`: no formatter prints a member of another arm of a union, or of something
  optional that is absent.
* `FitsStack`: the stack of formatters holds the longest chain of any operation (`set_options`
  with everything), and that of every header while the sequence number is not shown.

With the sequence number shown, the header of a fee bump on another network, with a memo and
all preconditions has 16 pages; the last pushes a 17th formatter, `format_next_step`, and
throws. Such a transaction cannot be reviewed, although `transaction_formatter.h:18` says "16
formatters in a row ought to be enough for everybody"; `ThrowsOnlyWhenFull` says that nothing
else is refused for that reason.

The swap, whatever the Exchange asks for and the host sends:

* `SignsTheRequest`: what is signed is the payment the Exchange asked for, in every particular,
  and not what a conversion, a truncation or an operation read earlier made of it. Where the
  host adds data to a transaction that had parsed, the payment is one of the operations in
  them: `handler_sign_tx()` parses the next operation, and `swap_check()` looks at that one
  alone. The header still announces one operation, so that the network reads no other.
* `RefusesOnlyOthers`: that payment is never refused by `swap_check()`.

The buffer and the text of what is read from it:

* `TypeOK`: the cursor stays inside the data, and no call looks behind the APDU buffer, even if the
  data fill it.
* `ReadsAreWhole`: a read that succeeds returns the bytes the cursor passes, each once and in
  the order of their significance; one that fails leaves the cursor; only the read of a path
  looks behind the data.
* `PathsAreNearlyWhole`: that one looks at most one number behind them.
* `AmountsAreExact`, `NumbersAreExact`: what is shown denotes exactly the number that was read,
  in its shortest form, of numerals and, in an amount, of a point and the commas of groups of three;
  and every amount of the protocol can be shown.
* `TextsAreWhole`: from the digits of a text in base 32 or 64 every bit of the data can be told.

Four runs expect a violation.

* `unshown`. `docs/TRANSACTION.md:5` says the transaction is read to show its details to the
  user, and `docs/COMMANDS.md:85` has a status word for a transaction that does not parse.
  Only the first operation is parsed before the review; if a later one does not parse, a
  blank page is shown and Finalize follows. One cause in well-formed transactions:
  the assets of a payment's path are not consumed (`transaction_parser.c:441`), so what
  follows such a payment is read from the wrong place.
* `parts`. The same sentence of `docs/TRANSACTION.md`: a transaction all of whose operations
  parse is approved without the pages of its first ones, if its end was sent while the
  beginning was under review.
* `path_hops`. `release-notes.md:35`, at the root of the repository, gives as an example 5 path
  payments over two hops in one transaction. The parser reads the length of the path and not its assets
  (`transaction_parser.c:441` and `:611`), so the second operation is read from the middle of the
  first and refused. The repository's tests have paths only in transactions of one operation.
* `buffer_path`. `buffer.h` says that `buffer_read_bip32_path()` reads a path from the buffer and
  returns true if it succeeds. `bip32_path_read()` asks before each number whether the data end
  before it starts, not within it, and the buffer does not look whether it could move on: the last
  number of a path that is cut off is completed with bytes of an earlier command or answer.

### Bounds

`any_host`: two chunks of different lengths and a limit of two bytes give transactions of
one and of two chunks, chunks that fit by one byte and that exceed by one, and data of
one transaction following data of another; one hash is enough, since
no step compares hashes. What one path cannot show, keys of different commands, is
`two_keys`. `liveness` keeps only what the I/O automaton distinguishes; hashes and longer
transactions take the same paths through it. The state is bounded without constraints,
because `rawSize` is bounded by the code and the channel holds one command.

`any_transaction`: one to four operations, with one to three pages each, with and without
source, cover single operations (which have no "Operation i of n" page), first, middle and
last ones, and rewinding over one, two and three operations. The unsound ones have an
operation that does not parse, fewer operations than announced, more, none announced, and
prefixes of each other for data sent later. `MAX_FORMATTERS_PER_OPERATION` is the real 16,
with headers of 2 to 16 pages.

`parser`: the documents are every operation type with, one field at a time, every alternative
of that field (types, absent and present, limits, the empty and the longest) after a plain one;
neighbouring types in threes, with and without source; the three kinds of
preconditions, the five memos, both envelopes; one transaction cut after each of its words;
some thirty operations and nine headers that must be refused, each for another check; and
what the parser accepts though the encoding does not allow it (types that only match in the
bytes kept, a true that is not 1, padding of a signed payload), listed as `Lenient`. Claim
predicates are nested to two levels here; the parser sets no limit of its own. A word is a natural number, and
only its low bytes are used where the code narrows it. Path payments have no hops here: with
them the property fails, which is `path_hops`.

The same run has pairs of operations of the same kind that differ in one
field or in their source, and headers that differ in one field, with each condition absent,
zero or set, on the three networks and with both settings for the sequence number. What a display leaves out, and `Told` with it: claimants
(the user is warned), the rest of an offer that is removed, the middle of shortened texts,
flags without a name, and digits of a price after the seventh.

`hash_and_address`: two keys and two hashes are what it takes for the context to change under a
review. Nothing else of the data matters, which is what the proof shows.

`swap`: a byte has one decimal digit and an amount two of them, so that amounts of three bytes
are among the requests; memos have up to two characters, and one has three. Headers and
operations differ from those of the payment in one particular each. Transactions have up to
`MaxItems` headers and operations, in any pieces.

`buffer`: room for 17 bytes of data, `SIZE_MAX` 31, so that sums of every offset and length
overflow; data of every length from none to all 17. `MAX_BIP32_PATH` is 3, so that the longest path
takes 13 bytes and one of two numbers more would leave the buffer. The bytes of two images differ
from one another and are the prefixes of all kinds of varint; two are paths, of the longest length
and of one number more; eight more images begin with the numbers where print_amount
and print_uint change their minds: the largest, the largest that is not negative, the last with
19 digits, a first digit behind and in front of the point, trailing zeros.

### Fairness

`FairSpec` assumes weak fairness of three actions. `HandleCommand`: the device executes, and
a command that has arrived is handled, as the program has no other wait. `Relaunch`: the
loop of `standalone_app_main()` turns once `app_main()` has returned. `Decide`: a user in
front of a review eventually approves or rejects. Nothing is assumed of the host, of the
menu, of page turning or of the power. `TxReview!FairSpec` assumes weak fairness of `Right`, and
`ReviewEnds` only speaks of behaviours in which from some point on nothing else happens.

## 4. What is proved

`StellarAppProofs` proves, for any sets of paths, chunks and hashes, any lengths and any
`RAW_TX_MAX_SIZE`:

| Theorem | Statement |
|---|---|
| `Invariance` | `Spec => []Inv` |
| `TypeCorrect`, `ReviewsAreCurrent`, `SignaturesAreShown` | `Spec =>` always `TypeOK`, `WaitingScreenIsCurrent`, `SignedAsShown` |
| `HashSigningIsGated` | `Spec => HashSigningGated` |
| `ReviewsAreOwed`, `RepliesAreSolicited`, `NeverRestarts` | `Spec =>` always `NoOrphanReview`, `NoStrayReply`, `NoSilentRestart` |
| `RepliesAreToCommands` | `Spec => RepliesAnswerCommands` |
| `Implementation` | `Spec => ImplementsOracle` |

The only assumption is `ConstantsOK`: the path that stands for an invalid one is not a
path, lengths are natural numbers, and a chunk is not empty.

The argument. The safety properties are not inductive by themselves. `Inv` adds
`SigningShowsPayload`: a transaction or hash review shows a payload that is not
the empty one, without which an approval could not be told from a withdrawal. That
`WaitingScreenIsCurrent` is preserved is the heart: `io` is `WAITING` only while
`io_recv_command()` is blocked in its second exchange, and `IoTaken` shows that
taking any command leaves that state, so whatever a handler does to the context, no callback
can answer from it until a handler has put up a review of the new context. Each
handler is shown (`...Handled`) either to reply or to display a review of the context it
leaves; each callback (`Decided`) either to respond with what the review shows or to fail;
the invariant then needs four cases instead of twenty. For a host that waits, `Calm` is
inductive relative to `Inv`: between commands the automaton is `RECEIVED`, an answer is owed
exactly while it is `WAITING`, and then no command is under way. The refinement uses
the same summaries: a handled command is `Present`, `Dismiss` or `Delegate`, a decision is
`Approve` or `Withdraw`, a restart is `Reset`, and the rest stutters. `RepliesAnswerCommands` relates an answer to the
last command, which no longer is on the wire when a user decides; `Promised` therefore says,
while `io` is `WAITING`, that what an approval would send (`Approval`, a function of the context)
answers the last command. Taking a command leaves `WAITING` and with it the promise; a handler
that displays a review makes it anew, and `SIGN_TX` does so only for the last chunk. `HashSigningGated`
is about states (`HashReviewAllowed`, part of `Inv`) and about steps: `OnlyTheUserEnables` goes through
all that may write `N_settings`.

`TxReviewProofs` proves, for any transactions, with any number of operations and of pages each,
and any size of `formatter_stack`:

| Theorem | Statement |
|---|---|
| `ReviewInvariant` | `Spec => []IInv` |
| `ReviewTyped`, `PagesAreCurrent`, `PagesAreShown`, `ThrowsWhenFull` | `Spec =>` always `TypeOK`, `PageIsCurrent`, `EveryPageShown`, `ThrowsOnlyWhenFull` |
| `ReviewIsAPager` | `Spec => ImplementsPager` |

It assumes `TransactionsOK`: the first operation of a transaction under review parses, which
`handler_sign_tx()` has seen to, and `formatter_stack` has at least two entries. The argument has
three layers.

* The loop of `get_formatter()`, which parses until it has reached the data index or an operation
  fails, is a recursive function of the memory. `LoopIsOutcome` says in closed form what it
  leaves: the operation wanted, or the first one on the way that does not parse. The proof is by
  the least number of operations still to be parsed for which it might not be so (`Least`).
* `Shape` holds in every behaviour, whatever the host sends: the parser is at the beginning or
  behind as many operations as it has counted, and each entry of the stack is a formatter that
  may stand there (`Entry`). From it follow the types, and where the review may throw.
* `IInv` adds, while the host sends no more data for the transaction, that the review is
  `Normal` or `AllShown`. `Normal`: the formatters up to the current one, the details in memory and
  the page printed are of the chapter of the data index, the next formatter has been pushed, and
  all pages before this one have been shown (`OnPage`). `AllShown`: an operation has failed to
  parse, and every page before it has been shown; then indices and details may part, and nothing
  is said of them. `RightNormal` and `LeftNormal` show that a button keeps `Normal`, and what it
  does to the page (`Forwards`, `Backwards`), or that it brings about `AllShown`. The
  refinement maps the page printed to the place in the book; it needs those two lemmas only.

An earlier form of `ThrowsOnlyWhenFull`, without the page that data sent later may add, was false:
its proof failed at the page of the source (`IsSource`), and TLC then found the counterexample,
in a chapter of 15 pages. The instance of `any_transaction` has no such chapter, as reviews of that
length with data in between have millions of states; there the theorem stands alone.

`OpReviewProofs` proves of the parser, for any documents, the ends of valid operations declared
or not:

| Theorem | Statement |
|---|---|
| `StaysInside` | `Spec => []TypeOK`: the parser never stands beyond what was sent |
| `ReadsAfresh` | `Spec => []AsAFreshParser`: what was read from a place is what a parser reads there that has just begun, with the header alone in memory |
| `ReadingsNeverDiffer`, `IndexIsTheCount` | `Spec =>` always `ReadsAgree`, `OperationsAreCounted` |

They assume `DocumentsOK`: words are natural numbers, and no more of them were sent than there
are. The argument has four layers.

* What a reader does depends only on the words it takes: with more data behind them the outcome is
  the same, and it takes none that are not there (`MoreIsTheSame`). That is enough for
  `StaysInside`.
* A reading is therefore a run of a function, `Turn`, of the place, the calls to make and the fields.
  From one state it comes to one end (`OneEnd`), and more data do not change it (`ReachesThen`).
* Of the grammar, two facts. What is called while an operation is read writes under `op` and nowhere
  else (`OutcomeThere`), so the header stays as it was read. `parse_tx_xdr()` does not clear the
  network and the type of the envelope; both are written anew before anything else is, so nothing of
  the transaction before is left when the header is complete (`EnvelopeTurns`, `NothingIsLeft`).
* `ReadingInv` is inductive. `UnderWay`: the reading under way is one of a parser that has
  just begun, up to what is not cleared. `History`: the operations read follow one another without a
  gap from the beginning of the data to a place (`top`), and `offset` is between two of them.
  `Counted`: `opIndex` is the number of those before `offset`. A retry after more data may go beyond
  `top`, a rewinding goes back; neither finds a place where an operation does not begin.

Four more theorems are about documents that say what their operations are:

| Theorem | Statement |
|---|---|
| `WhatWasSentIsRead` | `DocumentsDescribed /\ Spec =>` always `ReadsWhatWasSent` |
| `ParserImplementsReader` | `DocumentsDescribed /\ Spec => ImplementsReader` |
| `OnlyTheDataAreRefused` | `DocumentsDescribed /\ Spec => RefusesOnlyInvalid` |
| `HeadersAreTold` | `DocumentsDescribed /\ Spec =>` always `HeadersTellApart` |

`DocumentsDescribed` supposes of each document that its operations begin at different places, one
behind the other, that the k-th is what a parser reads there that has just begun, with everything
there and the header in memory, and that such a parser finds no further one behind the last. The
theorems carry this over to the device: to data cut anywhere and completed later, operations read in
any order, refused, rewound to and read again, and what another transaction has left in memory.
Whether a parser that has just begun reads what the encoder has written is a fact about single
documents (for all of them it would need induction over the data, which is out of reach). It is true
of those of the run `parser`, which has every one in full, and read from the beginning by a parser with
nothing in memory; those of `path_hops` do not have the property, and there the conclusion fails. The invariant of the proofs is `SentInv`: of every operation read
the document says the same.

`HeadersAreTold` rests on `WhatWasSentIsRead`, and on the assumption `HeadersOK` of `OpReview`, which
the run `parser` evaluates: a header has the fields that `TransactionEnvelope` gives it (`IsHeader`),
those of an arm of a union or of something optional if and only if the header says that they are
there. Any or none of the pages for the network, the fee bump, the memo, the sequence number and the seven
conditions may be there, and pages are compared without knowing which. The argument is that their captions
come in a fixed order: each part of the header is empty or begins with a caption of its own rank, what
follows is of higher ranks, and so equal sequences of pages are equal rank by rank (`Peeled`,
`PartsAgree`). Each page then tells the fields it stands for (`FieldIsTold`): a condition by
its value, which is absent or zero without the page; the memo's type by the caption; an account in full,
or shortened, which happens only to the device's own.

It also proves `StackSuffices`, `Spec => []FitsStack` of `OpReview`: for any documents and
whatever was in memory, no operation and no header has more pages than `formatter_stack` has
entries. Pages have no type, as they hold whatever was in a field, so the lemmas are about how many
there are (`AtMost`, `Together`, `Perhaps`). The largest operation is `set_options`, with every option
counted although some exclude each other: 13 pages, one for its source, one for the number of the
operation and `format_next_step` make the 16 of `MAX_FORMATTERS_PER_OPERATION`. A fee bump
on another network, with a memo and every precondition, needs as many while the sequence number is
hidden; with it shown the last push throws, and `FitsStack` does not speak of that setting.

`HashReviewProofs` proves, for any keys and hashes:

| Theorem | Statement |
|---|---|
| `TypeCorrect`, `AnswersAreShown` | `Spec =>` always `TypeOK`, `AnswersWhatWasShown` |
| `Implementation` | `Spec => ImplementsPager` |

It assumes `HashReviewOK`, that an empty key or hash is told from the others. What has been seen is
a set, and a command may have changed the context since; so `Inv` says where the flow is at each
of its steps (`HashPlace`: where border and index are before, within and after the pages), and that
while the answer is awaited what has been seen is of the context that stands (`HashSeen`,
`AddressSeen`). A review of a transaction can leave border and index anywhere, and no step relies
on them before `CrossBorder` has set them. The refinement maps the index to the page of `Pager`.

`SwapProofs` proves, for any requests, headers, operations and pieces, any width of a byte and any
number of them in a `uint64_t`:

| Theorem | Statement |
|---|---|
| `Invariance` | `Spec => []Inv` |
| `TypeCorrect`, `SignaturesAreRequested`, `RequestsPass` | `Spec =>` always `TypeOK`, `SignsTheRequest`, `RefusesOnlyOthers` |

It assumes `SwapOK`: requests, headers and operations are made of the fields the code has, the memo
of a request has no zero byte, being a C string, and `tx_info.raw` has room for what one APDU
brings. `Inv` adds `HasTheRequest` (while the application runs, the globals hold the parameters it
was started for, and they could be copied), `SilentOutside` (no answer is left from an earlier
call) and `ContextIsRead`: once the saved offset is behind an operation, it is inside the data and
the header in `tx_details` is the header of these data. Without it a further chunk, whose header is
not read again, might be checked with the header of another transaction.

The amounts are compared as the code has them with the numbers the Exchange meant. `Accumulated`
is the loop of `swap_str_to_u64()`, which shifts in a `uint64_t`; `BigEndian`, in the properties
only, is the number the bytes are. `NothingIsShiftedOut` proves that they are equal where the
length has been checked, by induction on the length: n bytes are less than the n-th power of the
base (`DigitAdded`), and no power up to `sizeof(uint64_t)` exceeds the width (`PowersGrow`).

`NumberProofs` has what the proofs need of the natural numbers and of sequences. The library's
theorems on induction and recursion take operators, which the provers cannot instantiate; these take
sets and functions. A set of numbers has a least one (`Least`); a set with zero and with the
successors of its members has all of them (`Induction`); a loop given by a function of the turn
and the value has a value after any number of turns (`PrimitiveRecursion`), and over any sequence
(`SequenceRecursion`): so the equation of a recursive function has a solution, without which nothing
is known of the function.

`BufferProofs` proves `TypeCorrect`, `PathsStayNear` and `ReadsReturnTheData`, `Spec =>` always
`TypeOK`, `PathsAreNearlyWhole`, `ReadsAreWhole`, for any contents, any length of the APDU buffer
and any width of `size_t`. It assumes `BufferOK`: the buffer is no longer than `SIZE_MAX`, and has
room for the longest path behind the byte that says its length, 41 bytes of 255. The invariant is
that the cursor is inside the data; then no sum of offset and length wraps where the bytes are
there (`SoughtIsPast`). That no call looks behind the buffer is clear of those that stop at the end
of the data, wherever that is. A path does not: `PathStaysInside` shows that it stays in the buffer because it
begins at the second byte and has no more than `MAX_BIP32_PATH` numbers, and near the data because
the last number begins before they end. A path read elsewhere, or a longer one, could leave a
buffer that the data fill. A varint has the bytes that follow its first one, reversed, or is that
byte (`NumberIsRead`): how many follow plays no part.

`ValuesProofs` proves `NumbersArePrinted`, `Spec => []NumbersAreExact`, on the same assumption: every
`uint64_t` that is read is printed by `print_uint()` as what it is. The division by ten, the loop and
the reading of the text back are recursive functions over bytes and characters, and no theorem uses the
number a `uint64_t` is before it has to. Ten times the quotient plus the digit are the bytes that were
divided, and nothing is carried out of them (`QuotientTimesTen`, by induction on the bytes). So
whatever text denotes what is left to print, with the digits printed behind it denotes the whole
number (`PrintedDenotes`, by induction on the turns); when nothing is left that text is the empty one.
That nothing is left in time is where magnitudes are needed: two bytes more are less than five digits
more, five turns take five digits away (`TwoBytesMore`, `FiveTurnsShrink`), so that 8 bytes end after
20 turns, within the 21 of `AMOUNT_MAX_LENGTH`. The last digit written is not zero, as otherwise the
turn before had found nothing to print (`NoLeadingZero`).

`AmountsArePrinted`, `Spec => []AmountsAreExact`, is the same for `print_amount()`, whose loop also
writes the point and the commas and may run out of room. Its invariant (`Sound`, by induction on the
turns) has three parts. The layout (`IsLaid`): the place in the buffer alone tells where the point, a
comma or a numeral is, and no turn ends on a comma. The number: a text denotes what its numerals do,
so that point and commas are passed over (`SymbolSkipped`) and the text completes what is left as
above. The progress: a turn that had room made the text longer, so that 24 turns end the loop or fill
the buffer, and what is printed then is whole. That there is room for an amount that is not negative
(`RoomForAmounts`) is a matter of magnitude: below 2^63 there are nineteen digits, for which, with three
commas and the point, 23 characters do; an amount of twenty digits is refused, and only one that is
negative as an `int64_t` has as many. The zeros that are stripped end with the point at the latest, so that with as many put back,
and the point if it went, the text is the one printed (`StroopsAre`); as its places are known, what is
in front of the point is in groups of three (`WholeIs`) and what is behind has the digits that were not
stripped (`FractionIs`).

`TextsArePrinted`, `Spec => []TextsAreWhole`, is about base32_encode and base64_encode, and no longer
supposes a `uint64_t`: `Base32IsWhole` and `Base64IsWhole` hold of any bytes of any length. Both come to
the same statement (`Tells`): bit r of digit j is the bit of the data that has the place of both, or
zero behind the data (`DataBit`). Three bytes are one number of 24 bits, of which `base64_encode` takes
four digits (`BitsOfTriples`, `DigitOfTriple`), and the places it overwrites are those no bit of the data
is in (`DigitsCounted`). The loop of `base32_encode` needs an invariant (`IsCut`), as its buffer is
neither a byte nor a digit: what is written tells the bits taken but for the low `bits` of the buffer,
which are the ones that come next (`HasBits`), and either as many bits are written or held as whole bytes
are taken, or all bytes are and fewer than five zeros follow them. A byte taken, a digit written, and
the zeros put behind the last byte keep it (`ByteTaken`, `DigitTaken`, `ZerosTaken`); as a turn writes a
digit, the loop ends after at most two turns for each byte (`CutToTheEnd`). What quotient and remainder
by a power of two do to a bit is proved for every exponent that occurs (`BitOfQuotient`,
`BitOfRemainder`, `BitOfJoined`).

Only model-checked: `EveryCommandAnswered` and `ReviewEnds` (liveness under fairness is beyond
the proof system); that a parser that has just begun reads what the encoding says, which four of
the theorems suppose; and of the pages `TellsApart` and `FieldsAreWritten`, which compare the data of
24 types of operation.

## 5. What is not modelled, and the plan

Not modelled:

* the SDK: screens, the flow engine, transports, cryptography, and exceptions beyond their control
  flow. The tests are not modelled but were read for what they suppose.
* the bytes of commands beyond what the dispatcher distinguishes. `StellarApp` takes the path of a
  command as read in full or refused; the path that is cut off is in `Buffer`.
* `print_time()`, a calendar written into 20 bytes, and the checksum of base 32 keys.
* how deep `parse_claimant_predicate()` may call itself: how much stack a call takes is not in
  the source.
* code that nothing calls: base58, `base32_decode()`, `varint_write()`, `bip32_path_format()`,
  `format_u64()`, `format_i64()`, `format_fpu64()`.

Seen in reading, and in no run:

* `handler_get_app_configuration()` sends `HASH_SIGNING_ENABLED` before the version,
  `docs/COMMANDS.md` has it after; an unknown envelope type throws `SW_UNKNOWN_OP`, while the
  documentation has `SW_UNKNOWN_ENVELOPE_TYPE`; `handle_get_printable_amount()` returns 0 when it
  succeeds, against its comment, and its caller ignores it.
* a header leaves out which unknown network it is for, a minimal sequence number of zero and
  the extra signers of its preconditions; of these the parser keeps the number only.
* the bip32 reader is not alone in ignoring what `buffer_seek_cur()` returns: `buffer_move()` does.
* `base64_encode()` ends its text behind the output if that is exactly as long as the text, and
  `format_hex()` returns -1 on failure, which `!format_hex()` does not notice. The sizes the
  callers give avoid both.
* an amount of the protocol is never negative; an `int64_t` that is would be shown as a large
  number, or refused where that has 20 digits.
* numerator and denominator of a price are `int32_t` and never negative in a valid transaction; the
  network refuses others. `format_manage_sell_offer_price()` and its like extend their sign to 64
  bits, while `Quotient` takes them as they are in the encoding, so that for a negative one the
  model and the code show different texts, neither of which is a price. A denominator of zero,
  which the network refuses as well, is divided by.

Left of the plan: the page counts of `TxReview` from `OpReview`, in place of a number per operation.
