-------------------------- MODULE HeaderFormatters --------------------------
(***************************************************************************)
(* The pages of the header of a transaction, and of the accounts that may  *)
(* be the device's own: the formatters of transaction_formatter.c from     *)
(* get_tx_formatter to format_transaction_source.                          *)
(***************************************************************************)
EXTENDS OpFormatters

CONSTANTS
  DeviceKey,   \* G_context.raw_public_key
  NetworkIds   \* the hashes of the public network and of the test network, in this order

PublicNetwork == NetworkIds[1]
TestNetwork   == NetworkIds[2]

\* parse_network keeps which of the names it is, NETWORK_NAMES.
NetworkName(id) == CASE id = PublicNetwork -> "Public"
                     [] id = TestNetwork   -> "Testnet"
                     [] OTHER              -> "Unknown"

IsFeeBump(d) == At(d, <<"type">>) = <<5>>
IsOwn(d, p)  == Type(d, p) = 0 /\ At(d, p \o <<"ed25519">>) = DeviceKey

\* print_muxed_account, shortened or not.
AccountText(d, p, short) ==
  IF short THEN <<"short", Ends(At(d, p \o <<"ed25519">>))>> ELSE <<"long">> \o MuxedIn(d, p)

NetworkPage(d) ==
  LET name == NetworkName(Field(d, "network")) IN When(name # "Public", <<<<"Network", name>>>>)

FeeBumpPages(d) ==
  LET source == <<"fee_bump", "fee_source">> IN
  <<<<"Fee Bump", "Transaction Details">>,
    <<"Fee Source">> \o AccountText(d, source, IsOwn(d, source)),
    <<"Max Fee", At(d, <<"fee_bump", "fee">>)>>,
    <<"InnerTx", "Details">>>>

MemoPage(d) ==
  LET memo == <<"memo">>
      text == Content(At(d, memo \o <<"text">>))
      type == Type(d, memo)
  IN CASE type = 1 /\ Printable(text)  -> <<"Memo Text", text>>
       [] type = 1 /\ ~Printable(text) -> <<"Memo Text (base64)", Ends(text)>>
       [] type = 2 -> <<"Memo ID", At(d, memo \o <<"id">>)>>
       [] type = 3 -> <<"Memo Hash", At(d, memo \o <<"hash">>)>>
       [] OTHER    -> <<"Memo Return", At(d, memo \o <<"return_hash">>)>>

\* A bound or a number of the preconditions, if it is one.
Condition(caption, d, p) ==
  LET v == At(d, <<"cond">> \o p) IN When(~IsZero(v), <<<<caption, v>>>>)

HasCondition(d, f) == At(d, <<"cond", f, "present">>) = <<1>>

\* Mutant: there is no page for the end of a range that has a beginning.
LedgerBoundsPagesFirst(d) ==
  LET first == Condition("Ledger Bounds Min", d, <<"ledger_bounds", "min_ledger">>) IN
  When(HasCondition(d, "ledger_bounds"),
       first \o When(first = <<>>, Condition("Ledger Bounds Max", d, <<"ledger_bounds", "max_ledger">>)))

TimeBoundsPages(d) ==
  When(HasCondition(d, "time_bounds"),
       Condition("Valid After (UTC)", d, <<"time_bounds", "min_time">>)
       \o Condition("Valid Before (UTC)", d, <<"time_bounds", "max_time">>))

LedgerBoundsPages(d) ==
  When(HasCondition(d, "ledger_bounds"),
       Condition("Ledger Bounds Min", d, <<"ledger_bounds", "min_ledger">>)
       \o Condition("Ledger Bounds Max", d, <<"ledger_bounds", "max_ledger">>))

\* Signers that a transaction needs besides are not kept, and have no page.
PreconditionPages(d) ==
  TimeBoundsPages(d) \o LedgerBoundsPages(d)
  \o When(HasCondition(d, "min_seq_num"), Condition("Min Seq Num", d, <<"min_seq_num">>))
  \o Condition("Min Seq Age", d, <<"min_seq_age">>)
  \o Condition("Min Seq Ledger Gap", d, <<"min_seq_ledger_gap">>)

TxSourcePage(d) ==
  LET source == <<"source_account">>
  IN <<"Tx Source">> \o AccountText(d, source, ~IsFeeBump(d) /\ IsOwn(d, source))

\* "sequence" is the setting S_SEQUENCE_NUMBER_ENABLED.
HeaderPages(d, sequence) ==
  NetworkPage(d)
  \o When(IsFeeBump(d), FeeBumpPages(d))
  \o When(Type(d, <<"memo">>) # 0, <<MemoPage(d)>>)
  \o <<<<"Max Fee", Field(d, "fee")>>>>
  \o When(sequence, <<<<"Sequence Num", Field(d, "sequence_number")>>>>)
  \o PreconditionPages(d)
  \o <<TxSourcePage(d)>>
=============================================================================
