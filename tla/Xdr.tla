-------------------------------- MODULE Xdr --------------------------------
(***************************************************************************)
(* What transaction_parser.c reads, as a grammar: for every reader, the    *)
(* readers it calls in turn and the field of tx_ctx each of them writes.   *)
(* How they are run is in TxParser.                                        *)
(*                                                                         *)
(* The data are 4-byte words.  A field is the path to it in the structures *)
(* of transaction_types.h, without the names of anonymous unions.          *)
(***************************************************************************)
EXTENDS Integers, Sequences

\* The compiler gives an enumeration as few bytes as its values need (-fshort-enums).
CONSTANT ShortEnums

\* v for t alone, and the values of two functions, of the first where both have one (:> and
\* @@ of the module TLC, which the proof system does not know).
On(t, v) == [x \in {t} |-> v]
f ++ g   == [x \in DOMAIN f \cup DOMAIN g |-> IF x \in DOMAIN f THEN f[x] ELSE g[x]]

\* A local variable, which nobody reads after the parser.
Scratch == <<"scratch">>

\* A call: the reader, what it writes, relative to what its caller writes, and whether
\* parse_optional_type decides if it is made.
Call(f, r) == [reader |-> r, to |-> f, optional |-> FALSE]
Read(f, r) == Call(<<f>>, r)
Inline(r)  == Call(<<>>, r)
Local(r)   == Call(Scratch, r)
Option(f, r) == [reader |-> r, to |-> <<f>>, optional |-> TRUE]
-----------------------------------------------------------------------------
(* Readers of a fixed number of words: buffer_read32, buffer_read64, keys,  *)
(* hashes and codes; "zero" and "true" set a field without reading.         *)

Size == [zero |-> 0, true |-> 0, u32 |-> 1, u64 |-> 2, key |-> 8, code4 |-> 1, code12 |-> 3,
         denominator |-> 1, path_len |-> 1, operations_count |-> 1]

\* The assets of a path of path_len are not read.
Accepts(r, v) == /\ r = "denominator" => v[1] # 0
                 /\ r = "path_len" => v[1] <= 5
                 /\ r = "operations_count" => v[1] <= 35

\* Strings: a length, and as many bytes, padded to whole words.  The padding of a signed
\* payload is not looked at.
Texts == [memo_text   |-> [min |-> 0, max |-> 28, padded |-> TRUE],
          data_name   |-> [min |-> 0, max |-> 64, padded |-> TRUE],
          data_value  |-> [min |-> 0, max |-> 64, padded |-> TRUE],
          home_domain |-> [min |-> 0, max |-> 32, padded |-> TRUE],
          payload     |-> [min |-> 1, max |-> 64, padded |-> FALSE]]

\* Arrays: a length, and as many elements.
Claimants    == [max |-> 10, of |-> Inline("claimant")]
ExtraSigners == [max |-> 2, of |-> Local("signer_key")]
Arrays == [claimants |-> Claimants, extra_signers |-> ExtraSigners]

\* buffer_read_bool and what is done with the result, where it is not parse_optional_type.
HomeDomain == On(0, <<Inline("zero")>>) ++ On(1, <<Inline("home_domain")>>)
DataValue  == On(0, <<Inline("zero")>>) ++ On(1, <<Inline("data_value")>>)
-----------------------------------------------------------------------------
(* Accounts, keys and assets.  A union is a function from the type it reads *)
(* to the calls that follow; any other type is refused.                     *)

\* parse_account_id reads a type and does not look at it.
AccountId == <<Local("u32"), Inline("key")>>

MuxedAccount == On(0, <<Read("ed25519", "key")>>)
             ++ On(256, <<Read("id", "u64"), Read("ed25519", "key")>>)

SignerKey == On(0, <<Read("ed25519", "key")>>)
          ++ On(1, <<Read("pre_auth_tx", "key")>>)
          ++ On(2, <<Read("hash_x", "key")>>)
          ++ On(3, <<Read("ed25519", "key"), Read("payload", "payload")>>)

Asset == On(0, <<>>)
      ++ On(1, <<Read("code", "code4"), Read("issuer", "account_id")>>)
      ++ On(2, <<Read("code", "code12"), Read("issuer", "account_id")>>)

TrustLineAsset == Asset ++ On(3, <<Read("liquidity_pool_id", "key")>>)

ChangeTrustAsset == Asset ++ On(3, <<Inline("liquidity_pool_parameters")>>)

LiquidityPoolParameters ==
  On(0, <<Read("asset_a", "asset"), Read("asset_b", "asset"), Read("fee", "u32")>>)

Price == <<Read("n", "u32"), Read("d", "denominator")>>

ClaimableBalanceId == On(0, <<Read("v0", "key")>>)
-----------------------------------------------------------------------------
(* The bodies of the operations.                                            *)

Payments ==
  [create_account |-> <<Read("destination", "account_id"), Read("starting_balance", "u64")>>,
   payment |-> <<Read("destination", "muxed_account"), Read("asset", "asset"),
                 Read("amount", "u64")>>,
   account_merge |-> <<Read("destination", "muxed_account")>>,
   inflation |-> <<>>,
   bump_sequence |-> <<Read("bump_to", "u64")>>]

PathPayments ==
  [path_payment_strict_receive |->
     <<Read("send_asset", "asset"), Read("send_max", "u64"),
       Read("destination", "muxed_account"), Read("dest_asset", "asset"),
       Read("dest_amount", "u64"), Local("path_len")>>,
   path_payment_strict_send |->
     <<Read("send_asset", "asset"), Read("send_amount", "u64"),
       Read("destination", "muxed_account"), Read("dest_asset", "asset"),
       Read("dest_min", "u64"), Local("path_len")>>]

Offers ==
  LET ends == <<Read("selling", "asset"), Read("buying", "asset")>>
  IN  [manage_sell_offer |->
         ends \o <<Read("amount", "u64"), Read("price", "price"), Read("offer_id", "u64")>>,
       manage_buy_offer |->
         ends \o <<Read("buy_amount", "u64"), Read("price", "price"), Read("offer_id", "u64")>>,
       create_passive_sell_offer |-> ends \o <<Read("amount", "u64"), Read("price", "price")>>]

SetOptions ==
  <<Option("inflation_destination", "account_id"), Option("clear_flags", "u32"),
    Option("set_flags", "u32"), Option("master_weight", "u32"), Option("low_threshold", "u32"),
    Option("medium_threshold", "u32"), Option("high_threshold", "u32"),
    Read("home_domain", "optional_home_domain"), Option("signer", "signer")>>

Signer == <<Read("key", "signer_key"), Read("weight", "u32")>>

AllowTrustAsset == On(1, <<Inline("code4")>>) ++ On(2, <<Inline("code12")>>)

Trust ==
  [change_trust |-> <<Read("line", "change_trust_asset"), Read("limit", "u64")>>,
   allow_trust |-> <<Read("trustor", "account_id"), Read("asset_code", "allow_trust_asset"),
                     Read("authorize", "u32")>>,
   set_trust_line_flags |-> <<Read("trustor", "account_id"), Read("asset", "asset"),
                              Read("clear_flags", "u32"), Read("set_flags", "u32")>>]

ManageData == <<Read("data_name", "data_name"), Read("data_value", "optional_data_value")>>

\* What a claimant must satisfy is read and not kept.
ClaimPredicate ==
  LET one == Local("claim_predicate")
  IN  On(0, <<>>)
   ++ On(1, <<Local("predicate_pair"), one, one>>)
   ++ On(2, <<Local("predicate_pair"), one, one>>)
   ++ On(3, <<[reader |-> "claim_predicate", to |-> Scratch, optional |-> TRUE]>>)
   ++ On(4, <<Local("u64")>>)
   ++ On(5, <<Local("u64")>>)

PredicatePair == On(2, <<>>)

Claimant == On(0, <<Read("destination", "account_id"), Local("claim_predicate")>>)

ClaimableBalances ==
  [create_claimable_balance |-> <<Read("asset", "asset"), Read("amount", "u64"),
                                  Read("claimants", "claimants")>>,
   claim_claimable_balance |-> <<Read("balance_id", "claimable_balance_id")>>]

LedgerKey ==
  On(0, <<Read("account_id", "account_id")>>)
  ++ On(1, <<Read("account_id", "account_id"), Read("asset", "trust_line_asset")>>)
  ++ On(2, <<Read("seller_id", "account_id"), Read("offer_id", "u64")>>)
  ++ On(3, <<Read("account_id", "account_id"), Read("data_name", "data_name")>>)
  ++ On(4, <<Read("balance_id", "claimable_balance_id")>>)
  ++ On(5, <<Read("liquidity_pool_id", "key")>>)

RevokeSponsorship ==
  On(0, <<Read("ledger_key", "ledger_key")>>)
  ++ On(1, <<Read("account_id", "account_id"), Read("signer_key", "signer_key")>>)

Sponsorship ==
  [begin_sponsoring_future_reserves |-> <<Read("sponsored_id", "account_id")>>,
   end_sponsoring_future_reserves |-> <<>>]

Clawbacks ==
  [clawback |-> <<Read("asset", "asset"), Read("from", "muxed_account"), Read("amount", "u64")>>,
   clawback_claimable_balance |-> <<Read("balance_id", "claimable_balance_id")>>]

LiquidityPools ==
  [liquidity_pool_deposit |->
     <<Read("liquidity_pool_id", "key"), Read("max_amount_a", "u64"),
       Read("max_amount_b", "u64"), Read("min_price", "price"), Read("max_price", "price")>>,
   liquidity_pool_withdraw |->
     <<Read("liquidity_pool_id", "key"), Read("amount", "u64"),
       Read("min_amount_a", "u64"), Read("min_amount_b", "u64")>>]

\* operation_type_t
OperationTypes ==
  <<"create_account", "payment", "path_payment_strict_receive", "manage_sell_offer",
    "create_passive_sell_offer", "set_options", "change_trust", "allow_trust",
    "account_merge", "inflation", "manage_data", "bump_sequence", "manage_buy_offer",
    "path_payment_strict_send", "create_claimable_balance", "claim_claimable_balance",
    "begin_sponsoring_future_reserves", "end_sponsoring_future_reserves",
    "revoke_sponsorship", "clawback", "clawback_claimable_balance", "set_trust_line_flags",
    "liquidity_pool_deposit", "liquidity_pool_withdraw">>

\* parse_operation
Body == [t \in 0 .. 23 |-> IF t = 18 THEN <<Read("revoke", "revoke_sponsorship")>>
                           ELSE <<Inline(OperationTypes[t + 1])>>]
Operation == <<Option("source_account", "muxed_account"), Inline("body")>>
-----------------------------------------------------------------------------
(* The header.                                                              *)

TimeBounds   == <<Read("min_time", "u64"), Read("max_time", "u64")>>
LedgerBounds == <<Read("min_ledger", "u32"), Read("max_ledger", "u32")>>

Preconditions ==
  LET absent(f) == Call(<<f, "present">>, "zero")
      newer     == <<absent("min_seq_num"), absent("ledger_bounds"),
                     Read("min_seq_ledger_gap", "zero"), Read("min_seq_age", "zero")>>
  IN  On(0, <<absent("time_bounds")>> \o newer)
   ++ On(1, <<Call(<<"time_bounds", "present">>, "true"), Read("time_bounds", "time_bounds")>>
           \o newer)
   ++ On(2, <<Option("time_bounds", "time_bounds"), Option("ledger_bounds", "ledger_bounds"),
             Option("min_seq_num", "u64"), Read("min_seq_age", "u64"),
             Read("min_seq_ledger_gap", "u32"), Local("extra_signers")>>)

Memo == On(0, <<>>)
     ++ On(1, <<Read("text", "memo_text")>>)
     ++ On(2, <<Read("id", "u64")>>)
     ++ On(3, <<Read("hash", "key")>>)
     ++ On(4, <<Read("return_hash", "key")>>)

TransactionDetails ==
  <<Read("source_account", "muxed_account"), Read("fee", "u32"), Read("sequence_number", "u64"),
    Read("cond", "preconditions"), Read("memo", "memo"),
    Read("operations_count", "operations_count")>>

FeeBump == <<Read("fee_source", "muxed_account"), Read("fee", "u64")>>

\* parse_tx_xdr before the operation.
EnvelopeType == On(2, <<Inline("transaction")>>)
             ++ On(5, <<Read("fee_bump", "fee_bump"), Inline("inner_envelope")>>)
InnerEnvelope == On(2, <<Inline("transaction")>>)
Envelope == <<Read("network", "key"), Inline("envelope_type")>>
-----------------------------------------------------------------------------
Structs ==
  [account_id |-> AccountId, price |-> Price, signer |-> Signer, set_options |-> SetOptions,
   manage_data |-> ManageData, operation |-> Operation, time_bounds |-> TimeBounds,
   ledger_bounds |-> LedgerBounds, transaction |-> TransactionDetails, fee_bump |-> FeeBump,
   envelope |-> Envelope]
  ++ Payments ++ PathPayments ++ Offers ++ Trust ++ ClaimableBalances ++ Sponsorship
  ++ Clawbacks ++ LiquidityPools

Unions ==
  [muxed_account |-> MuxedAccount, signer_key |-> SignerKey, asset |-> Asset,
   trust_line_asset |-> TrustLineAsset, change_trust_asset |-> ChangeTrustAsset,
   claimable_balance_id |-> ClaimableBalanceId, claimant |-> Claimant,
   ledger_key |-> LedgerKey, revoke_sponsorship |-> RevokeSponsorship, memo |-> Memo,
   body |-> Body, envelope_type |-> EnvelopeType,
   liquidity_pool_parameters |-> LiquidityPoolParameters, preconditions |-> Preconditions,
   allow_trust_asset |-> AllowTrustAsset, claim_predicate |-> ClaimPredicate,
   predicate_pair |-> PredicatePair, inner_envelope |-> InnerEnvelope,
   optional_home_domain |-> HomeDomain, optional_data_value |-> DataValue]

\* The types that are not kept.
Untagged == {"liquidity_pool_parameters", "preconditions", "allow_trust_asset",
             "claim_predicate", "predicate_pair", "inner_envelope",
             "optional_home_domain", "optional_data_value"}

\* What is kept of a type, and for most unions what is then looked at: operation_t has a
\* uint8_t, the rest enumerations; that of muxed accounts goes up to 256.
Narrow(r, w) ==
  IF r = "body" THEN w % 256
  ELSE IF ShortEnums /\ r = "muxed_account" THEN w % 65536
  ELSE IF ShortEnums /\ r \in {"asset", "trust_line_asset", "change_trust_asset", "memo",
                                "claimable_balance_id", "claimant", "ledger_key",
                                "revoke_sponsorship"} THEN w % 256
  ELSE IF r = "optional_home_domain" /\ w # 0 THEN 1
  ELSE w
=============================================================================
