---------------------------- MODULE OpFormatters ----------------------------
(***************************************************************************)
(* The pages of an operation: the formatters of transaction_formatter.c    *)
(* for the 24 operation types, in the order they push one another, and     *)
(* what the functions of utils.c they call leave of a value.               *)
(*                                                                         *)
(* An operation is the function from fields to words that the parser       *)
(* leaves.  A page is its caption, with its text if that is constant, and  *)
(* what is printed of the values: an encoding that tells all values apart  *)
(* is left out.                                                            *)
(***************************************************************************)
EXTENDS Xdr, SequencesExt

CONSTANTS
  Ends(_),    \* what print_summary leaves of a text
  Int64Max,   \* INT64_MAX, the limit of a trust line without one
  Unwritten   \* what is in a field that the parser has not written

At(o, p)    == IF p \in DOMAIN o THEN o[p] ELSE Unwritten
Field(o, f) == At(o, <<f>>)
IsZero(v)   == \A i \in DOMAIN v : v[i] = 0
Type(o, p)  == At(o, p \o <<"type">>)[1]
Present(o, f) == At(o, <<f, "present">>) = <<1>>

When(condition, pages) == IF condition THEN pages ELSE <<>>
Title(name)            == <<"Operation Type", name>>
-----------------------------------------------------------------------------
(* Values.                                                                  *)

\* The bytes of words, and those of a C string.
Bytes(words) ==
  [i \in 1 .. 4 * Len(words) |->
     (words[((i - 1) \div 4) + 1] \div 256^(3 - ((i - 1) % 4))) % 256]

CString(bytes) ==
  SubSeq(bytes, 1, SelectInSeq(Append(bytes, 0), LAMBDA b : b = 0) - 1)

\* The bytes of a string that stands behind its length; an unwritten one has none.
Content(v) == IF v = <<>> THEN <<>> ELSE SubSeq(Bytes(Tail(v)), 1, v[1])

\* is_printable_binary
Printable(bytes) == \A i \in DOMAIN bytes : bytes[i] \in 32 .. 126

\* print_muxed_account
MuxedIn(o, p) ==
  <<At(o, p \o <<"ed25519">>)>>
  \o When(Type(o, p) # 0, <<At(o, p \o <<"id">>)>>)

\* print_asset_name, print_asset
AssetName(o, p) == IF Type(o, p) = 0 THEN <<>> ELSE CString(Bytes(At(o, p \o <<"code">>)))

AssetIn(o, p) ==
  <<AssetName(o, p)>> \o When(Type(o, p) # 0, <<Ends(At(o, p \o <<"issuer">>))>>)

\* The quotient of a price, with seven decimals; n and d are positive in a valid transaction.
Quotient(o, f) == (At(o, <<f, "n">>)[1] * 10000000) \div At(o, <<f, "d">>)[1]

\* print_account_flags, print_trust_line_flags, print_allow_trust_flags
AccountFlags(v)    == v[1] % 16
TrustLineFlags(v)  == v[1] % 8
AllowTrustFlags(v) == IF v[1] % 2 = 1 THEN 1 ELSE v[1] % 4

\* print_account_id, print_hash_x_key, print_pre_auth_x_key, print_ed25519_signed_payload
SignerKeyText(o, p) ==
  LET type == Type(o, p) IN
  IF type = 3 THEN Ends(At(o, p \o <<"ed25519">>) \o At(o, p \o <<"payload">>))
  ELSE At(o, p \o <<CASE type = 0 -> "ed25519" [] type = 1 -> "pre_auth_tx" [] OTHER -> "hash_x">>)

AmountPage(caption, o, f)    == <<caption, Field(o, f)>>
AmountOf(caption, o, f, a)   == <<caption, Field(o, f)>> \o AssetIn(o, <<a>>)
AccountPage(caption, o, f)   == <<caption, Field(o, f)>>
MuxedPage(caption, o, f)     == <<caption>> \o MuxedIn(o, <<f>>)
AssetPage(caption, o, f)     == <<caption>> \o AssetIn(o, <<f>>)
PricePage(caption, o, f)     == <<caption, Quotient(o, f)>>
PriceIn(o, dividend, divisor) ==
  PricePage("Price", o, "price") \o <<AssetName(o, <<dividend>>), AssetName(o, <<divisor>>)>>
BalancePage(o, p)            == <<"Balance ID", At(o, p \o <<"balance_id", "v0">>)>>
-----------------------------------------------------------------------------
(* The pages of each type, without the source of the operation.             *)

BumpSequence(o) == <<Title("Bump Sequence"), <<"Bump To", Field(o, "bump_to")>>>>
Inflation(o)    == <<Title("Inflation")>>

\* "payer" is the source of the operation, or else of the transaction.
AccountMerge(o, payer) ==
  <<Title("Account Merge"), <<"Merge Account">> \o payer, MuxedPage("Destination", o, "destination")>>

ManageDataPages(o) ==
  LET name  == CString(Content(Field(o, "data_name")))
      value == Content(Field(o, "data_value"))
  IN IF value = <<>> THEN <<<<"Remove Data", name>>>>
     ELSE <<<<"Set Data", name>>,
            IF Printable(value) THEN <<"Data Value", value>>
            ELSE <<"Data Value (base64)", Ends(value)>>>>

AllowTrust(o) ==
  <<Title("Allow Trust"), AccountPage("Trustor", o, "trustor"),
    <<"Asset Code", CString(Bytes(Field(o, "asset_code")))>>,
    <<"Authorize Flag", AllowTrustFlags(Field(o, "authorize"))>>>>

\* A home domain that is not there is no value at all, an empty one has a length.
OptionFields == {"inflation_destination", "clear_flags", "set_flags", "master_weight",
                 "low_threshold", "medium_threshold", "high_threshold", "signer"}

SignerPages(o) ==
  LET weight == At(o, <<"signer", "weight">>)
      key    == <<"signer", "key">>
  IN <<<<IF IsZero(weight) THEN "Remove Signer" ELSE "Add Signer", Type(o, key)>>,
       <<"Signer Key", SignerKeyText(o, key)>>>>
     \o When(~IsZero(weight), <<<<"Weight", weight>>>>)

HomeDomainPage(o) ==
  LET domain == Content(Field(o, "home_domain"))
  IN IF domain = <<>> THEN <<"Home Domain">> ELSE <<"Home Domain", CString(domain)>>

SetOptionsPages(o) ==
  LET word(caption, f)  == When(Present(o, f), <<<<caption, Field(o, f)>>>>)
      flags(caption, f) == When(Present(o, f), <<<<caption, AccountFlags(Field(o, f))>>>>)
      domain            == Field(o, "home_domain") # <<>>
      empty             == ~domain /\ \A f \in OptionFields : ~Present(o, f)
  IN <<Title("Set Options")>>
     \o When(empty, <<<<"SET OPTIONS", "BODY IS EMPTY">>>>)
     \o word("Inflation Dest", "inflation_destination")
     \o flags("Clear Flags", "clear_flags") \o flags("Set Flags", "set_flags")
     \o word("Master Weight", "master_weight") \o word("Low Threshold", "low_threshold")
     \o word("Medium Threshold", "medium_threshold") \o word("High Threshold", "high_threshold")
     \o When(domain, <<HomeDomainPage(o)>>)
     \o When(Present(o, "signer"), SignerPages(o))

\* A trust line for the native asset is an exception.
ChangeTrust(o) ==
  LET limit   == Field(o, "limit")
      caption == IF IsZero(limit) THEN "Remove Trust" ELSE "Change Trust"
      type    == Type(o, <<"line">>)
  IN CASE type = 0 -> <<>>
       [] type \in {1, 2} ->
            <<AssetPage(caption, o, "line")>>
            \o When(~IsZero(limit) /\ limit # Int64Max, <<<<"Trust Limit", limit>>>>)
       [] OTHER ->
            <<<<caption, "Liquidity Pool Asset">>,
              <<"Asset A">> \o AssetIn(o, <<"line", "asset_a">>),
              <<"Asset B">> \o AssetIn(o, <<"line", "asset_b">>),
              <<"Pool Fee Rate", At(o, <<"line", "fee">>)>>>>
            \o When(~IsZero(limit) /\ limit # Int64Max, <<<<"Trust Limit", limit>>>>)

\* The first page of an offer, and the others unless it is to be removed.
Offer(o, amount, pages) ==
  LET id == Field(o, "offer_id") IN
  IF IsZero(Field(o, amount)) THEN <<<<"Remove Offer", id>>>>
  ELSE <<IF IsZero(id) THEN <<"Create Offer", "Type Active">> ELSE <<"Change Offer", id>>>> \o pages

ManageSellOffer(o) ==
  Offer(o, "amount", <<AssetPage("Buy", o, "buying"), AmountOf("Sell", o, "amount", "selling"),
                       PriceIn(o, "buying", "selling")>>)

ManageBuyOffer(o) ==
  Offer(o, "buy_amount", <<AssetPage("Sell", o, "selling"), AmountOf("Buy", o, "buy_amount", "buying"),
                           PriceIn(o, "selling", "buying")>>)

PassiveSellOffer(o) ==
  <<Title("Create Passive Sell Offer"), AssetPage("Buy", o, "buying"),
    AmountOf("Sell", o, "amount", "selling"), PriceIn(o, "buying", "selling")>>

PathPaymentPages(o) ==
  IF Type(o, <<>>) = 2
  THEN <<AmountOf("Send Max", o, "send_max", "send_asset"), MuxedPage("Destination", o, "destination"),
         AmountOf("Receive", o, "dest_amount", "dest_asset")>>
  ELSE <<AmountOf("Send", o, "send_amount", "send_asset"), MuxedPage("Destination", o, "destination"),
         AmountOf("Receive Min", o, "dest_min", "dest_asset")>>

Payment(o) ==
  <<AmountOf("Send", o, "amount", "asset"), MuxedPage("Destination", o, "destination")>>

CreateAccount(o) ==
  <<Title("Create Account"), AccountPage("Destination", o, "destination"),
    AmountPage("Starting Balance", o, "starting_balance")>>

CreateClaimableBalance(o) ==
  <<Title("Create Claimable Balance"), AmountOf("Balance", o, "amount", "asset"),
    <<"WARNING", "Currently does not support displaying claimant details">>>>

ClaimClaimableBalance(o) ==
  <<Title("Claim Claimable Balance"), <<"Balance ID", Ends(At(o, <<"balance_id", "v0">>))>>>>

Sponsoring(o) ==
  IF Type(o, <<>>) = 16
  THEN <<Title("Begin Sponsoring Future Reserves"), AccountPage("Sponsored ID", o, "sponsored_id")>>
  ELSE <<Title("End Sponsoring Future Reserves")>>

\* Mutant: a member of the wrong arm of the union.
RevokedEntryWrongArm(o) ==
  LET key     == <<"revoke", "ledger_key">>
      account == <<"Account ID", At(o, key \o <<"account_id">>)>>
  IN IF Type(o, key) = 2
     THEN <<Title("Revoke Sponsorship (OFFER)"), <<"Seller ID", At(o, key \o <<"account_id">>)>>,
            <<"Offer ID", At(o, key \o <<"offer_id">>)>>>>
     ELSE <<account>>

RevokedEntry(o) ==
  LET key     == <<"revoke", "ledger_key">>
      account == <<"Account ID", At(o, key \o <<"account_id">>)>>
      asset   == key \o <<"asset">>
  IN CASE Type(o, key) = 0 -> <<Title("Revoke Sponsorship (ACCOUNT)"), account>>
       [] Type(o, key) = 1 ->
            <<Title("Revoke Sponsorship (TRUSTLINE)"), account,
              IF Type(o, asset) = 3 THEN <<"Liquidity Pool ID", At(o, asset \o <<"liquidity_pool_id">>)>>
              ELSE <<"Asset">> \o AssetIn(o, asset)>>
       [] Type(o, key) = 2 ->
            <<Title("Revoke Sponsorship (OFFER)"), <<"Seller ID", At(o, key \o <<"seller_id">>)>>,
              <<"Offer ID", At(o, key \o <<"offer_id">>)>>>>
       [] Type(o, key) = 3 ->
            <<Title("Revoke Sponsorship (DATA)"), account,
              <<"Data Name", CString(Content(At(o, key \o <<"data_name">>)))>>>>
       [] Type(o, key) = 4 -> <<Title("Revoke Sponsorship (CLAIMABLE_BALANCE)"), BalancePage(o, key)>>
       [] OTHER -> <<Title("Revoke Sponsorship (LIQUIDITY_POOL)"),
                     <<"Liquidity Pool ID", At(o, key \o <<"liquidity_pool_id">>)>>>>

RevokedSigner(o) ==
  LET key == <<"revoke", "signer_key">> IN
  <<Title("Revoke Sponsorship (SIGNER_KEY)"), <<"Account ID", At(o, <<"revoke", "account_id">>)>>,
    <<"Signer Key Type", Type(o, key)>>, <<"Signer Key", SignerKeyText(o, key)>>>>

Revoke(o) == IF Type(o, <<"revoke">>) = 1 THEN RevokedSigner(o) ELSE RevokedEntry(o)

Clawback(o) ==
  <<Title("Clawback"), AmountOf("Clawback Balance", o, "amount", "asset"), MuxedPage("From", o, "from")>>

ClawbackClaimableBalance(o) == <<Title("Clawback Claimable Balance"), BalancePage(o, <<>>)>>

SetTrustLineFlags(o) ==
  LET flags(f) == When(~IsZero(Field(o, f)), <<TrustLineFlags(Field(o, f))>>)
  IN <<Title("Set Trust Line Flags"), AccountPage("Trustor", o, "trustor"),
       AssetPage("Asset", o, "asset"), <<"Clear Flags">> \o flags("clear_flags"),
       <<"Set Flags">> \o flags("set_flags")>>

PoolDeposit(o) ==
  <<Title("Liquidity Pool Deposit"), <<"Liquidity Pool ID", Field(o, "liquidity_pool_id")>>,
    AmountPage("Max Amount A", o, "max_amount_a"), AmountPage("Max Amount B", o, "max_amount_b"),
    PricePage("Min Price", o, "min_price"), PricePage("Max Price", o, "max_price")>>

PoolWithdraw(o) ==
  <<Title("Liquidity Pool Withdraw"), <<"Liquidity Pool ID", Field(o, "liquidity_pool_id")>>,
    AmountPage("Amount", o, "amount"), AmountPage("Min Amount A", o, "min_amount_a"),
    AmountPage("Min Amount B", o, "min_amount_b")>>

\* formatters[]
Pages(o, payer) ==
  LET t == Type(o, <<>>) IN
  CASE t = 0 -> CreateAccount(o)         [] t = 1 -> Payment(o)
    [] t \in {2, 13} -> PathPaymentPages(o)
    [] t = 3 -> ManageSellOffer(o)       [] t = 4 -> PassiveSellOffer(o)
    [] t = 5 -> SetOptionsPages(o)       [] t = 6 -> ChangeTrust(o)
    [] t = 7 -> AllowTrust(o)            [] t = 8 -> AccountMerge(o, payer)
    [] t = 9 -> Inflation(o)             [] t = 10 -> ManageDataPages(o)
    [] t = 11 -> BumpSequence(o)         [] t = 12 -> ManageBuyOffer(o)
    [] t = 14 -> CreateClaimableBalance(o) [] t = 15 -> ClaimClaimableBalance(o)
    [] t \in {16, 17} -> Sponsoring(o)   [] t = 18 -> Revoke(o)
    [] t = 19 -> Clawback(o)             [] t = 20 -> ClawbackClaimableBalance(o)
    [] t = 21 -> SetTrustLineFlags(o)    [] t = 22 -> PoolDeposit(o)
    [] OTHER -> PoolWithdraw(o)
=============================================================================
