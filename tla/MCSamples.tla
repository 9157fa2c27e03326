----------------------------- MODULE MCSamples -----------------------------
(***************************************************************************)
(* Transactions for the model checker, put together from the XDR encoding  *)
(* of the Stellar protocol and not from the parser: next to the words of   *)
(* everything stand the fields it consists of, as transaction_types.h      *)
(* names them.                                                             *)
(***************************************************************************)
EXTENDS Integers, Sequences, SequencesExt, TLC

\* A part of a transaction: its words, and the fields they hold.
Part(words, fields) == [words |-> words, fields |-> fields]
Join(a, b)          == Part(a.words \o b.words, a.fields @@ b.fields)
Nothing             == Part(<<>>, <<>>)
Joined(parts)       ==
  Part(FlattenSeq([i \in DOMAIN parts |-> parts[i].words]),
       [p \in UNION {DOMAIN parts[i].fields : i \in DOMAIN parts} |->
          parts[Min({i \in DOMAIN parts : p \in DOMAIN parts[i].fields})].fields[p]])

\* The same part as a field f of something.
In(f, part) ==
  Part(part.words, [p \in {<<f>> \o q : q \in DOMAIN part.fields} |-> part.fields[Tail(p)]])

Leaf(words)   == Part(words, <<>> :> words)
Skip(words)   == Part(words, <<>>)
Tag(t)        == Part(<<t>>, <<"type">> :> <<t>>)
None          == Part(<<0>>, <<"present">> :> <<0>>)
Some(part)    == Part(<<1>> \o part.words, (<<"present">> :> <<1>>) @@ part.fields)

U32(n)  == Leaf(<<n>>)
U64(n)  == Leaf(<<0, n>>)
Hash(n) == Leaf([i \in 1 .. 8 |-> n])

\* Strings are of printable characters, or of zeros, and are given as words and a length.
String(len, words) == Leaf(<<len>> \o words)
AB  == 256^3 * 65 + 256^2 * 66
ABC == AB + 256 * 67
-----------------------------------------------------------------------------
Account(n)  == Part(<<0>> \o Hash(n).words, Hash(n).fields)
Muxed(n)    == Join(Tag(0), In("ed25519", Hash(n)))
MuxedId(n, id) == Joined(<<Tag(256), In("id", U64(id)), In("ed25519", Hash(n))>>)

Native         == Tag(0)
Credit4(c, n)  == Joined(<<Tag(1), In("code", Leaf(<<c>>)), In("issuer", Account(n))>>)
Credit12(c, n) == Joined(<<Tag(2), In("code", Leaf(<<c, c, 0>>)), In("issuer", Account(n))>>)
PoolShare(a, b, fee) ==
  Joined(<<Tag(3), Skip(<<0>>), In("asset_a", a), In("asset_b", b), In("fee", U32(fee))>>)
PoolId(n) == Join(Tag(3), In("liquidity_pool_id", Hash(n)))

SamplePrice(n, d) == Join(In("n", U32(n)), In("d", U32(d)))
BalanceId(n)      == Join(Tag(0), In("v0", Hash(n)))

PublicKey(n) == Join(Tag(0), In("ed25519", Hash(n)))
PreAuthTx(n) == Join(Tag(1), In("pre_auth_tx", Hash(n)))
HashX(n)     == Join(Tag(2), In("hash_x", Hash(n)))
SignedPayload(n, len, words) ==
  Joined(<<Tag(3), In("ed25519", Hash(n)), In("payload", String(len, words))>>)

\* Conditions on a claimant, none of which is kept.
Always     == Skip(<<0>>)
Both(a, b) == Skip(<<1, 2>> \o a.words \o b.words)
Either(a, b) == Skip(<<2, 2>> \o a.words \o b.words)
Not(a)     == Skip(<<3, 1>> \o a.words)
NotEmpty   == Skip(<<3, 0>>)
Before(t)  == Skip(<<4, 0, t>>)
Within(t)  == Skip(<<5, 0, t>>)
ClaimantIf(n, cond) == Joined(<<Tag(0), In("destination", Account(n)), cond>>)
ClaimantList(cs) ==
  Join(Part(<<Len(cs)>>, <<"len">> :> <<Len(cs)>>),
       Joined([i \in DOMAIN cs |-> In(ToString(i - 1), cs[i])]))
-----------------------------------------------------------------------------
(* Operations, with alternatives for every field: a sample of an operation  *)
(* has the first of each, a variant another one in one place.               *)

Of(t, fields)    == [type |-> t, fields |-> fields]
Alt(f, a, b)     == <<In(f, a), In(f, b)>>
AssetField(f)    == <<In(f, Credit4(AB, 3)), In(f, Native), In(f, Credit12(AB, 3)),
                      In(f, Credit4(ABC, 3)), In(f, Credit4(AB, 4))>>
AmountField(f)   == Alt(f, U64(5), U64(6))
PriceField(f)    == <<In(f, SamplePrice(1, 2)), In(f, SamplePrice(2, 4)), In(f, SamplePrice(3, 2)),
                      In(f, SamplePrice(1, 3))>>
AccountField(f)  == Alt(f, Account(1), Account(2))
MuxedField(f)    == <<In(f, Muxed(1)), In(f, Muxed(2)), In(f, MuxedId(1, 4)), In(f, MuxedId(1, 5))>>
KeyField(f)      == Alt(f, Hash(1), Hash(2))
BalanceField(f)  == Alt(f, BalanceId(1), BalanceId(2))
Optional(f, a, b) == <<In(f, None), In(f, Some(a)), In(f, Some(b))>>
Absent(f)        == In(f, Part(<<0>>, <<>> :> <<>>))
Value(f, len, ws) == In(f, Part(<<1, len>> \o ws, <<>> :> (<<len>> \o ws)))
Code4(c)         == In("asset_code", Part(<<1, c>>, <<>> :> <<c>>))
Code12(c)        == In("asset_code", Part(<<2, c, c, 0>>, <<>> :> <<c, c, 0>>))
SignerOf(key, w) == Join(In("key", key), In("weight", U32(w)))
Hops(assets)     == Skip(<<Len(assets)>> \o Joined(assets).words)

Entry(t, part)   == In("revoke", Joined(<<Tag(0), In("ledger_key", Join(Tag(t), part))>>))
SignerEntry(n, key) ==
  In("revoke", Joined(<<Tag(1), In("account_id", Account(n)), In("signer_key", key)>>))
TrustLine(n, asset) == Join(In("account_id", Account(n)), In("asset", asset))
DataEntry(n, name)  == Join(In("account_id", Account(n)), In("data_name", name))
OfferEntry(n, id)   == Join(In("seller_id", Account(n)), In("offer_id", U64(id)))

WordOption(f) == Optional(f, U32(1), U32(2))

Plain ==
  <<Of(0, <<AccountField("destination"), AmountField("starting_balance")>>),
    Of(1, <<MuxedField("destination"), AssetField("asset"), AmountField("amount")>>),
    Of(2, <<AssetField("send_asset"), AmountField("send_max"), MuxedField("destination"),
            AssetField("dest_asset"), AmountField("dest_amount"), <<Hops(<<>>)>>>>),
    Of(13, <<AssetField("send_asset"), AmountField("send_amount"), MuxedField("destination"),
             AssetField("dest_asset"), AmountField("dest_min"), <<Hops(<<>>)>>>>),
    Of(4, <<AssetField("selling"), AssetField("buying"), AmountField("amount"), PriceField("price")>>),
    Of(8, <<MuxedField("destination")>>),
    Of(9, <<>>),
    Of(11, <<AmountField("bump_to")>>)>>

OfferSamples ==
  LET offer(t, amount) ==
        Of(t, <<AssetField("selling"), AssetField("buying"), Append(AmountField(amount), In(amount, U64(0))),
                PriceField("price"), <<In("offer_id", U64(7)), In("offer_id", U64(0)),
                                  In("offer_id", U64(8))>>>>)
      removed(t, amount) ==
        Of(t, <<AssetField("selling"), AssetField("buying"), <<In(amount, U64(0))>>, PriceField("price"),
                Alt("offer_id", U64(7), U64(8))>>)
  IN <<offer(3, "amount"), offer(12, "buy_amount"), removed(3, "amount"),
       removed(12, "buy_amount")>>

Options ==
  <<Of(5, <<Optional("inflation_destination", Account(1), Account(2)), WordOption("clear_flags"),
            WordOption("set_flags"), WordOption("master_weight"), WordOption("low_threshold"),
            WordOption("medium_threshold"), WordOption("high_threshold"),
            <<Absent("home_domain"), Value("home_domain", 2, <<AB>>),
              Value("home_domain", 3, <<ABC>>), Value("home_domain", 0, <<>>)>>,
            <<In("signer", None), In("signer", Some(SignerOf(PublicKey(1), 1))),
              In("signer", Some(SignerOf(PreAuthTx(1), 1))),
              In("signer", Some(SignerOf(HashX(1), 0))),
              In("signer", Some(SignerOf(HashX(2), 0))),
              In("signer", Some(SignerOf(SignedPayload(1, 2, <<AB>>), 2)))>>>>),
    Of(5, <<<<In("inflation_destination", Some(Account(1)))>>, <<In("clear_flags", Some(U32(1)))>>,
            <<In("set_flags", Some(U32(1)))>>, <<In("master_weight", Some(U32(1)))>>,
            <<In("low_threshold", Some(U32(1)))>>, <<In("medium_threshold", Some(U32(1)))>>,
            <<In("high_threshold", Some(U32(1)))>>, <<Value("home_domain", 2, <<AB>>)>>,
            <<In("signer", Some(SignerOf(PublicKey(1), 1))),
              In("signer", Some(SignerOf(PublicKey(1), 2)))>>>>)>>

TrustSamples ==
  <<Of(6, <<<<In("line", Credit4(AB, 3)), In("line", Credit12(AB, 3)), In("line", Native),
             In("line", PoolShare(Native, Credit4(AB, 3), 30)),
             In("line", PoolShare(Native, Credit4(AB, 3), 31)),
             In("line", PoolShare(Credit4(AB, 3), Credit12(AB, 3), 30))>>,
            <<In("limit", U64(5)), In("limit", U64(0)), In("limit", Leaf(<<77, 77>>))>>>>),
    Of(7, <<AccountField("trustor"), <<Code4(AB), Code4(ABC), Code12(AB)>>,
            <<In("authorize", U32(0)), In("authorize", U32(1)), In("authorize", U32(2))>>>>),
    Of(21, <<AccountField("trustor"), AssetField("asset"),
             <<In("clear_flags", U32(0)), In("clear_flags", U32(1)), In("clear_flags", U32(4))>>,
             <<In("set_flags", U32(0)), In("set_flags", U32(1)), In("set_flags", U32(2))>>>>)>>

DataSamples ==
  <<Of(10, <<Alt("data_name", String(2, <<AB>>), String(3, <<ABC>>)),
             <<Value("data_value", 2, <<AB>>), Value("data_value", 3, <<ABC>>),
               Value("data_value", 4, <<0>>), Value("data_value", 0, <<>>),
               Absent("data_value")>>>>)>>

BalanceSamples ==
  <<Of(14, <<AssetField("asset"), AmountField("amount"),
             <<In("claimants", ClaimantList(<<>>)),
               In("claimants", ClaimantList(<<ClaimantIf(1, Always)>>)),
               In("claimants", ClaimantList(<<ClaimantIf(1, Both(Not(Before(3)), NotEmpty)),
                                              ClaimantIf(2, Either(Within(3), Always))>>))>>>>),
    Of(15, <<BalanceField("balance_id")>>),
    Of(16, <<AccountField("sponsored_id")>>),
    Of(17, <<>>),
    Of(19, <<AssetField("asset"), MuxedField("from"), AmountField("amount")>>),
    Of(20, <<BalanceField("balance_id")>>)>>

RevokeSamples ==
  <<Of(18, <<<<Entry(0, In("account_id", Account(1))), Entry(0, In("account_id", Account(2))),
              Entry(2, OfferEntry(1, 1)), Entry(2, OfferEntry(1, 2)), Entry(2, OfferEntry(2, 1)),
              Entry(4, In("balance_id", BalanceId(1))), Entry(5, In("liquidity_pool_id", Hash(1)))>>>>),
    Of(18, <<<<Entry(1, TrustLine(1, Credit4(AB, 3))), Entry(1, TrustLine(2, Credit4(AB, 3))),
              Entry(1, TrustLine(1, Native)), Entry(1, TrustLine(1, PoolId(1))),
              Entry(3, DataEntry(1, String(2, <<AB>>))), Entry(3, DataEntry(1, String(3, <<ABC>>))),
              Entry(3, DataEntry(2, String(2, <<AB>>)))>>>>),
    Of(18, <<<<SignerEntry(1, PublicKey(1)), SignerEntry(2, PublicKey(1)),
              SignerEntry(1, PreAuthTx(1)), SignerEntry(1, HashX(1)),
              SignerEntry(1, SignedPayload(1, 2, <<AB>>))>>>>)>>

PoolSamples ==
  <<Of(22, <<KeyField("liquidity_pool_id"), AmountField("max_amount_a"), AmountField("max_amount_b"),
             PriceField("min_price"), PriceField("max_price")>>),
    Of(23, <<KeyField("liquidity_pool_id"), AmountField("amount"), AmountField("min_amount_a"),
             AmountField("min_amount_b")>>)>>

AllSamples == Plain \o OfferSamples \o Options \o TrustSamples \o DataSamples
              \o BalanceSamples \o RevokeSamples \o PoolSamples
=============================================================================
