------------------------------ MODULE OpReview ------------------------------
(***************************************************************************)
(* What the user sees of a transaction: the formatters of HeaderFormatters *)
(* and OpFormatters run on what TxParser has read.                         *)
(***************************************************************************)
EXTENDS TxParser, HeaderFormatters

\* Mutant: two formatters fewer.
StackSizeSmall == 14

\* MAX_FORMATTERS_PER_OPERATION
StackSize == 16

\* The account that is merged.
Payer(d) ==
  LET o == OperationOf(d) IN
  IF Present(o, "source_account") THEN MuxedIn(o, <<"source_account">>)
  ELSE MuxedIn(d, <<"source_account">>)

\* Mutant: that of the operation is not compared.
SourcePageUncompared(d) ==
  LET source == <<"op", "source_account">>
      short  == ~IsFeeBump(d) /\ IsOwn(d, <<"source_account">>) /\ Type(d, source) = 0
  IN <<"Op Source">> \o AccountText(d, source, short)

\* format_operation_source
SourcePage(d) ==
  LET source == <<"op", "source_account">>
      short  == ~IsFeeBump(d) /\ IsOwn(d, <<"source_account">>) /\ IsOwn(d, source)
  IN <<"Op Source">> \o AccountText(d, source, short)

\* The pages of the operation in memory; there are none if its formatter throws.
Shown(d) ==
  LET o     == OperationOf(d)
      pages == Pages(o, Payer(d))
  IN pages \o When(pages # <<>> /\ Present(o, "source_account"), <<SourcePage(d)>>)
-----------------------------------------------------------------------------
(* What the pages are to tell.                                              *)

\* An offer that is removed is only its number.
Removes(o) == \/ Type(o, <<>>) = 3 /\ IsZero(Field(o, "amount"))
              \/ Type(o, <<>>) = 12 /\ IsZero(Field(o, "buy_amount"))

\* What the user is not told: who may claim a balance, of which there is a warning, and the
\* rest of a removed offer.
Hidden(o, p) == \/ p[1] = "claimants"
                \/ Removes(o) /\ p[1] \notin {"offer_id", "source_account"}

\* The other fields, as far as they can be told: issuers, signed payloads, the balances of
\* claims and unprintable data are shortened; flags that have no name, the bytes of a text
\* after a zero, the length of an asset's code and the digits of a price after the seventh
\* have no meaning or are left out.
Legible(o, p) ==
  LET f      == Last(p)
      v      == o[p]
      sib(g) == Front(p) \o <<g>>
      data   == Content(v)
  IN CASE f = "issuer" -> Ends(v)
       [] f \in {"ed25519", "payload"} /\ sib("payload") \in DOMAIN o ->
            Ends(o[sib("ed25519")] \o o[sib("payload")])
       [] f = "v0" /\ Type(o, <<>>) = 15 -> Ends(v)
       [] f \in {"code", "asset_code"} -> CString(Bytes(v))
       [] f = "type" /\ sib("code") \in DOMAIN o -> <<1>>
       [] f \in {"n", "d"} -> (o[sib("n")][1] * 10000000) \div o[sib("d")][1]
       [] f = "data_name" -> CString(data)
       [] f = "home_domain" -> IF v = <<>> THEN <<>> ELSE <<CString(data)>>
       [] f = "data_value" -> IF Printable(data) THEN data ELSE Ends(data)
       [] f \in {"clear_flags", "set_flags"} -> v[1] % (IF Type(o, <<>>) = 5 THEN 16 ELSE 8)
       [] f = "authorize" -> IF v[1] % 2 = 1 THEN 1 ELSE v[1] % 4
       [] OTHER -> v

Told(o) == [p \in {q \in DOMAIN o : ~Hidden(o, q)} |-> Legible(o, p)]

\* What is not told of a header: the number of operations, which their own pages tell; the
\* sequence number, if the user does not want it; which unknown network it is; conditions
\* that are absent or zero, a minimal sequence number of zero among them.
HiddenInHeader(h, p, sequence) ==
  \/ p[1] = "operations_count"
  \/ p[1] = "sequence_number" /\ ~sequence
  \/ p[1] = "cond" /\ (Last(p) = "present" \/ IsZero(h[p]))

LegibleInHeader(h, p) ==
  CASE p = <<"network">> -> NetworkName(h[p])
    [] p = <<"memo", "text">> ->
         IF Printable(Content(h[p])) THEN Content(h[p]) ELSE Ends(Content(h[p]))
    [] OTHER -> h[p]

ToldOfHeader(h, sequence) ==
  [p \in {q \in DOMAIN h : ~HiddenInHeader(h, q, sequence)} |-> LegibleInHeader(h, p)]
-----------------------------------------------------------------------------
(* What the protocol says of a header (TransactionEnvelope): which fields   *)
(* it has.  A field that is optional, or of an arm of a union, is there if  *)
(* and only if the header says so.                                          *)

AccountFields(p) == {p \o <<"type">>, p \o <<"ed25519">>, p \o <<"id">>}
MemoFields       == <<"text", "id", "hash", "return_hash">>

FixedFields ==
  {<<"network">>, <<"type">>, <<"fee">>, <<"sequence_number">>,
   <<"cond", "min_seq_age">>, <<"cond", "min_seq_ledger_gap">>}

\* Those of the conditions that may be absent.
ConditionFields ==
  [time_bounds   |-> {<<"cond", "time_bounds", "min_time">>, <<"cond", "time_bounds", "max_time">>},
   ledger_bounds |-> {<<"cond", "ledger_bounds", "min_ledger">>,
                      <<"cond", "ledger_bounds", "max_ledger">>},
   min_seq_num   |-> {<<"cond", "min_seq_num">>}]

HeaderFields ==
  FixedFields \cup {<<"operations_count">>, <<"fee_bump", "fee">>, <<"memo", "type">>}
  \cup AccountFields(<<"source_account">>) \cup AccountFields(<<"fee_bump", "fee_source">>)
  \cup {<<"memo", MemoFields[i]>> : i \in 1 .. 4}
  \cup UNION {{<<"cond", f, "present">>} \cup ConditionFields[f] : f \in DOMAIN ConditionFields}

HasAccount(h, p) ==
  /\ {p \o <<"type">>, p \o <<"ed25519">>} \subseteq DOMAIN h
  /\ h[p \o <<"type">>] \in {<<0>>, <<256>>}
  /\ p \o <<"id">> \in DOMAIN h <=> h[p \o <<"type">>] = <<256>>

HasMemo(h) ==
  /\ <<"memo", "type">> \in DOMAIN h
  /\ \E t \in 0 .. 4 :
       /\ h[<<"memo", "type">>] = <<t>>
       /\ \A i \in 1 .. 4 : <<"memo", MemoFields[i]>> \in DOMAIN h <=> i = t

HasFee(h) ==
  IF IsFeeBump(h)
  THEN <<"fee_bump", "fee">> \in DOMAIN h /\ HasAccount(h, <<"fee_bump", "fee_source">>)
  ELSE h[<<"type">>] = <<2>> /\ \A p \in DOMAIN h : p[1] # "fee_bump"

IsHeader(h) ==
  /\ FixedFields \subseteq DOMAIN h /\ DOMAIN h \subseteq HeaderFields
  /\ HasFee(h) /\ HasAccount(h, <<"source_account">>) /\ HasMemo(h)
  /\ \A f \in DOMAIN ConditionFields : \A q \in ConditionFields[f] :
       q \in DOMAIN h <=> HasCondition(h, f)

ASSUME HeadersOK ==
  \A d \in Documents : d.header # <<>> \/ d.ops # <<>> => IsHeader(d.header)
-----------------------------------------------------------------------------
(* Properties.                                                              *)

Readings    == UNION {read[x] : x \in DOMAIN read}
ReadHeaders == {Header(d) : d \in Readings}
SentHeaders == {d.header : d \in {e \in Documents : e.header # <<>>}}
Reviewed    == [h \in SentHeaders |-> [sequence \in BOOLEAN |-> HeaderPages(h, sequence)]]

\* Two transactions whose headers have the same pages have the same header, up to what the
\* display leaves out: the network, who pays how much, the memo, and every condition on the
\* time, the ledger and the sequence number are told, whichever of them there are, and none
\* hides another.
HeadersTellApart ==
  Returned =>
    \A g \in ReadHeaders, sequence \in BOOLEAN : \A pages \in {HeaderPages(g, sequence)} :
      \A h \in SentHeaders :
        pages = Reviewed[h][sequence] => ToldOfHeader(g, sequence) = ToldOfHeader(h, sequence)

\* What is signed is what is seen: two operations of the same transaction that have the
\* same pages are the same operation from the same source, except for what the display
\* leaves out.  No field that was read is forgotten by the formatters, none hides another,
\* and only the device's own account is shortened as a source.
TellsApart ==
  Returned =>
    \A d, e \in Readings :
      LET own == OperationOf(d) IN
      (Shown(d) = Shown(e) /\ Shown(d) # <<>>) => Told(own) = Told(OperationOf(e))

\* A formatter prints only what the parser wrote for this transaction and this operation:
\* never a member of another arm of a union, nor a member of something optional that is not
\* there.
FieldsAreWritten ==
  Returned =>
    \A pages \in {Shown(d) : d \in Readings} \cup {HeaderPages(h, TRUE) : h \in ReadHeaders} :
      \A n \in DOMAIN pages : \A i \in DOMAIN pages[n] : pages[n][i] # Unwritten

\* The stack holds the longest chain of an operation, with the page for its number, that of
\* its source and format_next_step, and that of a header without its sequence number, so
\* that neither throws.
FitsStack ==
  Returned =>
    /\ \A d \in Readings :
         LET captions == IF d[<<"operations_count">>][1] > 1 THEN 1 ELSE 0
         IN captions + Len(Shown(d)) + 1 <= StackSize
    /\ \A h \in ReadHeaders : Len(HeaderPages(h, FALSE)) + 1 <= StackSize
=============================================================================
