----------------------------- MODULE MCTxParser -----------------------------
(* The documents with which TLC checks the parser.                         *)
EXTENDS TxParser, MCSamples

SourceField(part) == In("source_account", part)

\* The operation with the j-th alternative of its i-th field.
OperationWith(source, s, i, j) ==
  Joined(<<SourceField(source), Tag(s.type)>>
         \o [k \in DOMAIN s.fields |-> s.fields[k][IF k = i THEN j ELSE 1]])
Sample(s) == OperationWith(None, s, 0, 1)

EnvelopeTx      == Tag(2)
EnvelopeFeeBump == Joined(<<Tag(5), In("fee_bump", Join(In("fee_source", MuxedId(4, 2)),
                                                        In("fee", U64(400)))), Skip(<<2>>)>>)

Cleared(f)  == Part(<<>>, <<f, "present">> :> <<>>)
Newer       == Joined(<<Cleared("min_seq_num"), Cleared("ledger_bounds"),
                        Part(<<>>, (<<"min_seq_ledger_gap">> :> <<>>) @@ (<<"min_seq_age">> :> <<>>))>>)
Times       == Join(In("min_time", U64(1)), In("max_time", U64(2)))
Ledgers     == Join(In("min_ledger", U32(1)), In("max_ledger", U32(2)))
NoCondition == Joined(<<Skip(<<0>>), Cleared("time_bounds"), Newer>>)
\* The type of the condition, 1, stands where a flag would.
TimeCondition == Joined(<<In("time_bounds", Some(Times)), Newer>>)
Conditions(times, ledgers, number, age, gap, signers) ==
  Joined(<<Skip(<<2>>), In("time_bounds", times), In("ledger_bounds", ledgers),
           In("min_seq_num", number), In("min_seq_age", U64(age)), In("min_seq_ledger_gap", U32(gap)),
           Skip(signers)>>)

Memos == {Tag(0), Join(Tag(1), In("text", String(3, <<ABC>>))), Join(Tag(2), In("id", U64(1))),
          Join(Tag(3), In("hash", Hash(1))), Join(Tag(4), In("return_hash", Hash(1)))}

HeaderPart(envelope, cond, note, count) ==
  Joined(<<In("network", Hash(9)), envelope, In("source_account", Muxed(1)), In("fee", U32(100)),
           In("sequence_number", U64(3)), In("cond", cond), In("memo", note),
           In("operations_count", U32(count))>>)
SimpleHeader(n) == HeaderPart(EnvelopeTx, NoCondition, Tag(0), n)

\* A document of a header, valid operations, other words and the extension.
Document(header, ops, rest) ==
  LET parts == [i \in 1 .. Len(ops) |-> ops[i]]
      end[i \in 0 .. Len(ops)] ==
        IF i = 0 THEN Len(header.words) ELSE end[i - 1] + Len(parts[i].words)
      words == header.words \o Joined(parts).words \o rest \o <<0>>
  IN [words |-> words, size |-> Len(words), header |-> header.fields,
      ops |-> [i \in DOMAIN parts |-> parts[i].fields],
      ends |-> [i \in 1 .. Len(ops) + 1 |-> end[i - 1]]]
-----------------------------------------------------------------------------
\* Every operation, then in every variant of one of its fields: what one leaves must not be
\* seen in the next.
Variants ==
  UNION {{LET ops == [n \in 1 .. Len(s.fields[i]) |-> OperationWith(None, s, i, n)]
          IN  Document(SimpleHeader(Len(ops)), ops, <<>>) :
            i \in {k \in DOMAIN s.fields : Len(s.fields[k]) > 1}} : s \in ToSet(AllSamples)}

\* Operations of different types one after the other, with a source or without.
Mixed ==
  LET after(n) == 1 + (n % Len(AllSamples)) IN
  {Document(SimpleHeader(3),
            <<Sample(AllSamples[n]), OperationWith(Some(Muxed(2)), AllSamples[after(n)], 0, 1),
              Sample(AllSamples[n])>>, <<>>) : n \in DOMAIN AllSamples}

Headers ==
  {Document(HeaderPart(EnvelopeTx, c, Tag(0), 1), <<Sample(Plain[2])>>, <<>>) :
     c \in {TimeCondition, Conditions(None, None, None, 0, 3, <<0>>),
            Conditions(Some(Times), Some(Ledgers), Some(U64(3)), 0, 3,
                       <<2>> \o PublicKey(1).words \o SignedPayload(1, 2, <<AB>>).words)}}
  \cup {Document(HeaderPart(EnvelopeFeeBump, NoCondition, m, 1), <<Sample(Plain[2])>>, <<>>) : m \in Memos}

\* Prefixes, of all lengths, of transactions with many kinds of readers.
Cut ==
  LET long  == Document(HeaderPart(EnvelopeFeeBump, TimeCondition, Join(Tag(1), In("text", String(3, <<ABC>>))), 1),
                        <<OperationWith(Some(MuxedId(2, 1)), DataSamples[1], 0, 1)>>, <<>>)
      plain == Document(SimpleHeader(2), <<OperationWith(None, BalanceSamples[1], 3, 3),
                                           OperationWith(None, Options[2], 0, 1)>>, <<>>)
  IN UNION {{[d EXCEPT !.size = n] : n \in 0 .. Len(d.words)} : d \in {long, plain}}

\* What does not follow a plain operation.
Refused ==
  LET start(t) == <<0, t>>
      key == Account(1).words
  IN {<<2>>, start(24), start(300), <<1, 1>> \o Hash(1).words \o <<9>>,
      start(1) \o Muxed(1).words \o <<3>> \o Hash(1).words \o U64(5).words,
      start(4) \o Native.words \o Native.words \o U64(5).words \o <<1, 0>>,
      start(10) \o <<65>> \o [i \in 1 .. 17 |-> 0] \o <<0>>,
      start(10) \o <<2, ABC>> \o <<0>>,
      start(10) \o <<2, AB, 1, 65>> \o [i \in 1 .. 17 |-> 0],
      start(10) \o <<2, AB, 2, 1, AB>>,
      start(5) \o [i \in 1 .. 7 |-> 0] \o <<1, 33>> \o [i \in 1 .. 9 |-> 0] \o <<0>>,
      start(5) \o [i \in 1 .. 7 |-> 0] \o <<1, 1, AB>> \o <<0>>,
      start(5) \o [i \in 1 .. 8 |-> 0] \o <<1, 4>> \o Hash(1).words \o <<1>>,
      start(5) \o [i \in 1 .. 8 |-> 0] \o <<1, 3>> \o Hash(1).words \o <<0, 1>>,
      start(5) \o [i \in 1 .. 8 |-> 0] \o <<1, 3>> \o Hash(1).words \o <<65>>
        \o [i \in 1 .. 17 |-> 0] \o <<1>>,
      start(14) \o Native.words \o U64(5).words \o <<11>>
        \o FlattenSeq([i \in 1 .. 11 |-> ClaimantIf(1, Always).words]),
      start(14) \o Native.words \o U64(5).words \o <<1, 1>> \o key \o <<0>>,
      start(14) \o Native.words \o U64(5).words \o <<1, 0>> \o key \o <<6>>,
      start(14) \o Native.words \o U64(5).words \o <<1, 0>> \o key \o <<1, 1, 0>>,
      start(14) \o Native.words \o U64(5).words \o <<1, 0>> \o key \o <<2, 3, 0, 0, 0>>,
      start(14) \o Native.words \o U64(5).words \o <<1, 0>> \o key \o <<3, 2>>,
      start(15) \o <<1>> \o Hash(1).words, start(18) \o <<2>> \o key,
      start(18) \o <<0, 6>> \o key, start(6) \o <<4, 0, 5>>,
      start(6) \o <<3, 1, 0, 0, 30, 0, 5>>, start(7) \o key \o <<0, AB, 1>>,
      start(2) \o Native.words \o U64(5).words \o Muxed(1).words \o Native.words \o U64(5).words
        \o <<6>> \o [i \in 1 .. 6 |-> 0]}

RefusedSecond == {Document(SimpleHeader(2), <<Sample(Plain[2])>>, r) : r \in Refused}

\* Headers that are refused.
RefusedFirst ==
  LET before == Hash(9).words \o <<2>> \o Muxed(1).words \o <<100, 0, 3>>
      bad(words) == [Document(Nothing, <<>>, words \o Sample(Plain[2]).words) EXCEPT !.ends = <<0>>]
  IN {bad(Hash(9).words \o w) : w \in {<<0>>, <<3>>, <<5>> \o Muxed(1).words \o <<0, 400, 5>>}}
     \cup {bad(before \o w) : w \in {<<3>>, <<0, 5>>, <<0, 1, 29>> \o [i \in 1 .. 8 |-> 0] \o <<1>>,
                                     <<2, 0, 0, 0, 0, 0, 0, 3>> \o [i \in 1 .. 27 |-> 2] \o <<0, 1>>,
                                     <<1, 0, 1>>, <<0, 0, 36>>}}

\* What the parser reads although the encoding does not allow it: operation and asset types
\* that only match in the bytes kept, another type of account, a true that is not 1, padding
\* of a signed payload.
Lenient ==
  LET payment(t, a) == Part(<<0, t>> \o Muxed(1).words \o a \o U64(5).words,
                            OperationWith(None, Plain[2], 2, 2).fields)
      create == Part(<<0, 0, 7>> \o Hash(1).words \o U64(5).words, Sample(Plain[1]).fields)
      domain == OperationWith(None, Options[1], 8, 2)
      at     == 2 + 7 + 1
      signer == Part(<<0, 5>> \o [i \in 1 .. 8 |-> 0] \o <<1, 3>> \o Hash(1).words \o <<2, ABC, 2>>,
                     [OperationWith(None, Options[1], 9, 6).fields
                        EXCEPT ![<<"signer", "key", "payload">>] = <<2, ABC>>])
  IN {Document(SimpleHeader(1), <<op>>, <<>>) :
        op \in {payment(257, <<0>>), create, [domain EXCEPT !.words[at] = 2], signer}
               \cup IF ShortEnums THEN {payment(1, <<256>>)} ELSE {}}

Encodings == Variants \cup Mixed \cup Headers \cup Lenient
Broken    == Cut \cup RefusedSecond \cup RefusedFirst
AllDocuments == Encodings \cup Broken

\* Path payments over two hops, all of the assets issued.
HopsDocuments ==
  {Document(SimpleHeader(2),
     <<Joined(<<SourceField(None), Tag(t), In("send_asset", Credit4(AB, 1)), In(amounts[1], U64(5)),
                In("destination", Muxed(1)), In("dest_asset", Credit4(ABC, 1)), In(amounts[2], U64(5)),
                Hops(<<Credit4(ABC, 2), Credit4(ABC, 3)>>)>>), Sample(Plain[2])>>, <<>>) :
     <<t, amounts>> \in {<<2, <<"send_max", "dest_amount">>>>, <<13, <<"send_amount", "dest_min">>>>}}
=============================================================================
