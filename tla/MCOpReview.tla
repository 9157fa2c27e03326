----------------------------- MODULE MCOpReview -----------------------------
(* The operations whose pages TLC compares.                                *)
EXTENDS OpReview, MCTxParser

\* A shortened text keeps its first and its last characters.
FirstAndLast(v) == IF Len(v) < 2 THEN v ELSE <<v[1], v[Len(v)]>>

LargestLimit == <<77, 77>>
OwnKey    == Hash(1).words
LookAlike == Join(Tag(0), In("ed25519", Leaf([i \in 1 .. 8 |-> IF i = 4 THEN 2 ELSE 1])))

Public == Hash(9).words
Test   == Hash(8).words
Networks == <<Public, Test>>

\* Headers that differ from one another in one field at a time, or in the absence of one.
Bump(source, fee) ==
  Joined(<<Tag(5), In("fee_bump", Join(In("fee_source", source), In("fee", U64(fee)))), Skip(<<2>>)>>)
Range64(a, b) == Join(In("min_time", U64(a)), In("max_time", U64(b)))
Range32(a, b) == Join(In("min_ledger", U32(a)), In("max_ledger", U32(b)))

HeaderOf(network, envelope, source, fee, number, cond, note) ==
  Joined(<<In("network", network), envelope, In("source_account", source), In("fee", U32(fee)),
           In("sequence_number", U64(number)), In("cond", cond), In("memo", note),
           In("operations_count", U32(1))>>)

Ranges == {<<0, 0>>, <<0, 2>>, <<1, 0>>, <<1, 2>>, <<2, 1>>}
Everything == Conditions(Some(Times), Some(Ledgers), Some(U64(3)), 4, 5, <<0>>)
SomeConditions ==
  {NoCondition, TimeCondition, Everything}
  \cup {Conditions(Some(Range64(r[1], r[2])), None, None, 0, 0, <<0>>) : r \in Ranges}
  \cup {Conditions(None, Some(Range32(r[1], r[2])), None, 0, 0, <<0>>) : r \in Ranges}
  \cup {Conditions(None, None, Some(U64(n)), 0, 0, <<0>>) : n \in 0 .. 2}
  \cup {Conditions(None, None, None, n[1], n[2], <<0>>) : n \in {<<1, 0>>, <<0, 1>>, <<2, 0>>}}
SomeMemos ==
  Memos \cup {Join(Tag(1), In("text", t)) : t \in {String(2, <<AB>>), String(0, <<>>), String(4, <<0>>)}}
        \cup {Join(Tag(4), In("return_hash", Hash(2))), Join(Tag(2), In("id", U64(2)))}
SomeSources == {Muxed(1), Muxed(2), MuxedId(1, 4), LookAlike}

HeaderDocuments ==
  {Document(h, <<Sample(Plain[7])>>, <<>>) : h \in
     {HeaderOf(Hash(n), EnvelopeTx, Muxed(1), 100, 3, NoCondition, Tag(0)) : n \in 7 .. 9}
     \cup {HeaderOf(Hash(9), e, s, 100, 3, NoCondition, Tag(0)) :
             e \in {EnvelopeTx, Bump(Muxed(1), 400)}, s \in SomeSources}
     \cup {HeaderOf(Hash(9), Bump(s, 400), Muxed(1), 100, 3, NoCondition, Tag(0)) : s \in SomeSources}
     \cup {HeaderOf(Hash(9), Bump(Muxed(1), f), Muxed(1), 100, 3, NoCondition, Tag(0)) : f \in {100, 401}}
     \cup {HeaderOf(Hash(9), EnvelopeTx, Muxed(1), n[1], n[2], NoCondition, Tag(0)) :
             n \in {<<101, 3>>, <<100, 4>>}}
     \cup {HeaderOf(Hash(9), EnvelopeTx, Muxed(1), 100, 3, c, Tag(0)) : c \in SomeConditions}
     \cup {HeaderOf(Hash(9), EnvelopeTx, Muxed(1), 100, 3, NoCondition, m) : m \in SomeMemos}
     \cup {HeaderOf(Hash(8), Bump(Muxed(1), 400), Muxed(1), 100, 3, Everything, m) : m \in Memos}}

\* An operation from different sources, in a transaction of the device's own account or not.
Sources ==
  LET header(envelope, source) ==
        Joined(<<In("network", Hash(9)), envelope, In("source_account", source), In("fee", U32(100)),
                 In("sequence_number", U64(3)), In("cond", NoCondition), In("memo", Tag(0)),
                 In("operations_count", U32(4))>>)
      sources == <<None, Some(Muxed(1)), Some(MuxedId(1, 4)), Some(LookAlike)>>
  IN {Document(header(e, s), [i \in DOMAIN sources |-> OperationWith(sources[i], op, 0, 1)], <<>>) :
        e \in {EnvelopeTx, EnvelopeFeeBump}, s \in {Muxed(1), MuxedId(1, 4), Muxed(2)},
        op \in {Plain[2], Plain[6]}}

OpDocuments == AllDocuments \cup Sources \cup HeaderDocuments
=============================================================================
