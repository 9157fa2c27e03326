----------------------------- MODULE MCTxReview -----------------------------
(* The instances of TxReview that TLC checks.                              *)
EXTENDS TxReview

Parsed(n)   == [pages |-> n, source |-> FALSE, parses |-> TRUE]
Sourced(n)  == [pages |-> n, source |-> TRUE, parses |-> TRUE]
Unparsed(n) == [pages |-> n, source |-> FALSE, parses |-> FALSE]

Tx(h, n, ops) == [header |-> h, count |-> n, ops |-> ops]

\* All operations parse: one, or several of different lengths, with and without source.
AllParse ==
  {Tx({}, 1, <<Parsed(2)>>),
   Tx({"network", "feeBump"}, 1, <<Sourced(1)>>),
   Tx({"memo"}, 2, <<Sourced(3), Parsed(1)>>),
   Tx({}, 3, <<Parsed(2), Sourced(1), Parsed(2)>>),
   Tx({"network"}, 4, <<Parsed(1), Parsed(3), Parsed(2), Sourced(2)>>)}

\* An operation does not parse, or there are more or fewer of them than announced; some
\* are prefixes of others, which the host may send later.
Unsound ==
  {Tx({}, 0, <<Parsed(1), Parsed(1)>>),
   Tx({}, 2, <<Parsed(1), Unparsed(2)>>),
   Tx({}, 3, <<Parsed(2)>>),
   Tx({}, 3, <<Parsed(2), Sourced(1)>>),
   Tx({}, 1, <<Parsed(2), Parsed(1)>>),
   Tx({"memo"}, 5, <<Parsed(1), Unparsed(1), Parsed(2), Parsed(1), Parsed(1)>>)}

\* A transaction in two parts, each of which parses.
Parts == {Tx({}, 3, <<Parsed(2), Parsed(2)>>), Tx({}, 3, <<Parsed(2), Parsed(2), Parsed(1)>>)}

\* A header with everything, and one that just fits.
Full   == {Tx(Options, 1, <<Parsed(1)>>)}
Nearly == {Tx(Options \ {"memo"}, 1, <<Parsed(1)>>)}

All == AllParse \cup Unsound \cup Full \cup Nearly
=============================================================================
