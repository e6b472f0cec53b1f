---------------------------- MODULE MCPriceQuery ----------------------------
(***************************************************************************)
(* Model-checking instance of PriceQuery: for single prices numbers around *)
(* every bound the code compares with; for batches lists of up to four     *)
(* segments over two tokens, so that a token may repeat and a position may *)
(* stand between one from the cache and one with an amount.                *)
(***************************************************************************)
EXTENDS PriceQuery

Absent    == Text("absent", 0)
Empty     == Text("empty", 0)
Garbage   == Text("garbage", 0)
Number(n) == Text("number", n)

MCMaxBlock == 3
MCMaxBatch == 3
MCLatest   == 4

Words == {Absent, Empty, Garbage, Text("nan", 0), Text("inf", 0)}

Blocks     == Words \cup {Number(n) : n \in {-10, 0, 10, 15, 30, 40}}
SomeNumber == Words \cup {Number(n) : n \in {-10, 0, 5, 10}}
Times      == Words \cup {Number(n) : n \in {-10, 0, 5, 10, 40, 45, 50}}
                    \cup {Text("iso", n) : n \in {-10, 0, 10, 40, 50}}

Lists(S, n) == UNION {[1..k -> S] : k \in 0..n}

PriceQueries ==
    [route : {"price"}, tokens : Lists({"", "bad", "a"}, 1), block : Blocks,
     amount : SomeNumber, pools : Lists({"", "bad", "a"}, 1), timestamp : Times]

BatchQueries ==
    [route : {"batch"}, tokens : Lists({"", "a", "b"}, 4) \cup Lists({"", "a", "bad"}, 2),
     block : {Number(10)}, amounts : Lists({Empty, Number(10), Number(20)}, 4) \cup {<<Garbage>>},
     timestamp : {Absent}]
    \cup
    [route : {"batch"}, tokens : {<<"a">>}, block : Blocks, amounts : {<<>>}, timestamp : Times]

BucketQueries ==
    [route : {"bucket"}, tokens : Lists({"", "bad", "a"}, 1), block : {Absent},
     amounts : {<<>>}, timestamp : {Absent}]

MCQueries == PriceQueries \cup BatchQueries \cup BucketQueries
=============================================================================
