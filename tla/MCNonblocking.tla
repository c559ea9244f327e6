--------------------------- MODULE MCNonblocking ---------------------------
(* A serial line between two small programs; 3 is the escape character. *)
EXTENDS Nonblocking

Msg(c, d) == [channel |-> c, data |-> d]
Pattern(k, n) == [kind |-> k, name |-> n]

MCPatterns == {Pattern("plain", <<1>>), Pattern("regex", <<>>), Pattern("bad", <<1>>)}

\* Messages of every length, with the escape in each place, over a bad line.
Stream == [msgs |-> {Msg(<<1>>, <<>>), Msg(<<1>>, <<3, 0>>), Msg(<<3>>, <<3, 3>>)},
           sends |-> 3, calls |-> 0, faults |-> 1]

\* Few messages, and a table that is rearranged while they are dispatched.
Table == [msgs |-> {Msg(<<1>>, <<>>), Msg(<<2>>, <<>>)}, sends |-> 2, calls |-> 4,
          faults |-> 0]

MCPrograms == {Stream, Table}
=============================================================================
