--------------------------- MODULE MCKhiServices ---------------------------
(* Requests for KhiServices that reach the bounds of bytes and ranges.     *)
EXTENDS KhiServices

\* The first and the last signals of a byte and of the ranges; 1001 is an input.
SomeSignals == {8, 9, 512, 1001, 2001}

Get(numbers)        == [srv |-> "get_signal", numbers |-> numbers]
Set(numbers, is_on) == [srv |-> "set_signal", numbers |-> numbers, is_on |-> is_on]

\* The range of an uint32, scaled down: still far beyond every signal number.
SomeWord == 65536

\* Numbers around the bounds of the ranges and bytes, sizes that do not match, an
\* empty list, a signal set twice, and one request of each other service.
SomeRequests ==
    {Get(<<n>>) : n \in {0, 1, 8, 9, 512, 513, 1000, 1001, 1513, 2001, 2512}}
    \cup {Get(<<8, 513, 9>>), Get(<<9, 512, 1001>>)}
    \cup {Set(<<8>>, <<b>>) : b \in BOOLEAN}
    \cup {Set(<<2001, 9>>, <<FALSE, TRUE>>), Set(<<9, 9>>, <<TRUE, FALSE>>),
          Set(<<8, 9>>, <<TRUE>>), Set(<<9, 1001>>, <<TRUE, TRUE>>), Set(<<0>>, <<TRUE>>), Set(<<>>, <<>>)}
    \cup {Set(<<SomeWord - 8>>, <<TRUE>>), Set(<<SomeWord - 1>>, <<FALSE>>)}
    \cup {[srv |-> name] : name \in Names \ {"get_signal", "set_signal"}}
=============================================================================
