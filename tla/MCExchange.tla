----------------------------- MODULE MCExchange -----------------------------
(* Exchange for TLC: an empty and a non-empty version of the resource, each *)
(* form of ETag (two of them, "a" and "\a", are one to the parser), and     *)
(* callers' headers that contend with pyhaul's.                             *)
EXTENDS Exchange

Raw(weak, form, opaque) == [weak |-> weak, form |-> form, opaque |-> opaque]

MCVersion == {1, 2}
MCSize == <<3, 0>>

MCETags ==
    {<<Raw(FALSE, "quoted", "a"), NoRaw>>,
     <<Raw(FALSE, "quoted", "special"), Raw(TRUE, "quoted", "b")>>,
     <<Raw(FALSE, "quoted", ""), Raw(FALSE, "bare", "a")>>,
     <<Wildcard, Raw(FALSE, "broken", "a")>>,
     <<Raw(FALSE, "bare", "special"), Raw(FALSE, "quoted", "*")>>,
     <<Raw(FALSE, "quoted", "a"), Raw(FALSE, "escaped", "a")>>,
     <<Raw(TRUE, "bare", "*"), Raw(FALSE, "bare", "b")>>}

User(name, as) ==
    [name |-> name, padded |-> FALSE, as |-> as, value |-> [by |-> "user", tag |-> NoRaw]]

Padded(field) == [field EXCEPT !.padded = TRUE]

MCUserHeaders ==
    {<<>>, <<User("cache-control", 1), User("te", 1)>>,
     <<User("accept-encoding", 0), User("range", 0)>>, <<User("if-range", 1)>>,
     <<User("range", 1), User("if-range", 2), User("accept-encoding", 1)>>,
     <<User("range", 1), User("range", 2)>>, <<User("if-range", 1), User("if-range", 0)>>,
     <<Padded(User("range", 0)), User("accept-encoding", 1), Padded(User("cache-control", 1))>>,
     <<User("if-range", 1), Padded(User("if-range", 1)), Padded(User("accept-encoding", 0))>>}

=============================================================================
