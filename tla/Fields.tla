-------------------------------- MODULE Fields --------------------------------
(***************************************************************************)
(* The fields of a request and of a response: how pyhaul merges its own    *)
(* headers with the caller's, what a mapping of headers looks like on the  *)
(* wire, and how it reads ETag, Content-Range and Content-Length.          *)
(*                                                                         *)
(* Names stand without their letters' case and without blanks around them: *)
(* "padded" says that a key has such blanks, and "as" tells its spellings  *)
(* apart, of which 0 is pyhaul's own.  A value says who wrote it, and for  *)
(* a validator also what is in it.                                         *)
(***************************************************************************)
EXTENDS Integers, SequencesExt

None == -1      \* a number that is not there, or the * of a Content-Range

-----------------------------------------------------------------------------
(* Entity tags.  A raw tag is what a field holds: an optional W/, and the  *)
(* opaque part in quotes, bare, or broken (a quote that does not close).   *)
(* "special" holds characters that need quotes, and an escape within them; *)
(* an "escaped" form is in quotes too, but with a backslash that escapes   *)
(* what needs none, which "opaque" leaves out: "a\b" is ab, escaped.       *)
(* A bare * without W/ is the wildcard; "*" and W/* are tags like others.  *)

Opaque == {"", "a", "b", "special", "*"}
RawTag ==
    [weak : BOOLEAN, form : {"absent", "quoted", "escaped", "bare", "broken"}, opaque : Opaque]
NoRaw == [weak |-> FALSE, form |-> "absent", opaque |-> ""]

Wildcard == [weak |-> FALSE, form |-> "bare", opaque |-> "*"]

Tag == [kind : {"absent", "wildcard", "strong", "weak"}, opaque : Opaque]
EmptyTag == [kind |-> "absent", opaque |-> ""]

(* _opaque_ok_unquoted_token.                                              *)
BareToken(opaque) == opaque \notin {"", "special"}

(* The quoted-pairs of a quoted form lose their backslash, needed or not.  *)
ParseTag(raw) ==
    IF raw = Wildcard THEN [kind |-> "wildcard", opaque |-> "*"]
    ELSE IF \/ raw.form \in {"quoted", "escaped"} /\ ~(raw.weak /\ raw.opaque = "")
            \/ raw.form = "bare" /\ BareToken(raw.opaque)
         THEN [kind |-> IF raw.weak THEN "weak" ELSE "strong", opaque |-> raw.opaque]
         ELSE EmptyTag

(* Mutant: the opaque part is put between quotes as it is.                 *)
UnparseTagUnescaped(tag) ==
    CASE tag.kind = "absent" -> NoRaw
      [] tag.kind = "wildcard" -> Wildcard
      [] OTHER -> [weak |-> tag.kind = "weak",
                   form |-> IF tag.opaque = "special" THEN "broken" ELSE "quoted",
                   opaque |-> tag.opaque]

(* to_canonical and to_http_field_value: always in quotes, and escaped     *)
(* where that is needed.                                                   *)
UnparseTag(tag) ==
    CASE tag.kind = "absent" -> NoRaw
      [] tag.kind = "wildcard" -> Wildcard
      [] OTHER -> [weak |-> tag.kind = "weak", form |-> "quoted", opaque |-> tag.opaque]

UsableForRange(tag) == tag.kind = "strong"

-----------------------------------------------------------------------------
(* Request headers: sequences of fields, as a dict keeps them.             *)

Value == [by : {"nobody", "user", "pyhaul"}, tag : RawTag]
Nothing == [by |-> "nobody", tag |-> NoRaw]
Ours == [by |-> "pyhaul", tag |-> NoRaw]

Structural == {"range", "if-range", "accept-encoding", "te"}

Field(name, value) == [name |-> name, padded |-> FALSE, as |-> 0, value |-> value]

(* Where the fields of a name stand, in whatever spelling: as merge_headers *)
(* compares keys, which lowers their case; and as TransportHeaders does,   *)
(* which also strips the blanks.                                           *)
Named(headers, name) == {i \in DOMAIN headers : headers[i].name = name /\ ~headers[i].padded}
Carried(headers, name) == {i \in DOMAIN headers : headers[i].name = name}

(* Where a key of a dict that merge_headers knows stands, in one spelling. *)
Key(headers, name, as) == {i \in Named(headers, name) : headers[i].as = as}

(* d[key] = value on a dict: the place of a key that is there is kept.     *)
Put(headers, field) ==
    LET key == Key(headers, field.name, field.as)
    IN  IF key = {} THEN Append(headers, field)
        ELSE [i \in DOMAIN headers |-> IF i \in key THEN field ELSE headers[i]]

(* d.pop(key); merge_headers pops a key once, so it is there.              *)
Pop(headers, name, as) ==
    LET key == Key(headers, name, as)
    IN  IF key = {} THEN headers ELSE RemoveAt(headers, CHOOSE i \in key : TRUE)

(* The caller's field, in the spelling that comes last, gives way.         *)
WithoutLast(headers, user, name) ==
    IF Named(user, name) = {} THEN headers
    ELSE Pop(headers, name, user[Max(Named(user, name))].as)

(* Mutant: a caller's Range is kept, as if it were metadata.               *)
MergeOneKept(user, headers, ours) ==
    CASE ours.name \in Structural \ {"range"} -> Put(WithoutLast(headers, user, ours.name), ours)
      [] ours.name \notin Structural \ {"range"} /\ Named(user, ours.name) = {} ->
             Put(headers, ours)
      [] OTHER -> headers

(* The body of merge_headers' loop.                                        *)
MergeOne(user, headers, ours) ==
    CASE ours.name \in Structural -> Put(WithoutLast(headers, user, ours.name), ours)
      [] ours.name \notin Structural /\ Named(user, ours.name) = {} -> Put(headers, ours)
      [] OTHER -> headers

Merge(user, pyhaul) ==
    LET merged[i \in 0 .. Len(pyhaul)] ==
            IF i = 0 THEN user ELSE MergeOne(user, merged[i - 1], pyhaul[i])
    IN  merged[Len(pyhaul)]

Defaults == <<Field("accept-encoding", Ours), Field("cache-control", Ours)>>

(* TransportHeaders.from_mapping and dict(headers): keys that are one name *)
(* without blanks and case become several values, of which the mapping     *)
(* shows the first.                                                        *)
OnTheWire(headers) ==
    [name \in Structural \cup {"cache-control"} |->
        IF Carried(headers, name) = {} THEN Nothing
        ELSE headers[Min(Carried(headers, name))].value]

(* No If-Range but with a strong tag of the checkpoint.                    *)
RangeHeaders(stored) ==
    Defaults \o <<Field("range", Ours)>> \o
    IF UsableForRange(stored)
      THEN <<Field("if-range", [by |-> "pyhaul", tag |-> UnparseTag(stored)])>>
      ELSE <<>>

-----------------------------------------------------------------------------
(* Response fields.                                                        *)

(* Mutant: the last of several lengths counts.                             *)
ParseContentLengthLast(tokens) ==
    IF tokens = <<>> \/ \E i \in DOMAIN tokens : tokens[i] = None THEN None
    ELSE tokens[Len(tokens)]

(* Content-Length, cut at its commas; None is a token that is no number.   *)
ParseContentLength(tokens) ==
    IF tokens = <<>> \/ \E i \in DOMAIN tokens : tokens[i] = None \/ tokens[i] # tokens[1]
      THEN None ELSE tokens[1]

NoRange == [unit |-> "", first |-> None, last |-> None, total |-> None]

(* A lenient parser: the unit may be missing.  first = None is the form    *)
(* of a 416, and total = None the *.                                       *)
Readable(raw) ==
    /\ raw.unit \notin {"items", "none"}
    /\ IF raw.first = None
         THEN raw.total > 0
         ELSE raw.first <= raw.last /\ (raw.total = None \/ raw.total > 0)

Unsatisfied(raw) == raw.first = None
=============================================================================
