------------------------------- MODULE Exchange -------------------------------
(***************************************************************************)
(* The conversation with the server: the requests of haul() and of         *)
(* probe() / probe_async() over any adapter, with the caller's headers,    *)
(* and what pyhaul takes from the answers.  Calls follow one another; the  *)
(* only thing that is kept between them is the ETag in .part.ctrl.  The    *)
(* server tells no lies, but it may leave fields out, ignore Range, repeat *)
(* a Content-Length or spoil it, answer with an error or a redirect, and   *)
(* replace the resource once, whenever it likes.                           *)
(***************************************************************************)
EXTENDS Fields, Transport

CONSTANTS
    Version,        \* versions of the resource, 1 .. n
    Size,           \* Size[v]: length of version v
    ETags,          \* what the raw ETags of the versions may be
    UserHeaders     \* headers callers pass: dicts, as sequences of fields

(* What a caller may pass, whatever the name and the spelling.             *)
UserField ==
    [name : STRING, padded : BOOLEAN, as : Nat, value : [by : {"user"}, tag : RawTag]]

ASSUME ExchangeAssumption ==
    /\ Version \subseteq Nat /\ 1 \in Version /\ Size \in [Version -> Nat]
    /\ \A e \in ETags : e \in [Version -> RawTag] /\ \A v, w \in Version : e[v] = e[w] => v = w
    /\ UserHeaders \subseteq Seq(UserField)
    /\ \A u \in UserHeaders : \A i, j \in DOMAIN u :
           u[i].name = u[j].name /\ u[i].padded = u[j].padded /\ u[i].as = u[j].as => i = j

VARIABLES
    etag,           \* etag[v]: the raw ETag of version v
    unfollowed,     \* the methods that get a redirect for an answer
    version,        \* what the server has now
    stored,         \* the raw ETag in .part.ctrl
    issued,         \* the raw ETag it came from
    pc, call,
    user,           \* the caller's headers
    sent,           \* the fields of the last request
    answered,       \* versions that have answered this call
    snap,           \* what HEAD told
    result

origin == <<etag, unfollowed>>
checkpoint == <<stored, issued>>
caller == <<call, user>>
vars == <<origin, version, checkpoint, pc, caller, sent, answered, snap, result>>

NoRequest == OnTheWire(<<>>)
NoSnap == [status |-> None, length |-> None, tag |-> EmptyTag, ranges |-> FALSE, named |-> FALSE]

-----------------------------------------------------------------------------
(* Sessions.  A client is a library's own session, or a transport session  *)
(* (an adapter, or a proxy around one), or something else.                 *)

Client ==
    [mode : {"sync", "async"}, kind : {"library", "session"},
     of : DOMAIN SyncAdapter \cup DOMAIN AsyncAdapter \cup {"unknown"}]

Adapters(mode) == IF mode = "sync" THEN SyncAdapter ELSE AsyncAdapter

(* coerce_sync_session, coerce_async_session: the adapters in the order of *)
(* the registry; each takes the sessions of one library.                   *)
Coerces(mode, client) == client.mode = mode /\ client.of \in DOMAIN Adapters(mode)

Unfollowed(client, option, setting) ==
    {method \in {"GET", "HEAD"} :
        ~Follows(Adapters(client.mode)[client.of], method, option, setting)}

(* The URL may lead to a redirect; then the session, the caller's options  *)
(* and the library's setting say what comes of it.                         *)
Init ==
    /\ etag \in ETags /\ version = 1
    /\ \/ unfollowed = {}
       \/ \E mode \in {"sync", "async"}, client \in Client, option \in {"unset", "yes", "no"},
             setting \in BOOLEAN :
             Coerces(mode, client) /\ unfollowed = Unfollowed(client, option, setting)
    /\ stored = NoRaw /\ issued = NoRaw
    /\ pc = "idle" /\ call = "none" /\ user = <<>>
    /\ sent = NoRequest /\ answered = {} /\ snap = NoSnap /\ result = NoSnap

-----------------------------------------------------------------------------
(* Answers.                                                                *)

(* An answer about version v, with a Content-Range that may be NoRange.    *)
Answers(v, status, lengths, contentRanges) ==
    {[status |-> status, length |-> l, range |-> r, etag |-> e, ranges |-> a, named |-> d] :
        l \in lengths, r \in contentRanges, e \in {NoRaw, etag[v]}, a, d \in BOOLEAN}

Lengths(n) == {<<>>, <<n>>, <<n, n>>, <<n, n + 1>>, <<None>>}

Whole(v) == Answers(v, 200, Lengths(Size[v]), {NoRange})

(* Range: bytes=0-0.                                                       *)
FirstByte(v) ==
    IF Size[v] = 0 THEN {}
    ELSE Answers(v, 206, {<<1>>},
             [unit : {"bytes", "", "items"}, first : {0}, last : {0}, total : {Size[v], None}]
                 \cup {NoRange})

NotSatisfiable(v) ==
    Answers(v, 416, {<<>>}, {[unit |-> "bytes", first |-> None, last |-> None, total |-> Size[v]],
                             NoRange})

Error(v) == Answers(v, 503, {<<5>>}, {NoRange})

Redirect(v) == Answers(v, 302, {<<>>, <<5>>}, {NoRange})

HeadReplies ==
    IF "HEAD" \in unfollowed THEN Redirect(version)
    ELSE Whole(version) \cup Error(version)

GetReplies ==
    IF "GET" \in unfollowed THEN Redirect(version)
    ELSE Whole(version) \cup FirstByte(version) \cup NotSatisfiable(version) \cup Error(version)

Replace ==
    /\ version + 1 \in Version /\ version' = version + 1
    /\ UNCHANGED <<origin, checkpoint, pc, caller, sent, answered, snap, result>>

-----------------------------------------------------------------------------
(* probe().                                                                *)

(* Mutant: the length of a 206 is taken for that of the resource.          *)
TotalLengthOfPart(reply) ==
    CASE reply.status \in {200, 206} -> ParseContentLength(reply.length)
      [] reply.status = 416 /\ Readable(reply.range) /\ Unsatisfied(reply.range) -> reply.range.total
      [] OTHER -> None

TotalLength(reply) ==
    CASE reply.status = 200 -> ParseContentLength(reply.length)
      [] reply.status = 206 /\ Readable(reply.range) -> reply.range.total
      [] reply.status = 416 /\ Readable(reply.range) /\ Unsatisfied(reply.range) -> reply.range.total
      [] OTHER -> None

(* Enough for a HEAD to do without the ranged GET.                         *)
MetadataComplete(reply) ==
    /\ reply.ranges /\ reply.etag # NoRaw /\ reply.named
    /\ reply.range # NoRange \/ ParseContentLength(reply.length) # None

Snapshot(reply) ==
    [status |-> reply.status, length |-> TotalLength(reply), tag |-> ParseTag(reply.etag),
     ranges |-> reply.ranges, named |-> reply.named]

(* The ranged GET's word counts where it has one.                          *)
MergeSnapshots(primary, secondary) ==
    [status |-> secondary.status,
     length |-> IF secondary.length # None THEN secondary.length ELSE primary.length,
     tag |-> IF secondary.tag # EmptyTag THEN secondary.tag ELSE primary.tag,
     ranges |-> primary.ranges \/ secondary.ranges,
     named |-> primary.named \/ secondary.named]

(* _finalize_allowed_status: not an error; a redirect passes.              *)
Allowed(reply) ==
    \/ reply.status < 400
    \/ reply.status = 416 /\ Readable(reply.range) /\ Unsatisfied(reply.range)

Call(c, u) ==
    /\ pc = "idle" /\ pc' = c
    /\ call' = c /\ user' = u
    /\ sent' = NoRequest /\ answered' = {} /\ snap' = NoSnap /\ result' = NoSnap
    /\ UNCHANGED <<origin, version, checkpoint>>

(* The caller gets a result or an exception; the rest is forgotten.        *)
Ends == pc' = "idle" /\ snap' = NoSnap

HeadRequest(reply) ==
    /\ pc = "probe" /\ reply \in HeadReplies
    /\ sent' = OnTheWire(Merge(user, Defaults))
    /\ answered' = {version}
    /\ IF reply.status = 200 /\ MetadataComplete(reply)
         THEN Ends /\ result' = Snapshot(reply)
         ELSE /\ pc' = "ranged" /\ UNCHANGED result
              /\ snap' = IF reply.status = 200 THEN Snapshot(reply) ELSE NoSnap
    /\ UNCHANGED <<origin, version, checkpoint, caller>>

RangedGet(reply) ==
    /\ pc = "ranged" /\ reply \in GetReplies
    /\ sent' = OnTheWire(Merge(user, Append(Defaults, Field("range", Ours))))
    /\ answered' = answered \cup {version}
    /\ Ends
    /\ result' = IF ~Allowed(reply) THEN NoSnap
                 ELSE IF snap = NoSnap THEN Snapshot(reply)
                      ELSE MergeSnapshots(snap, Snapshot(reply))
    /\ UNCHANGED <<origin, version, checkpoint, caller>>

(* The library raises: while it sends, or while the body is drained.       *)
ProbeFails ==
    /\ pc \in {"probe", "ranged"} /\ Ends /\ UNCHANGED result
    /\ UNCHANGED <<origin, version, checkpoint, caller, sent, answered>>

Probing ==
    \/ \E reply \in HeadReplies : HeadRequest(reply)
    \/ \E reply \in GetReplies : RangedGet(reply)
    \/ ProbeFails

-----------------------------------------------------------------------------
(* haul(), as far as its headers go.                                       *)

Request ==
    /\ pc = "haul" /\ pc' = "answer"
    /\ sent' = OnTheWire(Merge(user, RangeHeaders(ParseTag(stored))))
    /\ UNCHANGED <<origin, version, checkpoint, caller, answered, snap, result>>

(* The tag of a 200 is kept as it is, that of a 206 where it has one, if   *)
(* it is not at odds with the stored one; then a checkpoint is saved.      *)
Keep(raw, whole) ==
    LET told == ParseTag(raw)
        kept == ParseTag(stored)
    IN  IF whole \/ told # EmptyTag
          THEN stored' = UnparseTag(told) /\ issued' = raw
          ELSE stored' = UnparseTag(kept) /\ UNCHANGED issued

Conflicts(raw) ==
    /\ ParseTag(raw) # EmptyTag /\ UsableForRange(ParseTag(stored))
    /\ ParseTag(raw) # ParseTag(stored)

Accepted(raw, whole) ==
    /\ pc = "answer" /\ Ends
    /\ whole \/ ~Conflicts(raw)
    /\ Keep(raw, whole)
    /\ answered' = {version}
    /\ UNCHANGED <<origin, version, caller, sent, result>>

(* Complete, or reset by a 416: the tag is gone.                           *)
Forgotten ==
    /\ pc = "answer" /\ Ends
    /\ stored' = NoRaw /\ issued' = NoRaw
    /\ UNCHANGED <<origin, version, caller, sent, answered, result>>

HaulFails ==
    /\ pc = "answer" /\ Ends
    /\ UNCHANGED <<origin, version, checkpoint, caller, sent, answered, result>>

Hauling ==
    \/ Request \/ Forgotten \/ HaulFails
    \/ \E raw \in {NoRaw, etag[version]}, whole \in BOOLEAN : Accepted(raw, whole)

Next ==
    \/ \E c \in {"probe", "haul"}, u \in UserHeaders : Call(c, u)
    \/ Probing \/ Hauling \/ Replace

Spec == Init /\ [][Next]_vars

-----------------------------------------------------------------------------
Snap ==
    [status : {None, 200, 206, 302, 416}, length : {None} \cup {Size[v] : v \in Version},
     tag : Tag, ranges : BOOLEAN, named : BOOLEAN]

TypeOK ==
    /\ etag \in ETags /\ unfollowed \subseteq {"GET", "HEAD"} /\ version \in Version
    /\ stored \in RawTag /\ issued \in RawTag
    /\ pc \in {"idle", "probe", "ranged", "haul", "answer"} /\ call \in {"none", "probe", "haul"}
    /\ user \in UserHeaders \cup {<<>>}
    /\ sent \in [Structural \cup {"cache-control"} -> Value]
    /\ answered \subseteq Version /\ snap \in Snap /\ result \in Snap

(* The caller's dict has the name where merge_headers does not see it: in  *)
(* a second spelling, or with blanks around it.                            *)
Overlooked(name) == \E i, j \in Carried(user, name) : i # j \/ user[i].padded

(* The server is asked for the bytes at pyhaul's cursor, unencoded: no     *)
(* header of the caller and no adapter in between takes the place of       *)
(* pyhaul's, in whatever case and place, unless the caller has that very   *)
(* header in two spellings (headers.py:77 remembers only the last) or with *)
(* blanks around its name (which only TransportHeaders strips).            *)
AsksForItsBytes ==
    /\ pc = "answer" => sent["range"].by = "pyhaul" \/ Overlooked("range")
    /\ sent # NoRequest => sent["accept-encoding"].by = "pyhaul" \/ Overlooked("accept-encoding")

(* A resumed request carries as If-Range the very validator the server     *)
(* gave with the bytes, whenever that was a strong one in its quoted form  *)
(* without needless escapes, through parsing, .part.ctrl and serialising;  *)
(* and pyhaul sends none when the server's was weak, a wildcard or         *)
(* missing.                                                                *)
ValidatorFaithful ==
    pc = "answer" /\ ~Overlooked("if-range") =>
        IF issued.form = "quoted" /\ ~issued.weak
          THEN sent["if-range"] = [by |-> "pyhaul", tag |-> issued]
          ELSE sent["if-range"].by = "pyhaul" => issued.form \in {"bare", "escaped"} /\ ~issued.weak

(* What probe() tells of a resource nobody replaced meanwhile is true or   *)
(* missing: neither the length of a part nor a spoilt Content-Length is    *)
(* taken for its length, whichever of HEAD and GET said it.                *)
ProbeTruthful ==
    result # NoSnap => \A v \in answered : answered = {v} =>
        /\ result.length \in {None, Size[v]}
        /\ result.tag \in {EmptyTag, ParseTag(etag[v])}
=============================================================================
