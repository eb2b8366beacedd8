---------------------------- MODULE ExchangeProofs ----------------------------
(***************************************************************************)
(* The conversation with the server is sound, for resources of any size    *)
(* and any number of versions, any ETags, callers' headers and session:    *)
(* what probe() tells is true (ProbeTrue); the variables keep their types  *)
(* (ExchangeTyped); requests ask for the bytes at pyhaul's cursor, as they *)
(* are (AskedForItsBytes); and If-Range carries the server's own validator *)
(* (ValidatorsFaithful).                                                   *)
(***************************************************************************)
EXTENDS Exchange, WellFoundedInduction, TLAPS

(* A snapshot s says of version v what is so, or nothing.                  *)
Says(s, v) ==
    s.length \in {None, Size[v]} /\ s.tag \in {EmptyTag, ParseTag(etag[v])}

(* Between HEAD and GET one version has answered, and the snapshot is of   *)
(* that one; the result of a call is there when the call is over.          *)
Probed ==
    /\ version \in Version
    /\ pc = "ranged" => \E v \in Version : answered = {v} /\ Says(snap, v)
    /\ pc # "idle" => result = NoSnap

IInv == Probed /\ ProbeTruthful

-----------------------------------------------------------------------------
LEMMA NoTag == ParseTag(NoRaw) = EmptyTag
BY DEF ParseTag, NoRaw, EmptyTag, Wildcard

LEMMA LengthTrue ==
    ASSUME NEW n, NEW l \in Lengths(n)
    PROVE  ParseContentLength(l) \in {None, n}
BY DEF Lengths, ParseContentLength, None

LEMMA Total200 ==
    ASSUME NEW reply, reply.status = 200
    PROVE  TotalLength(reply) = ParseContentLength(reply.length)
<1>1. reply.status # 206 /\ reply.status # 416
  BY SMT
<1> QED BY <1>1, Zenon DEF TotalLength

LEMMA Total206 ==
    ASSUME NEW reply, reply.status = 206
    PROVE  TotalLength(reply) \in {None, reply.range.total}
<1>1. reply.status # 200 /\ reply.status # 416
  BY SMT
<1> QED BY <1>1, Zenon DEF TotalLength

LEMMA Total416 ==
    ASSUME NEW reply, reply.status = 416
    PROVE  TotalLength(reply) \in {None, reply.range.total}
<1>1. reply.status # 200 /\ reply.status # 206
  BY SMT
<1> QED BY <1>1, Zenon DEF TotalLength

LEMMA TotalOther ==
    ASSUME NEW reply, reply.status \in {302, 503}
    PROVE  TotalLength(reply) = None
<1>1. reply.status # 200 /\ reply.status # 206 /\ reply.status # 416
  BY SMT
<1> QED BY <1>1, Zenon DEF TotalLength

-----------------------------------------------------------------------------
(* What the server's answers say.                                          *)

LEMMA Answered ==
    ASSUME NEW v, NEW status, NEW lengths, NEW ranges,
           NEW reply \in Answers(v, status, lengths, ranges)
    PROVE  /\ reply.status = status /\ reply.length \in lengths /\ reply.range \in ranges
           /\ reply.etag \in {NoRaw, etag[v]}
BY DEF Answers

LEMMA SnapshotTrue ==
    ASSUME NEW v, NEW reply, reply.etag \in {NoRaw, etag[v]},
           TotalLength(reply) \in {None, Size[v]}
    PROVE  Says(Snapshot(reply), v)
BY NoTag DEF Snapshot, Says

LEMMA WholeTrue ==
    ASSUME NEW v, NEW reply \in Whole(v)
    PROVE  Says(Snapshot(reply), v)
<1>1. reply.status = 200 /\ reply.length \in Lengths(Size[v]) /\ reply.etag \in {NoRaw, etag[v]}
  BY Answered DEF Whole
<1>2. TotalLength(reply) \in {None, Size[v]}
  BY <1>1, Total200, LengthTrue
<1> QED BY <1>1, <1>2, SnapshotTrue

LEMMA FirstByteTrue ==
    ASSUME NEW v, NEW reply \in FirstByte(v)
    PROVE  Says(Snapshot(reply), v)
<1> DEFINE parts ==
        [unit : {"bytes", "", "items"}, first : {0}, last : {0}, total : {Size[v], None}]
<1>1. ASSUME NEW r \in parts PROVE r.total \in {None, Size[v]}
  BY <1>1
<1>2. FirstByte(v) = IF Size[v] = 0 THEN {} ELSE Answers(v, 206, {<<1>>}, parts \cup {NoRange})
  BY Zenon DEF FirstByte
<1> HIDE DEF parts
<1>3. reply \in Answers(v, 206, {<<1>>}, parts \cup {NoRange})
  BY <1>2
<1>4. reply.status = 206 /\ reply.range \in parts \cup {NoRange} /\ reply.etag \in {NoRaw, etag[v]}
  BY <1>3, Answered
<1>5. NoRange.total = None
  BY DEF NoRange
<1>6. TotalLength(reply) \in {None, Size[v]}
  BY <1>1, <1>4, <1>5, Total206
<1> QED BY <1>4, <1>6, SnapshotTrue

LEMMA NotSatisfiableTrue ==
    ASSUME NEW v, NEW reply \in NotSatisfiable(v)
    PROVE  Says(Snapshot(reply), v)
<1> DEFINE ranges ==
        {[unit |-> "bytes", first |-> None, last |-> None, total |-> Size[v]], NoRange}
<1>1. reply \in Answers(v, 416, {<<>>}, ranges)
  BY DEF NotSatisfiable
<1>2. reply.status = 416 /\ reply.range \in ranges /\ reply.etag \in {NoRaw, etag[v]}
  <2> HIDE DEF ranges
  <2> QED BY <1>1, Answered
<1>3. ASSUME NEW r \in ranges PROVE r.total \in {None, Size[v]}
  <2>1. CASE r = NoRange
    BY <2>1 DEF NoRange
  <2>2. CASE r # NoRange
    <3>1. r = [unit |-> "bytes", first |-> None, last |-> None, total |-> Size[v]]
      BY <1>3, <2>2
    <3> QED BY <3>1
  <2> QED BY <2>1, <2>2
<1> HIDE DEF ranges
<1>4. TotalLength(reply) \in {None, Size[v]}
  BY <1>2, <1>3, Total416
<1> QED BY <1>2, <1>4, SnapshotTrue

LEMMA OtherTrue ==
    ASSUME NEW v, NEW reply \in Error(v) \cup Redirect(v)
    PROVE  Says(Snapshot(reply), v)
<1>1. reply.status \in {302, 503} /\ reply.etag \in {NoRaw, etag[v]}
  BY Answered DEF Error, Redirect
<1>2. TotalLength(reply) \in {None, Size[v]}
  BY <1>1, TotalOther
<1> QED BY <1>1, <1>2, SnapshotTrue

LEMMA RepliesTrue ==
    ASSUME NEW reply \in HeadReplies \cup GetReplies
    PROVE  Says(Snapshot(reply), version)
BY WholeTrue, FirstByteTrue, NotSatisfiableTrue, OtherTrue DEF HeadReplies, GetReplies

LEMMA MergeTrue ==
    ASSUME NEW v, NEW primary, NEW secondary, Says(primary, v), Says(secondary, v)
    PROVE  Says(MergeSnapshots(primary, secondary), v)
BY DEF Says, MergeSnapshots

-----------------------------------------------------------------------------
(* An attempt that told nothing tells nothing false.                       *)
LEMMA SilenceTrue ==
    ASSUME NEW v
    PROVE  Says(NoSnap, v)
BY DEF Says, NoSnap

LEMMA InitInv == Init => IInv
BY ExchangeAssumption DEF Init, IInv, Probed, ProbeTruthful

LEMMA HeadInv ==
    ASSUME IInv, NEW reply \in HeadReplies, HeadRequest(reply)
    PROVE  IInv'
<1>1. /\ answered' = {version} /\ version' = version /\ etag' = etag
      /\ version \in Version /\ pc = "probe" /\ result = NoSnap
  BY DEF HeadRequest, origin, IInv, Probed
<1>2. Says(Snapshot(reply), version)'  <=> Says(Snapshot(reply), version)
  BY <1>1 DEF Says, Snapshot, TotalLength
<1>3. Says(Snapshot(reply), version) /\ Says(NoSnap, version)
  BY RepliesTrue, SilenceTrue
<1>4. CASE Ends /\ result' = Snapshot(reply)
  BY <1>1, <1>3, <1>4 DEF IInv, Probed, ProbeTruthful, Ends, Says
<1>5. CASE /\ pc' = "ranged" /\ result' = result
           /\ snap' \in {Snapshot(reply), NoSnap}
  BY <1>1, <1>3, <1>5 DEF IInv, Probed, ProbeTruthful, Says
<1> QED BY <1>4, <1>5 DEF HeadRequest

LEMMA RangedInv ==
    ASSUME IInv, NEW reply \in GetReplies, RangedGet(reply)
    PROVE  IInv'
<1>1. PICK v \in Version : answered = {v} /\ Says(snap, v)
  BY DEF IInv, Probed, RangedGet
<1>2. /\ answered' = {v, version} /\ version' = version /\ etag' = etag
      /\ version \in Version /\ pc' = "idle"
  BY <1>1 DEF RangedGet, Ends, origin, IInv, Probed
<1>3. result' \in {NoSnap, Snapshot(reply), MergeSnapshots(snap, Snapshot(reply))}
  BY DEF RangedGet
<1>4. ASSUME NEW w \in answered', answered' = {w} PROVE Says(result', w)
  <2>1. w = v /\ w = version
    BY <1>2, <1>4
  <2>2. Says(Snapshot(reply), w) /\ Says(snap, w) /\ Says(NoSnap, w)
    BY <1>1, <2>1, RepliesTrue, SilenceTrue
  <2>3. Says(MergeSnapshots(snap, Snapshot(reply)), w)
    BY <2>2, MergeTrue
  <2> QED BY <1>3, <2>2, <2>3
<1>5. ProbeTruthful'
  BY <1>2, <1>4 DEF ProbeTruthful, Says
<1> QED BY <1>2, <1>5 DEF IInv, Probed

LEMMA StepInv == IInv /\ [Next]_vars => IInv'
<1> SUFFICES ASSUME IInv, [Next]_vars PROVE IInv'
  OBVIOUS
<1>1. ASSUME NEW c \in {"probe", "haul"}, NEW u \in UserHeaders, Call(c, u) PROVE IInv'
  BY <1>1 DEF Call, origin, IInv, Probed, ProbeTruthful
<1>2. CASE ProbeFails
  BY <1>2 DEF ProbeFails, Ends, origin, IInv, Probed, ProbeTruthful
<1>3. CASE Request
  BY <1>3 DEF Request, origin, IInv, Probed, ProbeTruthful
<1>4. ASSUME NEW raw, NEW whole, Accepted(raw, whole) PROVE IInv'
  BY <1>4 DEF Accepted, Ends, origin, IInv, Probed, ProbeTruthful
<1>5. CASE Forgotten
  BY <1>5 DEF Forgotten, Ends, origin, IInv, Probed, ProbeTruthful
<1>6. CASE HaulFails
  BY <1>6 DEF HaulFails, Ends, origin, IInv, Probed, ProbeTruthful
<1>7. CASE Replace
  BY <1>7 DEF Replace, origin, IInv, Probed, ProbeTruthful, Says
<1>8. CASE UNCHANGED vars
  BY <1>8 DEF vars, origin, IInv, Probed, ProbeTruthful, Says
<1> QED
  BY <1>1, <1>2, <1>3, <1>4, <1>5, <1>6, <1>7, <1>8, HeadInv, RangedInv
  DEF Next, Probing, Hauling

(* What a probe of a resource that nobody replaced meanwhile tells of its  *)
(* length and its ETag (_merge_snapshots, _total_length) is true or        *)
(* missing, for resources of every size, every set of versions and ETags,  *)
(* whatever fields the answers leave out, repeat or spoil.                 *)
THEOREM ProbeTrue == Spec => []ProbeTruthful
<1>1. IInv => ProbeTruthful
  BY DEF IInv
<1> QED BY <1>1, InitInv, StepInv, PTL DEF Spec

-----------------------------------------------------------------------------
(* Headers.                                                                *)

(* Fields, whoever wrote them.  Pyhaul's own names are strings too, but    *)
(* the provers cannot tell of a literal that it is one.                    *)
Pair ==
    [name : STRING \cup Structural \cup {"cache-control"}, padded : BOOLEAN, as : Nat,
     value : Value]

(* Pyhaul puts no blanks around a name.                                    *)
Own == {f \in Pair : ~f.padded}

(* A field stands in a mapping; a name stands there at most once; all that *)
(* stands there under a name has the value v; a name stands there without  *)
(* blanks only.                                                            *)
Has(h, f) == \E i \in DOMAIN h : h[i] = f
Once(h, n) == \A i, j \in Named(h, n) : i = j
Shows(h, n, v) == Named(h, n) # {} /\ \A i \in Named(h, n) : h[i].value = v
Plain(h, n) == Carried(h, n) = Named(h, n)

(* Under the name n the two mappings hold the same.                        *)
Same(h, g, n) ==
    /\ Once(h, n) => Once(g, n)
    /\ \A f \in Pair : f.name = n => (Has(h, f) <=> Has(g, f))

LEMMA MinIn ==
    ASSUME NEW S \in SUBSET Nat, S # {}
    PROVE  Min(S) \in S
<1> DEFINE R == {ss \in Nat \X Nat : ss[1] < ss[2]}
<1>2. IsWellFoundedOn(R, Nat)
  BY NatLessThanWellFounded DEF OpToRel
<1>3. PICK n \in S : \A k \in S : ~(<<k, n>> \in R)
  <2> HIDE DEF R
  <2> QED BY <1>2, WFMin
<1>4. ASSUME NEW k \in S PROVE n <= k
  <2>1. k \in Nat /\ n \in Nat
    OBVIOUS
  <2>2. <<k, n>> \in Nat \X Nat /\ <<k, n>>[1] = k /\ <<k, n>>[2] = n
    BY <2>1
  <2>3. ~(k < n)
    BY <1>3, <2>2
  <2> QED BY <2>1, <2>3
<1> QED BY <1>4 DEF Min

LEMMA RemoveAtFacts ==
    ASSUME NEW S, NEW h \in Seq(S), NEW k \in 1 .. Len(h)
    PROVE  /\ RemoveAt(h, k) \in Seq(S) /\ Len(RemoveAt(h, k)) = Len(h) - 1
           /\ \A i \in 1 .. (k - 1) : RemoveAt(h, k)[i] = h[i]
           /\ \A i \in k .. (Len(h) - 1) : RemoveAt(h, k)[i] = h[i + 1]
<1> DEFINE a == SubSeq(h, 1, k - 1)
           b == SubSeq(h, k + 1, Len(h))
<1>1. a \in Seq(S) /\ Len(a) = k - 1 /\ \A i \in 1 .. (k - 1) : a[i] = h[i]
  OBVIOUS
<1>2. b \in Seq(S) /\ Len(b) = Len(h) - k
  OBVIOUS
<1>3. \A i \in 1 .. (Len(h) - k) : b[i] = h[i + k]
  OBVIOUS
<1>4. RemoveAt(h, k) = a \o b
  BY DEF RemoveAt
<1> HIDE DEF a, b
<1>5. RemoveAt(h, k) \in Seq(S) /\ Len(RemoveAt(h, k)) = Len(h) - 1
  <2>1. Len(a \o b) = Len(a) + Len(b) /\ a \o b \in Seq(S)
    BY <1>1, <1>2
  <2>2. Len(h) \in Nat /\ k \in Nat
    OBVIOUS
  <2>3. (k - 1) + (Len(h) - k) = Len(h) - 1
    BY <2>2
  <2> QED BY <1>1, <1>2, <1>4, <2>1, <2>3, Zenon
<1>6. ASSUME NEW i \in 1 .. (k - 1) PROVE RemoveAt(h, k)[i] = h[i]
  <2>1. i \in Nat /\ 1 <= i /\ i <= k - 1
    OBVIOUS
  <2>2. (a \o b)[i] = a[i]
    BY <1>1, <1>2, <2>1
  <2> QED BY <1>1, <1>4, <2>2
<1>7. ASSUME NEW i \in k .. (Len(h) - 1) PROVE RemoveAt(h, k)[i] = h[i + 1]
  <2>1. i - (k - 1) \in 1 .. (Len(h) - k) /\ i \in Nat /\ i > k - 1 /\ i <= (k - 1) + (Len(h) - k)
    OBVIOUS
  <2>2. (a \o b)[i] = b[i - (k - 1)]
    BY <1>1, <1>2, <2>1
  <2>3. b[i - (k - 1)] = h[(i - (k - 1)) + k]
    BY <1>3, <2>1
  <2>4. (i - (k - 1)) + k = i + 1
    BY <2>1
  <2> QED BY <1>4, <2>2, <2>3, <2>4
<1> QED BY <1>5, <1>6, <1>7

LEMMA PopFacts ==
    ASSUME NEW h \in Seq(Pair), NEW m, NEW as
    PROVE  /\ Pop(h, m, as) \in Seq(Pair)
           /\ \A n : n # m => Same(h, Pop(h, m, as), n)
           /\ \A n : Plain(h, n) => Plain(Pop(h, m, as), n)
           /\ \A i \in Named(h, m) : Once(h, m) /\ h[i].as = as => Named(Pop(h, m, as), m) = {}
<1>1. CASE Key(h, m, as) = {}
  <2>1. Pop(h, m, as) = h
    BY <1>1 DEF Pop
  <2> QED BY <1>1, <2>1 DEF Same, Key
<1>2. CASE Key(h, m, as) # {}
  <2> DEFINE g == Pop(h, m, as)
  <2>1. PICK k \in Key(h, m, as) : g = RemoveAt(h, k)
    BY <1>2 DEF Pop
  <2>2. k \in 1 .. Len(h) /\ h[k].name = m /\ ~h[k].padded
    BY <2>1 DEF Key, Named
  <2>3. /\ g \in Seq(Pair) /\ Len(g) = Len(h) - 1
        /\ \A i \in 1 .. (k - 1) : g[i] = h[i]
        /\ \A i \in k .. (Len(h) - 1) : g[i] = h[i + 1]
    BY <2>1, <2>2, RemoveAtFacts
  <2> HIDE DEF g
  <2>4. DOMAIN g = 1 .. (Len(h) - 1) /\ DOMAIN h = 1 .. Len(h) /\ Len(h) \in Nat
    BY <2>3
  <2>5. ASSUME NEW i \in DOMAIN g
        PROVE  \E j \in DOMAIN h : j # k /\ g[i] = h[j] /\ j = IF i < k THEN i ELSE i + 1
    BY <2>2, <2>3, <2>4, <2>5
  <2>6. ASSUME NEW j \in DOMAIN h, j # k
        PROVE  \E i \in DOMAIN g : g[i] = h[j] /\ i = IF j < k THEN j ELSE j - 1
    <3>1. CASE j < k
      BY <2>2, <2>3, <2>4, <3>1
    <3>2. CASE j > k
      <4>1. j - 1 \in k .. (Len(h) - 1) /\ j - 1 \in DOMAIN g /\ (j - 1) + 1 = j
        BY <2>2, <2>4, <3>2
      <4> QED BY <2>2, <2>3, <2>4, <3>2, <4>1
    <3> QED BY <2>2, <2>4, <2>6, <3>1, <3>2
  <2>7. ASSUME NEW n, n # m PROVE Same(h, g, n)
    <3>1. ASSUME Once(h, n), NEW i \in Named(g, n), NEW j \in Named(g, n) PROVE i = j
      <4>1. PICK p \in DOMAIN h : g[i] = h[p] /\ p = IF i < k THEN i ELSE i + 1
        BY <2>5 DEF Named
      <4>2. PICK q \in DOMAIN h : g[j] = h[q] /\ q = IF j < k THEN j ELSE j + 1
        BY <2>5 DEF Named
      <4>3. p = q
        BY <3>1, <4>1, <4>2 DEF Once, Named
      <4> QED BY <2>2, <2>4, <4>1, <4>2, <4>3 DEF Named
    <3>2. ASSUME NEW f \in Pair, f.name = n PROVE Has(h, f) <=> Has(g, f)
      BY <2>2, <2>5, <2>6, <2>7, <3>2 DEF Has
    <3> QED BY <3>1, <3>2 DEF Same, Once
  <2>8. ASSUME NEW i \in Named(h, m), Once(h, m) PROVE Named(g, m) = {}
    <3>1. i = k
      BY <2>2, <2>4, <2>8 DEF Once, Named
    <3> QED BY <2>2, <2>4, <2>5, <2>8, <3>1 DEF Once, Named
  <2>9. ASSUME NEW n, Plain(h, n) PROVE Plain(g, n)
    BY <2>5, <2>9 DEF Plain, Carried, Named
  <2> QED BY <2>3, <2>7, <2>8, <2>9 DEF g
<1> QED BY <1>1, <1>2

LEMMA PutFacts ==
    ASSUME NEW h \in Seq(Pair), NEW f \in Own
    PROVE  /\ Put(h, f) \in Seq(Pair)
           /\ \A n : n # f.name => Same(h, Put(h, f), n)
           /\ \A n : Plain(h, n) => Plain(Put(h, f), n)
           /\ Named(h, f.name) = {} => Shows(Put(h, f), f.name, f.value)
<1> DEFINE key == Key(h, f.name, f.as)
           g == Put(h, f)
<1>0. f \in Pair /\ ~f.padded
  BY DEF Own
<1>1. CASE key = {}
  <2>1. g = Append(h, f)
    BY <1>1 DEF Put
  <2>2. /\ g \in Seq(Pair) /\ DOMAIN g = 1 .. (Len(h) + 1)
        /\ DOMAIN h = 1 .. Len(h) /\ Len(h) \in Nat
        /\ g[Len(h) + 1] = f /\ \A i \in DOMAIN h : g[i] = h[i]
    BY <1>0, <2>1
  <2> HIDE DEF g
  <2>3. ASSUME NEW n, n # f.name PROVE Named(g, n) = Named(h, n)
    BY <2>2, <2>3 DEF Named
  <2>4. ASSUME NEW n, n # f.name PROVE Same(h, g, n)
    <3>1. ASSUME NEW e \in Pair, e.name = n PROVE Has(h, e) <=> Has(g, e)
      BY <2>2, <2>4, <3>1 DEF Has
    <3> QED BY <2>3, <2>4, <3>1 DEF Same, Once
  <2>5. ASSUME Named(h, f.name) = {} PROVE Shows(g, f.name, f.value)
    BY <1>0, <2>2, <2>5 DEF Shows, Named
  <2>6. ASSUME NEW n, Plain(h, n) PROVE Plain(g, n)
    BY <1>0, <2>2, <2>6 DEF Plain, Carried, Named
  <2> QED BY <2>2, <2>4, <2>5, <2>6 DEF g
<1>2. CASE key # {}
  <2>1. g = [i \in DOMAIN h |-> IF i \in key THEN f ELSE h[i]]
    BY <1>2 DEF Put
  <2>2. /\ DOMAIN h = 1 .. Len(h) /\ Len(h) \in Nat /\ DOMAIN g = DOMAIN h
        /\ \A i \in DOMAIN h : g[i] = IF i \in key THEN f ELSE h[i]
    BY <2>1
  <2>3. g \in Seq(Pair)
    <3>1. g \in [1 .. Len(h) -> Pair]
      BY <1>0, <2>1, <2>2
    <3> QED BY <2>2, <3>1
  <2>4. \A i \in key : i \in DOMAIN h /\ h[i].name = f.name
    BY DEF Key, Named
  <2> HIDE DEF g, key
  <2>5. ASSUME NEW n, n # f.name PROVE Same(h, g, n)
    <3>1. Named(g, n) = Named(h, n)
      BY <2>2, <2>4, <2>5 DEF Named
    <3>2. ASSUME NEW e \in Pair, e.name = n PROVE Has(h, e) <=> Has(g, e)
      BY <2>2, <2>4, <2>5, <3>2 DEF Has
    <3> QED BY <3>1, <3>2 DEF Same, Once
  <2>6. Named(h, f.name) # {}
    BY <1>2 DEF Key, key
  <2>7. ASSUME NEW n, Plain(h, n) PROVE Plain(g, n)
    BY <1>0, <2>2, <2>7 DEF Plain, Carried, Named
  <2> QED BY <2>3, <2>5, <2>6, <2>7 DEF g
<1> QED BY <1>1, <1>2

(* merge_headers, one of pyhaul's fields at a time: a field of another     *)
(* name is left alone, and a structural one is what pyhaul says, unless    *)
(* the caller spells its name in two ways.                                 *)
LEMMA MergeOneFacts ==
    ASSUME NEW u \in Seq(Pair), NEW h \in Seq(Pair), NEW f \in Own
    PROVE  /\ MergeOne(u, h, f) \in Seq(Pair)
           /\ \A n : n # f.name => Same(h, MergeOne(u, h, f), n)
           /\ \A n : Plain(h, n) => Plain(MergeOne(u, h, f), n)
           /\ f.name \in Structural /\ Same(u, h, f.name) /\ Once(u, f.name)
                => Shows(MergeOne(u, h, f), f.name, f.value)
<1> DEFINE n == f.name
           g == WithoutLast(h, u, n)
<1>0. \A m : Same(h, h, m)
  BY DEF Same
<1>1. /\ g \in Seq(Pair) /\ \A m : m # n => Same(h, g, m)
      /\ \A m : Plain(h, m) => Plain(g, m)
  BY <1>0, PopFacts DEF WithoutLast
<1>2. MergeOne(u, h, f) \in {h, Put(h, f), Put(g, f)}
  BY Zenon DEF MergeOne
<1>3. ASSUME NEW m, m # n, Same(h, g, m), Same(g, Put(g, f), m) PROVE Same(h, Put(g, f), m)
  BY <1>3 DEF Same
<1>4. ASSUME n \in Structural, Same(u, h, n), Once(u, n)
      PROVE  Shows(MergeOne(u, h, f), n, f.value)
  <2>1. MergeOne(u, h, f) = Put(g, f)
    BY <1>4, Zenon DEF MergeOne
  <2>2. Named(g, n) = {}
    <3>1. CASE Named(u, n) = {}
      <4>1. Named(h, n) = {}
        <5> SUFFICES ASSUME NEW i \in Named(h, n) PROVE FALSE
          OBVIOUS
        <5>1. Has(h, h[i]) /\ h[i] \in Pair /\ h[i].name = n
          BY DEF Has, Named
        <5>2. Has(u, h[i])
          BY <1>4, <5>1 DEF Same
        <5> QED BY <3>1, <5>1, <5>2 DEF Has, Named
      <4> QED BY <3>1, <4>1 DEF WithoutLast
    <3>2. CASE Named(u, n) # {}
      <4>1. PICK j \in Named(u, n) : Named(u, n) = {j}
        BY <1>4, <3>2 DEF Once
      <4>2. j \in DOMAIN u /\ u[j] \in Pair /\ u[j].name = n /\ j \in Nat
        BY DEF Named
      <4>3. Max(Named(u, n)) = j
        BY <4>1, <4>2 DEF Max
      <4>4. Has(h, u[j])
        BY <1>4, <4>2 DEF Same, Has
      <4>5. PICK i \in DOMAIN h : h[i] = u[j]
        BY <4>4 DEF Has
      <4>6. i \in Named(h, n) /\ h[i].as = u[j].as /\ Once(h, n)
        BY <1>4, <4>2, <4>5 DEF Named, Same
      <4>7. g = Pop(h, n, u[j].as)
        BY <3>2, <4>3 DEF WithoutLast
      <4> QED BY <4>6, <4>7, PopFacts
    <3> QED BY <3>1, <3>2
  <2> QED BY <1>1, <2>1, <2>2, PutFacts
<1> HIDE DEF g
<1>5. Put(g, f) \in Seq(Pair) /\ Put(h, f) \in Seq(Pair)
      /\ \A m : m # n => Same(g, Put(g, f), m) /\ Same(h, Put(h, f), m)
  BY <1>1, PutFacts
<1>6. \A m : m # n => Same(h, MergeOne(u, h, f), m)
  BY <1>0, <1>1, <1>2, <1>3, <1>5
<1>7. \A m : Plain(h, m) => Plain(MergeOne(u, h, f), m)
  <2>1. \A m : Plain(h, m) => Plain(Put(h, f), m) /\ Plain(Put(g, f), m)
    BY <1>1, PutFacts
  <2> QED BY <1>2, <2>1
<1> QED BY <1>1, <1>2, <1>4, <1>5, <1>6, <1>7

(* What is shown under a name is shown under it in whatever is the same.   *)
LEMMA SameShows ==
    ASSUME NEW h \in Seq(Pair), NEW g \in Seq(Pair), NEW n, NEW v, Same(h, g, n), Shows(h, n, v)
    PROVE  Shows(g, n, v)
<1>1. PICK i \in Named(h, n) : TRUE
  BY DEF Shows
<1>2. h[i] \in Pair /\ h[i].name = n /\ Has(h, h[i])
  BY DEF Named, Has
<1>3. Has(g, h[i])
  BY <1>2 DEF Same
<1>4. Named(g, n) # {}
  BY <1>2, <1>3 DEF Has, Named
<1>5. ASSUME NEW j \in Named(g, n) PROVE g[j].value = v
  <2>1. g[j] \in Pair /\ g[j].name = n /\ Has(g, g[j])
    BY DEF Named, Has
  <2>2. Has(h, g[j])
    BY <2>1 DEF Same
  <2> QED BY <2>1, <2>2 DEF Shows, Has, Named
<1> QED BY <1>4, <1>5 DEF Shows

LEMMA SameTrans ==
    ASSUME NEW f, NEW g, NEW h, NEW n, Same(f, g, n), Same(g, h, n)
    PROVE  Same(f, h, n)
BY DEF Same

(* The loop of merge_headers, unfolded over at most four fields.           *)
LEMMA MergeUnfold ==
    ASSUME NEW u, NEW p \in Seq(Own), Len(p) \in 2 .. 4
    PROVE  LET m1 == MergeOne(u, u, p[1])
               m2 == MergeOne(u, m1, p[2])
               m3 == MergeOne(u, m2, p[3])
               m4 == MergeOne(u, m3, p[4])
           IN  Merge(u, p) = IF Len(p) = 2 THEN m2 ELSE IF Len(p) = 3 THEN m3 ELSE m4
<1> DEFINE m1 == MergeOne(u, u, p[1])
           m2 == MergeOne(u, m1, p[2])
           m3 == MergeOne(u, m2, p[3])
           m4 == MergeOne(u, m3, p[4])
           D == 0 .. Len(p)
           F(g) == [i \in D |-> IF i = 0 THEN u ELSE MergeOne(u, g[i - 1], p[i])]
           e == [i \in D |-> IF i = 0 THEN u ELSE IF i = 1 THEN m1 ELSE IF i = 2 THEN m2
                             ELSE IF i = 3 THEN m3 ELSE m4]
           merged == CHOOSE g : g = F(g)
<1>0. Len(p) = 2 \/ Len(p) = 3 \/ Len(p) = 4
  OBVIOUS
<1>1. e = F(e)
  <2>1. ASSUME NEW i \in D PROVE e[i] = IF i = 0 THEN u ELSE MergeOne(u, e[i - 1], p[i])
    <3>1. i \in {0, 1, 2, 3, 4}
      <4>1. CASE Len(p) = 2
        BY <4>1
      <4>2. CASE Len(p) = 3
        BY <4>2
      <4>3. CASE Len(p) = 4
        BY <4>3
      <4> HIDE DEF D
      <4> QED BY <1>0, <4>1, <4>2, <4>3
    <3>2. CASE i = 0
      BY <3>2
    <3>3. CASE i = 1
      <4>1. e[1] = m1 /\ e[0] = u /\ i - 1 = 0
        BY <3>3
      <4> QED BY <3>3, <4>1
    <3>4. CASE i = 2
      <4> HIDE DEF m1
      <4>1. e[2] = m2 /\ e[1] = m1 /\ i - 1 = 1
        BY <3>4
      <4> QED BY <3>4, <4>1
    <3>5. CASE i = 3
      <4> HIDE DEF m1, m2
      <4>1. e[3] = m3 /\ e[2] = m2 /\ i - 1 = 2
        BY <3>5
      <4> QED BY <3>5, <4>1
    <3>6. CASE i = 4
      <4> HIDE DEF m1, m2, m3
      <4>1. e[4] = m4 /\ e[3] = m3 /\ i - 1 = 3
        BY <3>6
      <4> QED BY <3>6, <4>1
    <3> QED BY <3>1, <3>2, <3>3, <3>4, <3>5, <3>6
  <2> HIDE DEF m1, m2, m3, m4
  <2> QED BY <2>1
<1>2. merged = F(merged)
  <2> HIDE DEF e, F
  <2> QED BY <1>1
<1>3. Merge(u, p) = merged[Len(p)]
  BY Zenon DEF Merge
<1> HIDE DEF merged
<1>4. \A i \in D : merged[i] = IF i = 0 THEN u ELSE MergeOne(u, merged[i - 1], p[i])
  BY <1>2
<1>5. merged[0] = u /\ merged[1] = m1 /\ merged[2] = MergeOne(u, merged[1], p[2])
  BY <1>4
<1>6. merged[2] = m2
  BY <1>5
<1>7. Len(p) \in 3 .. 4 => merged[3] = m3
  <2> HIDE DEF m2
  <2> QED BY <1>4, <1>6
<1>8. Len(p) = 4 => merged[4] = m4
  <2> HIDE DEF m2, m3
  <2> QED BY <1>4, <1>7
<1> HIDE DEF m1, m2, m3, m4
<1>9. Merge(u, p) = IF Len(p) = 2 THEN m2 ELSE IF Len(p) = 3 THEN m3 ELSE m4
  <2> HIDE DEF e, F, D
  <2>1. CASE Len(p) = 2
    BY <1>3, <1>6, <2>1
  <2>2. CASE Len(p) = 3
    BY <1>3, <1>7, <2>2
  <2>3. CASE Len(p) = 4
    BY <1>3, <1>8, <2>3
  <2> QED BY <1>0, <2>1, <2>2, <2>3
<1> QED BY <1>9 DEF m1, m2, m3, m4

(* merge_headers, all of pyhaul's fields.                                  *)
LEMMA MergeFacts ==
    ASSUME NEW u \in Seq(Pair), NEW p \in Seq(Own), Len(p) \in 2 .. 4
    PROVE  /\ Merge(u, p) \in Seq(Pair)
           /\ \A n : Plain(u, n) => Plain(Merge(u, p), n)
           /\ \A n : (\A j \in 1 .. Len(p) : p[j].name # n) => Same(u, Merge(u, p), n)
           /\ \A k \in 1 .. Len(p) :
                  /\ p[k].name \in Structural /\ Once(u, p[k].name)
                  /\ \A j \in 1 .. Len(p) : p[j].name = p[k].name => j = k
                  => Shows(Merge(u, p), p[k].name, p[k].value)
<1> DEFINE m1 == MergeOne(u, u, p[1])
           m2 == MergeOne(u, m1, p[2])
           m3 == MergeOne(u, m2, p[3])
           m4 == MergeOne(u, m3, p[4])
<1>1. Merge(u, p) = IF Len(p) = 2 THEN m2 ELSE IF Len(p) = 3 THEN m3 ELSE m4
  BY MergeUnfold, Zenon
<1>2. p[1] \in Own /\ p[2] \in Own /\ (Len(p) \in 3 .. 4 => p[3] \in Own)
      /\ (Len(p) = 4 => p[4] \in Own)
  OBVIOUS
<1>3. ASSUME NEW h \in Seq(Pair), NEW n, Same(u, h, n), NEW f \in Own, f.name # n
      PROVE  Same(u, MergeOne(u, h, f), n)
  BY <1>3, MergeOneFacts, SameTrans
<1>4. ASSUME NEW h \in Seq(Pair), NEW n, NEW v, Shows(h, n, v), NEW f \in Own, f.name # n
      PROVE  Shows(MergeOne(u, h, f), n, v)
  BY <1>4, MergeOneFacts, SameShows
<1>5. ASSUME NEW h \in Seq(Pair), NEW f \in Own, f.name \in Structural, Same(u, h, f.name),
             Once(u, f.name)
      PROVE  Shows(MergeOne(u, h, f), f.name, f.value)
  BY <1>5, MergeOneFacts
<1>6. m1 \in Seq(Pair)
  BY <1>2, MergeOneFacts
<1>7. m2 \in Seq(Pair)
  <2> HIDE DEF m1
  <2> QED BY <1>2, <1>6, MergeOneFacts
<1>8. Len(p) \in 3 .. 4 => m3 \in Seq(Pair)
  <2> HIDE DEF m2
  <2> QED BY <1>2, <1>7, MergeOneFacts
<1>9. Len(p) = 4 => m4 \in Seq(Pair)
  <2> HIDE DEF m3
  <2> QED BY <1>2, <1>8, MergeOneFacts
<1>10. \A n : Same(u, u, n)
  BY DEF Same
<1>11. ASSUME NEW n, \A j \in 1 .. Len(p) : p[j].name # n PROVE Same(u, Merge(u, p), n)
  <2>1. Same(u, m1, n)
    BY <1>2, <1>3, <1>10, <1>11
  <2>2. Same(u, m2, n)
    <3> HIDE DEF m1
    <3> QED BY <1>2, <1>3, <1>6, <1>11, <2>1
  <2>3. Len(p) \in 3 .. 4 => Same(u, m3, n)
    <3> HIDE DEF m2
    <3> QED BY <1>2, <1>3, <1>7, <1>11, <2>2
  <2>4. Len(p) = 4 => Same(u, m4, n)
    <3> HIDE DEF m3
    <3> QED BY <1>2, <1>3, <1>8, <1>11, <2>3
  <2> HIDE DEF m2, m3, m4
  <2> QED BY <1>1, <2>2, <2>3, <2>4
<1>12. ASSUME NEW k \in 1 .. Len(p), p[k].name \in Structural, Once(u, p[k].name),
              \A j \in 1 .. Len(p) : p[j].name = p[k].name => j = k
       PROVE  Shows(Merge(u, p), p[k].name, p[k].value)
  <2> DEFINE n == p[k].name
             v == p[k].value
  <2>0. \A j \in 1 .. Len(p) : j # k => p[j].name # n
    BY <1>12
  <2>1. IF k = 1 THEN Shows(m1, n, v) ELSE Same(u, m1, n)
    <3> HIDE DEF n, v
    <3>1. CASE k = 1
      BY <1>2, <1>5, <1>10, <1>12, <3>1 DEF n, v
    <3>2. CASE k # 1
      BY <1>2, <1>3, <1>10, <2>0, <3>2
    <3> QED BY <3>1, <3>2
  <2>2. IF k \in 1 .. 2 THEN Shows(m2, n, v) ELSE Same(u, m2, n)
    <3> HIDE DEF m1
    <3>1. CASE k = 1
      BY <1>2, <1>4, <1>6, <2>0, <2>1, <3>1
    <3>2. CASE k = 2
      BY <1>2, <1>5, <1>6, <1>12, <2>1, <3>2
    <3>3. CASE k \notin {1, 2}
      BY <1>2, <1>3, <1>6, <2>0, <2>1, <3>3
    <3> QED BY <3>1, <3>2, <3>3
  <2>3. Len(p) \in 3 .. 4 => IF k \in 1 .. 3 THEN Shows(m3, n, v) ELSE Same(u, m3, n)
    <3> HIDE DEF m2
    <3>1. CASE Len(p) \in 3 .. 4 /\ k \in {1, 2}
      BY <1>2, <1>4, <1>7, <2>0, <2>2, <3>1
    <3>2. CASE Len(p) \in 3 .. 4 /\ k = 3
      BY <1>2, <1>5, <1>7, <1>12, <2>2, <3>2
    <3>3. CASE Len(p) \in 3 .. 4 /\ k \notin {1, 2, 3}
      BY <1>2, <1>3, <1>7, <2>0, <2>2, <3>3
    <3> QED BY <3>1, <3>2, <3>3
  <2>4. Len(p) = 4 => Shows(m4, n, v)
    <3> HIDE DEF m3
    <3>1. CASE Len(p) = 4 /\ k \in {1, 2, 3}
      BY <1>2, <1>4, <1>8, <2>0, <2>3, <3>1
    <3>2. CASE Len(p) = 4 /\ k = 4
      BY <1>2, <1>5, <1>8, <1>12, <2>3, <3>2
    <3> QED BY <3>1, <3>2
  <2> HIDE DEF m2, m3, m4
  <2> QED BY <1>1, <2>2, <2>3, <2>4
<1>13. ASSUME NEW n, Plain(u, n) PROVE Plain(Merge(u, p), n)
  <2>0. ASSUME NEW h \in Seq(Pair), Plain(h, n), NEW f \in Own PROVE Plain(MergeOne(u, h, f), n)
    BY <2>0, MergeOneFacts
  <2>1. Plain(m1, n)
    BY <1>2, <1>13, <2>0
  <2>2. Plain(m2, n)
    <3> HIDE DEF m1
    <3> QED BY <1>2, <1>6, <2>0, <2>1
  <2>3. Len(p) \in 3 .. 4 => Plain(m3, n)
    <3> HIDE DEF m2
    <3> QED BY <1>2, <1>7, <2>0, <2>2
  <2>4. Len(p) = 4 => Plain(m4, n)
    <3> HIDE DEF m3
    <3> QED BY <1>2, <1>8, <2>0, <2>3
  <2> HIDE DEF m2, m3, m4
  <2> QED BY <1>1, <2>2, <2>3, <2>4
<1> HIDE DEF m2, m3, m4
<1> QED BY <1>1, <1>7, <1>8, <1>9, <1>11, <1>12, <1>13

-----------------------------------------------------------------------------
(* What is on the wire under a name is what a field of that name says.     *)
LEMMA WireFrom ==
    ASSUME NEW h \in Seq(Pair), NEW n \in Structural \cup {"cache-control"}
    PROVE  IF Carried(h, n) = {} THEN OnTheWire(h)[n] = Nothing
           ELSE \E i \in Carried(h, n) : OnTheWire(h)[n] = h[i].value
<1>1. Carried(h, n) \in SUBSET Nat
  BY DEF Carried
<1>2. OnTheWire(h)[n] = IF Carried(h, n) = {} THEN Nothing ELSE h[Min(Carried(h, n))].value
  BY DEF OnTheWire
<1> QED BY <1>1, <1>2, MinIn

LEMMA WireTyped ==
    ASSUME NEW h \in Seq(Pair)
    PROVE  OnTheWire(h) \in [Structural \cup {"cache-control"} -> Value]
<1>1. ASSUME NEW n \in Structural \cup {"cache-control"} PROVE OnTheWire(h)[n] \in Value
  <2>1. Nothing \in Value
    BY DEF Nothing, Value, NoRaw, RawTag, Opaque
  <2>2. ASSUME NEW i \in Carried(h, n) PROVE h[i].value \in Value
    <3>1. h[i] \in Pair
      BY DEF Carried
    <3> QED BY <3>1 DEF Pair
  <2> QED BY <2>1, <2>2, WireFrom
<1>2. OnTheWire(h) = [n \in Structural \cup {"cache-control"} |-> OnTheWire(h)[n]]
  BY DEF OnTheWire
<1> QED BY <1>1, <1>2

LEMMA WireShows ==
    ASSUME NEW h \in Seq(Pair), NEW n \in Structural, NEW v, Shows(h, n, v), Plain(h, n)
    PROVE  OnTheWire(h)[n] = v
BY WireFrom DEF Shows, Plain

(* Where pyhaul says nothing, a name is the caller's.                      *)
LEMMA WireCallers ==
    ASSUME NEW u \in Seq(UserField), NEW h \in Seq(Pair),
           NEW n \in Structural, Same(u, h, n)
    PROVE  OnTheWire(h)[n].by # "pyhaul"
<1>1. CASE Carried(h, n) = {}
  BY <1>1, WireFrom DEF Nothing
<1>2. CASE Carried(h, n) # {}
  <2>1. PICK i \in Carried(h, n) : OnTheWire(h)[n] = h[i].value
    BY <1>2, WireFrom
  <2>2. Has(h, h[i]) /\ h[i] \in Pair /\ h[i].name = n
    BY DEF Has, Carried
  <2>3. Has(u, h[i])
    BY <2>2 DEF Same
  <2>4. h[i] \in UserField
    BY <2>3 DEF Has
  <2> QED BY <2>1, <2>4 DEF UserField
<1> QED BY <1>1, <1>2

-----------------------------------------------------------------------------
(* Entity tags.                                                            *)

LEMMA ParseTyped ==
    ASSUME NEW raw \in RawTag
    PROVE  ParseTag(raw) \in Tag
BY DEF ParseTag, RawTag, Tag, EmptyTag, Opaque

LEMMA Unparsed ==
    ASSUME NEW tag
    PROVE  /\ tag.kind = "absent" => UnparseTag(tag) = NoRaw
           /\ tag.kind = "wildcard" => UnparseTag(tag) = Wildcard
           /\ tag.kind \in {"strong", "weak"} =>
                  UnparseTag(tag) = [weak |-> tag.kind = "weak", form |-> "quoted",
                                     opaque |-> tag.opaque]
<1>1. CASE tag.kind = "absent"
  BY <1>1, Zenon DEF UnparseTag
<1>2. CASE tag.kind = "wildcard"
  BY <1>2, Zenon DEF UnparseTag
<1>3. CASE tag.kind \in {"strong", "weak"}
  BY <1>3, Zenon DEF UnparseTag
<1> QED BY <1>1, <1>2, <1>3

LEMMA UnparseTyped ==
    ASSUME NEW tag \in Tag
    PROVE  UnparseTag(tag) \in RawTag
<1>1. tag.kind \in {"absent", "wildcard", "strong", "weak"} /\ tag.opaque \in Opaque
  BY DEF Tag
<1>2. NoRaw \in RawTag /\ Wildcard \in RawTag
  BY DEF NoRaw, Wildcard, RawTag, Opaque
<1>3. [weak |-> tag.kind = "weak", form |-> "quoted", opaque |-> tag.opaque] \in RawTag
  <2>1. (tag.kind = "weak") \in BOOLEAN
    OBVIOUS
  <2> QED BY <1>1, <2>1 DEF RawTag
<1> QED BY <1>1, <1>2, <1>3, Unparsed

(* What was parsed is parsed the same after it was serialised.             *)
LEMMA RoundTrip ==
    ASSUME NEW raw \in RawTag
    PROVE  ParseTag(UnparseTag(ParseTag(raw))) = ParseTag(raw)
<1> DEFINE tag == ParseTag(raw)
<1>1. tag \in Tag
  BY ParseTyped
<1>2. CASE tag.kind = "absent"
  BY <1>2, NoTag, Unparsed DEF ParseTag, EmptyTag
<1>3. CASE tag.kind = "wildcard"
  BY <1>3, Unparsed DEF ParseTag, EmptyTag, Wildcard
<1>4. CASE tag.kind \in {"strong", "weak"}
  <2>1. tag = [kind |-> IF raw.weak THEN "weak" ELSE "strong", opaque |-> raw.opaque]
        /\ ~(raw.weak /\ raw.opaque = "")
    BY <1>4 DEF ParseTag, EmptyTag, BareToken
  <2>2. UnparseTag(tag) = [weak |-> tag.kind = "weak", form |-> "quoted", opaque |-> tag.opaque]
    <3> HIDE DEF tag
    <3> QED BY <1>4, Unparsed
  <2>3. (raw.weak <=> tag.kind = "weak") /\ tag.opaque = raw.opaque
    <3>1. raw.weak \in BOOLEAN
      BY DEF RawTag
    <3> HIDE DEF tag
    <3> QED BY <2>1, <3>1
  <2> DEFINE again == [weak |-> tag.kind = "weak", form |-> "quoted", opaque |-> tag.opaque]
  <2> HIDE DEF tag
  <2>4. again.form = "quoted" /\ again.opaque = raw.opaque /\ again # Wildcard
    BY <2>3 DEF Wildcard
  <2>5. again.weak <=> raw.weak
    BY <2>3, Zenon
  <2> HIDE DEF again
  <2>6. ParseTag(again) = [kind |-> IF raw.weak THEN "weak" ELSE "strong", opaque |-> raw.opaque]
    BY <2>1, <2>4, <2>5 DEF ParseTag
  <2> QED BY <2>1, <2>2, <2>6 DEF again, tag
<1> QED BY <1>1, <1>2, <1>3, <1>4 DEF Tag

(* A strong tag in its quoted form comes through unchanged; what else      *)
(* becomes a strong tag is a bare one, or one with a needless escape.      *)
LEMMA StrongTag ==
    ASSUME NEW raw \in RawTag
    PROVE  IF raw.form = "quoted" /\ ~raw.weak
             THEN UsableForRange(ParseTag(raw)) /\ UnparseTag(ParseTag(raw)) = raw
             ELSE UsableForRange(ParseTag(raw)) => raw.form \in {"bare", "escaped"} /\ ~raw.weak
<1>1. CASE raw.form = "quoted" /\ ~raw.weak
  <2>1. ParseTag(raw) = [kind |-> "strong", opaque |-> raw.opaque]
    <3>1. raw # Wildcard
      BY <1>1 DEF Wildcard
    <3> QED BY <1>1, <3>1 DEF ParseTag
  <2>2. raw = [weak |-> FALSE, form |-> "quoted", opaque |-> raw.opaque]
    BY <1>1 DEF RawTag
  <2>3. UnparseTag(ParseTag(raw)) =
            [weak |-> ParseTag(raw).kind = "weak", form |-> "quoted", opaque |-> raw.opaque]
    <3>1. ParseTag(raw).kind = "strong" /\ ParseTag(raw).opaque = raw.opaque
      BY <2>1
    <3> QED BY <3>1, Unparsed
  <2>4. (ParseTag(raw).kind = "weak") = FALSE
    BY <2>1
  <2>5. UnparseTag(ParseTag(raw)) = raw
    BY <2>2, <2>3, <2>4
  <2> QED BY <1>1, <2>1, <2>5 DEF UsableForRange
<1>2. CASE ~(raw.form = "quoted" /\ ~raw.weak)
  BY <1>2 DEF ParseTag, UsableForRange, EmptyTag, BareToken, RawTag
<1> QED BY <1>1, <1>2

-----------------------------------------------------------------------------
(* What pyhaul says, with any of its lists of fields.                      *)
Said(p) ==
    /\ p \in Seq(Own) /\ Len(p) \in 2 .. 4
    /\ p[1] = Field("accept-encoding", Ours)
    /\ \A j \in 2 .. Len(p) : p[j].name # "accept-encoding"

LEMMA FieldsTyped ==
    /\ \A n \in Structural \cup {"cache-control"} : Field(n, Ours) \in Own
    /\ \A n \in Structural, t \in RawTag : Field(n, [by |-> "pyhaul", tag |-> t]) \in Own
<1>1. Ours \in Value
  BY DEF Ours, Value, NoRaw, RawTag, Opaque
<1>2. \A t \in RawTag : [by |-> "pyhaul", tag |-> t] \in Value
  BY DEF Value
<1>3. \A n \in Structural \cup {"cache-control"}, v \in Value : Field(n, v) \in Own
  BY DEF Field, Pair, Own
<1> QED BY <1>1, <1>2, <1>3

LEMMA AppendFacts ==
    ASSUME NEW S, NEW d \in Seq(S), NEW f \in S
    PROVE  /\ Append(d, f) \in Seq(S) /\ Len(Append(d, f)) = Len(d) + 1
           /\ Append(d, f) = d \o <<f>> /\ Append(d, f)[Len(d) + 1] = f
           /\ \A i \in 1 .. Len(d) : Append(d, f)[i] = d[i]
OBVIOUS

LEMMA DefaultsSaid ==
    /\ Said(Defaults) /\ Len(Defaults) = 2
    /\ Defaults[1].name = "accept-encoding" /\ Defaults[2].name = "cache-control"
<1>1. Field("accept-encoding", Ours) \in Own /\ Field("cache-control", Ours) \in Own
  BY FieldsTyped DEF Structural
<1>2. Field("accept-encoding", Ours).name = "accept-encoding"
      /\ Field("cache-control", Ours).name = "cache-control"
  BY DEF Field
<1> QED BY <1>1, <1>2 DEF Defaults, Said

(* The defaults and one field more.                                        *)
LEMMA OneMore ==
    ASSUME NEW f \in Own, f.name # "accept-encoding"
    PROVE  LET p == Append(Defaults, f)
           IN  /\ Said(p) /\ Len(p) = 3 /\ p = Defaults \o <<f>>
               /\ p[1] = Defaults[1] /\ p[2] = Defaults[2] /\ p[3] = f
<1> DEFINE p == Append(Defaults, f)
<1>1. Defaults \in Seq(Own) /\ Len(Defaults) = 2
  BY DefaultsSaid DEF Said
<1>2. /\ p \in Seq(Own) /\ Len(p) = Len(Defaults) + 1 /\ p = Defaults \o <<f>>
      /\ p[Len(Defaults) + 1] = f /\ \A i \in 1 .. Len(Defaults) : p[i] = Defaults[i]
  <2> DEFINE d == Defaults
  <2>1. d \in Seq(Own)
    BY <1>1
  <2> HIDE DEF d
  <2>2. /\ Append(d, f) \in Seq(Own) /\ Len(Append(d, f)) = Len(d) + 1
        /\ Append(d, f) = d \o <<f>> /\ Append(d, f)[Len(d) + 1] = f
        /\ \A i \in 1 .. Len(d) : Append(d, f)[i] = d[i]
    BY <2>1, AppendFacts
  <2> QED BY <2>2 DEF d
<1>3. Len(Defaults) + 1 = 3 /\ 1 \in 1 .. Len(Defaults) /\ 2 \in 1 .. Len(Defaults)
  BY <1>1
<1> HIDE DEF p
<1>4. Len(p) = 3 /\ p[3] = f
  BY <1>2, <1>3, Zenon
<1>5. p[1] = Defaults[1] /\ p[2] = Defaults[2]
  BY <1>2, <1>3
<1>6. \A j \in 2 .. 3 : j = 2 \/ j = 3
  OBVIOUS
<1>7. Said(p)
  BY <1>2, <1>4, <1>5, <1>6, DefaultsSaid DEF Said
<1> QED BY <1>2, <1>4, <1>5, <1>7 DEF p

LEMMA ProbeSaid == Said(Append(Defaults, Field("range", Ours)))
<1>1. Field("range", Ours) \in Own /\ Field("range", Ours).name = "range"
  BY FieldsTyped DEF Structural, Field
<1> QED BY <1>1, OneMore

LEMMA RangeSaid ==
    ASSUME NEW tag \in Tag
    PROVE  LET p == RangeHeaders(tag)
           IN  /\ Said(p) /\ Len(p) = IF UsableForRange(tag) THEN 4 ELSE 3
               /\ p[1].name = "accept-encoding" /\ p[2].name = "cache-control"
               /\ p[3] = Field("range", Ours)
               /\ UsableForRange(tag) =>
                      p[4] = Field("if-range", [by |-> "pyhaul", tag |-> UnparseTag(tag)])
<1> DEFINE r == Field("range", Ours)
           i == Field("if-range", [by |-> "pyhaul", tag |-> UnparseTag(tag)])
           d == Append(Defaults, r)
           p == RangeHeaders(tag)
<1>1. r \in Own /\ i \in Own
  BY FieldsTyped, UnparseTyped DEF Structural
<1>2. r.name = "range" /\ i.name = "if-range"
  BY DEF Field
<1>3. p = Defaults \o <<r>> \o IF UsableForRange(tag) THEN <<i>> ELSE <<>>
  BY DEF RangeHeaders
<1> HIDE DEF r, i, p
<1>4. /\ Said(d) /\ Len(d) = 3 /\ d = Defaults \o <<r>>
      /\ d[1] = Defaults[1] /\ d[2] = Defaults[2] /\ d[3] = r
  BY <1>1, <1>2, OneMore
<1> HIDE DEF d
<1>5. d \in Seq(Own) /\ d[1].name = "accept-encoding" /\ d[2].name = "cache-control"
  BY <1>4, DefaultsSaid DEF Said
<1>6. CASE UsableForRange(tag)
  <2>1. p = d \o <<i>>
    BY <1>3, <1>4, <1>6
  <2>2. p \in Seq(Own) /\ Len(p) = Len(d) + 1 /\ p[Len(d) + 1] = i
        /\ \A k \in 1 .. Len(d) : p[k] = d[k]
    BY <1>1, <1>5, <2>1, AppendFacts
  <2>3. Len(d) + 1 = 4 /\ 1 \in 1 .. Len(d) /\ 2 \in 1 .. Len(d) /\ 3 \in 1 .. Len(d)
    BY <1>4
  <2>4. Len(p) = 4 /\ p[4] = i
    BY <2>2, <2>3, Zenon
  <2>5. p[1] = d[1] /\ p[2] = d[2] /\ p[3] = d[3]
    BY <2>2, <2>3
  <2>6. \A j \in 2 .. 4 : j = 2 \/ j = 3 \/ j = 4
    OBVIOUS
  <2>7. Said(p)
    BY <1>2, <1>4, <1>5, <2>2, <2>4, <2>5, <2>6 DEF Said
  <2> QED BY <1>4, <1>5, <1>6, <2>4, <2>5, <2>7 DEF p, r, i
<1>7. CASE ~UsableForRange(tag)
  <2>1. p = d
    BY <1>3, <1>4, <1>5, <1>7
  <2> QED BY <1>4, <1>5, <1>7, <2>1 DEF p, r
<1> QED BY <1>6, <1>7

-----------------------------------------------------------------------------
(* The invariant of the conversation.  What .part.ctrl holds is what the   *)
(* server's ETag was parsed to, serialised; while an answer is waited for, *)
(* the fields of the request are those of that tag; and whatever was sent  *)
(* was merged from the caller's headers and one of pyhaul's lists.         *)

Kept == stored = UnparseTag(ParseTag(issued))

Asked == pc = "answer" => sent = OnTheWire(Merge(user, RangeHeaders(ParseTag(stored))))

Sent == sent = NoRequest \/ \E p : Said(p) /\ sent = OnTheWire(Merge(user, p))

HInv == IInv /\ TypeOK /\ Kept /\ Asked /\ Sent

LEMMA Callers ==
    ASSUME NEW u \in UserHeaders \cup {<<>>}
    PROVE  u \in Seq(UserField) /\ u \in Seq(Pair)
<1>1. u \in Seq(UserField)
  <2>1. <<>> \in Seq(UserField)
    OBVIOUS
  <2> QED BY <2>1, ExchangeAssumption
<1>2. UserField \subseteq Pair
  BY DEF UserField, Pair, Value
<1> QED BY <1>1, <1>2

LEMMA SentTyped ==
    ASSUME NEW u \in UserHeaders \cup {<<>>}, NEW p, Said(p)
    PROVE  OnTheWire(Merge(u, p)) \in [Structural \cup {"cache-control"} -> Value]
BY Callers, MergeFacts, WireTyped DEF Said

LEMMA NoRequestTyped == NoRequest \in [Structural \cup {"cache-control"} -> Value]
<1>1. <<>> \in Seq(Pair)
  OBVIOUS
<1> QED BY <1>1, WireTyped DEF NoRequest

LEMMA NoSnapTyped == NoSnap \in Snap
BY DEF NoSnap, Snap, Tag, EmptyTag, Opaque

(* The encoding is pyhaul's in each of its requests.                       *)
LEMMA SaidEncoding ==
    ASSUME NEW u \in UserHeaders \cup {<<>>}, NEW p, Said(p), Once(u, "accept-encoding"), Plain(u, "accept-encoding")
    PROVE  OnTheWire(Merge(u, p))["accept-encoding"] = Ours
<1>1. p[1].name = "accept-encoding" /\ p[1].value = Ours /\ 1 \in 1 .. Len(p)
  BY DEF Said, Field
<1>2. \A j \in 1 .. Len(p) : p[j].name = "accept-encoding" => j = 1
  BY DEF Said
<1>3. "accept-encoding" \in Structural
  BY DEF Structural
<1>4. u \in Seq(Pair) /\ p \in Seq(Own) /\ Len(p) \in 2 .. 4
  BY Callers DEF Said
<1>5. /\ Merge(u, p) \in Seq(Pair) /\ Shows(Merge(u, p), "accept-encoding", Ours)
      /\ Plain(Merge(u, p), "accept-encoding")
  BY <1>1, <1>2, <1>3, <1>4, MergeFacts
<1> QED BY <1>3, <1>5, WireShows

(* The cursor is pyhaul's in the requests of haul().                       *)
LEMMA SaidRange ==
    ASSUME NEW u \in UserHeaders \cup {<<>>}, NEW tag \in Tag, Once(u, "range"), Plain(u, "range")
    PROVE  OnTheWire(Merge(u, RangeHeaders(tag)))["range"] = Ours
<1> DEFINE p == RangeHeaders(tag)
<1>1. /\ Said(p) /\ Len(p) \in {3, 4} /\ p[1].name = "accept-encoding"
      /\ p[2].name = "cache-control" /\ p[3] = Field("range", Ours)
      /\ Len(p) = 4 => p[4].name = "if-range"
  <2> DEFINE v == [by |-> "pyhaul", tag |-> UnparseTag(tag)]
  <2>1. /\ Said(p) /\ Len(p) = IF UsableForRange(tag) THEN 4 ELSE 3
        /\ p[1].name = "accept-encoding" /\ p[2].name = "cache-control"
        /\ p[3] = Field("range", Ours)
        /\ UsableForRange(tag) => p[4] = Field("if-range", v)
    BY RangeSaid
  <2> HIDE DEF p, v
  <2>2. CASE UsableForRange(tag)
    BY <2>1, <2>2 DEF Field
  <2>3. CASE ~UsableForRange(tag)
    BY <2>1, <2>3
  <2> QED BY <2>2, <2>3
<1> HIDE DEF p
<1>2. p[3].name = "range" /\ p[3].value = Ours /\ 3 \in 1 .. Len(p)
  BY <1>1 DEF Field
<1>3. \A j \in 1 .. Len(p) : p[j].name = "range" => j = 3
  <2>1. \A j \in 1 .. Len(p) : j \in {1, 2, 3} \/ (j = 4 /\ Len(p) = 4)
    <3>1. CASE Len(p) = 3
      BY <3>1
    <3>2. CASE Len(p) = 4
      BY <3>2
    <3> QED BY <1>1, <3>1, <3>2
  <2> QED BY <1>1, <2>1
<1>4. "range" \in Structural
  BY DEF Structural
<1>5. u \in Seq(Pair) /\ p \in Seq(Own) /\ Len(p) \in 2 .. 4
  BY <1>1, Callers DEF Said
<1>6. /\ Merge(u, p) \in Seq(Pair) /\ Shows(Merge(u, p), "range", Ours)
      /\ Plain(Merge(u, p), "range")
  BY <1>2, <1>3, <1>4, <1>5, MergeFacts
<1>7. OnTheWire(Merge(u, p))["range"] = Ours
  BY <1>4, <1>6, WireShows
<1> QED BY <1>7 DEF p

(* If-Range is pyhaul's, with the checkpoint's tag, if that is a strong    *)
(* one; if it is not, pyhaul sends none.                                   *)
LEMMA SaidIfRange ==
    ASSUME NEW u \in UserHeaders \cup {<<>>}, NEW tag \in Tag, Once(u, "if-range"), Plain(u, "if-range")
    PROVE  IF UsableForRange(tag)
             THEN OnTheWire(Merge(u, RangeHeaders(tag)))["if-range"] =
                      [by |-> "pyhaul", tag |-> UnparseTag(tag)]
             ELSE OnTheWire(Merge(u, RangeHeaders(tag)))["if-range"].by # "pyhaul"
<1> DEFINE p == RangeHeaders(tag)
           v == [by |-> "pyhaul", tag |-> UnparseTag(tag)]
<1>1. /\ Said(p) /\ Len(p) = IF UsableForRange(tag) THEN 4 ELSE 3
      /\ p[1].name = "accept-encoding" /\ p[2].name = "cache-control" /\ p[3].name = "range"
      /\ UsableForRange(tag) => p[4] = Field("if-range", v)
  BY RangeSaid DEF Field
<1> HIDE DEF p, v
<1>2. "if-range" \in Structural
  BY DEF Structural
<1>3. u \in Seq(Pair) /\ p \in Seq(Own) /\ Len(p) \in 2 .. 4 /\ u \in Seq(UserField)
  BY <1>1, Callers DEF Said
<1>4. CASE UsableForRange(tag)
  <2>1. p[4].name = "if-range" /\ p[4].value = v /\ 4 \in 1 .. Len(p)
    BY <1>1, <1>4 DEF Field
  <2>2. \A j \in 1 .. Len(p) : p[j].name = "if-range" => j = 4
    <3>1. \A j \in 1 .. Len(p) : j \in {1, 2, 3, 4}
      BY <1>1, <1>4
    <3> QED BY <1>1, <3>1
  <2>3. /\ Merge(u, p) \in Seq(Pair) /\ Shows(Merge(u, p), "if-range", v)
        /\ Plain(Merge(u, p), "if-range")
    BY <1>2, <1>3, <2>1, <2>2, MergeFacts
  <2> QED BY <1>2, <1>4, <2>3, WireShows DEF p, v
<1>5. CASE ~UsableForRange(tag)
  <2>1. \A j \in 1 .. Len(p) : p[j].name # "if-range"
    <3>1. \A j \in 1 .. Len(p) : j \in {1, 2, 3}
      BY <1>1, <1>5
    <3> QED BY <1>1, <3>1
  <2>2. Merge(u, p) \in Seq(Pair) /\ Same(u, Merge(u, p), "if-range")
    BY <1>3, <2>1, MergeFacts
  <2> QED BY <1>2, <1>3, <1>5, <2>2, WireCallers DEF p
<1> QED BY <1>4, <1>5

LEMMA InitHeaders == Init => HInv
<1> SUFFICES ASSUME Init PROVE HInv
  OBVIOUS
<1>1. NoRaw \in RawTag
  BY DEF NoRaw, RawTag, Opaque
<1>2. TypeOK
  <2>1. unfollowed \subseteq {"GET", "HEAD"}
    BY DEF Init, Unfollowed
  <2> QED BY <1>1, <2>1, NoRequestTyped, NoSnapTyped, ExchangeAssumption DEF Init, TypeOK
<1>3. Kept
  <2>1. EmptyTag.kind = "absent"
    BY DEF EmptyTag
  <2> QED BY <2>1, NoTag, Unparsed DEF Init, Kept
<1> QED BY <1>2, <1>3, InitInv DEF Init, HInv, Asked, Sent

LEMMA RawTyped ==
    ASSUME TypeOK
    PROVE  NoRaw \in RawTag /\ etag[version] \in RawTag
<1>1. etag \in [Version -> RawTag] /\ version \in Version
  BY ExchangeAssumption DEF TypeOK
<1>2. NoRaw \in RawTag
  BY DEF NoRaw, RawTag, Opaque
<1> QED BY <1>1, <1>2

(* What pyhaul makes of the answers.                                       *)
LEMMA SnapshotTyped ==
    ASSUME TypeOK, NEW reply \in HeadReplies \cup GetReplies, reply.status # 503
    PROVE  Snapshot(reply) \in Snap
<1>1. etag[version] \in RawTag /\ NoRaw \in RawTag
  BY RawTyped
<1>2. reply.status \in {200, 206, 302, 416} /\ reply.ranges \in BOOLEAN /\ reply.named \in BOOLEAN
  <2>1. ASSUME NEW v, NEW status, NEW lengths, NEW ranges,
               reply \in Answers(v, status, lengths, ranges)
        PROVE  reply.status = status /\ reply.ranges \in BOOLEAN /\ reply.named \in BOOLEAN
    BY <2>1 DEF Answers
  <2>2. CASE reply \in Whole(version)
    BY <2>1, <2>2 DEF Whole
  <2>3. CASE reply \in FirstByte(version)
    <3>1. PICK lengths, ranges : reply \in Answers(version, 206, lengths, ranges)
      BY <2>3, Zenon DEF FirstByte
    <3> QED BY <2>1, <3>1
  <2>4. CASE reply \in NotSatisfiable(version)
    BY <2>1, <2>4 DEF NotSatisfiable
  <2>5. CASE reply \in Redirect(version)
    BY <2>1, <2>5 DEF Redirect
  <2>6. CASE reply \in Error(version)
    BY <2>1, <2>6 DEF Error
  <2> QED BY <2>2, <2>3, <2>4, <2>5, <2>6 DEF HeadReplies, GetReplies
<1>3. Snapshot(reply).length \in {None, Size[version]} /\ Snapshot(reply).tag \in Tag
  BY <1>1, RepliesTrue, ParseTyped, NoTag DEF Says
<1>4. version \in Version
  BY DEF TypeOK
<1> QED BY <1>2, <1>3, <1>4 DEF Snapshot, Snap

LEMMA MergedTyped ==
    ASSUME NEW primary \in Snap, NEW secondary \in Snap
    PROVE  MergeSnapshots(primary, secondary) \in Snap
BY DEF MergeSnapshots, Snap

LEMMA RangedTyped ==
    ASSUME TypeOK, NEW reply \in GetReplies, RangedGet(reply)
    PROVE  result' \in Snap
<1>1. CASE Allowed(reply)
  <2>1. reply.status # 503
    BY <1>1 DEF Allowed
  <2>2. Snapshot(reply) \in Snap /\ snap \in Snap
    BY <2>1, SnapshotTyped DEF TypeOK
  <2> QED BY <2>2, MergedTyped, NoSnapTyped DEF RangedGet
<1>2. CASE ~Allowed(reply)
  BY <1>2, NoSnapTyped DEF RangedGet
<1> QED BY <1>1, <1>2

LEMMA StepHeaders == HInv /\ [Next]_vars => HInv'
<1> SUFFICES ASSUME HInv, [Next]_vars PROVE HInv'
  OBVIOUS
<1>0. IInv'
  BY StepInv DEF HInv
<1>1. TypeOK /\ Kept /\ Asked /\ Sent
  BY DEF HInv
<1>a. NoRaw \in RawTag /\ etag[version] \in RawTag
  BY <1>1, RawTyped
<1>b. NoRaw = UnparseTag(ParseTag(NoRaw))
  <2>1. EmptyTag.kind = "absent"
    BY DEF EmptyTag
  <2> QED BY <2>1, NoTag, Unparsed
<1>2. ASSUME NEW c \in {"probe", "haul"}, NEW u \in UserHeaders, Call(c, u) PROVE HInv'
  <2>1. TypeOK'
    BY <1>1, <1>2, NoRequestTyped, NoSnapTyped DEF Call, origin, checkpoint, TypeOK
  <2>2. (Kept /\ Asked /\ Sent)'
    BY <1>1, <1>2 DEF Call, checkpoint, Kept, Asked, Sent
  <2> QED BY <1>0, <2>1, <2>2 DEF HInv
<1>3. ASSUME NEW reply \in HeadReplies, HeadRequest(reply) PROVE HInv'
  <2>1. sent' = OnTheWire(Merge(user, Defaults)) /\ user' = user /\ pc' # "answer"
    BY <1>3 DEF HeadRequest, caller, Ends
  <2>2. sent' \in [Structural \cup {"cache-control"} -> Value]
    BY <1>1, <2>1, SentTyped, DefaultsSaid DEF TypeOK
  <2>3. snap' \in Snap /\ result' \in Snap
    <3>1. reply.status = 200 => Snapshot(reply) \in Snap
      BY <1>1, SnapshotTyped
    <3> QED BY <1>1, <1>3, <3>1, NoSnapTyped DEF HeadRequest, Ends, TypeOK
  <2>4. TypeOK'
    BY <1>1, <1>3, <2>2, <2>3 DEF HeadRequest, Ends, origin, checkpoint, caller, TypeOK
  <2>5. (Kept /\ Asked /\ Sent)'
    BY <1>1, <1>3, <2>1, DefaultsSaid DEF HeadRequest, checkpoint, Kept, Asked, Sent
  <2> QED BY <1>0, <2>4, <2>5 DEF HInv
<1>4. ASSUME NEW reply \in GetReplies, RangedGet(reply) PROVE HInv'
  <2>1. /\ sent' = OnTheWire(Merge(user, Append(Defaults, Field("range", Ours))))
        /\ user' = user /\ pc' # "answer"
    BY <1>4 DEF RangedGet, caller, Ends
  <2>2. sent' \in [Structural \cup {"cache-control"} -> Value]
    BY <1>1, <2>1, SentTyped, ProbeSaid DEF TypeOK
  <2>3. result' \in Snap
    BY <1>1, <1>4, RangedTyped
  <2>4. TypeOK'
    BY <1>1, <1>4, <2>2, <2>3, NoSnapTyped
    DEF RangedGet, Ends, origin, checkpoint, caller, TypeOK
  <2>5. (Kept /\ Asked /\ Sent)'
    BY <1>1, <1>4, <2>1, ProbeSaid DEF RangedGet, checkpoint, Kept, Asked, Sent
  <2> QED BY <1>0, <2>4, <2>5 DEF HInv
<1>5. CASE ProbeFails
  <2>1. TypeOK'
    BY <1>1, <1>5, NoSnapTyped DEF ProbeFails, Ends, origin, checkpoint, caller, TypeOK
  <2>2. (Kept /\ Asked /\ Sent)'
    BY <1>1, <1>5 DEF ProbeFails, Ends, checkpoint, caller, Kept, Asked, Sent
  <2> QED BY <1>0, <2>1, <2>2 DEF HInv
<1>6. CASE Request
  <2>1. Said(RangeHeaders(ParseTag(stored)))
    BY <1>1, ParseTyped, RangeSaid DEF TypeOK
  <2>2. /\ sent' = OnTheWire(Merge(user, RangeHeaders(ParseTag(stored))))
        /\ user' = user /\ stored' = stored /\ issued' = issued
    BY <1>6 DEF Request, caller, checkpoint
  <2>3. sent' \in [Structural \cup {"cache-control"} -> Value]
    BY <1>1, <2>1, <2>2, SentTyped DEF TypeOK
  <2>4. TypeOK'
    BY <1>1, <1>6, <2>3 DEF Request, origin, checkpoint, caller, TypeOK
  <2>5. (Kept /\ Asked /\ Sent)'
    BY <1>1, <2>1, <2>2 DEF Kept, Asked, Sent
  <2> QED BY <1>0, <2>4, <2>5 DEF HInv
<1>7. ASSUME NEW raw \in {NoRaw, etag[version]}, NEW whole \in BOOLEAN, Accepted(raw, whole)
      PROVE  HInv'
  <2>1. stored' \in RawTag /\ issued' \in RawTag /\ Kept'
    <3>1. ParseTag(raw) \in Tag /\ ParseTag(stored) \in Tag /\ raw \in RawTag
      BY <1>1, <1>a, ParseTyped DEF TypeOK
    <3>2. UnparseTag(ParseTag(raw)) \in RawTag
      BY <3>1, UnparseTyped
    <3>3. UnparseTag(ParseTag(stored)) = stored
      BY <1>1, RoundTrip DEF Kept, TypeOK
    <3>4. CASE stored' = UnparseTag(ParseTag(raw)) /\ issued' = raw
      BY <3>1, <3>2, <3>4 DEF Kept
    <3>5. CASE stored' = UnparseTag(ParseTag(stored)) /\ issued' = issued
      BY <1>1, <3>3, <3>5 DEF Kept, TypeOK
    <3> QED BY <1>7, <3>4, <3>5 DEF Accepted, Keep
  <2>2. TypeOK'
    BY <1>1, <1>7, <2>1, NoSnapTyped DEF Accepted, Ends, origin, caller, TypeOK
  <2>3. (Asked /\ Sent)'
    BY <1>1, <1>7 DEF Accepted, Ends, caller, Asked, Sent
  <2> QED BY <1>0, <2>1, <2>2, <2>3 DEF HInv
<1>8. CASE Forgotten
  <2>1. TypeOK'
    BY <1>1, <1>8, <1>a, NoSnapTyped DEF Forgotten, Ends, origin, caller, TypeOK
  <2>2. (Kept /\ Asked /\ Sent)'
    BY <1>1, <1>8, <1>b DEF Forgotten, Ends, caller, Kept, Asked, Sent
  <2> QED BY <1>0, <2>1, <2>2 DEF HInv
<1>9. CASE HaulFails
  <2>1. TypeOK'
    BY <1>1, <1>9, NoSnapTyped DEF HaulFails, Ends, origin, checkpoint, caller, TypeOK
  <2>2. (Kept /\ Asked /\ Sent)'
    BY <1>1, <1>9 DEF HaulFails, Ends, checkpoint, caller, Kept, Asked, Sent
  <2> QED BY <1>0, <2>1, <2>2 DEF HInv
<1>10. CASE Replace
  <2>1. TypeOK'
    BY <1>1, <1>10 DEF Replace, origin, checkpoint, caller, TypeOK
  <2>2. (Kept /\ Asked /\ Sent)'
    BY <1>1, <1>10 DEF Replace, checkpoint, caller, Kept, Asked, Sent
  <2> QED BY <1>0, <2>1, <2>2 DEF HInv
<1>11. CASE UNCHANGED vars
  <2>1. TypeOK'
    BY <1>1, <1>11 DEF vars, origin, checkpoint, caller, TypeOK
  <2>2. (Kept /\ Asked /\ Sent)'
    BY <1>1, <1>11 DEF vars, origin, checkpoint, caller, Kept, Asked, Sent
  <2> QED BY <1>0, <2>1, <2>2 DEF HInv
<1> QED
  BY <1>2, <1>3, <1>4, <1>5, <1>6, <1>7, <1>8, <1>9, <1>10, <1>11
  DEF Next, Probing, Hauling

THEOREM HeadersInvariant == Spec => []HInv
BY InitHeaders, StepHeaders, PTL DEF Spec

(* The variables keep their types: requests hold what a dict and the       *)
(* adapters can hold, snapshots a length of a version or none.             *)
THEOREM ExchangeTyped == Spec => []TypeOK
<1>1. HInv => TypeOK
  BY DEF HInv
<1> QED BY <1>1, HeadersInvariant, PTL

LEMMA SpelledPlainly ==
    ASSUME NEW n, ~Overlooked(n)
    PROVE  Once(user, n) /\ Plain(user, n)
BY DEF Overlooked, Once, Plain, Carried, Named

(* Whatever headers callers pass, of any names, spellings and number, the  *)
(* server is asked for the bytes at pyhaul's cursor, unencoded, unless the *)
(* caller has that very header in two spellings (merge_headers,            *)
(* headers.py:77) or with blanks around its name.                          *)
THEOREM AskedForItsBytes == Spec => []AsksForItsBytes
<1>1. HInv => AsksForItsBytes
  <2> SUFFICES ASSUME HInv PROVE AsksForItsBytes
    OBVIOUS
  <2>1. user \in UserHeaders \cup {<<>>} /\ stored \in RawTag
    BY DEF HInv, TypeOK
  <2>2. Ours.by = "pyhaul"
    BY DEF Ours
  <2>3. ASSUME pc = "answer", ~Overlooked("range") PROVE sent["range"].by = "pyhaul"
    <3>1. sent = OnTheWire(Merge(user, RangeHeaders(ParseTag(stored))))
      BY <2>3 DEF HInv, Asked
    <3> QED BY <2>1, <2>2, <2>3, <3>1, ParseTyped, SpelledPlainly, SaidRange
  <2>4. ASSUME sent # NoRequest, ~Overlooked("accept-encoding")
        PROVE  sent["accept-encoding"].by = "pyhaul"
    <3>1. PICK p : Said(p) /\ sent = OnTheWire(Merge(user, p))
      BY <2>4 DEF HInv, Sent
    <3> QED BY <2>1, <2>2, <2>4, <3>1, SpelledPlainly, SaidEncoding
  <2> QED BY <2>3, <2>4 DEF AsksForItsBytes
<1> QED BY <1>1, HeadersInvariant, PTL

(* The If-Range of every resumed request is the very ETag the server gave  *)
(* with the bytes, if that was a strong one in quotes without a needless   *)
(* escape; and pyhaul sends none that comes of a weak tag, a wildcard, a   *)
(* broken one or none.                                                     *)
THEOREM ValidatorsFaithful == Spec => []ValidatorFaithful
<1>1. HInv => ValidatorFaithful
  <2> SUFFICES ASSUME HInv, pc = "answer", ~Overlooked("if-range")
               PROVE  IF issued.form = "quoted" /\ ~issued.weak
                        THEN sent["if-range"] = [by |-> "pyhaul", tag |-> issued]
                        ELSE sent["if-range"].by = "pyhaul" =>
                                 issued.form \in {"bare", "escaped"} /\ ~issued.weak
    BY DEF ValidatorFaithful
  <2> DEFINE tag == ParseTag(stored)
  <2>1. /\ user \in UserHeaders \cup {<<>>} /\ stored \in RawTag /\ issued \in RawTag
        /\ sent = OnTheWire(Merge(user, RangeHeaders(tag)))
    BY DEF HInv, TypeOK, Asked
  <2>2. tag \in Tag /\ tag = ParseTag(issued) /\ UnparseTag(ParseTag(issued)) = stored
    BY <2>1, ParseTyped, RoundTrip DEF HInv, Kept
  <2> HIDE DEF tag
  <2>3. IF UsableForRange(tag) THEN sent["if-range"] = [by |-> "pyhaul", tag |-> UnparseTag(tag)]
        ELSE sent["if-range"].by # "pyhaul"
    BY <2>1, <2>2, SpelledPlainly, SaidIfRange
  <2>4. CASE issued.form = "quoted" /\ ~issued.weak
    BY <2>1, <2>2, <2>3, <2>4, StrongTag
  <2>5. CASE ~(issued.form = "quoted" /\ ~issued.weak)
    BY <2>1, <2>2, <2>3, <2>5, StrongTag
  <2> QED BY <2>4, <2>5
<1> QED BY <1>1, HeadersInvariant, PTL
=============================================================================
