--------------------------- MODULE ResumeHashProofs ---------------------------
(***************************************************************************)
(* The tree hash of a download in several attempts, and the checkpoints    *)
(* that carry it from one to the next, for a resource of any length, any   *)
(* block sizes, chunks, ETags and attempts.                                *)
(***************************************************************************)
EXTENDS ResumeHash, WellFoundedInduction, TLAPS

USE ResumeHashAssumption

Byte == Range(Resource)

(* The bytes from one offset to another.                                   *)
Slice(from, to) == SubSeq(Resource, from + 1, to)

LEMMA ResourceTyped == Resource \in Seq(Byte) /\ Total \in Nat \ {0}
<1>1. Resource \in Seq(Byte)
  BY DEF Byte
<1>2. Len(Resource) \in Nat
  BY <1>1
<1>3. Len(Resource) # 0
  BY <1>1
<1> QED BY <1>1, <1>2, <1>3 DEF Total

LEMMA SameSequence ==
    ASSUME NEW S, NEW s \in Seq(S), NEW t \in Seq(S), Len(s) = Len(t),
           \A i \in 1 .. Len(s) : s[i] = t[i]
    PROVE  s = t
OBVIOUS

LEMMA ConcatFacts ==
    ASSUME NEW S, NEW s \in Seq(S), NEW t \in Seq(S)
    PROVE  /\ s \o t \in Seq(S) /\ Len(s \o t) = Len(s) + Len(t)
           /\ \A i \in 1 .. Len(s) : (s \o t)[i] = s[i]
           /\ \A i \in 1 .. Len(t) : (s \o t)[Len(s) + i] = t[i]
<1>1. s \o t \in Seq(S) /\ Len(s \o t) = Len(s) + Len(t) /\ Len(s) \in Nat /\ Len(t) \in Nat
  OBVIOUS
<1>2. ASSUME NEW i \in 1 .. Len(s) PROVE (s \o t)[i] = s[i]
  OBVIOUS
<1>3. ASSUME NEW i \in 1 .. Len(t) PROVE (s \o t)[Len(s) + i] = t[i]
  <2>1. /\ Len(s) + i \in 1 .. (Len(s) + Len(t)) /\ ~(Len(s) + i <= Len(s))
        /\ (Len(s) + i) - Len(s) = i
    BY <1>1
  <2> QED BY <1>1, <2>1
<1> QED BY <1>1, <1>2, <1>3

LEMMA SliceFacts ==
    ASSUME NEW a \in Nat, NEW c \in Nat, a <= c, c <= Total
    PROVE  /\ Slice(a, c) \in Seq(Byte) /\ Len(Slice(a, c)) = c - a
           /\ \A i \in 1 .. (c - a) : Slice(a, c)[i] = Resource[a + i]
<1>1. Resource \in Seq(Byte) /\ Len(Resource) = Total /\ Total \in Nat
  BY ResourceTyped DEF Total
<1> QED BY <1>1 DEF Slice

(* Slices of slices, and slices that meet.                                 *)
LEMMA SliceHead ==
    ASSUME NEW a \in Nat, NEW c \in Nat, a <= c, c <= Total, NEW m \in 0 .. (c - a)
    PROVE  SubSeq(Slice(a, c), 1, m) = Slice(a, a + m)
<1> DEFINE s == Slice(a, c)
           t == Slice(a, a + m)
           h == SubSeq(s, 1, m)
<1>1. s \in Seq(Byte) /\ Len(s) = c - a /\ \A i \in 1 .. (c - a) : s[i] = Resource[a + i]
  BY SliceFacts
<1>2. t \in Seq(Byte) /\ Len(t) = m /\ \A i \in 1 .. m : t[i] = Resource[a + i]
  <2>1. a + m \in Nat /\ a <= a + m /\ a + m <= Total /\ (a + m) - a = m
    BY ResourceTyped
  <2> QED BY <2>1, SliceFacts
<1> HIDE DEF s, t
<1>3. h \in Seq(Byte) /\ Len(h) = m /\ \A i \in 1 .. m : h[i] = s[i]
  BY <1>1
<1>4. \A i \in 1 .. m : i \in 1 .. (c - a)
  OBVIOUS
<1> HIDE DEF h
<1>5. h = t
  BY <1>1, <1>2, <1>3, <1>4, SameSequence
<1> QED BY <1>5 DEF h, s, t

LEMMA SliceRest ==
    ASSUME NEW a \in Nat, NEW c \in Nat, a <= c, c <= Total, NEW m \in 0 .. (c - a)
    PROVE  SubSeq(Slice(a, c), m + 1, Len(Slice(a, c))) = Slice(a + m, c)
<1> DEFINE s == Slice(a, c)
           t == Slice(a + m, c)
           h == SubSeq(s, m + 1, Len(s))
<1>1. s \in Seq(Byte) /\ Len(s) = c - a /\ \A i \in 1 .. (c - a) : s[i] = Resource[a + i]
  BY SliceFacts
<1>2. t \in Seq(Byte) /\ Len(t) = (c - a) - m
      /\ \A i \in 1 .. ((c - a) - m) : t[i] = Resource[(a + m) + i]
  <2>1. a + m \in Nat /\ a + m <= c /\ c - (a + m) = (c - a) - m
    BY ResourceTyped
  <2> QED BY <2>1, SliceFacts
<1> HIDE DEF s, t
<1>3. h \in Seq(Byte) /\ Len(h) = (c - a) - m /\ \A i \in 1 .. ((c - a) - m) : h[i] = s[i + m]
  BY <1>1
<1>4. \A i \in 1 .. ((c - a) - m) : i + m \in 1 .. (c - a) /\ a + (i + m) = (a + m) + i
  OBVIOUS
<1> HIDE DEF h
<1>5. ASSUME NEW i \in 1 .. Len(h) PROVE h[i] = t[i]
  <2>1. i \in 1 .. ((c - a) - m)
    BY <1>3
  <2>2. h[i] = Resource[a + (i + m)]
    BY <1>1, <1>3, <1>4, <2>1
  <2> QED BY <1>2, <1>4, <2>1, <2>2
<1>6. h = t
  BY <1>2, <1>3, <1>5, SameSequence
<1> QED BY <1>6 DEF h, s, t

LEMMA SliceJoin ==
    ASSUME NEW a \in Nat, NEW c \in Nat, NEW d \in Nat, a <= c, c <= d, d <= Total
    PROVE  Slice(a, c) \o Slice(c, d) = Slice(a, d)
<1> DEFINE s == Slice(a, c)
           t == Slice(c, d)
           u == Slice(a, d)
<1>0. c <= Total /\ a <= d
  BY ResourceTyped
<1>1. s \in Seq(Byte) /\ Len(s) = c - a /\ \A i \in 1 .. (c - a) : s[i] = Resource[a + i]
  BY <1>0, SliceFacts
<1>2. t \in Seq(Byte) /\ Len(t) = d - c /\ \A i \in 1 .. (d - c) : t[i] = Resource[c + i]
  BY <1>0, SliceFacts
<1>3. u \in Seq(Byte) /\ Len(u) = d - a /\ \A i \in 1 .. (d - a) : u[i] = Resource[a + i]
  BY <1>0, SliceFacts
<1> HIDE DEF s, t, u
<1>4. /\ s \o t \in Seq(Byte) /\ Len(s \o t) = Len(s) + Len(t)
      /\ \A i \in 1 .. Len(s) : (s \o t)[i] = s[i]
      /\ \A i \in 1 .. Len(t) : (s \o t)[Len(s) + i] = t[i]
  <2>1. s \in Seq(Byte) /\ t \in Seq(Byte)
    BY <1>1, <1>2
  <2> QED BY <2>1, ConcatFacts
<1>5. ASSUME NEW i \in 1 .. (d - a) PROVE (s \o t)[i] = u[i]
  <2>1. CASE i <= c - a
    <3>1. i \in 1 .. (c - a)
      BY <2>1
    <3> QED BY <1>1, <1>3, <1>4, <3>1
  <2>2. CASE ~(i <= c - a)
    <3>1. PICK j \in 1 .. (d - c) : i = (c - a) + j
      <4>1. i - (c - a) \in 1 .. (d - c) /\ i = (c - a) + (i - (c - a))
        BY <2>2
      <4> QED BY <4>1
    <3>2. (s \o t)[i] = t[j]
      BY <1>1, <1>2, <1>4, <3>1
    <3>3. c + j = a + i
      BY <3>1
    <3> QED BY <1>2, <1>3, <3>2, <3>3
  <2> QED BY <2>1, <2>2
<1>6. Len(s \o t) = d - a
  BY <1>1, <1>2, <1>4
<1>7. s \o t = u
  BY <1>3, <1>4, <1>5, <1>6, SameSequence
<1> QED BY <1>7 DEF s, t, u

-----------------------------------------------------------------------------
(* The inductive invariant.  A builder whose digests are those of the      *)
(* first blocks, whose open block holds the bytes behind them and that has *)
(* the rest of the bytes up to the cursor still before it.                 *)

Done(hashes, size) == Len(hashes) * size

Cut(hashes, size) ==
    /\ hashes \in Seq(Seq(Byte))
    /\ \A i \in 1 .. Len(hashes) : hashes[i] = Slice((i - 1) * size, i * size)

Follows(hashes, size, cursor, open, rest) ==
    /\ Cut(hashes, size) /\ Len(open) < size
    /\ open = Slice(Done(hashes, size), Done(hashes, size) + Len(open))
    /\ rest = Slice(Done(hashes, size) + Len(open), cursor)
    /\ Done(hashes, size) + Len(open) + Len(rest) = cursor
    /\ Len(open) \in Nat /\ Len(rest) \in Nat

Building == Follows(plan.hashes, plan.block, plan.cursor, block, pending)

(* What is saved is what a builder between two chunks was at.              *)
Saved ==
    [cursor : 0 .. Total, block : BlockSizes, extent : {NoLength, Total}, etag : Etags,
     reported : {NoLength, Total}, tail : Seq(Byte), hashes : Seq(Seq(Byte))]

Sound(cp) ==
    /\ cp \in Saved
    /\ Follows(cp.hashes, cp.block, cp.cursor, cp.tail, <<>>)

(* The control file is what was saved last, as it was written or damaged   *)
(* once.                                                                   *)
Kept ==
    ctrl # NoFile =>
        Sound(saved) /\ (ctrl = Encode(saved) \/ ctrl \in Damaged(Encode(saved)))

Plan ==
    [cursor : 0 .. Total, block : BlockSizes, extent : {NoLength, Total}, etag : Etags,
     reported : {NoLength, Total}, hashes : Seq(Seq(Byte))]

HInv ==
    /\ pc \in {"idle", "stream", "hash_file"} /\ plan \in Plan
    /\ Building /\ Kept /\ HashIsOfFile

-----------------------------------------------------------------------------
(* Builders.                                                               *)

LEMMA BlockFacts ==
    ASSUME NEW size \in BlockSizes
    PROVE  size \in Nat \ {0} /\ size \in Nat
OBVIOUS

LEMMA CursorFacts ==
    ASSUME NEW c \in 0 .. Total
    PROVE  c \in Nat /\ c <= Total
BY ResourceTyped

LEMMA SavedFacts ==
    ASSUME NEW cp \in Saved
    PROVE  /\ cp.cursor \in 0 .. Total /\ cp.block \in BlockSizes /\ cp.etag \in Etags
           /\ cp.extent \in {NoLength, Total} /\ cp.reported \in {NoLength, Total}
           /\ cp.hashes \in Seq(Seq(Byte))
BY DEF Saved

LEMMA PlanFacts ==
    ASSUME NEW p \in Plan
    PROVE  /\ p.cursor \in 0 .. Total /\ p.cursor \in Nat /\ p.cursor <= Total
           /\ p.block \in BlockSizes /\ p.block \in Nat \ {0} /\ p.block \in Nat
           /\ p.hashes \in Seq(Seq(Byte))
<1>1. p.cursor \in 0 .. Total /\ p.block \in BlockSizes /\ p.hashes \in Seq(Seq(Byte))
  BY DEF Plan
<1> QED BY <1>1, BlockFacts, CursorFacts

LEMMA DoneFacts ==
    ASSUME NEW S, NEW h \in Seq(S), NEW size \in Nat, NEW x \in S
    PROVE  Done(h, size) \in Nat /\ Done(Append(h, x), size) = Done(h, size) + size
<1>1. Len(h) \in Nat /\ Len(Append(h, x)) = Len(h) + 1
  OBVIOUS
<1>2. (Len(h) + 1) * size = Len(h) * size + size /\ Len(h) * size \in Nat
  BY <1>1
<1> QED BY <1>1, <1>2 DEF Done

LEMMA Times ==
    ASSUME NEW m \in Nat, NEW n \in Nat, NEW size \in Nat, m <= n
    PROVE  m * size <= n * size /\ m * size \in Nat
<1>1. PICK d \in Nat : n = m + d
  <2>1. n - m \in Nat /\ n = m + (n - m)
    OBVIOUS
  <2> QED BY <2>1
<1>2. (m + d) * size = m * size + d * size /\ d * size \in Nat /\ m * size \in Nat
  OBVIOUS
<1>3. n * size = m * size + d * size
  BY <1>1, <1>2
<1> QED BY <1>2, <1>3

LEMMA SliceEmpty ==
    ASSUME NEW a \in Nat, a <= Total
    PROVE  Slice(a, a) = <<>>
<1>1. Slice(a, a) \in Seq(Byte) /\ Len(Slice(a, a)) = a - a
  BY SliceFacts
<1> QED BY <1>1

LEMMA FollowsStart ==
    ASSUME NEW size \in Nat \ {0}
    PROVE  Follows(<<>>, size, 0, <<>>, <<>>)
<1>1. <<>> \in Seq(Seq(Byte)) /\ Len(<<>>) = 0
  OBVIOUS
<1>2. Slice(0, 0) = <<>>
  BY SliceEmpty, ResourceTyped
<1>3. Done(<<>>, size) = 0
  BY <1>1 DEF Done
<1> QED BY <1>1, <1>2, <1>3 DEF Follows, Cut

LEMMA FollowsUpdate ==
    ASSUME NEW h, NEW size \in Nat, NEW c \in Nat, NEW o, NEW n \in Nat, c + n <= Total,
           Follows(h, size, c, o, <<>>)
    PROVE  Follows(h, size, c + n, o, SubSeq(Resource, c + 1, c + n))
<1> DEFINE d == Done(h, size) + Len(o)
<1>0. h \in Seq(Seq(Byte)) /\ Len(h) \in Nat
  BY DEF Follows, Cut
<1>1. Done(h, size) \in Nat
  BY <1>0 DEF Done
<1>2. d = c
  <2>1. Len(<<>>) = 0
    OBVIOUS
  <2>2. Done(h, size) + Len(o) + Len(<<>>) = c /\ Len(o) \in Nat
    BY DEF Follows
  <2> QED BY <1>1, <2>1, <2>2
<1>3. SubSeq(Resource, c + 1, c + n) = Slice(d, c + n)
  BY <1>2 DEF Slice
<1>4. Len(SubSeq(Resource, c + 1, c + n)) = n
  <2>1. Len(Slice(c, c + n)) = (c + n) - c
    BY SliceFacts
  <2> QED BY <2>1 DEF Slice
<1>5. d + n = c + n
  BY <1>2
<1> QED BY <1>3, <1>4, <1>5 DEF Follows

LEMMA FollowsTyped ==
    ASSUME NEW h, NEW size \in Nat, NEW c \in Nat, c <= Total, NEW o, NEW r,
           Follows(h, size, c, o, r)
    PROVE  o \in Seq(Byte) /\ r \in Seq(Byte) /\ h \in Seq(Seq(Byte))
<1> DEFINE d == Done(h, size)
           e == d + Len(o)
<1>1. h \in Seq(Seq(Byte)) /\ d \in Nat
  <2>1. h \in Seq(Seq(Byte)) /\ Len(h) \in Nat
    BY DEF Follows, Cut
  <2> QED BY <2>1 DEF Done
<1>2. o = Slice(d, e) /\ r = Slice(e, c) /\ e + Len(r) = c /\ Len(o) \in Nat /\ Len(r) \in Nat
  BY <1>1 DEF Follows
<1> HIDE DEF d
<1>3. e \in Nat /\ d <= e /\ e <= c /\ e <= Total
  BY <1>1, <1>2, ResourceTyped
<1> HIDE DEF e
<1> QED BY <1>1, <1>2, <1>3, SliceFacts

(* One turn of the loop of update().                                       *)
LEMMA FollowsTake ==
    ASSUME NEW h, NEW size \in Nat \ {0}, NEW c \in Nat, c <= Total, NEW o, NEW r,
           Follows(h, size, c, o, r)
    PROVE  LET take == Shorter(Len(r), size - Len(o))
               fed == o \o SubSeq(r, 1, take)
               rest == SubSeq(r, take + 1, Len(r))
           IN  IF Len(fed) = size THEN Follows(Append(h, fed), size, c, <<>>, rest)
               ELSE Follows(h, size, c, fed, rest)
<1> DEFINE take == Shorter(Len(r), size - Len(o))
           fed == o \o SubSeq(r, 1, take)
           rest == SubSeq(r, take + 1, Len(r))
           d == Done(h, size)
           e == d + Len(o)
<1>1. h \in Seq(Seq(Byte)) /\ Len(h) \in Nat /\ d \in Nat
  <2>1. h \in Seq(Seq(Byte)) /\ Len(h) \in Nat
    BY DEF Follows, Cut
  <2> QED BY <2>1 DEF Done
<1>2. /\ Len(o) \in Nat /\ Len(r) \in Nat /\ Len(o) < size /\ e + Len(r) = c
      /\ o = Slice(d, e) /\ r = Slice(e, c)
  BY <1>1 DEF Follows
<1>3. take \in 0 .. Len(r) /\ take <= size - Len(o)
  BY <1>2 DEF Shorter
<1> HIDE DEF take, d
<1>4. e \in Nat /\ d <= e /\ e <= c /\ c - e = Len(r) /\ e - d = Len(o)
      /\ e + take \in Nat /\ e <= e + take /\ e + take <= c /\ (e + take) - d = Len(o) + take
      /\ c - (e + take) = Len(r) - take /\ e + take <= Total /\ e <= Total
      /\ take \in 0 .. (c - e)
  BY <1>1, <1>2, <1>3, ResourceTyped
<1>5. SubSeq(r, 1, take) = Slice(e, e + take) /\ rest = Slice(e + take, c)
  <2> HIDE DEF e
  <2>1. SubSeq(Slice(e, c), 1, take) = Slice(e, e + take)
    BY <1>4, SliceHead
  <2>2. SubSeq(Slice(e, c), take + 1, Len(Slice(e, c))) = Slice(e + take, c)
    BY <1>4, SliceRest
  <2> QED BY <1>2, <2>1, <2>2
<1>6. fed = Slice(d, e + take)
  <2> HIDE DEF e
  <2> DEFINE top == e + take
  <2>1. d \in Nat /\ e \in Nat /\ top \in Nat /\ d <= e /\ e <= top /\ top <= Total
    BY <1>1, <1>4, ResourceTyped
  <2>2. Slice(d, e) \o Slice(e, top) = Slice(d, top)
    <3> HIDE DEF top
    <3> QED BY <2>1, SliceJoin
  <2> QED BY <1>2, <1>5, <2>2
<1> HIDE DEF e
<1>7. fed \in Seq(Byte) /\ Len(fed) = Len(o) + take
  <2>1. d <= e + take
    BY <1>1, <1>4
  <2>2. Slice(d, e + take) \in Seq(Byte) /\ Len(Slice(d, e + take)) = (e + take) - d
    BY <1>1, <1>4, <2>1, SliceFacts
  <2> QED BY <1>4, <1>6, <2>2
<1>8. Len(rest) = Len(r) - take
  <2>1. Len(Slice(e + take, c)) = c - (e + take)
    BY <1>4, SliceFacts
  <2> QED BY <1>4, <1>5, <2>1
<1> HIDE DEF fed, rest
<1>9. Cut(h, size)
  BY DEF Follows
<1>10. CASE Len(fed) = size
  <2> DEFINE g == Append(h, fed)
  <2>1. Done(g, size) = d + size /\ d + size = e + take
    <3>1. Done(g, size) = d + size
      BY <1>1, <1>7, DoneFacts DEF d
    <3>2. d + size = e + take
      <4>1. e = d + Len(o) /\ size = Len(o) + take
        BY <1>7, <1>10 DEF e
      <4>2. d \in Int /\ Len(o) \in Int /\ take \in Int
        BY <1>1, <1>2, <1>3
      <4>3. d + (Len(o) + take) = (d + Len(o)) + take
        BY <4>2
      <4> QED BY <4>1, <4>3
    <3> QED BY <3>1, <3>2
  <2>2. g \in Seq(Seq(Byte)) /\ Len(g) = Len(h) + 1 /\ g[Len(h) + 1] = fed
        /\ \A i \in 1 .. Len(h) : g[i] = h[i]
    BY <1>1, <1>7
  <2>3. Cut(g, size)
    <3>1. fed = Slice(((Len(h) + 1) - 1) * size, (Len(h) + 1) * size)
      <4>1. (Len(h) + 1) - 1 = Len(h) /\ (Len(h) + 1) * size = Len(h) * size + size
        BY <1>1
      <4> QED BY <1>6, <2>1, <4>1 DEF d, Done
    <3> HIDE DEF g
    <3>2. \A i \in 1 .. Len(g) : i \in 1 .. Len(h) \/ i = Len(h) + 1
      BY <1>1, <2>2
    <3> QED BY <1>9, <2>2, <3>1, <3>2 DEF Cut
  <2> HIDE DEF g
  <2>4. Slice(Done(g, size), Done(g, size) + Len(<<>>)) = <<>> /\ Len(<<>>) = 0
    <3>1. Slice(e + take, e + take) = <<>>
      BY <1>4, SliceEmpty
    <3>2. Len(<<>>) = 0 /\ (e + take) + 0 = e + take
      BY <1>4
    <3> QED BY <2>1, <3>1, <3>2
  <2>5. rest = Slice(Done(g, size) + Len(<<>>), c)
    <3>1. (e + take) + 0 = e + take
      BY <1>4
    <3> QED BY <1>5, <2>1, <2>4, <3>1
  <2>6. Done(g, size) + Len(<<>>) + Len(rest) = c
    BY <1>2, <1>3, <1>4, <1>8, <2>1, <2>4
  <2>7. Len(rest) \in Nat /\ Len(<<>>) \in Nat /\ Len(<<>>) < size
    BY <1>2, <1>3, <1>8, <2>4
  <2>8. Follows(g, size, c, <<>>, rest)
    BY <2>3, <2>4, <2>5, <2>6, <2>7 DEF Follows
  <2> QED BY <1>10, <2>8 DEF g, fed, rest, take
<1>11. CASE Len(fed) # size
  <2>1. Len(fed) < size /\ Len(fed) \in Nat /\ Len(rest) \in Nat
    BY <1>2, <1>3, <1>7, <1>8, <1>11
  <2>2. d + Len(fed) = e + take
    BY <1>1, <1>2, <1>3, <1>7 DEF e
  <2>3. d + Len(fed) + Len(rest) = c
    BY <1>2, <1>3, <1>4, <1>8, <2>2
  <2>4. Follows(h, size, c, fed, rest)
    BY <1>5, <1>6, <1>9, <2>1, <2>2, <2>3 DEF Follows, d
  <2> QED BY <1>11, <2>4 DEF fed, rest, take
<1> QED BY <1>10, <1>11

(* The digests one after another, whatever their number: the recursion of  *)
(* FlattenSeq is met by the function that gives the bytes up to the i-th   *)
(* boundary, and by no other, as the first difference shows.               *)
LEMMA FlattenCut ==
    ASSUME NEW h, NEW size \in Nat, Cut(h, size), Done(h, size) <= Total
    PROVE  FlattenSeq(h) = Slice(0, Done(h, size))
<1>0. h \in Seq(Seq(Byte)) /\ Len(h) \in Nat
  BY DEF Cut
<1>1. CASE Len(h) = 0
  <2>1. h = <<>> /\ Done(h, size) = 0
    BY <1>0, <1>1 DEF Done
  <2> QED BY <1>1, <2>1, SliceEmpty, ResourceTyped DEF FlattenSeq
<1>2. CASE Len(h) # 0
  <2> DEFINE D == 1 .. Len(h)
             F(g) == [i \in D |-> IF i = 1 THEN h[i] ELSE g[i - 1] \o h[i]]
             e == [i \in D |-> Slice(0, i * size)]
             flat == CHOOSE g : g = F(g)
  <2>1. FlattenSeq(h) = flat[Len(h)]
    BY <1>2, Zenon DEF FlattenSeq
  <2>2. ASSUME NEW i \in D
        PROVE  Slice(0, i * size) = IF i = 1 THEN h[i] ELSE Slice(0, (i - 1) * size) \o h[i]
    <3>1. h[i] = Slice((i - 1) * size, i * size)
      BY DEF Cut
    <3>2. i \in Nat /\ i - 1 \in Nat /\ i - 1 <= i /\ i <= Len(h)
      BY <1>0
    <3>3. i * size \in Nat /\ (i - 1) * size \in Nat /\ (i - 1) * size <= i * size
          /\ i * size <= Len(h) * size
      BY <1>0, <3>2, Times
    <3>4. i * size <= Total
      BY <1>0, <3>3, ResourceTyped, Times DEF Done
    <3>5. CASE i = 1
      <4>1. (1 - 1) * size = 0
        OBVIOUS
      <4> QED BY <3>1, <3>5, <4>1
    <3>6. CASE i # 1
      <4>1. Slice(0, (i - 1) * size) \o Slice((i - 1) * size, i * size) = Slice(0, i * size)
        <5> DEFINE a == (i - 1) * size
                   b == i * size
        <5>1. a \in Nat /\ b \in Nat /\ a <= b /\ b <= Total /\ 0 <= a
          BY <3>3, <3>4
        <5> HIDE DEF a, b
        <5>2. Slice(0, a) \o Slice(a, b) = Slice(0, b)
          BY <5>1, SliceJoin
        <5> QED BY <5>2 DEF a, b
      <4> QED BY <3>1, <3>6, <4>1
    <3> QED BY <3>5, <3>6
  <2>3. e = F(e)
    <3>1. ASSUME NEW i \in D PROVE e[i] = IF i = 1 THEN h[i] ELSE e[i - 1] \o h[i]
      <4>1. CASE i = 1
        BY <2>2, <4>1
      <4>2. CASE i # 1
        <5>1. i - 1 \in D
          BY <1>0, <4>2
        <5> QED BY <2>2, <4>2, <5>1
      <4> QED BY <4>1, <4>2
    <3> QED BY <3>1
  <2>4. flat = F(flat)
    <3> HIDE DEF e, F
    <3> QED BY <2>3
  <2> HIDE DEF flat, e
  <2>5. \A i \in D : flat[i] = IF i = 1 THEN h[i] ELSE flat[i - 1] \o h[i]
    BY <2>4
  <2> DEFINE Differ == {i \in D : flat[i] # Slice(0, i * size)}
             R == {ss \in Nat \X Nat : ss[1] < ss[2]}
  <2>6. Differ = {}
    <3> SUFFICES ASSUME Differ # {} PROVE FALSE
      OBVIOUS
    <3>1. IsWellFoundedOn(R, Nat)
      BY NatLessThanWellFounded DEF OpToRel
    <3>2. Differ \in SUBSET Nat
      OBVIOUS
    <3>3. PICK i \in Differ : \A k \in Differ : ~(<<k, i>> \in R)
      <4> HIDE DEF R, Differ
      <4> QED BY <3>1, <3>2, WFMin
    <3>4. i \in D /\ flat[i] # Slice(0, i * size)
      OBVIOUS
    <3>5. i # 1
      BY <2>2, <2>5, <3>4
    <3>6. i - 1 \in D /\ i - 1 \in Nat /\ i \in Nat /\ i - 1 < i
      BY <1>0, <3>4, <3>5
    <3>7. <<i - 1, i>> \in Nat \X Nat /\ <<i - 1, i>>[1] = i - 1 /\ <<i - 1, i>>[2] = i
      BY <3>6
    <3>8. <<i - 1, i>> \in R
      BY <3>6, <3>7
    <3>9. i - 1 \notin Differ
      BY <3>3, <3>8
    <3>10. flat[i - 1] = Slice(0, (i - 1) * size)
      BY <3>6, <3>9
    <3> QED BY <2>2, <2>5, <3>4, <3>5, <3>10
  <2>7. flat[Len(h)] = Slice(0, Len(h) * size)
    <3>1. Len(h) \in D
      BY <1>0, <1>2
    <3> QED BY <2>6, <3>1
  <2> QED BY <2>1, <2>7 DEF Done
<1> QED BY <1>1, <1>2

LEMMA FollowsFlat ==
    ASSUME NEW h, NEW size \in Nat, NEW c \in Nat, c <= Total, NEW o, NEW r,
           Follows(h, size, c, o, r)
    PROVE  /\ FlattenSeq(h) \o o \o r = SubSeq(Resource, 1, c)
           /\ \A i \in 1 .. Len(h) : Len(h[i]) = size
<1> DEFINE d == Done(h, size)
           e == d + Len(o)
<1>1. h \in Seq(Seq(Byte)) /\ Len(h) \in Nat /\ d \in Nat
  <2>1. h \in Seq(Seq(Byte)) /\ Len(h) \in Nat
    BY DEF Follows, Cut
  <2> QED BY <2>1 DEF Done
<1>2. /\ Len(o) \in Nat /\ Len(r) \in Nat /\ e + Len(r) = c
      /\ o = Slice(d, e) /\ r = Slice(e, c) /\ Cut(h, size)
  BY <1>1 DEF Follows
<1> HIDE DEF d
<1>3. e \in Nat /\ d <= e /\ e <= c /\ d <= Total /\ e <= Total /\ 0 <= d /\ 0 <= e
  BY <1>1, <1>2, ResourceTyped
<1> HIDE DEF e
<1>4. FlattenSeq(h) = Slice(0, d)
  BY <1>2, <1>3, FlattenCut DEF d
<1>5. Slice(0, d) \o o = Slice(0, e)
  <2>1. Slice(0, d) \o Slice(d, e) = Slice(0, e)
    BY <1>1, <1>3, SliceJoin
  <2> QED BY <1>2, <2>1
<1>6. Slice(0, e) \o r = Slice(0, c)
  <2>1. Slice(0, e) \o Slice(e, c) = Slice(0, c)
    BY <1>3, SliceJoin
  <2> QED BY <1>2, <2>1
<1>7. Slice(0, c) = SubSeq(Resource, 1, c)
  BY DEF Slice
<1>8. ASSUME NEW i \in 1 .. Len(h) PROVE Len(h[i]) = size
  <2> DEFINE a == (i - 1) * size
             b == i * size
  <2>1. h[i] = Slice(a, b)
    BY <1>2 DEF Cut
  <2>2. i \in Nat /\ i - 1 \in Nat /\ i - 1 <= i /\ i <= Len(h)
    BY <1>1
  <2>3. a \in Nat /\ b \in Nat /\ a <= b /\ b <= Len(h) * size
    BY <1>1, <2>2, Times
  <2>4. b <= Total
    BY <1>1, <1>3, <2>3, ResourceTyped DEF d, Done
  <2>5. b = a + size
    BY <2>2
  <2> HIDE DEF a, b
  <2>6. Len(Slice(a, b)) = b - a
    BY <2>3, <2>4, SliceFacts
  <2> QED BY <2>1, <2>3, <2>5, <2>6
<1> QED BY <1>4, <1>5, <1>6, <1>7, <1>8

(* A checkpoint that lost digests at its end: the builder gets what is     *)
(* left of them and reads the bytes behind those again.                    *)
LEMMA FollowsAgain ==
    ASSUME NEW h, NEW size \in Nat \ {0}, NEW c \in Nat, c <= Total, NEW o,
           Follows(h, size, c, o, <<>>), NEW n \in 0 .. Len(h)
    PROVE  LET g == SubSeq(h, 1, n)
           IN  /\ Len(g) = n /\ Done(g, size) <= c
               /\ Follows(g, size, c, <<>>, Slice(Done(g, size), c))
               /\ o # <<>> => Slice(Done(g, size), c) # <<>>
               /\ n = Len(h) => Slice(Done(g, size), c) = o
<1> DEFINE g == SubSeq(h, 1, n)
           d == Done(g, size)
           r == Slice(d, c)
<1>1. h \in Seq(Seq(Byte)) /\ Len(h) \in Nat /\ Cut(h, size)
  BY DEF Follows, Cut
<1>2. g \in Seq(Seq(Byte)) /\ Len(g) = n /\ \A i \in 1 .. n : g[i] = h[i]
  BY <1>1
<1> HIDE DEF g
<1>3. Cut(g, size)
  <2>1. \A i \in 1 .. n : i \in 1 .. Len(h)
    BY <1>1
  <2> QED BY <1>1, <1>2, <2>1 DEF Cut
<1>4. d \in Nat /\ d <= Done(h, size) /\ Done(h, size) \in Nat
  <2>1. n \in Nat /\ n <= Len(h)
    BY <1>1
  <2>2. n * size <= Len(h) * size /\ n * size \in Nat
    <3>1. size \in Nat
      OBVIOUS
    <3> QED BY <1>1, <2>1, <3>1, Times
  <2>3. Len(h) * size \in Nat
    BY <1>1
  <2> QED BY <1>2, <2>2, <2>3 DEF Done
<1>5. /\ Len(o) \in Nat /\ Done(h, size) + Len(o) = c
      /\ o = Slice(Done(h, size), Done(h, size) + Len(o))
  <2>1. Len(<<>>) = 0
    OBVIOUS
  <2> QED BY <1>4, <2>1 DEF Follows
<1> HIDE DEF d
<1>6. d <= c /\ d <= Total
  BY <1>4, <1>5, ResourceTyped
<1>7. Len(r) = c - d /\ r \in Seq(Byte)
  BY <1>4, <1>6, SliceFacts
<1>8. Slice(d, d) = <<>> /\ Len(<<>>) = 0
  BY <1>4, <1>6, SliceEmpty
<1>9. Follows(g, size, c, <<>>, r)
  <2>1. d + Len(<<>>) = d /\ d + Len(<<>>) + Len(r) = c /\ Len(r) \in Nat
    BY <1>4, <1>6, <1>7, <1>8
  <2>2. Len(<<>>) < size /\ Len(<<>>) \in Nat
    BY <1>8
  <2> QED BY <1>3, <1>8, <2>1, <2>2 DEF Follows, d
<1>10. ASSUME o # <<>> PROVE r # <<>>
  <2>1. Len(o) # 0
    <3>1. Slice(Done(h, size), c) \in Seq(Byte) /\ Slice(Done(h, size), c) = o
      <4>1. Done(h, size) <= c
        BY <1>4, <1>5
      <4> QED BY <1>4, <1>5, <4>1, SliceFacts
    <3> QED BY <1>10, <3>1
  <2>2. Len(r) # 0
    BY <1>4, <1>5, <1>7, <2>1
  <2> QED BY <1>8, <2>2
<1>11. ASSUME n = Len(h) PROVE r = o
  BY <1>2, <1>5, <1>11 DEF d, Done
<1> QED BY <1>2, <1>6, <1>9, <1>10, <1>11 DEF g, d

-----------------------------------------------------------------------------
(* hash_file.                                                              *)

(* The number of blocks, the last of which may be shorter.                 *)
LEMMA Blocks ==
    ASSUME NEW k \in Nat, NEW size \in Nat \ {0}, NEW rest \in 0 .. (size - 1)
    PROVE  (k * size + rest + size - 1) \div size = IF rest = 0 THEN k ELSE k + 1
<1> DEFINE x == k * size + rest + size - 1
           q == x \div size
           n == IF rest = 0 THEN k ELSE k + 1
<1>1. k * size \in Nat /\ x \in Nat /\ n \in Nat
  OBVIOUS
<1>2. q \in Int /\ q * size <= x /\ x < q * size + size
  <2> HIDE DEF x
  <2>1. x \in Int /\ size \in Int /\ size > 0
    BY <1>1
  <2>2. x = size * (x \div size) + (x % size) /\ x % size \in 0 .. (size - 1)
        /\ x \div size \in Int
    BY <2>1
  <2> QED BY <2>1, <2>2
<1>3. n * size <= x /\ x < n * size + size
  <2>1. (k + 1) * size = k * size + size
    OBVIOUS
  <2> QED BY <1>1, <2>1
<1> HIDE DEF q, x, n
<1>4. ASSUME NEW a \in Int, NEW b \in Int, a < b, x < a * size + size, b * size <= x
      PROVE  FALSE
  <2>1. PICK e \in Nat : b = a + 1 + e
    <3>1. b - (a + 1) \in Nat /\ b = a + 1 + (b - (a + 1))
      BY <1>4
    <3> QED BY <3>1
  <2>2. (a + 1 + e) * size = a * size + size + e * size /\ e * size \in Nat /\ a * size \in Int
    OBVIOUS
  <2>3. b * size = a * size + size + e * size
    BY <2>1, <2>2
  <2> QED BY <1>1, <1>4, <2>2, <2>3
<1>5. ~(q < n) /\ ~(n < q)
  BY <1>1, <1>2, <1>3, <1>4
<1>6. q = n
  BY <1>1, <1>2, <1>5
<1> QED BY <1>6 DEF q, x, n

(* finalize() at the end of the resource returns what hash_file returns.   *)
LEMMA FollowsTree ==
    ASSUME NEW h, NEW size \in Nat \ {0}, NEW o, Follows(h, size, Total, o, <<>>)
    PROVE  (IF o = <<>> THEN h ELSE Append(h, o)) = TreeHash(Resource, size)
<1> DEFINE d == Done(h, size)
           n == IF o = <<>> THEN Len(h) ELSE Len(h) + 1
           g == IF o = <<>> THEN h ELSE Append(h, o)
           s == [i \in 1 .. n |-> SubSeq(Resource, (i - 1) * size + 1, Shorter(i * size, Total))]
<1>1. h \in Seq(Seq(Byte)) /\ Len(h) \in Nat /\ Cut(h, size) /\ d \in Nat /\ d = Len(h) * size
  <2>1. h \in Seq(Seq(Byte)) /\ Len(h) \in Nat /\ Cut(h, size)
    BY DEF Follows, Cut
  <2> QED BY <2>1 DEF Done
<1>2. /\ Len(o) \in Nat /\ d + Len(o) = Total /\ o = Slice(d, Total) /\ Len(o) < size
  <2>1. Len(<<>>) = 0
    OBVIOUS
  <2>2. /\ Len(o) \in Nat /\ d + Len(o) + Len(<<>>) = Total /\ Len(o) < size
        /\ o = Slice(d, d + Len(o))
    BY DEF Follows
  <2> QED BY <1>1, <2>1, <2>2
<1> HIDE DEF d
<1>3. o \in Seq(Byte)
  BY <1>1, <1>2, ResourceTyped, SliceFacts
<1>4. (o = <<>>) <=> Len(o) = 0
  BY <1>3
<1>5. (Len(Resource) + size - 1) \div size = n
  <2>1. Len(Resource) = Len(h) * size + Len(o)
    BY <1>1, <1>2 DEF Total
  <2>2. (Len(h) * size + Len(o) + size - 1) \div size = IF Len(o) = 0 THEN Len(h) ELSE Len(h) + 1
    <3>1. Len(o) \in 0 .. (size - 1)
      BY <1>2
    <3> QED BY <1>1, <3>1, Blocks
  <2> QED BY <1>4, <2>1, <2>2
<1>6. TreeHash(Resource, size) = s
  BY <1>5, Zenon DEF TreeHash, Total
<1>7. g \in Seq(Seq(Byte)) /\ Len(g) = n /\ (\A i \in 1 .. Len(h) : g[i] = h[i])
      /\ (o # <<>> => g[Len(h) + 1] = o)
  BY <1>1, <1>3
<1>8. ASSUME NEW i \in 1 .. n PROVE g[i] = s[i]
  <2>0. i \in Nat /\ i # 0 /\ i <= n
    BY <1>1
  <2>1. CASE i <= Len(h)
    <3>1. i * size <= Len(h) * size /\ i * size \in Nat
      BY <1>1, <2>0, <2>1, Times
    <3>2. i * size <= Total
      BY <1>1, <1>2, <3>1
    <3>3. Shorter(i * size, Total) = i * size
      BY <3>1, <3>2, ResourceTyped DEF Shorter
    <3>4. g[i] = Slice((i - 1) * size, i * size)
      BY <1>1, <1>7, <2>0, <2>1 DEF Cut
    <3>5. s[i] = SubSeq(Resource, (i - 1) * size + 1, Shorter(i * size, Total))
      BY Zenon
    <3> HIDE DEF s, g
    <3> QED BY <3>3, <3>4, <3>5, Zenon DEF Slice
  <2>2. CASE ~(i <= Len(h))
    <3>1. i = Len(h) + 1 /\ o # <<>> /\ i - 1 = Len(h)
      BY <1>1, <2>0, <2>2
    <3>2. (Len(h) + 1) * size = Len(h) * size + size
      BY <1>1
    <3>3. i * size > Total /\ i * size \in Nat
      BY <1>1, <1>2, <3>1, <3>2
    <3>4. Shorter(i * size, Total) = Total
      BY <3>3, ResourceTyped DEF Shorter
    <3>5. g[i] = Slice((i - 1) * size, Total)
      BY <1>1, <1>2, <1>7, <3>1
    <3>6. s[i] = SubSeq(Resource, (i - 1) * size + 1, Shorter(i * size, Total))
      BY Zenon
    <3> HIDE DEF s, g
    <3> QED BY <3>4, <3>5, <3>6, Zenon DEF Slice
  <2> QED BY <2>1, <2>2
<1>9. DOMAIN g = 1 .. n /\ g = [i \in 1 .. n |-> g[i]]
  <2> HIDE DEF g, n
  <2> QED BY <1>7
<1>10. s = [i \in 1 .. n |-> s[i]]
  BY Zenon
<1> HIDE DEF s, g, n
<1>11. g = s
  BY <1>8, <1>9, <1>10, Zenon
<1> QED BY <1>6, <1>11, Zenon DEF g

-----------------------------------------------------------------------------
(* The codec.                                                              *)

LEMMA EncodeFacts ==
    ASSUME NEW cp, Sound(cp)
    PROVE  LET f == Encode(cp)
           IN  /\ f.cut = "no" /\ f # NoFile /\ ~Raises(f) /\ PayloadFits(f) /\ f.sound
               /\ f.tail = cp.tail /\ f.padding = Padding(cp)
<1>1. cp.etag \in Nat
  BY SavedFacts DEF Sound
<1>2. TlvSize(cp) \in Nat
  <2> DEFINE named == IF cp.etag # 0 THEN Framed(cp.etag) ELSE 0
             length == IF cp.reported # NoLength THEN Framed(8) ELSE 0
             hashed == IF cp.tail # <<>> THEN Framed(DigestSize) ELSE 0
  <2>1. named \in Nat
    BY <1>1 DEF Framed
  <2>2. length \in Nat
    BY DEF Framed
  <2>3. hashed \in Nat
    BY DEF Framed, DigestSize
  <2>4. TlvSize(cp) = named + length + hashed
    BY DEF TlvSize
  <2> HIDE DEF named, length, hashed
  <2> QED BY <2>1, <2>2, <2>3, <2>4
<1>3. Padding(cp) \in Int
  BY <1>2 DEF Padding, CoreSize, Alignment
<1>4. RawSize(cp) \in Int
  BY DEF RawSize, DigestSize
<1>5. HeaderSize(cp) \in Int
  BY <1>2, <1>3, <1>4 DEF HeaderSize, CoreSize
<1>6. (HeaderSize(cp) - HeaderSize(cp)) % DigestSize = 0
  BY <1>5 DEF DigestSize
<1>7. NoFile.cut = "missing"
  BY DEF NoFile
<1> QED BY <1>6, <1>7 DEF Encode, PayloadFits, Raises

(* Damage that leaves a control file readable took digests at its end.     *)
LEMMA DamagedFacts ==
    ASSUME NEW cp, Sound(cp), NEW f \in Damaged(Encode(cp)), Decodable(f)
    PROVE  \E n \in 0 .. Len(cp.hashes) : f = [Encode(cp) EXCEPT !.hashes = SubSeq(@, 1, n)]
<1> DEFINE w == Encode(cp)
<1>1. CASE f \in {[w EXCEPT !.etag = @ + 1, !.sound = FALSE],
                  [w EXCEPT !.reported = @ + 1, !.sound = FALSE],
                  [w EXCEPT !.tail = Tail(@), !.sound = FALSE]}
  <2>1. ~f.sound
    BY <1>1 DEF Encode
  <2> QED BY <2>1 DEF Decodable
<1>2. CASE f \in {[w EXCEPT !.cut = "digest"], [w EXCEPT !.cut = "extensions"],
                  [w EXCEPT !.cut = "core"]}
  <2>1. f.cut \in {"digest", "extensions", "core"}
    BY <1>2 DEF Encode
  <2> QED BY <2>1 DEF Decodable, PayloadFits
<1>3. CASE f \in {[w EXCEPT !.hashes = SubSeq(@, 1, n)] : n \in 0 .. (Len(w.hashes) - 1)}
  <2>1. PICK n \in 0 .. (Len(w.hashes) - 1) : f = [w EXCEPT !.hashes = SubSeq(@, 1, n)]
    BY <1>3
  <2>2. w.hashes = cp.hashes /\ Len(cp.hashes) \in Nat
    BY DEF Encode, Sound, Follows, Cut
  <2> HIDE DEF w
  <2>3. n \in 0 .. Len(cp.hashes)
    BY <2>2
  <2> QED BY <2>1, <2>3 DEF w
<1> QED BY <1>1, <1>2, <1>3 DEF Damaged

LEMMA SameSaved ==
    ASSUME NEW p \in Saved, NEW q \in Saved,
           p.cursor = q.cursor, p.block = q.block, p.extent = q.extent, p.etag = q.etag,
           p.reported = q.reported, p.tail = q.tail, p.hashes = q.hashes
    PROVE  p = q
BY DEF Saved

LEMMA SameButHashes ==
    ASSUME NEW p \in Saved, NEW q \in Saved,
           p.cursor = q.cursor, p.block = q.block, p.extent = q.extent, p.etag = q.etag,
           p.reported = q.reported, p.tail = q.tail
    PROVE  [p EXCEPT !.hashes = <<>>] = [q EXCEPT !.hashes = <<>>]
<1>1. ASSUME NEW r \in Saved
      PROVE  LET e == [r EXCEPT !.hashes = <<>>]
             IN  /\ e \in Saved /\ e.cursor = r.cursor /\ e.block = r.block
                 /\ e.extent = r.extent /\ e.etag = r.etag /\ e.reported = r.reported
                 /\ e.tail = r.tail /\ e.hashes = <<>>
  <2>1. <<>> \in Seq(Seq(Byte))
    OBVIOUS
  <2> QED BY <2>1 DEF Saved
<1> DEFINE e == [p EXCEPT !.hashes = <<>>]
           f == [q EXCEPT !.hashes = <<>>]
<1>2. /\ e \in Saved /\ e.cursor = p.cursor /\ e.block = p.block /\ e.extent = p.extent
      /\ e.etag = p.etag /\ e.reported = p.reported /\ e.tail = p.tail /\ e.hashes = <<>>
  BY <1>1, Zenon
<1>3. /\ f \in Saved /\ f.cursor = q.cursor /\ f.block = q.block /\ f.extent = q.extent
      /\ f.etag = q.etag /\ f.reported = q.reported /\ f.tail = q.tail /\ f.hashes = <<>>
  BY <1>1, Zenon
<1> HIDE DEF e, f
<1>4. e = f
  BY <1>2, <1>3, SameSaved
<1> QED BY <1>4 DEF e, f

(* What a load makes of the control file.                                  *)
LEMMA LoadedFacts ==
    ASSUME Kept, Loads
    PROVE  /\ Sound(saved)
           /\ \E n \in 0 .. Len(saved.hashes) :
                  Decode(ctrl) = [cursor |-> saved.cursor, block |-> saved.block,
                                  extent |-> saved.extent, etag |-> saved.etag,
                                  reported |-> saved.reported, tail |-> saved.tail,
                                  hashes |-> SubSeq(saved.hashes, 1, n)]
<1>1. Sound(saved) /\ Decodable(ctrl) /\ (ctrl = Encode(saved) \/ ctrl \in Damaged(Encode(saved)))
  BY DEF Kept, Loads
<1>2. saved.hashes \in Seq(Seq(Byte)) /\ Len(saved.hashes) \in Nat
  BY <1>1 DEF Sound, Follows, Cut
<1>3. PICK n \in 0 .. Len(saved.hashes) :
          ctrl = [Encode(saved) EXCEPT !.hashes = SubSeq(@, 1, n)]
  <2>1. CASE ctrl = Encode(saved)
    <3>1. Encode(saved).hashes = SubSeq(saved.hashes, 1, Len(saved.hashes))
      BY <1>2 DEF Encode
    <3>2. ctrl = [Encode(saved) EXCEPT !.hashes = SubSeq(@, 1, Len(saved.hashes))]
      BY <2>1, <3>1 DEF Encode
    <3>3. Len(saved.hashes) \in 0 .. Len(saved.hashes)
      BY <1>2
    <3> QED BY <3>2, <3>3
  <2>2. CASE ctrl \in Damaged(Encode(saved))
    BY <1>1, <2>2, DamagedFacts
  <2> QED BY <1>1, <2>1, <2>2
<1>4. saved.extent \in {NoLength, Total}
  BY <1>1, SavedFacts DEF Sound
<1>5. /\ ctrl.cursor = saved.cursor /\ ctrl.block = saved.block /\ ctrl.etag = saved.etag
      /\ ctrl.reported = saved.reported /\ ctrl.tail = saved.tail
      /\ ctrl.hashes = SubSeq(saved.hashes, 1, n)
      /\ ctrl.extent = IF saved.extent = NoLength THEN 0 ELSE saved.extent
  BY <1>3 DEF Encode
<1>6. (IF ctrl.extent > 0 THEN ctrl.extent ELSE NoLength) = saved.extent
  BY <1>4, <1>5, ResourceTyped DEF NoLength
<1> QED BY <1>1, <1>5, <1>6 DEF Decode

(* What prepare_haul gives the next attempt.                               *)
LEMMA PreparedFacts ==
    ASSUME Kept
    PROVE  /\ Prepared.cursor \in 0 .. Total /\ Prepared.block \in BlockSizes
           /\ Prepared.etag \in Etags /\ Prepared.hashes \in Seq(Seq(Byte))
           /\ Follows(Prepared.hashes, Prepared.block, Prepared.cursor, <<>>, Reread(Prepared))
<1>0. \A cp : Reread(cp) = Slice(Done(cp.hashes, cp.block), cp.cursor)
  BY DEF Reread, Slice, Done
<1>1. CASE Loads
  <2>1. Prepared = Decode(ctrl) /\ Sound(saved)
    BY <1>1, LoadedFacts DEF Prepared
  <2>2. PICK n \in 0 .. Len(saved.hashes) :
            Prepared = [cursor |-> saved.cursor, block |-> saved.block,
                        extent |-> saved.extent, etag |-> saved.etag,
                        reported |-> saved.reported, tail |-> saved.tail,
                        hashes |-> SubSeq(saved.hashes, 1, n)]
    BY <1>1, <2>1, LoadedFacts
  <2>3. /\ Prepared.cursor = saved.cursor /\ Prepared.block = saved.block
        /\ Prepared.etag = saved.etag /\ Prepared.hashes = SubSeq(saved.hashes, 1, n)
    BY <2>2
  <2>4. /\ saved.cursor \in 0 .. Total /\ saved.block \in BlockSizes /\ saved.etag \in Etags
        /\ Follows(saved.hashes, saved.block, saved.cursor, saved.tail, <<>>)
    BY <2>1, SavedFacts DEF Sound
  <2>5. /\ saved.cursor \in Nat /\ saved.cursor <= Total /\ saved.block \in Nat \ {0}
        /\ n \in 0 .. Len(saved.hashes)
    BY <2>4, BlockFacts, CursorFacts
  <2>6. LET g == SubSeq(saved.hashes, 1, n)
        IN  Follows(g, saved.block, saved.cursor, <<>>, Slice(Done(g, saved.block), saved.cursor))
    BY <2>4, <2>5, FollowsAgain, Zenon
  <2>7. Follows(Prepared.hashes, Prepared.block, Prepared.cursor, <<>>, Reread(Prepared))
    BY <1>0, <2>3, <2>6, Zenon
  <2>8. Prepared.hashes \in Seq(Seq(Byte))
    BY <2>7, Zenon DEF Follows, Cut
  <2> QED BY <2>3, <2>4, <2>7, <2>8
<1>2. CASE ~Loads
  <2>1. /\ Prepared.cursor = 0 /\ Prepared.block = DefaultBlock
        /\ Prepared.etag = 0 /\ Prepared.hashes = <<>>
    BY <1>2 DEF Prepared
  <2>2. DefaultBlock \in Nat \ {0} /\ Done(<<>>, DefaultBlock) = 0
    <3>1. DefaultBlock \in Nat \ {0} /\ Len(<<>>) = 0
      OBVIOUS
    <3> QED BY <3>1 DEF Done
  <2>3. Reread(Prepared) = <<>>
    BY <1>0, <2>1, <2>2, SliceEmpty, ResourceTyped
  <2>4. Follows(<<>>, DefaultBlock, 0, <<>>, <<>>)
    BY <2>2, FollowsStart
  <2>5. <<>> \in Seq(Seq(Byte))
    OBVIOUS
  <2> QED BY <2>1, <2>3, <2>4, <2>5, ResourceTyped
<1> QED BY <1>1, <1>2

-----------------------------------------------------------------------------
(* The steps.                                                              *)

LEMMA NoPlanFacts ==
    NoPlan \in Plan /\ Follows(NoPlan.hashes, NoPlan.block, NoPlan.cursor, <<>>, <<>>)
<1>1. NoPlan.block \in BlockSizes /\ NoPlan.etag \in Etags
  BY DEF NoPlan
<1>2. NoPlan.cursor = 0 /\ NoPlan.hashes = <<>> /\ <<>> \in Seq(Seq(Byte)) /\ 0 \in 0 .. Total
  BY ResourceTyped DEF NoPlan
<1>3. NoPlan \in Plan
  BY <1>1, <1>2 DEF NoPlan, Plan
<1>4. NoPlan.block \in Nat \ {0}
  BY <1>1
<1> QED BY <1>2, <1>3, <1>4, FollowsStart

LEMMA InitInv == Init => HInv
BY NoPlanFacts DEF Init, HInv, Building, Kept, HashIsOfFile

LEMMA StopBuilding ==
    ASSUME Stop
    PROVE  pc' = "idle" /\ (plan \in Plan)' /\ Building'
BY NoPlanFacts DEF Stop, Building

LEMMA Begin200Inv ==
    ASSUME HInv, NEW b \in BlockSizes, NEW e \in Etags, NEW total \in {NoLength, Total},
           Begin200(b, e, total)
    PROVE  HInv'
<1>1. <<>> \in Seq(Seq(Byte)) /\ 0 \in 0 .. Total /\ b \in Nat \ {0}
  BY ResourceTyped
<1>2. (plan \in Plan)'
  BY <1>1 DEF Begin200, Plan
<1>3. Building'
  BY <1>1, FollowsStart DEF Begin200, Building
<1>4. (Kept /\ HashIsOfFile)'
  BY DEF HInv, Begin200, Kept, HashIsOfFile
<1> QED BY <1>2, <1>3, <1>4 DEF HInv, Begin200

LEMMA Begin206Inv ==
    ASSUME HInv, NEW e \in Etags, NEW total \in {NoLength, Total}, Begin206(e, total)
    PROVE  HInv'
<1>1. /\ Prepared.cursor \in 0 .. Total /\ Prepared.block \in BlockSizes
      /\ Prepared.etag \in Etags /\ Prepared.hashes \in Seq(Seq(Byte))
      /\ Follows(Prepared.hashes, Prepared.block, Prepared.cursor, <<>>, Reread(Prepared))
  BY PreparedFacts DEF HInv
<1>2. /\ plan' = [cursor |-> Prepared.cursor, block |-> Prepared.block, extent |-> total,
                  etag |-> IF e # 0 THEN e ELSE Prepared.etag, reported |-> total,
                  hashes |-> Prepared.hashes]
      /\ block' = <<>> /\ pending' = Reread(Prepared) /\ pc' = "stream" /\ result' = NoResult
      /\ ctrl' = ctrl /\ saved' = saved
  BY DEF Begin206
<1>3. (plan \in Plan)'
  BY <1>1, <1>2 DEF Plan
<1>4. Building'
  BY <1>1, <1>2 DEF Building
<1>5. (Kept /\ HashIsOfFile)'
  BY <1>2 DEF HInv, Kept, HashIsOfFile
<1> QED BY <1>2, <1>3, <1>4, <1>5 DEF HInv

LEMMA Begin416Inv ==
    ASSUME HInv, Begin416
    PROVE  HInv'
<1>1. /\ Prepared.block \in BlockSizes /\ Prepared.block \in Nat \ {0} /\ Prepared.etag \in Etags
      /\ <<>> \in Seq(Seq(Byte)) /\ 0 \in 0 .. Total
  <2>1. <<>> \in Seq(Seq(Byte)) /\ 0 \in 0 .. Total
    BY ResourceTyped
  <2> QED BY <2>1, PreparedFacts, BlockFacts DEF HInv
<1>2. /\ plan' = [cursor |-> 0, block |-> Prepared.block, extent |-> NoLength,
                  etag |-> Prepared.etag, reported |-> NoLength, hashes |-> <<>>]
      /\ block' = <<>> /\ pending' = <<>> /\ pc' = "hash_file" /\ result' = NoResult
      /\ ctrl' = ctrl /\ saved' = saved
  BY DEF Begin416
<1>3. (plan \in Plan)'
  BY <1>1, <1>2 DEF Plan
<1>4. Building'
  BY <1>1, <1>2, FollowsStart DEF Building
<1>5. (Kept /\ HashIsOfFile)'
  BY <1>2 DEF HInv, Kept, HashIsOfFile
<1> QED BY <1>2, <1>3, <1>4, <1>5 DEF HInv

LEMMA Reset416Inv ==
    ASSUME HInv, Reset416
    PROVE  HInv'
<1>1. /\ Prepared.block \in BlockSizes /\ Prepared.block \in Nat \ {0} /\ 0 \in 0 .. Total
      /\ <<>> \in Seq(Byte) /\ <<>> \in Seq(Seq(Byte))
  <2>1. <<>> \in Seq(Byte) /\ <<>> \in Seq(Seq(Byte)) /\ 0 \in 0 .. Total
    BY ResourceTyped
  <2> QED BY <2>1, PreparedFacts, BlockFacts DEF HInv
<1>2. Sound(saved')
  <2>1. Follows(<<>>, Prepared.block, 0, <<>>, <<>>)
    BY <1>1, FollowsStart
  <2> QED BY <1>1, <2>1 DEF Reset416, Sound, Saved
<1>3. ctrl' = Encode(saved')
  BY DEF Reset416
<1>4. Kept'
  BY <1>2, <1>3, Zenon DEF Kept
<1>5. (Building /\ HashIsOfFile)' /\ (plan \in Plan)' /\ pc' = pc
  BY DEF HInv, Reset416, Building, HashIsOfFile
<1> QED BY <1>4, <1>5 DEF HInv

LEMMA UpdateInv ==
    ASSUME HInv, NEW n \in 1 .. (MaxChunk + IoChunk), Update(n)
    PROVE  HInv'
<1>1. /\ plan \in Plan /\ plan.cursor \in Nat /\ plan.block \in Nat /\ n \in Nat
      /\ plan.cursor + n <= Total /\ pending = <<>>
  BY PlanFacts DEF HInv, Update
<1>2. /\ plan' = [plan EXCEPT !.cursor = @ + n] /\ block' = block
      /\ pending' = SubSeq(Resource, plan.cursor + 1, plan.cursor + n)
      /\ pc' = pc /\ ctrl' = ctrl /\ saved' = saved /\ result' = result
  BY DEF Update
<1>3. /\ plan'.cursor = plan.cursor + n /\ plan'.block = plan.block /\ plan'.hashes = plan.hashes
      /\ plan' \in Plan
  <2>1. plan.cursor + n \in 0 .. Total
    BY <1>1, ResourceTyped
  <2> QED BY <1>1, <1>2, <2>1 DEF Plan
<1>4. Follows(plan.hashes, plan.block, plan.cursor, block, <<>>)
  BY <1>1 DEF HInv, Building
<1>5. Follows(plan.hashes, plan.block, plan.cursor + n, block, pending')
  BY <1>1, <1>2, <1>4, FollowsUpdate
<1>6. Building'
  BY <1>2, <1>3, <1>5 DEF Building
<1>7. (Kept /\ HashIsOfFile)'
  BY <1>2 DEF HInv, Kept, HashIsOfFile
<1> QED BY <1>2, <1>3, <1>6, <1>7 DEF HInv

LEMMA TakeInv ==
    ASSUME HInv, Take
    PROVE  HInv'
<1> DEFINE take == Shorter(Len(pending), plan.block - Len(block))
           fed == block \o SubSeq(pending, 1, take)
           rest == SubSeq(pending, take + 1, Len(pending))
<1>1. /\ plan \in Plan /\ plan.cursor \in Nat /\ plan.cursor <= Total /\ plan.block \in Nat \ {0}
      /\ Follows(plan.hashes, plan.block, plan.cursor, block, pending)
  BY PlanFacts DEF HInv, Building
<1>2. IF Len(fed) = plan.block
        THEN Follows(Append(plan.hashes, fed), plan.block, plan.cursor, <<>>, rest)
        ELSE Follows(plan.hashes, plan.block, plan.cursor, fed, rest)
  BY <1>1, FollowsTake
<1>3. /\ pending' = rest
      /\ IF Len(fed) = plan.block
           THEN block' = <<>> /\ plan' = [plan EXCEPT !.hashes = Append(@, fed)]
           ELSE block' = fed /\ plan' = plan
      /\ pc' = pc /\ ctrl' = ctrl /\ saved' = saved /\ result' = result
  BY DEF Take
<1> HIDE DEF fed, rest
<1>4. CASE Len(fed) = plan.block
  <2>1. Append(plan.hashes, fed) \in Seq(Seq(Byte))
    BY <1>2, <1>4 DEF Follows, Cut
  <2>2. /\ plan'.hashes = Append(plan.hashes, fed) /\ plan'.block = plan.block
        /\ plan'.cursor = plan.cursor /\ plan' \in Plan
    BY <1>1, <1>3, <1>4, <2>1 DEF Plan
  <2> QED BY <1>2, <1>3, <1>4, <2>2 DEF Building, HInv, Kept, HashIsOfFile
<1>5. CASE Len(fed) # plan.block
  BY <1>1, <1>2, <1>3, <1>5 DEF Building, HInv, Kept, HashIsOfFile
<1> QED BY <1>4, <1>5

LEMMA FinishInv ==
    ASSUME HInv, Finish
    PROVE  HInv'
<1>1. /\ plan.block \in Nat \ {0}
      /\ Follows(plan.hashes, plan.block, Total, block, <<>>)
  BY PlanFacts DEF HInv, Building, Finish
<1>2. (IF block = <<>> THEN plan.hashes ELSE Append(plan.hashes, block))
          = TreeHash(Resource, plan.block)
  BY <1>1, FollowsTree
<1>3. result'.hashes = TreeHash(Resource, result'.block)
  BY <1>2 DEF Finish
<1>4. HashIsOfFile'
  BY <1>3 DEF HashIsOfFile
<1>5. Kept'
  BY DEF Finish, Kept
<1>6. pc' = "idle" /\ (plan \in Plan)' /\ Building'
  BY StopBuilding DEF Finish
<1> QED BY <1>4, <1>5, <1>6 DEF HInv

LEMMA SaveInv ==
    ASSUME HInv, Save
    PROVE  HInv'
<1>1. plan \in Plan /\ Follows(plan.hashes, plan.block, plan.cursor, block, <<>>)
  BY DEF HInv, Building, Save
<1>2. Sound(Checkpoint)
  <2>1. block \in Seq(Byte)
    BY <1>1, PlanFacts, FollowsTyped
  <2> QED BY <1>1, <2>1 DEF Checkpoint, Sound, Plan, Saved
<1>3. saved' = Checkpoint /\ ctrl' = Encode(Checkpoint)
  BY DEF Save
<1>4. Kept'
  BY <1>2, <1>3, Zenon DEF Kept
<1>5. (Building /\ HashIsOfFile)' /\ (plan \in Plan)' /\ pc' = pc
  BY DEF HInv, Save, Building, HashIsOfFile
<1> QED BY <1>4, <1>5 DEF HInv

LEMMA DamageInv ==
    ASSUME HInv, Damage
    PROVE  HInv'
<1>1. Sound(saved) /\ ctrl' \in Damaged(Encode(saved)) /\ saved' = saved
  BY DEF HInv, Damage, Kept
<1>2. Kept'
  BY <1>1, Zenon DEF Kept
<1>3. (Building /\ HashIsOfFile)' /\ (plan \in Plan)' /\ pc' = pc
  BY DEF HInv, Damage, Building, HashIsOfFile
<1> QED BY <1>2, <1>3 DEF HInv

LEMMA StepInv == HInv /\ [Next]_vars => HInv'
<1> SUFFICES ASSUME HInv, [Next]_vars PROVE HInv'
  OBVIOUS
<1>1. CASE Interrupt
  <2>1. (Kept /\ HashIsOfFile)'
    BY <1>1 DEF HInv, Interrupt, Kept, HashIsOfFile
  <2> QED BY <1>1, <2>1, StopBuilding DEF Interrupt, HInv
<1>2. CASE UNCHANGED vars
  BY <1>2 DEF vars, HInv, Building, Kept, HashIsOfFile
<1>3. CASE LoadRaises
  BY <1>2, <1>3 DEF LoadRaises
<1> QED
  BY <1>1, <1>2, <1>3, Begin200Inv, Begin206Inv, Begin416Inv, Reset416Inv, UpdateInv, TakeInv,
     FinishInv, SaveInv, DamageInv DEF Next

THEOREM HashInvariant == Spec => []HInv
BY InitInv, StepInv, PTL DEF Spec

-----------------------------------------------------------------------------
(* The variables keep their types; in particular the cursor stays within   *)
(* the resource, however many chunks and attempts there are.               *)
THEOREM HashTyped == Spec => []TypeOK
<1>1. HInv => TypeOK
  <2> SUFFICES ASSUME HInv PROVE TypeOK
    OBVIOUS
  <2>1. plan \in Plan /\ Follows(plan.hashes, plan.block, plan.cursor, block, pending)
    BY DEF HInv, Building
  <2>2. block \in Seq(Byte) /\ pending \in Seq(Byte)
    BY <2>1, PlanFacts, FollowsTyped
  <2> QED BY <2>1, <2>2 DEF HInv, TypeOK, Plan, Byte
<1> QED BY <1>1, HashInvariant, PTL

(* At every turn of update() the digests and the open block are the bytes  *)
(* up to the cursor that are not pending, cut at multiples of the block    *)
(* size (HashBuilder, _types.py), for resources, blocks, chunks and I/O    *)
(* sizes of any length and any number of attempts.                         *)
THEOREM BuildersFollow == Spec => []BuilderFollows
<1>1. HInv => BuilderFollows
  <2> SUFFICES ASSUME HInv PROVE BuilderFollows
    OBVIOUS
  <2>1. plan \in Plan /\ Follows(plan.hashes, plan.block, plan.cursor, block, pending)
    BY DEF HInv, Building
  <2>2. plan.block \in Nat /\ plan.cursor \in Nat /\ plan.cursor <= Total
    BY <2>1, PlanFacts
  <2>3. /\ FlattenSeq(plan.hashes) \o block \o pending = SubSeq(Resource, 1, plan.cursor)
        /\ \A i \in 1 .. Len(plan.hashes) : Len(plan.hashes[i]) = plan.block
    BY <2>1, <2>2, FollowsFlat
  <2>4. Len(block) < plan.block
    BY <2>1 DEF Follows
  <2> QED BY <2>3, <2>4 DEF BuilderFollows
<1> QED BY <1>1, HashInvariant, PTL

(* The hash of a download in any number of attempts is the one hash_file   *)
(* computes of the complete file (_types.py:368).                          *)
THEOREM HashesOfFile == Spec => []HashIsOfFile
<1>1. HInv => HashIsOfFile
  BY DEF HInv
<1> QED BY <1>1, HashInvariant, PTL

(* A control file that loads, damaged or not, holds the checkpoint that    *)
(* was saved, but for digests at the end (V1BinaryCodec, checkpoint.py).   *)
THEOREM LoadsWhatWasSaved == Spec => []LoadedIsSaved
<1>1. HInv => LoadedIsSaved
  <2> SUFFICES ASSUME HInv, Loads PROVE
          /\ [Decode(ctrl) EXCEPT !.hashes = <<>>] = [saved EXCEPT !.hashes = <<>>]
          /\ IsPrefix(Decode(ctrl).hashes, saved.hashes)
    BY DEF LoadedIsSaved
  <2>1. PICK n \in 0 .. Len(saved.hashes) :
            Decode(ctrl) = [cursor |-> saved.cursor, block |-> saved.block,
                            extent |-> saved.extent, etag |-> saved.etag,
                            reported |-> saved.reported, tail |-> saved.tail,
                            hashes |-> SubSeq(saved.hashes, 1, n)]
    BY LoadedFacts DEF HInv
  <2>2. saved.hashes \in Seq(Seq(Byte))
    BY LoadedFacts, SavedFacts DEF HInv, Sound
  <2>3. [Decode(ctrl) EXCEPT !.hashes = <<>>] = [saved EXCEPT !.hashes = <<>>]
    <3>1. saved \in Saved /\ SubSeq(saved.hashes, 1, n) \in Seq(Seq(Byte))
      BY <2>2, LoadedFacts DEF HInv, Sound
    <3>2. /\ Decode(ctrl) \in Saved
          /\ Decode(ctrl).cursor = saved.cursor /\ Decode(ctrl).block = saved.block
          /\ Decode(ctrl).extent = saved.extent /\ Decode(ctrl).etag = saved.etag
          /\ Decode(ctrl).reported = saved.reported /\ Decode(ctrl).tail = saved.tail
      BY <2>1, <3>1 DEF Saved
    <3> QED BY <3>1, <3>2, SameButHashes
  <2>4. IsPrefix(SubSeq(saved.hashes, 1, n), saved.hashes)
    <3> DEFINE h == saved.hashes
               g == SubSeq(h, 1, n)
    <3>1. h \in Seq(Seq(Byte)) /\ Len(h) \in Nat
      BY <2>2
    <3> HIDE DEF h
    <3>2. Len(g) = n /\ g \in Seq(Seq(Byte)) /\ n <= Len(h)
      BY <3>1 DEF h
    <3>3. SubSeq(g, 1, n) = g
      BY <3>2
    <3> QED BY <3>2, <3>3 DEF IsPrefix, h
  <2> QED BY <2>1, <2>3, <2>4
<1> QED BY <1>1, HashInvariant, PTL

(* What was saved can be loaded, but for a tail hash behind extensions     *)
(* that need no padding.                                                   *)
THEOREM LoadsUnlessItIsAligned == Spec => []LoadsUnlessAligned
<1>1. HInv => LoadsUnlessAligned
  <2> SUFFICES ASSUME HInv, Intact
               PROVE  Decodable(ctrl) \/ (saved.tail # <<>> /\ Padding(saved) = 0)
    BY DEF LoadsUnlessAligned
  <2>1. Sound(saved) /\ ctrl = Encode(saved)
    BY DEF HInv, Kept, Intact
  <2>2. /\ ctrl.cut = "no" /\ PayloadFits(ctrl) /\ ctrl.sound
        /\ ctrl.tail = saved.tail /\ ctrl.padding = Padding(saved)
    BY <2>1, EncodeFacts
  <2> QED BY <2>2 DEF Decodable, MeetsRaw
<1> QED BY <1>1, HashInvariant, PTL
=============================================================================
