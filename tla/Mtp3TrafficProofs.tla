-------------------------- MODULE Mtp3TrafficProofs --------------------------
(***************************************************************************)
(* The messages of Mtp3Linkset, for any number of links, adjacent          *)
(* signalling points and messages, any timers and any peers: which buffer  *)
(* of which link, or which route, holds each of them through every         *)
(* function, that none is held twice, and that none waits at a link whose  *)
(* SP has prohibited its destination.                                      *)
(***************************************************************************)
EXTENDS Mtp3LinksetProofs, FiniteSetTheorems

(* Sequences. *)

\* No element twice.
Plain(q) == \A k, l \in DOMAIN q : q[k] = q[l] => k = l

LEMMA RangeOf ==
    ASSUME NEW S, NEW q \in Seq(S)
    PROVE  /\ DOMAIN q = 1 .. Len(q) /\ Len(q) \in Nat
           /\ Range(q) \subseteq S
           /\ \A m : m \in Range(q) <=> \E k \in 1 .. Len(q) : q[k] = m
BY ElementOfSeq, LenProperties DEF Range

LEMMA IsASeqOf ==
    ASSUME NEW S, NEW n \in Nat, NEW q, q = [k \in 1 .. n |-> q[k]],
           \A k \in 1 .. n : q[k] \in S
    PROVE  q \in Seq(S)
BY IsASeq

LEMMA EmptyPlain ==
    /\ Plain(<<>>) /\ Range(<<>>) = {} /\ \A S : <<>> \in Seq(S)
BY DEF Plain, Range

LEMMA OnePlain ==
    ASSUME NEW m
    PROVE  Plain(<<m>>) /\ Range(<<m>>) = {m} /\ \A S : m \in S => <<m>> \in Seq(S)
BY DEF Plain, Range

LEMMA ConcatPlain ==
    ASSUME NEW S, NEW q \in Seq(S), NEW r \in Seq(S)
    PROVE  /\ q \o r \in Seq(S) /\ Range(q \o r) = Range(q) \cup Range(r)
           /\ Plain(q) /\ Plain(r) /\ Range(q) \cap Range(r) = {} => Plain(q \o r)
<1>1. /\ q \o r \in Seq(S) /\ Len(q \o r) = Len(q) + Len(r)
      /\ \A k \in 1 .. Len(q) + Len(r) :
             (q \o r)[k] = IF k <= Len(q) THEN q[k] ELSE r[k - Len(q)]
  BY ConcatProperties
<1>2. Len(q) \in Nat /\ Len(r) \in Nat BY LenProperties
<1>3. /\ \A m : m \in Range(q) <=> \E k \in 1 .. Len(q) : q[k] = m
      /\ \A m : m \in Range(r) <=> \E k \in 1 .. Len(r) : r[k] = m
      /\ \A m : m \in Range(q \o r) <=> \E k \in 1 .. Len(q) + Len(r) : (q \o r)[k] = m
      /\ DOMAIN q = 1 .. Len(q) /\ DOMAIN r = 1 .. Len(r)
      /\ DOMAIN (q \o r) = 1 .. Len(q) + Len(r)
  BY <1>1, RangeOf
<1> DEFINE p == q \o r
<1> HIDE DEF p
<1>4. ASSUME NEW m PROVE m \in Range(p) <=> m \in Range(q) \/ m \in Range(r)
  <2>1. ASSUME NEW k \in 1 .. Len(q), q[k] = m PROVE \E l \in 1 .. Len(q) + Len(r) : p[l] = m
    BY <1>1, <1>2, <2>1 DEF p
  <2>2. ASSUME NEW k \in 1 .. Len(r), r[k] = m PROVE \E l \in 1 .. Len(q) + Len(r) : p[l] = m
    <3>1. k + Len(q) \in 1 .. Len(q) + Len(r) /\ ~(k + Len(q) <= Len(q))
          /\ (k + Len(q)) - Len(q) = k
      BY <1>2
    <3>2. p[k + Len(q)] = r[k] BY <1>1, <3>1 DEF p
    <3>q. QED BY <2>2, <3>1, <3>2
  <2>3. ASSUME NEW k \in 1 .. Len(q) + Len(r), p[k] = m
        PROVE  m \in Range(q) \/ m \in Range(r)
    <3>1. CASE k <= Len(q) BY <1>1, <1>2, <1>3, <2>3, <3>1 DEF p
    <3>2. CASE ~(k <= Len(q))
      <4>1. k - Len(q) \in 1 .. Len(r) BY <1>2, <3>2
      <4>q. QED BY <1>1, <1>3, <2>3, <3>2, <4>1 DEF p
    <3>q. QED BY <3>1, <3>2
  <2>q. QED BY <1>3, <2>1, <2>2, <2>3 DEF p
<1>5. ASSUME Plain(q), Plain(r), Range(q) \cap Range(r) = {} PROVE Plain(p)
  <2> SUFFICES ASSUME NEW k \in 1 .. Len(q) + Len(r), NEW l \in 1 .. Len(q) + Len(r),
                      p[k] = p[l], k <= l
               PROVE  k = l
    BY <1>2, <1>3 DEF Plain, p
  <2>1. CASE l <= Len(q)
    <3>1. k \in 1 .. Len(q) /\ l \in 1 .. Len(q) BY <1>2, <2>1
    <3>2. p[k] = q[k] /\ p[l] = q[l] BY <1>1, <3>1 DEF p
    <3>q. QED BY <1>3, <1>5, <3>1, <3>2 DEF Plain
  <2>2. CASE ~(l <= Len(q)) /\ k <= Len(q)
    <3>1. k \in 1 .. Len(q) /\ l - Len(q) \in 1 .. Len(r) BY <1>2, <2>2
    <3>2. p[k] = q[k] /\ p[l] = r[l - Len(q)] BY <1>1, <2>2 DEF p
    <3>q. QED BY <1>3, <1>5, <3>1, <3>2
  <2>3. CASE ~(k <= Len(q))
    <3>1. /\ k - Len(q) \in 1 .. Len(r) /\ l - Len(q) \in 1 .. Len(r)
          /\ ~(l <= Len(q))
      BY <1>2, <2>3
    <3>2. p[k] = r[k - Len(q)] /\ p[l] = r[l - Len(q)] BY <1>1, <2>3, <3>1 DEF p
    <3>3. k - Len(q) = l - Len(q) BY <1>3, <1>5, <3>1, <3>2 DEF Plain
    <3>q. QED BY <1>2, <3>3
  <2>q. QED BY <1>2, <2>1, <2>2, <2>3
<1>q. QED BY <1>1, <1>4, <1>5 DEF p

\* FlattenSeq is defined by a recursive function: that there is one, and what it
\* returns, follow from the least length for which it would not be so.
LEMMA LeastLength ==
    ASSUME NEW S, S \subseteq Nat, S # {}
    PROVE  \E n \in S : \A k \in S : n <= k
<1> DEFINE R == {p \in Nat \X Nat : p[1] < p[2]}
<1>1. IsWellFoundedOn(R, Nat)
  <2>1. OpToRel(<, Nat) = R BY DEF OpToRel
  <2>q. QED BY <2>1, NatLessThanWellFounded
<1> HIDE DEF R
<1>2. PICK n \in S : \A k \in S : ~ (<<k, n>> \in R) BY <1>1, WFMin
<1>3. ASSUME NEW k \in S PROVE n <= k
  <2>1. n \in Nat /\ k \in Nat /\ <<k, n>> \notin R BY <1>2
  <2>2. <<k, n>>[1] = k /\ <<k, n>>[2] = n OBVIOUS
  <2>q. QED BY <2>1, <2>2 DEF R
<1>q. QED BY <1>3

Flattens(f, seqs, n) ==
    f = [k \in 1 .. n |-> IF k = 1 THEN seqs[k] ELSE f[k - 1] \o seqs[k]]

LEMMA FlattenExists ==
    ASSUME NEW seqs, NEW n \in Nat, n > 0
    PROVE  \E f : Flattens(f, seqs, n)
<1> DEFINE Bad == {k \in Nat \ {0} : ~ \E f : Flattens(f, seqs, k)}
<1>1. SUFFICES ASSUME Bad # {} PROVE FALSE OBVIOUS
<1>2. PICK k \in Bad : \A l \in Bad : k <= l BY <1>1, LeastLength
<1>3. CASE k = 1
  <2> DEFINE f == [l \in 1 .. 1 |-> seqs[l]]
  <2>1. f = [l \in 1 .. 1 |-> IF l = 1 THEN seqs[l] ELSE f[l - 1] \o seqs[l]] OBVIOUS
  <2>q. QED BY <1>2, <1>3, <2>1 DEF Flattens
<1>4. CASE k # 1
  <2>1. k \in Nat \ {0} /\ k - 1 \in Nat \ {0} /\ k - 1 \notin Bad BY <1>2, <1>4
  <2>2. PICK g : Flattens(g, seqs, k - 1) BY <2>1
  <2> DEFINE f == [l \in 1 .. k |-> IF l = k THEN g[k - 1] \o seqs[k] ELSE g[l]]
             h == [l \in 1 .. k |-> IF l = 1 THEN seqs[l] ELSE f[l - 1] \o seqs[l]]
  <2>3. \A l \in 1 .. k - 1 : g[l] = IF l = 1 THEN seqs[l] ELSE g[l - 1] \o seqs[l]
    BY <2>2 DEF Flattens
  <2>4. ASSUME NEW l \in 1 .. k PROVE f[l] = h[l]
    <3>1. CASE l = 1
      <4>1. l \in 1 .. k - 1 /\ l # k BY <1>4, <2>1, <3>1
      <4>q. QED BY <2>3, <3>1, <4>1
    <3>2. CASE l # 1 /\ l = k
      <4>1. k - 1 \in 1 .. k /\ k - 1 # k BY <2>1
      <4>q. QED BY <3>2, <4>1
    <3>3. CASE l # 1 /\ l # k
      <4>1. l \in 1 .. k - 1 /\ l - 1 \in 1 .. k /\ l - 1 # k BY <2>1, <3>3
      <4>q. QED BY <2>3, <3>3, <4>1
    <3>q. QED BY <3>1, <3>2, <3>3
  <2>5. f = h BY <2>4
  <2>6. Flattens(f, seqs, k) BY <2>5 DEF Flattens
  <2>q. QED BY <1>2, <2>6
<1>q. QED BY <1>3, <1>4

LEMMA FlattenPlain ==
    ASSUME NEW S, NEW seqs \in Seq(Seq(S))
    PROVE  /\ FlattenSeq(seqs) \in Seq(S)
           /\ \A m : m \in Range(FlattenSeq(seqs)) <=> \E k \in DOMAIN seqs : m \in Range(seqs[k])
           /\ /\ \A k \in DOMAIN seqs : Plain(seqs[k])
              /\ \A k, l \in DOMAIN seqs : k # l => Range(seqs[k]) \cap Range(seqs[l]) = {}
              => Plain(FlattenSeq(seqs))
<1> DEFINE n == Len(seqs)
<1>1. DOMAIN seqs = 1 .. n /\ n \in Nat /\ \A k \in 1 .. n : seqs[k] \in Seq(S)
  BY ElementOfSeq, LenProperties
<1>2. CASE n = 0
  <2>1. FlattenSeq(seqs) = <<>> /\ DOMAIN seqs = {} BY <1>1, <1>2, EmptySeq DEF FlattenSeq
  <2>q. QED BY <2>1, EmptyPlain
<1>3. CASE n # 0
  <2> DEFINE F == CHOOSE f : Flattens(f, seqs, n)
  <2>1. \E f : Flattens(f, seqs, n)
    <3>1. n \in Nat /\ n > 0 BY <1>1, <1>3
    <3> HIDE DEF n
    <3>q. QED BY <3>1, FlattenExists
  <2>2. Flattens(F, seqs, n) BY <2>1
  <2>3. FlattenSeq(seqs) = F[n] BY <1>1, <1>3, <2>2 DEF FlattenSeq, Flattens
  <2> HIDE DEF F
  <2>4. \A k \in 1 .. n : F[k] = IF k = 1 THEN seqs[k] ELSE F[k - 1] \o seqs[k]
    BY <2>2 DEF Flattens
  <2> DEFINE Apart == /\ \A k \in DOMAIN seqs : Plain(seqs[k])
                      /\ \A k, l \in DOMAIN seqs :
                             k # l => Range(seqs[k]) \cap Range(seqs[l]) = {}
             Right(k) == /\ F[k] \in Seq(S)
                         /\ \A m : m \in Range(F[k]) <=> \E l \in 1 .. k : m \in Range(seqs[l])
                         /\ Apart => Plain(F[k])
             Bad == {k \in 1 .. n : ~Right(k)}
  <2>5. Bad = {}
    <3> SUFFICES ASSUME Bad # {} PROVE FALSE OBVIOUS
    <3>1. PICK k \in Bad : \A l \in Bad : k <= l
      <4>1. Bad \subseteq Nat BY <1>1
      <4> HIDE DEF Bad
      <4>q. QED BY <4>1, LeastLength
    <3>2. CASE k = 1
      <4>1. F[k] = seqs[k] /\ 1 .. k = {1} BY <2>4, <3>1, <3>2
      <4>2. Right(k) BY <1>1, <3>1, <3>2, <4>1
      <4>q. QED BY <3>1, <4>2
    <3>3. CASE k # 1
      <4>1. k \in 1 .. n BY <3>1
      <4>2. k - 1 \in 1 .. n /\ ~(k <= k - 1) BY <1>1, <3>3, <4>1
      <4>3. k - 1 \in 1 .. n /\ k \in 1 .. n /\ k - 1 \notin Bad BY <3>1, <4>1, <4>2
      <4>4. Right(k - 1) BY <4>3
      <4>5. F[k] = F[k - 1] \o seqs[k] BY <2>4, <3>3, <4>3
      <4>6. seqs[k] \in Seq(S) BY <1>1, <4>3
      <4> DEFINE a == F[k - 1]
                 b == seqs[k]
      <4>7. a \in Seq(S) /\ b \in Seq(S) /\ F[k] = a \o b BY <4>4, <4>5, <4>6
      <4>8. \A m : m \in Range(a) <=> \E l \in 1 .. k - 1 : m \in Range(seqs[l]) BY <4>4
      <4>9. Apart => Plain(a) /\ Plain(b) /\ Range(a) \cap Range(b) = {}
        <5>1. Apart => Plain(a) /\ Plain(b) BY <1>1, <4>3, <4>4
        <5>2. \A l \in 1 .. k - 1 : l \in DOMAIN seqs /\ k \in DOMAIN seqs /\ l # k
          BY <1>1, <4>3
        <5>3. Apart => \A l \in 1 .. k - 1 : Range(seqs[l]) \cap Range(seqs[k]) = {} BY <5>2
        <5> HIDE DEF Apart
        <5>q. QED BY <4>8, <5>1, <5>3
      <4> HIDE DEF Apart, a, Bad
      <4>10. F[k] \in Seq(S) /\ Range(F[k]) = Range(a) \cup Range(b) BY <4>7, ConcatPlain
      <4>11. Apart => Plain(F[k]) BY <4>7, <4>9, ConcatPlain
      <4>12. \A l : l \in 1 .. k <=> (l \in 1 .. k - 1 \/ l = k) BY <4>3
      <4>13. \A m : m \in Range(F[k]) <=> \E l \in 1 .. k : m \in Range(seqs[l])
        BY <4>8, <4>10, <4>12
      <4>14. Right(k) BY <4>10, <4>11, <4>13
      <4>q. QED BY <3>1, <4>14 DEF Bad
    <3>q. QED BY <3>2, <3>3
  <2>6. n \in 1 .. n BY <1>1, <1>3
  <2>7. Right(n) BY <2>5, <2>6
  <2>q. QED BY <1>1, <2>3, <2>7
<1>q. QED BY <1>2, <1>3

LEMMA OnlyPlain ==
    ASSUME NEW S, NEW q \in Seq(S), NEW T
    PROVE  /\ Only(q, T) \in Seq(S) /\ Range(Only(q, T)) = Range(q) \cap T
           /\ Plain(q) => Plain(Only(q, T))
<1> DEFINE seqs == [k \in DOMAIN q |-> IF q[k] \in T THEN <<q[k]>> ELSE <<>>]
<1>1. Only(q, T) = FlattenSeq(seqs) BY DEF Only
<1>2. DOMAIN q = 1 .. Len(q) /\ Len(q) \in Nat /\ \A k \in DOMAIN q : q[k] \in S
  BY ElementOfSeq, LenProperties
<1>3. \A k \in DOMAIN q : /\ seqs[k] \in Seq(S) /\ Plain(seqs[k])
                          /\ Range(seqs[k]) = {q[k]} \cap T
  BY <1>2, EmptyPlain, OnePlain
<1>4. seqs \in Seq(Seq(S)) BY <1>2, <1>3, IsASeq
<1>5. DOMAIN seqs = DOMAIN q OBVIOUS
<1> HIDE DEF seqs
<1>6. FlattenSeq(seqs) \in Seq(S) BY <1>4, FlattenPlain
<1>7. \A m : m \in Range(FlattenSeq(seqs)) <=> \E k \in DOMAIN q : m \in Range(seqs[k])
  BY <1>4, <1>5, FlattenPlain
<1>8. \A m : m \in Range(q) <=> \E k \in DOMAIN q : q[k] = m BY DEF Range
<1>9. Range(FlattenSeq(seqs)) = Range(q) \cap T BY <1>3, <1>7, <1>8
<1>10. ASSUME Plain(q) PROVE Plain(FlattenSeq(seqs))
  <2>1. \A k, l \in DOMAIN q : k # l => Range(seqs[k]) \cap Range(seqs[l]) = {}
    <3> SUFFICES ASSUME NEW k \in DOMAIN q, NEW l \in DOMAIN q, k # l
                 PROVE  Range(seqs[k]) \cap Range(seqs[l]) = {}
      OBVIOUS
    <3>1. q[k] # q[l] BY <1>10 DEF Plain
    <3>q. QED BY <1>3, <3>1
  <2>q. QED BY <1>3, <1>4, <1>5, <2>1, FlattenPlain
<1>q. QED BY <1>1, <1>6, <1>9, <1>10

-------------------------------------------------------------------------------
(* What a signalling point is made of. *)

BufferField == {"tx_q", "tx_buf", "co_buf", "cb_buf", "co_tx_q", "co_tx_buf"}

\* Everything but the buffers and the routes.
OtherField ==
    {"linkstate", "passed", "failed", "inhibit", "changeover", "sent", "timer", "orphan",
     "sp", "tra", "t19", "t21", "state", "linkset_up", "ev", "evrefused", "out"}

Field == BufferField \cup OtherField \cup {"route"}

TimerValue == Callback \cup {"off", "stale"}
Events     == {q \in Seq(LinkEvent \cup AppEvent) : Len(q) <= MaxEvents}
OutMsg     == [msg : NetMng \cup TestMsg, sls : Link, via : SUBSET Link]

Kind ==
    [linkstate  |-> [Link -> {"DOWN", "INALARM", "ALIGNING", "UP"}],
     passed     |-> [Link -> BOOLEAN],
     failed     |-> [Link -> 0 .. 1],
     inhibit    |-> [Link -> SUBSET Inhibit],
     changeover |-> [Link -> Changeover],
     sent       |-> [Link -> SUBSET SentMsg],
     timer      |-> [Link -> [LinkTimer -> TimerValue]],
     orphan     |-> SUBSET Slots,
     tx_q       |-> [Link -> Seq(Msg)],
     tx_buf     |-> [Link -> Seq(Msg)],
     co_buf     |-> [Link -> Seq(Msg)],
     cb_buf     |-> [Link -> Seq(Msg)],
     co_tx_q    |-> [Link -> Seq(Msg)],
     co_tx_buf  |-> [Link -> Seq(Msg)],
     route      |-> [Sp -> [Dest -> Route]],
     sp         |-> [Sp -> {"DOWN", "UP"}],
     tra        |-> [Sp -> SUBSET {"GOT", "SENT"}],
     t19        |-> [Sp -> BOOLEAN],
     t21        |-> [Sp -> BOOLEAN],
     state      |-> {"DOWN", "UP"},
     linkset_up |-> BOOLEAN,
     ev         |-> Events,
     evrefused  |-> BOOLEAN,
     out        |-> Seq(OutMsg)]

Shape(s) == s = [f \in Field |-> s[f]] /\ \A f \in Field : s[f] \in Kind[f]

LEMMA ShapeIsType ==
    ASSUME NEW s
    PROVE  Shape(s) <=> s \in Signalling /\ Len(s.ev) <= MaxEvents
<1>1. ASSUME Shape(s) PROVE s \in Signalling /\ Len(s.ev) <= MaxEvents
  BY <1>1
  DEF Shape, Signalling, Kind, Field, BufferField, OtherField, TimerValue, Events, OutMsg, Slots
<1>2. ASSUME s \in Signalling, Len(s.ev) <= MaxEvents PROVE Shape(s)
  BY <1>2
  DEF Shape, Signalling, Kind, Field, BufferField, OtherField, TimerValue, Events, OutMsg, Slots
<1>q. QED BY <1>1, <1>2

LEMMA BufferKind == \A f \in BufferField : Kind[f] = [Link -> Seq(Msg)] /\ f \in Field
BY DEF Kind, BufferField, Field

\* A function that alters some fields at most.
Alters(s, n, F) == n = [f \in Field |-> n[f]] /\ \A f \in Field \ F : n[f] = s[f]

LEMMA Altered ==
    ASSUME NEW s, Shape(s), NEW n, NEW F, Alters(s, n, F), \A f \in F : n[f] \in Kind[f]
    PROVE  Shape(n)
BY DEF Alters, Shape

-------------------------------------------------------------------------------
(* Where the messages are. *)

\* A buffer of a link, or what waits for a destination's T6.
Place == ({"link"} \X Link \X BufferField) \cup ({"route"} \X Sp \X Dest)
Box(s, p) == IF p[1] = "link" THEN s[p[3]][p[2]] ELSE s.route[p[2]][p[3]].q
Stock(s) == UNION {Range(Box(s, p)) : p \in Place}

\* A message is in one place, and once; it waits for T6 of its own destination; none
\* for a destination that an SP prohibits is at a link to that SP.
Apart(s) ==
    /\ \A p \in Place : Plain(Box(s, p))
    /\ \A p, q \in Place : p # q => Range(Box(s, p)) \cap Range(Box(s, q)) = {}
Queued(s) == \A sp \in Sp, d \in Dest : Range(s.route[sp][d].q) \subseteq MessagesFor(d)
Barred(s) == \A i \in Link, d \in Dest : s.route[AdjSp[i]][d].state = "TFP" =>
                 \A f \in BufferField : Range(s[f][i]) \cap MessagesFor(d) = {}

Tidy(s) == Shape(s) /\ Apart(s) /\ Queued(s) /\ Barred(s)

LEMMA PlaceOf ==
    /\ \A s, i, f : Box(s, <<"link", i, f>>) = s[f][i]
    /\ \A s, sp, d : Box(s, <<"route", sp, d>>) = s.route[sp][d].q
    /\ \A i \in Link, f \in BufferField : <<"link", i, f>> \in Place
    /\ \A sp \in Sp, d \in Dest : <<"route", sp, d>> \in Place
    /\ \A p \in Place : \/ \E i \in Link, f \in BufferField : p = <<"link", i, f>>
                        \/ \E sp \in Sp, d \in Dest : p = <<"route", sp, d>>
BY DEF Box, Place

LEMMA ShapeOf ==
    ASSUME NEW s, Shape(s)
    PROVE  /\ \A i \in Link, f \in BufferField : s[f][i] \in Seq(Msg)
           /\ \A sp \in Sp, d \in Dest : s.route[sp][d] \in Route
           /\ \A p \in Place : Box(s, p) \in Seq(Msg)
<1>1. \A i \in Link, f \in BufferField : s[f][i] \in Seq(Msg) BY BufferKind DEF Shape
<1>2. "route" \in Field /\ Kind.route = [Sp -> [Dest -> Route]] BY DEF Field, Kind
<1>3. \A sp \in Sp, d \in Dest : s.route[sp][d] \in Route BY <1>2 DEF Shape
<1>4. \A sp \in Sp, d \in Dest : s.route[sp][d].q \in Seq(Msg) BY <1>3 DEF Route
<1>q. QED BY <1>1, <1>3, <1>4, PlaceOf

\* Every place keeps what it has, or loses some of it.
LEMMA ShrunkTidy ==
    ASSUME NEW s, Tidy(s), NEW n, Shape(n),
           \A p \in Place : Plain(Box(n, p)) /\ Range(Box(n, p)) \subseteq Range(Box(s, p)),
           \A sp \in Sp, d \in Dest : n.route[sp][d].state = "TFP" => s.route[sp][d].state = "TFP"
    PROVE  Tidy(n) /\ Stock(n) \subseteq Stock(s)
<1>1. Apart(n) BY DEF Tidy, Apart
<1>2. /\ \A i \in Link, f \in BufferField : Range(n[f][i]) \subseteq Range(s[f][i])
      /\ \A sp \in Sp, d \in Dest : Range(n.route[sp][d].q) \subseteq Range(s.route[sp][d].q)
  <2>1. ASSUME NEW i \in Link, NEW f \in BufferField PROVE Range(n[f][i]) \subseteq Range(s[f][i])
    <3> DEFINE p == <<"link", i, f>>
    <3>1. p \in Place /\ Box(n, p) = n[f][i] /\ Box(s, p) = s[f][i] BY PlaceOf
    <3>q. QED BY <3>1
  <2>2. ASSUME NEW sp \in Sp, NEW d \in Dest
        PROVE  Range(n.route[sp][d].q) \subseteq Range(s.route[sp][d].q)
    <3> DEFINE p == <<"route", sp, d>>
    <3>1. /\ p \in Place /\ Box(n, p) = n.route[sp][d].q /\ Box(s, p) = s.route[sp][d].q
      BY PlaceOf
    <3>q. QED BY <3>1
  <2>q. QED BY <2>1, <2>2
<1>3. Queued(n) BY <1>2 DEF Tidy, Queued
<1>4. Barred(n)
  <2> SUFFICES ASSUME NEW i \in Link, NEW d \in Dest, n.route[AdjSp[i]][d].state = "TFP",
                      NEW f \in BufferField
               PROVE  Range(n[f][i]) \cap MessagesFor(d) = {}
    BY DEF Barred
  <2>1. AdjSp[i] \in Sp BY DestAssumption
  <2>2. s.route[AdjSp[i]][d].state = "TFP" BY <2>1
  <2>3. Range(s[f][i]) \cap MessagesFor(d) = {} BY <2>2 DEF Tidy, Barred
  <2>q. QED BY <1>2, <2>3
<1>5. Stock(n) \subseteq Stock(s) BY DEF Stock
<1>q. QED BY <1>1, <1>3, <1>4, <1>5 DEF Tidy

LEMMA OthersTidy ==
    ASSUME NEW s, Tidy(s), NEW n, Shape(n), n.route = s.route,
           \A f \in BufferField : n[f] = s[f]
    PROVE  Tidy(n) /\ Stock(n) = Stock(s)
<1>1. ASSUME NEW p \in Place PROVE Box(n, p) = Box(s, p)
  <2>1. CASE \E i \in Link, f \in BufferField : p = <<"link", i, f>> BY <2>1, PlaceOf
  <2>2. CASE \E sp \in Sp, d \in Dest : p = <<"route", sp, d>> BY <2>2, PlaceOf
  <2>q. QED BY <2>1, <2>2, PlaceOf
<1>2. \A p \in Place : Plain(Box(n, p)) /\ Range(Box(n, p)) \subseteq Range(Box(s, p))
  BY <1>1 DEF Tidy, Apart
<1>3. Tidy(n) BY <1>2, ShrunkTidy
<1>4. Stock(n) = Stock(s) BY <1>1 DEF Stock
<1>q. QED BY <1>3, <1>4

\* A function that alters neither buffers nor routes.
LEMMA AltersTidy ==
    ASSUME NEW s, Tidy(s), NEW n, NEW F \in SUBSET OtherField, Alters(s, n, F),
           \A f \in F : n[f] \in Kind[f]
    PROVE  Tidy(n) /\ Stock(n) = Stock(s)
<1>1. Shape(s) BY DEF Tidy
<1>2. Shape(n) BY <1>1, Altered
<1>3. BufferField \cap F = {} /\ "route" \notin F /\ BufferField \cup {"route"} \subseteq Field
  BY DEF BufferField, OtherField, Field
<1>4. n.route = s.route /\ \A f \in BufferField : n[f] = s[f] BY <1>3 DEF Alters
<1>q. QED BY <1>2, <1>4, OthersTidy

LEMMA FieldTidy ==
    ASSUME NEW s, Tidy(s), NEW f \in OtherField, NEW v \in Kind[f]
    PROVE  Tidy([s EXCEPT ![f] = v]) /\ Stock([s EXCEPT ![f] = v]) = Stock(s)
<1> DEFINE n == [s EXCEPT ![f] = v]
<1>1. Shape(s) /\ f \in Field BY DEF Tidy, Field
<1>2. Alters(s, n, {f}) /\ n[f] = v BY <1>1 DEF Alters, Shape
<1> HIDE DEF n
<1>3. \A g \in {f} : n[g] \in Kind[g] BY <1>2
<1>4. {f} \in SUBSET OtherField OBVIOUS
<1>5. Tidy(n) /\ Stock(n) = Stock(s) BY <1>2, <1>3, <1>4, AltersTidy
<1>q. QED BY <1>5 DEF n

\* What a link holds, in all of its buffers.
Content(s, i) == UNION {Range(s[f][i]) : f \in BufferField}

\* Messages change buffers at a link, or are freed.
LEMMA MovedTidy ==
    ASSUME NEW s, Tidy(s), NEW n, Shape(n), NEW i \in Link, n.route = s.route,
           \A j \in Link \ {i}, f \in BufferField : n[f][j] = s[f][j],
           \A f \in BufferField : Plain(n[f][i]) /\ Range(n[f][i]) \subseteq Content(s, i),
           \A f, g \in BufferField : f # g => Range(n[f][i]) \cap Range(n[g][i]) = {}
    PROVE  Tidy(n) /\ Stock(n) \subseteq Stock(s)
<1> DEFINE Here == {<<"link", i, f>> : f \in BufferField}
<1>1. Here \subseteq Place BY PlaceOf
<1>2. \A p \in Place \ Here : Box(n, p) = Box(s, p)
  <2> SUFFICES ASSUME NEW p \in Place \ Here PROVE Box(n, p) = Box(s, p)
    OBVIOUS
  <2>1. CASE \E j \in Link, f \in BufferField : p = <<"link", j, f>>
    <3>1. PICK j \in Link, f \in BufferField : p = <<"link", j, f>> BY <2>1
    <3>2. j # i BY <3>1
    <3>q. QED BY <3>1, <3>2, PlaceOf
  <2>2. CASE \E sp \in Sp, d \in Dest : p = <<"route", sp, d>> BY <2>2, PlaceOf
  <2>q. QED BY <2>1, <2>2, PlaceOf
<1>3. \A p \in Here : \E f \in BufferField :
          p = <<"link", i, f>> /\ Box(n, p) = n[f][i] /\ Box(s, p) = s[f][i]
  BY PlaceOf
<1>4. \A p \in Here : Plain(Box(n, p)) /\ Range(Box(n, p)) \subseteq Content(s, i) BY <1>3
<1>5. \A p, q \in Here : p # q => Range(Box(n, p)) \cap Range(Box(n, q)) = {}
  <2> SUFFICES ASSUME NEW p \in Here, NEW q \in Here, p # q
               PROVE  Range(Box(n, p)) \cap Range(Box(n, q)) = {}
    OBVIOUS
  <2>1. PICK f \in BufferField : p = <<"link", i, f>> /\ Box(n, p) = n[f][i] BY <1>3
  <2>2. PICK g \in BufferField : q = <<"link", i, g>> /\ Box(n, q) = n[g][i] BY <1>3
  <2>3. f # g BY <2>1, <2>2
  <2>q. QED BY <2>1, <2>2, <2>3
<1>6. Content(s, i) = UNION {Range(Box(s, p)) : p \in Here}
  <2>1. \A f \in BufferField : <<"link", i, f>> \in Here /\ Box(s, <<"link", i, f>>) = s[f][i]
    BY PlaceOf
  <2> HIDE DEF Here
  <2>2. Content(s, i) \subseteq UNION {Range(Box(s, p)) : p \in Here} BY <2>1 DEF Content
  <2>3. UNION {Range(Box(s, p)) : p \in Here} \subseteq Content(s, i) BY <1>3 DEF Content
  <2>q. QED BY <2>2, <2>3
<1> HIDE DEF Here
<1>7. \A p \in Here, q \in Place \ Here : Range(Box(n, p)) \cap Range(Box(n, q)) = {}
  <2>1. \A q \in Place \ Here : Content(s, i) \cap Range(Box(s, q)) = {}
    BY <1>1, <1>6 DEF Tidy, Apart
  <2>q. QED BY <1>2, <1>4, <2>1
<1>8. Apart(n)
  <2>1. \A p \in Place : Plain(Box(n, p)) BY <1>2, <1>4 DEF Tidy, Apart
  <2>2. \A p, q \in Place \ Here : p # q => Range(Box(n, p)) \cap Range(Box(n, q)) = {}
    BY <1>2 DEF Tidy, Apart
  <2>q. QED BY <1>5, <1>7, <2>1, <2>2 DEF Apart
<1>9. Queued(n) BY DEF Tidy, Queued
<1>10. Barred(n)
  <2> SUFFICES ASSUME NEW j \in Link, NEW d \in Dest, n.route[AdjSp[j]][d].state = "TFP",
                      NEW f \in BufferField
               PROVE  Range(n[f][j]) \cap MessagesFor(d) = {}
    BY DEF Barred
  <2>1. \A g \in BufferField : Range(s[g][j]) \cap MessagesFor(d) = {} BY DEF Tidy, Barred
  <2>2. CASE j # i BY <2>1, <2>2
  <2>3. CASE j = i BY <2>1, <2>3 DEF Content
  <2>q. QED BY <2>2, <2>3
<1>11. Stock(n) \subseteq Stock(s)
  <2>1. \A p \in Place : Range(Box(n, p)) \subseteq Stock(s) BY <1>1, <1>2, <1>4, <1>6 DEF Stock
  <2>q. QED BY <2>1 DEF Stock
<1>q. QED BY <1>8, <1>9, <1>10, <1>11 DEF Tidy

-------------------------------------------------------------------------------
(* Sending messages. *)

\* Messages that are in no buffer.
Hand(s, msgs) == msgs \in Seq(Msg) /\ Plain(msgs) /\ Range(msgs) \cap Stock(s) = {}

\* Those of all messages that mtp3_transmit puts into a place.
Goes(s, p) ==
    IF p[1] = "link"
    THEN IF p[3] \in {"tx_q", "co_buf", "cb_buf"}
         THEN {m \in Msg : RlToLink(s, m) = p[2] /\ BufferOf(s, p[2], m) = p[3]} ELSE {}
    ELSE IF s.route[p[2]][p[3]].t6
         THEN {m \in MessagesFor(p[3]) : RlToLink(s, m) \in LinksOf(p[2])} ELSE {}

\* A message goes to one place.
LEMMA GoesApart ==
    ASSUME NEW s, NEW p \in Place, NEW q \in Place, p # q
    PROVE  Goes(s, p) \cap Goes(s, q) = {}
<1>1. \A i, f : Goes(s, <<"link", i, f>>) \subseteq
          {m \in Msg : /\ RlToLink(s, m) = i /\ BufferOf(s, i, m) = f
                       /\ f \in {"tx_q", "co_buf", "cb_buf"}}
  BY DEF Goes
<1>2. \A sp, d : Goes(s, <<"route", sp, d>>) \subseteq
          {m \in MessagesFor(d) : RlToLink(s, m) \in LinksOf(sp) /\ s.route[sp][d].t6}
  BY DEF Goes
<1>3. \A i \in Link, f \in BufferField, sp \in Sp, d \in Dest :
          Goes(s, <<"link", i, f>>) \cap Goes(s, <<"route", sp, d>>) = {}
  <2> SUFFICES ASSUME NEW i \in Link, NEW f \in BufferField, NEW sp \in Sp, NEW d \in Dest,
                      NEW m, m \in Goes(s, <<"link", i, f>>), m \in Goes(s, <<"route", sp, d>>)
               PROVE  FALSE
    OBVIOUS
  <2>1. RlToLink(s, m) = i /\ BufferOf(s, i, m) \in {"tx_q", "co_buf", "cb_buf"} BY <1>1
  <2>2. Dpc[m] = d /\ AdjSp[i] = sp /\ s.route[sp][d].t6
    BY <1>2, <2>1 DEF MessagesFor, LinksOf
  <2>3. BufferOf(s, i, m) = "route" BY <2>2 DEF BufferOf, RouteOf
  <2>q. QED BY <2>1, <2>3
<1>4. \A i, j \in Link, f, g \in BufferField : <<i, f>> # <<j, g>> =>
          Goes(s, <<"link", i, f>>) \cap Goes(s, <<"link", j, g>>) = {}
  <2> SUFFICES ASSUME NEW i \in Link, NEW j \in Link, NEW f, NEW g, NEW m,
                      m \in Goes(s, <<"link", i, f>>), m \in Goes(s, <<"link", j, g>>)
               PROVE  <<i, f>> = <<j, g>>
    OBVIOUS
  <2>1. RlToLink(s, m) = i /\ BufferOf(s, i, m) = f BY <1>1
  <2>2. RlToLink(s, m) = j /\ BufferOf(s, j, m) = g BY <1>1
  <2>q. QED BY <2>1, <2>2
<1>5. \A sp, sq \in Sp, d, e \in Dest : <<sp, d>> # <<sq, e>> =>
          Goes(s, <<"route", sp, d>>) \cap Goes(s, <<"route", sq, e>>) = {}
  <2> SUFFICES ASSUME NEW sp \in Sp, NEW sq \in Sp, NEW d, NEW e, NEW m,
                      m \in Goes(s, <<"route", sp, d>>), m \in Goes(s, <<"route", sq, e>>)
               PROVE  <<sp, d>> = <<sq, e>>
    OBVIOUS
  <2>1. Dpc[m] = d /\ RlToLink(s, m) \in LinksOf(sp) BY <1>2 DEF MessagesFor
  <2>2. Dpc[m] = e /\ RlToLink(s, m) \in LinksOf(sq) BY <1>2 DEF MessagesFor
  <2>3. sp = sq BY <2>1, <2>2 DEF LinksOf
  <2>q. QED BY <2>1, <2>2, <2>3
<1>6. CASE \E i \in Link, f \in BufferField : p = <<"link", i, f>>
  <2>1. PICK i \in Link, f \in BufferField : p = <<"link", i, f>> BY <1>6
  <2>2. CASE \E j \in Link, g \in BufferField : q = <<"link", j, g>>
    <3>1. PICK j \in Link, g \in BufferField : q = <<"link", j, g>> BY <2>2
    <3>2. <<i, f>> # <<j, g>> BY <2>1, <3>1
    <3>q. QED BY <1>4, <2>1, <3>1, <3>2
  <2>3. CASE \E sp \in Sp, d \in Dest : q = <<"route", sp, d>> BY <1>3, <2>1, <2>3
  <2>q. QED BY <2>2, <2>3, PlaceOf
<1>7. CASE \E sp \in Sp, d \in Dest : p = <<"route", sp, d>>
  <2>1. PICK sp \in Sp, d \in Dest : p = <<"route", sp, d>> BY <1>7
  <2>2. CASE \E j \in Link, g \in BufferField : q = <<"link", j, g>> BY <1>3, <2>1, <2>2
  <2>3. CASE \E sq \in Sp, e \in Dest : q = <<"route", sq, e>>
    <3>1. PICK sq \in Sp, e \in Dest : q = <<"route", sq, e>> BY <2>3
    <3>2. <<sp, d>> # <<sq, e>> BY <2>1, <3>1
    <3>q. QED BY <1>5, <2>1, <3>1, <3>2
  <2>q. QED BY <2>2, <2>3, PlaceOf
<1>q. QED BY <1>6, <1>7, PlaceOf

\* A link that is not available is not sent to: none of the messages for a destination
\* that its SP prohibits.
LEMMA GoesAllowed ==
    ASSUME NEW s, NEW i \in Link, NEW f \in BufferField, NEW d \in Dest,
           s.route[AdjSp[i]][d].state = "TFP"
    PROVE  Goes(s, <<"link", i, f>>) \cap MessagesFor(d) = {}
<1> SUFFICES ASSUME NEW m \in Msg, m \in Goes(s, <<"link", i, f>>), Dpc[m] = d PROVE FALSE
  BY DEF MessagesFor
<1>1. RlToLink(s, m) = i /\ BufferOf(s, i, m) \in {"tx_q", "co_buf", "cb_buf"} BY DEF Goes
<1>2. ~ RouteOf(s, i, m).t6 BY <1>1 DEF BufferOf
<1>3. LinkAvailable(s, i, m)
  <2> DEFINE links == {j \in Link : LinkAvailable(s, j, m)}
  <2>1. i \in Nat /\ i # -1 BY NumLinksAssumption DEF Link
  <2>2. RlToLink(s, m) = IF Sls[m] \in links THEN Sls[m]
                         ELSE IF links = {} THEN -1 ELSE First(links)
    BY DEF RlToLink
  <2>3. links \subseteq Link OBVIOUS
  <2> HIDE DEF links
  <2>4. i \in links BY <1>1, <2>1, <2>2, <2>3, FirstExists
  <2>q. QED BY <2>4 DEF links
<1>4. RouteOf(s, i, m).state # "TFP" BY <1>2, <1>3 DEF LinkAvailable
<1>q. QED BY <1>4 DEF RouteOf

\* A place that some messages of a hand are added to.
LEMMA AddedPlain ==
    ASSUME NEW q \in Seq(Msg), NEW msgs \in Seq(Msg), NEW T
    PROVE  /\ q \o Only(msgs, T) \in Seq(Msg)
           /\ Range(q \o Only(msgs, T)) = Range(q) \cup (Range(msgs) \cap T)
           /\ Plain(q) /\ Plain(msgs) /\ Range(q) \cap Range(msgs) = {} =>
                  Plain(q \o Only(msgs, T))
<1> DEFINE r == Only(msgs, T)
<1>1. /\ r \in Seq(Msg) /\ Range(r) = Range(msgs) \cap T
      /\ Plain(msgs) => Plain(r)
  BY OnlyPlain
<1> HIDE DEF r
<1>2. /\ q \o r \in Seq(Msg) /\ Range(q \o r) = Range(q) \cup Range(r)
      /\ Plain(q) /\ Plain(r) /\ Range(q) \cap Range(r) = {} => Plain(q \o r)
  BY <1>1, ConcatPlain
<1>3. Range(q) \cap Range(msgs) = {} => Range(q) \cap Range(r) = {} BY <1>1
<1>q. QED BY <1>1, <1>2, <1>3 DEF r

Queue(s, msgs, sp, d) == [s.route[sp][d] EXCEPT !.q = @ \o HeldFor(s, msgs, sp, d)]

\* What Transmit leaves in the fields it changes.
Transmitted(s, msgs, n) ==
    /\ Alters(s, n, {"tx_q", "co_buf", "cb_buf", "route"})
    /\ n.tx_q   = [i \in Link |-> s.tx_q[i] \o Taken(s, msgs, i, "tx_q")]
    /\ n.co_buf = [i \in Link |-> s.co_buf[i] \o Taken(s, msgs, i, "co_buf")]
    /\ n.cb_buf = [i \in Link |-> s.cb_buf[i] \o Taken(s, msgs, i, "cb_buf")]
    /\ n.route  = [sp \in Sp |-> [d \in Dest |-> Queue(s, msgs, sp, d)]]

LEMMA TransmitFields ==
    ASSUME NEW s, Shape(s), NEW msgs, msgs # <<>>
    PROVE  Transmitted(s, msgs, Transmit(s, msgs))
<1>1. {"tx_q", "co_buf", "cb_buf", "route"} \subseteq Field BY DEF Field, BufferField
<1>q. QED BY <1>1 DEF Transmit, Alters, Shape, Queue, Transmitted

LEMMA TransmitTidy ==
    ASSUME NEW s, Tidy(s), NEW msgs, Hand(s, msgs)
    PROVE  Tidy(Transmit(s, msgs))
<1>1. CASE msgs = <<>> BY <1>1 DEF Transmit
<1>2. CASE msgs # <<>>
  <2> DEFINE n == Transmit(s, msgs)
             T == {"tx_q", "co_buf", "cb_buf"}
  <2>1. Shape(s) BY DEF Tidy
  <2>2. Transmitted(s, msgs, n) BY <1>2, <2>1, TransmitFields
  <2> HIDE DEF n
  <2>3. /\ Alters(s, n, {"tx_q", "co_buf", "cb_buf", "route"})
        /\ n.tx_q   = [i \in Link |-> s.tx_q[i] \o Taken(s, msgs, i, "tx_q")]
        /\ n.co_buf = [i \in Link |-> s.co_buf[i] \o Taken(s, msgs, i, "co_buf")]
        /\ n.cb_buf = [i \in Link |-> s.cb_buf[i] \o Taken(s, msgs, i, "cb_buf")]
        /\ n.route  = [sp \in Sp |-> [d \in Dest |-> Queue(s, msgs, sp, d)]]
    BY <2>2 DEF Transmitted
  <2>4. \A i \in Link, f \in BufferField :
            Range(s[f][i]) \cap Range(msgs) = {} /\ Plain(s[f][i]) /\ s[f][i] \in Seq(Msg)
    <3> SUFFICES ASSUME NEW i \in Link, NEW f \in BufferField
                 PROVE  /\ Range(s[f][i]) \cap Range(msgs) = {}
                        /\ Plain(s[f][i]) /\ s[f][i] \in Seq(Msg)
      OBVIOUS
    <3> DEFINE p == <<"link", i, f>>
    <3>1. p \in Place /\ Box(s, p) = s[f][i] BY PlaceOf
    <3>q. QED BY <2>1, <3>1, ShapeOf DEF Tidy, Apart, Hand, Stock
  <2>5. \A sp \in Sp, d \in Dest :
            LET q == s.route[sp][d].q
            IN  Range(q) \cap Range(msgs) = {} /\ Plain(q) /\ q \in Seq(Msg)
    <3> SUFFICES ASSUME NEW sp \in Sp, NEW d \in Dest
                 PROVE  LET q == s.route[sp][d].q
                        IN  Range(q) \cap Range(msgs) = {} /\ Plain(q) /\ q \in Seq(Msg)
      OBVIOUS
    <3> DEFINE p == <<"route", sp, d>>
    <3>1. p \in Place /\ Box(s, p) = s.route[sp][d].q BY PlaceOf
    <3>q. QED BY <2>1, <3>1, ShapeOf DEF Tidy, Apart, Hand, Stock
  <2>6. msgs \in Seq(Msg) /\ Plain(msgs) BY DEF Hand
  <2>7. T \subseteq BufferField /\ BufferField \subseteq Field /\ "route" \in Field
        /\ \A f \in BufferField \ T : n[f] = s[f]
    BY <2>3 DEF BufferField, Field, Alters
  <2>8. \A i \in Link, f \in T : n[f][i] = s[f][i] \o Only(msgs, Goes(s, <<"link", i, f>>))
    <3>1. \A i \in Link, f \in T : n[f][i] = s[f][i] \o Taken(s, msgs, i, f)
      <4> SUFFICES ASSUME NEW i \in Link, NEW f \in T
                   PROVE  n[f][i] = s[f][i] \o Taken(s, msgs, i, f)
        OBVIOUS
      <4>1. CASE f = "tx_q" BY <2>3, <4>1
      <4>2. CASE f = "co_buf" BY <2>3, <4>2
      <4>3. CASE f = "cb_buf" BY <2>3, <4>3
      <4>q. QED BY <4>1, <4>2, <4>3
    <3>2. \A i \in Link, f \in T : Taken(s, msgs, i, f) = Only(msgs, Goes(s, <<"link", i, f>>))
      BY DEF Taken, Goes
    <3>q. QED BY <3>1, <3>2
  <2>9. \A i \in Link, f \in BufferField :
            LET G == Goes(s, <<"link", i, f>>)
            IN  /\ n[f][i] \in Seq(Msg) /\ Plain(n[f][i])
                /\ Range(n[f][i]) = Range(s[f][i]) \cup (Range(msgs) \cap G)
    <3> SUFFICES ASSUME NEW i \in Link, NEW f \in BufferField
                 PROVE  LET G == Goes(s, <<"link", i, f>>)
                        IN  /\ n[f][i] \in Seq(Msg) /\ Plain(n[f][i])
                            /\ Range(n[f][i]) = Range(s[f][i]) \cup (Range(msgs) \cap G)
      OBVIOUS
    <3>1. CASE f \in T
      <4> DEFINE G == Goes(s, <<"link", i, f>>)
      <4>1. n[f][i] = s[f][i] \o Only(msgs, G) BY <2>8, <3>1
      <4>2. s[f][i] \in Seq(Msg) /\ Plain(s[f][i]) /\ Range(s[f][i]) \cap Range(msgs) = {} BY <2>4
      <4> HIDE DEF G
      <4>3. /\ n[f][i] \in Seq(Msg) /\ Range(n[f][i]) = Range(s[f][i]) \cup (Range(msgs) \cap G)
            /\ Plain(n[f][i])
        BY <2>6, <4>1, <4>2, AddedPlain
      <4>q. QED BY <4>3 DEF G
    <3>2. CASE f \notin T
      <4>1. Goes(s, <<"link", i, f>>) = {} BY <3>2 DEF Goes
      <4>2. n[f] = s[f] BY <2>7, <3>2
      <4>q. QED BY <2>4, <4>1, <4>2
    <3>q. QED BY <3>1, <3>2
  <2>10. \A sp \in Sp, d \in Dest :
            LET G == Goes(s, <<"route", sp, d>>)
                q == n.route[sp][d].q
            IN  /\ n.route[sp][d] \in Route /\ n.route[sp][d].state = s.route[sp][d].state
                /\ Plain(q) /\ Range(q) = Range(s.route[sp][d].q) \cup (Range(msgs) \cap G)
    <3> SUFFICES ASSUME NEW sp \in Sp, NEW d \in Dest
                 PROVE  LET G == Goes(s, <<"route", sp, d>>)
                            q == n.route[sp][d].q
                        IN  /\ n.route[sp][d] \in Route
                            /\ n.route[sp][d].state = s.route[sp][d].state
                            /\ Plain(q)
                            /\ Range(q) = Range(s.route[sp][d].q) \cup (Range(msgs) \cap G)
      OBVIOUS
    <3>1. n.route[sp][d] = [s.route[sp][d] EXCEPT !.q = @ \o HeldFor(s, msgs, sp, d)]
      BY <2>3 DEF Queue
    <3>2. s.route[sp][d] \in Route BY <2>1, ShapeOf
    <3>3. /\ n.route[sp][d].q = s.route[sp][d].q \o HeldFor(s, msgs, sp, d)
          /\ n.route[sp][d].state = s.route[sp][d].state
          /\ s.route[sp][d].q \o HeldFor(s, msgs, sp, d) \in Seq(Msg) => n.route[sp][d] \in Route
      BY <3>1, <3>2 DEF Route
    <3>4. CASE s.route[sp][d].t6
      <4>1. HeldFor(s, msgs, sp, d) = Only(msgs, Goes(s, <<"route", sp, d>>))
        BY <3>4 DEF HeldFor, Goes
      <4> DEFINE G == Goes(s, <<"route", sp, d>>)
                 q == s.route[sp][d].q
                 r == n.route[sp][d].q
      <4>2. q \in Seq(Msg) /\ Plain(q) /\ Range(q) \cap Range(msgs) = {} BY <2>5
      <4>3. r = q \o Only(msgs, G) BY <3>3, <4>1
      <4> HIDE DEF G, q, r
      <4>4. r \in Seq(Msg) /\ Range(r) = Range(q) \cup (Range(msgs) \cap G) /\ Plain(r)
        BY <2>6, <4>2, <4>3, AddedPlain
      <4>q. QED BY <3>3, <4>1, <4>4 DEF G, q, r
    <3>5. CASE ~ s.route[sp][d].t6
      <4>1. HeldFor(s, msgs, sp, d) = <<>> /\ Goes(s, <<"route", sp, d>>) = {}
        BY <3>5 DEF HeldFor, Goes
      <4>2. s.route[sp][d].q \o <<>> = s.route[sp][d].q BY <2>5, ConcatEmptySeq
      <4>q. QED BY <2>5, <3>3, <4>1, <4>2
    <3>q. QED BY <3>4, <3>5
  <2>11. Shape(n)
    <3>1. \A f \in T : n[f] \in Kind[f]
      <4>1. \A f \in T : n[f] = [i \in Link |-> n[f][i]] BY <2>3
      <4>q. QED BY <2>7, <2>9, <4>1, BufferKind
    <3>2. n.route \in Kind.route
      <4>1. n.route = [sp \in Sp |-> [d \in Dest |-> n.route[sp][d]]] BY <2>3
      <4>2. Kind.route = [Sp -> [Dest -> Route]] BY DEF Kind
      <4>q. QED BY <2>10, <4>1, <4>2
    <3>q. QED BY <2>1, <2>3, <3>1, <3>2, Altered
  <2>12. \A p \in Place : /\ Plain(Box(n, p))
                          /\ Range(Box(n, p)) = Range(Box(s, p)) \cup (Range(msgs) \cap Goes(s, p))
    <3> SUFFICES ASSUME NEW p \in Place
                 PROVE  /\ Plain(Box(n, p))
                        /\ Range(Box(n, p)) = Range(Box(s, p)) \cup (Range(msgs) \cap Goes(s, p))
      OBVIOUS
    <3>1. CASE \E i \in Link, f \in BufferField : p = <<"link", i, f>>
      BY <2>9, <3>1, PlaceOf
    <3>2. CASE \E sp \in Sp, d \in Dest : p = <<"route", sp, d>>
      BY <2>10, <3>2, PlaceOf
    <3>q. QED BY <3>1, <3>2, PlaceOf
  <2>13. Apart(n)
    <3>1. ASSUME NEW p \in Place, NEW q \in Place, p # q
          PROVE  Range(Box(n, p)) \cap Range(Box(n, q)) = {}
      <4>1. Range(Box(s, p)) \cap Range(Box(s, q)) = {} BY <3>1 DEF Tidy, Apart
      <4>2. Goes(s, p) \cap Goes(s, q) = {} BY <3>1, GoesApart
      <4>3. Range(Box(s, p)) \cap Range(msgs) = {} /\ Range(Box(s, q)) \cap Range(msgs) = {}
        BY DEF Hand, Stock
      <4>q. QED BY <2>12, <4>1, <4>2, <4>3
    <3>q. QED BY <2>12, <3>1 DEF Apart
  <2>14. Queued(n)
    <3>1. \A sp \in Sp, d \in Dest : Goes(s, <<"route", sp, d>>) \subseteq MessagesFor(d)
      BY DEF Goes
    <3>q. QED BY <2>10, <3>1 DEF Tidy, Queued
  <2>15. Barred(n)
    <3> SUFFICES ASSUME NEW i \in Link, NEW d \in Dest, n.route[AdjSp[i]][d].state = "TFP",
                        NEW f \in BufferField
                 PROVE  Range(n[f][i]) \cap MessagesFor(d) = {}
      BY DEF Barred
    <3>1. AdjSp[i] \in Sp BY DestAssumption
    <3>2. s.route[AdjSp[i]][d].state = "TFP" BY <2>10, <3>1
    <3>3. Range(s[f][i]) \cap MessagesFor(d) = {} BY <3>2 DEF Tidy, Barred
    <3>4. Goes(s, <<"link", i, f>>) \cap MessagesFor(d) = {} BY <3>2, GoesAllowed
    <3>q. QED BY <2>9, <3>3, <3>4
  <2>16. Tidy(n) BY <2>11, <2>13, <2>14, <2>15 DEF Tidy
  <2>q. QED BY <2>16 DEF n
<1>q. QED BY <1>1, <1>2

-------------------------------------------------------------------------------
(* Fields that hold no messages. *)

LEMMA KindOf ==
    /\ Kind.linkstate = [Link -> {"DOWN", "INALARM", "ALIGNING", "UP"}]
    /\ Kind.passed = [Link -> BOOLEAN] /\ Kind.failed = [Link -> 0 .. 1]
    /\ Kind.inhibit = [Link -> SUBSET Inhibit] /\ Kind.changeover = [Link -> Changeover]
    /\ Kind.sent = [Link -> SUBSET SentMsg] /\ Kind.orphan = SUBSET Slots
    /\ Kind.timer = [Link -> [LinkTimer -> TimerValue]]
    /\ Kind.sp = [Sp -> {"DOWN", "UP"}] /\ Kind.tra = [Sp -> SUBSET {"GOT", "SENT"}]
    /\ Kind.t19 = [Sp -> BOOLEAN] /\ Kind.t21 = [Sp -> BOOLEAN]
    /\ Kind.state = {"DOWN", "UP"} /\ Kind.linkset_up = BOOLEAN
    /\ Kind.ev = Events /\ Kind.evrefused = BOOLEAN /\ Kind.out = Seq(OutMsg)
BY DEF Kind

LEMMA OthersOf ==
    ASSUME NEW s, Shape(s)
    PROVE  /\ s.linkstate \in Kind.linkstate /\ s.passed \in Kind.passed
           /\ s.failed \in Kind.failed /\ s.inhibit \in Kind.inhibit
           /\ s.changeover \in Kind.changeover /\ s.sent \in Kind.sent
           /\ s.timer \in Kind.timer /\ s.orphan \in Kind.orphan
           /\ s.sp \in Kind.sp /\ s.tra \in Kind.tra /\ s.t19 \in Kind.t19
           /\ s.t21 \in Kind.t21 /\ s.state \in Kind.state
           /\ s.linkset_up \in Kind.linkset_up /\ s.ev \in Kind.ev
           /\ s.evrefused \in Kind.evrefused /\ s.out \in Kind.out
BY DEF Shape, Field, OtherField

LEMMA SetTidy ==
    ASSUME NEW s, Tidy(s), NEW i \in Link
    PROVE  /\ \A v \in {"DOWN", "INALARM", "ALIGNING", "UP"} : Tidy([s EXCEPT !.linkstate[i] = v])
           /\ \A v \in BOOLEAN : Tidy([s EXCEPT !.passed[i] = v])
           /\ \A v \in 0 .. 1 : Tidy([s EXCEPT !.failed[i] = v])
           /\ \A v \in SUBSET Inhibit : Tidy([s EXCEPT !.inhibit[i] = v])
           /\ \A v \in Changeover : Tidy([s EXCEPT !.changeover[i] = v])
           /\ \A v \in SUBSET SentMsg : Tidy([s EXCEPT !.sent[i] = v])
           /\ \A v \in [LinkTimer -> TimerValue] : Tidy([s EXCEPT !.timer[i] = v])
<1>1. Shape(s) BY DEF Tidy
<1>2. /\ s.linkstate \in Kind.linkstate /\ s.passed \in Kind.passed
      /\ s.failed \in Kind.failed /\ s.inhibit \in Kind.inhibit
      /\ s.changeover \in Kind.changeover /\ s.sent \in Kind.sent /\ s.timer \in Kind.timer
  BY <1>1, OthersOf
<1>3. {"linkstate", "passed", "failed", "inhibit", "changeover", "sent", "timer"}
          \subseteq OtherField
  BY DEF OtherField
<1>4. \A v \in {"DOWN", "INALARM", "ALIGNING", "UP"} : Tidy([s EXCEPT !.linkstate[i] = v])
  <2>1. \A v \in {"DOWN", "INALARM", "ALIGNING", "UP"} :
            [s.linkstate EXCEPT ![i] = v] \in Kind.linkstate
    BY <1>2, KindOf
  <2>q. QED BY <1>3, <2>1, FieldTidy
<1>5. \A v \in BOOLEAN : Tidy([s EXCEPT !.passed[i] = v])
  <2>1. \A v \in BOOLEAN : [s.passed EXCEPT ![i] = v] \in Kind.passed BY <1>2, KindOf
  <2>q. QED BY <1>3, <2>1, FieldTidy
<1>6. \A v \in 0 .. 1 : Tidy([s EXCEPT !.failed[i] = v])
  <2>1. \A v \in 0 .. 1 : [s.failed EXCEPT ![i] = v] \in Kind.failed BY <1>2, KindOf
  <2>q. QED BY <1>3, <2>1, FieldTidy
<1>7. \A v \in SUBSET Inhibit : Tidy([s EXCEPT !.inhibit[i] = v])
  <2>1. \A v \in SUBSET Inhibit : [s.inhibit EXCEPT ![i] = v] \in Kind.inhibit BY <1>2, KindOf
  <2>q. QED BY <1>3, <2>1, FieldTidy
<1>8. \A v \in Changeover : Tidy([s EXCEPT !.changeover[i] = v])
  <2>1. \A v \in Changeover : [s.changeover EXCEPT ![i] = v] \in Kind.changeover BY <1>2, KindOf
  <2>q. QED BY <1>3, <2>1, FieldTidy
<1>9. \A v \in SUBSET SentMsg : Tidy([s EXCEPT !.sent[i] = v])
  <2>1. \A v \in SUBSET SentMsg : [s.sent EXCEPT ![i] = v] \in Kind.sent BY <1>2, KindOf
  <2>q. QED BY <1>3, <2>1, FieldTidy
<1>10. \A v \in [LinkTimer -> TimerValue] : Tidy([s EXCEPT !.timer[i] = v])
  <2>1. \A v \in [LinkTimer -> TimerValue] : [s.timer EXCEPT ![i] = v] \in Kind.timer
    BY <1>2, KindOf
  <2>q. QED BY <1>3, <2>1, FieldTidy
<1>q. QED BY <1>4, <1>5, <1>6, <1>7, <1>8, <1>9, <1>10

LEMMA SetSpTidy ==
    ASSUME NEW s, Tidy(s), NEW sp \in Sp
    PROVE  /\ \A v \in {"DOWN", "UP"} : Tidy([s EXCEPT !.sp[sp] = v])
           /\ \A v \in SUBSET {"GOT", "SENT"} : Tidy([s EXCEPT !.tra[sp] = v])
           /\ \A v \in BOOLEAN : Tidy([s EXCEPT !.t19[sp] = v])
           /\ \A v \in BOOLEAN : Tidy([s EXCEPT !.t21[sp] = v])
<1>1. Shape(s) BY DEF Tidy
<1>2. s.sp \in Kind.sp /\ s.tra \in Kind.tra /\ s.t19 \in Kind.t19 /\ s.t21 \in Kind.t21
  BY <1>1, OthersOf
<1>3. {"sp", "tra", "t19", "t21"} \subseteq OtherField BY DEF OtherField
<1>4. \A v \in {"DOWN", "UP"} : Tidy([s EXCEPT !.sp[sp] = v])
  <2>1. \A v \in {"DOWN", "UP"} : [s.sp EXCEPT ![sp] = v] \in Kind.sp BY <1>2, KindOf
  <2>q. QED BY <1>3, <2>1, FieldTidy
<1>5. \A v \in SUBSET {"GOT", "SENT"} : Tidy([s EXCEPT !.tra[sp] = v])
  <2>1. \A v \in SUBSET {"GOT", "SENT"} : [s.tra EXCEPT ![sp] = v] \in Kind.tra BY <1>2, KindOf
  <2>q. QED BY <1>3, <2>1, FieldTidy
<1>6. \A v \in BOOLEAN : Tidy([s EXCEPT !.t19[sp] = v])
  <2>1. \A v \in BOOLEAN : [s.t19 EXCEPT ![sp] = v] \in Kind.t19 BY <1>2, KindOf
  <2>q. QED BY <1>3, <2>1, FieldTidy
<1>7. \A v \in BOOLEAN : Tidy([s EXCEPT !.t21[sp] = v])
  <2>1. \A v \in BOOLEAN : [s.t21 EXCEPT ![sp] = v] \in Kind.t21 BY <1>2, KindOf
  <2>q. QED BY <1>3, <2>1, FieldTidy
<1>q. QED BY <1>4, <1>5, <1>6, <1>7

LEMMA SetSs7Tidy ==
    ASSUME NEW s, Tidy(s)
    PROVE  /\ \A v \in SUBSET Slots : Tidy([s EXCEPT !.orphan = v])
           /\ \A v \in {"DOWN", "UP"} : Tidy([s EXCEPT !.state = v])
           /\ \A v \in BOOLEAN : Tidy([s EXCEPT !.linkset_up = v])
           /\ \A v \in BOOLEAN : Tidy([s EXCEPT !.evrefused = v])
           /\ \A v \in Events : Tidy([s EXCEPT !.ev = v])
           /\ \A v \in Seq(OutMsg) : Tidy([s EXCEPT !.out = v])
           /\ \A v \in Kind.changeover : Tidy([s EXCEPT !.changeover = v])
           /\ \A v \in Kind.sent : Tidy([s EXCEPT !.sent = v])
           /\ \A v \in Kind.inhibit : Tidy([s EXCEPT !.inhibit = v])
           /\ \A v \in Kind.timer : Tidy([s EXCEPT !.timer = v])
<1>1. {"orphan", "state", "linkset_up", "evrefused", "ev", "out", "changeover", "sent",
       "inhibit", "timer"} \subseteq OtherField
  BY DEF OtherField
<1>2. /\ \A v \in SUBSET Slots : Tidy([s EXCEPT !.orphan = v])
      /\ \A v \in {"DOWN", "UP"} : Tidy([s EXCEPT !.state = v])
      /\ \A v \in BOOLEAN : Tidy([s EXCEPT !.linkset_up = v])
      /\ \A v \in BOOLEAN : Tidy([s EXCEPT !.evrefused = v])
  BY <1>1, KindOf, FieldTidy
<1>3. /\ \A v \in Events : Tidy([s EXCEPT !.ev = v])
      /\ \A v \in Seq(OutMsg) : Tidy([s EXCEPT !.out = v])
  BY <1>1, KindOf, FieldTidy
<1>4. /\ \A v \in Kind.changeover : Tidy([s EXCEPT !.changeover = v])
      /\ \A v \in Kind.sent : Tidy([s EXCEPT !.sent = v])
      /\ \A v \in Kind.inhibit : Tidy([s EXCEPT !.inhibit = v])
      /\ \A v \in Kind.timer : Tidy([s EXCEPT !.timer = v])
  BY <1>1, FieldTidy
<1>q. QED BY <1>2, <1>3, <1>4

LEMMA TimersTidy ==
    ASSUME NEW s, Tidy(s), NEW i \in Link, NEW t \in LinkTimer
    PROVE  /\ Tidy(Stop(s, i, t))
           /\ \A c \in Callback : Tidy(Schedule(s, i, t, c))
           /\ Tidy(Start(s, i, t)) /\ Tidy(Restart(s, i, t)) /\ Tidy(ScheduleNext(s, i, t))
           /\ Tidy(Forget(s, i, t))
           /\ \A T : Tidy(StopAll(s, i, T))
           /\ Tidy([s EXCEPT !.timer[i][t] = "stale"])
<1>1. \A n : Tidy(n) => /\ n.timer \in [Link -> [LinkTimer -> TimerValue]]
                        /\ n.orphan \in SUBSET Slots
                        /\ "timer" \in DOMAIN n /\ "orphan" \in DOMAIN n
  BY OthersOf, KindOf DEF Tidy, Shape, Field, OtherField
<1>2. Callback \subseteq TimerValue /\ "off" \in TimerValue /\ "stale" \in TimerValue
      /\ "1st" \in Callback /\ "2nd" \in Callback
  BY DEF TimerValue, Callback
<1>3. ASSUME NEW n, Tidy(n), NEW c \in TimerValue PROVE Tidy([n EXCEPT !.timer[i][t] = c])
  <2>1. [n.timer[i] EXCEPT ![t] = c] \in [LinkTimer -> TimerValue] BY <1>1, <1>3
  <2>2. Tidy([n EXCEPT !.timer[i] = [n.timer[i] EXCEPT ![t] = c]]) BY <1>3, <2>1, SetTidy
  <2>q. QED BY <1>1, <1>3, <2>2
<1>4. ASSUME NEW n, Tidy(n), NEW c \in TimerValue
      PROVE  Tidy([n EXCEPT !.timer[i][t] = c,
                            !.orphan = IF n.timer[i][t] \in Callback
                                       THEN @ \cup {<<i, t, n.timer[i][t]>>} ELSE @])
  <2> DEFINE m == [n EXCEPT !.timer[i][t] = c]
             o == IF n.timer[i][t] \in Callback
                  THEN n.orphan \cup {<<i, t, n.timer[i][t]>>} ELSE n.orphan
  <2>1. o \in SUBSET Slots BY <1>1, <1>4 DEF Slots
  <2>2. Tidy(m) BY <1>3, <1>4
  <2>3. m.orphan = n.orphan BY <1>1, <1>4
  <2> HIDE DEF m, o
  <2>4. Tidy([m EXCEPT !.orphan = o]) BY <2>1, <2>2, SetSs7Tidy
  <2>q. QED BY <2>3, <2>4 DEF m, o
<1>5. \A n : Tidy(n) => Tidy(Stop(n, i, t)) BY <1>2, <1>3 DEF Stop
<1>6. \A n : Tidy(n) => \A c \in Callback : Tidy(Schedule(n, i, t, c)) BY <1>2, <1>4 DEF Schedule
<1>7. Tidy(Start(s, i, t)) BY <1>2, <1>6 DEF Start
<1>8. Tidy(Restart(s, i, t)) BY <1>2, <1>5, <1>6 DEF Restart
<1>9. Tidy(ScheduleNext(s, i, t)) BY <1>2, <1>6 DEF ScheduleNext
<1>10. Tidy(Forget(s, i, t)) BY <1>2, <1>4 DEF Forget
<1>11. \A T : Tidy(StopAll(s, i, T))
  <2> SUFFICES ASSUME NEW T PROVE Tidy(StopAll(s, i, T))
    OBVIOUS
  <2> DEFINE v == [u \in LinkTimer |-> IF u \in T THEN "off" ELSE s.timer[i][u]]
  <2>1. v \in [LinkTimer -> TimerValue] BY <1>1, <1>2
  <2>2. StopAll(s, i, T) = [s EXCEPT !.timer[i] = v] BY <1>1 DEF StopAll
  <2> HIDE DEF v
  <2>3. Tidy([s EXCEPT !.timer[i] = v]) BY <2>1, SetTidy
  <2>q. QED BY <2>2, <2>3
<1>12. Tidy([s EXCEPT !.timer[i][t] = "stale"]) BY <1>2, <1>3
<1>q. QED BY <1>5, <1>6, <1>7, <1>8, <1>9, <1>10, <1>11, <1>12

LEMMA PostTidy ==
    ASSUME NEW s, Tidy(s), NEW e \in LinkEvent \cup AppEvent
    PROVE  Tidy(PostEvent(s, e))
<1>1. s.ev \in Events BY OthersOf, KindOf DEF Tidy
<1>2. CASE EventRoom(s)
  <2>1. Append(s.ev, e) \in Events
    <3>1. s.ev \in Seq(LinkEvent \cup AppEvent) /\ Len(s.ev) < MaxEvents
      BY <1>1, <1>2 DEF Events, EventRoom
    <3>2. Append(s.ev, e) \in Seq(LinkEvent \cup AppEvent) /\ Len(Append(s.ev, e)) = Len(s.ev) + 1
      BY <3>1, AppendProperties
    <3>3. Len(s.ev) \in Nat BY <3>1, LenProperties
    <3>q. QED BY <3>1, <3>2, <3>3, MaxEventsAssumption DEF Events
  <2>2. Tidy([s EXCEPT !.ev = Append(s.ev, e)]) BY <2>1, SetSs7Tidy
  <2>q. QED BY <1>2, <2>2 DEF PostEvent
<1>3. CASE ~EventRoom(s) BY <1>3, SetSs7Tidy DEF PostEvent
<1>q. QED BY <1>2, <1>3

-------------------------------------------------------------------------------
(* Buffers that are emptied, and those that are appended to others. *)

Emptied(s, i, f) == [s EXCEPT ![f][i] = <<>>]

LEMMA EmptyFields ==
    ASSUME NEW s, Shape(s), NEW i \in Link, NEW f \in BufferField
    PROVE  /\ Alters(s, Emptied(s, i, f), {f}) /\ Shape(Emptied(s, i, f))
           /\ Emptied(s, i, f)[f] = [s[f] EXCEPT ![i] = <<>>]
<1> DEFINE n == Emptied(s, i, f)
<1>1. f \in Field /\ s[f] \in [Link -> Seq(Msg)] BY BufferKind DEF Shape
<1>2. n[f] = [s[f] EXCEPT ![i] = <<>>] BY <1>1 DEF Emptied, Shape
<1>3. Alters(s, n, {f}) BY <1>1 DEF Emptied, Alters, Shape
<1>4. n[f] \in [Link -> Seq(Msg)] BY <1>1, <1>2, EmptyPlain
<1>5. \A g \in {f} : n[g] \in Kind[g] BY <1>4, BufferKind
<1> HIDE DEF n
<1>6. Shape(n) BY <1>3, <1>5, Altered
<1>q. QED BY <1>2, <1>3, <1>6 DEF n

LEMMA EmptyTidy ==
    ASSUME NEW s, Tidy(s), NEW i \in Link, NEW f \in BufferField
    PROVE  /\ Tidy(Emptied(s, i, f)) /\ Hand(Emptied(s, i, f), s[f][i])
           /\ Stock(Emptied(s, i, f)) \subseteq Stock(s)
           /\ Range(s[f][i]) \subseteq Stock(s)
<1> DEFINE n == Emptied(s, i, f)
           p == <<"link", i, f>>
<1>1. Shape(s) BY DEF Tidy
<1>2. /\ Alters(s, n, {f}) /\ Shape(n)
      /\ n[f] = [s[f] EXCEPT ![i] = <<>>]
  BY <1>1, EmptyFields
<1>3. s[f] \in [Link -> Seq(Msg)] /\ "route" \in Field /\ "route" # f
      /\ BufferField \subseteq Field
  BY <1>1, BufferKind DEF Shape, Field, BufferField
<1> HIDE DEF n
<1>4. p \in Place /\ Box(s, p) = s[f][i] /\ Box(n, p) = <<>> BY <1>2, <1>3, PlaceOf
<1>5. n.route = s.route BY <1>2, <1>3 DEF Alters
<1>6. \A q \in Place \ {p} : Box(n, q) = Box(s, q)
  <2> SUFFICES ASSUME NEW q \in Place \ {p} PROVE Box(n, q) = Box(s, q)
    OBVIOUS
  <2>1. CASE \E j \in Link, g \in BufferField : q = <<"link", j, g>>
    <3>1. PICK j \in Link, g \in BufferField : q = <<"link", j, g>> BY <2>1
    <3>2. g # f => n[g] = s[g] BY <1>2, <1>3 DEF Alters
    <3>3. n[g][j] = s[g][j] BY <1>2, <1>3, <3>1, <3>2
    <3>q. QED BY <3>1, <3>3, PlaceOf
  <2>2. CASE \E sp \in Sp, d \in Dest : q = <<"route", sp, d>> BY <1>5, <2>2, PlaceOf
  <2>q. QED BY <2>1, <2>2, PlaceOf
<1> HIDE DEF p
<1>7. \A q \in Place : Plain(Box(n, q)) /\ Range(Box(n, q)) \subseteq Range(Box(s, q))
  BY <1>4, <1>6, EmptyPlain DEF Tidy, Apart
<1>8. Tidy(n) /\ Stock(n) \subseteq Stock(s) BY <1>2, <1>5, <1>7, ShrunkTidy
<1>9. Hand(n, s[f][i])
  <2>1. s[f][i] \in Seq(Msg) /\ Plain(s[f][i]) BY <1>3, <1>4 DEF Tidy, Apart
  <2>2. \A q \in Place : Range(s[f][i]) \cap Range(Box(n, q)) = {}
    BY <1>4, <1>6, EmptyPlain DEF Tidy, Apart
  <2>q. QED BY <2>1, <2>2 DEF Hand, Stock
<1>10. Range(s[f][i]) \subseteq Stock(s) BY <1>4 DEF Stock
<1>q. QED BY <1>8, <1>9, <1>10 DEF n

\* Messages in hand.
LEMMA HandsJoin ==
    ASSUME NEW s, NEW a, NEW b, Hand(s, a), Hand(s, b), Range(a) \cap Range(b) = {}
    PROVE  Hand(s, a \o b) /\ Range(a \o b) = Range(a) \cup Range(b)
BY ConcatPlain DEF Hand

LEMMA HandKept ==
    ASSUME NEW s, NEW a, Hand(s, a), NEW n, Stock(n) \subseteq Stock(s)
    PROVE  Hand(n, a)
BY DEF Hand

Poured(s, i, f, g) == [s EXCEPT ![g][i] = @ \o s[f][i], ![f][i] = <<>>]

Pours(s, n, i, f, g) ==
    /\ Alters(s, n, {f, g}) /\ n[f] = [s[f] EXCEPT ![i] = <<>>]
    /\ n[g] = [s[g] EXCEPT ![i] = s[g][i] \o s[f][i]]

LEMMA PourFields ==
    ASSUME NEW s, Shape(s), NEW i \in Link, NEW f \in BufferField, NEW g \in BufferField, f # g
    PROVE  Pours(s, Poured(s, i, f, g), i, f, g)
<1>1. f \in Field /\ g \in Field /\ s[f] \in [Link -> Seq(Msg)] /\ s[g] \in [Link -> Seq(Msg)]
  BY BufferKind DEF Shape
<1>q. QED BY <1>1 DEF Alters, Shape, Poured, Pours

LEMMA PourTidy ==
    ASSUME NEW s, Tidy(s), NEW i \in Link, NEW f \in BufferField, NEW g \in BufferField, f # g
    PROVE  Tidy(Poured(s, i, f, g))
<1> DEFINE n == Poured(s, i, f, g)
<1>1. Shape(s) BY DEF Tidy
<1>2. /\ f \in Field /\ g \in Field /\ BufferField \subseteq Field /\ "route" \in Field
      /\ "route" # f /\ "route" # g
      /\ s[f] \in [Link -> Seq(Msg)] /\ s[g] \in [Link -> Seq(Msg)]
  BY <1>1, BufferKind DEF Shape, Field, BufferField
<1>3. /\ Alters(s, n, {f, g})
      /\ n[f] = [s[f] EXCEPT ![i] = <<>>] /\ n[g] = [s[g] EXCEPT ![i] = s[g][i] \o s[f][i]]
  <2>1. Pours(s, n, i, f, g) BY <1>1, PourFields
  <2> HIDE DEF n
  <2>q. QED BY <2>1 DEF Pours
<1> HIDE DEF n
<1>4. \A h \in BufferField :
          Plain(s[h][i]) /\ \A k \in BufferField : h # k => Range(s[h][i]) \cap Range(s[k][i]) = {}
  <2>1. \A h \in BufferField : <<"link", i, h>> \in Place /\ Box(s, <<"link", i, h>>) = s[h][i]
    BY PlaceOf
  <2>2. \A h, k \in BufferField : h # k => <<"link", i, h>> # <<"link", i, k>> OBVIOUS
  <2>q. QED BY <2>1, <2>2 DEF Tidy, Apart
<1>5. s[f][i] \in Seq(Msg) /\ s[g][i] \in Seq(Msg) BY <1>2
<1>6. /\ s[g][i] \o s[f][i] \in Seq(Msg) /\ Plain(s[g][i] \o s[f][i])
      /\ Range(s[g][i] \o s[f][i]) = Range(s[g][i]) \cup Range(s[f][i])
  <2>1. Plain(s[f][i]) /\ Plain(s[g][i]) /\ Range(s[g][i]) \cap Range(s[f][i]) = {} BY <1>4
  <2>q. QED BY <1>5, <2>1, ConcatPlain
<1>7. Shape(n)
  <2>1. n[f] \in [Link -> Seq(Msg)] /\ n[g] \in [Link -> Seq(Msg)]
    BY <1>2, <1>3, <1>6, EmptyPlain
  <2>2. \A h \in {f, g} : n[h] \in Kind[h] BY <2>1, BufferKind
  <2>q. QED BY <1>1, <1>3, <2>2, Altered
<1>8. n.route = s.route /\ \A h \in BufferField \ {f, g} : n[h] = s[h] BY <1>2, <1>3 DEF Alters
<1>9. \A j \in Link \ {i}, h \in BufferField : n[h][j] = s[h][j] BY <1>2, <1>3, <1>8
<1>10. /\ n[f][i] = <<>> /\ n[g][i] = s[g][i] \o s[f][i]
       /\ \A h \in BufferField \ {f, g} : n[h][i] = s[h][i]
  BY <1>2, <1>3, <1>8
<1>11. \A h \in BufferField : Plain(n[h][i]) /\ Range(n[h][i]) \subseteq Content(s, i)
  BY <1>4, <1>6, <1>10, EmptyPlain DEF Content
<1>12. \A h, k \in BufferField : h # k => Range(n[h][i]) \cap Range(n[k][i]) = {}
  <2>1. /\ Range(n[f][i]) = {} /\ Range(n[g][i]) = Range(s[g][i]) \cup Range(s[f][i])
        /\ \A h \in BufferField \ {f, g} : Range(n[h][i]) = Range(s[h][i])
    BY <1>6, <1>10, EmptyPlain
  <2>2. \A h \in BufferField \ {f, g} : Range(n[g][i]) \cap Range(n[h][i]) = {} BY <1>4, <2>1
  <2>q. QED BY <1>4, <2>1, <2>2
<1>13. Tidy(n) BY <1>7, <1>8, <1>9, <1>11, <1>12, MovedTidy
<1>q. QED BY <1>13 DEF n

-------------------------------------------------------------------------------
(* Changeover and changeback, and what is sent about them. *)

LEMMA FreeCoTidy ==
    ASSUME NEW s, Tidy(s), NEW i \in Link
    PROVE  Tidy(FreeCo(s, i)) /\ Stock(FreeCo(s, i)) \subseteq Stock(s)
<1> DEFINE a == Emptied(s, i, "co_tx_buf")
<1>1. "co_tx_buf" \in BufferField /\ "co_tx_q" \in BufferField BY DEF BufferField
<1>2. Tidy(a) /\ Stock(a) \subseteq Stock(s) BY <1>1, EmptyTidy
<1>3. FreeCo(s, i) = Emptied(a, i, "co_tx_q") BY DEF FreeCo, Emptied
<1> HIDE DEF a
<1>4. Tidy(Emptied(a, i, "co_tx_q")) /\ Stock(Emptied(a, i, "co_tx_q")) \subseteq Stock(a)
  BY <1>1, <1>2, EmptyTidy
<1>q. QED BY <1>2, <1>3, <1>4

LEMMA ChangeoverKnown ==
    /\ "NO_CHANGEOVER" \in Changeover /\ "CHANGEOVER_INITIATED" \in Changeover
    /\ "CHANGEOVER_IN_PROGRESS" \in Changeover /\ "CHANGEOVER_COMPLETED" \in Changeover
    /\ "CHANGEBACK_INITIATED" \in Changeover /\ "CHANGEBACK" \in Changeover
BY DEF Changeover

LEMMA BuffersKnown ==
    /\ "tx_q" \in BufferField /\ "tx_buf" \in BufferField /\ "co_buf" \in BufferField
    /\ "cb_buf" \in BufferField /\ "co_tx_q" \in BufferField /\ "co_tx_buf" \in BufferField
BY DEF BufferField

LEMMA SentOf ==
    ASSUME NEW s, Tidy(s), NEW i \in Link
    PROVE  s.sent[i] \in SUBSET SentMsg /\ s.inhibit[i] \in SUBSET Inhibit
BY OthersOf, KindOf DEF Tidy

\* Forgetting messages that were sent.
LEMMA UnsentTidy ==
    ASSUME NEW s, Tidy(s), NEW i \in Link
    PROVE  \A T : Tidy([s EXCEPT !.sent[i] = @ \ T])
<1> SUFFICES ASSUME NEW T PROVE Tidy([s EXCEPT !.sent[i] = @ \ T])
  OBVIOUS
<1>1. s.sent[i] \ T \in SUBSET SentMsg BY SentOf
<1>2. Tidy([s EXCEPT !.sent[i] = s.sent[i] \ T]) BY <1>1, SetTidy
<1>q. QED BY <1>2

LEMMA DropChangebackTidy ==
    ASSUME NEW s, Tidy(s), NEW i \in Link
    PROVE  Tidy(DropChangeback(s, i))
<1> DEFINE a == Poured(s, i, "cb_buf", "co_buf")
           b == [a EXCEPT !.changeover[i] = "NO_CHANGEOVER"]
<1>1. Tidy(a) BY BuffersKnown, PourTidy
<1>2. DropChangeback(s, i) = StopAll(b, i, {"t3", "t4", "t5"}) BY DEF DropChangeback, Poured
<1> HIDE DEF a
<1>3. Tidy(b) BY <1>1, ChangeoverKnown, SetTidy
<1> HIDE DEF b
<1>4. \A T : Tidy(StopAll(b, i, T)) BY <1>3, TimersKnown, TimersTidy
<1>q. QED BY <1>2, <1>4

LEMMA StartTimedTidy ==
    ASSUME NEW s, Tidy(s), NEW i \in Link
    PROVE  Tidy(StartTimedChangeover(s, i))
<1>1. CASE s.changeover[i] # "NO_CHANGEOVER" BY <1>1 DEF StartTimedChangeover
<1>2. CASE s.changeover[i] = "NO_CHANGEOVER"
  <2> DEFINE a == [s EXCEPT !.changeover[i] = "CHANGEOVER_IN_PROGRESS"]
             b == Poured(a, i, "tx_q", "co_buf")
             c == Restart(b, i, "t1")
  <2>1. Tidy(a) BY ChangeoverKnown, SetTidy
  <2>2. StartTimedChangeover(s, i) = FreeCo(c, i)
    <3>1. a.tx_q = s.tx_q BY DEF Tidy, Shape, Field, OtherField
    <3>2. b = [s EXCEPT !.changeover[i] = "CHANGEOVER_IN_PROGRESS",
                        !.co_buf[i] = @ \o s.tx_q[i], !.tx_q[i] = <<>>]
      BY <3>1 DEF Poured
    <3>q. QED BY <1>2, <3>2 DEF StartTimedChangeover
  <2> HIDE DEF a
  <2>3. Tidy(b) BY <2>1, BuffersKnown, PourTidy
  <2> HIDE DEF b
  <2>4. Tidy(c) BY <2>3, TimersKnown, TimersTidy
  <2> HIDE DEF c
  <2>q. QED BY <2>2, <2>4, FreeCoTidy
<1>q. QED BY <1>1, <1>2

LEMMA CancelChangeoverTidy ==
    ASSUME NEW s, Tidy(s), NEW i \in Link
    PROVE  Tidy(CancelChangeover(s, i))
<1> DEFINE n == StopAll(s, i, {"t1", "t2"})
           a == [n EXCEPT !.sent[i] = @ \ {"COO", "ECO"}]
           b == Poured(a, i, "co_tx_q", "cb_buf")
           c == Poured(b, i, "co_buf", "cb_buf")
           d == [c EXCEPT !.changeover[i] = "NO_CHANGEOVER"]
           e == [n EXCEPT !.sent[i] = @ \ {"COO", "ECO"},
                          !.cb_buf[i] = @ \o s.co_tx_q[i] \o s.co_buf[i],
                          !.co_buf[i] = <<>>,
                          !.changeover[i] = "NO_CHANGEOVER"]
<1>1. Tidy(n) BY TimersKnown, TimersTidy
<1>2. n.co_tx_q = s.co_tx_q /\ n.co_buf = s.co_buf
  BY DEF Tidy, Shape, Field, OtherField, StopAll
<1>3. CancelChangeover(s, i) = FreeCo(e, i) BY DEF CancelChangeover
<1> HIDE DEF n
<1>4. Tidy(a) BY <1>1, UnsentTidy
<1>5. Tidy(b) BY <1>4, BuffersKnown, PourTidy
<1>6. Tidy(c) BY <1>5, BuffersKnown, PourTidy
<1>7. Tidy(d) BY <1>6, ChangeoverKnown, SetTidy
<1>8. FreeCo(e, i) = FreeCo(d, i)
  <2>1. Shape(n) BY <1>1 DEF Tidy
  <2>2. BufferField \cup {"sent", "changeover"} \subseteq Field
        /\ \A f \in BufferField : n[f] \in [Link -> Seq(Msg)]
    BY <2>1, BufferKind DEF Field, OtherField, Shape
  <2> DEFINE F == {"sent", "changeover", "cb_buf", "co_buf", "co_tx_q", "co_tx_buf"}
             l == FreeCo(e, i)
             r == FreeCo(d, i)
  <2>3. /\ Alters(n, l, F) /\ l.sent = [n.sent EXCEPT ![i] = @ \ {"COO", "ECO"}]
        /\ l.changeover = [n.changeover EXCEPT ![i] = "NO_CHANGEOVER"]
        /\ l.cb_buf = [n.cb_buf EXCEPT ![i] = @ \o n.co_tx_q[i] \o n.co_buf[i]]
        /\ l.co_buf = [n.co_buf EXCEPT ![i] = <<>>]
        /\ l.co_tx_q = [n.co_tx_q EXCEPT ![i] = <<>>]
        /\ l.co_tx_buf = [n.co_tx_buf EXCEPT ![i] = <<>>]
    BY <1>2, <2>1, <2>2, BuffersKnown DEF FreeCo, Shape, Alters
  <2>4. /\ Alters(n, r, F) /\ r.sent = [n.sent EXCEPT ![i] = @ \ {"COO", "ECO"}]
        /\ r.changeover = [n.changeover EXCEPT ![i] = "NO_CHANGEOVER"]
        /\ r.cb_buf = [n.cb_buf EXCEPT ![i] = @ \o n.co_tx_q[i] \o n.co_buf[i]]
        /\ r.co_buf = [n.co_buf EXCEPT ![i] = <<>>]
        /\ r.co_tx_q = [n.co_tx_q EXCEPT ![i] = <<>>]
        /\ r.co_tx_buf = [n.co_tx_buf EXCEPT ![i] = <<>>]
    <3>1. /\ Alters(n, a, {"sent"}) /\ a.sent = [n.sent EXCEPT ![i] = @ \ {"COO", "ECO"}]
      BY <2>1, <2>2 DEF Shape, Alters
    <3>2. Shape(a) /\ Shape(b) /\ Shape(c) /\ Shape(d) BY <1>4, <1>5, <1>6, <1>7 DEF Tidy
    <3> HIDE DEF a
    <3>3. /\ Alters(a, b, {"co_tx_q", "cb_buf"}) /\ b.co_tx_q = [a.co_tx_q EXCEPT ![i] = <<>>]
          /\ b.cb_buf = [a.cb_buf EXCEPT ![i] = a.cb_buf[i] \o a.co_tx_q[i]]
      <4>1. Pours(a, b, i, "co_tx_q", "cb_buf") BY <3>2, PourFields, BuffersKnown
      <4> HIDE DEF b
      <4>q. QED BY <4>1 DEF Pours
    <3> HIDE DEF b
    <3>4. /\ Alters(b, c, {"co_buf", "cb_buf"}) /\ c.co_buf = [b.co_buf EXCEPT ![i] = <<>>]
          /\ c.cb_buf = [b.cb_buf EXCEPT ![i] = b.cb_buf[i] \o b.co_buf[i]]
      <4>1. Pours(b, c, i, "co_buf", "cb_buf") BY <3>2, PourFields, BuffersKnown
      <4> HIDE DEF c
      <4>q. QED BY <4>1 DEF Pours
    <3> HIDE DEF c
    <3>5. /\ Alters(c, r, {"changeover", "co_tx_q", "co_tx_buf"})
          /\ r.changeover = [c.changeover EXCEPT ![i] = "NO_CHANGEOVER"]
          /\ r.co_tx_q = [c.co_tx_q EXCEPT ![i] = <<>>]
          /\ r.co_tx_buf = [c.co_tx_buf EXCEPT ![i] = <<>>]
      <4>1. {"changeover", "co_tx_q", "co_tx_buf"} \subseteq Field BY <2>2, BuffersKnown
      <4>q. QED BY <3>2, <4>1 DEF Shape, Alters, FreeCo
    <3> HIDE DEF r
    <3>6. Alters(n, r, F) BY <3>1, <3>3, <3>4, <3>5 DEF Alters
    <3>7. /\ a.changeover = n.changeover /\ a.co_buf = n.co_buf /\ a.cb_buf = n.cb_buf
          /\ a.co_tx_q = n.co_tx_q /\ a.co_tx_buf = n.co_tx_buf
          /\ b.sent = a.sent /\ b.changeover = a.changeover /\ b.co_buf = a.co_buf
          /\ b.co_tx_buf = a.co_tx_buf
          /\ c.sent = b.sent /\ c.changeover = b.changeover
          /\ c.co_tx_q = b.co_tx_q /\ c.co_tx_buf = b.co_tx_buf
          /\ r.sent = c.sent /\ r.co_buf = c.co_buf /\ r.cb_buf = c.cb_buf
      BY <2>2, BuffersKnown, <3>1, <3>3, <3>4, <3>5 DEF Alters
    <3>8. r.co_tx_q = [n.co_tx_q EXCEPT ![i] = <<>>]
      <4>1. r.co_tx_q = [[n.co_tx_q EXCEPT ![i] = <<>>] EXCEPT ![i] = <<>>]
        BY <3>3, <3>5, <3>7
      <4>2. n.co_tx_q \in [Link -> Seq(Msg)] BY <2>2, BuffersKnown
      <4>q. QED BY <4>1, <4>2
    <3>9. r.cb_buf = [n.cb_buf EXCEPT ![i] = @ \o n.co_tx_q[i] \o n.co_buf[i]]
      <4>1. n.cb_buf \in [Link -> Seq(Msg)] BY <2>2, BuffersKnown
      <4>2. b.cb_buf = [n.cb_buf EXCEPT ![i] = n.cb_buf[i] \o n.co_tx_q[i]] BY <3>3, <3>7
      <4>3. b.cb_buf[i] = n.cb_buf[i] \o n.co_tx_q[i] BY <4>1, <4>2
      <4>4. r.cb_buf = [b.cb_buf EXCEPT ![i] = (n.cb_buf[i] \o n.co_tx_q[i]) \o n.co_buf[i]]
        BY <3>4, <3>7, <4>3
      <4> DEFINE w == (n.cb_buf[i] \o n.co_tx_q[i]) \o n.co_buf[i]
      <4>5. r.cb_buf = [n.cb_buf EXCEPT ![i] = w]
        <5> HIDE DEF w
        <5>q. QED BY <4>1, <4>2, <4>4 DEF w
      <4>q. QED BY <4>5
    <3>q. QED BY <3>1, <3>4, <3>5, <3>6, <3>7, <3>8, <3>9
  <2> HIDE DEF l, r
  <2>5. \A f \in Field : l[f] = r[f] BY <2>3, <2>4 DEF Alters
  <2>6. l = r BY <2>3, <2>4, <2>5 DEF Alters
  <2>q. QED BY <2>6 DEF l, r
<1>9. Tidy(FreeCo(d, i)) BY <1>7, FreeCoTidy
<1>q. QED BY <1>3, <1>8, <1>9

LEMMA SpOf == \A i \in Link : AdjSp[i] \in Sp /\ i \in LinksOf(AdjSp[i])
BY DestAssumption DEF LinksOf

LEMMA TraTidy ==
    ASSUME NEW s, Tidy(s), NEW sp \in Sp
    PROVE  Tidy([s EXCEPT !.tra[sp] = @ \cup {"SENT"},
                          !.t21[sp] = @ \/ "t21" \in Configured])
<1> DEFINE a == [s EXCEPT !.tra[sp] = s.tra[sp] \cup {"SENT"}]
           v == s.t21[sp] \/ "t21" \in Configured
<1>1. s.tra[sp] \cup {"SENT"} \in SUBSET {"GOT", "SENT"} BY OthersOf, KindOf DEF Tidy
<1>2. Tidy(a) BY <1>1, SetSpTidy
<1>3. v \in BOOLEAN OBVIOUS
<1>4. [s EXCEPT !.tra[sp] = @ \cup {"SENT"}, !.t21[sp] = @ \/ "t21" \in Configured]
          = [a EXCEPT !.t21[sp] = v]
  BY DEF Tidy, Shape, Field, OtherField
<1> HIDE DEF a, v
<1>5. Tidy([a EXCEPT !.t21[sp] = v]) BY <1>2, <1>3, SetSpTidy
<1>q. QED BY <1>4, <1>5

LEMMA NoteSentTidy ==
    ASSUME NEW s, Tidy(s), NEW i \in Link, NEW msg
    PROVE  Tidy(NoteSent(s, i, msg))
<1> DEFINE n == IF msg \in SentMsg THEN [s EXCEPT !.sent[i] = @ \cup {msg}] ELSE s
<1>1. Tidy(n)
  <2>1. CASE msg \in SentMsg
    <3>1. s.sent[i] \cup {msg} \in SUBSET SentMsg BY <2>1, SentOf
    <3>2. Tidy([s EXCEPT !.sent[i] = s.sent[i] \cup {msg}]) BY <3>1, SetTidy
    <3>q. QED BY <2>1, <3>2
  <2>2. CASE msg \notin SentMsg BY <2>2
  <2>q. QED BY <2>1, <2>2
<1>2. NoteSent(s, i, msg) =
        CASE msg = "CBD" -> IF "t4" \in Configured /\ n.timer[i]["t4"] = "off"
                            THEN Schedule(n, i, "t4", "1st") ELSE n
          [] msg = "COO" -> IF "t2" \in Configured
                            THEN Schedule(Stop(n, i, "t2"), i, "t2", "1st") ELSE n
          [] msg = "ECO" -> IF "t2" \in Configured THEN Restart(n, i, "t2") ELSE n
          [] msg = "LUN" -> IF "t14" \in Configured THEN ScheduleNext(n, i, "t12") ELSE n
          [] msg = "LIN" -> IF "t14" \in Configured THEN ScheduleNext(n, i, "t14") ELSE n
          [] msg = "LFU" -> IF "t13" \in Configured THEN ScheduleNext(n, i, "t13") ELSE n
          [] msg = "TRA" -> [n EXCEPT !.tra[AdjSp[i]] = @ \cup {"SENT"},
                                      !.t21[AdjSp[i]] = @ \/ "t21" \in Configured]
          [] OTHER -> n
  BY DEF NoteSent
<1> HIDE DEF n
<1>3. /\ \A t \in LinkTimer : Tidy(ScheduleNext(n, i, t)) /\ Tidy(Restart(n, i, t))
      /\ \A t \in LinkTimer : Tidy(Schedule(n, i, t, "1st"))
      /\ Tidy(Schedule(Stop(n, i, "t2"), i, "t2", "1st"))
  <2>1. "1st" \in Callback BY DEF Callback
  <2>2. Tidy(Stop(n, i, "t2")) BY <1>1, TimersKnown, TimersTidy
  <2>q. QED BY <1>1, <2>1, <2>2, TimersKnown, TimersTidy
<1>4. Tidy([n EXCEPT !.tra[AdjSp[i]] = @ \cup {"SENT"},
                     !.t21[AdjSp[i]] = @ \/ "t21" \in Configured])
  BY <1>1, SpOf, TraTidy
<1>q. QED BY <1>1, <1>2, <1>3, <1>4, TimersKnown

LEMMA SendFailedTidy ==
    ASSUME NEW s, Tidy(s), NEW i \in Link
    PROVE  Tidy(SendFailed(s, i))
<1>1. CASE s.sent[i] \cap {"COO", "ECO"} # {}
  <2> DEFINE a == [s EXCEPT !.sent[i] = @ \ {"COO", "ECO"}]
             n == Stop(a, i, "t2")
             m == IF InChangeback(n, i) THEN DropChangeback(n, i) ELSE n
  <2>1. Tidy(a) BY UnsentTidy
  <2>2. SendFailed(s, i) = StartTimedChangeover(m, i) BY <1>1 DEF SendFailed
  <2> HIDE DEF a
  <2>3. Tidy(n) BY <2>1, TimersKnown, TimersTidy
  <2> HIDE DEF n
  <2>4. Tidy(m) BY <2>3, DropChangebackTidy
  <2> HIDE DEF m
  <2>q. QED BY <2>2, <2>4, StartTimedTidy
<1>2. CASE s.sent[i] \cap {"COO", "ECO"} = {}
  <2> DEFINE a == [s EXCEPT !.sent[i] = @ \ {"CBD"}]
  <2>1. Tidy(a) BY UnsentTidy
  <2>2. SendFailed(s, i) = IF "CBD" \in s.sent[i] THEN DropChangeback(a, i) ELSE s
    BY <1>2 DEF SendFailed
  <2> HIDE DEF a
  <2>3. Tidy(DropChangeback(a, i)) BY <2>1, DropChangebackTidy
  <2>q. QED BY <2>2, <2>3
<1>q. QED BY <1>1, <1>2

LEMMA OutTidy ==
    ASSUME NEW s, Tidy(s), NEW o \in OutMsg
    PROVE  Tidy([s EXCEPT !.out = Append(@, o)])
<1>1. s.out \in Seq(OutMsg) BY OthersOf, KindOf DEF Tidy
<1>2. Append(s.out, o) \in Seq(OutMsg) BY <1>1, AppendProperties
<1>3. Tidy([s EXCEPT !.out = Append(s.out, o)]) BY <1>2, SetSs7Tidy
<1>q. QED BY <1>3

LEMMA SendTidy ==
    ASSUME NEW s, Tidy(s), NEW i \in Link, NEW msg \in NetMng
    PROVE  Tidy(NetMngSend(s, i, msg))
<1> DEFINE n == NoteSent(s, i, msg)
           o == [msg |-> msg, sls |-> i, via |-> Via(n, i)]
<1>1. Tidy(n) BY NoteSentTidy
<1>2. NetMngSend(s, i, msg) = IF Via(n, i) = {} THEN SendFailed(n, i)
                              ELSE [n EXCEPT !.out = Append(@, o)]
  BY DEF NetMngSend, HandOver
<1>3. o \in OutMsg
  <2>1. Via(n, i) \in SUBSET Link BY DEF Via, Reachable, PassedLinks
  <2>q. QED BY <2>1 DEF OutMsg
<1> HIDE DEF n, o
<1>4. Tidy([n EXCEPT !.out = Append(@, o)]) BY <1>1, <1>3, OutTidy
<1>5. Tidy(SendFailed(n, i)) BY <1>1, SendFailedTidy
<1>q. QED BY <1>2, <1>4, <1>5

LEMMA MessagesKnown ==
    /\ "COO" \in NetMng /\ "COA" \in NetMng /\ "CBD" \in NetMng /\ "CBA" \in NetMng
    /\ "ECO" \in NetMng /\ "ECA" \in NetMng /\ "LIN" \in NetMng /\ "LUN" \in NetMng
    /\ "LIA" \in NetMng /\ "LUA" \in NetMng /\ "LID" \in NetMng /\ "LFU" \in NetMng
    /\ "LLT" \in NetMng /\ "LRT" \in NetMng /\ "TRA" \in NetMng /\ "RST" \in NetMng
BY DEF NetMng

LEMMA TestSendTidy ==
    ASSUME NEW s, Tidy(s), NEW i \in Link
    PROVE  /\ Tidy(StdTestSend(s, i)) /\ Tidy(EventLinkUp(s, i))
           /\ \A msg \in TestMsg :
                  Tidy([s EXCEPT !.out = Append(@, [msg |-> msg, sls |-> i, via |-> {i}])])
<1>1. \A msg \in TestMsg :
          Tidy([s EXCEPT !.out = Append(@, [msg |-> msg, sls |-> i, via |-> {i}])])
  <2>1. \A msg \in TestMsg : [msg |-> msg, sls |-> i, via |-> {i}] \in OutMsg BY DEF OutMsg
  <2>q. QED BY <2>1, OutTidy
<1> DEFINE n == [s EXCEPT !.out = Append(@, [msg |-> "SLTM", sls |-> i, via |-> {i}])]
           m == StdTestSend(s, i)
<1>2. Tidy(n) BY <1>1 DEF TestMsg
<1>3. m = IF "q707_t1" \in Configured THEN Restart(n, i, "q707_t1") ELSE n BY DEF StdTestSend
<1>4. EventLinkUp(s, i) = IF "q707_t2" \in Configured THEN Restart(m, i, "q707_t2") ELSE m
  BY DEF EventLinkUp
<1> HIDE DEF n, m
<1>5. Tidy(m) BY <1>2, <1>3, TimersKnown, TimersTidy
<1>6. Tidy(EventLinkUp(s, i))
  <2>1. Tidy(Restart(m, i, "q707_t2")) BY <1>5, TimersKnown, TimersTidy
  <2>q. QED BY <1>4, <1>5, <2>1
<1>q. QED BY <1>1, <1>5, <1>6 DEF m

-------------------------------------------------------------------------------
(* The linkset and its adjacent SPs. *)

LEMMA UninhibitTidy ==
    ASSUME NEW s, Tidy(s)
    PROVE  Tidy(Uninhibit(s))
<1>1. \A n, end : \A msg \in NetMng : Tidy(n) => Tidy(Request(n, end, msg))
  <2> SUFFICES ASSUME NEW n, NEW end, NEW msg \in NetMng, Tidy(n)
               PROVE  Tidy(Request(n, end, msg))
    OBVIOUS
  <2>1. InhibitedBy(n, end) # {} => First(InhibitedBy(n, end)) \in Link
    BY FirstExists DEF InhibitedBy
  <2>2. InhibitedBy(n, end) # {} => Tidy(NetMngSend(n, First(InhibitedBy(n, end)), msg))
    BY <2>1, SendTidy
  <2>q. QED BY <2>2 DEF Request
<1>2. Tidy(Request(s, "LOCALLY", "LUN")) BY <1>1, MessagesKnown
<1>3. Tidy(Request(Request(s, "LOCALLY", "LUN"), "REMOTELY", "LFU")) BY <1>1, <1>2, MessagesKnown
<1>q. QED BY <1>2, <1>3 DEF Uninhibit

LEMMA LinksetUpTidy ==
    ASSUME NEW s, Tidy(s)
    PROVE  Tidy(LinksetUp(s))
<1> DEFINE c == [i \in Link |-> IF s.passed[i] THEN s.changeover[i] ELSE "CHANGEOVER_COMPLETED"]
           a == [s EXCEPT !.state = "UP"]
           b == [a EXCEPT !.linkset_up = TRUE]
<1>1. c \in Kind.changeover BY OthersOf, KindOf, ChangeoverKnown DEF Tidy
<1>2. LinksetUp(s) = [b EXCEPT !.changeover = c]
  BY DEF LinksetUp, Tidy, Shape, Field, OtherField
<1>3. Tidy(a) BY SetSs7Tidy
<1> HIDE DEF a, c
<1>4. Tidy(b) BY <1>3, SetSs7Tidy
<1> HIDE DEF b
<1>5. Tidy([b EXCEPT !.changeover = c]) BY <1>1, <1>4, SetSs7Tidy
<1>q. QED BY <1>2, <1>5

\* Both buffers of messages that are saved are emptied, at every link.
LEMMA FreeAllTidy ==
    ASSUME NEW s, Tidy(s)
    PROVE  Tidy([s EXCEPT !.co_tx_buf = [i \in Link |-> <<>>], !.co_tx_q = [i \in Link |-> <<>>]])
<1> DEFINE none == [i \in Link |-> <<>>]
           n == [s EXCEPT !.co_tx_buf = none, !.co_tx_q = none]
           F == {"co_tx_buf", "co_tx_q"}
<1>1. Shape(s) /\ F \subseteq BufferField /\ BufferField \subseteq Field /\ "route" \in Field
      /\ "route" \notin F
  BY DEF Tidy, BufferField, Field
<1>2. Alters(s, n, F) /\ \A f \in F : n[f] = none BY <1>1 DEF Alters, Shape
<1>3. none \in [Link -> Seq(Msg)] BY EmptyPlain
<1> HIDE DEF n
<1>4. \A f \in F : n[f] \in Kind[f] BY <1>1, <1>2, <1>3, BufferKind
<1>5. Shape(n) BY <1>1, <1>2, <1>4, Altered
<1>6. n.route = s.route /\ \A f \in BufferField \ F : n[f] = s[f] BY <1>1, <1>2 DEF Alters
<1>7. \A p \in Place : Box(n, p) = Box(s, p) \/ Box(n, p) = <<>>
  <2> SUFFICES ASSUME NEW p \in Place PROVE Box(n, p) = Box(s, p) \/ Box(n, p) = <<>>
    OBVIOUS
  <2>1. CASE \E i \in Link, f \in BufferField : p = <<"link", i, f>>
    BY <1>2, <1>6, <2>1, PlaceOf
  <2>2. CASE \E sp \in Sp, d \in Dest : p = <<"route", sp, d>> BY <1>6, <2>2, PlaceOf
  <2>q. QED BY <2>1, <2>2, PlaceOf
<1>8. \A p \in Place : Plain(Box(n, p)) /\ Range(Box(n, p)) \subseteq Range(Box(s, p))
  BY <1>7, EmptyPlain DEF Tidy, Apart
<1>9. Tidy(n) BY <1>5, <1>6, <1>8, ShrunkTidy
<1>q. QED BY <1>9 DEF n

LEMMA LinksetDownTidy ==
    ASSUME NEW s, Tidy(s)
    PROVE  Tidy(LinksetDown(s))
<1> DEFINE d == [s EXCEPT !.state = "DOWN"]
           p == PostEvent(d, [e |-> "DOWN"])
           c == [i \in Link |-> IF "LOCALLY" \in d.inhibit[i] THEN "CHANGEOVER_COMPLETED"
                                ELSE "NO_CHANGEOVER"]
           t == [i \in Link |-> [u \in LinkTimer |-> "off"]]
           a == [p EXCEPT !.changeover = c]
           b == [a EXCEPT !.co_tx_buf = [i \in Link |-> <<>>], !.co_tx_q = [i \in Link |-> <<>>]]
<1>1. Tidy(d) BY SetSs7Tidy
<1>2. LinksetDown(s) = IF d.linkset_up THEN [d EXCEPT !.linkset_up = FALSE]
                       ELSE IF ~EventRoom(d) THEN p ELSE [b EXCEPT !.timer = t]
  BY DEF LinksetDown
<1>3. c \in Kind.changeover /\ t \in Kind.timer BY KindOf, ChangeoverKnown DEF TimerValue
<1> HIDE DEF d, c, t
<1>4. Tidy([d EXCEPT !.linkset_up = FALSE]) BY <1>1, SetSs7Tidy
<1>5. Tidy(p) BY <1>1, PostTidy DEF AppEvent
<1> HIDE DEF p
<1>6. Tidy(a) BY <1>3, <1>5, SetSs7Tidy
<1> HIDE DEF a
<1>7. Tidy(b) BY <1>6, FreeAllTidy
<1> HIDE DEF b
<1>8. Tidy([b EXCEPT !.timer = t]) BY <1>3, <1>7, SetSs7Tidy
<1>q. QED BY <1>2, <1>4, <1>5, <1>8

LEMMA Ss7CheckTidy ==
    ASSUME NEW s, Tidy(s)
    PROVE  Tidy(Ss7Check(s))
<1>1. \A n : Tidy(n) => Tidy(LinksetFollows(n))
  BY LinksetUpTidy, LinksetDownTidy DEF LinksetFollows
<1>2. Tidy(Uninhibit(s)) BY UninhibitTidy
<1>q. QED BY <1>1, <1>2 DEF Ss7Check

\* The route records of an SP that is down; what waited for T6 is freed.
LEMMA RoutesGoneTidy ==
    ASSUME NEW s, Tidy(s), NEW sp \in Sp
    PROVE  Tidy([s EXCEPT !.route[sp] = [d \in Dest |-> NoRoute]])
<1> DEFINE n == [s EXCEPT !.route[sp] = [d \in Dest |-> NoRoute]]
<1>1. Shape(s) /\ "route" \in Field /\ BufferField \subseteq Field /\ "route" \notin BufferField
  BY DEF Tidy, BufferField, Field
<1>2. Kind.route = [Sp -> [Dest -> Route]] /\ s.route \in [Sp -> [Dest -> Route]]
  BY <1>1 DEF Kind, Shape
<1>3. Alters(s, n, {"route"}) /\ n.route = [s.route EXCEPT ![sp] = [d \in Dest |-> NoRoute]]
  BY <1>1 DEF Alters, Shape
<1>4. NoRoute \in Route /\ NoRoute.state = "none" /\ NoRoute.q = <<>>
  BY EmptyPlain DEF NoRoute, Route
<1> HIDE DEF n
<1>5. n.route \in Kind.route BY <1>2, <1>3, <1>4
<1>6. \A f \in {"route"} : n[f] \in Kind[f] BY <1>5
<1>7. Shape(n) BY <1>1, <1>3, <1>6, Altered
<1>8. \A f \in BufferField : n[f] = s[f] BY <1>1, <1>3 DEF Alters
<1>9. /\ \A sq \in Sp \ {sp}, d \in Dest : n.route[sq][d] = s.route[sq][d]
      /\ \A d \in Dest : n.route[sp][d] = NoRoute
  BY <1>2, <1>3
<1>10. \A p \in Place : Box(n, p) = Box(s, p) \/ Box(n, p) = <<>>
  <2> SUFFICES ASSUME NEW p \in Place PROVE Box(n, p) = Box(s, p) \/ Box(n, p) = <<>>
    OBVIOUS
  <2>1. CASE \E i \in Link, f \in BufferField : p = <<"link", i, f>> BY <1>8, <2>1, PlaceOf
  <2>2. CASE \E sq \in Sp, d \in Dest : p = <<"route", sq, d>>
    <3>1. PICK sq \in Sp, d \in Dest : p = <<"route", sq, d>> BY <2>2
    <3>2. Box(n, p) = n.route[sq][d].q /\ Box(s, p) = s.route[sq][d].q BY <3>1, PlaceOf
    <3>q. QED BY <1>4, <1>9, <3>2
  <2>q. QED BY <2>1, <2>2, PlaceOf
<1>11. \A p \in Place : Plain(Box(n, p)) /\ Range(Box(n, p)) \subseteq Range(Box(s, p))
  BY <1>10, EmptyPlain DEF Tidy, Apart
<1>12. \A sq \in Sp, d \in Dest : n.route[sq][d].state = "TFP" => s.route[sq][d].state = "TFP"
  BY <1>4, <1>9
<1>13. Tidy(n) BY <1>7, <1>11, <1>12, ShrunkTidy
<1>q. QED BY <1>13 DEF n

LEMMA ForgetPeerTidy ==
    ASSUME NEW s, Tidy(s), NEW sp \in Sp
    PROVE  Tidy(ForgetPeer(s, sp))
<1> DEFINE a == [s EXCEPT !.sp[sp] = "DOWN"]
           b == [a EXCEPT !.tra[sp] = {}]
           sent == [i \in Link |-> IF AdjSp[i] = sp THEN {} ELSE s.sent[i]]
           c == [b EXCEPT !.sent = sent]
           timer == [i \in Link |-> [t \in LinkTimer |->
                        IF AdjSp[i] = sp /\ t \in OtherTimer THEN "off" ELSE s.timer[i][t]]]
           d == [c EXCEPT !.timer = timer]
           inhibit == [i \in Link |-> IF AdjSp[i] = sp THEN s.inhibit[i] \ {"REMOTELY"}
                                      ELSE s.inhibit[i]]
           e == [d EXCEPT !.inhibit = inhibit]
<1>1. s.sent \in Kind.sent /\ s.timer \in Kind.timer /\ s.inhibit \in Kind.inhibit
  BY OthersOf DEF Tidy
<1>2. sent \in Kind.sent /\ timer \in Kind.timer /\ inhibit \in Kind.inhibit
  BY <1>1, KindOf DEF TimerValue
<1>3. ForgetPeer(s, sp) = [e EXCEPT !.route[sp] = [x \in Dest |-> NoRoute]]
  BY DEF ForgetPeer, Tidy, Shape, Field, OtherField
<1>4. Tidy(a) BY SetSpTidy
<1> HIDE DEF a, sent, timer, inhibit
<1>5. Tidy(b) BY <1>4, SetSpTidy
<1> HIDE DEF b
<1>6. Tidy(c) BY <1>2, <1>5, SetSs7Tidy
<1> HIDE DEF c
<1>7. Tidy(d) BY <1>2, <1>6, SetSs7Tidy
<1> HIDE DEF d
<1>8. Tidy(e) BY <1>2, <1>7, SetSs7Tidy
<1> HIDE DEF e
<1>q. QED BY <1>3, <1>8, RoutesGoneTidy

LEMMA CheckTidy ==
    ASSUME NEW s, Tidy(s), NEW sp \in Sp
    PROVE  Tidy(Check(s, sp))
<1> DEFINE a == ForgetPeer(s, sp)
           b == [a EXCEPT !.t19[sp] = FALSE]
           c == [b EXCEPT !.t21[sp] = FALSE]
           d == [s EXCEPT !.sp[sp] = "UP"]
<1>1. Check(s, sp) \in {Ss7Check(c), Ss7Check(d), s} BY DEF Check
<1>2. Tidy(d) BY SetSpTidy
<1>3. Tidy(a) BY ForgetPeerTidy
<1> HIDE DEF a, d
<1>4. Tidy(b) BY <1>3, SetSpTidy
<1> HIDE DEF b
<1>5. Tidy(c) BY <1>4, SetSpTidy
<1> HIDE DEF c
<1>q. QED BY <1>1, <1>2, <1>5, Ss7CheckTidy

-------------------------------------------------------------------------------
(* Changeover and changeback with their checks of the linkset. *)

LEMMA CancelChangebackTidy ==
    ASSUME NEW s, Tidy(s), NEW i \in Link
    PROVE  Tidy(CancelChangeback(s, i)) /\ Tidy(TimedChangeover(s, i))
<1>1. Tidy(CancelChangeback(s, i))
  <2>1. Tidy(DropChangeback(s, i)) BY DropChangebackTidy
  <2>2. Tidy(Check(DropChangeback(s, i), AdjSp[i])) BY <2>1, SpOf, CheckTidy
  <2>q. QED BY <2>2 DEF CancelChangeback
<1>q. QED BY <1>1, StartTimedTidy DEF TimedChangeover

\* Boxes of one link, as lists of the six.
LEMMA LinkBoxes ==
    ASSUME NEW s, Tidy(s), NEW i \in Link
    PROVE  /\ \A f \in BufferField : /\ s[f][i] \in Seq(Msg) /\ Plain(s[f][i])
                                     /\ Range(s[f][i]) \subseteq Content(s, i)
           /\ \A f, g \in BufferField : f # g => Range(s[f][i]) \cap Range(s[g][i]) = {}
<1>1. \A f \in BufferField : <<"link", i, f>> \in Place /\ Box(s, <<"link", i, f>>) = s[f][i]
  BY PlaceOf
<1>2. \A f, g \in BufferField : f # g => <<"link", i, f>> # <<"link", i, g>> OBVIOUS
<1>3. \A f \in BufferField : s[f][i] \in Seq(Msg) BY ShapeOf DEF Tidy
<1>q. QED BY <1>1, <1>2, <1>3 DEF Tidy, Apart, Content

LEMMA SaveTidy ==
    ASSUME NEW s, Tidy(s), NEW i \in Link
    PROVE  Tidy(SaveBuffers(s, i)) /\ Tidy(PrepareChangeover(s, i))
<1>1. ASSUME NEW r, Tidy(r), r.changeover[i] # "CHANGEOVER_INITIATED"
      PROVE  Tidy(SaveBuffers(r, i))
  <2> DEFINE n == SaveBuffers(r, i)
             G == {"tx_q", "tx_buf", "co_tx_q", "co_tx_buf"}
  <2>1. Shape(r) BY <1>1 DEF Tidy
  <2>2. BufferField \cup {"changeover", "route"} \subseteq Field
        /\ \A f \in BufferField : r[f] \in [Link -> Seq(Msg)]
    BY <2>1, BufferKind DEF Field, OtherField, Shape
  <2>3. /\ Alters(r, n, {"changeover"} \cup G)
        /\ n.changeover = [r.changeover EXCEPT ![i] = "CHANGEOVER_INITIATED"]
        /\ n.co_tx_buf = [r.co_tx_buf EXCEPT ![i] = r.tx_buf[i]]
        /\ n.tx_buf = [r.tx_buf EXCEPT ![i] = <<>>]
        /\ n.co_tx_q = [r.co_tx_q EXCEPT ![i] = r.tx_q[i]]
        /\ n.tx_q = [r.tx_q EXCEPT ![i] = <<>>]
    BY <1>1, <2>1, <2>2, BuffersKnown DEF SaveBuffers, Alters, Shape
  <2> HIDE DEF n
  <2>4. r.tx_buf[i] \in Seq(Msg) /\ r.tx_q[i] \in Seq(Msg) BY <2>2, BuffersKnown
  <2>5. Shape(n)
    <3>1. n.changeover \in Kind.changeover BY <2>1, <2>3, OthersOf, KindOf, ChangeoverKnown
    <3>2. /\ n.co_tx_buf \in [Link -> Seq(Msg)] /\ n.tx_buf \in [Link -> Seq(Msg)]
          /\ n.co_tx_q \in [Link -> Seq(Msg)] /\ n.tx_q \in [Link -> Seq(Msg)]
      BY <2>2, <2>3, <2>4, BuffersKnown, EmptyPlain
    <3>3. \A f \in {"changeover"} \cup G : n[f] \in Kind[f] BY <3>1, <3>2, BufferKind, BuffersKnown
    <3>q. QED BY <2>1, <2>3, <3>3, Altered
  <2>6. n.route = r.route /\ n.co_buf = r.co_buf /\ n.cb_buf = r.cb_buf
    BY <2>2, <2>3, BuffersKnown DEF Alters
  <2>7. /\ n.co_tx_buf[i] = r.tx_buf[i] /\ n.co_tx_q[i] = r.tx_q[i]
        /\ n.tx_buf[i] = <<>> /\ n.tx_q[i] = <<>>
        /\ n.co_buf[i] = r.co_buf[i] /\ n.cb_buf[i] = r.cb_buf[i]
    BY <2>2, <2>3, <2>6, BuffersKnown
  <2>8. \A j \in Link \ {i}, f \in BufferField : n[f][j] = r[f][j]
    BY <2>2, <2>3, <2>6 DEF BufferField
  <2>9. /\ \A f \in BufferField : r[f][i] \in Seq(Msg) /\ Plain(r[f][i])
                                  /\ Range(r[f][i]) \subseteq Content(r, i)
        /\ \A f, g \in BufferField : f # g => Range(r[f][i]) \cap Range(r[g][i]) = {}
    BY <1>1, LinkBoxes
  <2>10. \A f \in BufferField : Plain(n[f][i]) /\ Range(n[f][i]) \subseteq Content(r, i)
    <3>1. \A f \in BufferField : n[f][i] = <<>> \/ \E g \in BufferField : n[f][i] = r[g][i]
      BY <2>7 DEF BufferField
    <3>q. QED BY <2>9, <3>1, EmptyPlain
  <2>11. \A f, g \in BufferField : f # g => Range(n[f][i]) \cap Range(n[g][i]) = {}
    <3> DEFINE h == [f \in BufferField |-> CASE f = "co_tx_buf" -> "tx_buf"
                                             [] f = "co_tx_q" -> "tx_q" [] OTHER -> f]
    <3>1. \A f \in BufferField : n[f][i] = <<>> \/ (n[f][i] = r[h[f]][i] /\ h[f] \in BufferField)
      BY <2>7 DEF BufferField
    <3>2. \A f, g \in BufferField : f # g /\ n[f][i] # <<>> /\ n[g][i] # <<>> => h[f] # h[g]
      BY <2>7 DEF BufferField
    <3> HIDE DEF h
    <3>q. QED BY <2>9, <3>1, <3>2, EmptyPlain
  <2>12. Tidy(n) BY <1>1, <2>5, <2>6, <2>8, <2>10, <2>11, MovedTidy
  <2>q. QED BY <2>12 DEF n
<1>2. \A r : Tidy(r) => Tidy(SaveBuffers(r, i)) BY <1>1 DEF SaveBuffers
<1>q. QED BY <1>2, CancelChangebackTidy DEF PrepareChangeover

\* A part of a buffer, from its first message on.
LEMMA PrefixPlain ==
    ASSUME NEW S, NEW q \in Seq(S), NEW acked \in Nat
    PROVE  /\ Unacknowledged(q, acked) \in Seq(S)
           /\ Range(Unacknowledged(q, acked)) \subseteq Range(q)
           /\ Plain(q) => Plain(Unacknowledged(q, acked))
<1> DEFINE r == Unacknowledged(q, acked)
           l == Len(q) - acked
<1>1. Len(q) \in Nat /\ DOMAIN q = 1 .. Len(q) BY LenProperties
<1>2. l \in Int /\ l <= Len(q) BY <1>1
<1>3. r = SubSeq(q, 1, l) BY DEF Unacknowledged
<1> HIDE DEF r, l
<1>4. \A k \in 1 .. l : k \in 1 .. Len(q) /\ q[k] \in S
  <2>1. \A k \in 1 .. l : k \in 1 .. Len(q) BY <1>1, <1>2
  <2>q. QED BY <2>1, ElementOfSeq
<1>5. /\ r \in Seq(S) /\ Len(r) = IF 1 <= l THEN l - 1 + 1 ELSE 0
      /\ \A k \in 1 .. l - 1 + 1 : r[k] = q[1 + k - 1]
  BY <1>2, <1>3, <1>4, SubSeqProperties
<1>6. DOMAIN r = 1 .. l /\ \A k \in 1 .. l : r[k] = q[k]
  <2>1. DOMAIN r = 1 .. Len(r) /\ l - 1 + 1 = l BY <1>2, <1>5, LenProperties
  <2>2. 1 .. Len(r) = 1 .. l BY <1>2, <1>5
  <2>3. \A k \in 1 .. l : 1 + k - 1 = k BY <1>2
  <2>q. QED BY <1>5, <2>1, <2>2, <2>3
<1>7. Range(r) \subseteq Range(q) BY <1>1, <1>4, <1>6 DEF Range
<1>8. Plain(q) => Plain(r) BY <1>1, <1>4, <1>6 DEF Plain
<1>q. QED BY <1>5, <1>7, <1>8 DEF r

LEMMA HandPart ==
    ASSUME NEW s, NEW a, Hand(s, a), NEW b \in Seq(Msg), Plain(b), Range(b) \subseteq Range(a)
    PROVE  Hand(s, b)
BY DEF Hand

LEMMA DivertTidy ==
    ASSUME NEW s, Tidy(s), NEW i \in Link, NEW acked \in Nat
    PROVE  Tidy(Divert(s, i, acked)) /\ Tidy(ChangeoverDone(s, i, acked))
<1>1. ASSUME NEW r, Tidy(r)
      PROVE  Tidy(Divert(r, i, acked))
  <2> DEFINE x == r.co_tx_buf[i]
             y == r.co_tx_q[i]
             z == r.co_buf[i]
             u == Unacknowledged(x, acked)
             a == Emptied(r, i, "co_tx_buf")
             b == Emptied(a, i, "co_tx_q")
             c == Emptied(b, i, "co_buf")
             sent == Transmit(c, u \o y \o z)
             n == [sent EXCEPT !.changeover[i] = "CHANGEOVER_COMPLETED"]
  <2>1. c = [FreeCo(r, i) EXCEPT !.co_buf[i] = <<>>] BY DEF FreeCo, Emptied
  <2>2. Divert(r, i, acked) \in {Check(n, AdjSp[i]), r} BY <2>1 DEF Divert
  <2>3. "co_tx_buf" # "co_tx_q" /\ "co_tx_buf" # "co_buf" /\ "co_tx_q" # "co_buf" OBVIOUS
  <2>4. Shape(r) BY <1>1 DEF Tidy
  <2>5. /\ Tidy(a) /\ Hand(a, x) /\ Stock(a) \subseteq Stock(r)
    BY <1>1, BuffersKnown, EmptyTidy
  <2>6. Alters(r, a, {"co_tx_buf"}) BY <2>4, BuffersKnown, EmptyFields
  <2> HIDE DEF a
  <2>7. a.co_tx_q = r.co_tx_q /\ a.co_buf = r.co_buf
    BY <2>3, <2>6, BufferKind, BuffersKnown DEF Alters
  <2>8. Tidy(b) /\ Hand(b, y) /\ Stock(b) \subseteq Stock(a) /\ Range(y) \subseteq Stock(a)
    BY <2>5, <2>7, BuffersKnown, EmptyTidy
  <2>9. Shape(a) BY <2>5 DEF Tidy
  <2>10. Alters(a, b, {"co_tx_q"}) BY <2>9, BuffersKnown, EmptyFields
  <2> HIDE DEF b
  <2>11. b.co_buf = r.co_buf BY <2>3, <2>7, <2>10, BufferKind, BuffersKnown DEF Alters
  <2>12. Tidy(c) /\ Hand(c, z) /\ Stock(c) \subseteq Stock(b) /\ Range(z) \subseteq Stock(b)
    BY <2>8, <2>11, BuffersKnown, EmptyTidy
  <2> HIDE DEF c
  <2>13. Hand(c, u)
    <3>1. Hand(c, x) BY <2>5, <2>8, <2>12, HandKept
    <3>2. u \in Seq(Msg) /\ Range(u) \subseteq Range(x) /\ Plain(u)
      BY <2>5, PrefixPlain DEF Hand
    <3>q. QED BY <3>1, <3>2, HandPart
  <2>14. Range(u) \subseteq Range(x) BY <2>5, PrefixPlain DEF Hand
  <2>15. Range(u) \cap Range(y) = {} /\ (Range(u) \cup Range(y)) \cap Range(z) = {}
    BY <2>5, <2>8, <2>12, <2>14 DEF Hand
  <2> HIDE DEF u, x, y, z
  <2>16. Hand(c, y) BY <2>8, <2>12, HandKept
  <2>17. Hand(c, u \o y) /\ Range(u \o y) = Range(u) \cup Range(y)
    BY <2>13, <2>15, <2>16, HandsJoin
  <2>18. Hand(c, (u \o y) \o z)
    <3> DEFINE w == u \o y
    <3>1. Hand(c, w) /\ Range(w) \cap Range(z) = {} BY <2>15, <2>17
    <3> HIDE DEF w
    <3>2. Hand(c, w \o z) BY <2>12, <3>1, HandsJoin
    <3>q. QED BY <3>2 DEF w
  <2>19. Tidy(sent) BY <2>12, <2>18, TransmitTidy
  <2> HIDE DEF sent
  <2>20. Tidy(n) BY <2>19, ChangeoverKnown, SetTidy
  <2> HIDE DEF n
  <2>21. Tidy(Check(n, AdjSp[i])) BY <2>20, SpOf, CheckTidy
  <2>q. QED BY <1>1, <2>2, <2>21
<1>q. QED BY <1>1, CancelChangebackTidy DEF ChangeoverDone

LEMMA ChangebackTidy ==
    ASSUME NEW s, Tidy(s), NEW i \in Link
    PROVE  Tidy(Changeback(s, i))
<1> DEFINE a == [s EXCEPT !.changeover[i] = "CHANGEBACK"]
           b == Poured(a, i, "tx_q", "cb_buf")
           c == Schedule(b, i, "t3", "1st")
<1>1. Tidy(a) BY ChangeoverKnown, SetTidy
<1>2. b = [s EXCEPT !.changeover[i] = "CHANGEBACK",
                    !.cb_buf[i] = @ \o s.tx_q[i], !.tx_q[i] = <<>>]
  <2>1. a.tx_q = s.tx_q BY DEF Tidy, Shape, Field, OtherField
  <2>q. QED BY <2>1 DEF Poured
<1>3. Changeback(s, i) \in {s, Check(CancelChangeover(s, i), AdjSp[i]), Check(c, AdjSp[i]),
                            Check(s, AdjSp[i])}
  BY <1>2 DEF Changeback
<1> HIDE DEF a
<1>4. Tidy(b) BY <1>1, BuffersKnown, PourTidy
<1> HIDE DEF b
<1>5. Tidy(c)
  <2>1. \A t \in LinkTimer : \A k \in Callback : Tidy(Schedule(b, i, t, k)) BY <1>4, TimersTidy
  <2>q. QED BY <2>1, TimersKnown DEF Callback
<1> HIDE DEF c
<1>6. Tidy(Check(CancelChangeover(s, i), AdjSp[i])) BY CancelChangeoverTidy, SpOf, CheckTidy
<1>7. Tidy(Check(c, AdjSp[i])) /\ Tidy(Check(s, AdjSp[i])) BY <1>5, SpOf, CheckTidy
<1>q. QED BY <1>3, <1>6, <1>7

LEMMA LinkFailedTidy ==
    ASSUME NEW s, Tidy(s), NEW i \in Link
    PROVE  Tidy(LinkFailed(s, i))
<1> DEFINE f == [s EXCEPT !.passed[i] = FALSE]
           p == PrepareChangeover(f, i)
           c == IF /\ NumLinks > 1 /\ AvailableLinks(f, TRUE) # {}
                   /\ f.changeover[i] \in {"NO_CHANGEOVER", "CHANGEBACK"}
                THEN NetMngSend(p, i, "COO") ELSE f
           d == StopAll(c, i, {"q707_t1", "q707_t2"})
<1>1. Tidy(f) BY SetTidy
<1>2. LinkFailed(s, i) = Check(d, AdjSp[i]) BY DEF LinkFailed
<1> HIDE DEF f
<1>3. Tidy(NetMngSend(p, i, "COO"))
  <2>1. Tidy(p) BY <1>1, SaveTidy
  <2> HIDE DEF p
  <2>q. QED BY <2>1, MessagesKnown, SendTidy
<1> HIDE DEF p
<1>4. Tidy(c) BY <1>1, <1>3
<1> HIDE DEF c
<1>5. \A T : Tidy(StopAll(c, i, T)) BY <1>4, TimersKnown, TimersTidy
<1>6. Tidy(d) BY <1>5
<1> HIDE DEF d
<1>q. QED BY <1>2, <1>6, SpOf, CheckTidy

LEMMA LinkDownTidy ==
    ASSUME NEW s, Tidy(s), NEW i \in Link
    PROVE  Tidy(EventLinkDown(s, i))
<1>1. Tidy([s EXCEPT !.linkstate[i] = "DOWN"]) BY SetTidy
<1>q. QED BY <1>1, LinkFailedTidy DEF EventLinkDown

-------------------------------------------------------------------------------
(* Messages that are taken off the links for a route. *)

Withdraws(s, n, sp, d, bufs) ==
    /\ Alters(s, n, Range(bufs))
    /\ \A f \in Range(bufs) : n[f] = [i \in Link |-> IF AdjSp[i] # sp THEN s[f][i]
                                                     ELSE Only(s[f][i], Msg \ MessagesFor(d))]

LEMMA WithdrawFields ==
    ASSUME NEW s, Shape(s), NEW sp, NEW d, NEW bufs, Range(bufs) \subseteq BufferField
    PROVE  Withdraws(s, Withdraw(s, sp, d, bufs), sp, d, bufs)
<1>1. DOMAIN s = Field /\ BufferField \subseteq Field BY BufferKind DEF Shape
<1>q. QED BY <1>1 DEF Withdraw, Withdraws, Alters

LEMMA WithdrawTidy ==
    ASSUME NEW s, Tidy(s), NEW sp, NEW d, NEW bufs, Range(bufs) \subseteq BufferField,
           NEW n, n = Withdraw(s, sp, d, bufs)
    PROVE  /\ Tidy(n) /\ n.route = s.route /\ Stock(n) \subseteq Stock(s)
           /\ \A f \in Range(bufs), i \in LinksOf(sp) : Range(n[f][i]) \cap MessagesFor(d) = {}
           /\ \A f \in BufferField, i \in Link : Range(n[f][i]) \subseteq Range(s[f][i])
<1>1. Shape(s) BY DEF Tidy
<1>2. /\ Alters(s, n, Range(bufs))
      /\ \A f \in Range(bufs) : n[f] =
             [i \in Link |-> IF AdjSp[i] # sp THEN s[f][i]
                             ELSE Only(s[f][i], Msg \ MessagesFor(d))]
  <2>1. Withdraws(s, n, sp, d, bufs) BY <1>1, WithdrawFields
  <2>q. QED BY <2>1 DEF Withdraws
<1>3. "route" \in Field /\ "route" \notin Range(bufs) /\ BufferField \subseteq Field
      /\ \A f \in BufferField, i \in Link : s[f][i] \in Seq(Msg) /\ Plain(s[f][i])
  BY <1>1, LinkBoxes DEF BufferField, Field
<1>4. n.route = s.route /\ \A f \in BufferField \ Range(bufs) : n[f] = s[f]
  BY <1>2, <1>3 DEF Alters
<1>5. \A f \in BufferField, i \in Link :
          /\ n[f][i] \in Seq(Msg) /\ Plain(n[f][i]) /\ Range(n[f][i]) \subseteq Range(s[f][i])
          /\ f \in Range(bufs) /\ AdjSp[i] = sp => Range(n[f][i]) \cap MessagesFor(d) = {}
  <2> SUFFICES ASSUME NEW f \in BufferField, NEW i \in Link
               PROVE  /\ n[f][i] \in Seq(Msg) /\ Plain(n[f][i])
                      /\ Range(n[f][i]) \subseteq Range(s[f][i])
                      /\ f \in Range(bufs) /\ AdjSp[i] = sp =>
                             Range(n[f][i]) \cap MessagesFor(d) = {}
    OBVIOUS
  <2>1. CASE f \in Range(bufs) /\ AdjSp[i] = sp
    <3>1. n[f][i] = Only(s[f][i], Msg \ MessagesFor(d)) BY <1>2, <2>1
    <3>2. /\ n[f][i] \in Seq(Msg) /\ Plain(n[f][i])
          /\ Range(n[f][i]) = Range(s[f][i]) \cap (Msg \ MessagesFor(d))
      BY <1>3, <3>1, OnlyPlain
    <3>q. QED BY <3>2
  <2>2. CASE ~(f \in Range(bufs) /\ AdjSp[i] = sp)
    <3>1. n[f][i] = s[f][i] BY <1>2, <1>4, <2>2
    <3>q. QED BY <1>3, <2>2, <3>1
  <2>q. QED BY <2>1, <2>2
<1>6. Shape(n)
  <2>1. \A f \in Range(bufs) : n[f] = [i \in Link |-> n[f][i]] BY <1>2
  <2>2. \A f \in Range(bufs) : n[f] \in Kind[f] BY <1>5, <2>1, BufferKind
  <2>q. QED BY <1>1, <1>2, <2>2, Altered
<1>7. \A p \in Place : Plain(Box(n, p)) /\ Range(Box(n, p)) \subseteq Range(Box(s, p))
  <2> SUFFICES ASSUME NEW p \in Place
               PROVE  Plain(Box(n, p)) /\ Range(Box(n, p)) \subseteq Range(Box(s, p))
    OBVIOUS
  <2>1. CASE \E i \in Link, f \in BufferField : p = <<"link", i, f>>
    <3>1. PICK i \in Link, f \in BufferField : p = <<"link", i, f>> BY <2>1
    <3>2. Box(n, p) = n[f][i] /\ Box(s, p) = s[f][i] BY <3>1, PlaceOf
    <3>q. QED BY <1>5, <3>2
  <2>2. CASE \E sq \in Sp, e \in Dest : p = <<"route", sq, e>>
    <3>1. Box(n, p) = Box(s, p) BY <1>4, <2>2, PlaceOf
    <3>q. QED BY <3>1 DEF Tidy, Apart
  <2>q. QED BY <2>1, <2>2, PlaceOf
<1>8. Tidy(n) /\ Stock(n) \subseteq Stock(s) BY <1>4, <1>6, <1>7, ShrunkTidy
<1>q. QED BY <1>4, <1>5, <1>8 DEF LinksOf

\* What is taken off: each message once.
LEMMA WithdrawnPlain ==
    ASSUME NEW s, Tidy(s), NEW sp, NEW d, NEW bufs \in Seq(BufferField), Plain(bufs)
    PROVE  LET w == Withdrawn(s, sp, d, bufs)
           IN  /\ w \in Seq(Msg) /\ Plain(w) /\ Range(w) \subseteq MessagesFor(d)
               /\ \A m \in Range(w) : \E i \in LinksOf(sp), f \in Range(bufs) : m \in Range(s[f][i])
<1> DEFINE at(i) == [k \in DOMAIN bufs |-> Only(s[bufs[k]][i], MessagesFor(d))]
           of(i) == IF AdjSp[i] # sp THEN <<>> ELSE FlattenSeq(at(i))
           all == [k \in 1 .. NumLinks |-> of(k - 1)]
<1>1. Withdrawn(s, sp, d, bufs) = FlattenSeq(all) BY DEF Withdrawn
<1>2. /\ DOMAIN bufs = 1 .. Len(bufs) /\ Len(bufs) \in Nat
      /\ \A k \in DOMAIN bufs : bufs[k] \in BufferField
  BY ElementOfSeq, LenProperties
<1>3. \A k \in DOMAIN bufs : bufs[k] \in Range(bufs) BY DEF Range
<1>4. \A i \in Link : /\ of(i) \in Seq(Msg) /\ Plain(of(i)) /\ Range(of(i)) \subseteq MessagesFor(d)
                      /\ \A m \in Range(of(i)) :
                             AdjSp[i] = sp /\ \E f \in Range(bufs) : m \in Range(s[f][i])
  <2> SUFFICES ASSUME NEW i \in Link
               PROVE  /\ of(i) \in Seq(Msg) /\ Plain(of(i)) /\ Range(of(i)) \subseteq MessagesFor(d)
                      /\ \A m \in Range(of(i)) :
                             AdjSp[i] = sp /\ \E f \in Range(bufs) : m \in Range(s[f][i])
    OBVIOUS
  <2>1. CASE AdjSp[i] # sp BY <2>1, EmptyPlain
  <2>2. CASE AdjSp[i] = sp
    <3> DEFINE seqs == at(i)
    <3>1. DOMAIN seqs = DOMAIN bufs OBVIOUS
    <3>2. /\ \A f \in BufferField : s[f][i] \in Seq(Msg) /\ Plain(s[f][i])
          /\ \A f, g \in BufferField : f # g => Range(s[f][i]) \cap Range(s[g][i]) = {}
      BY LinkBoxes
    <3>3. \A k \in DOMAIN bufs : /\ seqs[k] \in Seq(Msg) /\ Plain(seqs[k])
                                 /\ Range(seqs[k]) = Range(s[bufs[k]][i]) \cap MessagesFor(d)
      BY <1>2, <3>2, OnlyPlain
    <3>4. of(i) = FlattenSeq(seqs) /\ seqs = [k \in 1 .. Len(bufs) |-> seqs[k]] BY <1>2, <2>2
    <3> HIDE DEF seqs, of
    <3>5. seqs \in Seq(Seq(Msg)) BY <1>2, <3>3, <3>4, IsASeqOf
    <3>6. \A k, l \in DOMAIN bufs : k # l => Range(seqs[k]) \cap Range(seqs[l]) = {}
      <4> SUFFICES ASSUME NEW k \in DOMAIN bufs, NEW l \in DOMAIN bufs, k # l
                   PROVE  Range(seqs[k]) \cap Range(seqs[l]) = {}
        OBVIOUS
      <4>1. bufs[k] # bufs[l] BY DEF Plain
      <4>2. Range(s[bufs[k]][i]) \cap Range(s[bufs[l]][i]) = {} BY <1>2, <3>2, <4>1
      <4>q. QED BY <3>3, <4>2
    <3>7. FlattenSeq(seqs) \in Seq(Msg) /\ Plain(FlattenSeq(seqs))
      BY <3>1, <3>3, <3>5, <3>6, FlattenPlain
    <3>8. \A m : m \in Range(FlattenSeq(seqs)) <=> \E k \in DOMAIN bufs : m \in Range(seqs[k])
      BY <3>1, <3>5, FlattenPlain
    <3>9. \A m \in Range(of(i)) :
              m \in MessagesFor(d) /\ \E f \in Range(bufs) : m \in Range(s[f][i])
      BY <1>3, <3>3, <3>4, <3>8
    <3>q. QED BY <2>2, <3>4, <3>7, <3>9
  <2>q. QED BY <2>1, <2>2
<1> HIDE DEF of
<1>5. NumLinks \in Nat /\ DOMAIN all = 1 .. NumLinks /\ \A k \in 1 .. NumLinks : k - 1 \in Link
  BY NumLinksAssumption DEF Link
<1>6. all = [k \in 1 .. NumLinks |-> all[k]] /\ \A k \in 1 .. NumLinks : all[k] = of(k - 1)
  OBVIOUS
<1> HIDE DEF all
<1>7. all \in Seq(Seq(Msg)) BY <1>4, <1>5, <1>6, IsASeqOf
<1>8. \A i, j \in Link : i # j => Range(of(i)) \cap Range(of(j)) = {}
  <2> SUFFICES ASSUME NEW i \in Link, NEW j \in Link, i # j,
                      NEW m, m \in Range(of(i)), m \in Range(of(j))
               PROVE  FALSE
    OBVIOUS
  <2>1. PICK f \in Range(bufs) : m \in Range(s[f][i]) BY <1>4
  <2>2. PICK g \in Range(bufs) : m \in Range(s[g][j]) BY <1>4
  <2>3. f \in BufferField /\ g \in BufferField BY <1>2 DEF Range
  <2> DEFINE p == <<"link", i, f>>
             q == <<"link", j, g>>
  <2>4. p \in Place /\ q \in Place /\ p # q /\ Box(s, p) = s[f][i] /\ Box(s, q) = s[g][j]
    BY <2>3, PlaceOf
  <2>q. QED BY <2>1, <2>2, <2>4 DEF Tidy, Apart
<1>9. \A k, l \in DOMAIN all : k # l => Range(all[k]) \cap Range(all[l]) = {}
  <2> SUFFICES ASSUME NEW k \in 1 .. NumLinks, NEW l \in 1 .. NumLinks, k # l
               PROVE  Range(all[k]) \cap Range(all[l]) = {}
    BY <1>5
  <2>1. k - 1 # l - 1 OBVIOUS
  <2>q. QED BY <1>5, <1>6, <1>8, <2>1
<1>10. \A k \in DOMAIN all : Plain(all[k]) BY <1>4, <1>5, <1>6
<1>11. FlattenSeq(all) \in Seq(Msg) /\ Plain(FlattenSeq(all)) BY <1>7, <1>9, <1>10, FlattenPlain
<1>12. \A m : m \in Range(FlattenSeq(all)) <=> \E k \in DOMAIN all : m \in Range(all[k])
  BY <1>7, FlattenPlain
<1>13. \A m \in Range(FlattenSeq(all)) :
           m \in MessagesFor(d) /\ \E i \in LinksOf(sp), f \in Range(bufs) : m \in Range(s[f][i])
  BY <1>4, <1>5, <1>6, <1>12 DEF LinksOf
<1>q. QED BY <1>1, <1>11, <1>13

\* A new record for a route, and what waits for its T6.
RouteSet(s, sp, d, r) == [s EXCEPT !.route[sp][d] = r]

LEMMA RouteSetFields ==
    ASSUME NEW s, Shape(s), NEW sp \in Sp, NEW d \in Dest, NEW r \in Route
    PROVE  /\ Shape(RouteSet(s, sp, d, r)) /\ RouteSet(s, sp, d, r).route[sp][d] = r
           /\ \A f \in BufferField : RouteSet(s, sp, d, r)[f] = s[f]
           /\ \A p \in Place \ {<<"route", sp, d>>} : Box(RouteSet(s, sp, d, r), p) = Box(s, p)
           /\ \A sq \in Sp, e \in Dest : <<sq, e>> # <<sp, d>> =>
                  RouteSet(s, sp, d, r).route[sq][e] = s.route[sq][e]
           /\ Box(RouteSet(s, sp, d, r), <<"route", sp, d>>) = r.q
<1> DEFINE n == RouteSet(s, sp, d, r)
           here == <<"route", sp, d>>
<1>1. "route" \in Field /\ BufferField \subseteq Field /\ "route" \notin BufferField
  BY DEF BufferField, Field
<1>2. Kind.route = [Sp -> [Dest -> Route]] /\ s.route \in [Sp -> [Dest -> Route]]
  BY <1>1 DEF Kind, Shape
<1>3. Alters(s, n, {"route"}) /\ n.route = [s.route EXCEPT ![sp][d] = r]
  BY <1>1 DEF Alters, Shape, RouteSet
<1> HIDE DEF n
<1>4. n.route \in [Sp -> [Dest -> Route]] BY <1>2, <1>3
<1>5. \A f \in {"route"} : n[f] \in Kind[f] BY <1>2, <1>4
<1>6. Shape(n) BY <1>3, <1>5, Altered
<1>7. \A f \in BufferField : n[f] = s[f] BY <1>1, <1>3 DEF Alters
<1>8. n.route[sp][d] = r BY <1>2, <1>3
<1>9. \A sq \in Sp, e \in Dest : <<sq, e>> # <<sp, d>> => n.route[sq][e] = s.route[sq][e]
  <2> SUFFICES ASSUME NEW sq \in Sp, NEW e \in Dest, <<sq, e>> # <<sp, d>>
               PROVE  n.route[sq][e] = s.route[sq][e]
    OBVIOUS
  <2>1. CASE sq # sp BY <1>2, <1>3, <2>1
  <2>2. CASE sq = sp /\ e # d BY <1>2, <1>3, <2>2
  <2>q. QED BY <2>1, <2>2
<1>10. Box(n, here) = r.q BY <1>8, PlaceOf
<1>11. \A p \in Place \ {here} : Box(n, p) = Box(s, p)
  <2> SUFFICES ASSUME NEW p \in Place \ {here} PROVE Box(n, p) = Box(s, p)
    OBVIOUS
  <2>1. CASE \E i \in Link, f \in BufferField : p = <<"link", i, f>> BY <1>7, <2>1, PlaceOf
  <2>2. CASE \E sq \in Sp, e \in Dest : p = <<"route", sq, e>>
    <3>1. PICK sq \in Sp, e \in Dest : p = <<"route", sq, e>> BY <2>2
    <3>2. <<sq, e>> # <<sp, d>> BY <3>1
    <3>3. Box(n, p) = n.route[sq][e].q /\ Box(s, p) = s.route[sq][e].q BY <3>1, PlaceOf
    <3>q. QED BY <1>9, <3>2, <3>3
  <2>q. QED BY <2>1, <2>2, PlaceOf
<1>q. QED BY <1>6, <1>7, <1>8, <1>9, <1>10, <1>11 DEF n

LEMMA RouteSetTidy ==
    ASSUME NEW s, Tidy(s), NEW sp \in Sp, NEW d \in Dest, NEW r \in Route,
           Plain(r.q), Range(r.q) \subseteq MessagesFor(d),
           \A p \in Place \ {<<"route", sp, d>>} : Range(r.q) \cap Range(Box(s, p)) = {},
           r.state = "TFP" => \A i \in LinksOf(sp), f \in BufferField :
                                  Range(s[f][i]) \cap MessagesFor(d) = {}
    PROVE  /\ Tidy(RouteSet(s, sp, d, r))
           /\ r.q = <<>> => Stock(RouteSet(s, sp, d, r)) \subseteq Stock(s)
<1> DEFINE here == <<"route", sp, d>>
           n == RouteSet(s, sp, d, r)
<1>1. Shape(s) BY DEF Tidy
<1>2. /\ Shape(n) /\ n.route[sp][d] = r
      /\ \A f \in BufferField : n[f] = s[f]
      /\ \A p \in Place \ {here} : Box(n, p) = Box(s, p)
      /\ \A sq \in Sp, e \in Dest : <<sq, e>> # <<sp, d>> => n.route[sq][e] = s.route[sq][e]
      /\ Box(n, here) = r.q
  BY <1>1, RouteSetFields
<1> HIDE DEF n
<1>3. Shape(n) BY <1>2
<1>4. \A f \in BufferField : n[f] = s[f] BY <1>2
<1>5. n.route[sp][d] = r BY <1>2
<1>6. \A sq \in Sp, e \in Dest : <<sq, e>> # <<sp, d>> => n.route[sq][e] = s.route[sq][e]
  BY <1>2
<1>7. here \in Place /\ Box(n, here) = r.q BY <1>2, PlaceOf
<1>8. \A p \in Place \ {here} : Box(n, p) = Box(s, p) BY <1>2
<1>9. Apart(n)
  <2> HIDE DEF here
  <2>1. \A p \in Place : Plain(Box(n, p)) BY <1>7, <1>8 DEF Tidy, Apart
  <2>2. \A p \in Place \ {here} : Range(Box(n, here)) \cap Range(Box(n, p)) = {}
    BY <1>7, <1>8 DEF here
  <2>3. \A p, q \in Place \ {here} : p # q => Range(Box(n, p)) \cap Range(Box(n, q)) = {}
    BY <1>8 DEF Tidy, Apart
  <2>q. QED BY <2>1, <2>2, <2>3 DEF Apart
<1>10. Queued(n)
  <2> SUFFICES ASSUME NEW sq \in Sp, NEW e \in Dest
               PROVE  Range(n.route[sq][e].q) \subseteq MessagesFor(e)
    BY DEF Queued
  <2>1. CASE <<sq, e>> = <<sp, d>> BY <1>5, <2>1
  <2>2. CASE <<sq, e>> # <<sp, d>> BY <1>6, <2>2 DEF Tidy, Queued
  <2>q. QED BY <2>1, <2>2
<1>11. Barred(n)
  <2> SUFFICES ASSUME NEW i \in Link, NEW e \in Dest, n.route[AdjSp[i]][e].state = "TFP",
                      NEW f \in BufferField
               PROVE  Range(n[f][i]) \cap MessagesFor(e) = {}
    BY DEF Barred
  <2>1. CASE <<AdjSp[i], e>> = <<sp, d>>
    <3>1. i \in LinksOf(sp) /\ r.state = "TFP" BY <1>5, <2>1 DEF LinksOf
    <3>q. QED BY <1>4, <2>1, <3>1
  <2>2. CASE <<AdjSp[i], e>> # <<sp, d>>
    <3>1. s.route[AdjSp[i]][e].state = "TFP" BY <1>6, <2>2, SpOf
    <3>q. QED BY <1>4, <3>1 DEF Tidy, Barred
  <2>q. QED BY <2>1, <2>2
<1>12. ASSUME r.q = <<>> PROVE Stock(n) \subseteq Stock(s)
  <2>1. \A p \in Place : Range(Box(n, p)) \subseteq Range(Box(s, p))
    BY <1>7, <1>8, <1>12, EmptyPlain
  <2>q. QED BY <2>1 DEF Stock
<1>q. QED BY <1>3, <1>9, <1>10, <1>11, <1>12 DEF Tidy, n

\* What waits for a T6.
LEMMA QueueOf ==
    ASSUME NEW s, Tidy(s), NEW sp \in Sp, NEW d \in Dest
    PROVE  LET q == s.route[sp][d].q
           IN  /\ s.route[sp][d] \in Route /\ q \in Seq(Msg) /\ Plain(q)
               /\ Range(q) \subseteq MessagesFor(d) /\ Range(q) \subseteq Stock(s)
               /\ \A p \in Place \ {<<"route", sp, d>>} : Range(q) \cap Range(Box(s, p)) = {}
<1> DEFINE p == <<"route", sp, d>>
<1>1. p \in Place /\ Box(s, p) = s.route[sp][d].q BY PlaceOf
<1>2. s.route[sp][d] \in Route /\ s.route[sp][d].q \in Seq(Msg) BY ShapeOf DEF Tidy, Route
<1>3. Range(s.route[sp][d].q) \subseteq MessagesFor(d) BY DEF Tidy, Queued
<1>q. QED BY <1>1, <1>2, <1>3 DEF Tidy, Apart, Stock

LEMMA EmptyQueueTidy ==
    ASSUME NEW s, Tidy(s), NEW sp \in Sp, NEW d \in Dest, NEW r \in Route, r.q = <<>>,
           r.state = "TFP" => \A i \in LinksOf(sp), f \in BufferField :
                                  Range(s[f][i]) \cap MessagesFor(d) = {}
    PROVE  /\ Tidy(RouteSet(s, sp, d, r)) /\ Stock(RouteSet(s, sp, d, r)) \subseteq Stock(s)
           /\ Hand(RouteSet(s, sp, d, r), s.route[sp][d].q)
<1> DEFINE p == <<"route", sp, d>>
           q == s.route[sp][d].q
           n == RouteSet(s, sp, d, r)
<1>1. /\ Plain(r.q) /\ Range(r.q) \subseteq MessagesFor(d)
      /\ \A x \in Place \ {p} : Range(r.q) \cap Range(Box(s, x)) = {}
  BY EmptyPlain
<1>2. Tidy(n) /\ Stock(n) \subseteq Stock(s) BY <1>1, RouteSetTidy
<1>3. q \in Seq(Msg) /\ Plain(q)
      /\ \A x \in Place \ {p} : Range(q) \cap Range(Box(s, x)) = {}
  BY QueueOf
<1>4. Shape(s) BY DEF Tidy
<1>5. Box(n, p) = <<>> /\ \A x \in Place \ {p} : Box(n, x) = Box(s, x) BY <1>4, RouteSetFields
<1> HIDE DEF n, p, q
<1>6. \A x \in Place : Range(q) \cap Range(Box(n, x)) = {} BY <1>3, <1>5, EmptyPlain
<1>7. Hand(n, q) BY <1>3, <1>6 DEF Hand, Stock
<1>q. QED BY <1>2, <1>7 DEF n, q

\* What is taken off is in hand, and is not what waits for the T6.
LEMMA WithdrawnHand ==
    ASSUME NEW s, Tidy(s), NEW sp \in Sp, NEW d \in Dest,
           NEW bufs, Range(bufs) \subseteq BufferField,
           NEW moved \in Seq(BufferField), Plain(moved), Range(moved) \subseteq Range(bufs),
           NEW n, n = Withdraw(s, sp, d, bufs), NEW w, w = Withdrawn(s, sp, d, moved)
    PROVE  /\ Hand(n, w) /\ Range(w) \subseteq MessagesFor(d)
           /\ Range(w) \cap Range(s.route[sp][d].q) = {}
<1>1. /\ w \in Seq(Msg) /\ Plain(w) /\ Range(w) \subseteq MessagesFor(d)
      /\ \A m \in Range(w) : \E i \in LinksOf(sp), f \in Range(moved) : m \in Range(s[f][i])
  BY WithdrawnPlain
<1>2. /\ Tidy(n) /\ n.route = s.route
      /\ \A f \in Range(bufs), i \in LinksOf(sp) : Range(n[f][i]) \cap MessagesFor(d) = {}
      /\ \A f \in BufferField, i \in Link : Range(n[f][i]) \subseteq Range(s[f][i])
  <2> DEFINE u == Withdraw(s, sp, d, bufs)
  <2>1. /\ Tidy(u) /\ u.route = s.route /\ Stock(u) \subseteq Stock(s)
        /\ \A f \in Range(bufs), i \in LinksOf(sp) : Range(u[f][i]) \cap MessagesFor(d) = {}
        /\ \A f \in BufferField, i \in Link : Range(u[f][i]) \subseteq Range(s[f][i])
    BY WithdrawTidy
  <2>q. QED BY <2>1
<1>3. ASSUME NEW m \in Range(w), NEW p \in Place, m \in Range(Box(n, p)) PROVE FALSE
  <2>1. PICK i \in LinksOf(sp), f \in Range(moved) : m \in Range(s[f][i]) BY <1>1, <1>3
  <2>2. f \in Range(bufs) /\ f \in BufferField /\ i \in Link BY <2>1 DEF LinksOf
  <2> DEFINE here == <<"link", i, f>>
  <2>3. here \in Place /\ Box(s, here) = s[f][i] /\ Box(n, here) = n[f][i] BY <2>2, PlaceOf
  <2>4. CASE p = here
    <3>1. m \in MessagesFor(d) BY <1>1, <1>3
    <3>2. Range(n[f][i]) \cap MessagesFor(d) = {} BY <1>2, <2>1, <2>2
    <3>q. QED BY <1>3, <2>3, <2>4, <3>1, <3>2
  <2>5. CASE p # here
    <3>1. Range(Box(n, p)) \subseteq Range(Box(s, p))
      <4>1. CASE \E j \in Link, g \in BufferField : p = <<"link", j, g>>
        <5>1. PICK j \in Link, g \in BufferField : p = <<"link", j, g>> BY <4>1
        <5>2. Box(n, p) = n[g][j] /\ Box(s, p) = s[g][j] BY <5>1, PlaceOf
        <5>q. QED BY <1>2, <5>2
      <4>2. CASE \E sq \in Sp, e \in Dest : p = <<"route", sq, e>>
        <5>1. Box(n, p) = Box(s, p) BY <1>2, <4>2, PlaceOf
        <5>q. QED BY <5>1
      <4>q. QED BY <1>3, <4>1, <4>2, PlaceOf
    <3>2. m \in Range(Box(s, p)) /\ m \in Range(Box(s, here)) BY <1>3, <2>1, <2>3, <3>1
    <3>3. Range(Box(s, p)) \cap Range(Box(s, here)) = {}
      BY <1>3, <2>3, <2>5 DEF Tidy, Apart
    <3>q. QED BY <3>2, <3>3
  <2>q. QED BY <2>4, <2>5
<1>4. Range(w) \cap Stock(n) = {} BY <1>3 DEF Stock
<1>5. Range(w) \cap Range(s.route[sp][d].q) = {}
  <2> DEFINE p == <<"route", sp, d>>
  <2>1. p \in Place /\ Box(n, p) = s.route[sp][d].q BY <1>2, PlaceOf
  <2>q. QED BY <1>3, <2>1
<1>q. QED BY <1>1, <1>4, <1>5 DEF Hand

\* The buffers of a forced reroute, and those of both reroutes that are moved.
LEMMA ReroutedBuffers ==
    LET moved  == <<"tx_q", "co_tx_q", "co_buf", "cb_buf">>
        queued == <<"tx_q", "co_buf", "cb_buf", "co_tx_q">>
        all    == moved \o <<"tx_buf", "co_tx_buf">>
    IN  /\ moved \in Seq(BufferField) /\ Plain(moved)
        /\ queued \in Seq(BufferField) /\ Plain(queued)
        /\ Range(moved) \subseteq BufferField /\ Range(queued) \subseteq BufferField
        /\ Range(all) = BufferField
<1> DEFINE moved  == <<"tx_q", "co_tx_q", "co_buf", "cb_buf">>
           queued == <<"tx_q", "co_buf", "cb_buf", "co_tx_q">>
           freed  == <<"tx_buf", "co_tx_buf">>
<1>1. moved \in Seq(BufferField) /\ queued \in Seq(BufferField) /\ freed \in Seq(BufferField)
  BY BuffersKnown
<1>2. /\ DOMAIN moved = 1 .. 4 /\ DOMAIN queued = 1 .. 4 /\ DOMAIN freed = 1 .. 2
  OBVIOUS
<1>3. /\ \A k \in 1 .. 4 : k = 1 \/ k = 2 \/ k = 3 \/ k = 4
      /\ \A k \in 1 .. 2 : k = 1 \/ k = 2
  OBVIOUS
<1>4. /\ moved[1] = "tx_q" /\ moved[2] = "co_tx_q" /\ moved[3] = "co_buf" /\ moved[4] = "cb_buf"
      /\ queued[1] = "tx_q" /\ queued[2] = "co_buf" /\ queued[3] = "cb_buf"
      /\ queued[4] = "co_tx_q" /\ freed[1] = "tx_buf" /\ freed[2] = "co_tx_buf"
  OBVIOUS
<1> HIDE DEF moved, queued, freed
<1>5. Plain(moved) /\ Plain(queued) /\ Plain(freed) BY <1>2, <1>3, <1>4 DEF Plain
<1>6. /\ Range(moved) = {"tx_q", "co_tx_q", "co_buf", "cb_buf"}
      /\ Range(queued) = {"tx_q", "co_buf", "cb_buf", "co_tx_q"}
      /\ Range(freed) = {"tx_buf", "co_tx_buf"}
  BY <1>2, <1>3, <1>4 DEF Range
<1>7. Range(moved \o freed) = Range(moved) \cup Range(freed) BY <1>1, <1>5, <1>6, ConcatPlain
<1>8. Range(moved) \cup Range(freed) = BufferField BY <1>6 DEF BufferField
<1>q. QED BY <1>1, <1>5, <1>6, <1>7, <1>8, BuffersKnown DEF moved, queued, freed

LEMMA ForcedRerouteTidy ==
    ASSUME NEW s, Tidy(s), NEW sp \in Sp, NEW d \in Dest
    PROVE  Tidy(ForcedReroute(s, sp, d))
<1> DEFINE moved == <<"tx_q", "co_tx_q", "co_buf", "cb_buf">>
           bufs  == moved \o <<"tx_buf", "co_tx_buf">>
           n == Withdraw(s, sp, d, bufs)
           w == Withdrawn(s, sp, d, moved)
           r == [state |-> "TFP", t6 |-> FALSE, t10 |-> "t10" \in Configured, q |-> <<>>]
           u == RouteSet(n, sp, d, r)
           q == s.route[sp][d].q
<1>1. ForcedReroute(s, sp, d) = Transmit(u, q \o w) BY DEF ForcedReroute, RouteSet
<1>2. moved \in Seq(BufferField) /\ Plain(moved) /\ Range(moved) \subseteq BufferField
      /\ Range(bufs) = BufferField
  BY ReroutedBuffers
<1>3. r \in Route /\ r.q = <<>> BY EmptyPlain DEF Route
<1> HIDE DEF moved, bufs, r
<1>4. /\ Tidy(n) /\ n.route = s.route
      /\ \A f \in Range(bufs), i \in LinksOf(sp) : Range(n[f][i]) \cap MessagesFor(d) = {}
  BY <1>2, WithdrawTidy
<1>5. Hand(n, w) /\ Range(w) \cap Range(q) = {} BY <1>2, WithdrawnHand
<1> HIDE DEF n, w
<1>6. \A i \in LinksOf(sp), f \in BufferField : Range(n[f][i]) \cap MessagesFor(d) = {}
  BY <1>2, <1>4
<1>7. Tidy(u) /\ Stock(u) \subseteq Stock(n) /\ Hand(u, n.route[sp][d].q)
  BY <1>3, <1>4, <1>6, EmptyQueueTidy
<1> HIDE DEF u
<1>8. Hand(u, q) /\ Hand(u, w) BY <1>4, <1>5, <1>7, HandKept
<1> HIDE DEF q
<1>9. Hand(u, q \o w) BY <1>5, <1>8, HandsJoin
<1>q. QED BY <1>1, <1>7, <1>9, TransmitTidy

LEMMA ControlledRerouteTidy ==
    ASSUME NEW s, Tidy(s), NEW sp \in Sp, NEW d \in Dest
    PROVE  Tidy(ControlledReroute(s, sp, d))
<1> DEFINE bufs == <<"tx_q", "co_buf", "cb_buf", "co_tx_q">>
           n == Withdraw(s, sp, d, bufs)
           w == Withdrawn(s, sp, d, bufs)
           q == s.route[sp][d].q
           r == [state |-> "TFA", t6 |-> TRUE, t10 |-> FALSE, q |-> q \o w]
<1>1. bufs \in Seq(BufferField) /\ Plain(bufs) /\ Range(bufs) \subseteq BufferField
  BY ReroutedBuffers
<1> HIDE DEF bufs
<1>2. Tidy(n) /\ n.route = s.route BY <1>1, WithdrawTidy
<1>3. Hand(n, w) /\ Range(w) \cap Range(q) = {} /\ Range(w) \subseteq MessagesFor(d)
  BY <1>1, WithdrawnHand
<1>4. ControlledReroute(s, sp, d) = RouteSet(n, sp, d, r)
  <2>1. "route" \in DOMAIN n /\ n.route \in [Sp -> [Dest -> Route]]
    BY <1>2 DEF Tidy, Shape, Field, Kind
  <2>2. ControlledReroute(s, sp, d) =
            [n EXCEPT !.route[sp][d] = [state |-> "TFA", t6 |-> TRUE, t10 |-> FALSE,
                                        q |-> @.q \o w]]
    BY DEF ControlledReroute, bufs
  <2> HIDE DEF n, w
  <2>q. QED BY <1>2, <2>1, <2>2 DEF RouteSet
<1> HIDE DEF n, w
<1>5. /\ q \in Seq(Msg) /\ Plain(q) /\ Range(q) \subseteq MessagesFor(d)
      /\ \A p \in Place \ {<<"route", sp, d>>} : Range(q) \cap Range(Box(n, p)) = {}
  BY <1>2, QueueOf
<1> HIDE DEF q
<1>6. w \in Seq(Msg) /\ Plain(w) /\ \A p \in Place : Range(w) \cap Range(Box(n, p)) = {}
  BY <1>3 DEF Hand, Stock
<1>7. q \o w \in Seq(Msg) /\ Plain(q \o w) /\ Range(q \o w) = Range(q) \cup Range(w)
  BY <1>3, <1>5, <1>6, ConcatPlain
<1>8. r \in Route /\ r.q = q \o w /\ r.state # "TFP" BY <1>7 DEF Route
<1> HIDE DEF r
<1>9. Range(r.q) \subseteq MessagesFor(d)
      /\ \A p \in Place \ {<<"route", sp, d>>} : Range(r.q) \cap Range(Box(n, p)) = {}
  BY <1>3, <1>5, <1>6, <1>7, <1>8
<1>10. Tidy(RouteSet(n, sp, d, r)) BY <1>2, <1>7, <1>8, <1>9, RouteSetTidy
<1>q. QED BY <1>4, <1>10

LEMMA RxRouteTidy ==
    ASSUME NEW s, Tidy(s), NEW sp \in Sp, NEW d \in Dest
    PROVE  Tidy(RxTfp(s, sp, d)) /\ Tidy(RxTfa(s, sp, d))
BY ForcedRerouteTidy, ControlledRerouteTidy DEF RxTfp, RxTfa

LEMMA T6ExpiredTidy ==
    ASSUME NEW s, Tidy(s), NEW sp \in Sp, NEW d \in Dest
    PROVE  Tidy(T6Expired(s, sp, d))
<1> DEFINE q == s.route[sp][d].q
           r == [s.route[sp][d] EXCEPT !.t6 = FALSE, !.q = <<>>]
           u == RouteSet(s, sp, d, r)
           n == Transmit(u, q)
<1>1. s.route[sp][d] \in Route /\ s.route \in [Sp -> [Dest -> Route]] /\ "route" \in DOMAIN s
  <2>1. Shape(s) /\ "route" \in Field BY DEF Tidy, Field
  <2>2. Kind.route = [Sp -> [Dest -> Route]] BY DEF Kind
  <2>q. QED BY <2>1, <2>2, ShapeOf DEF Shape
<1>2. u = [s EXCEPT !.route[sp][d].t6 = FALSE, !.route[sp][d].q = <<>>]
  BY <1>1 DEF RouteSet, Route
<1>3. T6Expired(s, sp, d) = IF n.route[sp][d].state = "TFA" THEN RouteSet(n, sp, d, NoRoute) ELSE n
  <2> HIDE DEF u
  <2>q. QED BY <1>2 DEF T6Expired, RouteSet
<1>4. r \in Route /\ r.q = <<>> /\ r.state = s.route[sp][d].state BY <1>1, EmptyPlain DEF Route
<1> HIDE DEF r
<1>5. r.state = "TFP" => \A i \in LinksOf(sp), f \in BufferField :
                             Range(s[f][i]) \cap MessagesFor(d) = {}
  BY <1>4 DEF Tidy, Barred, LinksOf
<1>6. Tidy(u) /\ Hand(u, q) BY <1>4, <1>5, EmptyQueueTidy
<1> HIDE DEF u, q
<1>7. Tidy(n) BY <1>6, TransmitTidy
<1> HIDE DEF n
<1>8. NoRoute \in Route /\ NoRoute.q = <<>> /\ NoRoute.state # "TFP"
  BY EmptyPlain DEF NoRoute, Route
<1>9. Tidy(RouteSet(n, sp, d, NoRoute)) BY <1>7, <1>8, EmptyQueueTidy
<1>q. QED BY <1>3, <1>7, <1>9

LEMMA T10ExpiredTidy ==
    ASSUME NEW s, Tidy(s), NEW sp \in Sp, NEW d \in Dest
    PROVE  Tidy(T10Expired(s, sp, d))
<1>1. LinksOf(sp) # {} /\ LinksOf(sp) \subseteq Link BY SpAssumption DEF LinksOf
<1>2. First(LinksOf(sp)) \in Link BY <1>1, FirstExists
<1>q. QED BY <1>2, MessagesKnown, SendTidy DEF T10Expired

-------------------------------------------------------------------------------
(* Restart. *)

LEMMA InitPeerTidy ==
    ASSUME NEW s, Tidy(s), NEW i \in Link
    PROVE  Tidy(InitPeer(s, i))
<1>1. Tidy(NetMngSend(s, i, "LIN")) /\ Tidy(NetMngSend(s, i, "TRA"))
  BY SendTidy, MessagesKnown
<1>2. Tidy(Check(NetMngSend(s, i, "TRA"), AdjSp[i])) BY <1>1, SpOf, CheckTidy
<1>q. QED BY <1>1, <1>2 DEF InitPeer

LEMMA InitUnheardTidy ==
    ASSUME NEW s, Tidy(s), NEW sp \in Sp
    PROVE  Tidy(InitUnheard(s, sp))
<1> DEFINE free  == {i \in LinksOf(sp) : "LOCALLY" \notin s.inhibit[i]}
           later == {i \in free : \E j \in free : j < i}
           tried == {i \in LinksOf(sp) \ free : \A j \in later : i < j}
           sent  == [i \in Link |-> IF i \in tried THEN s.sent[i] \cup {"LIN"} ELSE s.sent[i]]
           timer == [i \in Link |-> [t \in LinkTimer |->
                        IF i \in tried /\ t = "t14" /\ t \in Configured
                        THEN "1st" ELSE s.timer[i][t]]]
           a == [s EXCEPT !.sent = sent]
           lin == [a EXCEPT !.timer = timer]
<1>1. s.sent \in Kind.sent /\ s.timer \in Kind.timer BY OthersOf DEF Tidy
<1>2. InitUnheard(s, sp) = IF free = {} THEN lin ELSE NoteSent(lin, First(free), "TRA")
  <2> HIDE DEF free, later, tried
  <2>1. s = [f \in Field |-> s[f]] /\ {"sent", "timer"} \subseteq Field
    BY DEF Tidy, Shape, Field, OtherField
  <2>2. lin = [s EXCEPT !.sent = [i \in Link |-> IF i \in tried THEN @[i] \cup {"LIN"}
                                                 ELSE @[i]],
                        !.timer = [i \in Link |-> [t \in LinkTimer |->
                                      IF i \in tried /\ t = "t14" /\ t \in Configured
                                      THEN "1st" ELSE @[i][t]]]]
    BY <2>1
  <2> HIDE DEF lin
  <2>q. QED BY <2>2 DEF InitUnheard, free, later, tried
<1>3. free # {} => First(free) \in Link BY FirstExists DEF LinksOf
<1> HIDE DEF tried
<1>4. sent \in Kind.sent
  <2>1. "LIN" \in SentMsg BY DEF SentMsg
  <2>q. QED BY <1>1, <2>1, KindOf
<1>5. timer \in Kind.timer
  <2>1. "1st" \in TimerValue /\ "t14" \in LinkTimer BY TimersKnown DEF TimerValue, Callback
  <2>q. QED BY <1>1, <2>1, KindOf
<1> HIDE DEF sent, timer, free
<1>6. Tidy(a) BY <1>4, SetSs7Tidy
<1> HIDE DEF a
<1>7. Tidy(lin) BY <1>5, <1>6, SetSs7Tidy
<1> HIDE DEF lin
<1>q. QED BY <1>2, <1>3, <1>7, NoteSentTidy

LEMMA InitLinksTidy ==
    ASSUME NEW s, Tidy(s), NEW sp \in Sp
    PROVE  Tidy(InitLinks(s, sp))
<1>1. LinksOf(sp) # {} /\ LinksOf(sp) \subseteq Link BY SpAssumption DEF LinksOf
<1>2. First(LinksOf(sp)) \in Link BY <1>1, FirstExists
<1>q. QED BY <1>2, InitUnheardTidy, InitPeerTidy DEF InitLinks

LEMMA RestartTidy ==
    ASSUME NEW s, Tidy(s), NEW sp \in Sp
    PROVE  Tidy(RestartPeer(s, sp)) /\ Tidy(InitRestart(s, sp))
<1>1. ASSUME NEW n, Tidy(n) PROVE Tidy(RestartPeer(n, sp))
  <2>1. Tidy(ForgetPeer(n, sp)) BY <1>1, ForgetPeerTidy
  <2>2. Tidy(InitLinks(ForgetPeer(n, sp), sp)) BY <2>1, InitLinksTidy
  <2>q. QED BY <2>2, Ss7CheckTidy DEF RestartPeer
<1> DEFINE a == [s EXCEPT !.t19[sp] = FALSE]
           b == [a EXCEPT !.t21[sp] = FALSE]
<1>2. InitRestart(s, sp) = RestartPeer(b, sp) BY DEF InitRestart
<1>3. Tidy(a) BY SetSpTidy
<1> HIDE DEF a
<1>4. Tidy(b) BY <1>3, SetSpTidy
<1> HIDE DEF b
<1>q. QED BY <1>1, <1>2, <1>4

-------------------------------------------------------------------------------
(* Receiving. *)

\* The inhibiting of a link.
LEMMA InhibitTidy ==
    ASSUME NEW s, Tidy(s), NEW i \in Link
    PROVE  /\ \A x \in Inhibit : Tidy([s EXCEPT !.inhibit[i] = @ \cup {x}])
           /\ \A x : Tidy([s EXCEPT !.inhibit[i] = @ \ {x}])
<1>1. \A x \in Inhibit : s.inhibit[i] \cup {x} \in SUBSET Inhibit BY SentOf
<1>2. \A x : s.inhibit[i] \ {x} \in SUBSET Inhibit BY SentOf
<1>3. \A x \in Inhibit : Tidy([s EXCEPT !.inhibit[i] = s.inhibit[i] \cup {x}]) BY <1>1, SetTidy
<1>4. \A x : Tidy([s EXCEPT !.inhibit[i] = s.inhibit[i] \ {x}]) BY <1>2, SetTidy
<1>q. QED BY <1>3, <1>4

LEMMA RxCooTidy ==
    ASSUME NEW s, Tidy(s), NEW i \in Link, NEW acked \in Nat
    PROVE  Tidy(RxCoo(s, i, acked)) /\ Tidy(RxCoa(s, i, acked))
<1>1. Tidy(RxCoo(s, i, acked))
  <2> DEFINE answer == IF s.changeover[i] \in {"NO_CHANGEOVER", "CHANGEOVER_INITIATED"}
                       THEN "COA" ELSE "ECA"
             a == NetMngSend(s, i, answer)
             b == PrepareChangeover(a, i)
  <2>1. answer \in NetMng BY MessagesKnown
  <2>2. RxCoo(s, i, acked) = ChangeoverDone(b, i, acked) BY DEF RxCoo
  <2> HIDE DEF answer
  <2>3. Tidy(a) BY <2>1, SendTidy
  <2> HIDE DEF a
  <2>4. Tidy(b) BY <2>3, SaveTidy
  <2> HIDE DEF b
  <2>q. QED BY <2>2, <2>4, DivertTidy
<1>2. Tidy(RxCoa(s, i, acked))
  <2> DEFINE a == Stop(s, i, "t2")
             b == [a EXCEPT !.sent[i] = @ \ {"COO", "ECO"}]
  <2>1. Tidy(a) BY TimersKnown, TimersTidy
  <2>2. RxCoa(s, i, acked) \in {s, ChangeoverDone(b, i, acked)} BY DEF RxCoa
  <2> HIDE DEF a
  <2>3. Tidy(b) BY <2>1, UnsentTidy
  <2> HIDE DEF b
  <2>4. Tidy(ChangeoverDone(b, i, acked)) BY <2>3, DivertTidy
  <2>q. QED BY <2>2, <2>4
<1>q. QED BY <1>1, <1>2

LEMMA RxEcoTidy ==
    ASSUME NEW s, Tidy(s), NEW i \in Link
    PROVE  Tidy(RxEco(s, i)) /\ Tidy(RxEca(s, i))
<1>1. Tidy(RxEco(s, i))
  <2> DEFINE T == IF "ECO" \in s.sent[i] THEN {"t1", "t2"} ELSE {"t1"}
             t == StopAll(s, i, T)
             n == [t EXCEPT !.sent[i] = @ \ {"CBD", "COO"}]
             answer == IF "ECO" \notin n.sent[i] /\ n.changeover[i] = "NO_CHANGEOVER"
                       THEN "COA" ELSE "ECA"
             a == NetMngSend(n, i, answer)
  <2>1. answer \in NetMng BY MessagesKnown
  <2>2. RxEco(s, i) = TimedChangeover(a, i) BY DEF RxEco
  <2>3. \A U : Tidy(StopAll(s, i, U)) BY TimersKnown, TimersTidy
  <2> HIDE DEF T, answer
  <2>4. Tidy(t) BY <2>3
  <2> HIDE DEF t
  <2>5. Tidy(n) BY <2>4, UnsentTidy
  <2> HIDE DEF n
  <2>6. Tidy(a) BY <2>1, <2>5, SendTidy
  <2> HIDE DEF a
  <2>q. QED BY <2>2, <2>6, CancelChangebackTidy
<1>2. Tidy(RxEca(s, i))
  <2> DEFINE a == Stop(s, i, "t2")
             b == [a EXCEPT !.sent[i] = @ \ {"COO", "ECO"}]
  <2>1. Tidy(a) BY TimersKnown, TimersTidy
  <2>2. RxEca(s, i) = TimedChangeover(b, i) BY DEF RxEca
  <2> HIDE DEF a
  <2>3. Tidy(b) BY <2>1, UnsentTidy
  <2> HIDE DEF b
  <2>q. QED BY <2>2, <2>3, CancelChangebackTidy
<1>q. QED BY <1>1, <1>2

LEMMA RxCbdTidy ==
    ASSUME NEW s, Tidy(s), NEW i \in Link
    PROVE  Tidy(RxCbd(s, i)) /\ Tidy(RxCba(s, i))
<1>1. Tidy(RxCbd(s, i))
  <2>1. Tidy(NetMngSend(s, i, "CBA")) BY MessagesKnown, SendTidy
  <2>q. QED BY <2>1, ChangebackTidy DEF RxCbd
<1>2. Tidy(RxCba(s, i))
  <2> DEFINE a == [s EXCEPT !.sent[i] = @ \ {"CBD"}]
             b == StopAll(a, i, {"t4", "t5"})
  <2>1. Tidy(a) BY UnsentTidy
  <2>2. RxCba(s, i) \in {s, Changeback(b, i)} BY DEF RxCba
  <2> HIDE DEF a
  <2>3. \A U : Tidy(StopAll(a, i, U)) BY <2>1, TimersKnown, TimersTidy
  <2>4. Tidy(b) BY <2>3
  <2> HIDE DEF b
  <2>5. Tidy(Changeback(b, i)) BY <2>4, ChangebackTidy
  <2>q. QED BY <2>2, <2>5
<1>q. QED BY <1>1, <1>2

LEMMA RxLinTidy ==
    ASSUME NEW s, Tidy(s), NEW i \in Link
    PROVE  Tidy(RxLin(s, i))
<1> DEFINE a == NetMngSend(s, i, "LIA")
           b == [a EXCEPT !.inhibit[i] = @ \cup {"REMOTELY"}]
           c == TimedChangeover(b, i)
<1>1. RxLin(s, i) \in {NetMngSend(s, i, "LID"), Start(c, i, "t23")} BY DEF RxLin
<1>2. Tidy(a) /\ Tidy(NetMngSend(s, i, "LID")) BY MessagesKnown, SendTidy
<1> HIDE DEF a
<1>3. Tidy(b) BY <1>2, InhibitTidy DEF Inhibit
<1> HIDE DEF b
<1>4. Tidy(c) BY <1>3, CancelChangebackTidy
<1> HIDE DEF c
<1>5. Tidy(Start(c, i, "t23")) BY <1>4, TimersKnown, TimersTidy
<1>q. QED BY <1>1, <1>2, <1>5

LEMMA RxLunTidy ==
    ASSUME NEW s, Tidy(s), NEW i \in Link
    PROVE  Tidy(RxLun(s, i)) /\ Tidy(RxLua(s, i))
<1>1. Tidy(RxLun(s, i))
  <2> DEFINE a == [s EXCEPT !.sent[i] = @ \ {"LFU"}]
             n == NetMngSend(a, i, "LUA")
             b == [n EXCEPT !.inhibit[i] = @ \ {"REMOTELY"}]
             c == Changeback(b, i)
  <2>1. RxLun(s, i) = StopAll(c, i, {"t23", "t13"}) BY DEF RxLun
  <2>2. Tidy(a) BY UnsentTidy
  <2> HIDE DEF a
  <2>3. Tidy(n) BY <2>2, MessagesKnown, SendTidy
  <2> HIDE DEF n
  <2>4. Tidy(b) BY <2>3, InhibitTidy
  <2> HIDE DEF b
  <2>5. Tidy(c) BY <2>4, ChangebackTidy
  <2> HIDE DEF c
  <2>6. \A U : Tidy(StopAll(c, i, U)) BY <2>5, TimersKnown, TimersTidy
  <2>q. QED BY <2>1, <2>6
<1>2. Tidy(RxLua(s, i))
  <2> DEFINE a == [s EXCEPT !.sent[i] = @ \ {"LUN"}]
             b == [a EXCEPT !.inhibit[i] = @ \ {"LOCALLY"}]
             c == Changeback(b, i)
  <2>1. RxLua(s, i) \in {s, StopAll(c, i, {"t12", "t22"})} BY DEF RxLua
  <2>2. Tidy(a) BY UnsentTidy
  <2> HIDE DEF a
  <2>3. Tidy(b) BY <2>2, InhibitTidy
  <2> HIDE DEF b
  <2>4. Tidy(c) BY <2>3, ChangebackTidy
  <2> HIDE DEF c
  <2>5. \A U : Tidy(StopAll(c, i, U)) BY <2>4, TimersKnown, TimersTidy
  <2>q. QED BY <2>1, <2>5
<1>q. QED BY <1>1, <1>2

LEMMA RxLiaTidy ==
    ASSUME NEW s, Tidy(s), NEW i \in Link
    PROVE  Tidy(RxLia(s, i))
<1>1. ASSUME NEW n, Tidy(n) PROVE Tidy(NoteLia(n, i))
  <2> DEFINE a == [n EXCEPT !.sent[i] = @ \ {"LIN"}]
             b == [a EXCEPT !.inhibit[i] = @ \cup {"LOCALLY"}]
  <2>1. NoteLia(n, i) = TimedChangeover(b, i) BY DEF NoteLia
  <2>2. Tidy(a) BY <1>1, UnsentTidy
  <2> HIDE DEF a
  <2>3. Tidy(b) BY <2>2, InhibitTidy DEF Inhibit
  <2> HIDE DEF b
  <2>q. QED BY <2>1, <2>3, CancelChangebackTidy
<1>2. ASSUME NEW n, Tidy(n) PROVE Tidy(LiaRestarts(n, i))
  <2>1. Tidy(NetMngSend(n, i, "TRA")) BY <1>2, MessagesKnown, SendTidy
  <2>2. Tidy(Ss7Check(NetMngSend(n, i, "TRA"))) BY <2>1, Ss7CheckTidy
  <2>q. QED BY <1>2, <2>2 DEF LiaRestarts
<1> DEFINE a == TimedChangeover(s, i)
           b == NoteLia(a, i)
           c == LiaRestarts(b, i)
           d == Start(c, i, "t22")
<1>3. RxLia(s, i) \in {s, Stop(d, i, "t14")} BY DEF RxLia
<1>4. Tidy(a) BY CancelChangebackTidy
<1> HIDE DEF a
<1>5. Tidy(b) BY <1>1, <1>4
<1> HIDE DEF b
<1>6. Tidy(c) BY <1>2, <1>5
<1> HIDE DEF c
<1>7. Tidy(d) BY <1>6, TimersKnown, TimersTidy
<1> HIDE DEF d
<1>8. Tidy(Stop(d, i, "t14")) BY <1>7, TimersKnown, TimersTidy
<1>q. QED BY <1>3, <1>8

LEMMA RxInhibitTestTidy ==
    ASSUME NEW s, Tidy(s), NEW i \in Link
    PROVE  /\ Tidy(RxLfu(s, i)) /\ Tidy(RxLid(s, i))
           /\ Tidy(RxLlt(s, i)) /\ Tidy(RxLrt(s, i))
<1>1. Tidy(NetMngSend(s, i, "LUN")) /\ Tidy(NetMngSend(s, i, "LFU")) BY MessagesKnown, SendTidy
<1>2. Tidy(RxLid(s, i))
  <2>1. Tidy([s EXCEPT !.sent[i] = @ \ {"LIN"}]) BY UnsentTidy
  <2>q. QED BY <2>1, TimersKnown, TimersTidy DEF RxLid
<1>q. QED BY <1>1, <1>2 DEF RxLfu, RxLlt, RxLrt

LEMMA RxTraTidy ==
    ASSUME NEW s, Tidy(s), NEW sp \in Sp
    PROVE  Tidy(RxTra(s, sp))
<1>1. ASSUME NEW r, Tidy(r) PROVE Tidy(NoteTra(r, sp))
  <2> DEFINE a == [r EXCEPT !.t19[sp] = "t19" \in Configured]
             b == [a EXCEPT !.t21[sp] = FALSE]
             c == [b EXCEPT !.tra[sp] = b.tra[sp] \cup {"GOT"}]
  <2>1. NoteTra(r, sp) \in {r, Check(c, sp)} BY DEF NoteTra
  <2>2. ("t19" \in Configured) \in BOOLEAN OBVIOUS
  <2>3. Tidy(a) BY <1>1, <2>2, SetSpTidy
  <2> HIDE DEF a
  <2>4. Tidy(b) BY <2>3, SetSpTidy
  <2> HIDE DEF b
  <2>5. b.tra[sp] \cup {"GOT"} \in SUBSET {"GOT", "SENT"} BY <2>4, OthersOf, KindOf DEF Tidy
  <2>6. Tidy(c) BY <2>4, <2>5, SetSpTidy
  <2> HIDE DEF c
  <2>7. Tidy(Check(c, sp)) BY <2>6, CheckTidy
  <2>q. QED BY <1>1, <2>1, <2>7
<1>2. Tidy(RestartPeer(s, sp)) BY RestartTidy
<1>q. QED BY <1>1, <1>2 DEF RxTra

LEMMA ReceiveTidy ==
    ASSUME NEW s, Tidy(s), NEW i \in Link, NEW msg, NEW acked \in Nat
    PROVE  Tidy(NetMngReceive(s, i, msg, acked))
<1>1. AdjSp[i] \in Sp BY SpOf
<1>2. Tidy(RxTra(s, AdjSp[i])) BY <1>1, RxTraTidy
<1>3. /\ Tidy(RxCoo(s, i, acked)) /\ Tidy(RxCoa(s, i, acked)) /\ Tidy(RxEco(s, i))
      /\ Tidy(RxEca(s, i)) /\ Tidy(RxCbd(s, i)) /\ Tidy(RxCba(s, i))
  BY RxCooTidy, RxEcoTidy, RxCbdTidy
<1>4. /\ Tidy(RxLin(s, i)) /\ Tidy(RxLia(s, i)) /\ Tidy(RxLun(s, i)) /\ Tidy(RxLua(s, i))
      /\ Tidy(RxLid(s, i)) /\ Tidy(RxLfu(s, i)) /\ Tidy(RxLlt(s, i)) /\ Tidy(RxLrt(s, i))
  BY RxLinTidy, RxLiaTidy, RxLunTidy, RxInhibitTestTidy
<1>q. QED BY <1>2, <1>3, <1>4 DEF NetMngReceive

LEMMA LinkTestTidy ==
    ASSUME NEW s, Tidy(s), NEW i \in Link
    PROVE  /\ Tidy(RxSltm(s, i)) /\ Tidy(RxSlta(s, i)) /\ Tidy(RxSltaMismatch(s, i))
<1>1. Tidy(RxSltm(s, i))
  <2> DEFINE a == [s EXCEPT !.out = Append(@, [msg |-> "SLTA", sls |-> i, via |-> {i}])]
  <2>1. Tidy(a) BY TestSendTidy DEF TestMsg
  <2>2. RxSltm(s, i) = [a EXCEPT !.linkstate[i] = "UP"] BY DEF RxSltm
  <2> HIDE DEF a
  <2>3. Tidy([a EXCEPT !.linkstate[i] = "UP"]) BY <2>1, SetTidy
  <2>q. QED BY <2>2, <2>3
<1>2. Tidy(RxSlta(s, i))
  <2> DEFINE a == Stop(s, i, "q707_t1")
             b == [a EXCEPT !.failed[i] = 0]
             n == [b EXCEPT !.passed[i] = TRUE]
             c == NetMngSend(n, i, "CBD")
             d == IF c.changeover[i] = "CHANGEOVER_COMPLETED" THEN c ELSE CancelChangeover(c, i)
             e == [d EXCEPT !.changeover[i] = "CHANGEBACK_INITIATED"]
  <2>1. RxSlta(s, i) \in {InitPeer(e, i), InitPeer(n, i)} BY DEF RxSlta
  <2>2. Tidy(a) BY TimersKnown, TimersTidy
  <2> HIDE DEF a
  <2>3. Tidy(b)
    <3>1. 0 \in 0 .. 1 OBVIOUS
    <3>q. QED BY <2>2, <3>1, SetTidy
  <2> HIDE DEF b
  <2>4. Tidy(n) BY <2>3, SetTidy
  <2> HIDE DEF n
  <2>5. Tidy(c) BY <2>4, MessagesKnown, SendTidy
  <2> HIDE DEF c
  <2>6. Tidy(d) BY <2>5, CancelChangeoverTidy
  <2> HIDE DEF d
  <2>7. Tidy(e) BY <2>6, ChangeoverKnown, SetTidy
  <2> HIDE DEF e
  <2>8. Tidy(InitPeer(e, i)) /\ Tidy(InitPeer(n, i)) BY <2>4, <2>7, InitPeerTidy
  <2>q. QED BY <2>1, <2>8
<1>3. Tidy(RxSltaMismatch(s, i))
  <2> DEFINE a == Stop(s, i, "q707_t1")
             b == [a EXCEPT !.failed[i] = 1]
             c == LinkFailed(b, i)
  <2>1. RxSltaMismatch(s, i) = Start(c, i, "q707_t2") BY DEF RxSltaMismatch
  <2>2. Tidy(a) BY TimersKnown, TimersTidy
  <2> HIDE DEF a
  <2>3. Tidy(b)
    <3>1. 1 \in 0 .. 1 OBVIOUS
    <3>q. QED BY <2>2, <3>1, SetTidy
  <2> HIDE DEF b
  <2>4. Tidy(c) BY <2>3, LinkFailedTidy
  <2> HIDE DEF c
  <2>5. Tidy(Start(c, i, "q707_t2")) BY <2>4, TimersKnown, TimersTidy
  <2>q. QED BY <2>1, <2>5
<1>q. QED BY <1>1, <1>2, <1>3

-------------------------------------------------------------------------------
(* Timers that expire. *)

LEMMA T1ExpiredTidy ==
    ASSUME NEW s, Tidy(s), NEW i \in Link
    PROVE  Tidy(T1Expired(s, i))
<1> DEFINE a == Forget(s, i, "t1")
           b == [a EXCEPT !.changeover[i] = "CHANGEOVER_COMPLETED"]
           n == Emptied(b, i, "co_buf")
           u == Transmit(n, b.co_buf[i])
<1>1. Tidy(a) BY TimersKnown, TimersTidy
<1>2. a.co_buf = s.co_buf BY DEF Forget, Tidy, Shape, Field, BufferField, OtherField
<1>3. T1Expired(s, i) = FreeCo(u, i)
  <2>1. b.co_buf[i] = s.co_buf[i]
    <3> HIDE DEF a
    <3>1. a = [f \in Field |-> a[f]] /\ {"changeover", "co_buf"} \subseteq Field
      BY <1>1 DEF Tidy, Shape, Field, BufferField, OtherField
    <3>q. QED BY <1>2, <3>1
  <2>2. n = [a EXCEPT !.changeover[i] = "CHANGEOVER_COMPLETED", !.co_buf[i] = <<>>]
    BY DEF Emptied
  <2>q. QED BY <2>1, <2>2 DEF T1Expired
<1> HIDE DEF a
<1>4. Tidy(b) BY <1>1, ChangeoverKnown, SetTidy
<1> HIDE DEF b
<1>5. Tidy(n) /\ Hand(n, b.co_buf[i]) BY <1>4, BuffersKnown, EmptyTidy
<1> HIDE DEF n
<1>6. Tidy(u) BY <1>5, TransmitTidy
<1> HIDE DEF u
<1>q. QED BY <1>3, <1>6, FreeCoTidy

LEMMA T2ExpiredTidy ==
    ASSUME NEW s, Tidy(s), NEW i \in Link
    PROVE  Tidy(T2Expired(s, i))
<1> DEFINE a == Forget(s, i, "t2")
           b == [a EXCEPT !.sent[i] = @ \ {"COO", "ECO"}]
           x == b.co_tx_q[i]
           y == b.co_buf[i]
           c == Emptied(b, i, "co_tx_q")
           n == Emptied(c, i, "co_buf")
           u == Transmit(n, x \o y)
           v == [u EXCEPT !.changeover[i] = "CHANGEOVER_COMPLETED"]
           w == FreeCo(v, i)
<1>1. Tidy(a) BY TimersKnown, TimersTidy
<1>2. a.co_buf = s.co_buf /\ a.co_tx_q = s.co_tx_q
  BY DEF Forget, Tidy, Shape, Field, BufferField, OtherField
<1>3. T2Expired(s, i) = Check(w, AdjSp[i])
  <2>1. x = s.co_tx_q[i] /\ y = s.co_buf[i]
    <3> HIDE DEF a
    <3>1. a = [f \in Field |-> a[f]] /\ {"sent", "co_tx_q", "co_buf"} \subseteq Field
      BY <1>1 DEF Tidy, Shape, Field, BufferField, OtherField
    <3>q. QED BY <1>2, <3>1
  <2>2. n = [a EXCEPT !.sent[i] = @ \ {"COO", "ECO"}, !.co_tx_q[i] = <<>>, !.co_buf[i] = <<>>]
    BY DEF Emptied
  <2> HIDE DEF n, x, y
  <2>q. QED BY <2>1, <2>2 DEF T2Expired
<1> HIDE DEF a
<1>4. Tidy(b) BY <1>1, UnsentTidy
<1> HIDE DEF b
<1>5. Tidy(c) /\ Hand(c, x) /\ Shape(b) BY <1>4, BuffersKnown, EmptyTidy DEF Tidy
<1>6. c.co_buf = b.co_buf
  <2>1. Alters(b, c, {"co_tx_q"}) BY <1>5, BuffersKnown, EmptyFields
  <2>q. QED BY <2>1, BuffersKnown, BufferKind DEF Alters
<1>7. Range(x) \cap Range(y) = {} BY <1>4, LinkBoxes, BuffersKnown
<1> HIDE DEF c
<1>8. Tidy(n) /\ Hand(n, c.co_buf[i]) /\ Stock(n) \subseteq Stock(c)
  BY <1>5, BuffersKnown, EmptyTidy
<1> HIDE DEF n
<1>9. Hand(n, y) /\ Hand(n, x) BY <1>5, <1>6, <1>8, HandKept
<1> HIDE DEF x, y
<1>10. Hand(n, x \o y) BY <1>7, <1>9, HandsJoin
<1>11. Tidy(u) BY <1>8, <1>10, TransmitTidy
<1> HIDE DEF u
<1>12. Tidy(v) BY <1>11, ChangeoverKnown, SetTidy
<1> HIDE DEF v
<1>13. Tidy(w) BY <1>12, FreeCoTidy
<1> HIDE DEF w
<1>q. QED BY <1>3, <1>13, SpOf, CheckTidy

LEMMA T3ExpiredTidy ==
    ASSUME NEW s, Tidy(s), NEW i \in Link
    PROVE  Tidy(T3Expired(s, i)) /\ Tidy(T5Expired(s, i))
<1>1. ASSUME NEW r, Tidy(r) PROVE Tidy(T3Expired(r, i))
  <2> DEFINE a == Forget(r, i, "t3")
             b == [a EXCEPT !.changeover[i] = "NO_CHANGEOVER"]
             n == Emptied(b, i, "cb_buf")
             u == Transmit(n, b.cb_buf[i])
             v == Ss7Check(u)
  <2>1. Tidy(a) BY <1>1, TimersKnown, TimersTidy
  <2>2. a.cb_buf = r.cb_buf BY <1>1 DEF Forget, Tidy, Shape, Field, BufferField, OtherField
  <2>3. T3Expired(r, i) = FreeCo(v, i)
    <3>1. b.cb_buf[i] = r.cb_buf[i]
      <4> HIDE DEF a
      <4>1. a = [f \in Field |-> a[f]] /\ {"changeover", "cb_buf"} \subseteq Field
        BY <2>1 DEF Tidy, Shape, Field, BufferField, OtherField
      <4>q. QED BY <2>2, <4>1
    <3>2. n = [a EXCEPT !.changeover[i] = "NO_CHANGEOVER", !.cb_buf[i] = <<>>] BY DEF Emptied
    <3>q. QED BY <3>1, <3>2 DEF T3Expired
  <2> HIDE DEF a
  <2>4. Tidy(b) BY <2>1, ChangeoverKnown, SetTidy
  <2> HIDE DEF b
  <2>5. Tidy(n) /\ Hand(n, b.cb_buf[i]) BY <2>4, BuffersKnown, EmptyTidy
  <2> HIDE DEF n
  <2>6. Tidy(u) BY <2>5, TransmitTidy
  <2> HIDE DEF u
  <2>7. Tidy(v) BY <2>6, Ss7CheckTidy
  <2> HIDE DEF v
  <2>q. QED BY <2>3, <2>7, FreeCoTidy
<1> DEFINE a == Forget(s, i, "t5")
           b == [a EXCEPT !.sent[i] = @ \ {"CBD"}]
<1>2. T5Expired(s, i) = T3Expired(b, i) BY DEF T5Expired
<1>3. Tidy(a) BY TimersKnown, TimersTidy
<1> HIDE DEF a
<1>4. Tidy(b) BY <1>3, UnsentTidy
<1> HIDE DEF b
<1>q. QED BY <1>1, <1>2, <1>4

LEMMA InhibitTimersTidy ==
    ASSUME NEW s, Tidy(s), NEW i \in Link
    PROVE  /\ Tidy(T4Expired(s, i)) /\ Tidy(T12Expired2nd(s, i)) /\ Tidy(T14Expired2nd(s, i))
           /\ Tidy(T22Expired(s, i)) /\ Tidy(T23Expired(s, i))
<1>1. "1st" \in Callback BY DEF Callback
<1>2. Tidy(T4Expired(s, i))
  <2> DEFINE a == NetMngSend(s, i, "CBD")
             b == Forget(a, i, "t4")
  <2>1. Tidy(a) BY MessagesKnown, SendTidy
  <2>2. T4Expired(s, i) = Start(b, i, "t5") BY DEF T4Expired
  <2> HIDE DEF a
  <2>3. Tidy(b) BY <2>1, TimersKnown, TimersTidy
  <2> HIDE DEF b
  <2>4. Tidy(Start(b, i, "t5")) BY <2>3, TimersKnown, TimersTidy
  <2>q. QED BY <2>2, <2>4
<1>3. Tidy(T12Expired2nd(s, i))
  <2> DEFINE a == Forget(s, i, "t12")
  <2>1. T12Expired2nd(s, i) = [a EXCEPT !.sent[i] = @ \ {"LUN"}] BY DEF T12Expired2nd
  <2>2. Tidy(a) BY TimersKnown, TimersTidy
  <2> HIDE DEF a
  <2>3. Tidy([a EXCEPT !.sent[i] = @ \ {"LUN"}]) BY <2>2, UnsentTidy
  <2>q. QED BY <2>1, <2>3
<1>4. Tidy(T14Expired2nd(s, i))
  <2> DEFINE a == Forget(s, i, "t14")
             b == [a EXCEPT !.sent[i] = @ \ {"LIN"}]
  <2>1. T14Expired2nd(s, i) = [b EXCEPT !.inhibit[i] = @ \ {"LOCALLY"}] BY DEF T14Expired2nd
  <2>2. Tidy(a) BY TimersKnown, TimersTidy
  <2> HIDE DEF a
  <2>3. Tidy(b) BY <2>2, UnsentTidy
  <2> HIDE DEF b
  <2>4. Tidy([b EXCEPT !.inhibit[i] = @ \ {"LOCALLY"}]) BY <2>3, InhibitTidy
  <2>q. QED BY <2>1, <2>4
<1>5. Tidy(T22Expired(s, i))
  <2>1. Tidy(NetMngSend(s, i, "LLT")) BY MessagesKnown, SendTidy
  <2>2. Tidy(Schedule(NetMngSend(s, i, "LLT"), i, "t22", "1st"))
    BY <1>1, <2>1, TimersKnown, TimersTidy
  <2>3. Tidy(Forget(s, i, "t22")) BY TimersKnown, TimersTidy
  <2>q. QED BY <2>2, <2>3 DEF T22Expired
<1>6. Tidy(T23Expired(s, i))
  <2>1. Tidy(NetMngSend(s, i, "LRT")) BY MessagesKnown, SendTidy
  <2>2. Tidy(Schedule(NetMngSend(s, i, "LRT"), i, "t23", "1st"))
    BY <1>1, <2>1, TimersKnown, TimersTidy
  <2>3. Tidy(Forget(s, i, "t23")) BY TimersKnown, TimersTidy
  <2>q. QED BY <2>2, <2>3 DEF T23Expired
<1>q. QED BY <1>2, <1>3, <1>4, <1>5, <1>6

LEMMA TestTimersTidy ==
    ASSUME NEW s, Tidy(s), NEW i \in Link
    PROVE  Tidy(Q707T1Expired(s, i)) /\ Tidy(Q707T2Expired(s, i))
<1>1. Tidy(Q707T1Expired(s, i))
  <2> DEFINE n == Forget(s, i, "q707_t1")
             a == [n EXCEPT !.failed[i] = 1]
             b == [n EXCEPT !.failed[i] = 0]
             c == Stop(b, i, "q707_t2")
             d == EventLinkDown(c, i)
  <2>1. Q707T1Expired(s, i) \in {StdTestSend(a, i), StdTestSend(d, i)} BY DEF Q707T1Expired
  <2>2. Tidy(n) BY TimersKnown, TimersTidy
  <2> HIDE DEF n
  <2>3. Tidy(a) /\ Tidy(b)
    <3>1. 0 \in 0 .. 1 /\ 1 \in 0 .. 1 OBVIOUS
    <3>q. QED BY <2>2, <3>1, SetTidy
  <2> HIDE DEF a, b
  <2>4. Tidy(c) BY <2>3, TimersKnown, TimersTidy
  <2> HIDE DEF c
  <2>5. Tidy(d) BY <2>4, LinkDownTidy
  <2> HIDE DEF d
  <2>6. Tidy(StdTestSend(a, i)) /\ Tidy(StdTestSend(d, i)) BY <2>3, <2>5, TestSendTidy
  <2>q. QED BY <2>1, <2>6
<1>2. Tidy(Q707T2Expired(s, i))
  <2>1. Tidy(StdTestSend(s, i)) BY TestSendTidy
  <2>2. "1st" \in Callback BY DEF Callback
  <2>q. QED BY <2>1, <2>2, TimersKnown, TimersTidy DEF Q707T2Expired
<1>q. QED BY <1>1, <1>2

LEMMA ExpiredTidy ==
    ASSUME NEW s, Tidy(s), NEW i \in Link, NEW t \in LinkTimer, NEW callback \in Callback
    PROVE  Tidy(Expired(s, i, t, callback))
<1>1. /\ Tidy(T1Expired(s, i)) /\ Tidy(T2Expired(s, i)) /\ Tidy(T3Expired(s, i))
      /\ Tidy(T4Expired(s, i)) /\ Tidy(T5Expired(s, i))
  BY T1ExpiredTidy, T2ExpiredTidy, T3ExpiredTidy, InhibitTimersTidy
<1>2. /\ Tidy(NetMngSend(s, i, "LUN")) /\ Tidy(NetMngSend(s, i, "LFU"))
      /\ Tidy(NetMngSend(s, i, "LIN"))
  BY MessagesKnown, SendTidy
<1>3. /\ Tidy(T12Expired2nd(s, i)) /\ Tidy(Forget(s, i, "t13")) /\ Tidy(T14Expired2nd(s, i))
      /\ Tidy(T22Expired(s, i)) /\ Tidy(T23Expired(s, i))
  BY InhibitTimersTidy, TimersKnown, TimersTidy
<1>4. Tidy(Q707T1Expired(s, i)) /\ Tidy(Q707T2Expired(s, i)) BY TestTimersTidy
<1>5. /\ t \in {"t1", "t2", "t3", "t4", "t5", "t12", "t13", "t14", "t22", "t23", "q707_t1",
               "q707_t2"}
      /\ callback \in {"1st", "2nd"}
  BY DEF LinkTimer, CoCbTimer, OtherTimer, Callback
<1>q. QED BY <1>1, <1>2, <1>3, <1>4, <1>5 DEF Expired

LEMMA SpTimersTidy ==
    ASSUME NEW s, Tidy(s), NEW sp \in Sp
    PROVE  Tidy(T21Expired(s, sp)) /\ Tidy(LinksetUpExpired(s))
<1>1. Tidy(T21Expired(s, sp))
  <2> DEFINE a == [s EXCEPT !.t21[sp] = FALSE]
             b == [a EXCEPT !.tra[sp] = a.tra[sp] \cup {"GOT"}]
  <2>1. T21Expired(s, sp) = Check(b, sp) BY DEF T21Expired
  <2>2. Tidy(a) BY SetSpTidy
  <2> HIDE DEF a
  <2>3. a.tra[sp] \cup {"GOT"} \in SUBSET {"GOT", "SENT"} BY <2>2, OthersOf, KindOf DEF Tidy
  <2>4. Tidy(b) BY <2>2, <2>3, SetSpTidy
  <2> HIDE DEF b
  <2>q. QED BY <2>1, <2>4, CheckTidy
<1>2. Tidy(LinksetUpExpired(s))
  <2>1. Tidy([s EXCEPT !.linkset_up = FALSE]) BY SetSs7Tidy
  <2>2. [e |-> "UP"] \in AppEvent BY DEF AppEvent
  <2>q. QED BY <2>1, <2>2, PostTidy DEF LinksetUpExpired
<1>q. QED BY <1>1, <1>2

-------------------------------------------------------------------------------
(* Alarms, commands and events. *)

LEMMA AlarmTidy ==
    ASSUME NEW s, Tidy(s), NEW i \in Link
    PROVE  Tidy(Alarm(s, i)) /\ Tidy(NoAlarm(s, i))
<1>1. Tidy(Alarm(s, i))
  <2> DEFINE a == [s EXCEPT !.linkstate[i] = "INALARM"]
  <2>1. Tidy(a) BY SetTidy
  <2>2. Alarm(s, i) = Ss7Check(LinkFailed(a, i)) BY DEF Alarm
  <2> HIDE DEF a
  <2>3. Tidy(LinkFailed(a, i)) BY <2>1, LinkFailedTidy
  <2>q. QED BY <2>2, <2>3, Ss7CheckTidy
<1>2. Tidy(NoAlarm(s, i))
  <2> DEFINE a == [s EXCEPT !.linkstate[i] = "ALIGNING"]
             b == Emptied(a, i, "tx_q")
             c == Emptied(b, i, "tx_buf")
  <2>1. Tidy(a) BY SetTidy
  <2>2. NoAlarm(s, i) = c BY DEF NoAlarm, Emptied
  <2> HIDE DEF a
  <2>3. Tidy(b) BY <2>1, BuffersKnown, EmptyTidy
  <2> HIDE DEF b
  <2>4. Tidy(c) BY <2>3, BuffersKnown, EmptyTidy
  <2>q. QED BY <2>2, <2>4
<1>q. QED BY <1>1, <1>2

LEMMA EventTidy ==
    ASSUME NEW s, Tidy(s), NEW e \in LinkEvent \cup AppEvent
    PROVE  Tidy(ProcessEvent(s, e))
<1>1. CASE e \in LinkEvent
  <2>1. e.link \in Link BY <1>1 DEF LinkEvent
  <2>2. Tidy(EventLinkUp(s, e.link)) /\ Tidy(EventLinkDown(s, e.link))
    BY <2>1, TestSendTidy, LinkDownTidy
  <2>q. QED BY <2>2 DEF ProcessEvent
<1>2. CASE e \in AppEvent
  <2>1. e.e \in {"UP", "DOWN"} BY <1>2 DEF AppEvent
  <2>q. QED BY <2>1 DEF ProcessEvent
<1>q. QED BY <1>1, <1>2

-------------------------------------------------------------------------------
(* The steps of the linkset. *)

TrafficInv ==
    /\ topic \in Topic /\ Tidy(ss7)
    /\ mtp2 \in [Link -> {"OUT", "SIO", "IN", "ALARM"}]
    /\ told \in {"UP", "DOWN"}

LEMMA InitTidy ==
    ASSUME Init
    PROVE  TrafficInv
<1>1. topic \in Topic /\ told \in {"UP", "DOWN"}
      /\ mtp2 \in [Link -> {"OUT", "SIO", "IN", "ALARM"}]
  BY DEF Init
<1>2. /\ \A i \in Link, f \in BufferField : ss7[f][i] = <<>>
      /\ \A sp \in Sp, d \in Dest : ss7.route[sp][d] = NoRoute
  <2>1. \A i \in Link : /\ ss7.tx_q[i] = <<>> /\ ss7.tx_buf[i] = <<>> /\ ss7.co_buf[i] = <<>>
                        /\ ss7.cb_buf[i] = <<>> /\ ss7.co_tx_q[i] = <<>>
                        /\ ss7.co_tx_buf[i] = <<>>
    BY DEF Init
  <2>2. \A sp \in Sp, d \in Dest : ss7.route[sp][d] = NoRoute BY DEF Init
  <2>q. QED BY <2>1, <2>2 DEF BufferField
<1>3. NoRoute \in Route /\ NoRoute.state = "none" /\ NoRoute.q = <<>>
  BY EmptyPlain DEF NoRoute, Route
<1>4. Shape(ss7)
  <2>1. ss7 = [f \in Field |-> ss7[f]] BY DEF Init, Field, BufferField, OtherField
  <2>2. \A f \in BufferField : ss7[f] \in Kind[f]
    <3>1. /\ ss7.tx_q \in [Link -> Seq(Msg)] /\ ss7.tx_buf \in [Link -> Seq(Msg)]
          /\ ss7.co_buf \in [Link -> Seq(Msg)] /\ ss7.cb_buf \in [Link -> Seq(Msg)]
          /\ ss7.co_tx_q \in [Link -> Seq(Msg)] /\ ss7.co_tx_buf \in [Link -> Seq(Msg)]
      BY EmptyPlain DEF Init
    <3>q. QED BY <3>1, BufferKind DEF BufferField
  <2>3. ss7.route \in [Sp -> [Dest -> Route]] BY <1>3 DEF Init
  <2>4. /\ ss7.linkstate \in Kind.linkstate /\ ss7.passed \in Kind.passed
        /\ ss7.failed \in Kind.failed /\ ss7.inhibit \in Kind.inhibit
        /\ ss7.changeover \in Kind.changeover /\ ss7.sent \in Kind.sent
    <3>1. StartsUp[topic] \in BOOLEAN BY <1>1, TopicAssumption
    <3>2. 0 \in 0 .. 1 OBVIOUS
    <3>q. QED BY <3>1, <3>2, ChangeoverKnown, KindOf DEF Init
  <2>5. ss7.timer \in Kind.timer /\ ss7.orphan \in Kind.orphan
    <3>1. "1st" \in TimerValue /\ "off" \in TimerValue BY DEF TimerValue, Callback
    <3>q. QED BY <3>1, KindOf DEF Init
  <2>6. /\ ss7.sp \in Kind.sp /\ ss7.tra \in Kind.tra /\ ss7.t19 \in Kind.t19
        /\ ss7.t21 \in Kind.t21 /\ ss7.state \in Kind.state /\ ss7.linkset_up \in Kind.linkset_up
        /\ ss7.evrefused \in Kind.evrefused
    BY KindOf DEF Init
  <2>7. ss7.ev \in Kind.ev /\ ss7.out \in Kind.out
    <3>1. ss7.ev = <<>> /\ ss7.out = <<>> BY DEF Init
    <3>2. <<>> \in Seq(LinkEvent \cup AppEvent) /\ Len(<<>>) = 0 /\ <<>> \in Seq(OutMsg)
      BY EmptyPlain
    <3>q. QED BY <3>1, <3>2, KindOf, MaxEventsAssumption DEF Events
  <2>8. Kind.route = [Sp -> [Dest -> Route]] BY DEF Kind
  <2>9. \A f \in OtherField : ss7[f] \in Kind[f] BY <2>4, <2>5, <2>6, <2>7 DEF OtherField
  <2>q. QED BY <2>1, <2>2, <2>3, <2>8, <2>9 DEF Shape, Field
<1>5. \A p \in Place : Box(ss7, p) = <<>> BY <1>2, <1>3, PlaceOf
<1>6. Apart(ss7) BY <1>5, EmptyPlain DEF Apart
<1>7. Queued(ss7) /\ Barred(ss7)
  <2>1. Queued(ss7) BY <1>2, <1>3, EmptyPlain DEF Queued
  <2>2. Barred(ss7) BY <1>2, <1>3, SpOf DEF Barred
  <2>q. QED BY <2>1, <2>2
<1>q. QED BY <1>1, <1>4, <1>6, <1>7 DEF TrafficInv, Tidy

LEMMA BecomesTidy ==
    ASSUME NEW n, Tidy(n), Becomes(n)
    PROVE  Tidy(ss7')
<1>1. Tidy([n EXCEPT !.out = <<>>]) BY EmptyPlain, SetSs7Tidy
<1>q. QED BY <1>1 DEF Becomes

\* A buffer that loses messages.
LEMMA ReplacedTidy ==
    ASSUME NEW s, Tidy(s), NEW i \in Link, NEW f \in BufferField, NEW v \in Seq(Msg),
           Plain(v), Range(v) \subseteq Range(s[f][i])
    PROVE  Tidy([s EXCEPT ![f][i] = v])
<1> DEFINE n == [s EXCEPT ![f][i] = v]
<1>1. Shape(s) BY DEF Tidy
<1>2. f \in Field /\ s[f] \in [Link -> Seq(Msg)] /\ "route" \in Field /\ "route" # f
      /\ BufferField \subseteq Field
  BY <1>1, BufferKind DEF Shape, Field, BufferField
<1>3. Alters(s, n, {f}) /\ n[f] = [s[f] EXCEPT ![i] = v] BY <1>1, <1>2 DEF Alters, Shape
<1> HIDE DEF n
<1>4. n[f] \in [Link -> Seq(Msg)] BY <1>2, <1>3
<1>5. \A g \in {f} : n[g] \in Kind[g] BY <1>4, BufferKind
<1>6. Shape(n) BY <1>1, <1>3, <1>5, Altered
<1>7. n.route = s.route /\ \A g \in BufferField \ {f} : n[g] = s[g] BY <1>2, <1>3 DEF Alters
<1>8. \A j \in Link \ {i}, g \in BufferField : n[g][j] = s[g][j] BY <1>2, <1>3, <1>7
<1>9. n[f][i] = v /\ \A g \in BufferField \ {f} : n[g][i] = s[g][i] BY <1>2, <1>3, <1>7
<1>10. /\ \A g \in BufferField : Plain(s[g][i]) /\ Range(s[g][i]) \subseteq Content(s, i)
       /\ \A g, h \in BufferField : g # h => Range(s[g][i]) \cap Range(s[h][i]) = {}
  BY LinkBoxes
<1>11. /\ \A g \in BufferField : Plain(n[g][i]) /\ Range(n[g][i]) \subseteq Range(s[g][i])
  BY <1>9, <1>10
<1>12. /\ \A g \in BufferField : Plain(n[g][i]) /\ Range(n[g][i]) \subseteq Content(s, i)
       /\ \A g, h \in BufferField : g # h => Range(n[g][i]) \cap Range(n[h][i]) = {}
  BY <1>10, <1>11
<1>13. Tidy(n) BY <1>6, <1>7, <1>8, <1>12, MovedTidy
<1>q. QED BY <1>13 DEF n

LEMMA TailPlain ==
    ASSUME NEW S, NEW q \in Seq(S), q # <<>>, Plain(q)
    PROVE  /\ Head(q) \in S /\ Head(q) \in Range(q)
           /\ Tail(q) \in Seq(S) /\ Plain(Tail(q))
           /\ Range(Tail(q)) \subseteq Range(q) \ {Head(q)}
<1>1. /\ Head(q) \in S /\ Tail(q) \in Seq(S) /\ Len(Tail(q)) = Len(q) - 1
      /\ \A k \in 1 .. Len(Tail(q)) : Tail(q)[k] = q[k + 1]
  BY HeadTailProperties
<1>2. /\ DOMAIN q = 1 .. Len(q) /\ Len(q) \in Nat /\ DOMAIN Tail(q) = 1 .. Len(Tail(q))
      /\ Len(Tail(q)) \in Nat
  BY <1>1, LenProperties
<1>3. 1 \in DOMAIN q /\ Head(q) = q[1] BY <1>1, <1>2, HeadTailProperties
<1>4. \A k \in DOMAIN Tail(q) : k + 1 \in DOMAIN q /\ k + 1 # 1 /\ Tail(q)[k] = q[k + 1]
  BY <1>1, <1>2
<1>5. Plain(Tail(q))
  <2> SUFFICES ASSUME NEW k \in DOMAIN Tail(q), NEW l \in DOMAIN Tail(q), Tail(q)[k] = Tail(q)[l]
               PROVE  k = l
    BY DEF Plain
  <2>1. k + 1 = l + 1 BY <1>4 DEF Plain
  <2>q. QED BY <1>2, <2>1
<1>6. \A k \in DOMAIN Tail(q) : Tail(q)[k] \in Range(q) \ {Head(q)}
  BY <1>3, <1>4 DEF Range, Plain
<1>7. Head(q) \in Range(q) BY <1>3 DEF Range
<1>8. Range(Tail(q)) \subseteq Range(q) \ {Head(q)} BY <1>6 DEF Range
<1>q. QED BY <1>1, <1>5, <1>7, <1>8

\* A function that puts something else into two buffers.
Puts(s, n, i, f, v, g, w) ==
    /\ Alters(s, n, {f, g})
    /\ n[f] = [s[f] EXCEPT ![i] = v] /\ n[g] = [s[g] EXCEPT ![i] = w]

LEMMA PutFields ==
    ASSUME NEW s, Shape(s), NEW i, NEW f \in BufferField, NEW g \in BufferField, f # g,
           NEW v, NEW w
    PROVE  Puts(s, [s EXCEPT ![f][i] = v, ![g][i] = w], i, f, v, g, w)
<1>1. f \in Field /\ g \in Field BY BufferKind
<1>q. QED BY <1>1 DEF Alters, Shape, Puts

\* The link with the oldest message of its queue written to the line.
Written(s, i) == [s EXCEPT !.tx_q[i] = Tail(@), !.tx_buf[i] = <<Head(s.tx_q[i])>> \o @]

LEMMA WriteTidy ==
    ASSUME NEW s, Tidy(s), NEW i \in Link, s.tx_q[i] # <<>>
    PROVE  Tidy(Written(s, i))
<1> DEFINE n == [s EXCEPT !.tx_q[i] = Tail(@), !.tx_buf[i] = <<Head(s.tx_q[i])>> \o @]
           q == s.tx_q[i]
           b == s.tx_buf[i]
           v == <<Head(q)>> \o b
<1>1. Shape(s) BY DEF Tidy
<1>2. {"tx_q", "tx_buf", "route"} \subseteq Field /\ BufferField \subseteq Field
      /\ s.tx_q \in [Link -> Seq(Msg)] /\ s.tx_buf \in [Link -> Seq(Msg)]
  BY <1>1, BufferKind, BuffersKnown DEF Shape, Field, BufferField
<1>3. Alters(s, n, {"tx_q", "tx_buf"}) /\ n.tx_q = [s.tx_q EXCEPT ![i] = Tail(q)]
      /\ n.tx_buf = [s.tx_buf EXCEPT ![i] = v]
  <2> DEFINE t == Tail(q)
             u == [s EXCEPT !.tx_q[i] = t, !.tx_buf[i] = v]
  <2>1. n = u
    <3>1. /\ s = [f \in Field |-> s[f]]
      BY <1>1 DEF Shape
    <3>q. QED BY <1>2, <3>1
  <2> HIDE DEF n, t, v
  <2>2. Puts(s, u, i, "tx_q", t, "tx_buf", v) BY <1>1, BuffersKnown, PutFields
  <2> HIDE DEF u
  <2>q. QED BY <2>1, <2>2 DEF t, Puts
<1> HIDE DEF n
<1>4. /\ \A g \in BufferField : /\ s[g][i] \in Seq(Msg) /\ Plain(s[g][i])
                                /\ Range(s[g][i]) \subseteq Content(s, i)
      /\ \A g, h \in BufferField : g # h => Range(s[g][i]) \cap Range(s[h][i]) = {}
  BY LinkBoxes
<1>5. /\ Head(q) \in Msg /\ Head(q) \in Range(q) /\ Tail(q) \in Seq(Msg) /\ Plain(Tail(q))
      /\ Range(Tail(q)) \subseteq Range(q) \ {Head(q)}
  BY <1>4, BuffersKnown, TailPlain
<1>6. b \in Seq(Msg) /\ Plain(b) /\ Range(q) \cap Range(b) = {} BY <1>4, BuffersKnown
<1>7. v \in Seq(Msg) /\ Plain(v) /\ Range(v) = {Head(q)} \cup Range(b)
  <2>1. <<Head(q)>> \in Seq(Msg) /\ Plain(<<Head(q)>>) /\ Range(<<Head(q)>>) = {Head(q)}
    BY <1>5, OnePlain
  <2>2. Range(<<Head(q)>>) \cap Range(b) = {} BY <1>5, <1>6, <2>1
  <2> DEFINE h == <<Head(q)>>
  <2> HIDE DEF h, b, q
  <2>3. h \in Seq(Msg) /\ Plain(h) /\ Range(h) \cap Range(b) = {} BY <2>1, <2>2 DEF h
  <2>4. h \o b \in Seq(Msg) /\ Plain(h \o b) /\ Range(h \o b) = Range(h) \cup Range(b)
    BY <1>6, <2>3, ConcatPlain
  <2>q. QED BY <2>1, <2>4 DEF h
<1>8. Shape(n)
  <2>1. n.tx_q \in [Link -> Seq(Msg)] /\ n.tx_buf \in [Link -> Seq(Msg)] BY <1>2, <1>3, <1>5, <1>7
  <2>2. \A f \in {"tx_q", "tx_buf"} : n[f] \in Kind[f] BY <2>1, BufferKind, BuffersKnown
  <2>q. QED BY <1>1, <1>3, <2>2, Altered
<1>9. n.route = s.route /\ \A g \in BufferField \ {"tx_q", "tx_buf"} : n[g] = s[g]
  BY <1>2, <1>3 DEF Alters
<1>10. \A j \in Link \ {i}, g \in BufferField : n[g][j] = s[g][j] BY <1>2, <1>3, <1>9
<1>11. n.tx_q[i] = Tail(q) /\ n.tx_buf[i] = v BY <1>2, <1>3
<1>12. /\ Range(n.tx_q[i]) \subseteq Range(q) \ {Head(q)}
       /\ Range(n.tx_buf[i]) = {Head(q)} \cup Range(b)
       /\ Plain(n.tx_q[i]) /\ Plain(n.tx_buf[i])
       /\ \A g \in BufferField \ {"tx_q", "tx_buf"} : n[g][i] = s[g][i]
  BY <1>5, <1>7, <1>9, <1>11
<1>13. \A g \in BufferField : Plain(n[g][i]) /\ Range(n[g][i]) \subseteq Content(s, i)
  BY <1>4, <1>5, <1>12, BuffersKnown
<1>14. \A g, h \in BufferField : g # h => Range(n[g][i]) \cap Range(n[h][i]) = {}
  <2>1. Range(n.tx_q[i]) \cap Range(n.tx_buf[i]) = {} BY <1>6, <1>12
  <2>2. \A g \in BufferField \ {"tx_q", "tx_buf"} :
            /\ Range(n.tx_q[i]) \cap Range(n[g][i]) = {}
            /\ Range(n.tx_buf[i]) \cap Range(n[g][i]) = {}
    <3>1. \A g \in BufferField \ {"tx_q", "tx_buf"} :
              Range(q) \cap Range(s[g][i]) = {} /\ Range(b) \cap Range(s[g][i]) = {}
      BY <1>4, BuffersKnown
    <3>q. QED BY <1>5, <1>12, <3>1
  <2>q. QED BY <1>4, <1>12, <2>1, <2>2
<1>15. Tidy(n) BY <1>8, <1>9, <1>10, <1>13, <1>14, MovedTidy
<1>q. QED BY <1>15 DEF n, Written

\* What a link holds, in all of its buffers, one after the other.
LEMMA HeldOf ==
    ASSUME NEW s, Tidy(s), NEW i \in Link
    PROVE  Held(s, i) \in Seq(Msg) /\ Plain(Held(s, i)) /\ Range(Held(s, i)) = Content(s, i)
<1>1. /\ \A f \in BufferField : s[f][i] \in Seq(Msg) /\ Plain(s[f][i])
      /\ \A f, g \in BufferField : f # g => Range(s[f][i]) \cap Range(s[g][i]) = {}
  BY LinkBoxes
<1> DEFINE a == s.tx_q[i] \o s.co_tx_q[i]
           b == a \o s.co_buf[i]
           c == b \o s.cb_buf[i]
           d == c \o s.tx_buf[i]
           e == d \o s.co_tx_buf[i]
<1>2. Held(s, i) = e BY DEF Held, Waiting
<1>3. a \in Seq(Msg) /\ Plain(a) /\ Range(a) = Range(s.tx_q[i]) \cup Range(s.co_tx_q[i])
  <2>1. /\ s.tx_q[i] \in Seq(Msg) /\ Plain(s.tx_q[i])
        /\ s.co_tx_q[i] \in Seq(Msg) /\ Plain(s.co_tx_q[i])
        /\ Range(s.tx_q[i]) \cap Range(s.co_tx_q[i]) = {}
    BY <1>1, BuffersKnown
  <2>q. QED BY <2>1, ConcatPlain
<1> HIDE DEF a
<1>4. b \in Seq(Msg) /\ Plain(b) /\ Range(b) = Range(a) \cup Range(s.co_buf[i])
  <2>1. s.co_buf[i] \in Seq(Msg) /\ Plain(s.co_buf[i]) /\ Range(a) \cap Range(s.co_buf[i]) = {}
    BY <1>1, <1>3, BuffersKnown
  <2>q. QED BY <1>3, <2>1, ConcatPlain
<1> HIDE DEF b
<1>5. c \in Seq(Msg) /\ Plain(c) /\ Range(c) = Range(b) \cup Range(s.cb_buf[i])
  <2>1. s.cb_buf[i] \in Seq(Msg) /\ Plain(s.cb_buf[i]) /\ Range(b) \cap Range(s.cb_buf[i]) = {}
    BY <1>1, <1>3, <1>4, BuffersKnown
  <2>q. QED BY <1>4, <2>1, ConcatPlain
<1> HIDE DEF c
<1>6. d \in Seq(Msg) /\ Plain(d) /\ Range(d) = Range(c) \cup Range(s.tx_buf[i])
  <2>1. s.tx_buf[i] \in Seq(Msg) /\ Plain(s.tx_buf[i]) /\ Range(c) \cap Range(s.tx_buf[i]) = {}
    BY <1>1, <1>3, <1>4, <1>5, BuffersKnown
  <2>q. QED BY <1>5, <2>1, ConcatPlain
<1> HIDE DEF d
<1>7. e \in Seq(Msg) /\ Plain(e) /\ Range(e) = Range(d) \cup Range(s.co_tx_buf[i])
  <2>1. /\ s.co_tx_buf[i] \in Seq(Msg) /\ Plain(s.co_tx_buf[i])
        /\ Range(d) \cap Range(s.co_tx_buf[i]) = {}
    BY <1>1, <1>3, <1>4, <1>5, <1>6, BuffersKnown
  <2>q. QED BY <1>6, <2>1, ConcatPlain
<1> HIDE DEF e
<1>8. Content(s, i) = Range(s.tx_q[i]) \cup Range(s.co_tx_q[i]) \cup Range(s.co_buf[i])
                      \cup Range(s.cb_buf[i]) \cup Range(s.tx_buf[i]) \cup Range(s.co_tx_buf[i])
  BY DEF Content, BufferField
<1>q. QED BY <1>2, <1>3, <1>4, <1>5, <1>6, <1>7, <1>8

\* A message that no buffer holds is in hand.
LEMMA GivenHand ==
    ASSUME NEW s, Tidy(s), NEW m \in Msg, Copies(s, m) = {}
    PROVE  Hand(s, <<m>>)
<1>1. \A i \in Link : m \notin Content(s, i)
  <2> SUFFICES ASSUME NEW i \in Link, m \in Content(s, i) PROVE FALSE
    OBVIOUS
  <2>1. m \in Range(Held(s, i)) BY HeldOf
  <2>2. PICK k \in DOMAIN Held(s, i) : Held(s, i)[k] = m BY <2>1 DEF Range
  <2>3. <<i, k>> \in {i} \X Places(Held(s, i), m) BY <2>2 DEF Places
  <2>q. QED BY <2>3 DEF Copies
<1>2. \A sp \in Sp : m \notin Range(s.route[sp][Dpc[m]].q)
  <2> SUFFICES ASSUME NEW sp \in Sp, m \in Range(s.route[sp][Dpc[m]].q) PROVE FALSE
    OBVIOUS
  <2>1. PICK k \in DOMAIN s.route[sp][Dpc[m]].q : s.route[sp][Dpc[m]].q[k] = m BY DEF Range
  <2>2. <<sp, k>> \in {sp} \X Places(s.route[sp][Dpc[m]].q, m) BY <2>1 DEF Places
  <2>q. QED BY <2>2 DEF Copies
<1>3. \A p \in Place : m \notin Range(Box(s, p))
  <2> SUFFICES ASSUME NEW p \in Place, m \in Range(Box(s, p)) PROVE FALSE
    OBVIOUS
  <2>1. CASE \E i \in Link, f \in BufferField : p = <<"link", i, f>>
    <3>1. PICK i \in Link, f \in BufferField : p = <<"link", i, f>> BY <2>1
    <3>2. Box(s, p) = s[f][i] BY <3>1, PlaceOf
    <3>q. QED BY <1>1, <3>2 DEF Content
  <2>2. CASE \E sp \in Sp, d \in Dest : p = <<"route", sp, d>>
    <3>1. PICK sp \in Sp, d \in Dest : p = <<"route", sp, d>> BY <2>2
    <3>2. Box(s, p) = s.route[sp][d].q BY <3>1, PlaceOf
    <3>3. m \in MessagesFor(d) BY <3>2 DEF Tidy, Queued
    <3>q. QED BY <1>2, <3>2, <3>3 DEF MessagesFor
  <2>q. QED BY <2>1, <2>2, PlaceOf
<1>4. <<m>> \in Seq(Msg) /\ Plain(<<m>>) /\ Range(<<m>>) = {m} BY OnePlain
<1>q. QED BY <1>3, <1>4 DEF Hand, Stock

LEMMA Mtp2StepTidy ==
    ASSUME TrafficInv, NEW i \in Link
    PROVE  /\ Write(i) \/ WriteSio(i) \/ Acknowledge(i) => TrafficInv'
           /\ GoIn(i) \/ GoOut(i) \/ RaiseAlarm(i) \/ ClearAlarm(i) => TrafficInv'
<1>1. Tidy(ss7) BY DEF TrafficInv
<1>2. ASSUME Write(i) PROVE TrafficInv'
  <2>1. ss7.tx_q[i] # <<>> /\ ss7' = Written(ss7, i) /\ UNCHANGED <<topic, mtp2, told>>
    BY <1>2 DEF Write, Written
  <2>2. Tidy(Written(ss7, i)) BY <1>1, <2>1, WriteTidy
  <2>3. Tidy(ss7') BY <2>1, <2>2
  <2>q. QED BY <2>1, <2>3 DEF TrafficInv
<1>3. ASSUME WriteSio(i) PROVE TrafficInv'
  <2>1. ss7' = Emptied(ss7, i, "tx_buf") BY <1>3 DEF WriteSio, Emptied
  <2>2. Tidy(ss7') BY <1>1, <2>1, BuffersKnown, EmptyTidy
  <2>q. QED BY <1>3, <2>2 DEF TrafficInv, WriteSio
<1>4. ASSUME Acknowledge(i) PROVE TrafficInv'
  <2> DEFINE q == ss7.tx_buf[i]
             v == Unacknowledged(q, 1)
  <2>1. ss7' = [ss7 EXCEPT !.tx_buf[i] = v] BY <1>4 DEF Acknowledge
  <2>2. q \in Seq(Msg) /\ Plain(q) BY <1>1, LinkBoxes, BuffersKnown
  <2>3. v \in Seq(Msg) /\ Plain(v) /\ Range(v) \subseteq Range(q)
    <3>1. 1 \in Nat OBVIOUS
    <3> HIDE DEF q
    <3>q. QED BY <2>2, <3>1, PrefixPlain
  <2> HIDE DEF v
  <2>4. Tidy([ss7 EXCEPT !.tx_buf[i] = v]) BY <1>1, <2>3, BuffersKnown, ReplacedTidy
  <2>q. QED BY <1>4, <2>1, <2>4 DEF TrafficInv, Acknowledge
<1>5. ASSUME GoIn(i) \/ GoOut(i) PROVE TrafficInv'
  <2>1. [e |-> "LINK_UP", link |-> i] \in LinkEvent /\ [e |-> "LINK_DOWN", link |-> i] \in LinkEvent
    BY DEF LinkEvent
  <2>2. /\ Tidy(PostEvent(ss7, [e |-> "LINK_UP", link |-> i]))
        /\ Tidy(PostEvent(ss7, [e |-> "LINK_DOWN", link |-> i]))
    BY <1>1, <2>1, PostTidy
  <2>q. QED BY <1>5, <2>2 DEF GoIn, GoOut, TrafficInv
<1>6. ASSUME RaiseAlarm(i) \/ ClearAlarm(i) PROVE TrafficInv'
  <2>1. Tidy(Alarm(ss7, i)) /\ Tidy(NoAlarm(ss7, i)) BY <1>1, AlarmTidy
  <2>2. Tidy(ss7') BY <1>6, <2>1, BecomesTidy DEF RaiseAlarm, ClearAlarm
  <2>q. QED BY <1>6, <2>2 DEF RaiseAlarm, ClearAlarm, TrafficInv
<1>q. QED BY <1>2, <1>3, <1>4, <1>5, <1>6

LEMMA LinkStepTidy ==
    ASSUME TrafficInv, NEW i \in Link
    PROVE  /\ ReceiveTest(i) \/ ReceiveNetMng(i) \/ ReceiveRoute(i) \/ Command(i) => TrafficInv'
           /\ \A t \in LinkTimer : Expire(i, t) => TrafficInv'
<1>1. Tidy(ss7) BY DEF TrafficInv
<1>2. ASSUME ReceiveTest(i) PROVE TrafficInv'
  <2>1. Tidy(RxSltm(ss7, i)) /\ Tidy(RxSlta(ss7, i)) /\ Tidy(RxSltaMismatch(ss7, i))
    BY <1>1, LinkTestTidy
  <2>2. Tidy(ss7') BY <1>2, <2>1, BecomesTidy DEF ReceiveTest
  <2>q. QED BY <1>2, <2>2 DEF ReceiveTest, TrafficInv
<1>3. ASSUME ReceiveNetMng(i) PROVE TrafficInv'
  <2>1. PICK msg, acked :
            acked \in 0 .. Cardinality(Msg) /\ Becomes(NetMngReceive(ss7, i, msg, acked))
    BY <1>3 DEF ReceiveNetMng
  <2>2. acked \in Nat BY <2>1
  <2>3. Tidy(NetMngReceive(ss7, i, msg, acked)) BY <1>1, <2>2, ReceiveTidy
  <2>4. Tidy(ss7') BY <2>1, <2>3, BecomesTidy
  <2>q. QED BY <1>3, <2>4 DEF ReceiveNetMng, TrafficInv
<1>4. ASSUME ReceiveRoute(i) PROVE TrafficInv'
  <2>1. \A d \in Dest : Tidy(RxTfp(ss7, AdjSp[i], d)) /\ Tidy(RxTfa(ss7, AdjSp[i], d))
    BY <1>1, SpOf, RxRouteTidy
  <2>2. Tidy(ss7') BY <1>4, <2>1, BecomesTidy DEF ReceiveRoute
  <2>q. QED BY <1>4, <2>2 DEF ReceiveRoute, TrafficInv
<1>5. ASSUME Command(i) PROVE TrafficInv'
  <2>1. PICK msg \in Commands[topic] : Becomes(NetMngCommand(ss7, i, msg)) BY <1>5 DEF Command
  <2>2. msg \in NetMng BY <2>1, CommandsAssumption DEF TrafficInv
  <2>3. Tidy(NetMngCommand(ss7, i, msg)) BY <1>1, <2>2, SendTidy DEF NetMngCommand
  <2>4. Tidy(ss7') BY <2>1, <2>3, BecomesTidy
  <2>q. QED BY <1>5, <2>4 DEF Command, TrafficInv
<1>6. ASSUME NEW t \in LinkTimer, Expire(i, t) PROVE TrafficInv'
  <2> DEFINE n == [ss7 EXCEPT !.timer[i][t] = "stale"]
  <2>1. ss7.timer[i][t] \in Callback /\ Becomes(Expired(n, i, t, ss7.timer[i][t]))
        /\ UNCHANGED <<topic, mtp2, told>>
    BY <1>6 DEF Expire
  <2>2. Tidy(n) BY <1>1, TimersTidy
  <2> HIDE DEF n
  <2>3. Tidy(Expired(n, i, t, ss7.timer[i][t])) BY <2>1, <2>2, ExpiredTidy
  <2>4. Tidy(ss7') BY <2>1, <2>3, BecomesTidy
  <2>q. QED BY <2>1, <2>4 DEF TrafficInv
<1>q. QED BY <1>2, <1>3, <1>4, <1>5, <1>6

LEMMA CheckEventTidy ==
    ASSUME TrafficInv, CheckEvent
    PROVE  TrafficInv'
<1> DEFINE n == [ss7 EXCEPT !.ev = Tail(@)]
           e == Head(ss7.ev)
<1>1. Tidy(ss7) BY DEF TrafficInv
<1>2. ss7.ev \in Events /\ ss7.ev # <<>> BY <1>1, OthersOf, KindOf DEF Tidy, CheckEvent
<1>3. /\ e \in LinkEvent \cup AppEvent /\ Tail(ss7.ev) \in Seq(LinkEvent \cup AppEvent)
      /\ Len(Tail(ss7.ev)) = Len(ss7.ev) - 1
  BY <1>2, HeadTailProperties DEF Events
<1>4. Tail(ss7.ev) \in Events
  <2>1. Len(ss7.ev) \in Nat /\ Len(ss7.ev) <= MaxEvents BY <1>2, LenProperties DEF Events
  <2>q. QED BY <1>3, <2>1, MaxEventsAssumption DEF Events
<1>5. Tidy(n) BY <1>1, <1>4, SetSs7Tidy
<1>6. Becomes(ProcessEvent(n, e)) /\ UNCHANGED <<topic, mtp2>>
      /\ told' = IF e.e \in {"UP", "DOWN"} THEN e.e ELSE told
  BY DEF CheckEvent
<1> HIDE DEF n, e
<1>7. Tidy(ProcessEvent(n, e)) BY <1>3, <1>5, EventTidy
<1>8. Tidy(ss7') BY <1>6, <1>7, BecomesTidy
<1>q. QED BY <1>6, <1>8 DEF TrafficInv

LEMMA NextTidy ==
    ASSUME TrafficInv, [Next]_vars
    PROVE  TrafficInv'
<1>1. Tidy(ss7) BY DEF TrafficInv
<1>2. CASE CheckEvent BY <1>2, CheckEventTidy
<1>3. CASE RestartTraffic
  <2>1. \A sp \in Sp : Tidy(InitRestart(ss7, sp)) BY <1>1, RestartTidy
  <2>2. Tidy(ss7') BY <1>3, <2>1, BecomesTidy DEF RestartTraffic
  <2>q. QED BY <1>3, <2>2 DEF RestartTraffic, TrafficInv
<1>4. CASE ExpireOrphan
  <2>1. PICK o \in ss7.orphan :
            Becomes(Expired([ss7 EXCEPT !.orphan = @ \ {o}], o[1], o[2], o[3]))
    BY <1>4 DEF ExpireOrphan
  <2>2. ss7.orphan \in SUBSET Slots BY <1>1, OthersOf, KindOf DEF Tidy
  <2>3. o[1] \in Link /\ o[2] \in LinkTimer /\ o[3] \in Callback BY <2>2 DEF Slots
  <2> DEFINE n == [ss7 EXCEPT !.orphan = ss7.orphan \ {o}]
  <2>4. ss7.orphan \ {o} \in SUBSET Slots BY <2>2
  <2>5. Tidy(n) BY <1>1, <2>4, SetSs7Tidy
  <2>6. Becomes(Expired(n, o[1], o[2], o[3])) BY <2>1
  <2> HIDE DEF n
  <2>7. Tidy(Expired(n, o[1], o[2], o[3])) BY <2>3, <2>5, ExpiredTidy
  <2>8. Tidy(ss7') BY <2>6, <2>7, BecomesTidy
  <2>q. QED BY <1>4, <2>8 DEF ExpireOrphan, TrafficInv
<1>5. CASE ExpireLinksetUp
  <2>1. PICK sp \in Sp : TRUE BY NumLinksAssumption, SpOf DEF Link
  <2>2. Tidy(LinksetUpExpired(ss7)) BY <1>1, <2>1, SpTimersTidy
  <2>3. Tidy(ss7') BY <1>5, <2>2, BecomesTidy DEF ExpireLinksetUp
  <2>q. QED BY <1>5, <2>3 DEF ExpireLinksetUp, TrafficInv
<1>6. ASSUME NEW m \in Msg, Give(m) PROVE TrafficInv'
  <2>1. Hand(ss7, <<m>>) BY <1>1, <1>6, GivenHand DEF Give
  <2>2. Tidy(Transmit(ss7, <<m>>)) BY <1>1, <2>1, TransmitTidy
  <2>3. Tidy(ss7') BY <1>6, <2>2, BecomesTidy DEF Give
  <2>q. QED BY <1>6, <2>3 DEF Give, TrafficInv
<1>7. ASSUME NEW sp \in Sp, ExpireT19(sp) \/ ExpireT21(sp) PROVE TrafficInv'
  <2>1. Tidy([ss7 EXCEPT !.t19[sp] = FALSE]) BY <1>1, SetSpTidy
  <2>2. Tidy(T21Expired(ss7, sp)) BY <1>1, SpTimersTidy
  <2>3. Tidy(ss7') BY <1>7, <2>1, <2>2, BecomesTidy DEF ExpireT19, ExpireT21
  <2>q. QED BY <1>7, <2>3 DEF ExpireT19, ExpireT21, TrafficInv
<1>8. ASSUME NEW sp \in Sp, NEW d \in Dest, ExpireT6(sp, d) \/ ExpireT10(sp, d)
      PROVE  TrafficInv'
  <2>1. Tidy(T6Expired(ss7, sp, d)) /\ Tidy(T10Expired(ss7, sp, d))
    BY <1>1, T6ExpiredTidy, T10ExpiredTidy
  <2>2. Tidy(ss7') BY <1>8, <2>1, BecomesTidy DEF ExpireT6, ExpireT10
  <2>q. QED BY <1>8, <2>2 DEF ExpireT6, ExpireT10, TrafficInv
<1>9. ASSUME NEW i \in Link,
             \/ Write(i) \/ WriteSio(i) \/ Acknowledge(i) \/ GoIn(i) \/ GoOut(i)
             \/ RaiseAlarm(i) \/ ClearAlarm(i)
             \/ ReceiveTest(i) \/ ReceiveNetMng(i) \/ ReceiveRoute(i) \/ Command(i)
             \/ \E t \in LinkTimer : Expire(i, t)
      PROVE  TrafficInv'
  BY <1>9, Mtp2StepTidy, LinkStepTidy
<1>10. CASE UNCHANGED vars BY <1>10 DEF vars, TrafficInv
<1>q. QED BY <1>2, <1>3, <1>4, <1>5, <1>6, <1>7, <1>8, <1>9, <1>10 DEF Next

THEOREM TrafficHolds == Spec => []TrafficInv
<1>1. Init => TrafficInv BY InitTidy
<1>2. TrafficInv /\ [Next]_vars => TrafficInv' BY NextTidy
<1>q. QED BY <1>1, <1>2, PTL DEF Spec

\* Every field keeps its type through every handler, and the event queue its limit,
\* whatever the peers send and in whatever order timers and orphaned slots
\* expire: no function leaves a timer, a buffer or a route record in a state
\* that struct mtp2 or struct adjacent_sp does not have.
THEOREM TypeKept == Spec => []TypeOK
<1>1. TrafficInv => TypeOK BY ShapeIsType DEF TrafficInv, Tidy, TypeOK
<1>q. QED BY <1>1, TrafficHolds, PTL

\* No message is ever in two places or twice in one: not after a changeover, a
\* changeback or a reroute that another one overtakes, a changeover order that
\* is repeated or acknowledges too much, or a failure of the link that the traffic is
\* diverted to (mtp3_move_buffer, mtp3_transmit_buffer, mtp3_changeover,
\* mtp3_forced_reroute, mtp3_controlled_reroute).
THEOREM EveryMessageOnce == Spec => []OneCopy
<1>1. ASSUME TrafficInv PROVE OneCopy
  <2> SUFFICES ASSUME NEW m \in Msg PROVE Cardinality(Copies(ss7, m)) <= 1
    BY DEF OneCopy
  <2>1. Tidy(ss7) BY <1>1 DEF TrafficInv
  <2> DEFINE d == Dpc[m]
             C == Copies(ss7, m)
  <2>2. d \in Dest BY DestAssumption
  <2>3. \A c \in C : \/ \E i \in Link : \E k \in DOMAIN Held(ss7, i) :
                            c = <<i, k>> /\ Held(ss7, i)[k] = m /\ m \in Content(ss7, i)
                     \/ \E sp \in Sp : \E k \in DOMAIN ss7.route[sp][d].q :
                            /\ c = <<sp, k>> /\ ss7.route[sp][d].q[k] = m
                            /\ m \in Range(ss7.route[sp][d].q)
    <3>1. \A i \in Link : Range(Held(ss7, i)) = Content(ss7, i) BY <2>1, HeldOf
    <3>q. QED BY <3>1 DEF Copies, Places, Range
  <2> HIDE DEF C, d
  <2>4. \A i, j \in Link : m \in Content(ss7, i) /\ m \in Content(ss7, j) => i = j
    <3> SUFFICES ASSUME NEW i \in Link, NEW j \in Link, i # j,
                        m \in Content(ss7, i), m \in Content(ss7, j)
                 PROVE  FALSE
      OBVIOUS
    <3>1. PICK f \in BufferField : m \in Range(ss7[f][i]) BY DEF Content
    <3>2. PICK g \in BufferField : m \in Range(ss7[g][j]) BY DEF Content
    <3> DEFINE p == <<"link", i, f>>
               q == <<"link", j, g>>
    <3>3. p \in Place /\ q \in Place /\ p # q /\ Box(ss7, p) = ss7[f][i] /\ Box(ss7, q) = ss7[g][j]
      BY PlaceOf
    <3>q. QED BY <2>1, <3>1, <3>2, <3>3 DEF Tidy, Apart
  <2>5. \A i \in Link, sp \in Sp : ~(m \in Content(ss7, i) /\ m \in Range(ss7.route[sp][d].q))
    <3> SUFFICES ASSUME NEW i \in Link, NEW sp \in Sp, m \in Content(ss7, i),
                        m \in Range(ss7.route[sp][d].q)
                 PROVE  FALSE
      OBVIOUS
    <3>1. PICK f \in BufferField : m \in Range(ss7[f][i]) BY DEF Content
    <3> DEFINE p == <<"link", i, f>>
               q == <<"route", sp, d>>
    <3>2. /\ p \in Place /\ q \in Place /\ p # q /\ Box(ss7, p) = ss7[f][i]
          /\ Box(ss7, q) = ss7.route[sp][d].q
      BY <2>2, PlaceOf
    <3>q. QED BY <2>1, <3>1, <3>2 DEF Tidy, Apart
  <2>6. \A sp, sq \in Sp : m \in Range(ss7.route[sp][d].q) /\ m \in Range(ss7.route[sq][d].q)
                               => sp = sq
    <3> SUFFICES ASSUME NEW sp \in Sp, NEW sq \in Sp, sp # sq, m \in Range(ss7.route[sp][d].q),
                        m \in Range(ss7.route[sq][d].q)
                 PROVE  FALSE
      OBVIOUS
    <3> DEFINE p == <<"route", sp, d>>
               q == <<"route", sq, d>>
    <3>1. /\ p \in Place /\ q \in Place /\ p # q /\ Box(ss7, p) = ss7.route[sp][d].q
          /\ Box(ss7, q) = ss7.route[sq][d].q
      BY <2>2, PlaceOf
    <3>q. QED BY <2>1, <3>1 DEF Tidy, Apart
  <2>7. \A i \in Link : Plain(Held(ss7, i)) BY <2>1, HeldOf
  <2>8. \A sp \in Sp : Plain(ss7.route[sp][d].q) BY <2>1, <2>2, QueueOf
  <2>9. \A b, c \in C : b = c
    <3> SUFFICES ASSUME NEW b \in C, NEW c \in C PROVE b = c
      OBVIOUS
    <3>1. CASE \E i \in Link : m \in Content(ss7, i)
      <4>1. PICK i \in Link : m \in Content(ss7, i) BY <3>1
      <4>2. PICK k \in DOMAIN Held(ss7, i) : b = <<i, k>> /\ Held(ss7, i)[k] = m
        BY <2>3, <2>4, <2>5, <4>1
      <4>3. PICK l \in DOMAIN Held(ss7, i) : c = <<i, l>> /\ Held(ss7, i)[l] = m
        BY <2>3, <2>4, <2>5, <4>1
      <4>4. k = l BY <2>7, <4>2, <4>3 DEF Plain
      <4>q. QED BY <4>2, <4>3, <4>4
    <3>2. CASE ~ \E i \in Link : m \in Content(ss7, i)
      <4>1. PICK sp \in Sp : \E k \in DOMAIN ss7.route[sp][d].q :
                b = <<sp, k>> /\ ss7.route[sp][d].q[k] = m /\ m \in Range(ss7.route[sp][d].q)
        BY <2>3, <3>2
      <4>2. PICK sq \in Sp : \E l \in DOMAIN ss7.route[sq][d].q :
                c = <<sq, l>> /\ ss7.route[sq][d].q[l] = m /\ m \in Range(ss7.route[sq][d].q)
        BY <2>3, <3>2
      <4>3. sp = sq BY <2>6, <4>1, <4>2
      <4>4. PICK k \in DOMAIN ss7.route[sp][d].q : b = <<sp, k>> /\ ss7.route[sp][d].q[k] = m
        BY <4>1
      <4>5. PICK l \in DOMAIN ss7.route[sp][d].q : c = <<sp, l>> /\ ss7.route[sp][d].q[l] = m
        BY <4>2, <4>3
      <4>6. k = l BY <2>8, <4>4, <4>5 DEF Plain
      <4>q. QED BY <4>4, <4>5, <4>6
    <3>q. QED BY <3>1, <3>2
  <2>10. Cardinality(C) <= 1
    <3>1. CASE C = {} BY <3>1, FS_EmptySet
    <3>2. CASE C # {}
      <4>1. PICK c : c \in C BY <3>2
      <4>2. C = {c} BY <2>9, <4>1
      <4>3. Cardinality({c}) = 1 BY FS_Singleton
      <4>q. QED BY <4>2, <4>3
    <3>q. QED BY <3>1, <3>2
  <2>q. QED BY <2>10 DEF C
<1>q. QED BY <1>1, TrafficHolds, PTL

\* As long as an adjacent SP prohibits a destination, none of the links to it holds a
\* message for it in any buffer: forced rerouting (mtp3.c:639) leaves none
\* behind, and none is put there again by a changeback, an expiring T1, T2, T3
\* or T6, or a new message, in any order (link_available, mtp3.c:186).
THEOREM NothingForProhibited == Spec => []ProhibitedUnused
<1>1. ASSUME TrafficInv PROVE ProhibitedUnused
  <2> SUFFICES ASSUME NEW sp \in Sp, NEW d \in Dest, ss7.route[sp][d].state = "TFP",
                      NEW i \in LinksOf(sp), NEW m \in Msg, Dpc[m] = d, m \in Range(Held(ss7, i))
               PROVE  FALSE
    BY DEF ProhibitedUnused
  <2>1. Tidy(ss7) /\ i \in Link /\ AdjSp[i] = sp BY <1>1 DEF TrafficInv, LinksOf
  <2>2. m \in Content(ss7, i) BY <2>1, HeldOf
  <2>3. PICK f \in BufferField : m \in Range(ss7[f][i]) BY <2>2 DEF Content
  <2>4. Range(ss7[f][i]) \cap MessagesFor(d) = {} BY <2>1 DEF Tidy, Barred
  <2>q. QED BY <2>3, <2>4 DEF MessagesFor
<1>q. QED BY <1>1, TrafficHolds, PTL

===============================================================================
