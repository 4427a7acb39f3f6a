---------------------------- MODULE Mtp2PairProofs ----------------------------
(***************************************************************************)
(* Two links in service that give messages one way over a line that loses  *)
(* signal units: for any modulus, any number of messages fewer of which    *)
(* are outstanding than there are sequence numbers, any losses and any     *)
(* failed writes, every message arrives once and in order, and none that   *)
(* is still needed is freed.                                               *)
(***************************************************************************)
EXTENDS Mtp2Pair, Mtp2Proofs

-------------------------------------------------------------------------------
(* Sequence numbers. *)

\* The sequence number of the n-th message; before the first it is 127.
Num(n) == (n + LastSeq) % SeqMod

LEMMA NumType ==
    ASSUME NEW n \in Nat
    PROVE  Num(n) \in Seq7
BY SeqModAssumption DEF Num, Seq7, LastSeq

LEMMA NumFirst == Num(0) = LastSeq
BY SeqModAssumption DEF Num, LastSeq

\* Fewer than a modulus of messages have different numbers.
LEMMA NumInjective ==
    ASSUME NEW n \in Nat, NEW m \in Nat, n <= m, m < n + SeqMod, Num(n) = Num(m)
    PROVE  n = m
<1> DEFINE p == (n + LastSeq) \div SeqMod
           q == (m + LastSeq) \div SeqMod
           r == Num(n)
<1>1. SeqMod \in Nat \ {0} /\ LastSeq \in Nat BY SeqModAssumption DEF LastSeq
<1>2. /\ p \in Int /\ q \in Int /\ r \in Nat
      /\ n + LastSeq = SeqMod * p + r /\ m + LastSeq = SeqMod * q + r
  BY <1>1 DEF Num
<1> HIDE DEF p, q, r
<1>3. m - n = SeqMod * (q - p) BY <1>1, <1>2
<1>4. CASE q - p >= 1
  <2>1. SeqMod * (q - p) >= SeqMod BY <1>1, <1>2, <1>4
  <2>q. QED BY <1>1, <1>3, <2>1
<1>5. CASE q - p <= 0
  <2>1. SeqMod * (q - p) <= 0 BY <1>1, <1>2, <1>5
  <2>q. QED BY <1>3, <2>1
<1>q. QED BY <1>2, <1>4, <1>5

LEMMA Remains ==
    ASSUME NEW x \in Int, NEW k \in Int, NEW a \in 0 .. SeqMod - 1, x = SeqMod * k + a
    PROVE  x % SeqMod = a
BY SeqModAssumption

LEMMA NumNext ==
    ASSUME NEW n \in Nat
    PROVE  (Num(n) + 1) % SeqMod = Num(n + 1)
<1> DEFINE p == (n + LastSeq) \div SeqMod
           r == Num(n)
<1>1. SeqMod \in Nat \ {0} /\ LastSeq \in Nat BY SeqModAssumption DEF LastSeq
<1>2. p \in Int /\ r \in 0 .. SeqMod - 1 /\ n + LastSeq = SeqMod * p + r BY <1>1 DEF Num
<1> HIDE DEF p, r
<1>3. (n + 1) + LastSeq = SeqMod * p + (r + 1) /\ (n + 1) + LastSeq \in Int
  BY <1>1, <1>2
<1>4. CASE r + 1 < SeqMod
  <2>1. (r + 1) % SeqMod = r + 1 BY <1>1, <1>2, <1>4
  <2>2. r + 1 \in 0 .. SeqMod - 1 BY <1>1, <1>2, <1>4
  <2>3. ((n + 1) + LastSeq) % SeqMod = r + 1 BY <1>2, <1>3, <2>2, Remains
  <2>q. QED BY <2>1, <2>3 DEF Num, r
<1>5. CASE r + 1 = SeqMod
  <2>1. (r + 1) % SeqMod = 0 BY <1>1, <1>5
  <2>2. (n + 1) + LastSeq = SeqMod * (p + 1) + 0 BY <1>1, <1>2, <1>3, <1>5
  <2>3. 0 \in 0 .. SeqMod - 1 /\ p + 1 \in Int BY <1>1, <1>2
  <2>4. ((n + 1) + LastSeq) % SeqMod = 0 BY <1>3, <2>2, <2>3, Remains
  <2>q. QED BY <2>1, <2>4 DEF Num, r
<1>6. r + 1 < SeqMod \/ r + 1 = SeqMod BY <1>1, <1>2
<1>q. QED BY <1>4, <1>5, <1>6

-------------------------------------------------------------------------------
(* The two links. *)

\* What a run counts up: messages given, sent, acknowledged and delivered, and
\* the one the sender sends next.
Numbers(g, sent, acked, had, front) ==
    /\ acked <= had /\ had < front /\ front <= sent + 1 /\ sent <= g
    /\ g - acked < SeqMod

InService(l) ==
    l.state = "INSERVICE" /\ l.lastsurxd = "FISU" /\ l.autotxsutype = "FISU"

\* The transmission buffer lists the messages acked + 1 .. sent, newest first.
Saved(buf, sent, acked) ==
    /\ Len(buf) = sent - acked
    /\ \A i \in 1 .. sent - acked :
         buf[i] = [msu |-> (sent - i) + 1, fsn |-> Num((sent - i) + 1), bib |-> 1]

\* The queue lists the messages sent + 1 .. g, oldest first.
Waiting(q, g, sent) ==
    Len(q) = g - sent /\ \A i \in 1 .. g - sent : q[i] = sent + i

\* The link that gets the messages of MTP3 and sends them; y is its FIB.
Sender(l, g, sent, acked, front, y) ==
    /\ InService(l)
    /\ l.curbib = 1 /\ l.lastfsnacked = LastSeq
    /\ l.curfib = y /\ l.curfsn = Num(sent)
    /\ Waiting(l.tx_q, g, sent) /\ Saved(l.tx_buf, sent, acked)
    /\ l.retransmit_pos = IF front = sent + 1 THEN NoMsu ELSE front

\* The link that receives them and has none of its own; x is its BIB.
Receiver(l, had, x) ==
    /\ InService(l)
    /\ l.curfib = 1 /\ l.curfsn = LastSeq
    /\ l.curbib = x /\ l.lastfsnacked = Num(had)
    /\ l.tx_q = <<>> /\ l.tx_buf = <<>> /\ l.retransmit_pos = NoMsu

\* Links that differ in nothing that data transfer depends on.
SameData(l, r) ==
    /\ r.state = l.state /\ r.lastsurxd = l.lastsurxd
    /\ r.autotxsutype = l.autotxsutype
    /\ r.curfsn = l.curfsn /\ r.curfib = l.curfib
    /\ r.lastfsnacked = l.lastfsnacked /\ r.curbib = l.curbib
    /\ r.tx_q = l.tx_q /\ r.tx_buf = l.tx_buf
    /\ r.retransmit_pos = l.retransmit_pos

LEMMA SameSender ==
    ASSUME NEW l, NEW r, SameData(l, r), NEW g, NEW sent, NEW acked, NEW front, NEW y,
           Sender(l, g, sent, acked, front, y)
    PROVE  Sender(r, g, sent, acked, front, y)
BY DEF SameData, Sender, InService

LEMMA SameReceiver ==
    ASSUME NEW l, NEW r, SameData(l, r), NEW had, NEW x, Receiver(l, had, x)
    PROVE  Receiver(r, had, x)
BY DEF SameData, Receiver, InService

\* Timers, events and the wish to write are no data.
LEMMA OutOfBand ==
    ASSUME NEW l \in Link
    PROVE  /\ SameData(l, StartTimer(l, "t7")) /\ SameData(l, StopTimer(l, "t7"))
           /\ \A b \in BOOLEAN : SameData(l, [l EXCEPT !.write = b])
           /\ \A e : SameData(l, [l EXCEPT !.ev = e])
BY DEF Link, SameData, StartTimer, StopTimer

\* mtp2_msu
LEMMA SenderGives ==
    ASSUME NEW l \in Link, NEW g \in Nat, NEW sent \in Nat, NEW acked \in Nat,
           NEW front \in Nat, NEW y, Sender(l, g, sent, acked, front, y), sent <= g,
           g + 1 \in Msu
    PROVE  Sender(Mtp2Msu(l, g + 1), g + 1, sent, acked, front, y)
<1> DEFINE q == Append(l.tx_q, g + 1)
           r == Mtp2Msu(l, g + 1)
<1>1. l.tx_q \in Seq(Msu) BY DEF Link
<1>2. /\ Len(q) = Len(l.tx_q) + 1 /\ q[Len(l.tx_q) + 1] = g + 1
      /\ \A i \in 1 .. Len(l.tx_q) : q[i] = l.tx_q[i]
  BY <1>1, AppendProperties
<1>3. Len(q) = (g + 1) - sent /\ \A i \in 1 .. (g + 1) - sent : q[i] = sent + i
  <2>1. Len(l.tx_q) = g - sent /\ \A i \in 1 .. g - sent : l.tx_q[i] = sent + i
    BY DEF Sender, Waiting
  <2> HIDE DEF q
  <2>2. ASSUME NEW i \in 1 .. (g + 1) - sent PROVE q[i] = sent + i
    <3>1. CASE i = (g + 1) - sent BY <1>2, <2>1, <3>1
    <3>2. CASE i # (g + 1) - sent
      <4>1. i \in 1 .. g - sent BY <3>2
      <4>q. QED BY <1>2, <2>1, <4>1
    <3>q. QED BY <3>1, <3>2
  <2>q. QED BY <1>2, <2>1, <2>2
<1>4. /\ r.tx_q = q /\ r.state = l.state /\ r.lastsurxd = l.lastsurxd
      /\ r.autotxsutype = l.autotxsutype
      /\ r.curfsn = l.curfsn /\ r.curfib = l.curfib
      /\ r.lastfsnacked = l.lastfsnacked /\ r.curbib = l.curbib
      /\ r.tx_buf = l.tx_buf /\ r.retransmit_pos = l.retransmit_pos
  BY DEF Mtp2Msu, Link
<1> HIDE DEF q, r
<1>5. Sender(r, g + 1, sent, acked, front, y) BY <1>3, <1>4 DEF Sender, InService, Waiting
<1>q. QED BY <1>5 DEF r

LEMMA SavedAt ==
    ASSUME NEW buf, NEW sent, NEW acked, Saved(buf, sent, acked),
           NEW i \in 1 .. sent - acked
    PROVE  /\ buf[i].msu = (sent - i) + 1 /\ buf[i].fsn = Num((sent - i) + 1)
           /\ buf[i].bib = 1
<1> DEFINE m == (sent - i) + 1
<1>1. buf[i] = [msu |-> m, fsn |-> Num(m), bib |-> 1] BY DEF Saved
<1> HIDE DEF m
<1>2. buf[i].msu = m /\ buf[i].fsn = Num(m) /\ buf[i].bib = 1 BY <1>1
<1>q. QED BY <1>2 DEF m

LEMMA WhereSaved ==
    ASSUME NEW buf \in Seq(TxMsu), NEW sent \in Nat, NEW acked \in Nat,
           Saved(buf, sent, acked), NEW p \in acked + 1 .. sent
    PROVE  /\ {i \in DOMAIN buf : buf[i].msu = p} = {(sent - p) + 1}
           /\ (sent - p) + 1 \in 1 .. sent - acked
           /\ buf[(sent - p) + 1] = [msu |-> p, fsn |-> Num(p), bib |-> 1]
           /\ NextNewer(buf, p) = IF p = sent THEN NoMsu ELSE p + 1
<1> DEFINE at == {i \in DOMAIN buf : buf[i].msu = p}
           k  == (sent - p) + 1
<1>1. DOMAIN buf = 1 .. sent - acked BY LenProperties DEF Saved
<1>2. \A i \in 1 .. sent - acked : buf[i].msu = (sent - i) + 1 BY SavedAt
<1>3. k \in 1 .. sent - acked OBVIOUS
<1>4. at = {k}
  <2>1. ASSUME NEW i \in at PROVE i = k
    <3>1. i \in 1 .. sent - acked /\ (sent - i) + 1 = p BY <1>1, <1>2, <2>1
    <3>q. QED BY <3>1
  <2>2. (sent - k) + 1 = p OBVIOUS
  <2>3. k \in at BY <1>1, <1>2, <1>3, <2>2
  <2>q. QED BY <2>1, <2>3
<1>5. Least({k}) = k BY <1>3, LeastExists
<1>6. NextNewer(buf, p) = IF k = 1 THEN NoMsu ELSE buf[k - 1].msu
  <2> HIDE DEF k
  <2>q. QED BY <1>4, <1>5 DEF NextNewer
<1>7. k # 1 => buf[k - 1].msu = p + 1
  <2>1. HAVE k # 1
  <2>2. k - 1 \in 1 .. sent - acked BY <1>3, <2>1
  <2>3. buf[k - 1].msu = (sent - (k - 1)) + 1 BY <1>2, <2>2
  <2>q. QED BY <2>3
<1>8. buf[k] = [msu |-> p, fsn |-> Num(p), bib |-> 1]
  <2>1. (sent - k) + 1 = p OBVIOUS
  <2>q. QED BY <1>3, <2>1 DEF Saved
<1>q. QED BY <1>3, <1>4, <1>6, <1>7, <1>8

LEMMA SavedOne ==
    ASSUME NEW buf \in Seq(TxMsu), NEW sent \in Nat, NEW acked \in Nat, acked <= sent,
           Saved(buf, sent, acked),
           NEW new \in TxMsu, new = [msu |-> sent + 1, fsn |-> Num(sent + 1), bib |-> 1]
    PROVE  Saved(<<new>> \o buf, sent + 1, acked)
<1> DEFINE b == <<new>> \o buf
<1>1. <<new>> \in Seq(TxMsu) /\ Len(<<new>>) = 1 /\ <<new>>[1] = new OBVIOUS
<1>2. /\ Len(b) = 1 + Len(buf)
      /\ \A i \in 1 .. 1 + Len(buf) : b[i] = IF i <= 1 THEN new ELSE buf[i - 1]
  <2>1. \A i \in 1 .. 1 + Len(buf) : i <= 1 => i = 1 BY LenProperties
  <2> HIDE DEF b
  <2>2. b = <<new>> \o buf BY DEF b
  <2>q. QED BY <1>1, <2>1, <2>2, ConcatProperties
<1> HIDE DEF b
<1>3. Len(buf) = sent - acked BY DEF Saved
<1>4. ASSUME NEW i \in 1 .. (sent + 1) - acked
      PROVE  b[i] = [msu |-> ((sent + 1) - i) + 1, fsn |-> Num(((sent + 1) - i) + 1), bib |-> 1]
  <2>1. CASE i = 1
    <3>1. ((sent + 1) - i) + 1 = sent + 1 BY <2>1
    <3>q. QED BY <1>2, <1>3, <2>1, <3>1
  <2>2. CASE i # 1
    <3>1. i - 1 \in 1 .. sent - acked /\ i \in 1 .. 1 + Len(buf) /\ ~(i <= 1)
      BY <1>3, <2>2
    <3>2. b[i] = buf[i - 1] BY <1>2, <3>1
    <3>3. (sent - (i - 1)) + 1 = ((sent + 1) - i) + 1 OBVIOUS
    <3>q. QED BY <3>1, <3>2, <3>3 DEF Saved
  <2>q. QED BY <2>1, <2>2
<1>5. Len(b) = (sent + 1) - acked BY <1>2, <1>3
<1>6. Saved(b, sent + 1, acked) BY <1>4, <1>5 DEF Saved
<1>q. QED BY <1>6 DEF b

LEMMA WaitingRest ==
    ASSUME NEW q \in Seq(Msu), NEW g \in Nat, NEW sent \in Nat, Waiting(q, g, sent), sent < g
    PROVE  q # <<>> /\ Head(q) = sent + 1 /\ Waiting(Tail(q), g, sent + 1)
<1>1. Len(q) = g - sent /\ \A i \in 1 .. g - sent : q[i] = sent + i BY DEF Waiting
<1>2. q # <<>> BY <1>1, EmptySeq
<1>3. Head(q) = sent + 1
  <2>1. 1 \in 1 .. g - sent OBVIOUS
  <2>2. q[1] = sent + 1 BY <1>1, <2>1
  <2>3. Head(q) = q[1] OBVIOUS
  <2>q. QED BY <2>2, <2>3
<1>4. /\ Len(Tail(q)) = Len(q) - 1
      /\ \A i \in 1 .. Len(Tail(q)) : Tail(q)[i] = q[i + 1]
  BY <1>2, HeadTailProperties
<1>5. ASSUME NEW i \in 1 .. g - (sent + 1) PROVE Tail(q)[i] = (sent + 1) + i
  <2>1. i \in 1 .. Len(Tail(q)) /\ i + 1 \in 1 .. g - sent BY <1>1, <1>4
  <2>2. q[i + 1] = sent + (i + 1) BY <1>1, <2>1
  <2>q. QED BY <1>4, <2>1, <2>2
<1>6. Len(Tail(q)) = g - (sent + 1) BY <1>1, <1>4
<1>q. QED BY <1>2, <1>3, <1>5, <1>6 DEF Waiting

\* The signal unit the sender writes: the n-th message, or a FISU that says the
\* n-th was the last.
Unit(kind, n, y, m) ==
    [su  |-> [kind |-> kind, fsn |-> Num(n), fib |-> y, bsn |-> LastSeq, bib |-> 1],
     msu |-> m]

\* mtp2_transmit at the sender sends a message again.
LEMMA SenderRepeats ==
    ASSUME NEW l \in Link, NEW ok \in BOOLEAN,
           NEW g \in Nat, NEW sent \in Nat, NEW acked \in Nat, NEW had \in Nat,
           NEW front \in Nat, NEW y,
           Numbers(g, sent, acked, had, front), Sender(l, g, sent, acked, front, y),
           front <= sent
    PROVE  LET r == Transmit(l, ok)
           IN  /\ Sender(r, g, sent, acked, IF ok THEN front + 1 ELSE front, y)
               /\ WrittenSus(l, r) = {Unit("MSU", front, y, front)}
<1> DEFINE r == Transmit(l, ok)
           k == (sent - front) + 1
           next == IF front = sent THEN NoMsu ELSE front + 1
<1>1. l.tx_buf \in Seq(TxMsu) BY DEF Link
<1>2. acked <= had /\ had < front /\ front \in acked + 1 .. sent /\ front # sent + 1
  BY DEF Numbers
<1>3. Saved(l.tx_buf, sent, acked) /\ l.retransmit_pos = front BY <1>2 DEF Sender
<1>4. front # NoMsu BY <1>2, MsgAssumption
<1>5. /\ {i \in DOMAIN l.tx_buf : l.tx_buf[i].msu = front} = {k}
      /\ k \in 1 .. sent - acked
      /\ l.tx_buf[k] = [msu |-> front, fsn |-> Num(front), bib |-> 1]
      /\ NextNewer(l.tx_buf, front) = next
  BY <1>1, <1>2, <1>3, WhereSaved
<1> HIDE DEF k
<1>6. r = IF ok THEN [l EXCEPT !.retransmit_pos = next] ELSE l
  BY <1>3, <1>4, <1>5 DEF Transmit, TransmitOld
<1> HIDE DEF r
<1>7. r.curfib = y /\ r.lastfsnacked = LastSeq
  BY <1>6 DEF Link, Sender
<1>8. Least({k}) = k BY <1>5, LeastExists
<1>9. WrittenSus(l, r) = {Unit("MSU", front, y, front)}
  <2>1. /\ {i \in DOMAIN l.tx_buf : l.tx_buf[i].msu = l.retransmit_pos} = {k}
        /\ l.retransmit_pos # NoMsu
    BY <1>3, <1>4, <1>5
  <2> DEFINE kept == {i \in DOMAIN l.tx_buf : l.tx_buf[i].msu = l.retransmit_pos}
             all  == {[su |-> Header(r, "MSU", n, b), msu |-> m] :
                          n \in Seq7, b \in Bit, m \in Msu}
             F(i) == [su |-> Header(r, "MSU", l.tx_buf[i].fsn, l.tx_buf[i].bib),
                      msu |-> l.retransmit_pos]
  <2>0. WrittenSus(l, r) = IF kept = {} THEN all ELSE {F(i) : i \in {Least(kept)}}
    BY <2>1 DEF WrittenSus
  <2> HIDE DEF all, kept
  <2>2. WrittenSus(l, r) = {F(i) : i \in {Least({k})}}
    BY <2>0, <2>1 DEF kept
  <2>3. WrittenSus(l, r) = {[su |-> Header(r, "MSU", l.tx_buf[k].fsn, l.tx_buf[k].bib),
                             msu |-> l.retransmit_pos]}
    BY <1>8, <2>2
  <2>4. Header(r, "MSU", l.tx_buf[k].fsn, l.tx_buf[k].bib) =
          [kind |-> "MSU", fsn |-> Num(front), fib |-> y, bsn |-> LastSeq, bib |-> 1]
    BY <1>5, <1>7 DEF Header
  <2>q. QED BY <1>3, <2>3, <2>4 DEF Unit
<1>10. CASE ok
  <2>1. r = [l EXCEPT !.retransmit_pos = next] BY <1>6, <1>10
  <2>2. next = IF front + 1 = sent + 1 THEN NoMsu ELSE front + 1 OBVIOUS
  <2> HIDE DEF next
  <2>3. Sender(r, g, sent, acked, front + 1, y)
    BY <2>1, <2>2 DEF Link, Sender, InService
  <2>q. QED BY <1>9, <1>10, <2>3 DEF r
<1>11. CASE ~ok
  <2>q. QED BY <1>6, <1>9, <1>11 DEF r
<1>q. QED BY <1>10, <1>11

\* mtp2_transmit at the sender sends the next message.
LEMMA SenderSends ==
    ASSUME NEW l \in Link, NEW ok \in BOOLEAN,
           NEW g \in Nat, NEW sent \in Nat, NEW acked \in Nat, NEW had \in Nat,
           NEW front \in Nat, NEW y,
           Numbers(g, sent, acked, had, front), Sender(l, g, sent, acked, front, y),
           front = sent + 1, sent < g
    PROVE  LET r == Transmit(l, ok)
           IN  /\ Sender(r, g, sent + 1, acked, IF ok THEN front + 1 ELSE front, y)
               /\ WrittenSus(l, r) = {Unit("MSU", front, y, front)}
<1> DEFINE r    == Transmit(l, ok)
           fsn  == (l.curfsn + 1) % SeqMod
           new  == [msu |-> Head(l.tx_q), fsn |-> fsn, bib |-> l.curbib]
           buf  == <<new>> \o l.tx_buf
           pos  == IF ok THEN l.retransmit_pos ELSE Head(l.tx_q)
           rest == Tail(l.tx_q)
           s    == [l EXCEPT !.curfsn = fsn, !.write = TRUE, !.tx_q = rest,
                             !.tx_buf = buf, !.retransmit_pos = pos]
<1>1. /\ l.tx_buf \in Seq(TxMsu) /\ l.tx_q \in Seq(Msu) /\ l.curfsn \in Seq7
      /\ l.curbib \in Bit
  BY DEF Link
<1>2. /\ l.retransmit_pos = NoMsu /\ l.curfsn = Num(sent) /\ l.curbib = 1 /\ l.curfib = y
      /\ l.lastfsnacked = LastSeq
      /\ Waiting(l.tx_q, g, sent) /\ Saved(l.tx_buf, sent, acked) /\ InService(l)
  BY DEF Sender
<1>3. l.tx_q # <<>> /\ Head(l.tx_q) = sent + 1 /\ Waiting(rest, g, sent + 1)
  BY <1>1, <1>2, WaitingRest
<1>4. fsn = Num(sent + 1) BY <1>2, NumNext
<1>5. new \in TxMsu
  <2>1. Head(l.tx_q) \in Msu BY <1>1, <1>3, HeadTailProperties
  <2>2. fsn \in Seq7 BY <1>4, NumType
  <2>q. QED BY <1>1, <2>1, <2>2 DEF TxMsu
<1>6. new = [msu |-> sent + 1, fsn |-> Num(sent + 1), bib |-> 1] BY <1>2, <1>3, <1>4
<1> HIDE DEF new
<1>7. Saved(buf, sent + 1, acked)
  <2>1. acked <= sent BY DEF Numbers
  <2>q. QED BY <1>1, <1>2, <1>5, <1>6, <2>1, SavedOne
<1>8. pos = IF (IF ok THEN front + 1 ELSE front) = (sent + 1) + 1 THEN NoMsu
            ELSE IF ok THEN front + 1 ELSE front
  BY <1>2, <1>3
<1>9. r = IF l.tm.id["t7"] = -1 THEN StartTimer(s, "t7") ELSE s
  BY <1>2, <1>3 DEF Transmit, TransmitNew, new
<1>10. s \in Link
  <2>1. fsn \in Seq7 BY <1>4, NumType
  <2>2. buf \in Seq(TxMsu)
    <3>1. <<new>> \in Seq(TxMsu) BY <1>5
    <3>q. QED BY <1>1, <3>1, ConcatProperties
  <2>3. rest \in Seq(Msu) /\ Head(l.tx_q) \in Msu BY <1>1, <1>3, HeadTailProperties
  <2>4. pos \in Msu \cup {NoMsu} BY <1>2, <2>3
  <2> HIDE DEF fsn, buf, pos, rest
  <2>q. QED BY <2>1, <2>2, <2>3, <2>4 DEF Link
<1> HIDE DEF fsn, buf, pos, rest
<1>11. Sender(s, g, sent + 1, acked, IF ok THEN front + 1 ELSE front, y)
  BY <1>2, <1>3, <1>4, <1>7, <1>8 DEF Link, Sender, InService
<1>12. SameData(s, r)
  <2> HIDE DEF s
  <2>1. SameData(s, StartTimer(s, "t7")) BY <1>10, OutOfBand
  <2>2. SameData(s, s) BY DEF SameData
  <2>q. QED BY <1>9, <2>1, <2>2
<1> HIDE DEF s, r
<1>13. Sender(r, g, sent + 1, acked, IF ok THEN front + 1 ELSE front, y)
  BY <1>11, <1>12, SameSender
<1>14. WrittenSus(l, r) = {Unit("MSU", front, y, front)}
  <2>1. WrittenSus(l, r) = {[su |-> Header(r, "MSU", r.curfsn, r.curbib), msu |-> Head(l.tx_q)]}
    BY <1>2, <1>3 DEF WrittenSus
  <2>2. r.curfsn = Num(sent + 1) /\ r.curbib = 1 /\ r.curfib = y /\ r.lastfsnacked = LastSeq
    BY <1>13 DEF Sender
  <2>3. Header(r, "MSU", r.curfsn, r.curbib) =
          [kind |-> "MSU", fsn |-> Num(front), fib |-> y, bsn |-> LastSeq, bib |-> 1]
    BY <2>2 DEF Header
  <2>q. QED BY <1>3, <2>1, <2>3 DEF Unit
<1>q. QED BY <1>13, <1>14 DEF r

\* mtp2_transmit at the sender has nothing to send but a FISU.
LEMMA SenderIdles ==
    ASSUME NEW l \in Link, NEW ok \in BOOLEAN,
           NEW g \in Nat, NEW sent \in Nat, NEW acked \in Nat, NEW had \in Nat,
           NEW front \in Nat, NEW y,
           Numbers(g, sent, acked, had, front), Sender(l, g, sent, acked, front, y),
           front = sent + 1, sent = g
    PROVE  LET r == Transmit(l, ok)
           IN  /\ Sender(r, g, sent, acked, front, y)
               /\ WrittenSus(l, r) = {Unit("FISU", sent, y, NoMsu)}
<1> DEFINE r == Transmit(l, ok)
<1>1. /\ l.retransmit_pos = NoMsu /\ InService(l) /\ Waiting(l.tx_q, g, sent)
  BY DEF Sender
<1>2. l.tx_q = <<>>
  <2>1. l.tx_q \in Seq(Msu) BY DEF Link
  <2>2. Len(l.tx_q) = 0 BY <1>1 DEF Waiting
  <2>q. QED BY <2>1, <2>2, EmptySeq
<1>3. r = IF ok THEN [l EXCEPT !.write = FALSE] ELSE l
  BY <1>1, <1>2 DEF Transmit, TransmitFill, InService
<1>4. SameData(l, r)
  <2>1. SameData(l, [l EXCEPT !.write = FALSE]) BY OutOfBand
  <2>2. SameData(l, l) BY DEF SameData
  <2>q. QED BY <1>3, <2>1, <2>2
<1> HIDE DEF r
<1>5. Sender(r, g, sent, acked, front, y) BY <1>4, SameSender
<1>6. WrittenSus(l, r) = {Unit("FISU", sent, y, NoMsu)}
  <2>1. WrittenSus(l, r) = {[su |-> Header(r, "FISU", r.curfsn, r.curbib), msu |-> NoMsu]}
    BY <1>1, <1>2 DEF WrittenSus, InService
  <2>2. r.curfsn = Num(sent) /\ r.curbib = 1 /\ r.curfib = y /\ r.lastfsnacked = LastSeq
    BY <1>5 DEF Sender
  <2>3. Header(r, "FISU", r.curfsn, r.curbib) =
          [kind |-> "FISU", fsn |-> Num(sent), fib |-> y, bsn |-> LastSeq, bib |-> 1]
    BY <2>2 DEF Header
  <2>q. QED BY <2>1, <2>3 DEF Unit
<1>q. QED BY <1>5, <1>6 DEF r

\* The one unit written when the link goes from l to r: a message not before
\* front, or a FISU.
Goes(l, r, y, front, front2, sent2) ==
    \E kind \in {"MSU", "FISU"}, n \in front - 1 .. front2 - 1, m \in 0 .. sent2 :
        /\ kind = "MSU" => n >= front /\ m = n
        /\ WrittenSus(l, r) = {Unit(kind, n, y, m)}

\* Whatever the sender writes, sent and front do not go back.
LEMMA SenderWrites ==
    ASSUME NEW l \in Link, NEW ok \in BOOLEAN,
           NEW g \in Nat, NEW sent \in Nat, NEW acked \in Nat, NEW had \in Nat,
           NEW front \in Nat, NEW y,
           Numbers(g, sent, acked, had, front), Sender(l, g, sent, acked, front, y)
    PROVE  \E sent2, front2 \in Nat :
             /\ sent <= sent2 /\ sent2 <= g /\ front <= front2 /\ front2 <= sent2 + 1
             /\ Sender(Transmit(l, ok), g, sent2, acked, front2, y)
             /\ ok => Goes(l, Transmit(l, ok), y, front, front2, sent2)
<1> DEFINE r == Transmit(l, ok)
           next == IF ok THEN front + 1 ELSE front
<1>1. front <= sent + 1 /\ sent <= g BY DEF Numbers
<1>2. /\ next \in Nat /\ front <= next /\ next <= front + 1
      /\ ok => next = front + 1
  OBVIOUS
<1>3. ASSUME front <= sent
      PROVE  Sender(r, g, sent, acked, next, y) /\ WrittenSus(l, r) = {Unit("MSU", front, y, front)}
  BY <1>3, SenderRepeats
<1>4. ASSUME front = sent + 1, sent < g
      PROVE  /\ Sender(r, g, sent + 1, acked, next, y)
             /\ WrittenSus(l, r) = {Unit("MSU", front, y, front)}
  BY <1>4, SenderSends
<1>5. ASSUME front = sent + 1, sent = g
      PROVE  Sender(r, g, sent, acked, front, y) /\ WrittenSus(l, r) = {Unit("FISU", sent, y, NoMsu)}
  BY <1>5, SenderIdles
<1> HIDE DEF r, next
<1>6. ASSUME NEW sent2 \in Nat, front <= sent2, ok,
             WrittenSus(l, r) = {Unit("MSU", front, y, front)}
      PROVE  Goes(l, r, y, front, next, sent2)
  <2>1. front \in front - 1 .. next - 1 /\ front \in 0 .. sent2 BY <1>2, <1>6
  <2>q. QED BY <1>6, <2>1 DEF Goes
<1>7. CASE front <= sent
  <2>1. ok => Goes(l, r, y, front, next, sent) BY <1>3, <1>6, <1>7
  <2>q. QED BY <1>1, <1>2, <1>3, <1>7, <2>1 DEF r
<1>8. CASE front = sent + 1 /\ sent < g
  <2>1. sent + 1 \in Nat /\ front <= sent + 1 /\ sent <= sent + 1 /\ sent + 1 <= g
        /\ next <= (sent + 1) + 1
    BY <1>2, <1>8
  <2>2. ok => Goes(l, r, y, front, next, sent + 1) BY <1>4, <1>6, <1>8, <2>1
  <2>q. QED BY <1>2, <1>4, <1>8, <2>1, <2>2 DEF r
<1>9. CASE front = sent + 1 /\ sent = g
  <2>1. Goes(l, r, y, front, front, sent)
    <3>1. sent \in front - 1 .. front - 1 /\ NoMsu \in 0 .. sent BY <1>9, MsgAssumption
    <3>2. WrittenSus(l, r) = {Unit("FISU", sent, y, NoMsu)} BY <1>5, <1>9
    <3>q. QED BY <3>1, <3>2 DEF Goes
  <2>q. QED BY <1>1, <1>5, <1>9, <2>1 DEF r
<1>10. front <= sent \/ (front = sent + 1 /\ sent < g) \/ (front = sent + 1 /\ sent = g)
  BY <1>1
<1>q. QED BY <1>7, <1>8, <1>9, <1>10

\* The unit the receiver writes: it has nothing to send, and acknowledges.
Ack(n, x) ==
    [su  |-> [kind |-> "FISU", fsn |-> LastSeq, fib |-> 1, bsn |-> Num(n), bib |-> x],
     msu |-> NoMsu]

\* mtp2_transmit at the receiver
LEMMA ReceiverWrites ==
    ASSUME NEW l \in Link, NEW ok \in BOOLEAN, NEW had \in Nat, NEW x, Receiver(l, had, x)
    PROVE  LET r == Transmit(l, ok)
           IN  Receiver(r, had, x) /\ WrittenSus(l, r) = {Ack(had, x)}
<1> DEFINE r == Transmit(l, ok)
<1>1. l.retransmit_pos = NoMsu /\ l.tx_q = <<>> /\ InService(l) BY DEF Receiver
<1>2. r = IF ok THEN [l EXCEPT !.write = FALSE] ELSE l
  BY <1>1 DEF Transmit, TransmitFill, InService
<1>3. SameData(l, r)
  <2>1. SameData(l, [l EXCEPT !.write = FALSE]) BY OutOfBand
  <2>2. SameData(l, l) BY DEF SameData
  <2>q. QED BY <1>2, <2>1, <2>2
<1> HIDE DEF r
<1>4. Receiver(r, had, x) BY <1>3, SameReceiver
<1>5. WrittenSus(l, r) = {[su |-> Header(r, "FISU", r.curfsn, r.curbib), msu |-> NoMsu]}
  BY <1>1 DEF WrittenSus, InService
<1>6. Header(r, "FISU", r.curfsn, r.curbib) =
        [kind |-> "FISU", fsn |-> LastSeq, fib |-> 1, bsn |-> Num(had), bib |-> x]
  BY <1>4 DEF Header, Receiver
<1>q. QED BY <1>4, <1>5, <1>6 DEF r, Ack

-------------------------------------------------------------------------------
(* Reception. *)

\* Where the buffer holds messages with a sequence number.
Hits(buf, fsn) == {i \in DOMAIN buf : buf[i].fsn = fsn}

\* The n-th message is the only one saved with its number.
LEMMA Acknowledged ==
    ASSUME NEW buf \in Seq(TxMsu), NEW sent \in Nat, NEW acked \in Nat,
           Saved(buf, sent, acked), sent - acked < SeqMod,
           NEW n \in acked .. sent
    PROVE  Hits(buf, Num(n)) = IF n = acked THEN {} ELSE {(sent - n) + 1}
<1> DEFINE hits == {i \in DOMAIN buf : buf[i].fsn = Num(n)}
<1>1. DOMAIN buf = 1 .. sent - acked BY LenProperties DEF Saved
<1>2. \A i \in 1 .. sent - acked : buf[i].fsn = Num((sent - i) + 1) BY SavedAt
<1>3. ASSUME NEW i \in hits PROVE (sent - i) + 1 = n
  <2> DEFINE m == (sent - i) + 1
  <2>1. i \in 1 .. sent - acked /\ Num(m) = Num(n) BY <1>1, <1>2, <1>3
  <2>2. m \in acked + 1 .. sent BY <2>1
  <2> HIDE DEF m
  <2>3. m \in Nat /\ n \in Nat /\ m < n + SeqMod /\ n < m + SeqMod
    BY <2>2, SeqModAssumption
  <2>4. CASE n <= m
    <3>1. n = m BY <2>1, <2>3, <2>4, NumInjective
    <3>q. QED BY <3>1 DEF m
  <2>5. CASE m <= n
    <3>1. m = n BY <2>1, <2>3, <2>5, NumInjective
    <3>q. QED BY <3>1 DEF m
  <2>q. QED BY <2>3, <2>4, <2>5
<1>4. CASE n = acked
  <2>1. ASSUME NEW i \in hits PROVE FALSE
    <3>1. i \in 1 .. sent - acked /\ (sent - i) + 1 = n BY <1>1, <1>3, <2>1
    <3>q. QED BY <1>4, <3>1
  <2>q. QED BY <1>4, <2>1 DEF Hits
<1>5. CASE n # acked
  <2> DEFINE k == (sent - n) + 1
  <2>1. k \in 1 .. sent - acked /\ (sent - k) + 1 = n BY <1>5
  <2>2. k \in hits
    <3> HIDE DEF k
    <3>q. QED BY <1>1, <1>2, <2>1
  <2>3. \A i \in hits : i = k
    <3>1. TAKE i \in hits
    <3>2. i \in 1 .. sent - acked /\ (sent - i) + 1 = n BY <1>1, <1>3, <3>1
    <3>q. QED BY <3>2
  <2> HIDE DEF hits
  <2>q. QED BY <1>5, <2>2, <2>3 DEF hits, Hits
<1>q. QED BY <1>4, <1>5

LEMMA SavedLeft ==
    ASSUME NEW buf \in Seq(TxMsu), NEW sent \in Nat, NEW acked \in Nat,
           Saved(buf, sent, acked), NEW n \in acked .. sent
    PROVE  Saved(SubSeq(buf, 1, sent - n), sent, n)
<1> DEFINE left == SubSeq(buf, 1, sent - n)
<1>1. Len(buf) = sent - acked BY DEF Saved
<1>2. \A i \in 1 .. sent - n : i \in 1 .. Len(buf) BY <1>1
<1>3. \A i \in 1 .. sent - n : buf[i] \in TxMsu BY <1>2, ElementOfSeq
<1>4. /\ Len(left) = IF 1 <= sent - n THEN ((sent - n) - 1) + 1 ELSE 0
      /\ \A i \in 1 .. ((sent - n) - 1) + 1 : left[i] = buf[(1 + i) - 1]
  BY <1>3, SubSeqProperties
<1> HIDE DEF left
<1>5. Len(left) = sent - n BY <1>4
<1>6. ASSUME NEW i \in 1 .. sent - n
      PROVE  left[i] = [msu |-> (sent - i) + 1, fsn |-> Num((sent - i) + 1), bib |-> 1]
  <2>1. i \in 1 .. ((sent - n) - 1) + 1 /\ (1 + i) - 1 = i /\ i \in 1 .. sent - acked OBVIOUS
  <2>2. left[i] = buf[i] BY <1>4, <2>1
  <2>q. QED BY <2>1, <2>2 DEF Saved
<1>7. Saved(left, sent, n) BY <1>5, <1>6 DEF Saved
<1>q. QED BY <1>7 DEF left

\* update_txbuf at the sender, for an acknowledgement of the n-th message
LEMMA SenderAcked ==
    ASSUME NEW l \in Link,
           NEW g \in Nat, NEW sent \in Nat, NEW acked \in Nat, NEW had \in Nat,
           NEW front \in Nat, NEW y,
           Numbers(g, sent, acked, had, front), Sender(l, g, sent, acked, front, y),
           NEW n \in acked .. had
    PROVE  Sender(UpdateTxBuf(l, Num(n)), g, sent, n, front, y)
<1> DEFINE hits == {i \in DOMAIN l.tx_buf : l.tx_buf[i].fsn = Num(n)}
           left == SubSeq(l.tx_buf, 1, Least(hits) - 1)
           cut  == [l EXCEPT !.tx_buf = left]
           stop == StopTimer(cut, "t7")
           r    == UpdateTxBuf(l, Num(n))
<1>1. l.tx_buf \in Seq(TxMsu) /\ Saved(l.tx_buf, sent, acked) BY DEF Link, Sender
<1>2. sent - acked < SeqMod /\ n \in acked .. sent BY SeqModAssumption DEF Numbers
<1>3. hits = IF n = acked THEN {} ELSE {(sent - n) + 1}
  <2>1. Hits(l.tx_buf, Num(n)) = IF n = acked THEN {} ELSE {(sent - n) + 1}
    <3> DEFINE buf == l.tx_buf
    <3>1. buf \in Seq(TxMsu) /\ Saved(buf, sent, acked) BY <1>1
    <3> HIDE DEF buf
    <3>2. Hits(buf, Num(n)) = IF n = acked THEN {} ELSE {(sent - n) + 1}
      BY <3>1, <1>2, Acknowledged
    <3>q. QED BY <3>2 DEF buf
  <2>q. QED BY <2>1 DEF Hits
<1>4. CASE n = acked
  <2>1. r = l BY <1>3, <1>4 DEF UpdateTxBuf
  <2>q. QED BY <1>4, <2>1
<1>5. CASE n # acked
  <2>1. r \in {cut, stop, StartTimer(stop, "t7")} BY <1>3, <1>5 DEF UpdateTxBuf
  <2>2. Least(hits) - 1 = sent - n
    <3> DEFINE k == (sent - n) + 1
    <3>1. k \in Nat /\ hits = {k} BY <1>2, <1>3, <1>5
    <3> HIDE DEF k, hits
    <3>2. Least(hits) = k BY <3>1, LeastExists
    <3>q. QED BY <1>2, <3>2 DEF k
  <2>3. Saved(left, sent, n) BY <1>1, <1>2, <2>2, SavedLeft
  <2>4. left \in Seq(TxMsu)
    <3>1. Len(l.tx_buf) = sent - acked BY <1>1 DEF Saved
    <3>2. \A i \in 1 .. sent - n : i \in 1 .. Len(l.tx_buf) BY <1>2, <3>1
    <3>3. \A i \in 1 .. sent - n : l.tx_buf[i] \in TxMsu BY <1>1, <3>2, ElementOfSeq
    <3>4. 1 \in Int /\ sent - n \in Int BY <1>2
    <3>5. SubSeq(l.tx_buf, 1, sent - n) \in Seq(TxMsu) BY <3>3, <3>4, SubSeqProperties
    <3>q. QED BY <2>2, <3>5
  <2> HIDE DEF left, hits
  <2>5. cut \in Link /\ Sender(cut, g, sent, n, front, y)
    BY <2>3, <2>4 DEF Link, Sender, InService
  <2> HIDE DEF cut
  <2>6. stop \in Link /\ Sender(stop, g, sent, n, front, y)
    BY <2>5, OutOfBand, SameSender, TimerField DEF Timer
  <2> HIDE DEF stop
  <2>7. Sender(StartTimer(stop, "t7"), g, sent, n, front, y)
    BY <2>6, OutOfBand, SameSender
  <2>q. QED BY <2>1, <2>5, <2>6, <2>7
<1>q. QED BY <1>4, <1>5

\* mtp2_retransmit at the sender, when all but the messages from had + 1 on are
\* acknowledged
LEMMA SenderGoesBack ==
    ASSUME NEW l \in Link,
           NEW g \in Nat, NEW sent \in Nat, NEW had \in Nat, NEW front \in Nat, NEW y \in Bit,
           Numbers(g, sent, had, had, front), Sender(l, g, sent, had, front, y)
    PROVE  Sender(Retransmit(l), g, sent, had, had + 1, 1 - y)
<1> DEFINE r   == Retransmit(l)
           pos == IF l.tx_buf = <<>> THEN l.retransmit_pos ELSE l.tx_buf[Len(l.tx_buf)].msu
<1>1. l.tx_buf \in Seq(TxMsu) /\ Saved(l.tx_buf, sent, had) BY DEF Link, Sender
<1>2. had < front /\ front <= sent + 1 BY DEF Numbers
<1>3. pos = IF had + 1 = sent + 1 THEN NoMsu ELSE had + 1
  <2>1. CASE l.tx_buf = <<>>
    <3>1. sent = had BY <1>1, <2>1 DEF Saved
    <3>2. front = sent + 1 BY <1>2, <3>1
    <3>q. QED BY <2>1, <3>1, <3>2 DEF Sender
  <2>2. CASE l.tx_buf # <<>>
    <3>1. Len(l.tx_buf) = sent - had /\ Len(l.tx_buf) \in Nat \ {0}
      BY <1>1, <2>2, EmptySeq DEF Saved
    <3> DEFINE k == Len(l.tx_buf)
    <3>2. k \in 1 .. sent - had /\ (sent - k) + 1 = had + 1 BY <3>1
    <3>3. l.tx_buf[k].msu = (sent - k) + 1
      <4> HIDE DEF k
      <4>q. QED BY SMTT(30), <1>1, <3>2, SavedAt
    <3>q. QED BY <2>2, <3>1, <3>2, <3>3
  <2>q. QED BY <2>1, <2>2
<1>4. /\ r.retransmit_pos = pos /\ r.curfib = 1 - y
      /\ r.state = l.state /\ r.lastsurxd = l.lastsurxd
      /\ r.autotxsutype = l.autotxsutype /\ r.curfsn = l.curfsn
      /\ r.lastfsnacked = l.lastfsnacked /\ r.curbib = l.curbib
      /\ r.tx_q = l.tx_q /\ r.tx_buf = l.tx_buf
  BY DEF Retransmit, Link, Sender
<1> HIDE DEF pos, r
<1>5. Sender(r, g, sent, had, had + 1, 1 - y) BY <1>3, <1>4 DEF Sender, InService
<1>q. QED BY <1>5 DEF r

\* mtp2_receive at the sender
LEMMA SenderReceives ==
    ASSUME NEW l \in Link,
           NEW g \in Nat, NEW sent \in Nat, NEW acked \in Nat, NEW had \in Nat,
           NEW front \in Nat, NEW y \in Bit,
           Numbers(g, sent, acked, had, front), Sender(l, g, sent, acked, front, y),
           NEW n \in acked .. had, NEW x \in Bit, x # y => n = had
    PROVE  Sender(Receive(l, Ack(n, x).su), g, sent, n, IF x = y THEN front ELSE had + 1, x)
<1> DEFINE su == Ack(n, x).su
           a  == UpdateTxBuf(l, Num(n))
           b  == AckAndNack(l, su)
           r  == Receive(l, su)
<1>1. su.kind = "FISU" /\ su.bsn = Num(n) /\ su.bib = x /\ su.fsn = LastSeq /\ su.fib = 1
  BY DEF Ack
<1> HIDE DEF su
<1>2. a \in Link /\ Sender(a, g, sent, n, front, y) BY UpdateTxBufType, SenderAcked
<1>3. b = IF x # y THEN Retransmit(a) ELSE a
  <2>1. b = IF a.state = "INSERVICE" /\ su.bib # a.curfib THEN Retransmit(a) ELSE a
    BY <1>1 DEF AckAndNack
  <2>2. a.state = "INSERVICE" /\ a.curfib = y BY <1>2 DEF Sender, InService
  <2> HIDE DEF a, b
  <2>q. QED BY <1>1, <2>1, <2>2
<1> HIDE DEF a
<1>4. Sender(b, g, sent, n, IF x = y THEN front ELSE had + 1, x)
  <2>1. CASE x = y BY <1>2, <1>3, <2>1
  <2>2. CASE x # y
    <3>1. n = had /\ n \in Nat BY <2>2
    <3>2. Numbers(g, sent, n, n, front) BY <3>1, SeqModAssumption DEF Numbers
    <3>3. 1 - y = x BY <2>2 DEF Bit
    <3>4. Sender(Retransmit(a), g, sent, n, n + 1, x) BY <1>2, <3>1, <3>2, <3>3, SenderGoesBack
    <3>q. QED BY <1>3, <2>2, <3>1, <3>4
  <2>q. QED BY <2>1, <2>2
<1>5. r = FisuRx(b, su) BY <1>1 DEF Receive
<1> HIDE DEF b, r
<1>6. b.lastfsnacked = LastSeq /\ b.lastsurxd = "FISU" BY <1>4 DEF Sender, InService
<1>7. r = b BY <1>1, <1>5, <1>6 DEF FisuRx
<1>q. QED BY <1>4, <1>7 DEF r, su

\* mtp2_receive at the receiver has no acknowledgement to handle.
LEMMA ReceiverDispatches ==
    ASSUME NEW l \in Link, NEW had \in Nat, NEW x, Receiver(l, had, x), NEW su, su.bib = 1
    PROVE  AckAndNack(l, su) = l
<1>1. l.tx_buf = <<>> /\ l.curfib = 1 BY DEF Receiver
<1>2. {i \in DOMAIN l.tx_buf : l.tx_buf[i].fsn = su.bsn} = {} BY <1>1
<1>3. UpdateTxBuf(l, su.bsn) = l BY <1>2 DEF UpdateTxBuf
<1>q. QED BY <1>1, <1>3 DEF AckAndNack

\* A unit of before the receiver asked for a retransmission is ignored.
LEMMA ReceiverIgnores ==
    ASSUME NEW l \in Link, NEW had \in Nat, NEW x, Receiver(l, had, x),
           NEW su, su.bib = 1, su.kind \in {"MSU", "FISU"}, su.fib # x
    PROVE  Receive(l, su) = l /\ ~Accepts(l, su)
<1>1. /\ l.state = "INSERVICE" /\ l.lastsurxd = "FISU" /\ l.curbib = x
      /\ AckAndNack(l, su) = l
  BY ReceiverDispatches DEF Receiver, InService
<1>2. CASE su.kind = "FISU"
  <2>1. Receive(l, su) = FisuRx(l, su) BY <1>1, <1>2 DEF Receive
  <2>2. FisuRx(l, su) = l BY <1>1 DEF FisuRx
  <2>q. QED BY <1>2, <2>1, <2>2 DEF Accepts
<1>3. CASE su.kind = "MSU"
  <2>1. Receive(l, su) = MsuRx(l, su) BY <1>1, <1>3 DEF Receive
  <2>2. MsuRx(l, su) = l BY <1>1 DEF MsuRx
  <2>q. QED BY <1>1, <2>1, <2>2 DEF Accepts
<1>q. QED BY <1>2, <1>3

\* The next message is accepted; a later one, or a FISU that tells of a later
\* one, is answered with a request; a FISU that tells of the last one is not.
LEMMA ReceiverReads ==
    ASSUME NEW l \in Link, NEW had \in Nat, NEW x \in Bit, Receiver(l, had, x),
           NEW su, su.bib = 1, su.kind \in {"MSU", "FISU"}, su.fib = x,
           NEW n \in had .. (had + SeqMod) - 1, su.fsn = Num(n), su.kind = "MSU" => n > had
    PROVE  /\ Accepts(l, su) <=> su.kind = "MSU" /\ n = had + 1
           /\ Receiver(Receive(l, su),
                       IF Accepts(l, su) THEN n ELSE had,
                       IF n = had \/ Accepts(l, su) THEN x ELSE 1 - x)
<1> DEFINE r == Receive(l, su)
           q == RequestRetransmission(l)
<1>1. /\ l.state = "INSERVICE" /\ l.lastsurxd = "FISU" /\ l.curbib = x
      /\ l.lastfsnacked = Num(had) /\ AckAndNack(l, su) = l
  BY ReceiverDispatches DEF Receiver, InService
<1>2. n \in Nat /\ had <= n /\ n < had + SeqMod BY SeqModAssumption
<1>3. Num(n) = Num(had) => n = had BY <1>2, NumInjective
<1>4. (Num(had) + 1) % SeqMod = Num(had + 1) BY NumNext
<1>5. n > had /\ Num(n) = Num(had + 1) => n = had + 1
  <2>1. HAVE n > had /\ Num(n) = Num(had + 1)
  <2>2. had + 1 \in Nat /\ had + 1 <= n /\ n < (had + 1) + SeqMod
    BY <1>2, <2>1, SeqModAssumption
  <2>q. QED BY <1>2, <2>1, <2>2, NumInjective
<1>6. Receiver(q, had, 1 - x)
  <2>1. /\ q.curbib = 1 - x
        /\ q.state = l.state /\ q.lastsurxd = l.lastsurxd
        /\ q.autotxsutype = l.autotxsutype /\ q.curfsn = l.curfsn
        /\ q.lastfsnacked = l.lastfsnacked /\ q.curfib = l.curfib
        /\ q.tx_q = l.tx_q /\ q.tx_buf = l.tx_buf /\ q.retransmit_pos = l.retransmit_pos
        /\ q.lastsurxd = "FISU"
    BY <1>1 DEF RequestRetransmission, Link
  <2> HIDE DEF q
  <2>q. QED BY <2>1 DEF Receiver, InService
<1>7. q.lastsurxd = "FISU" BY <1>6 DEF Receiver, InService
<1> HIDE DEF q
<1>8. CASE su.kind = "FISU"
  <2>1. ~Accepts(l, su) BY <1>8 DEF Accepts
  <2>2. r = FisuRx(l, su) BY <1>1, <1>8 DEF Receive
  <2>3. CASE n = had
    <3>1. r = l BY <1>1, <2>2, <2>3 DEF FisuRx
    <3>q. QED BY <1>8, <2>1, <2>3, <3>1
  <2>4. CASE n # had
    <3>1. su.fsn # l.lastfsnacked BY <1>1, <1>3, <2>4
    <3>2. r = q BY <1>1, <1>7, <2>2, <3>1 DEF FisuRx, q
    <3>q. QED BY <1>6, <1>8, <2>1, <2>4, <3>2
  <2>q. QED BY <2>3, <2>4
<1>9. CASE su.kind = "MSU"
  <2>1. n > had /\ su.fsn # l.lastfsnacked
    <3>1. n > had BY <1>9
    <3>2. n # had BY <1>2, <3>1
    <3>q. QED BY <1>1, <1>3, <3>1, <3>2
  <2>2. Accepts(l, su) <=> n = had + 1
    BY <1>1, <1>4, <1>5, <1>9, <2>1 DEF Accepts
  <2>3. r = MsuRx(l, su) BY <1>1, <1>9 DEF Receive
  <2>4. r = IF Accepts(l, su) THEN [l EXCEPT !.lastfsnacked = su.fsn, !.write = TRUE] ELSE q
    BY <1>1, <2>1, <2>3 DEF MsuRx, q
  <2>5. CASE n = had + 1
    <3>1. r = [l EXCEPT !.lastfsnacked = su.fsn, !.write = TRUE] BY <2>2, <2>4, <2>5
    <3> HIDE DEF r
    <3>2. Receiver(r, n, x) BY <3>1 DEF Receiver, InService, Link
    <3>q. QED BY <1>9, <2>2, <2>5, <3>2 DEF r
  <2>6. CASE n # had + 1
    <3>1. n # had BY <1>2, <2>1
    <3>q. QED BY <1>6, <1>9, <2>2, <2>4, <2>6, <3>1
  <2>q. QED BY <2>5, <2>6
<1>q. QED BY <1>8, <1>9

-------------------------------------------------------------------------------
(* The signal units under way. *)

\* A unit on its way to the receiver shows in its FIB whether the sender has
\* taken notice of the last request (it is live), and then the number of a
\* message the sender has sent since.
Shows(u, n, x, had, front, sent) ==
    /\ u.su.kind \in {"MSU", "FISU"} /\ u.su.bsn = LastSeq /\ u.su.bib = 1
    /\ u.su.fib \in Bit /\ u.msu \in 0 .. sent
    /\ u.su.fib = x =>
         /\ n \in had .. front - 1 /\ u.su.fsn = Num(n)
         /\ u.su.kind = "MSU" => u.msu = n /\ n > had

\* Live units come last, in the order of the messages and no message twice, and
\* not before the sender has changed its FIB.
ForthBy(L, N, x, y, had, front, sent) ==
    /\ \A i \in 1 .. Len(L) : /\ Shows(L[i], N[i], x, had, front, sent)
                              /\ L[i].su.fib = x => x = y
    /\ \A i, j \in 1 .. Len(L) : i < j =>
         /\ L[i].su.fib = y => L[j].su.fib = y
         /\ L[i].su.fib = x /\ L[j].su.fib = x =>
              N[i] <= N[j] /\ (L[j].su.kind = "MSU" => N[i] < N[j])

Forth(L, x, y, had, front, sent) ==
    \E N \in [1 .. Len(L) -> Nat] : ForthBy(L, N, x, y, had, front, sent)

\* An acknowledgement with the BIB of now acknowledges all that was received,
\* when it is a request that the sender has not seen.
Confirms(u, n, x, y, acked, had) ==
    /\ n \in acked .. had
    /\ u.su.bib \in Bit /\ u = Ack(n, u.su.bib)
    /\ u.su.bib = x => x = y \/ n = had
    /\ x = y => u.su.bib = x

BackBy(K, N, x, y, acked, had) ==
    /\ \A i \in 1 .. Len(K) : Confirms(K[i], N[i], x, y, acked, had)
    /\ \A i, j \in 1 .. Len(K) : i < j =>
         (K[i].su.bib = x => K[j].su.bib = x) /\ N[i] <= N[j]

Back(K, x, y, acked, had) ==
    \E N \in [1 .. Len(K) -> Nat] : BackBy(K, N, x, y, acked, had)

\* Some units of L are gone, the others have kept their order.
Thinned(L, M) ==
    \E h \in [1 .. Len(M) -> 1 .. Len(L)] :
        /\ \A i \in 1 .. Len(M) : M[i] = L[h[i]]
        /\ \A i, j \in 1 .. Len(M) : i < j => h[i] < h[j]

LEMMA ForthThinned ==
    ASSUME NEW L \in Seq(LineSu), NEW M \in Seq(LineSu), Thinned(L, M),
           NEW x, NEW y, NEW had, NEW front, NEW sent, Forth(L, x, y, had, front, sent)
    PROVE  Forth(M, x, y, had, front, sent)
<1>1. PICK h \in [1 .. Len(M) -> 1 .. Len(L)] :
        /\ \A i \in 1 .. Len(M) : M[i] = L[h[i]]
        /\ \A i, j \in 1 .. Len(M) : i < j => h[i] < h[j]
  BY DEF Thinned
<1>2. PICK N \in [1 .. Len(L) -> Nat] : ForthBy(L, N, x, y, had, front, sent) BY DEF Forth
<1> DEFINE O == [i \in 1 .. Len(M) |-> N[h[i]]]
<1>3. \A i \in 1 .. Len(M) : h[i] \in 1 .. Len(L) /\ O[i] = N[h[i]] /\ M[i] = L[h[i]] BY <1>1
<1>4. O \in [1 .. Len(M) -> Nat] BY <1>2, <1>3
<1> HIDE DEF O
<1>5. ForthBy(M, O, x, y, had, front, sent)
  <2>1. ASSUME NEW i \in 1 .. Len(M)
        PROVE  Shows(M[i], O[i], x, had, front, sent) /\ (M[i].su.fib = x => x = y)
    BY <1>2, <1>3 DEF ForthBy
  <2>2. ASSUME NEW i \in 1 .. Len(M), NEW j \in 1 .. Len(M), i < j
        PROVE  /\ M[i].su.fib = y => M[j].su.fib = y
               /\ M[i].su.fib = x /\ M[j].su.fib = x =>
                    O[i] <= O[j] /\ (M[j].su.kind = "MSU" => O[i] < O[j])
    <3>1. h[i] < h[j] BY <1>1, <2>2
    <3>q. QED BY SMTT(30), <1>2, <1>3, <3>1 DEF ForthBy
  <2>q. QED BY <2>1, <2>2 DEF ForthBy
<1>q. QED BY <1>4, <1>5 DEF Forth

LEMMA BackThinned ==
    ASSUME NEW L \in Seq(LineSu), NEW M \in Seq(LineSu), Thinned(L, M),
           NEW x, NEW y, NEW acked, NEW had, Back(L, x, y, acked, had)
    PROVE  Back(M, x, y, acked, had)
<1>1. PICK h \in [1 .. Len(M) -> 1 .. Len(L)] :
        /\ \A i \in 1 .. Len(M) : M[i] = L[h[i]]
        /\ \A i, j \in 1 .. Len(M) : i < j => h[i] < h[j]
  BY DEF Thinned
<1>2. PICK N \in [1 .. Len(L) -> Nat] : BackBy(L, N, x, y, acked, had) BY DEF Back
<1> DEFINE O == [i \in 1 .. Len(M) |-> N[h[i]]]
<1>3. \A i \in 1 .. Len(M) : h[i] \in 1 .. Len(L) /\ O[i] = N[h[i]] /\ M[i] = L[h[i]] BY <1>1
<1>4. O \in [1 .. Len(M) -> Nat] BY <1>2, <1>3
<1> HIDE DEF O
<1>5. BackBy(M, O, x, y, acked, had)
  <2>1. ASSUME NEW i \in 1 .. Len(M) PROVE Confirms(M[i], O[i], x, y, acked, had)
    BY <1>2, <1>3 DEF BackBy
  <2>2. ASSUME NEW i \in 1 .. Len(M), NEW j \in 1 .. Len(M), i < j
        PROVE  (M[i].su.bib = x => M[j].su.bib = x) /\ O[i] <= O[j]
    <3>1. h[i] < h[j] BY <1>1, <2>2
    <3>q. QED BY <1>2, <1>3, <3>1 DEF BackBy
  <2>q. QED BY <2>1, <2>2 DEF BackBy
<1>q. QED BY <1>4, <1>5 DEF Back

LEMMA TailThinned ==
    ASSUME NEW L \in Seq(LineSu), L # <<>>
    PROVE  Thinned(L, Tail(L))
<1> DEFINE h == [i \in 1 .. Len(Tail(L)) |-> i + 1]
<1>1. /\ Len(Tail(L)) = Len(L) - 1 /\ Len(L) \in Nat
      /\ \A i \in 1 .. Len(Tail(L)) : Tail(L)[i] = L[i + 1]
  BY HeadTailProperties, LenProperties
<1>2. h \in [1 .. Len(Tail(L)) -> 1 .. Len(L)] BY <1>1
<1>3. \A i \in 1 .. Len(Tail(L)) : h[i] = i + 1 OBVIOUS
<1> HIDE DEF h
<1>4. \A i, j \in 1 .. Len(Tail(L)) : i < j => h[i] < h[j] BY <1>1, <1>3
<1>q. QED BY <1>1, <1>2, <1>3, <1>4 DEF Thinned

LEMMA LossThinned ==
    ASSUME NEW L \in Seq(LineSu), NEW k \in DOMAIN L
    PROVE  LET M == SubSeq(L, 1, k - 1) \o SubSeq(L, k + 1, Len(L))
           IN  M \in Seq(LineSu) /\ Thinned(L, M)
<1> DEFINE A == SubSeq(L, 1, k - 1)
           B == SubSeq(L, k + 1, Len(L))
           M == A \o B
           h == [i \in 1 .. Len(M) |-> IF i < k THEN i ELSE i + 1]
           n == Len(L)
<1>1. n \in Nat /\ k \in 1 .. n /\ \A i \in 1 .. n : L[i] \in LineSu
  BY LenProperties, ElementOfSeq
<1> HIDE DEF n
<1>2. /\ A \in Seq(LineSu) /\ Len(A) = k - 1
      /\ \A i \in 1 .. k - 1 : A[i] = L[i]
  <2>1. \A i \in 1 .. k - 1 : L[i] \in LineSu BY <1>1
  <2>2. 1 \in Int /\ k - 1 \in Int BY <1>1
  <2>3. /\ A \in Seq(LineSu) /\ Len(A) = IF 1 <= k - 1 THEN ((k - 1) - 1) + 1 ELSE 0
        /\ \A i \in 1 .. ((k - 1) - 1) + 1 : A[i] = L[(1 + i) - 1]
    BY <2>1, <2>2, SubSeqProperties
  <2> HIDE DEF A
  <2>4. Len(A) = k - 1 BY <1>1, <2>3
  <2>5. ASSUME NEW i \in 1 .. k - 1 PROVE A[i] = L[i]
    <3>1. i \in 1 .. ((k - 1) - 1) + 1 /\ (1 + i) - 1 = i BY <1>1
    <3>q. QED BY <2>3, <3>1
  <2>q. QED BY <2>3, <2>4, <2>5
<1>3. /\ B \in Seq(LineSu) /\ Len(B) = n - k
      /\ \A i \in 1 .. n - k : B[i] = L[k + i]
  <2>1. \A i \in k + 1 .. n : L[i] \in LineSu BY <1>1
  <2>2. k + 1 \in Int /\ n \in Int BY <1>1
  <2>3. /\ B \in Seq(LineSu) /\ Len(B) = IF k + 1 <= n THEN (n - (k + 1)) + 1 ELSE 0
        /\ \A i \in 1 .. (n - (k + 1)) + 1 : B[i] = L[((k + 1) + i) - 1]
    BY <2>1, <2>2, SubSeqProperties DEF n
  <2> HIDE DEF B
  <2>4. Len(B) = n - k BY <1>1, <2>3
  <2>5. ASSUME NEW i \in 1 .. n - k PROVE B[i] = L[k + i]
    <3>1. i \in 1 .. (n - (k + 1)) + 1 /\ ((k + 1) + i) - 1 = k + i BY <1>1
    <3>q. QED BY <2>3, <3>1
  <2>q. QED BY <2>3, <2>4, <2>5
<1> HIDE DEF A, B
<1>4. /\ M \in Seq(LineSu) /\ Len(M) = Len(A) + Len(B)
      /\ \A i \in 1 .. Len(A) + Len(B) : M[i] = IF i <= Len(A) THEN A[i] ELSE B[i - Len(A)]
  BY <1>2, <1>3, ConcatProperties
<1> HIDE DEF M
<1>5. Len(M) = n - 1 /\ Len(M) \in Nat BY <1>1, <1>2, <1>3, <1>4
<1>6. \A i \in 1 .. n - 1 : h[i] = IF i < k THEN i ELSE i + 1 BY <1>5
<1>7. h \in [1 .. Len(M) -> 1 .. n]
  <2>1. \A i \in 1 .. Len(M) : (IF i < k THEN i ELSE i + 1) \in 1 .. n BY <1>1, <1>5
  <2>q. QED BY <2>1
<1> HIDE DEF h
<1>8. ASSUME NEW i \in 1 .. Len(M) PROVE M[i] = L[h[i]]
  <2>1. i \in 1 .. n - 1 BY <1>5
  <2>2. CASE i < k
    <3>1. i \in 1 .. k - 1 /\ i <= Len(A) /\ i \in 1 .. Len(A) + Len(B)
      BY <1>1, <1>2, <1>3, <2>1, <2>2
    <3>q. QED BY <1>2, <1>4, <1>6, <2>1, <2>2, <3>1
  <2>3. CASE ~(i < k)
    <3>1. /\ i - Len(A) \in 1 .. n - k /\ ~(i <= Len(A)) /\ i \in 1 .. Len(A) + Len(B)
          /\ k + (i - Len(A)) = i + 1
      BY SMTT(30), <1>1, <1>2, <1>3, <2>1, <2>3
    <3>2. M[i] = B[i - Len(A)] BY <1>4, <3>1
    <3>3. B[i - Len(A)] = L[i + 1] BY <1>3, <3>1
    <3>q. QED BY <1>6, <2>1, <2>3, <3>2, <3>3
  <2>q. QED BY <2>2, <2>3
<1>9. \A i, j \in 1 .. Len(M) : i < j => h[i] < h[j] BY <1>1, <1>5, <1>6
<1>10. Thinned(L, M) BY <1>7, <1>8, <1>9 DEF Thinned, n
<1>q. QED BY <1>4, <1>10 DEF M, A, B

\* The sender writes a unit, and has perhaps sent one message more.
LEMMA ForthWritten ==
    ASSUME NEW L \in Seq(LineSu),
           NEW x, NEW y \in Bit, NEW had \in Nat, NEW front \in Nat, NEW sent \in Nat,
           Forth(L, x, y, had, front, sent), had < front,
           NEW front2 \in Nat, NEW sent2 \in Nat, front <= front2, sent <= sent2,
           NEW kind \in {"MSU", "FISU"}, NEW n \in front - 1 .. front2 - 1, NEW m \in 0 .. sent2,
           kind = "MSU" => n >= front /\ m = n,
           Unit(kind, n, y, m) \in LineSu
    PROVE  Forth(Append(L, Unit(kind, n, y, m)), x, y, had, front2, sent2)
<1> DEFINE u == Unit(kind, n, y, m)
           M == Append(L, u)
           k == Len(L)
<1>1. PICK N \in [1 .. k -> Nat] : ForthBy(L, N, x, y, had, front, sent) BY DEF Forth
<1>2. /\ Len(M) = k + 1 /\ k \in Nat /\ M[k + 1] = u
      /\ \A i \in 1 .. k : M[i] = L[i]
  BY AppendProperties, LenProperties
<1> DEFINE O == [i \in 1 .. k + 1 |-> IF i = k + 1 THEN n ELSE N[i]]
<1>3. n \in Nat /\ had <= n /\ n <= front2 - 1 /\ front - 1 <= n OBVIOUS
<1>4. /\ O \in [1 .. k + 1 -> Nat] /\ O[k + 1] = n
      /\ \A i \in 1 .. k : O[i] = N[i] /\ N[i] \in Nat
  <2>1. \A i \in 1 .. k + 1 : i # k + 1 => i \in 1 .. k BY <1>2
  <2>2. k + 1 \in 1 .. k + 1 /\ \A i \in 1 .. k : i \in 1 .. k + 1 /\ i # k + 1 BY <1>2
  <2>q. QED BY <1>1, <1>3, <2>1, <2>2
<1>5. /\ u.su.kind = kind /\ u.su.fsn = Num(n) /\ u.su.fib = y /\ u.su.bsn = LastSeq
      /\ u.su.bib = 1 /\ u.msu = m
  BY DEF Unit
<1> HIDE DEF u, O, M, k
<1>6. \A i \in 1 .. k : /\ Shows(L[i], N[i], x, had, front, sent)
                        /\ L[i].su.fib = x => x = y
  BY <1>1 DEF ForthBy, k
<1>7. ASSUME NEW i \in 1 .. k + 1
      PROVE  Shows(M[i], O[i], x, had, front2, sent2) /\ (M[i].su.fib = x => x = y)
  <2>1. CASE i = k + 1
    <3>1. Shows(u, n, x, had, front2, sent2) BY <1>3, <1>5 DEF Shows
    <3>q. QED BY <1>2, <1>4, <1>5, <2>1, <3>1
  <2>2. CASE i # k + 1
    <3>1. i \in 1 .. k BY <1>2, <2>2
    <3>2. Shows(L[i], N[i], x, had, front, sent) /\ (L[i].su.fib = x => x = y) BY <1>6, <3>1
    <3>3. Shows(L[i], N[i], x, had, front2, sent2) BY <3>2 DEF Shows
    <3>q. QED BY <1>2, <1>4, <3>1, <3>2, <3>3
  <2>q. QED BY <2>1, <2>2
<1>8. ASSUME NEW i \in 1 .. k + 1, NEW j \in 1 .. k + 1, i < j
      PROVE  /\ M[i].su.fib = y => M[j].su.fib = y
             /\ M[i].su.fib = x /\ M[j].su.fib = x =>
                  O[i] <= O[j] /\ (M[j].su.kind = "MSU" => O[i] < O[j])
  <2>1. i \in 1 .. k BY <1>2, <1>8
  <2>2. M[i] = L[i] /\ O[i] = N[i] /\ N[i] \in Nat BY <1>2, <1>4, <2>1
  <2>3. CASE j = k + 1
    <3>1. M[j] = u /\ O[j] = n BY <1>2, <1>4, <2>3
    <3>2. M[i].su.fib = x => N[i] <= front - 1 BY <1>6, <2>1, <2>2 DEF Shows
    <3>q. QED BY <1>3, <1>5, <2>2, <3>1, <3>2
  <2>4. CASE j # k + 1
    <3>1. j \in 1 .. k BY <1>2, <2>4
    <3>2. M[j] = L[j] /\ O[j] = N[j] BY <1>2, <1>4, <3>1
    <3>q. QED BY <1>1, <1>8, <2>1, <2>2, <3>1, <3>2 DEF ForthBy, k
  <2>q. QED BY <2>3, <2>4
<1>9. ForthBy(M, O, x, y, had, front2, sent2) BY <1>2, <1>7, <1>8 DEF ForthBy
<1>10. Forth(M, x, y, had, front2, sent2) BY <1>2, <1>4, <1>9 DEF Forth
<1>q. QED BY <1>10 DEF M, u

\* The receiver writes a unit.
LEMMA BackWritten ==
    ASSUME NEW K \in Seq(LineSu), NEW x \in Bit, NEW y, NEW acked \in Nat, NEW had \in Nat,
           acked <= had, Back(K, x, y, acked, had), Ack(had, x) \in LineSu
    PROVE  Back(Append(K, Ack(had, x)), x, y, acked, had)
<1> DEFINE u == Ack(had, x)
           M == Append(K, u)
           k == Len(K)
<1>1. PICK N \in [1 .. k -> Nat] : BackBy(K, N, x, y, acked, had) BY DEF Back
<1>2. /\ Len(M) = k + 1 /\ k \in Nat /\ M[k + 1] = u
      /\ \A i \in 1 .. k : M[i] = K[i]
  BY AppendProperties, LenProperties
<1> DEFINE O == [i \in 1 .. k + 1 |-> IF i = k + 1 THEN had ELSE N[i]]
<1>3. /\ O \in [1 .. k + 1 -> Nat] /\ O[k + 1] = had
      /\ \A i \in 1 .. k : O[i] = N[i] /\ N[i] \in Nat
  <2>1. \A i \in 1 .. k + 1 : i # k + 1 => i \in 1 .. k BY <1>2
  <2>2. k + 1 \in 1 .. k + 1 /\ \A i \in 1 .. k : i \in 1 .. k + 1 /\ i # k + 1 BY <1>2
  <2>q. QED BY <1>1, <2>1, <2>2
<1>4. u.su.bib = x /\ u = Ack(had, x) BY DEF Ack
<1> HIDE DEF u, O, M, k
<1>5. \A i \in 1 .. k : Confirms(K[i], N[i], x, y, acked, had) BY <1>1 DEF BackBy, k
<1>6. ASSUME NEW i \in 1 .. k + 1 PROVE Confirms(M[i], O[i], x, y, acked, had)
  <2>1. CASE i = k + 1
    <3>1. Confirms(u, had, x, y, acked, had) BY <1>4 DEF Confirms
    <3>q. QED BY <1>2, <1>3, <2>1, <3>1
  <2>2. CASE i # k + 1
    <3>1. i \in 1 .. k BY <1>2, <2>2
    <3>q. QED BY <1>2, <1>3, <1>5, <3>1
  <2>q. QED BY <2>1, <2>2
<1>7. ASSUME NEW i \in 1 .. k + 1, NEW j \in 1 .. k + 1, i < j
      PROVE  (M[i].su.bib = x => M[j].su.bib = x) /\ O[i] <= O[j]
  <2>1. i \in 1 .. k BY <1>2, <1>7
  <2>2. M[i] = K[i] /\ O[i] = N[i] /\ N[i] \in Nat BY <1>2, <1>3, <2>1
  <2>3. CASE j = k + 1
    <3>1. M[j] = u /\ O[j] = had BY <1>2, <1>3, <2>3
    <3>2. N[i] <= had BY <1>5, <2>1 DEF Confirms
    <3>q. QED BY <1>4, <2>2, <3>1, <3>2
  <2>4. CASE j # k + 1
    <3>1. j \in 1 .. k BY <1>2, <2>4
    <3>2. M[j] = K[j] /\ O[j] = N[j] BY <1>2, <1>3, <3>1
    <3>q. QED BY <1>1, <1>7, <2>1, <2>2, <3>1, <3>2 DEF BackBy, k
  <2>q. QED BY <2>3, <2>4
<1>8. BackBy(M, O, x, y, acked, had) BY <1>2, <1>6, <1>7 DEF BackBy
<1>9. Back(M, x, y, acked, had) BY <1>2, <1>3, <1>8 DEF Back
<1>q. QED BY <1>9 DEF M, u

\* The sender has noticed a request: nothing on its way is live.
LEMMA ForthTurns ==
    ASSUME NEW L \in Seq(LineSu), NEW x \in Bit, NEW y \in Bit, x # y,
           NEW had, NEW front, NEW sent, Forth(L, x, y, had, front, sent), NEW front2
    PROVE  Forth(L, x, x, had, front2, sent)
<1>1. PICK N \in [1 .. Len(L) -> Nat] : ForthBy(L, N, x, y, had, front, sent) BY DEF Forth
<1>2. \A i \in 1 .. Len(L) : L[i].su.fib # x BY <1>1 DEF ForthBy
<1>3. \A i \in 1 .. Len(L) : Shows(L[i], N[i], x, had, front2, sent)
  BY <1>1, <1>2 DEF ForthBy, Shows
<1>4. ForthBy(L, N, x, x, had, front2, sent) BY <1>2, <1>3 DEF ForthBy
<1>q. QED BY <1>4 DEF Forth

\* The sender reads an acknowledgement.
LEMMA BackRead ==
    ASSUME NEW K \in Seq(LineSu), K # <<>>, NEW x \in Bit, NEW y \in Bit,
           NEW acked \in Nat, NEW had \in Nat, Back(K, x, y, acked, had)
    PROVE  \E n \in acked .. had, b \in Bit :
             /\ Head(K) = Ack(n, b)
             /\ b # y => b = x /\ n = had
             /\ Back(Tail(K), x, b, n, had)
<1> DEFINE M == Tail(K)
           O(N) == [i \in 1 .. Len(M) |-> N[i + 1]]
<1>1. PICK N \in [1 .. Len(K) -> Nat] : BackBy(K, N, x, y, acked, had) BY DEF Back
<1>2. /\ Len(M) = Len(K) - 1 /\ Len(K) \in Nat /\ 1 \in 1 .. Len(K) /\ Head(K) = K[1]
      /\ \A i \in 1 .. Len(M) : M[i] = K[i + 1] /\ i + 1 \in 1 .. Len(K)
  BY HeadTailProperties, LenProperties, EmptySeq
<1>3. \A i \in 1 .. Len(M) : O(N)[i] = N[i + 1] OBVIOUS
<1>4. O(N) \in [1 .. Len(M) -> Nat] BY <1>1, <1>2
<1> HIDE DEF O, M
<1> DEFINE n == N[1]
           b == K[1].su.bib
           P == O(N)
<1>5. Confirms(K[1], n, x, y, acked, had) BY <1>1, <1>2 DEF BackBy
<1>6. /\ n \in acked .. had /\ b \in Bit /\ K[1] = Ack(n, b)
      /\ b = x => x = y \/ n = had
      /\ x = y => b = x
  BY <1>5 DEF Confirms
<1>7. \A i \in 1 .. Len(M) : n <= P[i] /\ (b = x => M[i].su.bib = x)
  <2>1. TAKE i \in 1 .. Len(M)
  <2>2. i + 1 \in 1 .. Len(K) /\ 1 < i + 1 /\ M[i] = K[i + 1] /\ P[i] = N[i + 1]
    BY <1>2, <1>3
  <2>q. QED BY <1>1, <1>2, <2>2 DEF BackBy
<1>8. b # y => b = x /\ n = had BY <1>6 DEF Bit
<1> HIDE DEF n, b, P
<1>9. ASSUME NEW i \in 1 .. Len(M) PROVE Confirms(M[i], P[i], x, b, n, had)
  <2>1. i + 1 \in 1 .. Len(K) /\ M[i] = K[i + 1] /\ P[i] = N[i + 1] BY <1>2, <1>3 DEF P
  <2>2. Confirms(M[i], P[i], x, y, acked, had) BY <1>1, <2>1 DEF BackBy
  <2>3. P[i] \in n .. had BY <1>6, <1>7, <2>2 DEF Confirms
  <2>4. M[i].su.bib = x => x = b \/ P[i] = had
    BY <1>6, <1>8, <2>2 DEF Confirms
  <2>5. x = b => M[i].su.bib = x BY <1>7
  <2>q. QED BY <2>2, <2>3, <2>4, <2>5 DEF Confirms
<1>10. ASSUME NEW i \in 1 .. Len(M), NEW j \in 1 .. Len(M), i < j
       PROVE  (M[i].su.bib = x => M[j].su.bib = x) /\ P[i] <= P[j]
  <2>1. /\ i + 1 \in 1 .. Len(K) /\ M[i] = K[i + 1] /\ P[i] = N[i + 1]
        /\ j + 1 \in 1 .. Len(K) /\ M[j] = K[j + 1] /\ P[j] = N[j + 1] /\ i + 1 < j + 1
    BY <1>2, <1>3, <1>10 DEF P
  <2>q. QED BY <1>1, <2>1 DEF BackBy
<1>11. BackBy(M, P, x, b, n, had) BY <1>9, <1>10 DEF BackBy
<1>12. Back(M, x, b, n, had) BY <1>4, <1>11 DEF Back, P
<1>q. QED BY <1>2, <1>6, <1>8, <1>12 DEF M

\* The receiver asks for a retransmission, or accepts a message, when it has read
\* a live unit.
LEMMA BackAsks ==
    ASSUME NEW K, NEW x \in Bit, NEW acked \in Nat, NEW had \in Nat,
           Back(K, x, x, acked, had)
    PROVE  Back(K, 1 - x, x, acked, had) /\ Back(K, x, x, acked, had + 1)
<1>1. PICK N \in [1 .. Len(K) -> Nat] : BackBy(K, N, x, x, acked, had) BY DEF Back
<1>2. \A i \in 1 .. Len(K) : Confirms(K[i], N[i], x, x, acked, had) BY <1>1 DEF BackBy
<1>3. \A i \in 1 .. Len(K) : K[i].su.bib = x BY <1>2 DEF Confirms
<1>4. 1 - x # x BY DEF Bit
<1>5. \A i \in 1 .. Len(K) : Confirms(K[i], N[i], 1 - x, x, acked, had)
  BY <1>2, <1>3, <1>4 DEF Confirms
<1>6. \A i \in 1 .. Len(K) : Confirms(K[i], N[i], x, x, acked, had + 1)
  BY <1>2, <1>3 DEF Confirms
<1>7. BackBy(K, N, 1 - x, x, acked, had) BY <1>1, <1>3, <1>4, <1>5 DEF BackBy
<1>8. BackBy(K, N, x, x, acked, had + 1) BY <1>1, <1>6 DEF BackBy
<1>q. QED BY <1>7, <1>8 DEF Back

LEMMA ForthRead ==
    ASSUME NEW L \in Seq(LineSu), L # <<>>, NEW x \in Bit, NEW y \in Bit,
           NEW had \in Nat, NEW front \in Nat, NEW sent \in Nat,
           Forth(L, x, y, had, front, sent), Head(L).su.fib = x
    PROVE  /\ x = y
           /\ Forth(Tail(L), 1 - x, y, had, front, sent)
           /\ \E n \in had .. front - 1 :
                /\ Head(L).su.fsn = Num(n)
                /\ Head(L).su.kind = "MSU" => Head(L).msu = n /\ n > had
                /\ Head(L).su.kind = "MSU" => Forth(Tail(L), x, y, n, front, sent)
<1> DEFINE M == Tail(L)
           O(N) == [i \in 1 .. Len(M) |-> N[i + 1]]
<1>1. PICK N \in [1 .. Len(L) -> Nat] : ForthBy(L, N, x, y, had, front, sent) BY DEF Forth
<1>2. /\ Len(M) = Len(L) - 1 /\ Len(L) \in Nat /\ 1 \in 1 .. Len(L) /\ Head(L) = L[1]
      /\ \A i \in 1 .. Len(M) : M[i] = L[i + 1] /\ i + 1 \in 1 .. Len(L)
  BY HeadTailProperties, LenProperties, EmptySeq
<1>3. \A i \in 1 .. Len(M) : O(N)[i] = N[i + 1] OBVIOUS
<1>4. O(N) \in [1 .. Len(M) -> Nat] BY <1>1, <1>2
<1> HIDE DEF O, M
<1> DEFINE n == N[1]
           u == L[1]
           P == O(N)
<1>5. x = y /\ Shows(u, n, x, had, front, sent) /\ u.su.fib = x
  BY <1>1, <1>2 DEF ForthBy
<1>6. n \in had .. front - 1 /\ u.su.fsn = Num(n) /\ (u.su.kind = "MSU" => u.msu = n /\ n > had)
  BY <1>5 DEF Shows
<1>7. \A i \in 1 .. Len(M) :
        /\ P[i] = N[i + 1] /\ P[i] \in Nat
        /\ M[i].su.fib = x /\ Shows(M[i], P[i], x, had, front, sent)
        /\ n <= P[i] /\ (M[i].su.kind = "MSU" => n < P[i])
  <2>1. TAKE i \in 1 .. Len(M)
  <2>0. i + 1 \in 1 .. Len(L) /\ 1 < i + 1 /\ M[i] = L[i + 1] BY <1>2
  <2>2. /\ i + 1 \in 1 .. Len(L) /\ 1 < i + 1 /\ M[i] = L[i + 1] /\ P[i] = N[i + 1]
        /\ N[i + 1] \in Nat
    BY <1>1, <1>3, <2>0
  <2>3. L[i + 1].su.fib = x BY <1>1, <1>2, <1>5, <2>2 DEF ForthBy
  <2>4. n <= N[i + 1] /\ (L[i + 1].su.kind = "MSU" => n < N[i + 1])
    BY <1>1, <1>2, <1>5, <2>2, <2>3 DEF ForthBy
  <2>5. Shows(L[i + 1], N[i + 1], x, had, front, sent) BY <1>1, <2>2 DEF ForthBy
  <2>q. QED BY <2>2, <2>3, <2>4, <2>5
<1> HIDE DEF n, P
<1>8. \A i, j \in 1 .. Len(M) : i < j => P[i] <= P[j] /\ (M[j].su.kind = "MSU" => P[i] < P[j])
  <2>1. SUFFICES ASSUME NEW i \in 1 .. Len(M), NEW j \in 1 .. Len(M), i < j
                 PROVE  P[i] <= P[j] /\ (M[j].su.kind = "MSU" => P[i] < P[j])
    OBVIOUS
  <2>2. /\ i + 1 \in 1 .. Len(L) /\ M[i] = L[i + 1] /\ P[i] = N[i + 1]
        /\ j + 1 \in 1 .. Len(L) /\ M[j] = L[j + 1] /\ P[j] = N[j + 1] /\ i + 1 < j + 1
    BY <1>2, <1>7, <2>1
  <2>3. L[i + 1].su.fib = x /\ L[j + 1].su.fib = x BY <1>7, <2>2
  <2>q. QED BY <1>1, <2>2, <2>3 DEF ForthBy
<1>9. Forth(M, 1 - x, y, had, front, sent)
  <2>1. 1 - x # x BY DEF Bit
  <2>2. \A i \in 1 .. Len(M) : M[i].su.fib # 1 - x BY <1>7, <2>1
  <2>3. \A i \in 1 .. Len(M) : Shows(M[i], P[i], 1 - x, had, front, sent)
    BY <1>7, <2>2 DEF Shows
  <2>4. ForthBy(M, P, 1 - x, y, had, front, sent) BY <1>7, <2>2, <2>3 DEF ForthBy
  <2>q. QED BY <1>4, <2>4 DEF Forth, P
<1>10. ASSUME u.su.kind = "MSU" PROVE Forth(M, x, y, n, front, sent)
  <2>1. ASSUME NEW i \in 1 .. Len(M) PROVE Shows(M[i], P[i], x, n, front, sent)
    <3>1. /\ Shows(M[i], P[i], x, had, front, sent) /\ M[i].su.fib = x
          /\ n <= P[i] /\ (M[i].su.kind = "MSU" => n < P[i])
      BY <1>7
    <3>q. QED BY <1>6, <3>1 DEF Shows
  <2>2. ForthBy(M, P, x, y, n, front, sent) BY <1>5, <1>7, <1>8, <2>1 DEF ForthBy
  <2>q. QED BY <1>4, <2>2 DEF Forth, P
<1>q. QED BY <1>2, <1>5, <1>6, <1>9, <1>10 DEF M

LEMMA ForthHead ==
    ASSUME NEW L \in Seq(LineSu), L # <<>>, NEW x, NEW y,
           NEW had, NEW front, NEW sent, Forth(L, x, y, had, front, sent)
    PROVE  Head(L).su.kind \in {"MSU", "FISU"} /\ Head(L).su.bib = 1
<1>1. 1 \in 1 .. Len(L) /\ Head(L) = L[1] BY EmptySeq
<1>q. QED BY <1>1 DEF Forth, ForthBy, Shows

\* mtp2_receive at the receiver
LEMMA ReceiverReceives ==
    ASSUME NEW l \in Link, NEW L \in Seq(LineSu), L # <<>>, NEW K \in Seq(LineSu),
           NEW g \in Nat, NEW sent \in Nat, NEW acked \in Nat, NEW had \in Nat,
           NEW front \in Nat, NEW x \in Bit, NEW y \in Bit,
           Numbers(g, sent, acked, had, front), Receiver(l, had, x),
           Forth(L, x, y, had, front, sent), Back(K, x, y, acked, had)
    PROVE  LET u == Head(L)
               more == IF Accepts(l, u.su) THEN had + 1 ELSE had
           IN  /\ Accepts(l, u.su) => u.msu = more
               /\ more < front
               /\ \E b \in Bit : /\ Receiver(Receive(l, u.su), more, b)
                                 /\ Forth(Tail(L), b, y, more, front, sent)
                                 /\ Back(K, b, y, acked, more)
<1> DEFINE u == Head(L)
           r == Receive(l, u.su)
<1>1. u.su.kind \in {"MSU", "FISU"} /\ u.su.bib = 1 BY ForthHead
<1>2. Forth(Tail(L), x, y, had, front, sent)
  <2>1. Tail(L) \in Seq(LineSu) BY HeadTailProperties
  <2>q. QED BY <2>1, TailThinned, ForthThinned
<1>3. /\ had < front /\ front <= sent + 1 /\ sent <= g /\ acked <= had /\ g - acked < SeqMod
      /\ SeqMod \in Nat
  BY SeqModAssumption DEF Numbers
<1>4. CASE u.su.fib # x
  <2>1. r = l /\ ~Accepts(l, u.su) BY <1>1, <1>4, ReceiverIgnores
  <2>q. QED BY <1>2, <1>3, <2>1
<1>5. CASE u.su.fib = x
  <2>1. x = y /\ Forth(Tail(L), 1 - x, y, had, front, sent) BY <1>5, ForthRead
  <2>2. PICK n \in had .. front - 1 :
          /\ u.su.fsn = Num(n)
          /\ u.su.kind = "MSU" => u.msu = n /\ n > had
          /\ u.su.kind = "MSU" => Forth(Tail(L), x, y, n, front, sent)
    BY <1>5, ForthRead
  <2>3. n \in had .. (had + SeqMod) - 1 BY <1>3
  <2>4. /\ Accepts(l, u.su) <=> u.su.kind = "MSU" /\ n = had + 1
        /\ Receiver(r, IF Accepts(l, u.su) THEN n ELSE had,
                       IF n = had \/ Accepts(l, u.su) THEN x ELSE 1 - x)
    BY <1>1, <1>5, <2>2, <2>3, ReceiverReads
  <2>5. Back(K, 1 - x, y, acked, had) /\ Back(K, x, y, acked, had + 1) BY <2>1, BackAsks
  <2>6. 1 - x \in Bit BY DEF Bit
  <2> HIDE DEF u, r
  <2>7. CASE Accepts(l, u.su)
    <3>1. n = had + 1 /\ u.su.kind = "MSU" /\ u.msu = n /\ had + 1 < front
      BY <2>2, <2>4, <2>7
    <3>2. Receiver(r, had + 1, x) /\ Forth(Tail(L), x, y, had + 1, front, sent)
      BY <2>2, <2>4, <2>7, <3>1
    <3>q. QED BY <2>5, <2>7, <3>1, <3>2 DEF u, r
  <2>8. CASE ~Accepts(l, u.su) /\ n = had
    <3>1. Receiver(r, had, x) BY <2>4, <2>8
    <3>q. QED BY <1>2, <1>3, <2>8, <3>1 DEF u, r
  <2>9. CASE ~Accepts(l, u.su) /\ n # had
    <3>1. Receiver(r, had, 1 - x) BY <2>4, <2>9
    <3>q. QED BY <1>3, <2>1, <2>5, <2>6, <2>9, <3>1 DEF u, r
  <2>q. QED BY <2>7, <2>8, <2>9
<1>q. QED BY <1>4, <1>5

-------------------------------------------------------------------------------
(* Types. *)

LEMMA PeerOther ==
    ASSUME NEW a \in End, NEW b \in End, a # b
    PROVE  End = {a, b} /\ Peer(a) = b /\ Peer(b) = a
<1>1. End = {a, b} BY EndAssumption
<1>q. QED BY <1>1 DEF Peer

LEMMA PeerType ==
    ASSUME NEW e \in End
    PROVE  Peer(e) \in End /\ Peer(e) # e
<1>1. PICK f \in End : f # e BY EndAssumption
<1>q. QED BY <1>1, PeerOther

\* A link in service is a link.
LEMMA InServiceType == InServiceLink \in Link
<1> DEFINE id == [t \in Timer |-> IF t \in {"t3", "t7"} THEN 0 ELSE -1]
<1>1. NewLink \in Link /\ NewLink.tm \in TimerTable(Timer) BY NewLinkType DEF Link
<1>2. id \in [Timer -> SlotId] BY MaxSchedAssumption DEF SlotId
<1>3. [NewLink.tm EXCEPT !.id = id] \in TimerTable(Timer) BY <1>1, <1>2 DEF TimerTable
<1>4. <<"LINK_UP">> \in Seq(LinkEvent) BY DEF LinkEvent
<1> DEFINE tm == [NewLink.tm EXCEPT !.id = id]
<1>5. InServiceLink = [NewLink EXCEPT !.state = "INSERVICE", !.emergency = TRUE,
                         !.provingperiod = "t4e", !.autotxsutype = "FISU",
                         !.lastsurxd = "FISU", !.ev = <<"LINK_UP">>, !.tm = tm]
  BY DEF InServiceLink, NewLink, NewTimerTable
<1> HIDE DEF tm, id
<1>q. QED BY <1>1, <1>3, <1>4, <1>5 DEF Link, LinkState, tm

\* What mtp2_transmit writes is a signal unit.
LEMMA WrittenType ==
    ASSUME NEW l \in Link, NEW r \in Link
    PROVE  WrittenSus(l, r) \subseteq LineSu
<1>1. /\ l.tx_buf \in Seq(TxMsu) /\ l.tx_q \in Seq(Msu) /\ l.retransmit_pos \in Msu \cup {NoMsu}
      /\ l.autotxsutype \in SuKind /\ r.curfsn \in Seq7 /\ r.curbib \in Bit
  BY DEF Link, SuKind
<1>2. ASSUME NEW kind \in SuKind, NEW n \in Seq7, NEW b \in Bit PROVE Header(r, kind, n, b) \in Su
  BY DEF Header, Su, Link
<1>3. "MSU" \in SuKind BY DEF SuKind
<1> DEFINE kept == {i \in DOMAIN l.tx_buf : l.tx_buf[i].msu = l.retransmit_pos}
           any  == {[su |-> Header(r, "MSU", n, b), msu |-> m] :
                        n \in Seq7, b \in Bit, m \in Msu}
           Old(i) == [su |-> Header(r, "MSU", l.tx_buf[i].fsn, l.tx_buf[i].bib),
                      msu |-> l.retransmit_pos]
           new  == [su |-> Header(r, "MSU", r.curfsn, r.curbib), msu |-> Head(l.tx_q)]
           fill == [su |-> Header(r, l.autotxsutype, r.curfsn, r.curbib), msu |-> NoMsu]
<1>4. WrittenSus(l, r) =
        IF l.retransmit_pos # NoMsu
        THEN IF kept = {} THEN any ELSE {Old(i) : i \in {Least(kept)}}
        ELSE IF l.tx_q # <<>> THEN {new} ELSE {fill}
  BY DEF WrittenSus
<1>5. any \subseteq LineSu BY <1>2, <1>3 DEF LineSu
<1>6. kept # {} => Old(Least(kept)) \in LineSu
  <2>1. HAVE kept # {}
  <2>2. kept \subseteq 1 .. Len(l.tx_buf) BY <1>1, LenProperties
  <2>3. kept \subseteq Nat BY <2>2
  <2>4. Least(kept) \in kept BY <2>1, <2>3, LeastExists
  <2> DEFINE k == Least(kept)
  <2>5. k \in 1 .. Len(l.tx_buf) BY <2>2, <2>4
  <2> HIDE DEF k, kept
  <2>6. l.tx_buf[k].fsn \in Seq7 /\ l.tx_buf[k].bib \in Bit
    <3>1. l.tx_buf[k] \in TxMsu BY <1>1, <2>5, ElementOfSeq
    <3>q. QED BY <3>1 DEF TxMsu
  <2>7. Old(k) \in LineSu BY <1>1, <1>2, <1>3, <2>6 DEF LineSu
  <2>q. QED BY <2>7 DEF k
<1>7. l.tx_q # <<>> => new \in LineSu
  <2>1. HAVE l.tx_q # <<>>
  <2>2. Head(l.tx_q) \in Msu BY <1>1, <2>1, HeadTailProperties
  <2>q. QED BY <1>1, <1>2, <1>3, <2>2 DEF LineSu
<1>8. fill \in LineSu BY <1>1, <1>2 DEF LineSu
<1> HIDE DEF any, Old, new, fill, kept
<1>q. QED BY <1>4, <1>5, <1>6, <1>7, <1>8

LEMMA TypeInit == Init => TypeOK
<1> SUFFICES ASSUME Init PROVE TypeOK OBVIOUS
<1>1. <<>> \in Seq(LineSu) OBVIOUS
<1>2. lk \in [End -> Link] BY NewLinkType, InServiceType DEF Init
<1>3. started \in [End -> BOOLEAN] /\ topic \in Topic BY BoundAssumption DEF Init
<1>4. faults \in 0 .. MaxFaults[topic] BY <1>3, BoundAssumption DEF Init
<1>q. QED BY <1>1, <1>2, <1>3, <1>4 DEF Init, TypeOK

\* The message given next is a message.
LEMMA NextGiven ==
    ASSUME TypeOK, NEW e \in End, CanGive(e)
    PROVE  given[Peer(e)] \in Nat /\ given[Peer(e)] + 1 \in Msu
<1> DEFINE n == given[Peer(e)] + 1
           m == MaxMsgs[topic][e]
<1>1. given[Peer(e)] \in Nat BY PeerType DEF TypeOK
<1>2. m \in Nat /\ 1 .. m \subseteq Msu BY MsgAssumption DEF TypeOK
<1>3. n <= m BY <1>1, <1>2 DEF CanGive
<1>4. n \in 1 .. m BY <1>1, <1>2, <1>3
<1>q. QED BY <1>1, <1>2, <1>4

\* Every action keeps the types.
LEMMA TypeNext == TypeOK /\ [Next]_vars => TypeOK'
<1> SUFFICES ASSUME TypeOK, [Next]_vars PROVE TypeOK' OBVIOUS
<1>0. /\ \A e \in End : /\ lk[e] \in Link /\ line[e] \in Seq(LineSu)
                        /\ given[e] \in Nat /\ Peer(e) \in End
      /\ \A f : Fault(f) => faults' \in 0 .. MaxFaults[topic]
  <2>1. MaxFaults[topic] \in Nat BY BoundAssumption DEF TypeOK
  <2>2. \A f : Fault(f) => faults' \in 0 .. MaxFaults[topic] BY <2>1 DEF TypeOK, Fault
  <2>q. QED BY <2>2, PeerType DEF TypeOK
<1>1. ASSUME NEW e \in End, Give(e) PROVE TypeOK'
  <2>1. given[Peer(e)] + 1 \in Msu BY <1>1, NextGiven DEF Give
  <2>2. Mtp2Msu(lk[e], given[Peer(e)] + 1) \in Link BY <1>0, <2>1, MsuType
  <2>q. QED BY SMTT(30), <1>0, <1>1, <2>2 DEF Give, TypeOK
<1>2. ASSUME NEW e \in End, Read(e) PROVE TypeOK'
  <2>1. line[e] # <<>> BY <1>2 DEF Read
  <2>2. Head(line[e]) \in LineSu /\ Tail(line[e]) \in Seq(LineSu)
    BY <1>0, <2>1, HeadTailProperties
  <2> DEFINE in == Head(line[e])
  <2>3. in.su \in Su /\ in.msu \in Msu \cup {NoMsu} BY <2>2 DEF LineSu
  <2>4. Receive(lk[e], in.su) \in Link BY <1>0, <2>3, ReceiveType
  <2>5. /\ lk' = [lk EXCEPT ![e] = Receive(lk[e], in.su)]
        /\ got' = [got EXCEPT ![e] = IF Accepts(lk[e], in.su) THEN in.msu ELSE got[e]]
        /\ line' = [line EXCEPT ![e] = Tail(line[e])]
        /\ UNCHANGED <<topic, started, given, faults>>
    BY <1>2 DEF Read
  <2> HIDE DEF in
  <2>q. QED BY <1>0, <2>2, <2>3, <2>4, <2>5 DEF TypeOK
<1>3. ASSUME NEW e \in End, Write(e) PROVE TypeOK'
  <2> DEFINE r == Transmit(lk[e], TRUE)
  <2>1. r \in Link BY <1>0, TransmitType
  <2>2. WrittenSus(lk[e], r) \subseteq LineSu BY <1>0, <2>1, WrittenType
  <2>3. /\ lk' = [lk EXCEPT ![e] = r]
        /\ \E out \in WrittenSus(lk[e], r) :
             line' = [line EXCEPT ![Peer(e)] = Append(line[Peer(e)], out)]
        /\ UNCHANGED <<topic, started, given, got, faults>>
    BY <1>3 DEF Write
  <2> HIDE DEF r
  <2>4. PICK out \in LineSu : line' = [line EXCEPT ![Peer(e)] = Append(line[Peer(e)], out)]
    BY <2>2, <2>3
  <2>5. Append(line[Peer(e)], out) \in Seq(LineSu) BY <1>0, <2>4, AppendProperties
  <2>q. QED BY <1>0, <2>1, <2>3, <2>4, <2>5 DEF TypeOK
<1>4. ASSUME NEW e \in End, WriteFails(e) PROVE TypeOK'
  <2>1. Transmit(lk[e], FALSE) \in Link BY <1>0, TransmitType
  <2>q. QED BY <1>0, <1>4, <2>1 DEF WriteFails, TypeOK
<1>5. ASSUME NEW e \in End, Lose(e) PROVE TypeOK'
  <2>1. PICK i \in DOMAIN line[e] :
          line' = [line EXCEPT ![e] = SubSeq(@, 1, i - 1) \o SubSeq(@, i + 1, Len(@))]
    BY <1>5 DEF Lose
  <2>2. SubSeq(line[e], 1, i - 1) \o SubSeq(line[e], i + 1, Len(line[e])) \in Seq(LineSu)
    BY <1>0, LossThinned
  <2>q. QED BY <1>0, <1>5, <2>1, <2>2 DEF Lose, TypeOK
<1>6. ASSUME NEW e \in End, CheckEvent(e) PROVE TypeOK'
  <2> DEFINE popped == [lk[e] EXCEPT !.ev = Tail(lk[e].ev)]
             n      == given[Peer(e)] + 1
  <2>1. popped \in Link
    <3>1. lk[e].ev \in Seq(LinkEvent) /\ lk[e].ev # <<>> BY <1>0, <1>6 DEF Link, CheckEvent
    <3>2. Tail(lk[e].ev) \in Seq(LinkEvent) BY <3>1, HeadTailProperties
    <3>q. QED BY ZenonT(60), <1>0, <3>2 DEF Link
  <2>2. \/ /\ CanGive(e)
           /\ given' = [given EXCEPT ![Peer(e)] = n]
           /\ lk' = [lk EXCEPT ![e] = Mtp2Msu(popped, n)]
        \/ lk' = [lk EXCEPT ![e] = popped] /\ UNCHANGED given
    BY <1>6 DEF CheckEvent
  <2>3. UNCHANGED <<topic, started, line, got, faults>> BY <1>6 DEF CheckEvent
  <2>4. CanGive(e) => n \in Nat /\ Mtp2Msu(popped, n) \in Link
    <3>1. CanGive(e) => n \in Msu /\ n \in Nat BY NextGiven
    <3> HIDE DEF popped, n
    <3>q. QED BY <2>1, <3>1, MsuType
  <2> HIDE DEF popped, n
  <2>5. CASE CanGive(e) /\ given' = [given EXCEPT ![Peer(e)] = n]
             /\ lk' = [lk EXCEPT ![e] = Mtp2Msu(popped, n)]
    BY <1>0, <2>3, <2>4, <2>5 DEF TypeOK
  <2>6. CASE lk' = [lk EXCEPT ![e] = popped] /\ UNCHANGED given
    BY <1>0, <2>1, <2>3, <2>6 DEF TypeOK
  <2>q. QED BY <2>2, <2>5, <2>6
<1>7. ASSUME NEW e \in End, Start(e) PROVE TypeOK'
  <2>1. Mtp2Start(lk[e], TRUE) \in Link BY <1>0, StartType
  <2>q. QED BY <1>0, <1>7, <2>1 DEF Start, TypeOK
<1>8. ASSUME NEW e \in End, Stop(e) PROVE TypeOK'
  <2>1. Mtp2Stop(lk[e]) \in Link BY <1>0, SetStateType DEF Mtp2Stop, LinkState
  <2>q. QED BY <1>0, <1>8, <2>1 DEF Stop, TypeOK
<1>9. ASSUME NEW e \in End, Alarm(e) PROVE TypeOK'
  <2>1. Mtp2Alarm(lk[e]) \in Link BY <1>0, StateField DEF Mtp2Alarm, LinkState
  <2>q. QED BY <1>0, <1>9, <2>1 DEF Alarm, TypeOK
<1>10. ASSUME NEW e \in End, NoAlarm(e) PROVE TypeOK'
  <2>1. Mtp2NoAlarm(lk[e]) \in Link BY <1>0, StateField DEF Mtp2NoAlarm, LinkState
  <2>2. Mtp2Start(Mtp2NoAlarm(lk[e]), TRUE) \in Link BY <2>1, StartType
  <2>q. QED BY <1>0, <1>10, <2>2 DEF NoAlarm, TypeOK
<1>11. ASSUME NEW e \in End, NEW x \in Slot, Expire(e, x) PROVE TypeOK'
  <2>1. lk[e].tm.slot[x] # NoCallback
    <3>1. Firing[topic] \subseteq Timer BY BoundAssumption DEF TypeOK
    <3>q. QED BY <1>11, <3>1 DEF Expire, Timer, AlignTimer, NoCallback
  <2>2. RunSlot(lk[e], x) \in Link BY <1>0, <2>1, RunSlotType
  <2>q. QED BY <1>0, <1>11, <2>2 DEF Expire, TypeOK
<1>12. CASE UNCHANGED vars BY <1>12 DEF vars, TypeOK
<1>q. QED
  BY <1>1, <1>2, <1>3, <1>4, <1>5, <1>6, <1>7, <1>8, <1>9, <1>10, <1>11, <1>12 DEF Next

\* The two links and the line keep their types, whatever goes wrong (struct mtp2).
THEOREM TypeCorrect == Spec => []TypeOK
BY TypeInit, TypeNext, PTL DEF Spec

-------------------------------------------------------------------------------
(* The invariant. *)

\* Topics of two links in service that give messages one way, fewer at a time
\* than there are sequence numbers, over a line that loses signal units.
OneWay ==
    {t \in Topic : /\ Aligned[t] /\ Firing[t] = {} /\ Faulty[t] \subseteq {"loss", "write"}
                   /\ Window[t] < SeqMod
                   /\ \E e \in End : MaxMsgs[t][e] = 0}

\* A run of messages from a to b: sent are sent, acked acknowledged, front is the
\* one to be sent next, x and y are the bits that ask for retransmission and say
\* that it has begun.
RunBy(a, b, sent, acked, front, x, y) ==
    /\ Numbers(given[b], sent, acked, got[b], front)
    /\ Sender(lk[a], given[b], sent, acked, front, y)
    /\ Receiver(lk[b], got[b], x)
    /\ Forth(line[b], x, y, got[b], front, sent)
    /\ Back(line[a], x, y, acked, got[b])
    /\ given[a] = 0 /\ got[a] = 0

Run(a, b) ==
    \E sent, acked, front \in Nat, x, y \in Bit : RunBy(a, b, sent, acked, front, x, y)

IInv ==
    /\ TypeOK
    /\ topic \in OneWay
    /\ \A e \in End : started[e]
    /\ \A a, b \in End : a # b /\ MaxMsgs[topic][b] = 0 => Run(a, b)

\* What a step does to the messages for b: one more is given, the next one is
\* delivered, or neither.
Progress(b) ==
    \/ UNCHANGED <<given, got>>
    \/ given' = [given EXCEPT ![b] = @ + 1] /\ got' = got
    \/ got' = [got EXCEPT ![b] = @ + 1] /\ given' = given

\* A state of the run from a to b, and the names of what it is made of.
Running(a, b, sent, acked, front, x, y) ==
    /\ TypeOK /\ topic \in OneWay
    /\ a \in End /\ b \in End /\ a # b /\ MaxMsgs[topic][b] = 0
    /\ sent \in Nat /\ acked \in Nat /\ front \in Nat /\ x \in Bit /\ y \in Bit
    /\ RunBy(a, b, sent, acked, front, x, y)

LEMMA RunningFacts ==
    ASSUME NEW a, NEW b, NEW sent, NEW acked, NEW front, NEW x, NEW y,
           Running(a, b, sent, acked, front, x, y)
    PROVE  /\ lk[a] \in Link /\ lk[b] \in Link
           /\ line[a] \in Seq(LineSu) /\ line[b] \in Seq(LineSu)
           /\ given[b] \in Nat /\ got[b] \in Nat
           /\ End = {a, b} /\ Peer(a) = b /\ Peer(b) = a
           /\ lk \in [End -> Link] /\ line \in [End -> Seq(LineSu)]
           /\ given \in [End -> Nat] /\ got \in [End -> Nat]
<1>1. a \in End /\ b \in End /\ a # b /\ TypeOK BY DEF Running
<1>2. got \in [End -> Nat]
  <2>1. Msu \cup {NoMsu} \subseteq Nat BY MsgAssumption
  <2>2. got \in [End -> Msu \cup {NoMsu}] BY <1>1 DEF TypeOK
  <2>q. QED BY <2>1, <2>2
<1>q. QED BY <1>1, <1>2, PeerOther DEF TypeOK

\* Only the end that has messages can give one.
LEMMA NoneGiven ==
    ASSUME NEW a, NEW b, NEW sent, NEW acked, NEW front, NEW x, NEW y,
           Running(a, b, sent, acked, front, x, y)
    PROVE  ~CanGive(b)
<1>1. Peer(b) = a /\ given[a] = 0 /\ MaxMsgs[topic][b] = 0
  BY RunningFacts DEF Running, RunBy
<1>q. QED BY <1>1 DEF CanGive

\* What the sender holds leaves a sequence number free for the next message.
LEMMA RoomToGive ==
    ASSUME NEW a, NEW b, NEW sent, NEW acked, NEW front, NEW x, NEW y,
           Running(a, b, sent, acked, front, x, y), CanGive(a)
    PROVE  /\ given[b] + 1 \in Msu /\ (given[b] + 1) - acked < SeqMod
           /\ given[b] < MaxMsgs[topic][a]
<1>0. TypeOK /\ a \in End /\ Peer(a) = b /\ given[b] \in Nat /\ got[b] \in Nat
  BY RunningFacts DEF Running
<1>1. given[b] + 1 \in Msu BY <1>0, NextGiven
<1>2. Window[topic] \in Nat /\ Window[topic] < SeqMod /\ SeqMod \in Nat
  BY BoundAssumption, SeqModAssumption DEF Running, OneWay, TypeOK
<1>3. Len(lk[a].tx_buf) = sent - acked /\ Len(lk[a].tx_q) = given[b] - sent
  BY DEF Running, RunBy, Sender, Saved, Waiting
<1>4. Holding(a) < Window[topic] /\ given[b] < MaxMsgs[topic][a] BY <1>0 DEF CanGive
<1>5. sent \in Nat /\ acked \in Nat BY DEF Running
<1>6. Holding(a) = (sent - acked) + (given[b] - sent) BY <1>3 DEF Holding
<1>7. (given[b] + 1) - acked < SeqMod BY <1>0, <1>2, <1>4, <1>5, <1>6
<1>q. QED BY <1>1, <1>4, <1>7

\* mtp2_msu, from ss7_check_event or not: the sender's link is r before.
LEMMA RunGives ==
    ASSUME NEW a, NEW b, NEW sent, NEW acked, NEW front, NEW x, NEW y,
           Running(a, b, sent, acked, front, x, y), CanGive(a),
           NEW l \in Link, SameData(lk[a], l),
           lk' = [lk EXCEPT ![a] = Mtp2Msu(l, given[b] + 1)],
           given' = [given EXCEPT ![b] = @ + 1],
           UNCHANGED <<line, got>>
    PROVE  RunBy(a, b, sent, acked, front, x, y)' /\ Progress(b)
<1> DEFINE g == given[b]
           r == Mtp2Msu(l, g + 1)
<1>0. /\ lk \in [End -> Link] /\ given \in [End -> Nat] /\ g \in Nat /\ got[b] \in Nat
      /\ a \in End /\ b \in End /\ a # b
      /\ sent \in Nat /\ acked \in Nat /\ front \in Nat
  BY RunningFacts DEF Running
<1>1. /\ Numbers(g, sent, acked, got[b], front)
      /\ Sender(lk[a], g, sent, acked, front, y) /\ Receiver(lk[b], got[b], x)
      /\ Forth(line[b], x, y, got[b], front, sent) /\ Back(line[a], x, y, acked, got[b])
      /\ given[a] = 0 /\ got[a] = 0
  BY DEF Running, RunBy
<1>2. g + 1 \in Msu /\ (g + 1) - acked < SeqMod BY RoomToGive
<1>3. sent <= g BY <1>1 DEF Numbers
<1>4. Sender(l, g, sent, acked, front, y) BY <1>1, SameSender
<1>5. Sender(r, g + 1, sent, acked, front, y)
  BY <1>0, <1>2, <1>3, <1>4, SenderGives
<1>6. Numbers(g + 1, sent, acked, got[b], front) BY <1>0, <1>1, <1>2 DEF Numbers
<1> HIDE DEF r
<1>7. /\ lk'[a] = r /\ lk'[b] = lk[b] /\ given'[b] = g + 1 /\ given'[a] = given[a]
  BY <1>0 DEF r
<1> HIDE DEF g
<1>8. RunBy(a, b, sent, acked, front, x, y)' BY <1>1, <1>5, <1>6, <1>7 DEF RunBy
<1>q. QED BY <1>8 DEF Progress

\* A step that only touches what is no data.
LEMMA RunKeeps ==
    ASSUME NEW a, NEW b, NEW sent, NEW acked, NEW front, NEW x, NEW y,
           Running(a, b, sent, acked, front, x, y),
           SameData(lk[a], lk'[a]), SameData(lk[b], lk'[b]),
           UNCHANGED <<line, given, got>>
    PROVE  RunBy(a, b, sent, acked, front, x, y)' /\ Progress(b)
<1>1. /\ Numbers(given[b], sent, acked, got[b], front)
      /\ Sender(lk[a], given[b], sent, acked, front, y) /\ Receiver(lk[b], got[b], x)
      /\ Forth(line[b], x, y, got[b], front, sent) /\ Back(line[a], x, y, acked, got[b])
      /\ given[a] = 0 /\ got[a] = 0
  BY DEF Running, RunBy
<1>2. Sender(lk'[a], given[b], sent, acked, front, y) /\ Receiver(lk'[b], got[b], x)
  BY <1>1, SameSender, SameReceiver
<1>3. RunBy(a, b, sent, acked, front, x, y)' BY <1>1, <1>2 DEF RunBy
<1>q. QED BY <1>3 DEF Progress

\* The sender writes, or write() fails.
LEMMA RunSends ==
    ASSUME NEW a, NEW b, NEW sent, NEW acked, NEW front, NEW x, NEW y,
           Running(a, b, sent, acked, front, x, y), NEW ok \in BOOLEAN,
           lk' = [lk EXCEPT ![a] = Transmit(@, ok)],
           IF ok THEN \E out \in WrittenSus(lk[a], Transmit(lk[a], TRUE)) :
                        line' = [line EXCEPT ![b] = Append(@, out)]
                 ELSE line' = line,
           UNCHANGED <<given, got>>
    PROVE  Run(a, b)' /\ Progress(b)
<1> DEFINE r == Transmit(lk[a], ok)
           g == given[b]
<1>0. /\ lk[a] \in Link /\ lk[b] \in Link /\ line[b] \in Seq(LineSu)
      /\ lk \in [End -> Link] /\ line \in [End -> Seq(LineSu)]
      /\ g \in Nat /\ got[b] \in Nat /\ a \in End /\ b \in End /\ a # b
      /\ sent \in Nat /\ acked \in Nat /\ front \in Nat /\ x \in Bit /\ y \in Bit
  BY RunningFacts DEF Running
<1>1. /\ Numbers(g, sent, acked, got[b], front)
      /\ Sender(lk[a], g, sent, acked, front, y) /\ Receiver(lk[b], got[b], x)
      /\ Forth(line[b], x, y, got[b], front, sent) /\ Back(line[a], x, y, acked, got[b])
      /\ given[a] = 0 /\ got[a] = 0
  BY DEF Running, RunBy
<1> HIDE DEF g
<1>2. acked <= got[b] /\ got[b] < front /\ front <= sent + 1 /\ sent <= g /\ g - acked < SeqMod
  BY <1>1 DEF Numbers
<1>3. \E sent2, front2 \in Nat :
        /\ sent <= sent2 /\ sent2 <= g /\ front <= front2 /\ front2 <= sent2 + 1
        /\ Sender(r, g, sent2, acked, front2, y)
        /\ ok => Goes(lk[a], r, y, front, front2, sent2)
  BY ZenonT(60), <1>0, <1>1, SenderWrites
<1>4. r \in Link BY <1>0, TransmitType
<1>5. lk'[a] = r /\ lk'[b] = lk[b] BY <1>0
<1>6. WrittenSus(lk[a], r) \subseteq LineSu BY <1>0, <1>4, WrittenType
<1>7. ok => \E out \in WrittenSus(lk[a], r) : line' = [line EXCEPT ![b] = Append(line[b], out)]
  OBVIOUS
<1> HIDE DEF r
<1>8. PICK sent2 \in Nat, front2 \in Nat :
        /\ sent <= sent2 /\ sent2 <= g /\ front <= front2 /\ front2 <= sent2 + 1
        /\ Sender(r, g, sent2, acked, front2, y)
        /\ ok => Goes(lk[a], r, y, front, front2, sent2)
  BY <1>3
<1>9. Numbers(g, sent2, acked, got[b], front2) BY <1>0, <1>2, <1>8 DEF Numbers
<1>10. Forth(line'[b], x, y, got[b], front2, sent2) /\ line'[a] = line[a]
  <2>1. CASE ok
    <3>1. PICK kind \in {"MSU", "FISU"}, n \in front - 1 .. front2 - 1, m \in 0 .. sent2 :
            /\ kind = "MSU" => n >= front /\ m = n
            /\ WrittenSus(lk[a], r) = {Unit(kind, n, y, m)}
      BY <1>8, <2>1 DEF Goes
    <3>2. Unit(kind, n, y, m) \in LineSu BY <1>6, <3>1
    <3>3. line' = [line EXCEPT ![b] = Append(line[b], Unit(kind, n, y, m))]
      BY <1>7, <2>1, <3>1
    <3>4. Forth(Append(line[b], Unit(kind, n, y, m)), x, y, got[b], front2, sent2)
      BY <1>0, <1>1, <1>2, <1>8, <3>1, <3>2, ForthWritten
    <3>q. QED BY <1>0, <3>3, <3>4
  <2>2. CASE ~ok
    <3>1. PICK N \in [1 .. Len(line[b]) -> Nat] :
            ForthBy(line[b], N, x, y, got[b], front, sent)
      BY <1>1 DEF Forth
    <3>2. \A i \in 1 .. Len(line[b]) : Shows(line[b][i], N[i], x, got[b], front2, sent2)
      <4>1. TAKE i \in 1 .. Len(line[b])
      <4>2. Shows(line[b][i], N[i], x, got[b], front, sent) BY <3>1 DEF ForthBy
      <4>q. QED BY SMTT(30), <1>0, <1>8, <4>2 DEF Shows
    <3>3. ForthBy(line[b], N, x, y, got[b], front2, sent2) BY <3>1, <3>2 DEF ForthBy
    <3>4. line' = line BY <2>2
    <3>q. QED BY <3>3, <3>4 DEF Forth
  <2>q. QED BY <2>1, <2>2
<1>11. RunBy(a, b, sent2, acked, front2, x, y)'
  BY <1>1, <1>5, <1>8, <1>9, <1>10 DEF RunBy, g
<1>12. Run(a, b)' BY <1>0, <1>8, <1>11 DEF Run
<1>q. QED BY <1>12 DEF Progress

\* The receiver writes.
LEMMA RunAcknowledges ==
    ASSUME NEW a, NEW b, NEW sent, NEW acked, NEW front, NEW x, NEW y,
           Running(a, b, sent, acked, front, x, y), NEW ok \in BOOLEAN,
           lk' = [lk EXCEPT ![b] = Transmit(@, ok)],
           IF ok THEN \E out \in WrittenSus(lk[b], Transmit(lk[b], TRUE)) :
                        line' = [line EXCEPT ![a] = Append(@, out)]
                 ELSE line' = line,
           UNCHANGED <<given, got>>
    PROVE  Run(a, b)' /\ Progress(b)
<1> DEFINE r == Transmit(lk[b], ok)
<1>0. /\ lk[a] \in Link /\ lk[b] \in Link /\ line[a] \in Seq(LineSu)
      /\ lk \in [End -> Link] /\ line \in [End -> Seq(LineSu)]
      /\ given[b] \in Nat /\ got[b] \in Nat /\ a \in End /\ b \in End /\ a # b
      /\ sent \in Nat /\ acked \in Nat /\ front \in Nat /\ x \in Bit /\ y \in Bit
  BY RunningFacts DEF Running
<1>1. /\ Numbers(given[b], sent, acked, got[b], front)
      /\ Sender(lk[a], given[b], sent, acked, front, y) /\ Receiver(lk[b], got[b], x)
      /\ Forth(line[b], x, y, got[b], front, sent) /\ Back(line[a], x, y, acked, got[b])
      /\ given[a] = 0 /\ got[a] = 0
  BY DEF Running, RunBy
<1>2. r \in Link BY <1>0, TransmitType
<1>3. Receiver(r, got[b], x) /\ WrittenSus(lk[b], r) = {Ack(got[b], x)}
  BY <1>0, <1>1, ReceiverWrites
<1>4. WrittenSus(lk[b], r) \subseteq LineSu BY <1>0, <1>2, WrittenType
<1>5. ok => \E out \in WrittenSus(lk[b], r) : line' = [line EXCEPT ![a] = Append(line[a], out)]
  OBVIOUS
<1>6. lk'[b] = r /\ lk'[a] = lk[a] BY <1>0
<1> HIDE DEF r
<1>7. Back(line'[a], x, y, acked, got[b]) /\ line'[b] = line[b]
  <2>1. CASE ok
    <3>1. line' = [line EXCEPT ![a] = Append(line[a], Ack(got[b], x))] BY <1>3, <1>5, <2>1
    <3>2. Ack(got[b], x) \in LineSu BY <1>3, <1>4
    <3>3. acked <= got[b] BY <1>1 DEF Numbers
    <3>4. Back(Append(line[a], Ack(got[b], x)), x, y, acked, got[b])
      BY <1>0, <1>1, <3>2, <3>3, BackWritten
    <3>q. QED BY <1>0, <3>1, <3>4
  <2>2. CASE ~ok BY <1>1, <2>2
  <2>q. QED BY <2>1, <2>2
<1>8. RunBy(a, b, sent, acked, front, x, y)' BY <1>1, <1>3, <1>6, <1>7 DEF RunBy
<1>9. Run(a, b)' BY <1>0, <1>8 DEF Run
<1>q. QED BY <1>9 DEF Progress

\* The sender reads.
LEMMA RunHears ==
    ASSUME NEW a, NEW b, NEW sent, NEW acked, NEW front, NEW x, NEW y,
           Running(a, b, sent, acked, front, x, y), Read(a)
    PROVE  Run(a, b)' /\ Progress(b)
<1> DEFINE in == Head(line[a])
           r  == Receive(lk[a], in.su)
           g  == given[b]
           h  == got[b]
<1>0. /\ lk[a] \in Link /\ lk[b] \in Link /\ line[a] \in Seq(LineSu) /\ line[b] \in Seq(LineSu)
      /\ lk \in [End -> Link] /\ line \in [End -> Seq(LineSu)] /\ got \in [End -> Nat]
      /\ g \in Nat /\ h \in Nat /\ a \in End /\ b \in End /\ a # b
      /\ sent \in Nat /\ acked \in Nat /\ front \in Nat /\ x \in Bit /\ y \in Bit
  BY RunningFacts DEF Running
<1>1. /\ Numbers(g, sent, acked, h, front)
      /\ Sender(lk[a], g, sent, acked, front, y) /\ Receiver(lk[b], h, x)
      /\ Forth(line[b], x, y, h, front, sent) /\ Back(line[a], x, y, acked, h)
      /\ given[a] = 0 /\ got[a] = 0
  BY DEF Running, RunBy
<1>2. /\ line[a] # <<>>
      /\ lk' = [lk EXCEPT ![a] = r]
      /\ got' = [got EXCEPT ![a] = IF Accepts(lk[a], in.su) THEN in.msu ELSE @]
      /\ line' = [line EXCEPT ![a] = Tail(@)] /\ given' = given
  BY DEF Read
<1> HIDE DEF g, h
<1>3. PICK n \in acked .. h, bit \in Bit :
        /\ in = Ack(n, bit)
        /\ bit # y => bit = x /\ n = h
        /\ Back(Tail(line[a]), x, bit, n, h)
  BY <1>0, <1>1, <1>2, BackRead
<1> DEFINE f == IF bit = y THEN front ELSE h + 1
<1>4. Sender(r, g, sent, n, f, bit)
  <2>1. bit # y => n = h BY <1>3
  <2>2. Sender(Receive(lk[a], Ack(n, bit).su), g, sent, n, f, bit)
    BY <1>0, <1>1, <2>1, SenderReceives
  <2>q. QED BY <1>3, <2>2
<1>5. ~Accepts(lk[a], in.su) BY <1>3 DEF Accepts, Ack
<1> HIDE DEF r, in
<1>6. lk'[a] = r /\ lk'[b] = lk[b] /\ line'[a] = Tail(line[a]) /\ line'[b] = line[b]
  BY <1>0, <1>2
<1>7. got' = got BY <1>0, <1>2, <1>5
<1>8. Numbers(g, sent, n, h, f) /\ f \in Nat /\ n \in Nat
  BY <1>0, <1>1, SeqModAssumption DEF Numbers
<1>9. Forth(line[b], x, bit, h, f, sent)
  <2>1. CASE bit = y BY <1>1, <2>1
  <2>2. CASE bit # y
    <3>1. bit = x /\ x # y BY <1>3, <2>2
    <3>q. QED BY <1>0, <1>1, <2>2, <3>1, ForthTurns
  <2>q. QED BY <2>1, <2>2
<1> HIDE DEF f
<1>10. PICK front2 \in Nat : front2 = f BY <1>8
<1>11. RunBy(a, b, sent, n, front2, x, bit)'
  BY <1>1, <1>2, <1>3, <1>4, <1>6, <1>7, <1>8, <1>9, <1>10 DEF RunBy, g, h
<1>12. Run(a, b)' BY <1>0, <1>8, <1>11 DEF Run
<1>q. QED BY <1>2, <1>7, <1>12 DEF Progress

\* The receiver reads.
LEMMA RunReads ==
    ASSUME NEW a, NEW b, NEW sent, NEW acked, NEW front, NEW x, NEW y,
           Running(a, b, sent, acked, front, x, y), Read(b)
    PROVE  Run(a, b)' /\ Progress(b)
<1> DEFINE in == Head(line[b])
           r  == Receive(lk[b], in.su)
           g  == given[b]
           h  == got[b]
           more == IF Accepts(lk[b], in.su) THEN h + 1 ELSE h
<1>0. /\ lk[a] \in Link /\ lk[b] \in Link /\ line[a] \in Seq(LineSu) /\ line[b] \in Seq(LineSu)
      /\ lk \in [End -> Link] /\ line \in [End -> Seq(LineSu)] /\ got \in [End -> Nat]
      /\ g \in Nat /\ h \in Nat /\ a \in End /\ b \in End /\ a # b
      /\ sent \in Nat /\ acked \in Nat /\ front \in Nat /\ x \in Bit /\ y \in Bit
  BY RunningFacts DEF Running
<1>1. /\ Numbers(g, sent, acked, h, front)
      /\ Sender(lk[a], g, sent, acked, front, y) /\ Receiver(lk[b], h, x)
      /\ Forth(line[b], x, y, h, front, sent) /\ Back(line[a], x, y, acked, h)
      /\ given[a] = 0 /\ got[a] = 0
  BY DEF Running, RunBy
<1>2. /\ line[b] # <<>>
      /\ lk' = [lk EXCEPT ![b] = r]
      /\ got' = [got EXCEPT ![b] = IF Accepts(lk[b], in.su) THEN in.msu ELSE @]
      /\ line' = [line EXCEPT ![b] = Tail(@)] /\ given' = given
  BY DEF Read
<1>3. /\ Accepts(lk[b], in.su) => in.msu = more
      /\ more < front
      /\ \E bit \in Bit : /\ Receiver(r, more, bit)
                          /\ Forth(Tail(line[b]), bit, y, more, front, sent)
                          /\ Back(line[a], bit, y, acked, more)
  <2> DEFINE l == lk[b]
             L == line[b]
             K == line[a]
  <2>1. /\ l \in Link /\ L \in Seq(LineSu) /\ K \in Seq(LineSu) /\ L # <<>>
        /\ Receiver(l, h, x) /\ Forth(L, x, y, h, front, sent) /\ Back(K, x, y, acked, h)
    BY <1>0, <1>1, <1>2
  <2> HIDE DEF l, L, K, g, h
  <2> DEFINE m == IF Accepts(l, Head(L).su) THEN h + 1 ELSE h
  <2>2. /\ Accepts(l, Head(L).su) => Head(L).msu = m
        /\ m < front
        /\ \E bit \in Bit : /\ Receiver(Receive(l, Head(L).su), m, bit)
                            /\ Forth(Tail(L), bit, y, m, front, sent)
                            /\ Back(K, bit, y, acked, m)
    BY <1>0, <1>1, <2>1, ReceiverReceives
  <2>q. QED BY <2>2 DEF l, L, K
<1>4. got' = [got EXCEPT ![b] = more] BY <1>0, <1>2, <1>3
<1>5. more \in {h, h + 1} /\ more < front /\ more \in Nat BY <1>0, <1>3
<1> HIDE DEF in, r, more
<1>6. lk'[a] = lk[a] /\ lk'[b] = r /\ line'[a] = line[a] /\ line'[b] = Tail(line[b])
      /\ got'[b] = more /\ got'[a] = got[a] /\ given' = given
  BY <1>0, <1>2, <1>4
<1>7. PICK bit \in Bit : /\ Receiver(r, more, bit)
                         /\ Forth(Tail(line[b]), bit, y, more, front, sent)
                         /\ Back(line[a], bit, y, acked, more)
  BY <1>3
<1> HIDE DEF g, h
<1>8. Numbers(g, sent, acked, more, front) BY <1>0, <1>1, <1>5 DEF Numbers
<1>9. RunBy(a, b, sent, acked, front, bit, y)'
  BY <1>1, <1>6, <1>7, <1>8 DEF RunBy, g
<1>10. Run(a, b)' BY <1>0, <1>9 DEF Run
<1>11. Progress(b)
  <2>1. CASE more = h
    <3>1. got' = got BY <1>0, <1>4, <2>1 DEF h
    <3>q. QED BY <1>2, <3>1 DEF Progress
  <2>2. CASE more = h + 1 BY <1>2, <1>4, <2>2 DEF Progress, h
  <2>q. QED BY <1>5, <2>1, <2>2
<1>q. QED BY <1>10, <1>11

\* A unit is lost.
LEMMA RunLoses ==
    ASSUME NEW a, NEW b, NEW sent, NEW acked, NEW front, NEW x, NEW y,
           Running(a, b, sent, acked, front, x, y), NEW e \in End, Lose(e)
    PROVE  RunBy(a, b, sent, acked, front, x, y)' /\ Progress(b)
<1>0. /\ line \in [End -> Seq(LineSu)] /\ a \in End /\ b \in End /\ a # b /\ End = {a, b}
  BY RunningFacts DEF Running
<1>1. /\ Numbers(given[b], sent, acked, got[b], front)
      /\ Sender(lk[a], given[b], sent, acked, front, y) /\ Receiver(lk[b], got[b], x)
      /\ Forth(line[b], x, y, got[b], front, sent) /\ Back(line[a], x, y, acked, got[b])
      /\ given[a] = 0 /\ got[a] = 0
  BY DEF Running, RunBy
<1>2. PICK i \in DOMAIN line[e] :
        line' = [line EXCEPT ![e] = SubSeq(line[e], 1, i - 1)
                                      \o SubSeq(line[e], i + 1, Len(line[e]))]
  BY DEF Lose
<1>3. UNCHANGED <<lk, given, got>> BY DEF Lose
<1>4. line[e] \in Seq(LineSu) BY <1>0
<1> DEFINE M == SubSeq(line[e], 1, i - 1) \o SubSeq(line[e], i + 1, Len(line[e]))
<1>5. M \in Seq(LineSu) /\ Thinned(line[e], M) BY <1>4, LossThinned
<1>6. line' = [line EXCEPT ![e] = M] BY <1>2
<1> HIDE DEF M
<1>7. CASE e = a
  <2>1. line'[a] = M /\ line'[b] = line[b] BY <1>0, <1>6, <1>7
  <2>2. Back(M, x, y, acked, got[b]) BY <1>1, <1>4, <1>5, <1>7, BackThinned
  <2>3. RunBy(a, b, sent, acked, front, x, y)' BY <1>1, <1>3, <2>1, <2>2 DEF RunBy
  <2>q. QED BY <1>3, <2>3 DEF Progress
<1>8. CASE e = b
  <2>1. line'[b] = M /\ line'[a] = line[a] BY <1>0, <1>6, <1>8
  <2>2. Forth(M, x, y, got[b], front, sent) BY <1>1, <1>4, <1>5, <1>8, ForthThinned
  <2>3. RunBy(a, b, sent, acked, front, x, y)' BY <1>1, <1>3, <2>1, <2>2 DEF RunBy
  <2>q. QED BY <1>3, <2>3 DEF Progress
<1>q. QED BY <1>0, <1>7, <1>8

LEMMA RunInit ==
    ASSUME Init, topic \in OneWay, NEW a \in End, NEW b \in End, a # b
    PROVE  Run(a, b)
<1>1. /\ lk[a] = InServiceLink /\ lk[b] = InServiceLink /\ line[a] = <<>> /\ line[b] = <<>>
      /\ given[a] = 0 /\ given[b] = 0 /\ got[a] = 0 /\ got[b] = 0
  BY MsgAssumption DEF Init, OneWay
<1>2. Numbers(0, 0, 0, 0, 1) BY SeqModAssumption DEF Numbers
<1>3. /\ InService(InServiceLink)
      /\ InServiceLink.curbib = 1 /\ InServiceLink.curfib = 1
      /\ InServiceLink.lastfsnacked = LastSeq /\ InServiceLink.curfsn = LastSeq
      /\ InServiceLink.tx_q = <<>> /\ InServiceLink.tx_buf = <<>>
      /\ InServiceLink.retransmit_pos = NoMsu
  BY DEF InServiceLink, NewLink, InService
<1> DEFINE s == InServiceLink
<1> HIDE DEF s
<1>4. Sender(s, 0, 0, 0, 1, 1)
  BY <1>3, NumFirst DEF Sender, Waiting, Saved, s
<1>5. Receiver(s, 0, 1) BY <1>3, NumFirst DEF Receiver, s
<1>6. Forth(<<>>, 1, 1, 0, 1, 0) /\ Back(<<>>, 1, 1, 0, 0)
  <2>1. 1 .. Len(<<>>) = {} OBVIOUS
  <2>2. [i \in {} |-> 0] \in [1 .. Len(<<>>) -> Nat] BY <2>1
  <2>q. QED BY <2>1, <2>2 DEF Forth, ForthBy, Back, BackBy
<1>7. RunBy(a, b, 0, 0, 1, 1, 1) BY <1>1, <1>2, <1>4, <1>5, <1>6 DEF RunBy, s
<1>8. 0 \in Nat /\ 1 \in Nat /\ 1 \in Bit BY DEF Bit
<1>q. QED BY <1>7, <1>8 DEF Run

LEMMA InvInit == Init /\ topic \in OneWay => IInv
<1> SUFFICES ASSUME Init, topic \in OneWay PROVE IInv OBVIOUS
<1>1. TypeOK BY TypeInit
<1>2. \A e \in End : started[e] BY DEF Init, OneWay
<1>q. QED BY <1>1, <1>2, RunInit DEF IInv

\* A step of either end, seen from the run from a to b.
LEMMA RunNext ==
    ASSUME IInv, [Next]_vars, NEW a \in End, NEW b \in End, a # b, MaxMsgs[topic][b] = 0
    PROVE  Run(a, b)' /\ Progress(b) /\ topic' = topic /\ started' = started
<1>0. TypeOK /\ topic \in OneWay /\ Run(a, b) /\ \A e \in End : started[e] BY DEF IInv
<1>1. PICK sent \in Nat, acked \in Nat, front \in Nat, x \in Bit, y \in Bit :
        RunBy(a, b, sent, acked, front, x, y)
  BY <1>0 DEF Run
<1>2. Running(a, b, sent, acked, front, x, y) BY <1>0, <1>1 DEF Running
<1>3. /\ lk[a] \in Link /\ lk[b] \in Link /\ lk \in [End -> Link]
      /\ End = {a, b} /\ Peer(a) = b /\ Peer(b) = a
  BY <1>2, RunningFacts
<1>4. RunBy(a, b, sent, acked, front, x, y)' => Run(a, b)' BY <1>1 DEF Run
<1>5. /\ Firing[topic] = {} /\ Faulty[topic] \subseteq {"loss", "write"}
      /\ \A e \in End : lk[e].state = "INSERVICE"
  BY <1>0, <1>1, <1>3 DEF OneWay, RunBy, Sender, Receiver, InService
<1>6. ASSUME NEW e \in End, Give(e) PROVE Run(a, b)' /\ Progress(b)
  <2>1. CanGive(e) BY <1>6 DEF Give
  <2>2. e = a BY <1>2, <1>3, <2>1, NoneGiven
  <2>3. /\ lk' = [lk EXCEPT ![a] = Mtp2Msu(lk[a], given[b] + 1)]
        /\ given' = [given EXCEPT ![b] = @ + 1] /\ UNCHANGED <<line, got>>
    BY <1>3, <1>6, <2>2 DEF Give
  <2>4. SameData(lk[a], lk[a]) BY DEF SameData
  <2>q. QED BY <1>2, <1>3, <1>4, <2>1, <2>2, <2>3, <2>4, RunGives
<1>7. ASSUME NEW e \in End, Read(e) PROVE Run(a, b)' /\ Progress(b)
  BY <1>2, <1>3, <1>7, RunHears, RunReads
<1>8. ASSUME NEW e \in End, Write(e) PROVE Run(a, b)' /\ Progress(b)
  <2>1. /\ lk' = [lk EXCEPT ![e] = Transmit(@, TRUE)]
        /\ \E out \in WrittenSus(lk[e], Transmit(lk[e], TRUE)) :
             line' = [line EXCEPT ![Peer(e)] = Append(@, out)]
        /\ UNCHANGED <<given, got>>
    BY <1>8 DEF Write
  <2>2. CASE e = a BY <1>2, <1>3, <2>1, <2>2, RunSends
  <2>3. CASE e = b
    <3>1. lk' = [lk EXCEPT ![b] = Transmit(lk[b], TRUE)] BY <2>1, <2>3
    <3>2. \E out \in WrittenSus(lk[b], Transmit(lk[b], TRUE)) :
            line' = [line EXCEPT ![a] = Append(line[a], out)]
      BY <1>3, <2>1, <2>3
    <3>q. QED BY <1>2, <1>4, <2>1, <3>1, <3>2, RunAcknowledges
  <2>q. QED BY <1>3, <2>2, <2>3
<1>9. ASSUME NEW e \in End, WriteFails(e) PROVE Run(a, b)' /\ Progress(b)
  <2>1. /\ lk' = [lk EXCEPT ![e] = Transmit(@, FALSE)] /\ line' = line
        /\ UNCHANGED <<given, got>>
    BY <1>9 DEF WriteFails
  <2>2. CASE e = a BY <1>2, <2>1, <2>2, RunSends
  <2>3. CASE e = b BY <1>2, <2>1, <2>3, RunAcknowledges
  <2>q. QED BY <1>3, <2>2, <2>3
<1>10. ASSUME NEW e \in End, Lose(e) PROVE Run(a, b)' /\ Progress(b)
  BY <1>2, <1>4, <1>10, RunLoses
<1>11. ASSUME NEW e \in End, CheckEvent(e) PROVE Run(a, b)' /\ Progress(b)
  <2> DEFINE popped == [lk[e] EXCEPT !.ev = Tail(lk[e].ev)]
  <2>1. SameData(lk[e], popped) BY <1>3, OutOfBand
  <2>2. popped \in Link
    <3>1. lk[e].ev \in Seq(LinkEvent) /\ lk[e].ev # <<>> BY <1>3, <1>11 DEF Link, CheckEvent
    <3>2. Tail(lk[e].ev) \in Seq(LinkEvent) BY <3>1, HeadTailProperties
    <3>3. lk[e] \in Link BY <1>3
    <3>q. QED BY <3>2, <3>3 DEF Link
  <2>3. \/ /\ CanGive(e)
           /\ given' = [given EXCEPT ![Peer(e)] = @ + 1]
           /\ lk' = [lk EXCEPT ![e] = Mtp2Msu(popped, given[Peer(e)] + 1)]
        \/ lk' = [lk EXCEPT ![e] = popped] /\ UNCHANGED given
    BY <1>11 DEF CheckEvent
  <2>4. UNCHANGED <<line, got>> BY <1>11 DEF CheckEvent
  <2> HIDE DEF popped
  <2>5. CASE /\ CanGive(e)
             /\ given' = [given EXCEPT ![Peer(e)] = @ + 1]
             /\ lk' = [lk EXCEPT ![e] = Mtp2Msu(popped, given[Peer(e)] + 1)]
    <3>1. e = a BY <1>2, <1>3, <2>5, NoneGiven
    <3>q. QED BY <1>2, <1>3, <1>4, <2>1, <2>2, <2>4, <2>5, <3>1, RunGives
  <2>6. CASE lk' = [lk EXCEPT ![e] = popped] /\ UNCHANGED given
    <3>1. SameData(lk[a], lk[a]) /\ SameData(lk[b], lk[b]) BY DEF SameData
    <3>2. SameData(lk[a], lk'[a]) /\ SameData(lk[b], lk'[b]) BY <1>3, <2>1, <2>6, <3>1
    <3>3. UNCHANGED <<line, given, got>> BY <2>4, <2>6
    <3>q. QED BY <1>2, <1>4, <3>2, <3>3, RunKeeps
  <2>q. QED BY <2>3, <2>5, <2>6
<1>12. ASSUME NEW e \in End,
              Start(e) \/ Stop(e) \/ Alarm(e) \/ NoAlarm(e) \/ \E s \in Slot : Expire(e, s)
       PROVE  FALSE
  <2>1. started[e] /\ lk[e].state # "ALARM" BY <1>0, <1>5
  <2>2. ~Fault("stop") /\ ~Fault("alarm") BY <1>5 DEF Fault
  <2>q. QED BY <1>5, <1>12, <2>1, <2>2 DEF Start, Stop, Alarm, NoAlarm, Expire
<1>13. ASSUME UNCHANGED vars PROVE Run(a, b)' /\ Progress(b)
  <2>1. SameData(lk[a], lk'[a]) /\ SameData(lk[b], lk'[b]) /\ UNCHANGED <<line, given, got>>
    BY <1>13 DEF vars, SameData
  <2>2. RunBy(a, b, sent, acked, front, x, y)' /\ Progress(b) BY <1>2, <2>1, RunKeeps
  <2>q. QED BY <1>4, <2>2
<1>14. Run(a, b)' /\ Progress(b)
  BY <1>6, <1>7, <1>8, <1>9, <1>10, <1>11, <1>12, <1>13 DEF Next
<1>15. topic' = topic /\ started' = started
  BY <1>12 DEF Next, Give, Read, Write, WriteFails, Lose, CheckEvent, vars
<1>q. QED BY <1>14, <1>15

LEMMA InvNext == IInv /\ [Next]_vars => IInv'
<1> SUFFICES ASSUME IInv, [Next]_vars PROVE IInv' OBVIOUS
<1>1. TypeOK' BY TypeNext DEF IInv
<1>2. topic \in OneWay /\ \A e \in End : started[e] BY DEF IInv
<1>3. PICK a \in End, b \in End : a # b /\ MaxMsgs[topic][b] = 0
  <2>1. PICK b \in End : MaxMsgs[topic][b] = 0 BY <1>2 DEF OneWay
  <2>2. Peer(b) \in End /\ Peer(b) # b BY PeerType
  <2>q. QED BY <2>1, <2>2
<1>4. topic' = topic /\ started' = started BY <1>3, RunNext
<1>5. ASSUME NEW c \in End, NEW d \in End, c # d, MaxMsgs[topic][d] = 0 PROVE Run(c, d)'
  BY <1>5, RunNext
<1>q. QED BY <1>1, <1>2, <1>4, <1>5 DEF IInv

LEMMA InvHolds == Spec /\ topic \in OneWay => []IInv
BY InvInit, InvNext, PTL DEF Spec

-------------------------------------------------------------------------------
(* What the invariant says of the service. *)

\* The sender holds the messages that are not acknowledged.
LEMMA SenderHolds ==
    ASSUME NEW l \in Link, NEW g \in Nat, NEW sent \in Nat, NEW acked \in Nat,
           NEW front, NEW y, Sender(l, g, sent, acked, front, y), acked <= sent, sent <= g
    PROVE  Live(l) = acked + 1 .. g
<1>1. l.tx_buf \in Seq(TxMsu) /\ l.tx_q \in Seq(Msu) BY DEF Link
<1>2. Saved(l.tx_buf, sent, acked) /\ Waiting(l.tx_q, g, sent) BY DEF Sender
<1>3. DOMAIN l.tx_buf = 1 .. sent - acked /\ DOMAIN l.tx_q = 1 .. g - sent
  BY <1>1, <1>2, LenProperties DEF Saved, Waiting
<1>4. \A i \in 1 .. sent - acked : l.tx_buf[i].msu = (sent - i) + 1 BY <1>2, SavedAt
<1>5. \A i \in 1 .. g - sent : l.tx_q[i] = sent + i BY <1>2 DEF Waiting
<1> DEFINE saved   == {l.tx_buf[i].msu : i \in DOMAIN l.tx_buf}
           waiting == {l.tx_q[i] : i \in DOMAIN l.tx_q}
<1>6. saved = acked + 1 .. sent
  <2>1. ASSUME NEW m \in saved PROVE m \in acked + 1 .. sent
    <3>1. PICK i \in 1 .. sent - acked : m = l.tx_buf[i].msu BY <1>3, <2>1
    <3>2. m = (sent - i) + 1 BY <1>4, <3>1
    <3>q. QED BY <3>2
  <2>2. ASSUME NEW m \in acked + 1 .. sent PROVE m \in saved
    <3> DEFINE i == (sent - m) + 1
    <3>1. i \in 1 .. sent - acked /\ (sent - i) + 1 = m OBVIOUS
    <3> HIDE DEF i
    <3>2. l.tx_buf[i].msu = m BY <1>4, <3>1
    <3>q. QED BY <1>3, <3>1, <3>2
  <2>q. QED BY <2>1, <2>2
<1>7. waiting = sent + 1 .. g
  <2>1. ASSUME NEW m \in waiting PROVE m \in sent + 1 .. g
    <3>1. PICK i \in 1 .. g - sent : m = l.tx_q[i] BY <1>3, <2>1
    <3>2. m = sent + i BY <1>5, <3>1
    <3>q. QED BY <3>2
  <2>2. ASSUME NEW m \in sent + 1 .. g PROVE m \in waiting
    <3> DEFINE i == m - sent
    <3>1. i \in 1 .. g - sent /\ sent + i = m OBVIOUS
    <3> HIDE DEF i
    <3>2. l.tx_q[i] = m BY <1>5, <3>1
    <3>q. QED BY <1>3, <3>1, <3>2
  <2>q. QED BY <2>1, <2>2
<1>8. Live(l) = saved \cup waiting BY DEF Live
<1> HIDE DEF saved, waiting
<1>9. (acked + 1 .. sent) \cup (sent + 1 .. g) = acked + 1 .. g OBVIOUS
<1>q. QED BY <1>6, <1>7, <1>8, <1>9

\* The message to be sent again is one of them and has been sent.
LEMMA SavedHas ==
    ASSUME NEW buf \in Seq(TxMsu), NEW sent \in Nat, NEW acked \in Nat,
           Saved(buf, sent, acked), NEW p \in acked + 1 .. sent
    PROVE  \E i \in DOMAIN buf : buf[i].msu = p
<1> DEFINE k == (sent - p) + 1
<1>1. k \in 1 .. sent - acked /\ (sent - k) + 1 = p OBVIOUS
<1>2. DOMAIN buf = 1 .. sent - acked BY LenProperties DEF Saved
<1> HIDE DEF k
<1>3. buf[k].msu = (sent - k) + 1 BY <1>1, SavedAt
<1>q. QED BY <1>1, <1>2, <1>3

LEMMA SenderRetransmits ==
    ASSUME NEW l \in Link, NEW g \in Nat, NEW sent \in Nat, NEW acked \in Nat,
           NEW had \in Nat, NEW front \in Nat, NEW y,
           Numbers(g, sent, acked, had, front), Sender(l, g, sent, acked, front, y),
           l.retransmit_pos # NoMsu
    PROVE  \E i \in DOMAIN l.tx_buf : l.tx_buf[i].msu = l.retransmit_pos
<1>1. l.tx_buf \in Seq(TxMsu) BY DEF Link
<1>2. l.retransmit_pos = front /\ front # sent + 1 /\ Saved(l.tx_buf, sent, acked)
  BY DEF Sender
<1>3. front \in acked + 1 .. sent BY <1>2 DEF Numbers
<1> DEFINE buf == l.tx_buf
<1>4. buf \in Seq(TxMsu) /\ Saved(buf, sent, acked) BY <1>1, <1>2
<1> HIDE DEF buf
<1>5. \E i \in DOMAIN buf : buf[i].msu = front BY <1>3, <1>4, SavedHas
<1>q. QED BY <1>2, <1>5 DEF buf

LEMMA ReceiverHolds ==
    ASSUME NEW l, NEW had, NEW x, Receiver(l, had, x)
    PROVE  Live(l) = {} /\ l.retransmit_pos = NoMsu
<1>1. l.tx_buf = <<>> /\ l.tx_q = <<>> /\ l.retransmit_pos = NoMsu BY DEF Receiver
<1>q. QED BY <1>1 DEF Live

\* No unit under way carries a message that was not sent.
LEMMA ForthCarries ==
    ASSUME NEW L \in Seq(LineSu), NEW x, NEW y, NEW had, NEW front, NEW sent,
           Forth(L, x, y, had, front, sent), NEW i \in DOMAIN L
    PROVE  L[i].msu \in 0 .. sent
<1>1. i \in 1 .. Len(L) BY LenProperties
<1>q. QED BY <1>1 DEF Forth, ForthBy, Shows

LEMMA BackCarries ==
    ASSUME NEW K \in Seq(LineSu), NEW x, NEW y, NEW acked, NEW had,
           Back(K, x, y, acked, had), NEW i \in DOMAIN K
    PROVE  K[i].msu = 0
<1>1. i \in 1 .. Len(K) BY LenProperties
<1>2. PICK n, bit : K[i] = Ack(n, bit) BY <1>1 DEF Back, BackBy, Confirms
<1>q. QED BY <1>2, MsgAssumption DEF Ack

\* In a run the messages on their way are those given and not delivered.
LEMMA RunMeans ==
    ASSUME NEW a, NEW b, NEW sent, NEW acked, NEW front, NEW x, NEW y,
           Running(a, b, sent, acked, front, x, y)
    PROVE  /\ Pending(b) = got[b] + 1 .. given[b] /\ got[b] <= given[b]
           /\ Pending(a) = {} /\ got[a] = 0 /\ given[a] = 0
           /\ lk[a].state = "INSERVICE" /\ lk[b].state = "INSERVICE"
           /\ \A e \in {a, b} : lk[e].retransmit_pos # NoMsu =>
                \E i \in DOMAIN lk[e].tx_buf : lk[e].tx_buf[i].msu = lk[e].retransmit_pos
<1> DEFINE la == lk[a]
           lb == lk[b]
           L  == line[b]
           K  == line[a]
           g  == given[b]
           h  == got[b]
<1>0. /\ la \in Link /\ lb \in Link /\ L \in Seq(LineSu) /\ K \in Seq(LineSu)
      /\ g \in Nat /\ h \in Nat /\ Peer(a) = b /\ Peer(b) = a
      /\ sent \in Nat /\ acked \in Nat /\ front \in Nat
  BY RunningFacts DEF Running
<1>1. /\ Numbers(g, sent, acked, h, front) /\ Sender(la, g, sent, acked, front, y)
      /\ Receiver(lb, h, x) /\ Forth(L, x, y, h, front, sent) /\ Back(K, x, y, acked, h)
      /\ given[a] = 0 /\ got[a] = 0
  BY DEF Running, RunBy
<1>2. /\ Pending(b) = {m \in Live(la) \cup {L[i].msu : i \in DOMAIN L} : m > h}
      /\ Pending(a) = {m \in Live(lb) \cup {K[i].msu : i \in DOMAIN K} : m > got[a]}
  BY <1>0 DEF Pending
<1>3. \A e \in {a, b} : lk[e] \in {la, lb} OBVIOUS
<1> HIDE DEF la, lb, L, K, g, h
<1>4. acked <= h /\ h < front /\ front <= sent + 1 /\ sent <= g BY <1>1 DEF Numbers
<1>5. acked <= sent /\ h <= g BY <1>0, <1>4
<1>6. Live(la) = acked + 1 .. g BY <1>0, <1>1, <1>4, <1>5, SenderHolds
<1>7. Live(lb) = {} /\ lb.retransmit_pos = NoMsu BY <1>1, ReceiverHolds
<1> DEFINE carried == {L[i].msu : i \in DOMAIN L}
           acks    == {K[i].msu : i \in DOMAIN K}
<1>8. carried \subseteq 0 .. sent BY <1>0, <1>1, ForthCarries
<1>9. acks \subseteq {0} BY <1>0, <1>1, BackCarries
<1> HIDE DEF carried, acks
<1>10. {m \in (acked + 1 .. g) \cup carried : m > h} = h + 1 .. g
  <2>1. ASSUME NEW m \in (acked + 1 .. g) \cup carried, m > h PROVE m \in h + 1 .. g
    <3>1. m \in acked + 1 .. g \/ m \in 0 .. sent BY <1>8
    <3>q. QED BY <1>0, <1>4, <2>1, <3>1
  <2>2. ASSUME NEW m \in h + 1 .. g PROVE m \in acked + 1 .. g /\ m > h
    BY <1>0, <1>4
  <2>q. QED BY <2>1, <2>2
<1>11. Pending(b) = h + 1 .. g BY <1>2, <1>6, <1>10 DEF carried
<1>12. {m \in acks : m > 0} = {}
  <2>1. ASSUME NEW m \in acks, m > 0 PROVE FALSE
    <3>1. m = 0 BY <1>9
    <3>q. QED BY <2>1, <3>1
  <2>q. QED BY <2>1
<1>13. Pending(a) = {} BY <1>1, <1>2, <1>7, <1>12 DEF acks
<1>14. la.state = "INSERVICE" /\ lb.state = "INSERVICE"
  BY <1>1 DEF Sender, Receiver, InService
<1>15. la.retransmit_pos # NoMsu =>
         \E i \in DOMAIN la.tx_buf : la.tx_buf[i].msu = la.retransmit_pos
  BY <1>0, <1>1, SenderRetransmits
<1>16. \A l \in {la, lb} : l.retransmit_pos # NoMsu =>
         \E i \in DOMAIN l.tx_buf : l.tx_buf[i].msu = l.retransmit_pos
  BY <1>7, <1>15
<1>17. \A e \in {a, b} : lk[e].retransmit_pos # NoMsu =>
         \E i \in DOMAIN lk[e].tx_buf : lk[e].tx_buf[i].msu = lk[e].retransmit_pos
  BY <1>3, <1>16
<1>q. QED BY <1>1, <1>5, <1>11, <1>13, <1>14, <1>17 DEF la, lb, g, h

\* ... and the same without the names.
Means ==
    /\ \E a, b \in End : a # b /\ MaxMsgs[topic][b] = 0
    /\ \A e \in End : got[e] \in Nat /\ given[e] \in Nat /\ got[e] <= given[e]
    /\ PendingTo = [e \in End |-> got[e] + 1 .. given[e]]
    /\ BothIn /\ RetransmitPosLive

LEMMA InvMeans == IInv => Means
<1> SUFFICES ASSUME IInv PROVE Means OBVIOUS
<1>1. PICK b \in End : MaxMsgs[topic][b] = 0 BY DEF IInv, OneWay
<1>2. PICK a \in End : a # b BY <1>1, PeerType
<1>3. PICK sent \in Nat, acked \in Nat, front \in Nat, x \in Bit, y \in Bit :
        RunBy(a, b, sent, acked, front, x, y)
  BY <1>1, <1>2 DEF IInv, Run
<1>4. Running(a, b, sent, acked, front, x, y)
  BY <1>1, <1>2, <1>3 DEF IInv, Running
<1>5. End = {a, b} /\ given \in [End -> Nat] /\ got \in [End -> Nat] BY <1>4, RunningFacts
<1>6. /\ Pending(b) = got[b] + 1 .. given[b] /\ got[b] <= given[b]
      /\ Pending(a) = {} /\ got[a] = 0 /\ given[a] = 0
      /\ lk[a].state = "INSERVICE" /\ lk[b].state = "INSERVICE"
      /\ \A e \in {a, b} : lk[e].retransmit_pos # NoMsu =>
           \E i \in DOMAIN lk[e].tx_buf : lk[e].tx_buf[i].msu = lk[e].retransmit_pos
  BY <1>4, RunMeans
<1>7. \A e \in End : Pending(e) = got[e] + 1 .. given[e]
  <2>1. got[a] + 1 .. given[a] = {} BY <1>6
  <2>q. QED BY <1>5, <1>6, <2>1
<1>8. PendingTo = [e \in End |-> got[e] + 1 .. given[e]] BY <1>7 DEF PendingTo
<1>9. BothIn BY <1>5, <1>6 DEF BothIn
<1>10. RetransmitPosLive BY <1>5, <1>6 DEF RetransmitPosLive
<1>11. \A e \in End : got[e] \in Nat /\ given[e] \in Nat /\ got[e] <= given[e]
  BY <1>5, <1>6
<1>q. QED BY <1>1, <1>2, <1>8, <1>9, <1>10, <1>11 DEF Means

-------------------------------------------------------------------------------
(* The theorems. *)

\* However losses, failed writes, acknowledgements and requests for
\* retransmission meet, update_txbuf never frees the message that
\* retransmit_pos points to, which mtp2_transmit is about to write.
THEOREM RetransmitsWhatItHolds == Spec /\ topic \in OneWay => []RetransmitPosLive
<1>1. IInv => RetransmitPosLive BY InvMeans DEF Means
<1>q. QED BY <1>1, InvHolds, PTL

\* One step of either end is one step of the service or none: mtp2_msu takes one
\* more message, msu_rx delivers the oldest that is on its way, and losses,
\* acknowledgements and retransmissions do not show.
LEMMA ServiceNext == IInv /\ IInv' /\ [Next]_vars => [Service!Next]_Service!vars
<1> SUFFICES ASSUME IInv, IInv', [Next]_vars PROVE [Service!Next]_Service!vars
  OBVIOUS
<1>1. /\ \A e \in End : got[e] \in Nat /\ given[e] \in Nat /\ got[e] <= given[e]
      /\ PendingTo = [e \in End |-> got[e] + 1 .. given[e]]
      /\ BothIn
  BY InvMeans DEF Means
<1>2. /\ \A e \in End : got'[e] \in Nat /\ given'[e] \in Nat /\ got'[e] <= given'[e]
      /\ PendingTo' = [e \in End |-> got'[e] + 1 .. given'[e]]
      /\ BothIn'
  <2>1. Means' BY InvMeans, PTL
  <2>q. QED BY <2>1 DEF Means
<1>3. given \in [End -> Nat] /\ got \in [End -> Nat]
  <2>1. TypeOK BY DEF IInv
  <2>q. QED BY <1>1, <2>1 DEF TypeOK
<1>4. PICK a \in End, b \in End : a # b /\ MaxMsgs[topic][b] = 0
  BY InvMeans DEF Means
<1>5. Progress(b) BY <1>4, RunNext
<1>6. CASE UNCHANGED <<given, got>>
  <2>1. PendingTo' = PendingTo BY <1>1, <1>2, <1>6
  <2>2. BothIn' = BothIn BY <1>1, <1>2
  <2>q. QED BY <1>6, <2>1, <2>2 DEF Service!vars
<1>7. CASE given' = [given EXCEPT ![b] = @ + 1] /\ got' = got
  <2>1. got[b] + 1 .. given[b] + 1 = (got[b] + 1 .. given[b]) \cup {given[b] + 1}
    BY <1>1
  <2>2. given'[b] = given[b] + 1 /\ \A e \in End : e # b => given'[e] = given[e]
    BY <1>3, <1>7
  <2>3. PendingTo' = [PendingTo EXCEPT ![b] = PendingTo[b] \cup {given[b] + 1}]
    <3>1. \A e \in End :
            got'[e] + 1 .. given'[e] =
              IF e = b THEN (got[e] + 1 .. given[e]) \cup {given[b] + 1}
                       ELSE got[e] + 1 .. given[e]
      BY <1>7, <2>1, <2>2
    <3>q. QED BY <1>1, <1>2, <3>1
  <2>4. Service!Give(b) BY <1>1, <1>2, <1>7, <2>3 DEF Service!Give
  <2>q. QED BY <2>4 DEF Service!Next
<1>8. CASE got' = [got EXCEPT ![b] = @ + 1] /\ given' = given
  <2> DEFINE m == got[b] + 1
  <2>1. got'[b] = m /\ \A e \in End : e # b => got'[e] = got[e] BY <1>3, <1>8
  <2>2. m \in Nat /\ m <= given[b] BY <1>1, <1>2, <1>8, <2>1
  <2>3. m \in PendingTo[b] /\ \A n \in PendingTo[b] : m <= n BY <1>1, <2>2
  <2>4. PendingTo' = [PendingTo EXCEPT ![b] = PendingTo[b] \ {m}]
    <3>1. m + 1 .. given[b] = (m .. given[b]) \ {m} BY <1>1, <2>2
    <3>2. \A e \in End : got'[e] + 1 .. given'[e] =
                           IF e = b THEN (got[e] + 1 .. given[e]) \ {m}
                                    ELSE got[e] + 1 .. given[e]
      BY <1>8, <2>1, <3>1
    <3>q. QED BY <1>1, <1>2, <3>2
  <2>5. got' = [got EXCEPT ![b] = m] BY <1>8
  <2> HIDE DEF m
  <2>6. Service!Deliver(b) BY <1>1, <1>2, <1>8, <2>3, <2>4, <2>5 DEF Service!Deliver
  <2>q. QED BY <2>6 DEF Service!Next
<1>q. QED BY <1>5, <1>6, <1>7, <1>8 DEF Progress

\* Messages given to one link are delivered by the other in the order they were
\* given, none twice and none left out, through any losses of signal units and
\* failed writes: msu_rx, update_txbuf and mtp2_transmit together do what
\* LinkService promises.
THEOREM DeliversAll == Spec /\ topic \in OneWay => ReliableService
<1>1. Init /\ topic \in OneWay => Service!Init
  <2> SUFFICES ASSUME Init, topic \in OneWay PROVE Service!Init OBVIOUS
  <2>1. IInv BY InvInit
  <2>2. PendingTo = [e \in End |-> got[e] + 1 .. given[e]] /\ BothIn
    BY <2>1, InvMeans DEF Means
  <2>3. given = [e \in End |-> 0] /\ got = [e \in End |-> 0] BY MsgAssumption DEF Init
  <2>4. PendingTo = [e \in End |-> {}] BY <2>2, <2>3
  <2>q. QED BY <2>2, <2>3, <2>4 DEF Service!Init
<1>q. QED BY <1>1, ServiceNext, InvHolds, PTL DEF Spec, ReliableService, Service!Spec
===============================================================================
