# A verification project for libss7

libss7 is a C library that lets an application be an SS7 signalling end point:
MTP2 (signalling links), MTP3 (signalling network) and ISUP (telephone calls).
These modules model its protocol machines in TLA+.  TLC checks them on small
instances, TLAPS proves the theorems named below for every value of the
constants.  `src/` stands for the root of the repository throughout.

## 1. The system

The library has no thread of its own.  An application opens the channels,
creates one `struct ss7` per linkset, and runs a main loop (ss7test.c,
ss7linktest.c): sleep in `poll()` until a channel is ready or the next timer is
due, then call `ss7_read`, `ss7_write`, `ss7_schedule_run`, and drain
`ss7_check_event`.  Each call runs to its end, so what interleaves are calls:
received units, chances to write, expiries, events, and what the application
does on its own (start, alarms, calls).

| Component | State | Operations | Interacts with |
|---|---|---|---|
| Scheduler (ss7_sched.c) | `ss7_sched[512]`: deadline and callback | schedule, delete, next, run | everyone keeps slot numbers in variables of its own (`t1`..`t7`, `mtp3_timer[]`, `c->timer[]`) |
| Event queue, application interface (ss7.c) | ring `ev_q[16]`, `ev_h`, `ev_len`; links; `mtp2_linkstate[]` | next_empty_event, check_event, start, read, write, alarm, noalarm | MTP2, MTP3 and ISUP post; MTP3 sees an event first, then the application gets a pointer into the ring |
| MTP2 (mtp2.c) | `struct mtp2`: state, T1-T4, T7, sequence numbers, `tx_buf`, `tx_q`, `retransmit_pos` | start, stop, alarm, msu, transmit, receive, expiries | the line; MTP3 above through `mtp3_receive` (a call) and LINK_UP/LINK_DOWN (events) |
| MTP3 link test (mtp3.c) | `std_test_passed`, Q707 timers | SLTM, SLTA | takes part in link up and down |
| MTP3 changeover and changeback (mtp3.c) | `changeover`, `co_buf`, `cb_buf`, `co_tx_buf`, T1-T5 | COO, COA, ECO, ECA, CBD, CBA | takes MTP2's buffers when a link fails, sends them on another |
| MTP3 network management (mtp3.c) | `adj_sp->state`, `tra`, T19-T23; `inhibit`, T12-T14; routes, T6, T10 | TRA, LIN and friends, TFP, TFA | posts MTP3_UP and MTP3_DOWN |
| ISUP (isup.c) | list of `struct isup_call`: `got_sent_msg`, `timer[]`, group supervision | 35 messages, 22 timers | events with pointers to calls; application call-backs |
| ISUP codec (isup.c) | the parameters of a call | `isup_send_message`, the parsing in `isup_receive`, a transmit and a receive function per parameter, `isup_set_...` | octets on the line; fields of events |
| Message dumps (parser_debug.c), test programs | none | print; a main loop each | - |

What is hard to test here: sequence numbers and bits under loss,
retransmission and realignment; timers whose numbers live in many variables;
state changes that MTP3 learns of later, from a queue that can be full; pointers
into lists and into the ring that outlive what they point to.  PROJECT.json
lists each such hazard at its line.

What makes each component correct:

- Scheduler: a timer variable and a slot name each other; no callback early,
  none left behind, none overslept.
- Event queue: a bounded FIFO; the event handed out stays intact.
- MTP2: reliable in-order delivery while in service, no duplicate ever; both
  ends come into service; no state of the alignment is left to no timer (the code
  does so in three cases, section 3); MTP3's view is right up to events under way.
- MTP3 changeover: no message lost, duplicated or overtaken between links.
- MTP3 management: an inhibited link carries no user traffic and the two ends
  agree in the end on what is inhibited; no link is inhibited that is the last.
- MTP3 routes: a prohibited destination has no message on the way to it by that
  route; what is held back while traffic returns is sent in the end.
- ISUP: a circuit's flags and timers agree with the messages exchanged; each
  supervision request is repeated until answered; of two ends that seize a
  circuit one keeps it; no call is used after free.
- ISUP codec: what one application sets is what the other one is told, with any
  choice of parameters and whatever else is under way.

## 2. Modules

| Module | Models | State and actions |
|---|---|---|
| `SchedTable` | ss7_sched.c as a table: `ScheduleEvent`, `ScheduleDel`, `TakeSlot` | operators; used by `Sched` and `Mtp2` |
| `Sched` | ss7_sched.c with time | `Tick`, `Start`, `Stop`, `Run`, then one `Skip` or `Fire` per slot; the callback that `Fire` calls starts or stops any timer |
| `EventQueue`, `EventFifo` | the ring of ss7.c; what it promises | `Post`, `CheckEvent`, `Drained` |
| `Mtp2` | struct mtp2 and every function of mtp2.c | operators from a link record to a link record, one per function, `mtp2_setstate` split by the state it leaves |
| `Mtp2Link`, `MCMtp2Link` | one link, any peer, the main loop, MTP3's calls, alarms | `Start`, `Stop`, `Read`, `Write`, `QueueMsu`, `Expire`, `CheckEvent`, `Alarm`, `NoAlarm` |
| `Mtp2Pair`, `MCMtp2Pair` | two links joined by a line | the same actions for each end, plus `Lose` and `WriteFails` |
| `LinkService` | what two links promise | `Give`, `Deliver`, `Realign` |
| `Mtp3` | mtp3.c for one signalling point, its links and any number of adjacent SPs: link test, changeover, changeback, inhibiting, restart, routes | operators from the state of the SP to its next state, one per function, message and timer callback |
| `Mtp3Linkset`, `MCMtp3Linkset` | the SP, its links' MTP2, any peers, the main loop, the application | `Write`, `WriteSio`, `Acknowledge`, `GoIn`, `GoOut` (MTP2); `ReceiveTest`, `ReceiveNetMng`, `ReceiveRoute`, `Give`, `CheckEvent`, `Command`, `RestartTraffic`, `RaiseAlarm`, `ClearAlarm`, one `Expire...` per kind of timer |
| `Isup` | call control of isup.c for one circuit | operators from a call (flags, running timers, hangups asked for, messages sent) to a call, one per function, message and timer |
| `IsupCircuit`, `MCIsupCircuit` | one circuit, any peer, an application | `ReceiveMessage`, `Expire`, `MakeCall`, `Dial`, `UseCall`, `PeerFails` |
| `IsupCodec` | the octets of ISUP messages: the tables of messages and parameters, sending, parsing, setters, the fields of events | `Encode`, `Decode`; `Transmit`, `ReceiveParm` and one operator per parameter; `Setter`, `Told` |
| `IsupPair`, `MCIsupPair` | the two ends of a circuit, each with its call (`Isup`), its parameters (`IsupCodec`) and an application, joined by two lossy lines of octets | `ReceiveMessage`, `Lose`, `Expire`; the applications' `Seize`, `Dial`, `AnswerCall`, `Tell`, `HangUp`, `RequestGroup`, `Obey`, `TakeEvent` |
| `SchedTableProofs`, `Mtp2Proofs` | lemmas about the operators of `SchedTable` and `Mtp2` | - |
| `Ss7Proofs` | the theorems about `Sched` and `EventQueue`, which an application's main loop runs on | - |
| `Mtp2LinkProofs`, `Mtp2PairProofs`, `IsupCircuitProofs` | the theorems about the module each is named after | - |
| `Mtp3LinksetProofs`, `Mtp3TrafficProofs` | the theorems about `Mtp3Linkset`: links, points, routes and timers; the messages | - |

Choices that hold throughout:

- A message is its name; a unit is its kind and header.  `tx_buf` is the C list,
  newest first.  A timer is started and stopped through the same table, with the
  same mistakes (an id overwritten, an id of a slot that was lost), as in C.
- The deadline of a timer is left out of the MTP2 modules: a scheduled timer may
  run out at any moment.  This covers every order that durations allow.  Only
  the runs that ask whether two links meet need more (`Timely`: a timer does
  not run out while a unit is on its way that would change something;
  T1-T4 run for 0.6 to 40 seconds, a unit takes milliseconds).
- The contents of a message that was freed while `retransmit_pos` points to it
  are any header and message.
- In the MTP3 modules MTP2 is reduced to what MTP3 sees of it: in service or not
  (entered and left only when the event can be posted, as in `Mtp2`), the two
  buffers, and the flush of `tx_buf` that comes with an SIO.  A timer variable
  says which callback its slot holds; a number that is overwritten makes the
  callback an "orphan" that runs all the same, a callback that runs leaves its
  variable "stale" until it is assigned.
- A management message of the peer's arrives over the link it is about:
  mtp3_receive (mtp3.c:1840) drops one whose SLS is not the SLC of its link.
- `evrefused` is not in the code: it records that `ss7_next_empty_event` has
  returned NULL.  Properties that such a refusal breaks say so.
- In the ISUP modules the parameters of a message are reduced to the bits that
  decide what happens (is the check passed, is the INF solicited, does the
  acknowledgement match the request).  Whether the event queue has room, whether
  MTP3 takes a message, what `ss7_hangup` answers and which numbers have arrived
  is an environment, chosen anew in every step.  `got_sent_msg` and the set of
  running timers are as in C; a timer's slot is not, since isup.c always stops a
  timer before it starts it again.
- The application of `IsupCircuit` makes no second call for a circuit that has
  one (`isup_find_call` finds the first of them only), and calls `isup_iam` only
  for a call it made for that, neither released nor reset and with no incoming
  call on it.  Everything else it may do at any time.
- Both ends of `IsupPair` take one event at a time, and an application makes
  calls, answers and hangs up only when no event waits: it has one thread, which
  drains `ss7_check_event` after each `ss7_read` (ss7test.c).  An event holds what
  the C copies into it (`Told`) together with what the other application said,
  which only the properties look at (`said`).
- Timers of `IsupPair` are longer than an answer takes (`AllQuiet`) but for
  `MaxHurry` expiries per behaviour that come too early.
- Definitions marked "Variant" are plausible mistakes in the definition they
  precede; the specifications do not use them.  Each shows that one of the
  properties tells the code from the mistake (PROJECT.json, `mutants`).

## 3. Runs

Several runs have *topics*: a topic is chosen in the initial state and says which
messages, faults and uses there are, so that one run explores several instances
one after the other.  Within a topic every order is explored.

| Run | Question | Topics and bounds |
|---|---|---|
| `Mtp2Link` | do timers and state agree whatever the peer does, which steps leave a state of the alignment to no timer, and does the timer of a state end it? | 2 sequence numbers, 2 events, 3 slots, 1 message |
| `Mtp2LinkData` | are the buffers in order under any acknowledgements and rejections, and is MTP3's view right under alarms? | 3 numbers, 2 messages, 2 slots, 1 event |
| `Mtp2Pair` | do two links implement the ordered service through loss, stops and alarms; is everything delivered in the end; do two links meet, and meet again? | 3 numbers (they wrap), 2 units on the line; *loss*: 3 messages, 2 outstanding, 2 lost units or failed writes; *restart*: 2 messages, 1 stop in service or alarm; *meet*: started from nothing, test messages, 1 stop in service; *stopped*: the same, 1 stop in any state |
| `Mtp2PairStaleBib` | *violated*: a retransmitted message carries an old BIB, and the peer's retransmission position ends up on a freed message | *crossing*: messages both ways, 3 losses |
| `EventQueue` | is the ring a FIFO, is the event handed out intact? | 3 slots, 3 events |
| `Sched` | does every timer own its slot and run on time? | 3 timers, 3 slots, seconds of 3 ms |
| `Mtp3Linkset` | is every message in one buffer, none lost, every timer of the procedures owned; is a link that either end inhibits unused and tested, and no request pending for ever? | 2 links, 2 messages (one for each), 2 events; *changeover*: one link fails, goes into alarm, fails its test and comes back, peer sends SLTM, SLTA (right or wrong), COA, ECO, ECA, CBA; *inhibit*: all eight messages from the peer in any order, LIN and LUN from the application |
| `Mtp3Routes` | does a prohibited route empty, does traffic that is allowed back wait for T6 only, and is nothing lost on the way? | 2 adjacent SPs with a link each, one of which fails; 1 destination, 1 message; TFP, TFA and TRA at any time |
| `Mtp3NoMoreLink` | *violated*: the timed changeover that replaces a COO no link can carry is not started | as `Mtp3Routes` |
| `Mtp3Restart` | first start, failed tests, alarms, restarts of either end: do linkset, adjacent SP and what the application is told agree? | 1 link, 2 events; with fairness |
| `IsupCircuit` | do the timers of a call agree with what it waits for, is a request repeated until it is answered, and does a call end whose peer has failed? | 1 circuit, all timers configured; four applications: calls with continuity check and resets, overlap sending with INR and SUS, blocking with group resets and unblocking, unblocking with group blocking; with fairness |
| `IsupPair` | is what an event tells what the other application said, do both ends agree on whose call it is, and is every release, reset and blocking confirmed in the end? | see below; with fairness |

Topics of `IsupPair`: *itu*, one call with every subset of the eight optional
things that can be set; *ansi*, the same with none, one, all but one and all of
them; *talk*, one call with connected number, CPG, SUS, RES and FAA, released by
either end at any moment; *seizure*, both ends dial; *group*, CGB, CGU and GRS
of different types and ranges from both ends, three in all; *blocking*, two CGB
that cross, with one lost message and one expiry too early; *faults*, calls that
are released and reset with the same faults.

Small bounds suffice because what matters is relative: numbers wrap with 2 or 3
as with 128; one message outstanding and one behind it, with one number to
spare, gives every relation of `retransmit_pos`, acknowledgement and new
message; a table or queue of 1 to 3 entries is empty, partly used and full.  In
the codec the parameters do not depend on each other but through lengths,
pointers and the end of the optional part, which the subsets of `IsupPair`
exercise; numbers have odd and even lengths.
The model of a pair of links keeps the messages outstanding below the number of
sequence numbers (`Window`), which the code does not: with `Window = SeqMod`
`ReliableService` fails after one loss (mtp2.c:319).  Likewise messages in both
directions with losses in both directions fall under the `Mtp2PairStaleBib`
finding, which is why the topics *loss* and *restart* send them one way.

`AlignmentEnds` is about all four states of the alignment, NOTALIGNED, ALIGNED,
PROVING and ALIGNEDREADY.  Each is entered with its timer running and keeps it,
except that the code leaves the link to no timer in three steps, which the
property names:

- `BackFromProving`: an SIO in PROVING takes the link to ALIGNED (mtp2.c:710),
  and mtp2_setstate starts T3 only on the way from NOTALIGNED (mtp2.c:586-598).
- `UnitInVain`: a SIOS, SIPO or SIB in NOTALIGNED calls mtp2_setstate for the
  state the link is in (mtp2.c:674), which stops T2 and starts nothing
  (mtp2.c:541).

If the peer then falls silent, the link stays in ALIGNED or NOTALIGNED until the
peer goes on with its own alignment or the application calls `mtp2_stop`.  TLC
finds both behaviours in a few steps when the disjunct is taken out of
`AlignmentGuarded`.  A third step, `LinkUpRefused`, needs a full event queue: T1 is
stopped and the link stays ALIGNEDREADY (mtp2.c:622-626).  There is no fourth.
T2 does not end NOTALIGNED: it begins the same state again and sends SIO, for as
long as the peer is silent, so that what is checked there is that T2 runs.

What the MTP3 runs leave out, because the property does not hold with it:

- Topic *changeover*: the peer's own COO and CBD.  The guard of the COO
  (mtp3.c:1190) is always true, so that a COO for a link that is COMPLETED or
  IN_PROGRESS overwrites what was saved; a CBD that meets our own leaves a T3
  nobody can stop (mtp3.c:1381).
- Topic *inhibit*: restarts.  The tidying up in ss7_check deletes timers that
  mtp3_restart has just started (mtp3.c:765).
- `WaitingKept` speaks of the messages MTP2 has not sent yet.  Those that await
  their acknowledgement are lost when an SIO is written before MTP3 reads
  LINK_DOWN (mtp2.h:156).  Messages that T6 holds for an SP that fails or
  restarts are freed with the route.

What `IsupCircuit` leaves out of its properties, because the code does
otherwise:

- T20 and T21 run on into T23 and T22 (isup.c:5411, a `break` is missing): a
  group reset is sent and timed without SENT_GRS.
- T8, T27, T33 and T35 are not stopped by a REL or RLC and may release a call
  that has ended.
- A group reset (`isup_grs`) and a reset of the circuit stop all timers of the
  call, the repetition of a pending REL, BLO or CGB included; the flags stay.
  Hence `IsReset` in `KeepsAsking` and `NoGroupReset` in the liveness
  properties: after GRS and GRA a SENT_REL is left with no timer.

What `IsupPair` leaves out of its properties, for the same reason:

- An incoming call that displaces an own one: the IAM of the other end is parsed
  into the call that is given up, so that what the two applications set is mixed
  (isup.c:4298).
- The cause of a REL that T1 repeats after it crossed the other end's, which has
  overwritten it (isup.c:5321).
- The lspi parameter, whose context is read one octet too late (isup.c:2338).
- An IAM that crosses our own REL: one end may have an incoming call that the
  other one no longer has (isup.c:4308), which `OneOwner` allows.
- A CGB lost while its circuit is reset: the reset stops its timers, and the
  blocking is never answered (isup.c:5456).
- T20 and T21, as above: they are not configured.

`OneOwner` looks at the ends when all that was sent has arrived and nobody is
about to dial; in between they cannot agree.

Two links can also fail to meet after an alarm during alignment: lssu_rx ignores
a unit of the kind received last, and nothing clears `lastsurxd`, so that each
ignores the SIO the other repeats (mtp2.c:661; src/NEWS-09-11-2006:1 says the
link restarts fine).  Topic *meet* therefore has stops and no alarms.

One unstable link beside one stable link is what changeover is about; with none
left the linkset is down, which `Mtp3Restart` looks at.

Fairness:

- `Mtp2Link`: scheduled timers run out.  `Mtp2Pair`: each end's loop reads what
  arrived, writes when `poll()` allows, drains events, and runs timers (weak
  fairness of each action).  Faults are never fair.  `AllDelivered` is checked
  with no timer running out: FISUs alone must reveal the loss.  Fairness is asked
  of the topics in `Lasting`, the ones a temporal property speaks of.
- `Mtp3Linkset`: events are drained and timers run (for `Mtp3Routes`, T6);
  nothing is assumed of the peer, the links or the application.
- `IsupCircuit`: a timer that runs all the time runs out.  (A timer that is
  started again before it runs out may still do so, which real timers would
  not; the liveness properties are about a peer that has fallen silent.)
- `IsupPair`: each main loop goes on as long as it has something to do: read,
  take events, do what `ss7_hangup` asked for, run timers when all is quiet.
  This is weak fairness of `MainLoop`, with ENABLED spelt out as `HasWork`
  (evaluating it would enumerate every way to parse).

Deadlock is checked in every run but `IsupPair`: the main loop of the others
always has something to do, whereas the applications of `IsupPair` make a bounded
number of calls (`MaxCalls`) and then both ends are at rest.

## 4. Proofs

All proofs are by inductive invariants, for every value of the constants that
the named assumptions allow (sizes positive, null values outside the sets).
Those the code forces are named: `SpAssumption` (every adjacent SP has a link:
`mtp3_new_adjsp` makes an SP for a link that leads to it), `TopicAssumption` (what a
topic begins with is a Boolean), and hypotheses `"t21" \in Configured` and the
like where a procedure is timed only if the application configured its timer.

### Scheduler and event queue

- `TypeCorrect`: `After` yields a `Timeval` with `tv_usec` up to and including a
  full second, the second that the code does not carry.
- `OwnSlot`: the invariant is `TypeOK /\ Owned`; `Fire` is the critical step,
  because the slot is emptied before the callback runs while the variable still
  names it: `Owned` is preserved because the callback forgets the number first.
  `SchedTableProofs` has the facts about the table: the slot handed out is free
  and in range, deletion empties at most the slot named.
- `RunsNoneEarly`, `LeavesNoneBehind`, `SleepsNotTooLong`: one invariant,
  `TimeInv`.  It adds to `Inv` that the deadline in a slot is the one its timer
  asked for (`OnTime`, with both as moments, since a `Timeval` may hold a full
  second too many microseconds), that the time of the run under way is not after
  the clock, and `NoneLeftBehind` itself: a callback can fill a slot that the run
  has passed, but only with a deadline that is not due yet.
- `HeldSafe` needs that the slot held is the one just before the head;
  `QueueTypeCorrect` keeps head and length in range; `Implements` maps the ring
  to the sequence `Queued` and shows that each step maps to a step of
  `EventFifo` or to a stutter.

### MTP2, one link and any peer

- `TypeCorrect`: one lemma per operator of `Mtp2` (`Mtp2Proofs`), each "a link
  goes to a link", then one step per action.
- `UpIsCovered`: `UpMeansInService` is inductive relative to `TypeOK`; each
  operator either keeps the link in service, or posts LINK_DOWN at the end of
  the queue, or records a refusal.
- `TimersInStep`, assuming `Alarms = FALSE`: besides the property the invariant
  says that T7's variable never names an alignment timer's slot and that a
  variable above 0 names a slot of its own timer.
- `TxBufInOrder`: the invariant joins the order of the numbers to the fact that
  the messages of `tx_buf` and `tx_q` are all different; the critical steps are
  `update_txbuf`, which cuts the list at an acknowledgement that may be any
  number, and the flush of an SIO.

### MTP2, two links (`Mtp2PairProofs`)

`DeliversAll`: `Mtp2Pair` implements `LinkService`, and
`RetransmitsWhatItHolds`: the message to be sent again is never freed.  Both are
for topics in `OneWay`: two links in service, no timers, lost units and failed
writes, fewer messages outstanding than there are sequence numbers, and messages
one way.  Topic *loss* of the run `Mtp2Pair` is one.  The hypotheses are needed:
with as many messages outstanding as numbers, or with losses while messages flow
both ways, both properties fail (section 3, and the run `Mtp2PairStaleBib`).
`TypeCorrect` has no hypothesis.

The invariant describes a run of messages from a to b by three counts, `acked`,
`sent` and the `front` of the retransmission, with
`acked <= got < front <= sent + 1` and `given - acked < SeqMod`:

- the sender's `tx_buf` is `sent, ..., acked + 1`, its `tx_q` is
  `sent + 1, ..., given`, its numbers are those of `sent` modulo `SeqMod`;
- of the units on the way to b those that carry b's last BIB as FIB (they are
  live) come last; each shows a number between `got` and `front - 1`, in order,
  no message twice, and the others are ignored;
- of the acknowledgements on the way to a, which are in order, one that asks for
  retransmission acknowledges all that b has.

The sequence numbers on the line are wrapped, so the invariant says that there
*are* unwrapped ones for the units under way (`Forth`, `Back`).  A loss thins
the line out, which keeps such numbers (`Thinned`); a rejection by b makes every
unit on the line dead at once (`ForthRead`); the answer to it moves `front` back
to `got + 1`.  `NumInjective` is the one place where the modulus counts.  Each
step then gives, delivers the next message, or neither (`Progress`), which
`ServiceNext` maps to `Give`, `Deliver` or a stutter.  TLC checked this
invariant for `SeqMod` 3 and 4 before it was proved.

### MTP3

The state of a signalling point is a record of some twenty-five fields, and
nearly every function calls a dozen others.  There are two modules, one for the
state of links, points and routes and one for the messages that are kept.  The
first (`Mtp3LinksetProofs`) looks at ten of the fields (`Core`): functions that
leave them alone are `Same`, which composes; the few that change them keep
`Good`, the invariant:

- `StateFollowsSps`: `Follows` and `Backed`.  `mtp3_check` is called at the end of
  each path that changes a link or an adjacent SP, so in the middle of a handler
  the property is false; the invariant `Sound` that holds there has the set of
  adjacent SPs for which it is still owed as a parameter.
- `ApplicationKnows`: `Truthful` says what the events yet to be read, the last of
  them that counts, tell the application (`Says`).
- `RestartTimed` (T21 configured): `Timed`.
- `RoutesTimed` (T10 configured): `Routed`, one `RouteRuns` for each route.
- `InhibitedLinksAsked` (T22 and T23 configured) and `RequestsAreTimed` (T14
  configured) have two hypotheses that the code imposes.  `Undisturbed`: links are in
  service to begin with and nobody restarts an SP that is up, since mtp3_restart
  clears flags and not timers (mtp3.c:765).  `[]Reached`: every adjacent SP keeps
  a link that has passed its test, since an SP that loses its last one is reset
  in the same way.  Topic *inhibit* of `Mtp3Linkset` meets both.  The second
  invariant is `Calm`: while the hypotheses hold, every adjacent SP is up and the
  timers of inhibited links are as the flags say.
- `TimersNotLost`, `InhibitedGetNothing` and (T4 and T5 configured)
  `ChangebacksTimed` have the same two hypotheses and a third, `Restrained`:
  no COO comes from a peer, the application asks for no changeover or
  changeback by hand, and where a link may pass its test again (SLTA) the peer
  sends no CBD, LUN or LUA.  The code imposes it too.  A COO always begins a
  changeover (mtp3.c:1190), and the peer's CBD, or an uninhibition that
  changes the traffic back, while our own changeback is under way leaves a T4 or
  T5 running that then overwrites T3 (mtp3.c:1381).  None of it can be dropped:
  with a COO, or with SLTA and CBD, or with SLTA and LUN, TLC finds even
  `InhibitedUnused` violated in 8 to 12 steps, because an orphaned T3 ends a
  changeback of a link that has been inhibited since.  Both topics of the run
  `Mtp3Linkset` meet the three hypotheses (link 1 never fails there).  The
  third invariant is `Phased`: for each link the timers T1 to T5 are those of its
  changeover state (`InTime`), none is orphaned (`Strays`), a changeback the peer
  has been asked for occurs only where links may pass tests again, and an
  inhibited link has its traffic diverted.  A function keeps the phase of every
  link (`Spares`), or of every link but one (`SparesBut`), or keeps `Phased`
  unless an adjacent SP has lost its last link (`Phasing`).

The second module (`Mtp3TrafficProofs`) is about the buffers between which
`mtp3_move_buffer` moves messages: for each link the transmit queue and buffer of
MTP2, the four of changeover and changeback, and what waits for a route.  Its
assumptions are `MaxEventsAssumption` and `CommandsAssumption`.  The invariant is
`Tidy`, of four parts:

- `Shape`: every field has its type, that is, `TypeOK` without the constraints
  on the three variables beside the record (`TypeKept`).
- `Apart`: no message is at two places, and at no place twice (`EveryMessageOnce`).
  A function that holds a message it has taken out keeps `Tidy` of a state in
  which that message is at no place (`Hand`); `Transmit` puts it at exactly one
  (`Goes`) or drops it.
- `Queued`: what waits for a route is for the destination of that route.
- `Barred`: no message for a destination that a TFP has prohibited is at a link
  to the SP it came from (`NothingForProhibited`).  This part needs the three
  others: a rerouted message ends at another link because the route it is looked
  up with excludes prohibited SPs, and what a TFA releases is for that route's
  destination because of `Queued`.

Every function moves messages from one buffer to another in order, pours the
ones for a destination out of all buffers of a link, or empties a buffer; one
lemma for each of these three says which places hold what afterwards, and every
handler is a chain of them.  `FlattenSeq` joins buffers by a recursive function;
that what it returns are the elements of its arguments, each as often as there,
is proved of that function (`Flattens`) by a least counterexample on the length,
since no induction theorem can be instantiated.

### ISUP

- `TypeCorrect`, `OnlyJustified`: `TimersJustified` alone is not inductive: an RLC
  that answers an RSC clears SENT_IAM without stopping T7.  The invariant adds
  that a call being reset has no T7 and that T16 never runs.  There is one lemma
  per step that functions are built from (mark, clear, start, stop, send), one
  per function, message and timer, and one step per action.
- `AsksUntilAnswered`: an action property that follows from the same invariant:
  every function keeps the last timers, or clears the flag of the request whose
  last timer it stops, or leaves a reset that waits for its answer with exactly
  the timers of that reset (`IsReset`).
- `OneEndControls` is the rule for dual seizure: of two ends exactly one keeps
  its call.

### Only model-checked

- The temporal properties (`AlignmentEnds`, `AllDelivered`, `BothInService`,
  `ToldInTheEnd`, `RerouteEnds`, `ReleaseEscalates`, `SetupEnds`, `RequestsEnd`):
  liveness is out of the prover's reach.
- `ReliableService` and `RetransmitPosLive` for the topics of `Mtp2Pair` with
  stops and alarms.
- `WaitingKept`: it is not true of every instance.  When a link fails by an
  alarm while the only other link is still between changeover and changeback,
  `AvailableLinks` is empty, no changeover starts (mtp3.c:1638), and the start
  of MTP2 after the alarm empties `tx_q`.  The topics of the two runs that check
  it never bring these together.  A theorem needs the assumption that some link
  keeps its traffic, and an invariant that ties every buffer of a link to its
  changeover state; both are left to the plan.
- `ToldIsSaid` and `OneOwner`: `IsupCodec` parses and builds octets by recursion
  over their number (a RECURSIVE operator and folds), so no theorem is stated
  about it or about `IsupPair`.

## 5. Not modelled

- Debug output, dumps of messages, names; `ss7_destroy` (its loops
  `i > numsps`, ss7.c:416, never run); hardware (HDLC, check sums, alarms as
  such).
- MTP3: TFR and RST, which mtp3_receive only logs, the layout of routing labels
  and point codes, sequence numbers of CBD and CBA, a timer table that is full,
  the sharing of traffic by SLS among several available links.
- ISUP: parameters that the library only dumps or never sends (subsequent
  number, hop counter, carrier identification), digits other than those of a
  number, numbers longer than their buffer; two calls for one circuit; circuits
  of a group other than the first, which the application looks after; the second
  GRS of ANSI; calls that are freed while an event still points to them
  (isup.c:3051).
- A timer that outlives an alarm (mtp2.c:786) runs in `Mtp2LinkData`, but
  `TimersMatchState` does not hold with alarms and is checked and proved without.

## 6. Plan

1. Proofs: `DeliversAll` through a stop or an alarm; `WaitingKept` where some
   link keeps its traffic.
2. The queue of events with pointers to calls, `isup_free_call` and the ring
   together (isup.c:3051).
3. A pair of `Mtp3` points: the two ends agree on what is inhibited; two
   changeovers that cross.
4. Runs that show what the present ones exclude: the loss before a changeover
   (mtp2.h:156), an ECO during a timed changeover (mtp3.c:1230), T21's group
   reset (isup.c:5411).
