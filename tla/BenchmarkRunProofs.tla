------------------------- MODULE BenchmarkRunProofs -------------------------
(***************************************************************************)
(* The safety of a benchmark run, for every workload, probe list, queue    *)
(* capacity and drain size: the inductive invariant and what follows.      *)
(***************************************************************************)
EXTENDS BenchmarkRun, SequenceTheorems, TLAPS

LEMMA ConcatPush ==
  ASSUME NEW S, NEW a \in Seq(S), NEW q \in Seq(S), NEW r \in S
  PROVE a \o Append(q, r) = Append(a \o q, r)
OBVIOUS

LEMMA ConcatPop ==
  ASSUME NEW c \in Seq(Reports), NEW b \in Seq(Reports),
         NEW q \in Seq(Reports), q # <<>>
  PROVE (c \o Append(b, Head(q))) \o Tail(q) = (c \o b) \o q
<1>1. /\ Head(q) \in Reports /\ Tail(q) \in Seq(Reports) /\ Len(q) \in Nat \ {0}
      /\ Head(q) = q[1] /\ Len(Tail(q)) = Len(q) - 1
      /\ \A i \in 1 .. Len(q) - 1 : Tail(q)[i] = q[i + 1]
  OBVIOUS
<1>2. PICK h \in Reports : h = Head(q)
  BY <1>1
<1>3. PICK t \in Seq(Reports) : t = Tail(q)
  BY <1>1
<1>4. /\ Append(b, h) \in Seq(Reports)
      /\ Len((c \o Append(b, h)) \o t) = Len((c \o b) \o q)
      /\ (c \o Append(b, h)) \o t \in Seq(Reports)
      /\ (c \o b) \o q \in Seq(Reports)
  BY <1>1, <1>3
<1>5. ASSUME NEW i \in 1 .. Len((c \o b) \o q)
      PROVE ((c \o Append(b, h)) \o t)[i] = ((c \o b) \o q)[i]
  BY <1>1, <1>2, <1>3
<1>6. QED BY <1>2, <1>3, <1>4, <1>5, SeqEqual

LEMMA ConcatEmpty ==
  ASSUME NEW S, NEW c \in Seq(S)
  PROVE c \o <<>> = c
OBVIOUS

LEMMA ConcatPrefix ==
  ASSUME NEW S, NEW a \in Seq(S), NEW b \in Seq(S), NEW q \in Seq(S)
  PROVE /\ Len((a \o b) \o q) = Len(a) + Len(b) + Len(q)
        /\ SubSeq((a \o b) \o q, 1, Len(a) + Len(b)) = a \o b
OBVIOUS

-----------------------------------------------------------------------------
(* The inductive invariant.                                                *)

\* The watchdog can fire only while the main thread is between arming and
\* cancelling it.
WatchInv ==
  /\ main = "arm" => watchdog = "off"
  /\ main \in {"join", "auditJoin"} => cancelled
  /\ main \in {"stop", "joinDrainer", "done"} => watchdog = "ended"
  /\ NoLateKill

\* The drainer leaves its first loop after the last push, and its second when
\* nothing is left; until then its buffer and the queue hold what is missing.
DrainInv ==
  /\ running <=> main \notin {"joinDrainer", "audit", "auditCancel",
                              "auditJoin", "done"}
  /\ drainer \in {"last", "done"} => ~running
  /\ drainer \in {"check", "done"} => batch = <<>>
  /\ drainer = "done" => queue = <<>>
  /\ DrainerJoined => drainer = "done"
  /\ sent = (collected \o batch) \o queue

\* How far the delivery is: the probes passed are those below start, and the
\* run being delivered ends as the delivery mode says.
DeliveryInv ==
  /\ \A j \in 1 .. ProbeCount : j < k <=> probes[j] < start
  /\ main \in {"arm", "deliver"} => handled = start /\ left = 0
  /\ main \in {"engine", "push"} =>
       /\ stop = IF ~batched THEN start + 1
                 ELSE IF Probing THEN probes[k] + 1 ELSE Messages
       /\ start <= handled /\ handled <= stop /\ start < stop
  /\ main = "push" => handled < stop
  /\ main = "engine" => left = 0
  /\ main \notin {"arm", "deliver", "engine", "push"} =>
       handled = Messages /\ ~Probing
  /\ Len(snaps) = IF auditing THEN k - 1 ELSE 0
  /\ \A j \in 1 .. Len(snaps) : /\ snaps[j].index = probes[j]
                                /\ snaps[j].seen = probes[j] + 1

\* How far the audit is: the next snapshot has not been passed.
AuditInv ==
  /\ main \in {"audit", "auditCancel", "auditJoin"} => auditing
  /\ main \notin {"audit", "auditCancel", "auditJoin", "done"} =>
       fed = 0 /\ checked = <<>>
  /\ Len(checked) <= Len(snaps)
  /\ \A j \in 1 .. Len(checked) : checked[j].engine = checked[j].baseline
  /\ main = "audit" /\ Comparing => snaps[Len(checked) + 1].index >= fed
  /\ main \in {"auditCancel", "auditJoin"} => Len(checked) = Len(snaps)

IInv == TypeOK /\ WatchInv /\ DrainInv /\ DeliveryInv /\ AuditInv

-----------------------------------------------------------------------------
LEMMA ProbesFacts ==
  ASSUME probes \in ProbeLists
  PROVE /\ ProbeCount \in Nat /\ ProbeCount <= Messages
        /\ Len(probes) = ProbeCount
        /\ \A j \in 1 .. ProbeCount : probes[j] \in 0 .. Messages - 1
        /\ \A i, j \in 1 .. ProbeCount : i < j => probes[i] < probes[j]
<1>1. ProbeCount \in Nat /\ ProbeCount <= Messages
  BY RunAssumption DEF RunAssumption, ProbeCount
<1>2. probes \in [1 .. ProbeCount -> Indices]
  BY DEF ProbeLists
<1>3. probes \in Seq(Indices) /\ Len(probes) = ProbeCount
  BY <1>1, <1>2
<1>4. QED BY <1>1, <1>2, <1>3 DEF ProbeLists, Indices

LEMMA InitIInv == Init => IInv
<1>1. SUFFICES ASSUME Init PROVE IInv
  OBVIOUS
<1>2. /\ batched \in BOOLEAN /\ auditing \in BOOLEAN /\ probes \in ProbeLists
      /\ main = "arm" /\ start = 0 /\ stop = 0 /\ k = 1
      /\ handled = 0 /\ left = 0 /\ snaps = <<>> /\ queue = <<>>
      /\ sent = <<>> /\ running = TRUE /\ drainer = "check" /\ batch = <<>>
      /\ collected = <<>> /\ watchdog = "off" /\ cancelled = FALSE
      /\ killed = FALSE /\ fed = 0 /\ checked = <<>>
  BY <1>1 DEF Init
<1>3. TypeOK
  <2>1. \A S : <<>> \in Seq(S) /\ Len(<<>>) = 0
    OBVIOUS
  <2>2. /\ 0 \in 0 .. Messages /\ 0 \in 0 .. MaxReports
        /\ 0 <= Capacity /\ 0 <= DrainBatch /\ 1 \in 1 .. ProbeCount + 1
    BY <1>2, ProbesFacts, RunAssumption DEF RunAssumption
  <2>3. QED BY <1>2, <2>1, <2>2 DEF TypeOK, Mains
<1>4. WatchInv
  BY <1>2 DEF WatchInv, NoLateKill
<1>5. DrainInv
  BY <1>2 DEF DrainInv, DrainerJoined
<1>6. DeliveryInv
  BY <1>2, ProbesFacts DEF DeliveryInv
<1>7. AuditInv
  BY <1>2 DEF AuditInv
<1>8. QED BY <1>3, <1>4, <1>5, <1>6, <1>7 DEF IInv

\* The watchdog's mutex and flag: no action of the drainer or the engine
\* touches them.
LEMMA WatchStep == IInv /\ Next => WatchInv'
<1>1. SUFFICES ASSUME IInv, Next PROVE WatchInv'
  OBVIOUS
<1>2. WatchInv /\ ~killed
  BY <1>1 DEF IInv, Next
<1>3. CASE Engine
  BY <1>2, <1>3
  DEF Engine, Handle, Push, Handled, WatchInv, NoLateKill, watchVars
<1>4. CASE Drain
  BY <1>2, <1>4
  DEF Drain, CheckRunning, Pop, Consume, WatchInv, NoLateKill, watchVars
<1>5. CASE Watch
  <2>1. main \in Mains
    BY <1>1 DEF IInv, TypeOK
  <2>2. QED
    BY <1>2, <1>5, <2>1
    DEF Watch, TimeOut, Wake, Kill, WatchInv, NoLateKill, Mains
<1>6. CASE Harness
  BY <1>2, <1>6
  DEF Harness, Arm, Deliver, DeliverEnd, Probe, NoProbe, Cancel,
      JoinWatchdog, StopDrainer, JoinDrainer, Replay, ReplayEnd,
      WatchInv, NoLateKill, watchVars
<1>7. QED BY <1>1, <1>3, <1>4, <1>5, <1>6 DEF Next

\* The reports: pushed, popped, kept.
LEMMA DrainStep == IInv /\ Next => DrainInv'
<1>1. SUFFICES ASSUME IInv, Next PROVE DrainInv'
  OBVIOUS
<1>2. /\ DrainInv /\ main \in Mains
      /\ queue \in Seq(Reports) /\ batch \in Seq(Reports)
      /\ collected \in Seq(Reports) /\ sent \in Seq(Reports)
      /\ handled \in 0 .. Messages /\ left \in 0 .. MaxReports
      /\ DrainBatch \in Nat \ {0} /\ running \in BOOLEAN
      /\ drainer \in {"check", "drain", "last", "done"}
  BY <1>1, RunAssumption DEF IInv, TypeOK, RunAssumption
<1>3. CASE Push
  <2>1. /\ main = "push" /\ left > 0
        /\ queue' = Append(queue, <<handled, left>>)
        /\ sent' = Append(sent, <<handled, left>>)
        /\ UNCHANGED <<main, running, drainer, batch, collected>>
    BY <1>3 DEF Push, drainVars
  <2>2. <<handled, left>> \in Reports
    <3>1. handled < stop /\ stop \in 0 .. Messages
      BY <1>1, <2>1 DEF IInv, DeliveryInv, TypeOK
    <3>2. QED
      BY <1>2, <2>1, <3>1, RunAssumption DEF Reports, Indices, RunAssumption
  <2>3. sent' = (collected \o batch) \o queue'
    <3>1. collected \o batch \in Seq(Reports)
      BY <1>2
    <3>2. PICK r \in Reports : r = <<handled, left>>
      BY <2>2
    <3>3. (collected \o batch) \o Append(queue, r)
            = Append((collected \o batch) \o queue, r)
      BY <1>2, <3>1, ConcatPush
    <3>4. sent = (collected \o batch) \o queue
      BY <1>2 DEF DrainInv
    <3>5. QED BY <2>1, <3>2, <3>3, <3>4
  <2>4. QED BY <1>2, <2>1, <2>3 DEF DrainInv, DrainerJoined
<1>4. CASE Handle \/ Handled
  BY <1>2, <1>4 DEF Handle, Handled, DrainInv, DrainerJoined, drainVars
<1>5. CASE Pop
  <2>1. /\ drainer \in {"drain", "last"} /\ queue # <<>>
        /\ batch' = Append(batch, Head(queue)) /\ queue' = Tail(queue)
        /\ UNCHANGED <<main, running, drainer, collected, sent>>
    BY <1>5 DEF Pop, Popping
  <2>2. sent' = (collected' \o batch') \o queue'
    <3>1. /\ collected \in Seq(Reports) /\ batch \in Seq(Reports)
          /\ queue \in Seq(Reports) /\ queue # <<>>
      BY <1>2, <2>1
    <3>2. (collected \o Append(batch, Head(queue))) \o Tail(queue)
            = (collected \o batch) \o queue
      BY <3>1, ConcatPop, Zenon
    <3>3. sent = (collected \o batch) \o queue
      BY <1>2 DEF DrainInv
    <3>4. QED BY <2>1, <3>2, <3>3
  <2>3. QED BY <1>2, <2>1, <2>2 DEF DrainInv, DrainerJoined
<1>6. CASE Consume
  <2>1. /\ drainer \in {"drain", "last"} /\ ~Popping
        /\ collected' = collected \o batch /\ batch' = <<>>
        /\ drainer' = IF drainer = "drain" THEN "check"
                      ELSE IF batch = <<>> THEN "done" ELSE "last"
        /\ UNCHANGED <<main, running, queue, sent>>
    BY <1>6 DEF Consume
  <2>2. sent' = (collected' \o batch') \o queue'
    <3>1. collected \o batch \in Seq(Reports)
      BY <1>2
    <3>2. (collected \o batch) \o <<>> = collected \o batch
      BY <3>1, ConcatEmpty
    <3>3. QED BY <1>2, <2>1, <3>2 DEF DrainInv
  <2>3. batch = <<>> => queue = <<>>
    BY <1>2, <2>1 DEF Popping
  <2>4. QED BY <1>2, <2>1, <2>2, <2>3 DEF DrainInv, DrainerJoined
<1>7. CASE CheckRunning
  BY <1>2, <1>7 DEF CheckRunning, DrainInv, DrainerJoined
<1>8. CASE Watch
  <2>1. UNCHANGED <<main, drainer, batch, collected, queue, sent, running>>
    BY <1>8 DEF Watch, TimeOut, Wake, Kill, drainVars
  <2>2. QED BY <1>2, <2>1 DEF DrainInv, DrainerJoined
<1>9. CASE Harness
  <2>1. UNCHANGED <<drainer, batch, collected, queue, sent>>
    BY <1>9
    DEF Harness, Arm, Deliver, DeliverEnd, Probe, NoProbe, Cancel,
        JoinWatchdog, StopDrainer, JoinDrainer, Replay, ReplayEnd, drainVars
  <2>2. /\ running' <=> main' \notin {"joinDrainer", "audit", "auditCancel",
                                     "auditJoin", "done"}
        /\ drainer \in {"last", "done"} => ~running'
        /\ DrainerJoined' => drainer = "done"
    BY <1>2, <1>9
    DEF Harness, Arm, Deliver, DeliverEnd, Probe, NoProbe, Cancel,
        JoinWatchdog, StopDrainer, JoinDrainer, Replay, ReplayEnd,
        DrainInv, DrainerJoined
  <2>3. QED BY <1>2, <2>1, <2>2 DEF DrainInv
<1>10. QED
  BY <1>1, <1>3, <1>4, <1>5, <1>6, <1>7, <1>8, <1>9 DEF Next, Engine, Drain

\* Where the delivery stands.
LEMMA DeliveryStep == IInv /\ Next => DeliveryInv'
<1>1. SUFFICES ASSUME IInv, Next PROVE DeliveryInv'
  OBVIOUS
<1>2. /\ DeliveryInv /\ probes \in ProbeLists /\ probes' = probes
      /\ batched' = batched /\ auditing' = auditing
      /\ main \in Mains /\ Messages \in Nat
      /\ start \in 0 .. Messages /\ stop \in 0 .. Messages
      /\ k \in 1 .. ProbeCount + 1
      /\ handled \in 0 .. Messages /\ left \in 0 .. MaxReports
      /\ snaps \in Seq(Snapshots)
      /\ Len(snaps) \in Nat
  <2>1. config' = config
    BY <1>1
    DEF Next, Engine, Handle, Push, Handled, Drain, CheckRunning, Pop,
        Consume, Watch, TimeOut, Wake, Kill, Harness, Arm, Deliver,
        DeliverEnd, Probe, NoProbe, Cancel, JoinWatchdog, StopDrainer,
        JoinDrainer, Replay, ReplayEnd
  <2>2. QED
    BY <1>1, <2>1, RunAssumption DEF IInv, TypeOK, RunAssumption, config
<1>3. /\ ProbeCount \in Nat /\ ProbeCount <= Messages
      /\ Len(probes) = ProbeCount
      /\ \A j \in 1 .. ProbeCount : probes[j] \in 0 .. Messages - 1
      /\ \A i, j \in 1 .. ProbeCount : i < j => probes[i] < probes[j]
  BY <1>2, ProbesFacts
<1>4. CASE UNCHANGED <<start, stop, k, handled, left, snaps, main>>
  BY <1>2, <1>4 DEF DeliveryInv, Probing
<1>5. CASE Drain \/ Watch \/ Cancel \/ JoinWatchdog \/ StopDrainer
           \/ JoinDrainer \/ Replay \/ ReplayEnd
  <2>1. UNCHANGED <<start, stop, k, handled, left, snaps>>
    BY <1>5
    DEF Drain, CheckRunning, Pop, Consume, Watch, TimeOut, Wake, Kill, Cancel,
        JoinWatchdog, StopDrainer, JoinDrainer, Replay, ReplayEnd,
        deliveryVars
  <2>2. \/ main' = main
        \/ /\ main \notin {"arm", "deliver", "engine", "push"}
           /\ main' \notin {"arm", "deliver", "engine", "push"}
    BY <1>5
    DEF Drain, CheckRunning, Pop, Consume, Watch, TimeOut, Wake, Kill, Cancel,
        JoinWatchdog, StopDrainer, JoinDrainer, Replay, ReplayEnd
  <2>3. QED BY <1>2, <2>1, <2>2 DEF DeliveryInv, Probing
<1>6. CASE Arm
  BY <1>2, <1>6 DEF Arm, DeliveryInv, Probing, deliveryVars
<1>7. CASE Deliver
  <2>1. /\ main = "deliver" /\ main' = "engine"
        /\ IF batched THEN Probing \/ start < Messages ELSE start < Messages
        /\ stop' = IF ~batched THEN start + 1
                   ELSE IF Probing THEN probes[k] + 1 ELSE Messages
        /\ UNCHANGED <<start, k, handled, left, snaps>>
    BY <1>7 DEF Deliver, BatchEnd
  <2>2. Probing => start <= probes[k] /\ probes[k] \in 0 .. Messages - 1
    BY <1>2, <1>3 DEF Probing, DeliveryInv
  <2>3. start < stop'
    BY <1>2, <2>1, <2>2
  <2>4. QED BY <1>2, <2>1, <2>3 DEF DeliveryInv, Probing
<1>8. CASE DeliverEnd
  <2>1. /\ main = "deliver" /\ main' = "cancel" /\ start >= Messages
        /\ batched => ~Probing
        /\ UNCHANGED <<start, stop, k, handled, left, snaps>>
    BY <1>8 DEF DeliverEnd, deliveryVars
  <2>2. ~Probing
    BY <1>2, <1>3, <2>1 DEF Probing, DeliveryInv
  <2>3. QED BY <1>2, <2>1, <2>2 DEF DeliveryInv, Probing
<1>9. CASE Engine
  <2>1. CASE Handle
    <3>1. /\ main = "engine" /\ main' = "push" /\ handled < stop
          /\ UNCHANGED <<start, stop, k, handled, snaps>>
      BY <2>1 DEF Handle
    <3>2. QED BY <1>2, <3>1 DEF DeliveryInv, Probing
  <2>2. CASE Push
    <3>1. main = "push" /\ UNCHANGED <<main, start, stop, k, handled, snaps>>
      BY <2>2 DEF Push
    <3>2. QED BY <1>2, <3>1 DEF DeliveryInv, Probing
  <2>3. CASE Handled
    <3>1. /\ main = "push" /\ main' = "engine" /\ left = 0
          /\ handled' = handled + 1
          /\ UNCHANGED <<start, stop, k, left, snaps>>
      BY <2>3 DEF Handled
    <3>2. QED BY <1>2, <3>1 DEF DeliveryInv, Probing
  <2>4. QED BY <1>9, <2>1, <2>2, <2>3 DEF Engine
<1>10. CASE Probe
  <2>1. /\ main = "engine" /\ main' = "deliver" /\ handled >= stop
        /\ k <= ProbeCount /\ (batched \/ start = probes[k])
        /\ snaps' = IF auditing
                    THEN Append(snaps, [index |-> probes[k], seen |-> handled])
                    ELSE snaps
        /\ k' = k + 1 /\ start' = probes[k] + 1
        /\ UNCHANGED <<stop, handled, left>>
    BY <1>3, <1>10 DEF Probe, AtProbe, Probing
  <2>2. handled = probes[k] + 1 /\ left = 0
    BY <1>2, <1>3, <2>1 DEF DeliveryInv, Probing
  <2>3. \A j \in 1 .. ProbeCount : j < k' <=> probes[j] < start'
    <3>1. k \in 1 .. ProbeCount /\ probes[k] \in 0 .. Messages - 1
      BY <1>2, <1>3, <2>1
    <3>2. ASSUME NEW j \in 1 .. ProbeCount
          PROVE j < k + 1 <=> probes[j] < probes[k] + 1
      <4>1. probes[j] \in 0 .. Messages - 1
        BY <1>3
      <4>2. /\ j < k => probes[j] < probes[k]
            /\ k < j => probes[k] < probes[j]
        BY <1>3, <3>1
      <4>3. QED BY <1>2, <3>1, <4>1, <4>2
    <3>3. QED BY <2>1, <3>2
  <2>4. /\ Len(snaps') = IF auditing THEN k' - 1 ELSE 0
        /\ \A j \in 1 .. Len(snaps') : /\ snaps'[j].index = probes[j]
                                       /\ snaps'[j].seen = probes[j] + 1
    <3>1. CASE auditing
      <4>1. snaps' = Append(snaps, [index |-> probes[k], seen |-> handled])
        BY <2>1, <3>1
      <4>2. /\ Len(snaps) = k - 1
            /\ \A j \in 1 .. Len(snaps) : /\ snaps[j].index = probes[j]
                                          /\ snaps[j].seen = probes[j] + 1
        BY <1>2, <3>1 DEF DeliveryInv
      <4>3. /\ Len(snaps') = k
            /\ \A j \in 1 .. k - 1 : snaps'[j] = snaps[j]
            /\ snaps'[k] = [index |-> probes[k], seen |-> handled]
        BY <1>2, <4>1, <4>2
      <4>4. QED BY <1>2, <2>1, <2>2, <3>1, <4>2, <4>3
    <3>2. CASE ~auditing
      BY <1>2, <2>1, <3>2 DEF DeliveryInv
    <3>3. QED BY <3>1, <3>2
  <2>5. QED BY <1>2, <2>1, <2>2, <2>3, <2>4 DEF DeliveryInv
<1>11. CASE NoProbe
  <2>1. /\ main = "engine" /\ main' = "deliver" /\ handled >= stop
        /\ ~(k <= ProbeCount /\ (batched \/ start = probes[k]))
        /\ start' = stop
        /\ UNCHANGED <<stop, k, handled, left, snaps>>
    BY <1>3, <1>11 DEF NoProbe, AtProbe, Probing
  <2>2. handled = stop /\ left = 0 /\ start < stop
        /\ stop = IF ~batched THEN start + 1
                  ELSE IF Probing THEN probes[k] + 1 ELSE Messages
    BY <1>2, <2>1 DEF DeliveryInv
  <2>3. \A j \in 1 .. ProbeCount : j < k <=> probes[j] < start
    BY <1>2 DEF DeliveryInv
  <2>4. \A j \in 1 .. ProbeCount : j < k <=> probes[j] < stop
    <3>1. CASE batched
      <4>1. k = ProbeCount + 1 /\ stop = Messages
        BY <1>2, <1>3, <2>1, <2>2, <3>1 DEF Probing
      <4>2. QED BY <1>2, <1>3, <4>1
    <3>2. CASE ~batched
      <4>1. stop = start + 1
        BY <2>2, <3>2
      <4>2. ASSUME NEW j \in 1 .. ProbeCount, probes[j] = start PROVE FALSE
        <5>1. k <= j
          BY <1>2, <1>3, <2>3, <4>2
        <5>2. k = j \/ probes[k] < probes[j]
          BY <1>2, <1>3, <5>1
        <5>3. QED BY <1>2, <1>3, <2>1, <2>3, <4>2, <5>1, <5>2
      <4>3. QED BY <1>2, <1>3, <2>3, <4>1, <4>2
    <3>3. QED BY <3>1, <3>2
  <2>5. QED BY <1>2, <2>1, <2>2, <2>4 DEF DeliveryInv
<1>12. QED
  BY <1>1, <1>5, <1>6, <1>7, <1>8, <1>9, <1>10, <1>11 DEF Next, Harness

\* Each action keeps the types of what it writes.
LEMMA EngineType == IInv /\ Engine => TypeOK'
<1>1. SUFFICES ASSUME IInv, Engine PROVE TypeOK'
  OBVIOUS
<1>2. TypeOK /\ Messages \in Nat /\ MaxReports \in Nat /\ Capacity \in Nat
  BY <1>1, RunAssumption DEF IInv, RunAssumption
<1>3. CASE Handle
  BY <1>2, <1>3
  DEF Handle, TypeOK, config, drainVars, watchVars, auditVars, Mains
<1>4. CASE Handled
  <2>1. handled + 1 \in 0 .. Messages
    <3>1. handled < stop
      BY <1>1, <1>4 DEF IInv, DeliveryInv, Handled
    <3>2. QED BY <1>2, <3>1 DEF TypeOK
  <2>2. QED
    BY <1>2, <1>4, <2>1
    DEF Handled, TypeOK, config, drainVars, watchVars, auditVars, Mains
<1>5. CASE Push
  <2>1. /\ main = "push" /\ left > 0 /\ Len(queue) < Capacity
        /\ queue' = Append(queue, <<handled, left>>)
        /\ sent' = Append(sent, <<handled, left>>)
        /\ left' = left - 1
        /\ UNCHANGED <<config, main, start, stop, k, handled, snaps, running,
                       drainVars, watchVars, auditVars>>
    <3>1. Len(queue) \in Nat
      BY <1>2 DEF TypeOK
    <3>2. QED BY <1>2, <1>5, <3>1 DEF Push, Full
  <2>2. PICK r \in Reports : r = <<handled, left>>
    <3>1. handled < stop
      BY <1>1, <2>1 DEF IInv, DeliveryInv
    <3>2. handled \in 0 .. Messages - 1 /\ left \in 1 .. MaxReports
      BY <1>2, <2>1, <3>1 DEF TypeOK
    <3>3. QED BY <3>2 DEF Reports, Indices
  <2>3. /\ Append(queue, r) \in Seq(Reports)
        /\ Len(Append(queue, r)) = Len(queue) + 1
        /\ Append(sent, r) \in Seq(Reports)
    BY <1>2, <2>2 DEF TypeOK
  <2>4. /\ queue' \in Seq(Reports) /\ Len(queue') <= Capacity
        /\ sent' \in Seq(Reports)
    <3>1. Len(queue) \in Nat
      BY <1>2 DEF TypeOK
    <3>2. QED BY <1>2, <2>1, <2>2, <2>3, <3>1
  <2>5. left' \in 0 .. MaxReports
    BY <1>2, <2>1 DEF TypeOK
  <2>6. QED
    BY <1>2, <2>1, <2>4, <2>5
    DEF TypeOK, config, drainVars, watchVars, auditVars
<1>6. QED BY <1>1, <1>3, <1>4, <1>5 DEF Engine

LEMMA DrainType == IInv /\ Drain => TypeOK'
<1>1. SUFFICES ASSUME IInv, Drain PROVE TypeOK'
  OBVIOUS
<1>2. TypeOK /\ DrainBatch \in Nat \ {0} /\ Capacity \in Nat
  BY <1>1, RunAssumption DEF IInv, RunAssumption
<1>3. CASE CheckRunning
  BY <1>2, <1>3
  DEF CheckRunning, TypeOK, config, deliveryVars, watchVars, auditVars
<1>4. CASE Pop
  <2>1. /\ Len(batch) < DrainBatch /\ queue # <<>>
        /\ batch' = Append(batch, Head(queue)) /\ queue' = Tail(queue)
        /\ UNCHANGED <<config, main, deliveryVars, sent, running, drainer,
                       collected, watchVars, auditVars>>
    BY <1>4 DEF Pop, Popping
  <2>2. /\ queue \in Seq(Reports) /\ Len(queue) <= Capacity
        /\ batch \in Seq(Reports)
    BY <1>2 DEF TypeOK
  <2>3. /\ Tail(queue) \in Seq(Reports) /\ Len(Tail(queue)) <= Capacity
        /\ Append(batch, Head(queue)) \in Seq(Reports)
        /\ Len(Append(batch, Head(queue))) <= DrainBatch
    BY <1>2, <2>1, <2>2
  <2>4. QED
    BY <1>2, <2>1, <2>3
    DEF TypeOK, config, deliveryVars, watchVars, auditVars
<1>5. CASE Consume
  <2>1. /\ collected' = collected \o batch /\ batch' = <<>>
        /\ drainer' \in {"check", "done", "last"}
        /\ UNCHANGED <<config, main, deliveryVars, queue, sent, running,
                       watchVars, auditVars>>
    BY <1>5 DEF Consume
  <2>2. collected' \in Seq(Reports)
    <3>1. collected \in Seq(Reports) /\ batch \in Seq(Reports)
      BY <1>2 DEF TypeOK
    <3>2. collected \o batch \in Seq(Reports)
      BY <3>1
    <3>3. QED BY <2>1, <3>2
  <2>3. batch' \in Seq(Reports) /\ Len(batch') <= DrainBatch
    BY <1>2, <2>1
  <2>4. QED
    BY <1>2, <2>1, <2>2, <2>3
    DEF TypeOK, config, deliveryVars, watchVars, auditVars
<1>6. QED BY <1>1, <1>3, <1>4, <1>5 DEF Drain

LEMMA WatchType == TypeOK /\ Watch => TypeOK'
BY DEF Watch, TimeOut, Wake, Kill, TypeOK, config, deliveryVars, drainVars,
       auditVars

LEMMA HarnessType == IInv /\ Harness => TypeOK'
<1>1. SUFFICES ASSUME IInv, Harness PROVE TypeOK'
  OBVIOUS
<1>2. TypeOK /\ Messages \in Nat
  BY <1>1, RunAssumption DEF IInv, RunAssumption
<1>3. /\ ProbeCount \in Nat /\ ProbeCount <= Messages
      /\ Len(probes) = ProbeCount
      /\ \A j \in 1 .. ProbeCount : probes[j] \in 0 .. Messages - 1
  BY <1>2, ProbesFacts DEF TypeOK
<1>4. CASE Arm \/ DeliverEnd \/ Cancel \/ JoinWatchdog \/ StopDrainer
           \/ JoinDrainer \/ ReplayEnd
  <2>1. /\ UNCHANGED <<config, deliveryVars, queue, sent, drainVars, killed,
                       auditVars>>
        /\ main' \in Mains
        /\ running' \in BOOLEAN /\ cancelled' \in BOOLEAN
        /\ watchdog' \in {"off", "waiting", "firing", "ended"}
    <3>1. /\ running \in BOOLEAN /\ cancelled \in BOOLEAN
          /\ watchdog \in {"off", "waiting", "firing", "ended"}
      BY <1>2 DEF TypeOK
    <3>2. CASE Arm
      BY <3>1, <3>2 DEF Arm, Mains
    <3>3. CASE DeliverEnd \/ StopDrainer \/ ReplayEnd
      BY <3>1, <3>3 DEF DeliverEnd, StopDrainer, ReplayEnd, Mains, watchVars
    <3>4. CASE Cancel \/ JoinWatchdog
      BY <3>1, <3>4 DEF Cancel, JoinWatchdog, Mains, watchVars
    <3>5. CASE JoinDrainer
      BY <3>1, <3>5 DEF JoinDrainer, Mains
    <3>6. QED BY <1>4, <3>2, <3>3, <3>4, <3>5
  <2>2. QED
    BY <1>2, <2>1 DEF TypeOK, config, deliveryVars, drainVars, auditVars
<1>5. CASE Deliver
  <2>1. /\ IF batched THEN Probing \/ start < Messages ELSE start < Messages
        /\ stop' = IF ~batched THEN start + 1
                   ELSE IF Probing THEN probes[k] + 1 ELSE Messages
        /\ main' = "engine"
        /\ UNCHANGED <<config, start, k, handled, left, snaps, queue, sent,
                       running, drainVars, watchVars, auditVars>>
    BY <1>5 DEF Deliver, BatchEnd
  <2>2. stop' \in 0 .. Messages
    <3>1. /\ start \in 0 .. Messages /\ k \in 1 .. ProbeCount + 1
          /\ batched \in BOOLEAN
      BY <1>2 DEF TypeOK
    <3>2. Probing => probes[k] \in 0 .. Messages - 1
      BY <1>3, <3>1 DEF Probing
    <3>3. QED BY <1>2, <2>1, <3>1, <3>2
  <2>3. QED
    BY <1>2, <2>1, <2>2
    DEF TypeOK, Mains, config, drainVars, watchVars, auditVars
<1>6. CASE Probe
  <2>1. /\ main' = "deliver" /\ k <= ProbeCount
        /\ snaps' = IF auditing
                    THEN Append(snaps, [index |-> probes[k], seen |-> handled])
                    ELSE snaps
        /\ k' = k + 1 /\ start' = probes[k] + 1
        /\ UNCHANGED <<config, stop, handled, left, queue, sent, running,
                       drainVars, watchVars, auditVars>>
    BY <1>3, <1>6 DEF Probe, AtProbe, Probing
  <2>2. /\ k \in 1 .. ProbeCount /\ probes[k] \in 0 .. Messages - 1
        /\ handled \in 0 .. Messages
    BY <1>2, <1>3, <2>1 DEF TypeOK
  <2>3. start' \in 0 .. Messages /\ k' \in 1 .. ProbeCount + 1
    BY <1>2, <1>3, <2>1, <2>2
  <2>4. snaps' \in Seq(Snapshots)
    <3>1. snaps \in Seq(Snapshots)
      BY <1>2 DEF TypeOK
    <3>2. PICK r \in Snapshots :
            r = [index |-> probes[k], seen |-> handled]
      BY <2>2 DEF Indices, Snapshots
    <3>3. Append(snaps, r) \in Seq(Snapshots)
      BY <3>1, <3>2
    <3>4. QED BY <2>1, <3>1, <3>2, <3>3
  <2>5. QED
    BY <1>2, <2>1, <2>3, <2>4
    DEF TypeOK, Mains, config, drainVars, watchVars, auditVars
<1>7. CASE NoProbe
  BY <1>2, <1>7
  DEF NoProbe, TypeOK, Mains, config, drainVars, watchVars, auditVars
<1>8. CASE Replay
  <2>1. /\ fed < Messages /\ Comparing /\ fed' = fed + 1
        /\ checked' = IF CheckNow(fed)
                      THEN Append(checked,
                                  [engine |-> snaps[Len(checked) + 1].seen,
                                   baseline |-> fed + 1])
                      ELSE checked
        /\ UNCHANGED <<config, main, deliveryVars, queue, sent, running,
                       drainVars, watchVars>>
    BY <1>8 DEF Replay
  <2>2. /\ fed \in 0 .. Messages
        /\ checked \in Seq(Comparisons)
        /\ snaps \in Seq(Snapshots)
    BY <1>2 DEF TypeOK
  <2>3. fed' \in 0 .. Messages /\ fed + 1 \in 0 .. Messages
    BY <1>2, <2>1, <2>2
  <2>4. checked' \in Seq(Comparisons)
    <3>1. Len(checked) + 1 \in 1 .. Len(snaps)
      BY <2>1, <2>2 DEF Comparing
    <3>2. snaps[Len(checked) + 1] \in Snapshots
      BY <2>2, <3>1, ElementOfSeq
    <3>3. PICK r \in Comparisons :
            r = [engine |-> snaps[Len(checked) + 1].seen,
                 baseline |-> fed + 1]
      BY <2>3, <3>2 DEF Snapshots, Comparisons
    <3>4. Append(checked, r)
            \in Seq(Comparisons)
      BY <2>2, <3>3
    <3>5. QED BY <2>1, <2>2, <3>3, <3>4
  <2>5. QED
    BY <1>2, <2>1, <2>3, <2>4
    DEF TypeOK, config, deliveryVars, drainVars, watchVars
<1>9. QED BY <1>1, <1>4, <1>5, <1>6, <1>7, <1>8 DEF Harness

LEMMA TypeStep == IInv /\ Next => TypeOK'
BY EngineType, DrainType, WatchType, HarnessType DEF Next, IInv

\* The audit: it meets the snapshots in the order of their messages.
LEMMA AuditStep == IInv /\ Next => AuditInv'
<1>1. SUFFICES ASSUME IInv, Next PROVE AuditInv'
  OBVIOUS
<1>2. /\ AuditInv /\ main \in Mains /\ Messages \in Nat
      /\ fed \in 0 .. Messages /\ k \in 1 .. ProbeCount + 1
      /\ checked \in Seq(Comparisons) /\ Len(checked) \in Nat
      /\ snaps \in Seq(Snapshots) /\ Len(snaps) \in Nat
  <2>1. AuditInv /\ TypeOK
    BY <1>1 DEF IInv
  <2>2. checked \in Seq(Comparisons) /\ snaps \in Seq(Snapshots)
    BY <2>1 DEF TypeOK
  <2>3. Len(checked) \in Nat /\ Len(snaps) \in Nat
    BY <2>2
  <2>4. QED BY <2>1, <2>2, <2>3, RunAssumption DEF TypeOK, RunAssumption
<1>3. /\ ProbeCount \in Nat
      /\ \A j \in 1 .. ProbeCount : probes[j] \in 0 .. Messages - 1
      /\ \A i, j \in 1 .. ProbeCount : i < j => probes[i] < probes[j]
  BY <1>1, ProbesFacts DEF IInv, TypeOK
<1>4. /\ Len(snaps) <= ProbeCount
      /\ \A j \in 1 .. Len(snaps) : /\ snaps[j].index = probes[j]
                                    /\ snaps[j].seen = probes[j] + 1
  BY <1>1, <1>2, <1>3 DEF IInv, DeliveryInv
<1>5. CASE Engine \/ Drain \/ Watch
  <2>1. UNCHANGED <<fed, checked, snaps, auditing>>
    BY <1>5
    DEF Engine, Handle, Push, Handled, Drain, CheckRunning, Pop, Consume,
        Watch, TimeOut, Wake, Kill, deliveryVars, auditVars, config
  <2>2. \/ main' = main
        \/ main \in {"engine", "push"} /\ main' \in {"engine", "push"}
    BY <1>5
    DEF Engine, Handle, Push, Handled, Drain, CheckRunning, Pop, Consume,
        Watch, TimeOut, Wake, Kill
  <2>3. QED BY <1>2, <2>1, <2>2 DEF AuditInv, Comparing
<1>6. CASE Arm \/ Deliver \/ DeliverEnd \/ NoProbe \/ StopDrainer
  <2>1. UNCHANGED <<fed, checked, snaps, auditing>>
    BY <1>6
    DEF Arm, Deliver, DeliverEnd, NoProbe, StopDrainer, deliveryVars,
        auditVars, config
  <2>2. /\ main \notin {"audit", "auditCancel", "auditJoin", "done"}
        /\ main' \notin {"audit", "auditCancel", "auditJoin", "done"}
    BY <1>6 DEF Arm, Deliver, DeliverEnd, NoProbe, StopDrainer
  <2>3. QED BY <1>2, <2>1, <2>2 DEF AuditInv
<1>7. CASE Probe
  <2>1. /\ main = "engine" /\ main' = "deliver"
        /\ snaps' = snaps
             \/ snaps' = Append(snaps, [index |-> probes[k], seen |-> handled])
        /\ UNCHANGED <<fed, checked, auditing>>
    BY <1>7 DEF Probe, auditVars, config
  <2>2. fed = 0 /\ checked = <<>> /\ Len(checked) = 0
    BY <1>2, <2>1 DEF AuditInv
  <2>3. Len(snaps') \in Nat
    BY <1>2, <2>1
  <2>4. QED BY <2>1, <2>2, <2>3 DEF AuditInv
<1>8. CASE Cancel \/ JoinWatchdog
  <2>1. UNCHANGED <<fed, checked, snaps, auditing>>
    BY <1>8 DEF Cancel, JoinWatchdog, deliveryVars, auditVars, config
  <2>2. \/ main = "cancel" /\ main' = "join"
        \/ main = "auditCancel" /\ main' = "auditJoin"
        \/ main = "join" /\ main' = "stop"
        \/ main = "auditJoin" /\ main' = "done"
    BY <1>8 DEF Cancel, JoinWatchdog
  <2>3. QED BY <1>2, <2>1, <2>2 DEF AuditInv
<1>9. CASE JoinDrainer
  <2>1. /\ main = "joinDrainer"
        /\ (auditing /\ main' = "audit") \/ main' = "done"
        /\ UNCHANGED <<fed, checked, snaps, auditing>>
    BY <1>9 DEF JoinDrainer, deliveryVars, auditVars, config
  <2>2. fed = 0 /\ checked = <<>> /\ Len(checked) = 0
    BY <1>2, <2>1 DEF AuditInv
  <2>3. Len(snaps) > 0 => snaps[1].index >= 0
    BY <1>2, <1>3, <1>4
  <2>4. QED BY <1>2, <2>1, <2>2, <2>3 DEF AuditInv, Comparing
<1>10. CASE Replay
  <2>1. /\ main = "audit" /\ main' = main /\ fed' = fed + 1
        /\ Len(checked) < Len(snaps)
        /\ UNCHANGED <<snaps, auditing>>
    BY <1>10 DEF Replay, Comparing, deliveryVars, config
  <2>2. /\ auditing
        /\ \A j \in 1 .. Len(checked) : checked[j].engine = checked[j].baseline
        /\ snaps[Len(checked) + 1].index >= fed
    BY <1>2, <2>1 DEF AuditInv, Comparing
  <2>3. PICK n \in 1 .. Len(snaps) : n = Len(checked) + 1
    BY <1>2, <2>1
  <2>4. /\ snaps[n].index = probes[n] /\ snaps[n].seen = probes[n] + 1
        /\ probes[n] \in 0 .. Messages - 1
    BY <1>2, <1>3, <1>4, <2>3
  <2>5. CASE CheckNow(fed)
    <3>1. snaps[n].index = fed
      BY <2>3, <2>5 DEF CheckNow
    <3>2. PICK c : c = [engine |-> snaps[n].seen, baseline |-> fed + 1]
      OBVIOUS
    <3>3. c \in Comparisons /\ c.engine = c.baseline
      <4>1. snaps[n].seen = fed + 1 /\ fed + 1 \in 0 .. Messages
        BY <1>2, <2>4, <3>1
      <4>2. PICK f \in 0 .. Messages : f = fed + 1
        BY <4>1
      <4>3. c = [engine |-> f, baseline |-> f]
        BY <3>2, <4>1, <4>2
      <4>4. QED BY <4>2, <4>3 DEF Comparisons
    <3>4. checked' = Append(checked, c)
      BY <1>10, <2>3, <2>5, <3>2 DEF Replay
    <3>5. /\ Len(checked') = n
          /\ \A j \in 1 .. Len(checked) : checked'[j] = checked[j]
          /\ checked'[n] = c
      BY <1>2, <2>3, <3>3, <3>4
    <3>6. \A j \in 1 .. Len(checked') : checked'[j].engine = checked'[j].baseline
      BY <1>2, <2>2, <2>3, <3>3, <3>5
    <3>7. n < Len(snaps) => snaps[n + 1].index >= fed + 1
      <4>1. SUFFICES ASSUME n < Len(snaps) PROVE snaps[n + 1].index >= fed + 1
        OBVIOUS
      <4>2. n + 1 \in 1 .. Len(snaps) /\ n \in 1 .. ProbeCount
            /\ n + 1 \in 1 .. ProbeCount
        BY <1>2, <1>3, <1>4, <2>3, <4>1
      <4>3. probes[n] < probes[n + 1] /\ probes[n + 1] \in 0 .. Messages - 1
        BY <1>3, <4>2
      <4>4. snaps[n + 1].index = probes[n + 1]
        BY <1>4, <4>2
      <4>5. QED BY <1>2, <2>4, <3>1, <4>3, <4>4
    <3>8. QED BY <1>2, <2>1, <2>2, <2>3, <3>5, <3>6, <3>7 DEF AuditInv, Comparing
  <2>6. CASE ~CheckNow(fed)
    <3>1. checked' = checked
      BY <1>10, <2>6 DEF Replay
    <3>2. snaps[n].index >= fed + 1
      <4>1. snaps[n].index # fed
        BY <2>3, <2>6 DEF CheckNow
      <4>2. snaps[n].index >= fed
        BY <2>2, <2>3
      <4>3. QED BY <1>2, <2>4, <4>1, <4>2
    <3>3. QED BY <1>2, <2>1, <2>2, <2>3, <3>1, <3>2 DEF AuditInv, Comparing
  <2>7. QED BY <2>5, <2>6
<1>11. CASE ReplayEnd
  <2>1. /\ main = "audit" /\ main' = "auditCancel"
        /\ fed >= Messages \/ ~Comparing
        /\ UNCHANGED <<fed, checked, snaps, auditing>>
    BY <1>11 DEF ReplayEnd, deliveryVars, auditVars, config
  <2>2. ~Comparing
    <3>1. SUFFICES ASSUME Comparing PROVE FALSE
      OBVIOUS
    <3>2. PICK n \in 1 .. Len(snaps) : n = Len(checked) + 1
      BY <1>2, <3>1 DEF Comparing
    <3>3. snaps[n].index >= fed
      BY <1>2, <2>1, <3>1, <3>2 DEF AuditInv
    <3>4. snaps[n].index = probes[n] /\ probes[n] \in 0 .. Messages - 1
      BY <1>2, <1>3, <1>4, <3>2
    <3>5. QED BY <1>2, <2>1, <3>1, <3>3, <3>4
  <2>3. QED BY <1>2, <2>1, <2>2 DEF AuditInv, Comparing
<1>12. QED
  BY <1>1, <1>5, <1>6, <1>7, <1>8, <1>9, <1>10, <1>11 DEF Next, Harness

LEMMA StutterIInv == IInv /\ UNCHANGED vars => IInv'
<1>1. SUFFICES ASSUME IInv, UNCHANGED vars PROVE IInv'
  OBVIOUS
<1>2. /\ UNCHANGED <<batched, auditing, probes, main, start, stop, k, handled>>
      /\ UNCHANGED <<left, snaps, queue, sent, running, drainer, batch>>
      /\ UNCHANGED <<collected, watchdog, cancelled, killed, fed, checked>>
  BY <1>1 DEF vars, config, deliveryVars, drainVars, watchVars, auditVars
<1>3. TypeOK'
  BY <1>1, <1>2 DEF IInv, TypeOK
<1>4. WatchInv'
  BY <1>1, <1>2 DEF IInv, WatchInv, NoLateKill
<1>5. DrainInv'
  BY <1>1, <1>2 DEF IInv, DrainInv, DrainerJoined
<1>6. DeliveryInv'
  BY <1>1, <1>2 DEF IInv, DeliveryInv, Probing
<1>7. AuditInv'
  BY <1>1, <1>2 DEF IInv, AuditInv, Comparing
<1>8. QED BY <1>3, <1>4, <1>5, <1>6, <1>7 DEF IInv

\* The reports the channel carries, as the refinement sees them.
LEMMA RunCarries == IInv /\ [Next]_vars => [Channel!Next]_(Channel!vars)
<1>1. SUFFICES ASSUME IInv, [Next]_vars PROVE [Channel!Next]_(Channel!vars)
  OBVIOUS
<1>2. /\ sent = (collected \o batch) \o queue
      /\ sent \in Seq(Reports) /\ collected \in Seq(Reports)
      /\ batch \in Seq(Reports) /\ queue \in Seq(Reports)
  BY <1>1 DEF IInv, TypeOK, DrainInv
<1>3. CASE Push
  <2>1. /\ main = "push" /\ left > 0
        /\ sent' = Append(sent, <<handled, left>>) /\ collected' = collected
    BY <1>3 DEF Push, drainVars
  <2>2. <<handled, left>> \in Reports
    <3>1. /\ handled < stop /\ stop \in 0 .. Messages
          /\ handled \in 0 .. Messages /\ left \in 0 .. MaxReports
      BY <1>1, <2>1 DEF IInv, DeliveryInv, TypeOK
    <3>2. QED
      BY <2>1, <3>1, RunAssumption DEF Reports, Indices, RunAssumption
  <2>3. Channel!Next
    BY <2>1, <2>2 DEF Channel!Next, Channel!Send
  <2>4. QED BY <2>3
<1>4. CASE Consume
  <2>1. collected' = collected \o batch /\ sent' = sent
    BY <1>4 DEF Consume
  <2>2. CASE batch = <<>>
    <3>1. collected' = collected
      BY <1>2, <2>1, <2>2, ConcatEmpty
    <3>2. QED BY <2>1, <3>1 DEF Channel!vars
  <2>3. CASE batch # <<>>
    <3>1. /\ Len(collected) \in Nat /\ Len(batch) \in Nat \ {0}
          /\ Len(queue) \in Nat
      BY <1>2, <2>3
    <3>2. PICK n \in Nat : n = Len(collected) + Len(batch)
      BY <3>1
    <3>3. /\ Len((collected \o batch) \o queue) = n + Len(queue)
          /\ SubSeq((collected \o batch) \o queue, 1, n) = collected \o batch
      BY <1>2, <3>2, ConcatPrefix
    <3>4. n \in 1 .. Len(sent) /\ n \in Len(collected) + 1 .. Len(sent)
      BY <1>2, <3>1, <3>2, <3>3
    <3>5. collected' = SubSeq(sent, 1, n)
      BY <1>2, <2>1, <3>3
    <3>6. Channel!Next
      BY <2>1, <3>4, <3>5 DEF Channel!Next, Channel!Receive
    <3>7. QED BY <3>6
  <2>4. QED BY <2>2, <2>3
<1>5. CASE \/ Handle \/ Handled \/ Harness \/ CheckRunning \/ Pop \/ Watch
           \/ UNCHANGED vars
  <2>1. UNCHANGED <<sent, collected>>
    BY <1>5
    DEF Handle, Handled, CheckRunning, Pop, Watch, TimeOut, Wake, Kill,
        Harness, Arm, Deliver, DeliverEnd, Probe, NoProbe, Cancel,
        JoinWatchdog, StopDrainer, JoinDrainer, Replay, ReplayEnd, vars,
        drainVars
  <2>2. QED BY <2>1 DEF Channel!vars
<1>6. QED BY <1>1, <1>3, <1>4, <1>5 DEF Next, Engine, Drain

-----------------------------------------------------------------------------
(* The theorems.                                                           *)

\* The inductive invariant holds in every state of every run.
THEOREM RunInductive == Spec => []IInv
<1>1. IInv /\ [Next]_vars => IInv'
  BY TypeStep, WatchStep, DrainStep, DeliveryStep, AuditStep, StutterIInv
  DEF IInv
<1>2. QED BY InitIInv, <1>1, PTL DEF Spec

\* TypeOK: every variable keeps its type, and the queue its capacity.
THEOREM RunTypes == Spec => []TypeOK
<1>1. IInv => TypeOK
  BY DEF IInv
<1>2. QED BY RunInductive, <1>1, PTL

\* AllCollected: whatever the capacity, the drain size and the interleaving,
\* the main thread finds every report of every message once it has joined the
\* drainer.
THEOREM NothingLost == Spec => []AllCollected
<1>1. IInv => AllCollected
  <2>1. SUFFICES ASSUME IInv, DrainerJoined
                 PROVE collected = sent /\ handled = Messages
    BY DEF AllCollected
  <2>2. /\ batch = <<>> /\ queue = <<>> /\ collected \in Seq(Reports)
        /\ sent = (collected \o batch) \o queue
    BY <2>1 DEF IInv, TypeOK, DrainInv
  <2>3. collected \o <<>> = collected
    BY <2>2, ConcatEmpty
  <2>4. handled = Messages
    BY <2>1 DEF IInv, DeliveryInv, DrainerJoined
  <2>5. QED BY <2>2, <2>3, <2>4
<1>2. QED BY RunInductive, <1>1, PTL

\* ProbesAligned: for every workload and probe list, delivered in batches or
\* not, each probe sees the book right after its message.
THEOREM ProbesInPlace == Spec => []ProbesAligned
<1>1. IInv => ProbesAligned
  <2>1. SUFFICES ASSUME IInv PROVE ProbesAligned
    OBVIOUS
  <2>2. /\ DeliveryInv /\ snaps \in Seq(Snapshots) /\ k \in 1 .. ProbeCount + 1
        /\ probes \in ProbeLists
    BY <2>1 DEF IInv, TypeOK
  <2>3. ProbeCount \in Nat /\ Len(probes) = ProbeCount
    BY <2>2, ProbesFacts
  <2>4. DOMAIN snaps = 1 .. Len(snaps)
    BY <2>2
  <2>5. DrainerJoined /\ auditing => Len(snaps) = Len(probes)
    BY <2>2, <2>3 DEF DeliveryInv, Probing, DrainerJoined
  <2>6. QED BY <2>2, <2>4, <2>5 DEF DeliveryInv, ProbesAligned
<1>2. QED BY RunInductive, <1>1, PTL

\* AuditAligned: the audit compares books after equally many messages, and
\* passes no snapshot over.
THEOREM AuditComparesEqualPrefixes == Spec => []AuditAligned
<1>1. IInv => AuditAligned
  <2>1. SUFFICES ASSUME IInv PROVE AuditAligned
    OBVIOUS
  <2>2. AuditInv /\ DOMAIN checked = 1 .. Len(checked)
    BY <2>1 DEF IInv, TypeOK
  <2>3. QED BY <2>2 DEF AuditInv, AuditAligned
<1>2. QED BY RunInductive, <1>1, PTL

\* AuditSound: probes and comparisons are where they should be.
THEOREM AuditIsSound == Spec => []AuditSound
BY ProbesInPlace, AuditComparesEqualPrefixes, PTL DEF AuditSound

\* NoLateKill: no run that has cancelled its watchdog is killed by it.
THEOREM NoKillAfterCancel == Spec => []NoLateKill
<1>1. IInv => NoLateKill
  BY DEF IInv, WatchInv
<1>2. QED BY RunInductive, <1>1, PTL

\* CarriesReports: queue and drainer implement the channel: every report is
\* collected once and in the order of the pushes.
THEOREM RunImplementsChannel == Spec => CarriesReports
<1>1. Init => Channel!Init
  BY DEF Init, Channel!Init
<1>2. QED
  BY RunInductive, RunCarries, <1>1, PTL
  DEF Spec, CarriesReports, Channel!Spec
=============================================================================
