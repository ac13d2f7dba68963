---------------------------- MODULE BenchmarkRun ----------------------------
(***************************************************************************)
(* One run of the benchmark: the main thread delivers the workload to the  *)
(* engine, one message at a time or in batches that end at the audit       *)
(* probes; the engine pushes its reports on a bounded queue, which the     *)
(* drainer thread empties; a watchdog thread kills the process when the    *)
(* run, or the state audit after it, takes too long.                       *)
(*                                                                         *)
(* Main, drainer and watchdog interleave at every access to what they      *)
(* share: the queue, the running flag, the watchdog's mutex and flag.      *)
(***************************************************************************)
EXTENDS Integers, Sequences

CONSTANTS
  Messages,     \* length of the workload
  AuditPoints,  \* how many probes are asked for
  MaxReports,   \* bound: reports an engine pushes for one message
  Capacity,     \* QUEUE_CAPACITY
  DrainBatch    \* DRAIN_BATCH

ASSUME RunAssumption ==
  /\ Messages \in Nat
  /\ AuditPoints \in Nat
  /\ MaxReports \in Nat
  /\ Capacity \in Nat \ {0}
  /\ DrainBatch \in Nat \ {0}

VARIABLES
  batched,    \* the engine exports engine_on_batch
  auditing,   \* Mode::AUDIT
  probes,     \* audit_idx: message numbers, ascending
  main,       \* where the main thread is
  start,      \* the next message to deliver
  stop,       \* the end of the run of messages being delivered
  k,          \* the next probe
  handled,    \* messages the engine has handled: the state of its book
  left,       \* reports to push for the message being handled
  snaps,      \* ut_snaps: the probe's index and the book it saw
  queue,      \* the transport
  running,    \* the drainer's flag
  drainer,    \* where the drainer is
  batch,      \* its buffer
  collected,  \* the reports it has kept
  watchdog,   \* where the watchdog thread is; "firing" holds its mutex
  cancelled,  \* its flag
  killed,     \* _exit(3)
  fed,        \* messages the audit has replayed into the baseline
  checked,    \* comparisons: book of the engine, book of the baseline
  sent        \* history: all reports pushed

deliveryVars == <<start, stop, k, handled, left, snaps>>
drainVars == <<drainer, batch, collected>>
watchVars == <<watchdog, cancelled, killed>>
auditVars == <<fed, checked>>
config == <<batched, auditing, probes>>
vars == <<config, main, deliveryVars, queue, sent, running, drainVars,
          watchVars, auditVars>>

Indices == 0 .. Messages - 1

\* audit_pick_indices: distinct indices in ascending order, as many as asked
\* for or as there are.
ProbeCount == IF AuditPoints < Messages THEN AuditPoints ELSE Messages
ProbeLists ==
  {s \in [1 .. ProbeCount -> Indices] :
     \A i, j \in 1 .. ProbeCount : i < j => s[i] < s[j]}

-----------------------------------------------------------------------------
(* The main thread, up to the end of the measured window.                  *)

Arm ==
  /\ main = "arm"
  /\ main' = "deliver"
  /\ watchdog' = "waiting"
  /\ cancelled' = FALSE
  /\ UNCHANGED <<config, deliveryVars, queue, sent, running, drainVars, killed,
                 auditVars>>

MutBatchEnd == probes[k]

\* A batch ends with the message of the next probe.
BatchEnd == probes[k] + 1

Probing == k <= Len(probes)

\* The next run of messages: to the next probe and then to the end of the
\* workload, or a single message.
Deliver ==
  /\ main = "deliver"
  /\ IF batched THEN Probing \/ start < Messages ELSE start < Messages
  /\ stop' = IF ~batched THEN start + 1
             ELSE IF Probing THEN BatchEnd ELSE Messages
  /\ main' = "engine"
  /\ UNCHANGED <<config, start, k, handled, left, snaps, queue, sent, running,
                 drainVars, watchVars, auditVars>>

DeliverEnd ==
  /\ main = "deliver"
  /\ start >= Messages
  /\ batched => ~Probing
  /\ main' = "cancel"
  /\ UNCHANGED <<config, deliveryVars, queue, sent, running, drainVars,
                 watchVars, auditVars>>

\* engine_on_batch / engine_on_*: take up the next message of the run.
Handle ==
  /\ main = "engine"
  /\ handled < stop
  /\ left' \in 0 .. MaxReports
  /\ main' = "push"
  /\ UNCHANGED <<config, start, stop, k, handled, snaps, queue, sent, running,
                 drainVars, watchVars, auditVars>>

MutFull == Len(queue) > Capacity
Full == Len(queue) >= Capacity

\* push_report spins until the queue takes the report.
Push ==
  /\ main = "push"
  /\ left > 0
  /\ ~Full
  /\ queue' = Append(queue, <<handled, left>>)
  /\ sent' = Append(sent, <<handled, left>>)
  /\ left' = left - 1
  /\ UNCHANGED <<config, main, start, stop, k, handled, snaps, running,
                 drainVars, watchVars, auditVars>>

Handled ==
  /\ main = "push"
  /\ left = 0
  /\ handled' = handled + 1
  /\ main' = "engine"
  /\ UNCHANGED <<config, start, stop, k, left, snaps, queue, sent, running,
                 drainVars, watchVars, auditVars>>

\* After a batch, or after a message that has one, the probe.
AtProbe == Probing /\ (batched \/ start = probes[k])

\* Every run asks; only an audit run keeps the answer.
Probe ==
  /\ main = "engine"
  /\ handled >= stop
  /\ AtProbe
  /\ snaps' = IF auditing
              THEN Append(snaps, [index |-> probes[k], seen |-> handled])
              ELSE snaps
  /\ k' = k + 1
  /\ start' = probes[k] + 1
  /\ main' = "deliver"
  /\ UNCHANGED <<config, stop, handled, left, queue, sent, running, drainVars,
                 watchVars, auditVars>>

NoProbe ==
  /\ main = "engine"
  /\ handled >= stop
  /\ ~AtProbe
  /\ start' = stop
  /\ main' = "deliver"
  /\ UNCHANGED <<config, stop, k, handled, left, snaps, queue, sent, running,
                 drainVars, watchVars, auditVars>>

-----------------------------------------------------------------------------
(* The main thread, shutting down: watchdog, drainer, audit.               *)

\* Watchdog::cancel sets the flag under the mutex.
Cancel ==
  /\ main \in {"cancel", "auditCancel"}
  /\ watchdog # "firing"
  /\ cancelled' = TRUE
  /\ main' = IF main = "cancel" THEN "join" ELSE "auditJoin"
  /\ UNCHANGED <<config, deliveryVars, queue, sent, running, drainVars,
                 watchdog, killed, auditVars>>

JoinWatchdog ==
  /\ main \in {"join", "auditJoin"}
  /\ watchdog = "ended"
  /\ main' = IF main = "join" THEN "stop" ELSE "done"
  /\ UNCHANGED <<config, deliveryVars, queue, sent, running, drainVars,
                 watchVars, auditVars>>

StopDrainer ==
  /\ main = "stop"
  /\ running' = FALSE
  /\ main' = "joinDrainer"
  /\ UNCHANGED <<config, deliveryVars, queue, sent, drainVars, watchVars,
                 auditVars>>

\* The audit is armed with a watchdog of its own. A measured run has none, nor
\* has a run whose baseline engine is not there.
JoinDrainer ==
  /\ main = "joinDrainer"
  /\ drainer = "done"
  /\ \/ /\ auditing
        /\ main' = "audit"
        /\ watchdog' = "waiting"
        /\ cancelled' = FALSE
     \/ main' = "done" /\ UNCHANGED <<watchdog, cancelled>>
  /\ UNCHANGED <<config, deliveryVars, queue, sent, running, drainVars, killed,
                 auditVars>>

Comparing == Len(checked) < Len(snaps)

MutCheckNow(n) == snaps[Len(checked) + 1].index = n + 1
\* The snapshot taken after message number n.
CheckNow(n) == snaps[Len(checked) + 1].index = n

\* run_state_audit: replay a message and compare at the next snapshot.
Replay ==
  /\ main = "audit"
  /\ fed < Messages /\ Comparing
  /\ fed' = fed + 1
  /\ checked' = IF CheckNow(fed)
                THEN Append(checked, [engine |-> snaps[Len(checked) + 1].seen,
                                      baseline |-> fed + 1])
                ELSE checked
  /\ UNCHANGED <<config, main, deliveryVars, queue, sent, running, drainVars,
                 watchVars>>

ReplayEnd ==
  /\ main = "audit"
  /\ fed >= Messages \/ ~Comparing
  /\ main' = "auditCancel"
  /\ UNCHANGED <<config, deliveryVars, queue, sent, running, drainVars,
                 watchVars, auditVars>>

-----------------------------------------------------------------------------
(* The drainer thread.                                                     *)

MutCheckRunning ==
  /\ drainer = "check"
  /\ drainer' = IF running THEN "drain" ELSE "done"
  /\ UNCHANGED <<config, main, deliveryVars, queue, sent, running, batch,
                 collected, watchVars, auditVars>>

CheckRunning ==
  /\ drainer = "check"
  /\ drainer' = IF running THEN "drain" ELSE "last"
  /\ UNCHANGED <<config, main, deliveryVars, queue, sent, running, batch,
                 collected, watchVars, auditVars>>

Popping == Len(batch) < DrainBatch /\ queue # <<>>

\* drain pops one report at a time, while the engine may be pushing.
Pop ==
  /\ drainer \in {"drain", "last"}
  /\ Popping
  /\ batch' = Append(batch, Head(queue))
  /\ queue' = Tail(queue)
  /\ UNCHANGED <<config, main, deliveryVars, sent, running, drainer, collected,
                 watchVars, auditVars>>

MutConsume ==
  /\ drainer \in {"drain", "last"}
  /\ ~Popping
  /\ collected' = collected \o batch
  /\ batch' = <<>>
  /\ drainer' = IF batch = <<>> THEN "done"
                ELSE IF drainer = "drain" THEN "check" ELSE "last"
  /\ UNCHANGED <<config, main, deliveryVars, queue, sent, running, watchVars,
                 auditVars>>

MutConsumeStale ==
  /\ drainer \in {"drain", "last"}
  /\ ~Popping
  /\ collected' = collected \o batch
  /\ batch' = IF Len(batch) = DrainBatch THEN batch ELSE <<>>
  /\ drainer' = IF drainer = "drain" THEN "check"
                ELSE IF batch = <<>> THEN "done" ELSE "last"
  /\ UNCHANGED <<config, main, deliveryVars, queue, sent, running, watchVars,
                 auditVars>>

MutConsumeOn ==
  /\ drainer \in {"drain", "last"}
  /\ ~Popping
  /\ collected' = collected \o batch
  /\ batch' = <<>>
  /\ drainer' = IF drainer = "drain" THEN "check" ELSE "last"
  /\ UNCHANGED <<config, main, deliveryVars, queue, sent, running, watchVars,
                 auditVars>>

\* What was drained is kept; the last loop ends when nothing was.
Consume ==
  /\ drainer \in {"drain", "last"}
  /\ ~Popping
  /\ collected' = collected \o batch
  /\ batch' = <<>>
  /\ drainer' = IF drainer = "drain" THEN "check"
                ELSE IF batch = <<>> THEN "done" ELSE "last"
  /\ UNCHANGED <<config, main, deliveryVars, queue, sent, running, watchVars,
                 auditVars>>

-----------------------------------------------------------------------------
(* The watchdog thread.                                                    *)

MutTimeOut ==
  /\ watchdog = "waiting"
  /\ watchdog' = "firing"
  /\ UNCHANGED <<config, main, deliveryVars, queue, sent, running, drainVars,
                 cancelled, killed, auditVars>>

\* wait_for times out: with the mutex held again, the flag decides.
TimeOut ==
  /\ watchdog = "waiting"
  /\ ~cancelled
  /\ watchdog' = "firing"
  /\ UNCHANGED <<config, main, deliveryVars, queue, sent, running, drainVars,
                 cancelled, killed, auditVars>>

\* notify_all, or a time-out that finds the flag set.
Wake ==
  /\ watchdog = "waiting"
  /\ cancelled
  /\ watchdog' = "ended"
  /\ UNCHANGED <<config, main, deliveryVars, queue, sent, running, drainVars,
                 cancelled, killed, auditVars>>

Kill ==
  /\ watchdog = "firing"
  /\ killed' = TRUE
  /\ watchdog' = "ended"
  /\ UNCHANGED <<config, main, deliveryVars, queue, sent, running, drainVars,
                 cancelled, auditVars>>

-----------------------------------------------------------------------------
Init ==
  /\ batched \in BOOLEAN
  /\ auditing \in BOOLEAN
  /\ probes \in ProbeLists
  /\ main = "arm"
  /\ start = 0 /\ stop = 0 /\ k = 1
  /\ handled = 0 /\ left = 0
  /\ snaps = <<>>
  /\ queue = <<>> /\ sent = <<>>
  /\ running = TRUE
  /\ drainer = "check"
  /\ batch = <<>> /\ collected = <<>>
  /\ watchdog = "off" /\ cancelled = FALSE /\ killed = FALSE
  /\ fed = 0 /\ checked = <<>>

Engine == Handle \/ Push \/ Handled
Harness ==
  \/ Arm \/ Deliver \/ DeliverEnd \/ Probe \/ NoProbe
  \/ Cancel \/ JoinWatchdog \/ StopDrainer \/ JoinDrainer
  \/ Replay \/ ReplayEnd
Drain == CheckRunning \/ Pop \/ Consume
Watch == TimeOut \/ Wake \/ Kill

Ended == killed \/ (main = "done" /\ drainer = "done")

\* A killed process takes no step; one that is done has exited.
Next == ~killed /\ (Engine \/ Harness \/ Drain \/ Watch)

Spec == Init /\ [][Next]_vars

\* The drainer thread is scheduled.
DrainSpec == Spec /\ WF_vars(~killed /\ Drain)

\* The other threads are too, and the clock goes on; of the engine nothing is
\* asked, it may hang.
OthersFair == WF_vars(~killed /\ Harness) /\ WF_vars(~killed /\ Watch)

-----------------------------------------------------------------------------
(* Properties.                                                             *)

Mains == {"arm", "deliver", "engine", "push", "cancel", "join", "stop",
          "joinDrainer", "audit", "auditCancel", "auditJoin", "done"}
Reports == Indices \X (1 .. MaxReports)
Snapshots == [index : Indices, seen : 0 .. Messages]
Comparisons == [engine : 0 .. Messages, baseline : 0 .. Messages]

\* Every variable has its type; the queue never holds more than it can.
TypeOK ==
  /\ batched \in BOOLEAN /\ auditing \in BOOLEAN /\ probes \in ProbeLists
  /\ main \in Mains
  /\ start \in 0 .. Messages /\ stop \in 0 .. Messages
  /\ k \in 1 .. ProbeCount + 1
  /\ handled \in 0 .. Messages /\ left \in 0 .. MaxReports
  /\ snaps \in Seq(Snapshots)
  /\ queue \in Seq(Reports) /\ Len(queue) <= Capacity
  /\ sent \in Seq(Reports)
  /\ running \in BOOLEAN
  /\ drainer \in {"check", "drain", "last", "done"}
  /\ batch \in Seq(Reports) /\ Len(batch) <= DrainBatch
  /\ collected \in Seq(Reports)
  /\ watchdog \in {"off", "waiting", "firing", "ended"}
  /\ cancelled \in BOOLEAN /\ killed \in BOOLEAN
  /\ fed \in 0 .. Messages
  /\ checked \in Seq(Comparisons)

\* What the main thread reads once it has joined the drainer.
DrainerJoined == main \in {"audit", "auditCancel", "auditJoin"}
                 \/ main = "done"

\* The canonical hash is computed over every report of every message: none is
\* left in the queue or in the drainer's buffer when the flag is lowered and
\* the drainer joined, however the last pushes interleave with its loops.
AllCollected ==
  DrainerJoined => collected = sent /\ handled = Messages

\* Whether the workload is delivered in batches or message by message, the
\* k-th probe sees the book right after its message, and no probe is left
\* out: otherwise an engine could tell the two apart, and the audit would
\* compare different books.
ProbesAligned ==
  /\ \A j \in DOMAIN snaps : /\ snaps[j].index = probes[j]
                             /\ snaps[j].seen = probes[j] + 1
  /\ DrainerJoined /\ auditing => Len(snaps) = Len(probes)

\* The audit compares each snapshot with the baseline's book after the same
\* messages, and it reaches the last snapshot.
AuditAligned ==
  /\ \A j \in DOMAIN checked : checked[j].engine = checked[j].baseline
  /\ main \in {"auditCancel", "auditJoin"} => Len(checked) = Len(snaps)

\* The state audit is sound: both its halves hold.
AuditSound == ProbesAligned /\ AuditAligned

\* A run that has got as far as cancelling its watchdog is not killed any
\* more: the watchdog decides under the mutex, by the flag.
NoLateKill ==
  watchdog = "firing" \/ killed =>
    main \in {"deliver", "engine", "push", "cancel", "audit", "auditCancel"}

\* The queue carries the reports as the channel promises: in order, once.
Channel == INSTANCE ReportChannel WITH received <- collected
CarriesReports == Channel!Spec

\* An engine that finds the queue full does not spin forever, and needs no
\* time-out for it: with nothing fair but the drainer it gets room.
SpinEnds == (main = "push" /\ left > 0 /\ Full) ~> (~Full \/ killed)

\* Once all three threads are scheduled every run ends, by itself or killed,
\* even if the engine hangs; the joins of the shutdown never wait forever.
RunEnds == OthersFair => <>Ended
=============================================================================
