----------------------------- MODULE SynDiscovery -----------------------------
(***************************************************************************)
(* discovery/linux.rs and cookie.rs: the SYN sender with its batches and   *)
(* its pacing, the receiver thread, and what a sequence number carries     *)
(* from one to the other.                                                  *)
(*                                                                         *)
(* Time is counted in ticks of the timestamp (4 ms), a packet takes Gap    *)
(* ticks of the rate, and the timestamp wraps at Span ticks (2^8 in the    *)
(* program).  Jobs are taken in order and numbered.  The secret cookie is  *)
(* not guessed by others.                                                  *)
(*                                                                         *)
(* Faulty variants used by no other definition: IdleCredit, SkipRest,      *)
(* NoWrap.                                                                 *)
(***************************************************************************)
EXTENDS Integers, Sequences

CONSTANTS
  Jobs,       (* number of jobs                                             *)
  Open,       (* jobs whose port is open                                    *)
  Unroutable, (* jobs that are IPv6 or have no route                        *)
  BatchSize,  (* --syn-batch-size                                           *)
  Gap,        (* ticks per packet, 1 / --syn-rate                           *)
  Wait,       (* --syn-timeout, in ticks                                    *)
  Span,       (* ticks until the timestamp wraps                            *)
  Answers,    (* bound: packets the receiver gets                           *)
  MaxTime     (* bound: the clock                                           *)

ASSUME DiscoveryAssumption ==
  /\ Jobs \in Nat /\ Open \subseteq 1..Jobs /\ Unroutable \subseteq 1..Jobs
  /\ BatchSize \in Nat \ {0} /\ Gap \in Nat
  /\ Wait \in Nat /\ Span \in Nat \ {0} /\ Answers \in Nat /\ MaxTime \in Nat

Job    == 1..Jobs
NoJob  == 0
NoRtt  == -1

VARIABLES
  now,           (* the clock                                               *)
  queued, closed,(* jobs in or past the channel, its sender is gone         *)
  taken,         (* jobs the sender received                                *)
  sender,        (* recv, fill, send, sleep, linger, join, ended            *)
  batch,         (* packets of the batch not yet sent [job, stamp, at]      *)
  count,         (* packets of this batch sent or skipped                   *)
  next, until,   (* the pacing clock, the end of the final wait             *)
  disconnected,  (* local flag of run()                                     *)
  sent, skipped, (* packets sent, jobs skipped; at: the time of the stamp   *)
  passed,        (* history: packets of the batches that ended              *)
  bursts,        (* history: <<start, packets passed>> of every batch       *)
  inbox,         (* packets in the raw socket                               *)
  answered,      (* packets that ever got there                             *)
  receiver,      (* on, send, ended, failed                                 *)
  found,         (* the open port last found: {} or {[job, rtt, real]}      *)
  done           (* the flag of the sender                                  *)

queueVars    == <<queued, closed>>
senderVars   == <<taken, sender, batch, count, next, until, disconnected, sent, skipped,
                  passed, bursts, done>>
receiverVars == <<receiver, found>>
vars == <<now, queueVars, senderVars, inbox, answered, receiverVars>>

Tick(t) == t % Span
Max2(a, b) == IF a >= b THEN a ELSE b

Init ==
  /\ now = 0
  /\ queued = 0 /\ closed = FALSE
  /\ taken = 0 /\ sender = "recv" /\ batch = <<>> /\ count = 0
  /\ next = 0 /\ until = 0 /\ disconnected = FALSE
  /\ sent = {} /\ skipped = {} /\ passed = 0 /\ bursts = <<>> /\ done = FALSE
  /\ inbox = <<>> /\ answered = 0
  /\ receiver = "on" /\ found = {}

-----------------------------------------------------------------------------
(* The environment: clock, producer, network.                              *)

Clock ==
  /\ now < MaxTime /\ now' = now + 1
  /\ UNCHANGED <<queueVars, senderVars, inbox, answered, receiverVars>>

Queue ==
  /\ ~closed /\ queued < Jobs
  /\ queued' = queued + 1
  /\ UNCHANGED <<now, closed, senderVars, inbox, answered, receiverVars>>

CloseQueue ==
  /\ ~closed /\ closed' = TRUE
  /\ UNCHANGED <<now, queued, senderVars, inbox, answered, receiverVars>>

(* The target of a SYN answers, SYN/ACK or RST, at any later time and more *)
(* than once; or somebody else sends a packet with another number.         *)
Arrive ==
  /\ answered < Answers /\ receiver \in {"on", "send"}
  /\ \/ \E s \in sent :
          inbox' = Append(inbox, [job |-> s.job, stamp |-> s.stamp, at |-> s.at, ours |-> TRUE,
                                  flag |-> IF s.job \in Open THEN "syn_ack" ELSE "rst"])
     \/ inbox' = Append(inbox, [job |-> NoJob, stamp |-> 0, at |-> 0, ours |-> FALSE,
                                 flag |-> "syn_ack"])
  /\ answered' = answered + 1
  /\ UNCHANGED <<now, queueVars, senderVars, receiverVars>>

-----------------------------------------------------------------------------
(* The sender.                                                             *)

(* add_job: IPv6 or unroutable destinations are skipped, the others are    *)
(* stamped and pushed.                                                     *)
AddJob ==
  /\ taken < queued
  /\ taken' = taken + 1
  /\ IF taken + 1 \in Unroutable
       THEN batch' = batch /\ skipped' = skipped \cup {taken + 1}
       ELSE /\ batch' = Append(batch, [job |-> taken + 1, stamp |-> Tick(now), at |-> now])
            /\ skipped' = skipped

RecvJob ==
  /\ sender = "recv" /\ AddJob
  /\ sender' = "fill"
  /\ UNCHANGED <<now, queueVars, count, next, until, disconnected, sent, passed, bursts, done,
                 inbox, answered, receiverVars>>

FillBatch ==
  /\ sender = "fill" /\ Len(batch) < BatchSize /\ AddJob
  /\ sender' = "fill"
  /\ UNCHANGED <<now, queueVars, count, next, until, disconnected, sent, passed, bursts, done,
                 inbox, answered, receiverVars>>

(* The batch is full, or the channel empty, or empty and disconnected.     *)
(* Idle time gives no credit: the pacing clock is moved up to now.         *)
IdleCredit(t) == next
Paced(t) == Max2(next, t)
BatchReady ==
  /\ sender = "fill"
  /\ Len(batch) = BatchSize \/ taken = queued
  /\ disconnected' = (Len(batch) < BatchSize /\ closed)
  /\ IF batch = <<>>
       THEN /\ sender' = IF disconnected' THEN "linger" ELSE "recv"
            /\ until' = now + Wait
            /\ UNCHANGED <<next, bursts>>
       ELSE /\ sender' = "send"
            /\ next' = Paced(now) /\ bursts' = Append(bursts, <<now, passed>>)
            /\ until' = until
  /\ count' = 0
  /\ UNCHANGED <<now, queueVars, taken, batch, sent, skipped, passed, done, inbox,
                 answered, receiverVars>>

(* sendmmsg sends some of the rest, or fails for its first packet.         *)
SkipRest ==
  /\ sender = "send" /\ batch # <<>>
  /\ \/ \E k \in 1..Len(batch) :
          /\ sent' = sent \cup {batch[i] : i \in 1..k}
          /\ batch' = <<>> /\ count' = count + k
          /\ skipped' = skipped
     \/ /\ skipped' = skipped \cup {Head(batch).job}
        /\ batch' = Tail(batch) /\ count' = count + 1
        /\ sent' = sent
  /\ UNCHANGED <<now, queueVars, taken, sender, next, until, disconnected, passed, bursts,
                 done, inbox, answered, receiverVars>>
SendSome ==
  /\ sender = "send" /\ batch # <<>>
  /\ \/ \E k \in 1..Len(batch) :
          /\ sent' = sent \cup {batch[i] : i \in 1..k}
          /\ batch' = SubSeq(batch, k + 1, Len(batch)) /\ count' = count + k
          /\ skipped' = skipped
     \/ /\ skipped' = skipped \cup {Head(batch).job}
        /\ batch' = Tail(batch) /\ count' = count + 1
        /\ sent' = sent
  /\ UNCHANGED <<now, queueVars, taken, sender, next, until, disconnected, passed, bursts,
                 done, inbox, answered, receiverVars>>

BatchSent ==
  /\ sender = "send" /\ batch = <<>>
  /\ next' = next + Gap * count
  /\ passed' = passed + count
  /\ sender' = "sleep"
  /\ UNCHANGED <<now, queueVars, taken, batch, count, until, disconnected, sent, skipped,
                 bursts, done, inbox, answered, receiverVars>>

Wake ==
  /\ sender = "sleep" /\ now >= next
  /\ IF disconnected
       THEN sender' = "linger" /\ until' = now + Wait
       ELSE sender' = "recv" /\ until' = until
  /\ UNCHANGED <<now, queueVars, taken, batch, count, next, disconnected, sent, skipped,
                 passed, bursts, done, inbox, answered, receiverVars>>

(* blocking_recv returns None.                                             *)
QueueEnds ==
  /\ sender = "recv" /\ taken = queued /\ closed
  /\ sender' = "linger" /\ until' = now + Wait
  /\ UNCHANGED <<now, queueVars, taken, batch, count, next, disconnected, sent, skipped,
                 passed, bursts, done, inbox, answered, receiverVars>>

EndLinger ==
  /\ sender = "linger" /\ now >= until
  /\ sender' = "join" /\ done' = TRUE
  /\ UNCHANGED <<now, queueVars, taken, batch, count, next, until, disconnected, sent,
                 skipped, passed, bursts, inbox, answered, receiverVars>>

(* receiver.join(), whose error run() returns.                             *)
JoinReceiver ==
  /\ sender = "join" /\ receiver \in {"ended", "failed"}
  /\ sender' = "ended"
  /\ UNCHANGED <<now, queueVars, taken, batch, count, next, until, disconnected, sent,
                 skipped, passed, bursts, done, inbox, answered, receiverVars>>

Sender ==
  \/ RecvJob \/ FillBatch \/ BatchReady \/ SendSome \/ BatchSent \/ Wake
  \/ QueueEnds \/ EndLinger \/ JoinReceiver

-----------------------------------------------------------------------------
(* The receiver.                                                           *)

(* reports_rtt and elapsed_since_tick.                                     *)
ReportsRtt == Wait <= Span
NoWrap(stamp)  == Max2(Tick(now) - stamp, 0)
Elapsed(stamp) == (Tick(now) - stamp) % Span

(* The cookie of source address and port, then the flags.                  *)
IsOpenPort(p) == p.ours /\ p.flag = "syn_ack"

Receive ==
  /\ receiver = "on" /\ ~done /\ inbox # <<>>
  /\ inbox' = Tail(inbox)
  /\ LET p == Head(inbox)
     IN IF IsOpenPort(p)
          THEN /\ receiver' = "send"
               /\ found' =
                    {[job |-> p.job, real |-> now - p.at,
                      rtt |-> IF ReportsRtt THEN Elapsed(p.stamp) ELSE NoRtt]}
          ELSE UNCHANGED receiverVars
  /\ UNCHANGED <<now, queueVars, senderVars, answered>>

(* blocking_send returns, or the scheduler is gone.                        *)
OpenPortSent ==
  /\ receiver = "send" /\ receiver' \in {"on", "ended"}
  /\ UNCHANGED <<now, queueVars, senderVars, inbox, answered, found>>

SeeDone ==
  /\ receiver = "on" /\ done
  /\ receiver' = "ended"
  /\ UNCHANGED <<now, queueVars, senderVars, inbox, answered, found>>

(* The CPU cannot be pinned before the loop, or the socket fails in it:    *)
(* the thread ends, and what still arrives is not read.                    *)
ReceiverFails ==
  /\ receiver = "on"
  /\ receiver' = "failed"
  /\ UNCHANGED <<now, queueVars, senderVars, inbox, answered, found>>

Receiver == Receive \/ OpenPortSent \/ SeeDone \/ ReceiverFails

Next == Clock \/ Queue \/ CloseQueue \/ Arrive \/ Sender \/ Receiver
Spec == Init /\ [][Next]_vars

-----------------------------------------------------------------------------
(* Properties.                                                             *)

SentJobs  == {s.job : s \in sent}
BatchJobs == {batch[i].job : i \in DOMAIN batch}

Syn == [job : Job, stamp : 0..(Span - 1), at : Nat]
Burst == Nat \X Nat
Packet == [job : Job \cup {NoJob}, stamp : 0..(Span - 1), at : Nat, ours : BOOLEAN,
           flag : {"syn_ack", "rst"}]

QueueTypes ==
  /\ now \in Nat /\ queued \in 0..Jobs /\ taken \in 0..queued
  /\ closed \in BOOLEAN /\ disconnected \in BOOLEAN /\ done \in BOOLEAN
  /\ sender \in {"recv", "fill", "send", "sleep", "linger", "join", "ended"}

BatchTypes ==
  /\ batch \in Seq(Syn) /\ Len(batch) <= BatchSize
  /\ count \in Nat /\ (sender = "send" => count + Len(batch) <= BatchSize)
  /\ sent \subseteq Syn /\ skipped \subseteq Job

PaceTypes ==
  /\ next \in Nat /\ until \in Nat /\ passed \in Nat
  /\ bursts \in Seq(Burst)

ReceiverTypes ==
  /\ inbox \in Seq(Packet) /\ answered \in Nat
  /\ receiver \in {"on", "send", "ended", "failed"}
  /\ found \subseteq [job : Job \cup {NoJob}, real : Int, rtt : Int]

TypeOK == QueueTypes /\ BatchTypes /\ PaceTypes /\ ReceiverTypes

(* --syn-rate holds over every window between two batches, however long    *)
(* the sender idled before: what is sent from one up to the other takes    *)
(* at least the time that the rate gives it.                               *)
RateHeld ==
  \A j \in DOMAIN bursts : \A i \in 1..(j - 1) :
    Gap * (bursts[j][2] - bursts[i][2]) <= bursts[j][1] - bursts[i][1]

(* Every job that was taken waits in the batch, was sent, or is counted as *)
(* skipped, only one of these and only once, through partial sends and     *)
(* send errors; and a sender that ended has taken the whole queue.         *)
JobsAccounted ==
  /\ SentJobs \cup BatchJobs \cup skipped = 1..taken
  /\ SentJobs \cap BatchJobs = {}
  /\ (SentJobs \cup BatchJobs) \cap skipped = {}
  /\ \A s, t \in sent : s.job = t.job => s = t
  /\ \A i, j \in DOMAIN batch : batch[i].job = batch[j].job => i = j
  /\ sender \in {"linger", "join", "ended"} => (taken = queued /\ batch = <<>>)

(* Only ports that are open, and were sent a SYN by this run, are found,   *)
(* whatever comes late, twice or from somebody else; and an answer within  *)
(* one wrap of the timestamp has its time reported right.                  *)
FoundRight ==
  \A f \in found :
    /\ f.job \in Open \cap SentJobs
    /\ f.rtt # NoRtt /\ f.real < Span => f.rtt = f.real
=============================================================================
