------------------------- MODULE SynDiscoveryProofs -------------------------
(***************************************************************************)
(* Theorems about SynDiscovery, for every number of jobs, batch size, rate *)
(* and wrap of the timestamp.                                              *)
(***************************************************************************)
EXTENDS SynDiscovery, TLAPS

(* Arithmetic of the wrap.                                                 *)
LEMMA DivMod ==
  ASSUME NEW S \in Nat \ {0}, NEW a \in Int
  PROVE  a \div S \in Int /\ a % S = a - S * (a \div S)
<1>1. a % S = a - S * (a \div S)
  OBVIOUS
<1>2. a \div S \in Int
  OBVIOUS
<1>3. QED
  BY <1>1, <1>2

LEMMA ModMultiple ==
  ASSUME NEW S \in Nat \ {0}, NEW r \in 0..(S - 1), NEW q \in Int
  PROVE  (S * q + r) % S = r
OBVIOUS

(* The difference of two ticks within one wrap.                            *)
LEMMA TickDifference ==
  ASSUME NEW S \in Nat \ {0}, NEW a \in Nat, NEW b \in Nat, b <= a, a - b < S
  PROVE  ((a % S) - (b % S)) % S = a - b
<1> DEFINE q == (b \div S) - (a \div S)
<1>1. q \in Int /\ a - b \in 0..(S - 1)
  BY DivMod
<1>2. (a % S) - (b % S) = S * q + (a - b)
  BY DivMod
<1> HIDE DEF q
<1>3. QED
  BY <1>1, <1>2, ModMultiple

-----------------------------------------------------------------------------
(* Types.                                                                  *)

LEMMA TypeInit == Init => TypeOK
<1> SUFFICES ASSUME Init PROVE TypeOK
  OBVIOUS
<1> USE DiscoveryAssumption DEF Init
<1>1. closed \in BOOLEAN /\ disconnected \in BOOLEAN /\ done \in BOOLEAN
  BY Zenon
<1>2. QED
  BY <1>1 DEF TypeOK, QueueTypes, BatchTypes, PaceTypes, ReceiverTypes

LEMMA QueueTypesStep == TypeOK /\ [Next]_vars => QueueTypes'
<1> SUFFICES ASSUME TypeOK, [Next]_vars PROVE QueueTypes'
  OBVIOUS
<1>1. now' \in Nat
  <2>1. Clock \/ UNCHANGED now
    BY DEF Next, Sender, Receiver, Queue, CloseQueue, Arrive, RecvJob, FillBatch, BatchReady,
           SendSome, BatchSent, Wake, QueueEnds, EndLinger, JoinReceiver, Receive, OpenPortSent,
           SeeDone, ReceiverFails, vars
  <2>2. QED
    BY <2>1 DEF Clock, TypeOK, QueueTypes
<1>2. queued' \in 0..Jobs /\ taken' \in 0..queued'
  <2>1. Queue \/ (AddJob /\ UNCHANGED queued) \/ UNCHANGED <<queued, taken>>
    BY DEF Next, Sender, Receiver, Clock, CloseQueue, Arrive, RecvJob, FillBatch, BatchReady,
           SendSome, BatchSent, Wake, QueueEnds, EndLinger, JoinReceiver, Receive, OpenPortSent,
           SeeDone, ReceiverFails, vars, queueVars, senderVars
  <2>2. QED
    BY <2>1, DiscoveryAssumption DEF Queue, AddJob, TypeOK, QueueTypes, senderVars
<1>3. closed' \in BOOLEAN
  <2>1. closed' = TRUE \/ closed' = closed
    BY DEF Next, Sender, Receiver, Clock, Queue, CloseQueue, Arrive, RecvJob, FillBatch,
           BatchReady, SendSome, BatchSent, Wake, QueueEnds, EndLinger, JoinReceiver, Receive,
           OpenPortSent, SeeDone, ReceiverFails, vars, queueVars
  <2>2. QED
    BY <2>1, Zenon DEF TypeOK, QueueTypes
<1>4. done' \in BOOLEAN
  <2>1. done' = TRUE \/ done' = done
    BY DEF Next, Sender, Receiver, Clock, Queue, CloseQueue, Arrive, RecvJob, FillBatch,
           BatchReady, SendSome, BatchSent, Wake, QueueEnds, EndLinger, JoinReceiver, Receive,
           OpenPortSent, SeeDone, ReceiverFails, vars, senderVars
  <2>2. QED
    BY <2>1, Zenon DEF TypeOK, QueueTypes
<1>5. disconnected' \in BOOLEAN
  <2>1. BatchReady \/ disconnected' = disconnected
    BY DEF Next, Sender, Receiver, Clock, Queue, CloseQueue, Arrive, RecvJob, FillBatch,
           SendSome, BatchSent, Wake, QueueEnds, EndLinger, JoinReceiver, Receive,
           OpenPortSent, SeeDone, ReceiverFails, vars, senderVars
  <2>2. QED
    BY <2>1, Zenon DEF BatchReady, TypeOK, QueueTypes
<1>6. sender' \in {"recv", "fill", "send", "sleep", "linger", "join", "ended"}
  BY DEF Next, Sender, Receiver, Clock, Queue, CloseQueue, Arrive, RecvJob, FillBatch,
         BatchReady, SendSome, BatchSent, Wake, QueueEnds, EndLinger, JoinReceiver, Receive,
         OpenPortSent, SeeDone, ReceiverFails, vars, senderVars, TypeOK, QueueTypes
<1>7. QED
  BY <1>1, <1>2, <1>3, <1>4, <1>5, <1>6 DEF QueueTypes

(* A tick fits the field of the sequence number.                           *)
LEMMA TickType == now \in Nat => Tick(now) \in 0..(Span - 1)
BY DiscoveryAssumption DEF Tick

(* Between two batches nothing waits to be sent.                           *)
Emptied == sender \in {"recv", "sleep", "linger", "join", "ended"} => batch = <<>>

LEMMA EmptiedStep == TypeOK /\ Emptied /\ [Next]_vars => Emptied'
BY DEF Emptied, TypeOK, QueueTypes, Next, Sender, Receiver, Clock, Queue, CloseQueue, Arrive,
       RecvJob, FillBatch, BatchReady, SendSome, BatchSent, Wake, QueueEnds, EndLinger,
       JoinReceiver, Receive, OpenPortSent, SeeDone, ReceiverFails, vars, senderVars

LEMMA BatchTypesStep == TypeOK /\ Emptied /\ [Next]_vars => BatchTypes'
<1> SUFFICES ASSUME TypeOK, Emptied, [Next]_vars PROVE BatchTypes'
  OBVIOUS
<1> USE DEF TypeOK, QueueTypes, BatchTypes
<1>1. CASE AddJob /\ sender' = "fill" /\ Len(batch) < BatchSize /\ UNCHANGED <<count, sent>>
  <2> DEFINE s == [job |-> taken + 1, stamp |-> Tick(now), at |-> now]
  <2>1. s \in Syn /\ taken + 1 \in Job
    BY <1>1, TickType, DiscoveryAssumption DEF Syn, Job, AddJob
  <2>2. batch' \in Seq(Syn) /\ Len(batch') <= BatchSize
    <3>1. batch' = batch \/ batch' = Append(batch, s)
      BY <1>1 DEF AddJob
    <3> HIDE DEF s
    <3>2. QED
      BY <1>1, <2>1, <3>1, DiscoveryAssumption
  <2>3. skipped' \subseteq Job
    BY <1>1, <2>1 DEF AddJob
  <2>4. QED
    BY <1>1, <2>2, <2>3
<1>2. CASE SendSome
  <2>1. ASSUME NEW k \in 1..Len(batch),
               sent' = sent \cup {batch[i] : i \in 1..k}, skipped' = skipped,
               batch' = SubSeq(batch, k + 1, Len(batch)), count' = count + k
        PROVE  BatchTypes'
    <3>1. sent' \subseteq Syn
      BY <2>1
    <3>2. batch' \in Seq(Syn) /\ Len(batch') = Len(batch) - k
      BY <2>1
    <3>3. sender = "send" /\ sender' = sender
      BY <1>2 DEF SendSome
    <3>4. k \in Nat /\ k <= Len(batch) /\ Len(batch) \in Nat
      BY <2>1
    <3>5. count' \in Nat /\ Len(batch') <= BatchSize /\ count' + Len(batch') <= BatchSize
      <4>1. /\ count' = count + k /\ count \in Nat /\ BatchSize \in Nat
            /\ count + Len(batch) <= BatchSize
        BY <2>1, <3>3, DiscoveryAssumption
      <4> HIDE DEF TypeOK, QueueTypes, BatchTypes
      <4>2. QED
        BY <3>2, <3>4, <4>1
    <3>6. QED
      BY <2>1, <3>1, <3>2, <3>5
  <2>2. CASE /\ skipped' = skipped \cup {Head(batch).job} /\ batch' = Tail(batch)
             /\ count' = count + 1 /\ sent' = sent
    <3>1. Head(batch) \in Syn /\ batch' \in Seq(Syn) /\ Len(batch') = Len(batch) - 1
      BY <1>2, <2>2 DEF SendSome
    <3>2. skipped' \subseteq Job
      <4>1. Head(batch).job \in Job
        BY <3>1 DEF Syn
      <4>2. QED
        BY <2>2, <4>1
    <3>3. sender = "send" /\ sender' = sender /\ Len(batch) \in Nat
      BY <1>2 DEF SendSome
    <3>4. count' \in Nat /\ Len(batch') <= BatchSize /\ count' + Len(batch') <= BatchSize
      BY <2>2, <3>1, <3>3, DiscoveryAssumption
    <3>5. QED
      BY <2>2, <3>1, <3>2, <3>4
  <2>3. QED
    BY <1>2, <2>1, <2>2 DEF SendSome
<1>3. CASE BatchReady
  BY <1>3, DiscoveryAssumption DEF BatchReady
<1>4. CASE UNCHANGED <<batch, count, sent, skipped>> /\ (sender' # "send" \/ UNCHANGED sender)
  BY <1>4
<1>5. CASE RecvJob \/ FillBatch
  <2>1. Len(batch) < BatchSize
    <3>1. Len(<<>>) < BatchSize
      BY DiscoveryAssumption
    <3>2. QED
      BY <1>5, <3>1 DEF RecvJob, FillBatch, Emptied
  <2>2. QED
    BY <1>5, <1>1, <2>1 DEF RecvJob, FillBatch
<1>6. QED
  BY <1>2, <1>3, <1>4, <1>5
     DEF Next, Sender, Receiver, Clock, Queue, CloseQueue, Arrive, BatchSent, Wake, QueueEnds,
         EndLinger, JoinReceiver, Receive, OpenPortSent, SeeDone, ReceiverFails, vars, senderVars

LEMMA PaceTypesStep == TypeOK /\ [Next]_vars => PaceTypes'
<1> SUFFICES ASSUME TypeOK, [Next]_vars PROVE PaceTypes'
  OBVIOUS
<1>1. /\ now \in Nat /\ next \in Nat /\ until \in Nat /\ passed \in Nat /\ count \in Nat
      /\ bursts \in Seq(Burst) /\ Wait \in Nat /\ Gap \in Nat
  BY DiscoveryAssumption DEF TypeOK, QueueTypes, BatchTypes, PaceTypes
<1>2. CASE BatchReady
  <2> DEFINE b == <<now, passed>>
  <2>1. Paced(now) \in Nat /\ b \in Burst /\ now + Wait \in Nat
    BY <1>1 DEF Paced, Max2, Burst
  <2> HIDE DEF b
  <2>2. bursts' = bursts \/ bursts' = Append(bursts, b)
    BY <1>2 DEF BatchReady, b
  <2>3. bursts' \in Seq(Burst)
    BY <1>1, <2>1, <2>2
  <2>4. QED
    BY <1>1, <1>2, <2>1, <2>3 DEF BatchReady, PaceTypes
<1>3. CASE BatchSent
  <2>1. Gap * count \in Nat
    BY <1>1
  <2>2. next + Gap * count \in Nat /\ passed + count \in Nat
    BY <1>1, <2>1
  <2>3. QED
    BY <1>1, <1>3, <2>2 DEF BatchSent, PaceTypes
<1>4. CASE UNCHANGED <<next, passed, bursts>> /\ (until' = until \/ until' = now + Wait)
  BY <1>1, <1>4 DEF PaceTypes
<1>5. QED
  BY <1>2, <1>3, <1>4
     DEF Next, Sender, Receiver, Clock, Queue, CloseQueue, Arrive, RecvJob, FillBatch, SendSome,
         Wake, QueueEnds, EndLinger, JoinReceiver, Receive, OpenPortSent, SeeDone, ReceiverFails, vars,
         senderVars

LEMMA ReceiverTypesStep == TypeOK /\ [Next]_vars => ReceiverTypes'
<1> SUFFICES ASSUME TypeOK, [Next]_vars PROVE ReceiverTypes'
  OBVIOUS
<1> USE DEF TypeOK, QueueTypes, BatchTypes, ReceiverTypes
<1>1. CASE Arrive
  <2>1. ASSUME NEW p, p \in Packet, inbox' = Append(inbox, p)
        PROVE  ReceiverTypes'
    BY <1>1, <2>1 DEF Arrive, receiverVars
  <2>2. ASSUME NEW s \in sent
        PROVE  [job |-> s.job, stamp |-> s.stamp, at |-> s.at, ours |-> TRUE,
                flag |-> IF s.job \in Open THEN "syn_ack" ELSE "rst"] \in Packet
    <3>1. s \in Syn
      OBVIOUS
    <3>2. TRUE \in BOOLEAN
      OBVIOUS
    <3>3. QED
      BY <3>1, <3>2 DEF Syn, Packet
  <2>3. [job |-> NoJob, stamp |-> 0, at |-> 0, ours |-> FALSE, flag |-> "syn_ack"] \in Packet
    BY DiscoveryAssumption DEF Packet
  <2>4. QED
    BY <1>1, <2>1, <2>2, <2>3 DEF Arrive
<1>2. CASE Receive
  <2> DEFINE p == Head(inbox)
  <2>1. p \in Packet /\ inbox' \in Seq(Packet)
    BY <1>2 DEF Receive
  <2>2. p.job \in Job \cup {NoJob} /\ now - p.at \in Int
        /\ (IF ReportsRtt THEN Elapsed(p.stamp) ELSE NoRtt) \in Int
    BY SMTT(30), <2>1, TickType, DiscoveryAssumption DEF Packet, Elapsed, NoRtt
  <2>3. QED
    BY <1>2, <2>1, <2>2 DEF Receive, receiverVars
<1>3. CASE UNCHANGED <<inbox, answered, found>> /\ receiver' \in {"on", "send", "ended", "failed"}
  BY <1>3
<1>4. QED
  BY <1>1, <1>2, <1>3
     DEF Next, Sender, Receiver, Clock, Queue, CloseQueue, RecvJob, FillBatch, BatchReady,
         SendSome, BatchSent, Wake, QueueEnds, EndLinger, JoinReceiver, OpenPortSent, SeeDone, ReceiverFails,
         vars, senderVars, receiverVars

TypeInv == TypeOK /\ Emptied

LEMMA TypeInvInit == Init => TypeInv
BY TypeInit DEF TypeInv, Emptied, Init

LEMMA TypeStep == TypeInv /\ [Next]_vars => TypeInv'
BY QueueTypesStep, EmptiedStep, BatchTypesStep, PaceTypesStep, ReceiverTypesStep
   DEF TypeInv, TypeOK

(* Every variable keeps its type, and no batch exceeds --syn-batch-size.   *)
THEOREM TypeCorrect == Spec => []TypeOK
<1>1. TypeInv => TypeOK
  BY DEF TypeInv
<1>2. QED
  BY <1>1, TypeInvInit, TypeStep, PTL DEF Spec

-----------------------------------------------------------------------------
(* The pacing clock owes to every earlier batch the time of all that was   *)
(* sent since, and the sender starts a batch only when it has been paid.   *)

Owed(i) == bursts[i][1] + Gap * (passed - bursts[i][2])

Owing ==
  /\ \A i \in DOMAIN bursts : bursts[i][2] <= passed /\ Owed(i) <= next
  /\ sender \in {"recv", "fill"} => next <= now

RateInv == Owing /\ RateHeld

LEMMA BurstType ==
  ASSUME TypeOK, NEW i \in DOMAIN bursts
  PROVE  bursts[i][1] \in Nat /\ bursts[i][2] \in Nat
<1>1. bursts[i] \in Burst
  BY DEF TypeOK, PaceTypes
<1>2. QED
  BY <1>1 DEF Burst

LEMMA GapDistributes ==
  ASSUME NEW a \in Int, NEW b \in Int, NEW c \in Int
  PROVE  Gap * ((a + b) - c) = Gap * (a - c) + Gap * b
BY DiscoveryAssumption

LEMMA RateInit == Init => RateInv
BY DEF Init, RateInv, Owing, RateHeld

LEMMA RateStep == TypeInv /\ RateInv /\ [Next]_vars => RateInv'
<1> SUFFICES ASSUME TypeInv, RateInv, [Next]_vars PROVE RateInv'
  OBVIOUS
<1>1. /\ now \in Nat /\ next \in Nat /\ passed \in Nat /\ count \in Nat /\ Gap \in Nat
      /\ bursts \in Seq(Burst) /\ TypeOK
  BY DiscoveryAssumption DEF TypeInv, TypeOK, QueueTypes, BatchTypes, PaceTypes
<1>2. CASE BatchReady
  <2>1. next' \in Nat /\ next <= next' /\ next' <= now /\ passed' = passed /\ now' = now
    BY <1>1, <1>2 DEF BatchReady, Paced, Max2, RateInv, Owing
  <2>2. CASE bursts' = bursts
    <3>1. \A i \in DOMAIN bursts : Owed(i) \in Int /\ Owed(i)' = Owed(i)
      BY <1>1, <2>1, <2>2, BurstType DEF Owed
    <3>2. QED
      BY <1>1, <2>1, <2>2, <3>1 DEF RateInv, Owing, RateHeld
  <2>3. CASE bursts' = Append(bursts, <<now, passed>>) /\ next' = Max2(next, now)
    <3> DEFINE n == Len(bursts) + 1
    <3>1. n \in Nat /\ DOMAIN bursts = 1..(n - 1) /\ DOMAIN bursts' = 1..n
      BY <1>1, <2>3
    <3>2. \A i \in 1..(n - 1) : bursts'[i] = bursts[i]
      BY <1>1, <2>3
    <3>3. bursts'[n][1] = now /\ bursts'[n][2] = passed
      <4>1. bursts'[n] = <<now, passed>>
        BY <1>1, <2>3
      <4>2. QED
        BY <4>1
    <3> HIDE DEF n
    <3>4. \A i \in 1..(n - 1) :
            /\ bursts[i][1] \in Nat /\ bursts[i][2] \in Nat /\ bursts[i][2] <= passed
            /\ Gap * (passed - bursts[i][2]) \in Int
            /\ bursts[i][1] + Gap * (passed - bursts[i][2]) <= next
      <4>1. ASSUME NEW i \in 1..(n - 1)
            PROVE  /\ bursts[i][1] \in Nat /\ bursts[i][2] \in Nat /\ bursts[i][2] <= passed
                   /\ bursts[i][1] + Gap * (passed - bursts[i][2]) <= next
        BY <1>1, <3>1, BurstType DEF RateInv, Owing, Owed
      <4>2. ASSUME NEW a \in Nat, NEW b \in Nat PROVE Gap * (a - b) \in Int
        BY <1>1
      <4>3. QED
        BY <1>1, <4>1, <4>2
    <3>5. next <= now
      BY <1>2 DEF BatchReady, RateInv, Owing
    <3>6. Owing'
      <4>1. ASSUME NEW i \in 1..n PROVE (bursts'[i][2] <= passed' /\ Owed(i)' <= next')
        <5>1. CASE i = n
          <6>1. Owed(i)' = now + Gap * (passed - passed) /\ Gap * 0 = 0
            BY <1>1, <2>1, <3>3, <5>1 DEF Owed
          <6>2. passed - passed = 0 /\ now + 0 = now /\ now <= next' /\ passed <= passed
            BY <1>1, <2>3 DEF Max2
          <6>3. Owed(i)' = now
            BY <6>1, <6>2
          <6>4. QED
            BY <2>1, <3>3, <5>1, <6>2, <6>3
        <5>2. CASE i # n
          <6>1. i \in 1..(n - 1) /\ bursts'[i] = bursts[i]
            BY <3>1, <3>2, <5>2
          <6>2. QED
            BY SMTT(30), <1>1, <2>1, <3>4, <6>1 DEF Owed
        <5>3. QED
          BY <5>1, <5>2
      <4>2. QED
        BY <2>1, <3>1, <4>1 DEF Owing
    <3>7. RateHeld'
      <4>1. ASSUME NEW j \in 1..n, NEW i \in 1..(j - 1)
            PROVE  Gap * (bursts'[j][2] - bursts'[i][2]) <= bursts'[j][1] - bursts'[i][1]
        <5>1. i \in 1..(n - 1) /\ bursts'[i] = bursts[i]
          BY <3>1, <3>2
        <5>2. CASE j = n
          <6>1. Gap * (passed - bursts[i][2]) <= now - bursts[i][1]
            <7> DEFINE x == Gap * (passed - bursts[i][2])  y == bursts[i][1]
            <7>1. x \in Int /\ y \in Nat /\ y + x <= next
              BY <3>4, <5>1
            <7> HIDE DEF x, y
            <7>2. x <= now - y
              BY <1>1, <3>5, <7>1
            <7>3. QED
              BY <7>2 DEF x, y
          <6>2. QED
            BY <3>3, <5>1, <5>2, <6>1
        <5>3. CASE j # n
          <6>1. j \in DOMAIN bursts /\ bursts'[j] = bursts[j]
            BY <3>1, <3>2, <5>3
          <6>2. QED
            BY <5>1, <6>1 DEF RateInv, RateHeld
        <5>4. QED
          BY <5>2, <5>3
      <4>2. QED
        BY <3>1, <4>1 DEF RateHeld
    <3>8. QED
      BY <3>6, <3>7 DEF RateInv
  <2>4. QED
    BY <1>2, <2>2, <2>3 DEF BatchReady, Paced
<1>3. CASE BatchSent
  <2>1. /\ next' = next + Gap * count /\ passed' = passed + count /\ sender' = "sleep"
        /\ bursts' = bursts
    BY <1>3 DEF BatchSent
  <2>2. ASSUME NEW i \in DOMAIN bursts
        PROVE  bursts[i][2] <= passed' /\ Owed(i)' <= next'
    <3>1. /\ bursts[i][1] \in Nat /\ bursts[i][2] \in Nat
          /\ bursts[i][2] <= passed /\ Owed(i) <= next
      BY <1>1, BurstType DEF RateInv, Owing
    <3> DEFINE x == Gap * (passed - bursts[i][2])  y == Gap * count
    <3>2. x \in Int /\ y \in Int /\ Gap * ((passed + count) - bursts[i][2]) = x + y
      BY <1>1, <3>1, GapDistributes
    <3>3. Owed(i)' = bursts[i][1] + (x + y) /\ Owed(i) = bursts[i][1] + x /\ next' = next + y
      BY <2>1, <3>2 DEF Owed
    <3> HIDE DEF x, y
    <3>4. QED
      BY SMTT(30), <1>1, <2>1, <3>1, <3>2, <3>3
  <2>3. QED
    BY <2>1, <2>2 DEF RateInv, Owing, RateHeld
<1>4. CASE Wake
  <2>1. UNCHANGED <<bursts, passed, next, now>> /\ next <= now
    BY <1>1, <1>4 DEF Wake
  <2>2. QED
    BY <2>1 DEF RateInv, Owing, RateHeld, Owed
<1>5. CASE /\ UNCHANGED <<bursts, passed, next>> /\ now' \in Nat /\ now <= now'
           /\ (sender' \in {"recv", "fill"} => sender \in {"recv", "fill"})
  <2>1. \A i \in DOMAIN bursts : Owed(i)' = Owed(i)
    BY <1>5 DEF Owed
  <2>2. sender' \in {"recv", "fill"} => next' <= now'
    BY <1>1, <1>5 DEF RateInv, Owing
  <2>3. QED
    BY <1>5, <2>1, <2>2 DEF RateInv, Owing, RateHeld
<1>6. now' \in Nat /\ now <= now'
  <2>1. now' = now + 1 \/ now' = now
    BY DEF Next, Sender, Receiver, Clock, Queue, CloseQueue, Arrive, RecvJob, FillBatch,
           BatchReady, SendSome, BatchSent, Wake, QueueEnds, EndLinger, JoinReceiver, Receive,
           OpenPortSent, SeeDone, ReceiverFails, vars
  <2>2. QED
    BY <1>1, <2>1
<1>7. QED
  BY <1>2, <1>3, <1>4, <1>5, <1>6
     DEF Next, Sender, Receiver, Clock, Queue, CloseQueue, Arrive, RecvJob, FillBatch, SendSome,
         QueueEnds, EndLinger, JoinReceiver, Receive, OpenPortSent, SeeDone, ReceiverFails, vars, senderVars

(* --syn-rate holds over every window between two batches.                 *)
THEOREM RateCorrect == Spec => []RateHeld
<1>1. RateInv => RateHeld
  BY DEF RateInv
<1>2. QED
  BY <1>1, TypeInvInit, TypeStep, RateInit, RateStep, PTL DEF Spec

-----------------------------------------------------------------------------
(* The channel is closed and empty when the sender has decided to end.     *)

Ending == sender \in {"linger", "join", "ended"} \/ (disconnected /\ sender \in {"send", "sleep"})

TookAll == Ending => (taken = queued /\ closed)

LEMMA TookAllStep == TypeInv /\ TookAll /\ [Next]_vars => TookAll'
<1> SUFFICES ASSUME TypeInv, TookAll, [Next]_vars PROVE TookAll'
  OBVIOUS
<1> USE DEF TookAll, Ending
<1>1. CASE BatchReady
  <2>1. /\ taken' = taken /\ queued' = queued /\ closed' = closed
        /\ Len(batch) = BatchSize \/ taken = queued
        /\ disconnected' = (Len(batch) < BatchSize /\ closed)
        /\ sender' = "linger" => disconnected'
        /\ sender' \in {"linger", "recv", "send"}
    BY <1>1 DEF BatchReady, queueVars
  <2>2. Len(batch) < BatchSize => Len(batch) # BatchSize
    BY DiscoveryAssumption DEF TypeInv, TypeOK, BatchTypes
  <2>3. QED
    BY <2>1, <2>2
<1>2. CASE AddJob /\ UNCHANGED <<queued, closed>> /\ sender' = "fill"
  BY <1>2
<1>3. CASE Queue
  BY <1>3 DEF Queue, senderVars
<1>4. CASE CloseQueue
  BY <1>4 DEF CloseQueue, senderVars
<1>5. CASE Wake \/ QueueEnds \/ EndLinger \/ JoinReceiver \/ SendSome \/ BatchSent
  BY <1>5 DEF Wake, QueueEnds, EndLinger, JoinReceiver, SendSome, BatchSent, queueVars
<1>6. CASE UNCHANGED <<queueVars, senderVars>>
  BY <1>6 DEF queueVars, senderVars
<1>7. QED
  BY <1>1, <1>2, <1>3, <1>4, <1>5, <1>6
     DEF Next, Sender, Receiver, Clock, Arrive, RecvJob, FillBatch, Receive, OpenPortSent,
         SeeDone, ReceiverFails, vars, queueVars

-----------------------------------------------------------------------------
(* Where the jobs are.                                                     *)

Placed ==
  /\ SentJobs \cup BatchJobs \cup skipped = 1..taken
  /\ SentJobs \cap BatchJobs = {}
  /\ (SentJobs \cup BatchJobs) \cap skipped = {}
  /\ \A s, t \in sent : s.job = t.job => s = t
  /\ \A i, j \in DOMAIN batch : batch[i].job = batch[j].job => i = j

LEMMA PlacedInit == Init => Placed
BY DEF Init, Placed, SentJobs, BatchJobs

LEMMA AddJobPlaced == TypeInv /\ Placed /\ AddJob /\ UNCHANGED sent => Placed'
<1> SUFFICES ASSUME TypeInv, Placed, AddJob, UNCHANGED sent PROVE Placed'
  OBVIOUS
<1>1. taken \in Nat /\ taken' = taken + 1 /\ batch \in Seq(Syn) /\ sent' = sent
  BY DiscoveryAssumption DEF TypeInv, TypeOK, QueueTypes, BatchTypes, AddJob
<1>2. 1..taken' = (1..taken) \cup {taken + 1} /\ taken + 1 \notin 1..taken
  BY <1>1
<1>3. SentJobs' = SentJobs
  BY <1>1 DEF SentJobs
<1>4. taken + 1 \notin SentJobs /\ taken + 1 \notin BatchJobs /\ taken + 1 \notin skipped
  BY <1>2 DEF Placed
<1>5. CASE batch' = batch /\ skipped' = skipped \cup {taken + 1}
  <2>1. BatchJobs' = BatchJobs
    BY <1>5 DEF BatchJobs
  <2>2. QED
    BY <1>1, <1>2, <1>3, <1>4, <1>5, <2>1 DEF Placed
<1>6. CASE /\ batch' = Append(batch, [job |-> taken + 1, stamp |-> Tick(now), at |-> now])
           /\ skipped' = skipped
  <2> DEFINE n == Len(batch) + 1
  <2>1. n \in Nat \ {0} /\ DOMAIN batch = 1..(n - 1) /\ DOMAIN batch' = 1..n
        /\ \A i \in 1..(n - 1) : batch'[i] = batch[i]
    BY <1>1, <1>6
  <2>2. batch'[n].job = taken + 1
    BY <1>1, <1>6
  <2> HIDE DEF n
  <2>3. 1..n = (1..(n - 1)) \cup {n} /\ n \notin 1..(n - 1)
    BY <2>1
  <2>4. BatchJobs' = BatchJobs \cup {taken + 1}
    BY <2>1, <2>2, <2>3 DEF BatchJobs
  <2>5. \A i \in 1..(n - 1) : batch[i].job # taken + 1
    BY <1>4, <2>1 DEF BatchJobs
  <2>6. \A i, j \in DOMAIN batch' : batch'[i].job = batch'[j].job => i = j
    BY <2>1, <2>2, <2>3, <2>5 DEF Placed
  <2>7. QED
    BY <1>1, <1>2, <1>3, <1>4, <1>6, <2>4, <2>6 DEF Placed
<1>7. QED
  BY <1>5, <1>6 DEF AddJob

LEMMA SendSomePlaced == TypeInv /\ Placed /\ SendSome => Placed'
<1> SUFFICES ASSUME TypeInv, Placed, SendSome PROVE Placed'
  OBVIOUS
<1>1. batch \in Seq(Syn) /\ batch # <<>> /\ sent \subseteq Syn /\ taken' = taken
  BY DEF TypeInv, TypeOK, BatchTypes, SendSome
<1>2. ASSUME NEW k \in 1..Len(batch),
             sent' = sent \cup {batch[i] : i \in 1..k}, skipped' = skipped,
             batch' = SubSeq(batch, k + 1, Len(batch))
      PROVE  Placed'
  <2> DEFINE n == Len(batch)
  <2>1. n \in Nat /\ k \in Nat /\ k <= n /\ DOMAIN batch = 1..n
    BY <1>1
  <2>2. Len(batch') = n - k /\ DOMAIN batch' = 1..(n - k)
        /\ \A i \in 1..(n - k) : batch'[i] = batch[i + k]
    BY <1>1, <1>2
  <2> HIDE DEF n
  <2>3. /\ 1..n = (1..k) \cup {i + k : i \in 1..(n - k)}
        /\ \A i \in 1..(n - k) : i + k \in 1..n /\ i + k \notin 1..k
    <3>1. \A i \in 1..(n - k) : i + k \in 1..n /\ i + k \notin 1..k
      BY <2>1
    <3>2. \A i \in 1..n : i \notin 1..k => (i - k \in 1..(n - k) /\ i = (i - k) + k)
      BY <2>1
    <3>3. 1..k \subseteq 1..n
      BY <2>1
    <3>4. QED
      BY <3>1, <3>2, <3>3
  <2>4. SentJobs' = SentJobs \cup {batch[i].job : i \in 1..k}
    BY <1>2 DEF SentJobs
  <2>5. BatchJobs' = {batch[i + k].job : i \in 1..(n - k)}
    BY <2>2 DEF BatchJobs
  <2>6. BatchJobs = {batch[i].job : i \in 1..k} \cup {batch[i + k].job : i \in 1..(n - k)}
    BY <2>1, <2>3 DEF BatchJobs
  <2>7. {batch[i].job : i \in 1..k} \cap {batch[i + k].job : i \in 1..(n - k)} = {}
    <3>1. ASSUME NEW i \in 1..k, NEW j \in 1..(n - k), batch[i].job = batch[j + k].job
          PROVE  FALSE
      <4>1. i \in DOMAIN batch /\ j + k \in DOMAIN batch /\ i # j + k
        BY <2>1, <2>3
      <4>2. QED
        BY <3>1, <4>1 DEF Placed
    <3>2. QED
      BY <3>1
  <2>8. \A s, t \in sent' : s.job = t.job => s = t
    <3>1. ASSUME NEW s \in sent', NEW t \in sent', s.job = t.job PROVE s = t
      <4>1. CASE s \in sent /\ t \in sent
        BY <3>1, <4>1 DEF Placed
      <4>2. ASSUME NEW i \in 1..k, NEW j \in 1..k, s = batch[i], t = batch[j]
            PROVE  s = t
        <5>1. i \in DOMAIN batch /\ j \in DOMAIN batch
          BY <2>1, <2>3
        <5>2. QED
          BY <3>1, <4>2, <5>1 DEF Placed
      <4>3. ASSUME NEW i \in 1..k, s = batch[i], t \in sent PROVE FALSE
        <5>1. i \in DOMAIN batch
          BY <2>1, <2>3
        <5>2. s.job \in BatchJobs /\ t.job \in SentJobs
          BY <4>3, <5>1 DEF BatchJobs, SentJobs
        <5>3. QED
          BY <3>1, <5>2 DEF Placed
      <4>4. ASSUME NEW i \in 1..k, t = batch[i], s \in sent PROVE FALSE
        <5>1. i \in DOMAIN batch
          BY <2>1, <2>3
        <5>2. t.job \in BatchJobs /\ s.job \in SentJobs
          BY <4>4, <5>1 DEF BatchJobs, SentJobs
        <5>3. QED
          BY <3>1, <5>2 DEF Placed
      <4>5. QED
        BY <1>2, <4>1, <4>2, <4>3, <4>4
    <3>2. QED
      BY <3>1
  <2>9. \A i, j \in DOMAIN batch' : batch'[i].job = batch'[j].job => i = j
    <3>1. ASSUME NEW i \in 1..(n - k), NEW j \in 1..(n - k), batch'[i].job = batch'[j].job
          PROVE  i = j
      <4>1. i + k \in DOMAIN batch /\ j + k \in DOMAIN batch
        BY <2>1, <2>3
      <4>2. i + k = j + k
        BY SMTT(30), <2>2, <3>1, <4>1 DEF Placed
      <4>3. QED
        BY <2>1, <4>2
    <3>2. QED
      BY <2>2, <3>1
  <2>10. QED
    <3> DEFINE A == {batch[i].job : i \in 1..k}  B == {batch[i + k].job : i \in 1..(n - k)}
    <3>1. /\ SentJobs' = SentJobs \cup A /\ BatchJobs' = B /\ BatchJobs = A \cup B
          /\ A \cap B = {} /\ skipped' = skipped /\ taken' = taken
      BY <1>1, <1>2, <2>4, <2>5, <2>6, <2>7
    <3> HIDE DEF A, B
    <3>2. QED
      BY <2>8, <2>9, <3>1 DEF Placed
<1>3. CASE /\ skipped' = skipped \cup {Head(batch).job} /\ batch' = Tail(batch)
           /\ sent' = sent
  <2> DEFINE n == Len(batch)
  <2>1. n \in Nat /\ n >= 1 /\ DOMAIN batch = 1..n /\ Head(batch) = batch[1]
    BY <1>1
  <2>2. DOMAIN batch' = 1..(n - 1) /\ \A i \in 1..(n - 1) : batch'[i] = batch[i + 1]
    BY <1>1, <1>3
  <2> HIDE DEF n
  <2>3. /\ 1 \in 1..n
        /\ \A i \in 1..(n - 1) : i + 1 \in 1..n /\ i + 1 # 1
        /\ \A i \in 1..n : i # 1 => (i - 1 \in 1..(n - 1) /\ i = (i - 1) + 1)
    BY <2>1
  <2> DEFINE a == batch[1].job  B == {batch[i + 1].job : i \in 1..(n - 1)}
  <2>4. BatchJobs' = B
    BY <2>2 DEF BatchJobs
  <2>5. BatchJobs = {a} \cup B
    <3>1. \A i \in 1..n : batch[i].job \in {a} \cup B
      <4>1. ASSUME NEW i \in 1..n, i # 1 PROVE batch[i].job \in B
        <5>1. i - 1 \in 1..(n - 1) /\ i = (i - 1) + 1
          BY <2>3, <4>1
        <5>2. QED
          BY <5>1
      <4>2. QED
        BY <4>1
    <3>2. \A i \in 1..(n - 1) : batch[i + 1].job \in BatchJobs
      BY <2>1, <2>3 DEF BatchJobs
    <3>3. batch[1].job \in BatchJobs
      BY <2>1, <2>3 DEF BatchJobs
    <3>4. QED
      BY <2>1, <3>1, <3>2, <3>3 DEF BatchJobs
  <2>6. a \notin B
    <3>1. ASSUME NEW j \in 1..(n - 1), batch[1].job = batch[j + 1].job PROVE FALSE
      BY <2>1, <2>3, <3>1 DEF Placed
    <3>2. QED
      BY <3>1
  <2>7. \A i, j \in DOMAIN batch' : batch'[i].job = batch'[j].job => i = j
    <3>1. ASSUME NEW i \in 1..(n - 1), NEW j \in 1..(n - 1), batch'[i].job = batch'[j].job
          PROVE  i = j
      <4>1. i + 1 \in DOMAIN batch /\ j + 1 \in DOMAIN batch
        BY <2>1, <2>3
      <4>2. i + 1 = j + 1
        BY <2>2, <3>1, <4>1 DEF Placed
      <4>3. QED
        BY <2>1, <4>2
    <3>2. QED
      BY <2>2, <3>1
  <2>8. SentJobs' = SentJobs /\ skipped' = skipped \cup {a} /\ taken' = taken
    BY <1>1, <1>3, <2>1 DEF SentJobs
  <2> HIDE DEF a, B
  <2>9. QED
    BY <1>3, <2>4, <2>5, <2>6, <2>7, <2>8 DEF Placed
<1>4. QED
  BY <1>2, <1>3 DEF SendSome

LEMMA PlacedStep == TypeInv /\ Placed /\ [Next]_vars => Placed'
<1> SUFFICES ASSUME TypeInv, Placed, [Next]_vars PROVE Placed'
  OBVIOUS
<1>1. CASE AddJob /\ UNCHANGED sent
  BY <1>1, AddJobPlaced
<1>2. CASE SendSome
  BY <1>2, SendSomePlaced
<1>3. CASE UNCHANGED <<taken, batch, sent, skipped>>
  BY <1>3 DEF Placed, SentJobs, BatchJobs
<1>4. QED
  BY <1>1, <1>2, <1>3
     DEF Next, Sender, Receiver, Clock, Queue, CloseQueue, Arrive, RecvJob, FillBatch,
         BatchReady, BatchSent, Wake, QueueEnds, EndLinger, JoinReceiver, Receive, OpenPortSent,
         SeeDone, ReceiverFails, vars, senderVars

(* No job gets lost or counted twice, and a sender that ended took all.    *)
THEOREM JobsCorrect == Spec => []JobsAccounted
<1>1. TypeInv /\ TookAll /\ Placed => JobsAccounted
  BY DEF TypeInv, Emptied, TookAll, Ending, Placed, JobsAccounted
<1>2. Init => TookAll
  BY DEF Init, TookAll, Ending
<1>3. QED
  BY <1>1, <1>2, TypeInvInit, TypeStep, TookAllStep, PlacedInit, PlacedStep, PTL DEF Spec

-----------------------------------------------------------------------------
(* What a packet says is what was sent.                                    *)

Stamped(s, time) == s.stamp = Tick(s.at) /\ s.at <= time

Genuine(p, syns) ==
  p.ours =>
    /\ \E s \in syns : s.job = p.job /\ s.stamp = p.stamp /\ s.at = p.at
    /\ p.flag = "syn_ack" => p.job \in Open

FoundInv ==
  /\ \A i \in DOMAIN batch : Stamped(batch[i], now)
  /\ \A s \in sent : Stamped(s, now)
  /\ \A i \in DOMAIN inbox : Genuine(inbox[i], sent)
  /\ FoundRight

LEMMA FoundInit == Init => FoundInv
BY DEF Init, FoundInv, FoundRight

LEMMA StampedStep ==
  TypeInv /\ FoundInv /\ [Next]_vars =>
    (\A i \in DOMAIN batch : Stamped(batch[i], now))' /\ (\A s \in sent : Stamped(s, now))'
<1> SUFFICES ASSUME TypeInv, FoundInv, [Next]_vars
             PROVE  /\ (\A i \in DOMAIN batch : Stamped(batch[i], now))'
                    /\ (\A s \in sent : Stamped(s, now))'
  OBVIOUS
<1>1. now \in Nat /\ batch \in Seq(Syn) /\ sent \subseteq Syn
  BY DEF TypeInv, TypeOK, QueueTypes, BatchTypes
<1>2. now' \in Nat /\ now <= now'
  <2>1. now' = now + 1 \/ now' = now
    BY DEF Next, Sender, Receiver, Clock, Queue, CloseQueue, Arrive, RecvJob, FillBatch,
           BatchReady, SendSome, BatchSent, Wake, QueueEnds, EndLinger, JoinReceiver, Receive,
           OpenPortSent, SeeDone, ReceiverFails, vars
  <2>2. QED
    BY <1>1, <2>1
<1>3. ASSUME NEW s \in Syn, Stamped(s, now) PROVE Stamped(s, now')
  <2>1. s.at \in Nat
    BY DEF Syn
  <2>2. QED
    BY <1>1, <1>2, <1>3, <2>1 DEF Stamped, Tick
<1>4. (\A s \in sent : Stamped(s, now')) /\ (\A i \in DOMAIN batch : Stamped(batch[i], now'))
  BY <1>1, <1>3 DEF FoundInv
<1>5. CASE AddJob /\ UNCHANGED sent /\ UNCHANGED now
  <2> DEFINE s == [job |-> taken + 1, stamp |-> Tick(now), at |-> now]
  <2>1. Stamped(s, now')
    BY <1>1, <1>5 DEF Stamped, Tick
  <2>2. batch' = batch \/ batch' = Append(batch, s)
    BY <1>5 DEF AddJob
  <2> HIDE DEF s
  <2>3. \A i \in DOMAIN batch' : Stamped(batch'[i], now')
    BY <1>1, <1>4, <2>1, <2>2
  <2>4. QED
    BY <1>4, <1>5, <2>3
<1>6. CASE SendSome
  <2>1. ASSUME NEW k \in 1..Len(batch),
               sent' = sent \cup {batch[i] : i \in 1..k},
               batch' = SubSeq(batch, k + 1, Len(batch))
        PROVE  /\ \A i \in DOMAIN batch' : Stamped(batch'[i], now')
               /\ \A s \in sent' : Stamped(s, now')
    <3>1. \A i \in 1..k : i \in DOMAIN batch
      BY <1>1
    <3>2. \A i \in DOMAIN batch' : i + k \in DOMAIN batch /\ batch'[i] = batch[i + k]
      BY <1>1, <2>1
    <3>3. QED
      BY <1>4, <2>1, <3>1, <3>2
  <2>2. CASE batch' = Tail(batch) /\ sent' = sent
    <3>1. \A i \in DOMAIN batch' : i + 1 \in DOMAIN batch /\ batch'[i] = batch[i + 1]
      BY <1>1, <1>6, <2>2 DEF SendSome
    <3>2. QED
      BY <1>4, <2>2, <3>1
  <2>3. QED
    BY <1>6, <2>1, <2>2 DEF SendSome
<1>7. CASE UNCHANGED <<batch, sent>>
  BY <1>4, <1>7
<1>8. QED
  BY <1>5, <1>6, <1>7
     DEF Next, Sender, Receiver, Clock, Queue, CloseQueue, Arrive, RecvJob, FillBatch,
         BatchReady, BatchSent, Wake, QueueEnds, EndLinger, JoinReceiver, Receive, OpenPortSent,
         SeeDone, ReceiverFails, vars, senderVars

(* A job that was sent stays sent.                                         *)
LEMMA SentGrows == [Next]_vars => sent \subseteq sent'
BY DEF Next, Sender, Receiver, Clock, Queue, CloseQueue, Arrive, RecvJob, FillBatch, BatchReady,
       SendSome, BatchSent, Wake, QueueEnds, EndLinger, JoinReceiver, Receive, OpenPortSent,
       SeeDone, ReceiverFails, vars, senderVars

LEMMA GenuineStep ==
  TypeInv /\ FoundInv /\ [Next]_vars => (\A i \in DOMAIN inbox : Genuine(inbox[i], sent))'
<1> SUFFICES ASSUME TypeInv, FoundInv, [Next]_vars
             PROVE  (\A i \in DOMAIN inbox : Genuine(inbox[i], sent))'
  OBVIOUS
<1>1. inbox \in Seq(Packet) /\ sent \subseteq sent'
  BY SentGrows DEF TypeInv, TypeOK, ReceiverTypes
<1>2. \A i \in DOMAIN inbox : Genuine(inbox[i], sent')
  BY <1>1 DEF FoundInv, Genuine
<1>3. CASE Arrive
  <2>1. sent' = sent
    BY <1>3 DEF Arrive, senderVars
  <2>2. ASSUME NEW p, inbox' = Append(inbox, p), Genuine(p, sent)
        PROVE  \A i \in DOMAIN inbox' : Genuine(inbox'[i], sent')
    <3>1. Genuine(p, sent')
      BY <2>1, <2>2 DEF Genuine
    <3>2. \A i \in DOMAIN inbox' :
            (i \in DOMAIN inbox /\ inbox'[i] = inbox[i]) \/ inbox'[i] = p
      BY <1>1, <2>2
    <3>3. QED
      BY <1>2, <3>1, <3>2
  <2>3. ASSUME NEW s \in sent
        PROVE  Genuine([job |-> s.job, stamp |-> s.stamp, at |-> s.at, ours |-> TRUE,
                        flag |-> IF s.job \in Open THEN "syn_ack" ELSE "rst"], sent)
    BY DEF Genuine
  <2>4. Genuine([job |-> NoJob, stamp |-> 0, at |-> 0, ours |-> FALSE, flag |-> "syn_ack"],
            sent)
    BY DEF Genuine
  <2>5. QED
    BY <1>3, <2>2, <2>3, <2>4 DEF Arrive
<1>4. CASE Receive
  <2>1. \A i \in DOMAIN inbox' : i + 1 \in DOMAIN inbox /\ inbox'[i] = inbox[i + 1]
    BY <1>1, <1>4 DEF Receive
  <2>2. QED
    BY <1>2, <2>1
<1>5. CASE inbox' = inbox
  BY <1>2, <1>5
<1>6. QED
  BY <1>3, <1>4, <1>5
     DEF Next, Sender, Receiver, Clock, Queue, CloseQueue, RecvJob, FillBatch, BatchReady,
         SendSome, BatchSent, Wake, QueueEnds, EndLinger, JoinReceiver, OpenPortSent, SeeDone, ReceiverFails,
         vars

LEMMA FoundRightStep == TypeInv /\ FoundInv /\ [Next]_vars => FoundRight'
<1> SUFFICES ASSUME TypeInv, FoundInv, [Next]_vars PROVE FoundRight'
  OBVIOUS
<1>1. SentJobs \subseteq SentJobs'
  BY SentGrows DEF SentJobs
<1>2. CASE found' = found
  BY <1>1, <1>2 DEF FoundInv, FoundRight
<1>3. CASE Receive /\ IsOpenPort(Head(inbox))
  <2> DEFINE p == Head(inbox)
  <2>1. p \in Packet /\ Genuine(p, sent)
    <3>1. inbox \in Seq(Packet) /\ inbox # <<>>
      BY <1>3 DEF TypeInv, TypeOK, ReceiverTypes, Receive
    <3>2. 1 \in DOMAIN inbox /\ p = inbox[1]
      BY <3>1
    <3>3. QED
      BY <3>1, <3>2 DEF FoundInv
  <2>2. PICK s \in sent : s.job = p.job /\ s.stamp = p.stamp /\ s.at = p.at
    BY <1>3, <2>1 DEF Genuine, IsOpenPort
  <2>3. Stamped(s, now) /\ s.at \in Nat /\ now \in Nat /\ Span \in Nat \ {0}
    <3>1. s \in Syn
      BY DEF TypeInv, TypeOK, BatchTypes
    <3>2. QED
      BY <3>1, DiscoveryAssumption DEF Syn, FoundInv, TypeInv, TypeOK, QueueTypes
  <2>4. p.stamp = p.at % Span /\ p.at \in Nat /\ p.at <= now
    BY <2>2, <2>3 DEF Stamped, Tick
  <2>5. now - p.at < Span => Elapsed(p.stamp) = now - p.at
    <3> DEFINE b == p.at
    <3>1. b \in Nat /\ b <= now /\ p.stamp = b % Span
      BY <2>4
    <3> HIDE DEF b
    <3>2. now - b < Span => ((now % Span) - (b % Span)) % Span = now - b
      BY <2>3, <3>1, TickDifference
    <3>3. QED
      BY <3>1, <3>2 DEF Elapsed, Tick, b
  <2>6. p.job \in Open \cap SentJobs
    BY <1>3, <2>1, <2>2 DEF Genuine, IsOpenPort, SentJobs
  <2> DEFINE f == [job |-> p.job, real |-> now - p.at,
                   rtt |-> IF ReportsRtt THEN Elapsed(p.stamp) ELSE NoRtt]
  <2>7. found' = {f}
    BY <1>3 DEF Receive
  <2>8. f.job \in Open \cap SentJobs' /\ (f.rtt # NoRtt /\ f.real < Span => f.rtt = f.real)
    BY <1>1, <2>5, <2>6
  <2> HIDE DEF f
  <2>9. QED
    BY <2>7, <2>8 DEF FoundRight
<1>4. QED
  BY <1>2, <1>3
     DEF Next, Sender, Receiver, Clock, Queue, CloseQueue, Arrive, RecvJob, FillBatch,
         BatchReady, SendSome, BatchSent, Wake, QueueEnds, EndLinger, JoinReceiver, Receive,
         OpenPortSent, SeeDone, ReceiverFails, vars, receiverVars

(* Only open ports that this run sent a SYN to are found, with their RTT.  *)
THEOREM FoundCorrect == Spec => []FoundRight
<1>1. FoundInv => FoundRight
  BY DEF FoundInv
<1>2. TypeInv /\ FoundInv /\ [Next]_vars => FoundInv'
  BY StampedStep, GenuineStep, FoundRightStep DEF FoundInv
<1>3. QED
  BY <1>1, <1>2, TypeInvInit, TypeStep, FoundInit, PTL DEF Spec
=============================================================================
