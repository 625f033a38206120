--------------------------- MODULE WeightTransfer ---------------------------
(***************************************************************************)
(* The checkpoint engine sends the weights of the trainer to the rollout   *)
(* ranks in buckets, through two buffers on each rank: one is filled while *)
(* the other is read.  "nccl" broadcasts from rank 0 to every rank; "nixl" *)
(* is a chain, each rank reads from the one before it.  A rollout rank     *)
(* hands each weight it receives to its inference worker through a third   *)
(* buffer, which the two share (update_weights of the vLLM rollout).       *)
(*                                                                         *)
(* A weight is its number; a buffer is the sequence of the weights it      *)
(* holds.  A read takes what the buffer holds when it ends.  Trainer ranks *)
(* but the first take no part.                                             *)
(***************************************************************************)
EXTENDS Integers, Sequences, SequencesExt

CONSTANTS Engines,     \* checkpoint engines: "nccl", "nixl"
          Rollouts,        \* number of rollout ranks
          BucketSize,
          Models       \* models: sequences of the sizes of their weights

ASSUME TransferAssumption ==
    /\ Engines \subseteq {"nccl", "nixl"} /\ Rollouts \in Nat \ {0} /\ BucketSize \in Nat
    /\ Models \subseteq Seq(1..BucketSize)

VARIABLES
    engine, sizes,
    buf,        \* buf[r][b]: the two buffers of rank r
    sender,     \* send_weights: pc, filling buffer, next weight, bucket, offset
    sending,    \* broadcast_op or readable_op of the sender
    pc,         \* pc[r]: where receive_weights is
    recv,       \* recv[r]: the buffer that is recv_buf; the other one is send_buf
    read,       \* read[r]: broadcast_op or read_op
    bucket,     \* bucket[r]: metadata of send_buf
    given,      \* given[r]: weights of it that have been yielded
    mail,       \* mail[r]: messages of a bucket on their way to r
    notes,      \* notes[r]: what r has been notified of: keys of buckets read
    ipc,        \* ipc[r]: the shared buffer, its bucket and the REQ socket
    worker      \* worker[r]: update_weights_from_ipc: copied weights, loaded weights

senderVars == <<sender, sending>>
receiverVars == <<pc, recv, read, bucket, given>>
linkVars == <<mail, notes>>
workerVars == <<ipc, worker>>
vars == <<engine, sizes, buf, senderVars, receiverVars, linkVars, workerVars>>

Receivers == 1..Rollouts
Ranks == 0..Rollouts
Buffers == {0, 1}
NoBucket == [weights |-> <<>>, last |-> FALSE, key |-> 0, source |-> 0]
NoRead == [state |-> "none", bucket |-> NoBucket]

\* prepare, build_topology and init_process_group have run on every rank.
Init ==
    /\ engine \in Engines /\ sizes \in Models
    /\ buf = [r \in Ranks |-> [b \in Buffers |-> <<>>]]
    /\ sender = [pc |-> "fill", buffer |-> 0, next |-> 1, weights |-> <<>>, offset |-> 0, key |-> 1]
    /\ sending = NoBucket
    /\ pc = [r \in Receivers |-> "first"]
    /\ recv = [r \in Receivers |-> 1]
    /\ read = [r \in Receivers |-> NoRead]
    /\ bucket = [r \in Receivers |-> NoBucket]
    /\ given = [r \in Receivers |-> 0]
    /\ mail = [r \in Receivers |-> <<>>] /\ notes = [r \in Ranks |-> <<>>]
    /\ ipc = [r \in Receivers |-> [held |-> <<>>, offset |-> 0, request |-> "none", last |-> FALSE]]
    /\ worker = [r \in Receivers |-> [copied |-> <<>>, busy |-> FALSE, loaded |-> <<>>, done |-> FALSE]]

-----------------------------------------------------------------------------
(* send_weights on rank 0                                                  *)

\* wait_for_complete of the bucket before: the broadcast is over, or the next
\* rank has notified that it has read it.
Sent == sending.key # 0 => notes[0] # <<>> /\ Head(notes[0]) = sending.key

\* A new operation on the bucket just filled: BroadcastOperation publishes its
\* metadata to all, ReadableOperation sends it to the next rank.
Offer(last) ==
    LET b == [weights |-> sender.weights, last |-> last, key |-> sender.key, source |-> sender.buffer]
    IN  /\ sending' = b
        /\ notes' = [notes EXCEPT ![0] = IF sending.key = 0 THEN @ ELSE Tail(@)]
        /\ mail' = [r \in Receivers |-> IF engine = "nccl" \/ r = 1 THEN Append(mail[r], b) ELSE mail[r]]

Fits == sender.offset + sizes[sender.next] <= BucketSize

\* A weight is copied into the buffer; at offset 0 it begins the buffer anew.
Fill ==
    /\ sender.pc = "fill" /\ sender.next <= Len(sizes) /\ Fits
    /\ buf' = [buf EXCEPT ![0][sender.buffer] = Append(sender.weights, sender.next)]
    /\ sender' = [sender EXCEPT !.weights = Append(@, sender.next), !.next = @ + 1,
                                !.offset = @ + sizes[sender.next]]
    /\ UNCHANGED <<engine, sizes, sending, receiverVars, linkVars, workerVars>>

\* Mutant of SendBucket: the buffers are not swapped.
SendBucketSame ==
    /\ sender.pc = "fill" /\ sender.next <= Len(sizes) /\ ~Fits
    /\ Sent /\ Offer(FALSE)
    /\ sender' = [sender EXCEPT !.weights = <<>>, !.offset = 0, !.key = @ + 1]
    /\ UNCHANGED <<engine, sizes, buf, receiverVars, workerVars>>

\* The weight does not fit: the bucket is sent and the buffers are swapped.
SendBucket ==
    /\ sender.pc = "fill" /\ sender.next <= Len(sizes) /\ ~Fits
    /\ Sent /\ Offer(FALSE)
    /\ sender' = [sender EXCEPT !.buffer = 1 - @, !.weights = <<>>, !.offset = 0, !.key = @ + 1]
    /\ UNCHANGED <<engine, sizes, buf, receiverVars, workerVars>>

SendLastBucket ==
    /\ sender.pc = "fill" /\ sender.next > Len(sizes)
    /\ Sent /\ Offer(TRUE)
    /\ sender' = [sender EXCEPT !.pc = "last"]
    /\ UNCHANGED <<engine, sizes, buf, receiverVars, workerVars>>

SenderReturns ==
    /\ sender.pc = "last" /\ Sent
    /\ sender' = [sender EXCEPT !.pc = "done"]
    /\ UNCHANGED <<engine, sizes, buf, sending, receiverVars, linkVars, workerVars>>

-----------------------------------------------------------------------------
(* External: NCCL and NIXL move the bytes.                                 *)

\* collective.broadcast ends on all ranks when all have joined it.
Broadcast ==
    /\ engine = "nccl"
    /\ \A r \in Receivers : read[r].state = "active" /\ mail[r] # <<>>
    /\ LET sent(r) == Head(mail[r])
       IN  /\ buf' = [r \in Ranks |-> IF r = 0 THEN buf[0]
                                      ELSE [buf[r] EXCEPT ![recv[r]] = buf[0][sent(r).source]]]
           /\ read' = [r \in Receivers |-> [state |-> "done", bucket |-> sent(r)]]
    /\ mail' = [r \in Receivers |-> Tail(mail[r])]
    /\ notes' = [notes EXCEPT ![0] = Append(@, sending.key)]
    /\ UNCHANGED <<engine, sizes, senderVars, pc, recv, bucket, given, workerVars>>

\* A read ends and notifies the rank that was read from.
Transfer(r) ==
    /\ engine = "nixl" /\ read[r].state = "active"
    /\ buf' = [buf EXCEPT ![r][recv[r]] = buf[r - 1][read[r].bucket.source]]
    /\ read' = [read EXCEPT ![r].state = "done"]
    /\ notes' = [notes EXCEPT ![r - 1] = Append(@, read[r].bucket.key)]
    /\ UNCHANGED <<engine, sizes, senderVars, pc, recv, bucket, given, mail, workerVars>>

-----------------------------------------------------------------------------
(* receive_weights on rank r                                               *)

\* The operation that receives a bucket: NCCL joins the broadcast in a thread,
\* NIXL waits for the message of the bucket and begins to read it.
StartRead(r) ==
    /\ pc[r] \in {"first", "next"}
    /\ \/ /\ engine = "nccl"
          /\ read' = [read EXCEPT ![r] = [state |-> "active", bucket |-> NoBucket]]
          /\ UNCHANGED mail
       \/ /\ engine = "nixl" /\ mail[r] # <<>>
          /\ read' = [read EXCEPT ![r] = [state |-> "active", bucket |-> Head(mail[r])]]
          /\ mail' = [mail EXCEPT ![r] = Tail(@)]
    /\ pc' = [pc EXCEPT ![r] = IF @ = "first" THEN "wait" ELSE "yield"]
    /\ UNCHANGED <<engine, sizes, buf, senderVars, recv, bucket, given, notes, workerVars>>

\* Mutant of NextHasRead: a rank does not wait for the next one to read its buffer.
NextHasReadAlways(r) == TRUE

\* Mutant of NextHasRead: the last rank waits too.
NextHasReadByAll(r) ==
    engine = "nixl" => notes[r] # <<>> /\ Head(notes[r]) = bucket[r].key

\* readable_op.wait_for_complete: NIXL passes the bucket on to the next rank.
NextHasRead(r) ==
    engine = "nixl" /\ r < Rollouts =>
        notes[r] # <<>> /\ Head(notes[r]) = bucket[r].key

\* The buffers are swapped, and NIXL offers the bucket to the next rank.
Swap(r) ==
    /\ \/ pc[r] = "wait"
       \/ pc[r] = "yield" /\ given[r] = Len(bucket[r].weights) /\ NextHasRead(r)
    /\ read[r].state = "done"
    /\ recv' = [recv EXCEPT ![r] = 1 - @]
    /\ bucket' = [bucket EXCEPT ![r] = read[r].bucket]
    /\ read' = [read EXCEPT ![r] = NoRead] /\ given' = [given EXCEPT ![r] = 0]
    /\ pc' = [pc EXCEPT ![r] = IF read[r].bucket.last THEN "drain" ELSE "next"]
    /\ IF engine = "nixl" /\ r < Rollouts
       THEN /\ mail' = [mail EXCEPT ![r + 1] = Append(@, [read[r].bucket EXCEPT !.source = recv[r]])]
            /\ notes' = [notes EXCEPT ![r] = IF pc[r] = "yield" /\ @ # <<>> THEN Tail(@) ELSE @]
       ELSE UNCHANGED <<mail, notes>>
    /\ UNCHANGED <<engine, sizes, buf, senderVars, workerVars>>

-----------------------------------------------------------------------------
(* update_weights of the rollout, which consumes what receive_weights      *)
(* yields, and update_weights_from_ipc of its inference worker             *)

Yielding(r) == pc[r] \in {"yield", "drain"} /\ given[r] < Len(bucket[r].weights)

\* What the view on send_buf shows for the weight that is yielded
Yielded(r) == LET held == buf[r][1 - recv[r]] IN IF given[r] < Len(held) THEN held[given[r] + 1] ELSE 0
YieldedSize(r) == sizes[bucket[r].weights[given[r] + 1]]

\* The weight is copied to the shared buffer.
Yield(r) ==
    /\ Yielding(r) /\ ipc[r].request = "none"
    /\ ipc[r].offset + YieldedSize(r) <= BucketSize
    /\ ipc' = [ipc EXCEPT ![r].held = Append(@, Yielded(r)), ![r].offset = @ + YieldedSize(r)]
    /\ given' = [given EXCEPT ![r] = @ + 1]
    /\ UNCHANGED <<engine, sizes, buf, senderVars, pc, recv, read, bucket, linkVars, worker>>

\* send_pyobj: the weight does not fit, or there are no more.
Request(r) ==
    /\ ipc[r].request = "none"
    /\ \/ Yielding(r) /\ ipc[r].offset + YieldedSize(r) > BucketSize
       \/ pc[r] = "drained"
    /\ ipc' = [ipc EXCEPT ![r].request = "sent", ![r].last = (pc[r] = "drained")]
    /\ UNCHANGED <<engine, sizes, buf, senderVars, receiverVars, linkVars, worker>>

\* The worker clones the bucket and only then answers.
WorkerCopies(r) ==
    /\ ipc[r].request = "sent" /\ ~worker[r].busy
    /\ worker' = [worker EXCEPT ![r].copied = ipc[r].held, ![r].busy = TRUE, ![r].done = ipc[r].last]
    /\ ipc' = [ipc EXCEPT ![r].request = "answered"]
    /\ UNCHANGED <<engine, sizes, buf, senderVars, receiverVars, linkVars>>

\* _update_weights, after the answer
WorkerLoads(r) ==
    /\ worker[r].busy
    /\ worker' = [worker EXCEPT ![r].loaded = @ \o worker[r].copied, ![r].busy = FALSE]
    /\ UNCHANGED <<engine, sizes, buf, senderVars, receiverVars, linkVars, ipc>>

\* s.recv: the shared buffer is free again.
Answered(r) ==
    /\ ipc[r].request = "answered"
    /\ ipc' = [ipc EXCEPT ![r].held = <<>>, ![r].offset = 0,
                          ![r].request = IF ipc[r].last THEN "over" ELSE "none"]
    /\ UNCHANGED <<engine, sizes, buf, senderVars, receiverVars, linkVars, worker>>

\* receive_weights ends when the next rank has read the last bucket.
ReceiverEnds(r) ==
    /\ pc[r] = "drain" /\ given[r] = Len(bucket[r].weights) /\ NextHasRead(r)
    /\ pc' = [pc EXCEPT ![r] = "drained"]
    /\ UNCHANGED <<engine, sizes, buf, senderVars, recv, read, bucket, given, linkVars, workerVars>>

\* Mutant of UpdateReturns: the call that the worker runs is not awaited.
UpdateReturnsEarly(r) ==
    /\ pc[r] = "drained" /\ ipc[r].request = "over"
    /\ pc' = [pc EXCEPT ![r] = "done"]
    /\ UNCHANGED <<engine, sizes, buf, senderVars, recv, read, bucket, given, linkVars, workerVars>>

\* The rollout awaits the worker's call and update_weights returns.
UpdateReturns(r) ==
    /\ pc[r] = "drained" /\ ipc[r].request = "over"
    /\ worker[r].done /\ ~worker[r].busy
    /\ pc' = [pc EXCEPT ![r] = "done"]
    /\ UNCHANGED <<engine, sizes, buf, senderVars, recv, read, bucket, given, linkVars, workerVars>>

-----------------------------------------------------------------------------
SenderStep == Fill \/ SendBucket \/ SendLastBucket \/ SenderReturns
ReceiverStep(r) ==
    \/ StartRead(r) \/ Swap(r) \/ Yield(r) \/ Request(r) \/ Answered(r)
    \/ ReceiverEnds(r) \/ UpdateReturns(r)
WorkerStep(r) == WorkerCopies(r) \/ WorkerLoads(r)

Next ==
    \/ SenderStep \/ Broadcast
    \/ \E r \in Receivers : Transfer(r) \/ ReceiverStep(r) \/ WorkerStep(r)

Spec == Init /\ [][Next]_vars

\* Processes and links go on.
FairSpec ==
    /\ Spec /\ WF_vars(SenderStep) /\ WF_vars(Broadcast)
    /\ \A r \in Receivers : WF_vars(Transfer(r)) /\ WF_vars(ReceiverStep(r)) /\ WF_vars(WorkerStep(r))

-----------------------------------------------------------------------------
(* Properties                                                              *)

\* ray.get in update_weights of the CheckpointEngineManager has returned.
UpdateDone == sender.pc = "done" /\ \A r \in Receivers : pc[r] = "done"

\* Every worker loads the weights of the trainer, each once, whole and in order,
\* whatever is overwritten in the buffers in the meantime.
LoadsInOrder ==
    \A r \in Receivers :
        worker[r].loaded \o (IF worker[r].busy THEN worker[r].copied ELSE <<>>) \in
            {[i \in 1..n |-> i] : n \in 0..Len(sizes)}

\* Rank r is reading buffer b of rank q.
Reads(r, q, b) ==
    /\ read[r].state = "active"
    /\ \/ engine = "nixl" /\ q = r - 1 /\ b = read[r].bucket.source
       \/ engine = "nccl" /\ q = 0 /\ mail[r] # <<>> /\ b = Head(mail[r]).source

\* Nobody writes a buffer that is being read, nor send_buf while weights are
\* yielded from it.
ReadsAreStable ==
    [][/\ \A r \in Receivers, b \in Buffers :
            \A q \in {0, r - 1} : Reads(r, q, b) /\ Reads(r, q, b)' => buf'[q][b] = buf[q][b]
       /\ \A r \in Receivers : Yielding(r) /\ Yielding(r)' /\ recv'[r] = recv[r]
                               => buf'[r][1 - recv[r]] = buf[r][1 - recv[r]]]_vars

\* When the update returns every worker has loaded all weights.
UpdateIsComplete ==
    UpdateDone => \A r \in Receivers : worker[r].loaded = [i \in 1..Len(sizes) |-> i]

\* No two ranks wait for each other: the update returns.
UpdateReturnsInTheEnd == <>UpdateDone
=============================================================================
