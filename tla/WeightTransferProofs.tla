------------------------ MODULE WeightTransferProofs ------------------------
(***************************************************************************)
(* Proofs about WeightTransfer, for any number of rollout ranks, any model *)
(* and both engines: what every worker loads, and that no buffer is        *)
(* written while it is read.                                               *)
(*                                                                         *)
(* The invariant follows a bucket on its way.  Each rank has a bucket it   *)
(* offers to those that read from it: the sender the one it sends, a rank  *)
(* in the chain of NIXL the one it yields.  A link is either offered, with *)
(* the bucket in the mail or being read and the rank one bucket behind, or *)
(* taken, with the rank as far as the one before it and the notification   *)
(* on its way back.  A rank offers a new bucket only on a link that is     *)
(* taken, so nobody is ever more than one bucket ahead of his reader, and  *)
(* the buffer of the bucket offered is not the one that is written.        *)
(***************************************************************************)
EXTENDS WeightTransfer, SequenceTheorems, TLAPS

-----------------------------------------------------------------------------
(* Sequences of consecutive weights                                        *)

\* The weights up to n
UpTo(n) == [i \in 1..n |-> i]

\* The last of a sequence of weights, and how many come before its first
End(w) == IF w = <<>> THEN 0 ELSE w[Len(w)]
Before(w) == End(w) - Len(w)

Consecutive(w) == \A i \in 1..Len(w) : w[i] = Before(w) + i

-----------------------------------------------------------------------------
(* The invariant                                                           *)

Weights == Seq(Nat \ {0})
Bucket == [weights : Weights, last : BOOLEAN, key : Nat, source : Buffers]
Read == [state : {"none", "active", "done"}, bucket : Bucket]
Sender == [pc : {"fill", "last", "done"}, buffer : Buffers, next : Nat \ {0},
           weights : Weights, offset : Int, key : Nat \ {0}]
Ipc == [held : Seq(Int), offset : Int, request : {"none", "sent", "answered", "over"},
        last : BOOLEAN]
Worker == [copied : Seq(Int), busy : BOOLEAN, loaded : Seq(Int), done : BOOLEAN]
Places == {"first", "wait", "next", "yield", "drain", "drained", "done"}

TypeOK ==
    /\ engine \in {"nccl", "nixl"} /\ sizes \in Seq(1..BucketSize)
    /\ buf \in [Ranks -> [Buffers -> Weights]]
    /\ sender \in Sender /\ sending \in Bucket
    /\ pc \in [Receivers -> Places] /\ recv \in [Receivers -> Buffers]
    /\ read \in [Receivers -> Read] /\ bucket \in [Receivers -> Bucket]
    /\ given \in [Receivers -> Nat]
    /\ mail \in [Receivers -> Seq(Bucket)] /\ notes \in [Ranks -> Seq(Nat)]
    /\ ipc \in [Receivers -> Ipc] /\ worker \in [Receivers -> Worker]

\* A bucket holds consecutive weights of the model, the last one up to its end.
Proper(b) ==
    /\ Consecutive(b.weights) /\ End(b.weights) <= Len(sizes)
    /\ b.last => End(b.weights) = Len(sizes)

\* c is the bucket after b.
Follows(b, c) ==
    /\ ~b.last /\ c.key = b.key + 1
    /\ Before(c.weights) = End(b.weights)

\* The same bucket, in whichever buffer
Same(b, c) == b.weights = c.weights /\ b.last = c.last /\ b.key = c.key

\* The sender fills one buffer and sends the other one.
Filling ==
    /\ sender.key = sending.key + 1 /\ ~sending.last
    /\ sender.next = End(sending.weights) + Len(sender.weights) + 1
    /\ sender.next <= Len(sizes) + 1
    /\ Consecutive(sender.weights)
    /\ IF sender.weights = <<>>
       THEN /\ sender.offset = 0
            /\ \/ sender.next <= Len(sizes)
               \/ sender.next = 1 /\ buf[0][sender.buffer] = <<>>
       ELSE /\ End(sender.weights) = sender.next - 1
            /\ buf[0][sender.buffer] = sender.weights
    /\ sending.key # 0 => sending.source = 1 - sender.buffer

SenderInv ==
    /\ Proper(sending)
    /\ IF sender.pc = "fill" THEN Filling ELSE sending.key # 0
    /\ sending.key # 0 => buf[0][sending.source] = sending.weights

\* Where receive_weights of rank r is, what it reads and what it yields
ReceiverInv(r) ==
    /\ Proper(bucket[r])
    /\ given[r] <= Len(bucket[r].weights)
    /\ bucket[r].last <=> pc[r] \in {"drain", "drained", "done"}
    /\ bucket[r].key = 0 <=> pc[r] \in {"first", "wait"}
    /\ bucket[r].key = 0 => bucket[r].weights = <<>>
    /\ read[r].state = "none" <=> pc[r] \notin {"wait", "yield"}
    /\ pc[r] \in {"drained", "done"} => given[r] = Len(bucket[r].weights)
    /\ buf[r][1 - recv[r]] = bucket[r].weights
    /\ read[r].state = "done" =>
           /\ Proper(read[r].bucket) /\ Follows(bucket[r], read[r].bucket)
           /\ buf[r][recv[r]] = read[r].bucket.weights

\* What the worker of rank r has got, loaded, copied or in the shared buffer
Received(r) ==
    worker[r].loaded \o (IF worker[r].busy THEN worker[r].copied ELSE <<>>)
                     \o (IF ipc[r].request = "answered" THEN <<>> ELSE ipc[r].held)

\* The worker of rank r has got what the rank has yielded.
WorkerInv(r) ==
    /\ Received(r) = UpTo(Before(bucket[r].weights) + given[r])
    /\ (ipc[r].request = "over" \/ (ipc[r].request # "none" /\ ipc[r].last))
       => pc[r] \in {"drained", "done"}
    /\ ipc[r].request = "over" => ipc[r].held = <<>>
    /\ pc[r] = "done" => ipc[r].request = "over" /\ ~worker[r].busy

\* The rank that r reads from, the bucket that rank offers and the buffer it is in
Upstream(r) == IF engine = "nixl" THEN r - 1 ELSE 0
Current(q) == IF q = 0 THEN sending ELSE bucket[q]
Source(q) == IF q = 0 THEN sending.source ELSE 1 - recv[q]

\* The last bucket that rank r has read
Reached(r) == IF read[r].state = "done" THEN read[r].bucket ELSE bucket[r]

\* m announces the bucket that rank q offers.
Announces(m, q) == Same(m, Current(q)) /\ m.source = Source(q)

Offered(r) ==
    LET q == Upstream(r)
    IN  /\ Current(q).key # 0 /\ notes[q] = <<>>
        /\ Follows(Reached(r), Current(q))
        /\ \/ /\ Len(mail[r]) = 1 /\ Announces(Head(mail[r]), q)
              /\ engine = "nixl" => read[r].state # "active"
           \/ /\ engine = "nixl" /\ mail[r] = <<>>
              /\ read[r].state = "active" /\ Announces(read[r].bucket, q)

Taken(r) ==
    LET q == Upstream(r)
    IN  /\ notes[q] = IF Current(q).key = 0 THEN <<>> ELSE <<Current(q).key>>
        /\ Same(Reached(r), Current(q))
        /\ mail[r] = <<>>
        /\ engine = "nixl" => read[r].state # "active"

LinkInv(r) == Offered(r) \/ Taken(r)

IInv ==
    /\ TypeOK /\ SenderInv
    /\ \A r \in Receivers : ReceiverInv(r) /\ WorkerInv(r) /\ LinkInv(r)

-----------------------------------------------------------------------------
(* Consecutive weights                                                     *)

LEMMA EndType ==
    ASSUME NEW w \in Weights
    PROVE  /\ End(w) \in Nat /\ Before(w) \in Int /\ Len(w) \in Nat
           /\ w # <<>> => Len(w) > 0 /\ End(w) = w[Len(w)] /\ End(w) > 0
           /\ End(w) = Before(w) + Len(w)
  BY DEF Weights, End, Before

LEMMA EndEmpty ==
    ASSUME NEW w \in Weights, w = <<>>
    PROVE  End(w) = 0 /\ Before(w) = 0 /\ Len(w) = 0
  <1>1. Len(w) = 0
    BY EmptySeq
  <1>2. End(w) = 0
    BY Zenon DEF End
  <1> QED BY <1>1, <1>2 DEF Before

LEMMA BeforeType ==
    ASSUME NEW w \in Weights, Consecutive(w)
    PROVE  Before(w) \in Nat
  <1>1. CASE w = <<>>
    BY <1>1 DEF Before, End
  <1>2. CASE w # <<>>
    <2>1. /\ 1 \in 1..Len(w) /\ w[1] \in Nat \ {0} /\ Before(w) \in Int
      BY <1>2, EndType DEF Weights
    <2> QED BY <2>1 DEF Consecutive
  <1> QED BY <1>1, <1>2

LEMMA ConsecutiveAppend ==
    ASSUME NEW w \in Weights, Consecutive(w), NEW n \in Nat \ {0},
           w # <<>> => End(w) = n - 1
    PROVE  LET v == Append(w, n)
           IN  /\ v \in Weights /\ v # <<>> /\ Len(v) = Len(w) + 1
               /\ Consecutive(v) /\ End(v) = n
  <1> DEFINE v == Append(w, n)
  <1>0. /\ v \in Weights /\ Len(v) = Len(w) + 1 /\ Len(w) \in Nat
        /\ \A i \in 1..Len(w) : v[i] = w[i]
        /\ v[Len(w) + 1] = n
    BY DEF Weights
  <1> HIDE DEF v
  <1>1. /\ v \in Weights /\ Len(v) = Len(w) + 1 /\ Len(w) \in Nat /\ v # <<>>
        /\ \A i \in 1..Len(w) : v[i] = w[i]
        /\ v[Len(w) + 1] = n
    BY <1>0
  <1>2. End(v) = n /\ Before(v) = n - (Len(w) + 1)
    BY <1>1 DEF End, Before
  <1>3. \A i \in 1..Len(w) : w[i] = (n - 1) - Len(w) + i
    <2>1. CASE w = <<>>
      BY <2>1
    <2>2. CASE w # <<>>
      BY <2>2 DEF Consecutive, Before
    <2> QED BY <2>1, <2>2
  <1>4. Consecutive(v)
    <2> SUFFICES ASSUME NEW i \in 1..Len(v) PROVE v[i] = Before(v) + i
      BY DEF Consecutive
    <2>1. CASE i \in 1..Len(w)
      BY <1>1, <1>2, <1>3, <2>1
    <2>2. CASE i = Len(w) + 1
      BY <1>1, <1>2, <2>2
    <2> QED BY <1>1, <2>1, <2>2
  <1> QED BY <1>1, <1>2, <1>4 DEF v

LEMMA UpToNext ==
    ASSUME NEW m \in Nat
    PROVE  Append(UpTo(m), m + 1) = UpTo(m + 1)
  <1> DEFINE a == UpTo(m)
             b == UpTo(m + 1)
  <1>1. /\ a \in Seq(Int) /\ Len(a) = m /\ \A i \in 1..m : a[i] = i
        /\ b \in Seq(Int) /\ Len(b) = m + 1 /\ \A i \in 1..(m + 1) : b[i] = i
    BY DEF UpTo
  <1> HIDE DEF a, b
  <1>2. /\ Append(a, m + 1) \in Seq(Int) /\ Len(Append(a, m + 1)) = m + 1
        /\ \A i \in 1..(m + 1) : Append(a, m + 1)[i] = i
    BY <1>1
  <1>3. Append(a, m + 1) = b
    BY <1>1, <1>2, SeqEqual
  <1> QED BY <1>3 DEF a, b

LEMMA AppendAsConcat ==
    ASSUME NEW a \in Seq(Int), NEW x \in Int
    PROVE  Append(a, x) = a \o <<x>>
  <1> DEFINE l == Append(a, x)
             r == a \o <<x>>
  <1>1. /\ l \in Seq(Int) /\ Len(l) = Len(a) + 1
        /\ \A i \in 1..Len(l) : l[i] = IF i <= Len(a) THEN a[i] ELSE x
    OBVIOUS
  <1>2. /\ r \in Seq(Int) /\ Len(r) = Len(a) + 1
        /\ \A i \in 1..Len(r) : r[i] = IF i <= Len(a) THEN a[i] ELSE x
    OBVIOUS
  <1> HIDE DEF l, r
  <1>3. l = r
    BY <1>1, <1>2, SeqEqual
  <1> QED BY <1>3 DEF l, r

LEMMA AppendToSecond ==
    ASSUME NEW a \in Seq(Int), NEW b \in Seq(Int), NEW x \in Int
    PROVE  a \o Append(b, x) = Append(a \o b, x)
  <1>1. a \o b \in Seq(Int) /\ <<x>> \in Seq(Int)
    OBVIOUS
  <1>2. (a \o b) \o <<x>> = a \o (b \o <<x>>)
    BY <1>1, ConcatAssociative
  <1> QED BY <1>1, <1>2, AppendAsConcat

-----------------------------------------------------------------------------
(* What a step leaves alone                                                *)

LEMMA SenderFrame ==
    ASSUME SenderInv, UNCHANGED <<sizes, sender, sending>>, buf'[0] = buf[0]
    PROVE  SenderInv'
  BY DEF SenderInv, Proper, Filling

LEMMA ReceiverFrame ==
    ASSUME NEW r \in Receivers, ReceiverInv(r), sizes' = sizes,
           pc'[r] = pc[r], recv'[r] = recv[r], read'[r] = read[r],
           bucket'[r] = bucket[r], given'[r] = given[r], buf'[r] = buf[r]
    PROVE  ReceiverInv(r)'
  BY DEF ReceiverInv, Proper, Follows

LEMMA WorkerFrame ==
    ASSUME NEW r \in Receivers, WorkerInv(r),
           pc'[r] = pc[r], bucket'[r] = bucket[r], given'[r] = given[r],
           ipc'[r] = ipc[r], worker'[r] = worker[r]
    PROVE  WorkerInv(r)'
  BY DEF WorkerInv, Received

LEMMA LinkFrame ==
    ASSUME NEW r \in Receivers, LinkInv(r), engine' = engine,
           mail'[r] = mail[r], read'[r] = read[r], bucket'[r] = bucket[r],
           NEW CONSTANT q, q = Upstream(r), notes'[q] = notes[q],
           Current(q)' = Current(q), Source(q)' = Source(q)
    PROVE  LinkInv(r)'
  <1>1. Upstream(r)' = q
    BY DEF Upstream
  <1>2. Reached(r)' = Reached(r)
    BY DEF Reached
  <1>3. \A m : Announces(m, q)' <=> Announces(m, q)
    BY DEF Announces
  <1> QED BY <1>1, <1>2, <1>3 DEF LinkInv, Offered, Taken, Follows, Same

LEMMA LinksFrame ==
    ASSUME IInv, UNCHANGED <<engine, sending, recv, read, bucket, linkVars>>
    PROVE  \A r \in Receivers : LinkInv(r)'
  <1> SUFFICES ASSUME NEW r \in Receivers PROVE LinkInv(r)'
    OBVIOUS
  <1>1. \A q : Current(q)' = Current(q) /\ Source(q)' = Source(q)
    BY DEF Current, Source
  <1>2. LinkInv(r) /\ engine' = engine /\ read' = read /\ bucket' = bucket
        /\ mail' = mail /\ notes' = notes
    BY DEF IInv, linkVars
  <1>3. PICK q : q = Upstream(r)
    OBVIOUS
  <1>4. notes'[q] = notes[q] /\ Current(q)' = Current(q) /\ Source(q)' = Source(q)
    BY <1>1, <1>2
  <1> QED BY <1>2, <1>3, <1>4, LinkFrame

-----------------------------------------------------------------------------
(* The worker                                                              *)

LEMMA WorkerKeepsRest ==
    ASSUME IInv, UNCHANGED <<engine, sizes, buf, senderVars, receiverVars, linkVars>>
    PROVE  /\ SenderInv'
           /\ \A r \in Receivers : ReceiverInv(r)' /\ LinkInv(r)'
  <1>1. SenderInv'
    BY SenderFrame DEF IInv, senderVars
  <1>2. \A r \in Receivers : ReceiverInv(r)'
    BY ReceiverFrame DEF IInv, receiverVars
  <1>3. \A r \in Receivers : LinkInv(r)'
    BY LinksFrame DEF senderVars, receiverVars
  <1> QED BY <1>1, <1>2, <1>3

LEMMA RequestKeeps ==
    ASSUME IInv, NEW r \in Receivers, Request(r)
    PROVE  IInv'
  <1>1. /\ UNCHANGED <<engine, sizes, buf, senderVars, receiverVars, linkVars, worker>>
        /\ ipc[r].request = "none"
        /\ ipc' = [ipc EXCEPT ![r].request = "sent", ![r].last = (pc[r] = "drained")]
    BY DEF Request
  <1>2. ipc \in [Receivers -> Ipc]
    BY DEF IInv, TypeOK
  <1>3. /\ ipc' \in [Receivers -> Ipc]
        /\ ipc'[r].held = ipc[r].held /\ ipc'[r].request = "sent"
        /\ ipc'[r].last = (pc[r] = "drained")
        /\ \A x \in Receivers \ {r} : ipc'[x] = ipc[x]
    BY <1>1, <1>2 DEF Ipc
  <1>4. TypeOK'
    BY <1>1, <1>3 DEF IInv, TypeOK, senderVars, receiverVars, linkVars
  <1>5. WorkerInv(r)'
    BY <1>1, <1>3 DEF IInv, WorkerInv, Received, receiverVars
  <1>6. \A x \in Receivers \ {r} : WorkerInv(x)'
    BY <1>1, <1>3, WorkerFrame DEF IInv, receiverVars
  <1> QED BY <1>1, <1>4, <1>5, <1>6, WorkerKeepsRest DEF IInv

LEMMA AnsweredKeeps ==
    ASSUME IInv, NEW r \in Receivers, Answered(r)
    PROVE  IInv'
  <1>1. /\ UNCHANGED <<engine, sizes, buf, senderVars, receiverVars, linkVars, worker>>
        /\ ipc[r].request = "answered"
        /\ ipc' = [ipc EXCEPT ![r].held = <<>>, ![r].offset = 0,
                              ![r].request = IF ipc[r].last THEN "over" ELSE "none"]
    BY DEF Answered
  <1>2. ipc \in [Receivers -> Ipc]
    BY DEF IInv, TypeOK
  <1>3. /\ ipc' \in [Receivers -> Ipc]
        /\ ipc'[r].held = <<>>
        /\ ipc'[r].request = IF ipc[r].last THEN "over" ELSE "none"
        /\ ipc'[r].last = ipc[r].last
        /\ \A x \in Receivers \ {r} : ipc'[x] = ipc[x]
    BY <1>1, <1>2 DEF Ipc
  <1>4. TypeOK'
    BY <1>1, <1>3 DEF IInv, TypeOK, senderVars, receiverVars, linkVars
  <1>5. WorkerInv(r)'
    <2>1. Received(r)' = Received(r)
      BY <1>1, <1>3 DEF Received
    <2>2. ipc'[r].request = "over" => ipc[r].last
      BY <1>3
    <2>3. ipc'[r].request = "over" \/ ipc'[r].request = "none"
      BY <1>3
    <2>4. WorkerInv(r) /\ UNCHANGED <<pc, bucket, given, worker>>
      BY <1>1 DEF IInv, receiverVars
    <2> QED BY <1>1, <1>3, <2>1, <2>2, <2>3, <2>4 DEF WorkerInv
  <1>6. \A x \in Receivers \ {r} : WorkerInv(x)'
    BY <1>1, <1>3, WorkerFrame DEF IInv, receiverVars
  <1> QED BY <1>1, <1>4, <1>5, <1>6, WorkerKeepsRest DEF IInv

LEMMA WorkerCopiesKeeps ==
    ASSUME IInv, NEW r \in Receivers, WorkerCopies(r)
    PROVE  IInv'
  <1>1. /\ UNCHANGED <<engine, sizes, buf, senderVars, receiverVars, linkVars>>
        /\ ipc[r].request = "sent" /\ ~worker[r].busy
        /\ worker' = [worker EXCEPT ![r].copied = ipc[r].held, ![r].busy = TRUE,
                                    ![r].done = ipc[r].last]
        /\ ipc' = [ipc EXCEPT ![r].request = "answered"]
    BY DEF WorkerCopies
  <1>2. ipc \in [Receivers -> Ipc] /\ worker \in [Receivers -> Worker]
    BY DEF IInv, TypeOK
  <1>3. /\ ipc' \in [Receivers -> Ipc]
        /\ ipc'[r].held = ipc[r].held /\ ipc'[r].request = "answered"
        /\ ipc'[r].last = ipc[r].last
        /\ \A x \in Receivers \ {r} : ipc'[x] = ipc[x]
    BY <1>1, <1>2 DEF Ipc
  <1>4. /\ worker' \in [Receivers -> Worker]
        /\ worker'[r].copied = ipc[r].held /\ worker'[r].busy
        /\ worker'[r].loaded = worker[r].loaded
        /\ \A x \in Receivers \ {r} : worker'[x] = worker[x]
    BY <1>1, <1>2 DEF Worker, Ipc
  <1>5. TypeOK'
    BY <1>1, <1>3, <1>4 DEF IInv, TypeOK, senderVars, receiverVars, linkVars
  <1>6. Received(r)' = Received(r)
    <2>1. worker[r].loaded \in Seq(Int) /\ ipc[r].held \in Seq(Int)
      BY <1>2 DEF Worker, Ipc
    <2>2. Received(r)' = (worker[r].loaded \o ipc[r].held) \o <<>>
      BY <1>3, <1>4 DEF Received
    <2>3. Received(r) = (worker[r].loaded \o <<>>) \o ipc[r].held
      BY <1>1 DEF Received
    <2> QED BY <2>1, <2>2, <2>3
  <1>7. WorkerInv(r)'
    BY <1>1, <1>3, <1>6 DEF IInv, WorkerInv, receiverVars
  <1>8. \A x \in Receivers \ {r} : WorkerInv(x)'
    BY <1>1, <1>3, <1>4, WorkerFrame DEF IInv, receiverVars
  <1> QED BY <1>1, <1>5, <1>7, <1>8, WorkerKeepsRest DEF IInv

LEMMA WorkerLoadsKeeps ==
    ASSUME IInv, NEW r \in Receivers, WorkerLoads(r)
    PROVE  IInv'
  <1>1. /\ UNCHANGED <<engine, sizes, buf, senderVars, receiverVars, linkVars, ipc>>
        /\ worker[r].busy
        /\ worker' = [worker EXCEPT ![r].loaded = @ \o worker[r].copied, ![r].busy = FALSE]
    BY DEF WorkerLoads
  <1>2. ipc \in [Receivers -> Ipc] /\ worker \in [Receivers -> Worker]
    BY DEF IInv, TypeOK
  <1>3. worker[r].loaded \in Seq(Int) /\ worker[r].copied \in Seq(Int) /\ ipc[r].held \in Seq(Int)
    BY <1>2 DEF Worker, Ipc
  <1>4. /\ worker' \in [Receivers -> Worker]
        /\ ~worker'[r].busy
        /\ worker'[r].loaded = worker[r].loaded \o worker[r].copied
        /\ \A x \in Receivers \ {r} : worker'[x] = worker[x]
    <2> DEFINE all == worker[r].loaded \o worker[r].copied
    <2>1. all \in Seq(Int)
      BY <1>3
    <2>2. worker' = [worker EXCEPT ![r] = [worker[r] EXCEPT !.loaded = all, !.busy = FALSE]]
      BY <1>1
    <2> HIDE DEF all
    <2>3. [worker[r] EXCEPT !.loaded = all, !.busy = FALSE] \in Worker
      BY <1>2, <2>1 DEF Worker
    <2>4. worker' \in [Receivers -> Worker] /\ worker'[r].loaded = all /\ ~worker'[r].busy
      BY <1>2, <2>2, <2>3 DEF Worker
    <2> QED BY <1>2, <2>2, <2>4 DEF all
  <1>5. TypeOK'
    BY <1>1, <1>4 DEF IInv, TypeOK, senderVars, receiverVars, linkVars
  <1>6. Received(r)' = Received(r)
    <2> DEFINE all == worker[r].loaded \o worker[r].copied
               held == IF ipc[r].request = "answered" THEN <<>> ELSE ipc[r].held
    <2>1. Received(r)' = (all \o <<>>) \o held
      BY <1>1, <1>4 DEF Received
    <2>2. Received(r) = all \o held
      BY <1>1 DEF Received
    <2>3. all \in Seq(Int)
      BY <1>3
    <2> HIDE DEF all, held
    <2>4. all \o <<>> = all
      BY <2>3
    <2> QED BY <2>1, <2>2, <2>4
  <1>7. WorkerInv(r)'
    BY <1>1, <1>4, <1>6 DEF IInv, WorkerInv, receiverVars
  <1>8. \A x \in Receivers \ {r} : WorkerInv(x)'
    BY <1>1, <1>4, WorkerFrame DEF IInv, receiverVars
  <1> QED BY <1>1, <1>5, <1>7, <1>8, WorkerKeepsRest DEF IInv

-----------------------------------------------------------------------------
(* The receiver                                                            *)

\* The weight that is yielded is the next one, and it is in the model.
LEMMA YieldedNext ==
    ASSUME IInv, NEW r \in Receivers, Yielding(r)
    PROVE  LET n == Before(bucket[r].weights) + given[r]
           IN  /\ n \in Nat /\ n + 1 <= Len(sizes)
               /\ Yielded(r) = n + 1 /\ YieldedSize(r) \in Int
               /\ given[r] + 1 <= Len(bucket[r].weights)
  <1> DEFINE w == bucket[r].weights
             n == Before(w) + given[r]
  <1>1. /\ w \in Weights /\ given[r] \in Nat /\ sizes \in Seq(1..BucketSize)
        /\ Consecutive(w) /\ End(w) <= Len(sizes)
        /\ buf[r][1 - recv[r]] = w
    BY DEF IInv, TypeOK, ReceiverInv, Proper, Bucket
  <1>2. given[r] < Len(w)
    BY DEF Yielding
  <1>3. Yielded(r) = w[given[r] + 1] /\ YieldedSize(r) = sizes[w[given[r] + 1]]
    BY <1>1, <1>2 DEF Yielded, YieldedSize
  <1> HIDE DEF w
  <1>4. /\ Before(w) \in Nat /\ Len(w) \in Nat /\ End(w) = Before(w) + Len(w)
        /\ End(w) \in Nat
    BY <1>1, BeforeType, EndType
  <1>5. given[r] + 1 \in 1..Len(w)
    BY <1>1, <1>2, <1>4
  <1>6. w[given[r] + 1] = n + 1
    BY <1>1, <1>4, <1>5 DEF Consecutive
  <1>7. n \in Nat /\ n + 1 <= End(w) /\ Len(sizes) \in Nat
    BY <1>1, <1>2, <1>4
  <1>8. n + 1 \in 1..Len(sizes)
    BY <1>1, <1>4, <1>7
  <1>9. sizes[n + 1] \in Int
    BY <1>1, <1>8, TransferAssumption DEF TransferAssumption
  <1> QED BY <1>1, <1>3, <1>4, <1>5, <1>6, <1>7, <1>8, <1>9 DEF w

LEMMA YieldKeeps ==
    ASSUME IInv, NEW r \in Receivers, Yield(r)
    PROVE  IInv'
  <1> DEFINE n == Before(bucket[r].weights) + given[r]
  <1>1. /\ UNCHANGED <<engine, sizes, buf, senderVars, pc, recv, read, bucket, linkVars, worker>>
        /\ ipc[r].request = "none" /\ Yielding(r)
        /\ ipc' = [ipc EXCEPT ![r].held = Append(@, Yielded(r)),
                              ![r].offset = @ + YieldedSize(r)]
        /\ given' = [given EXCEPT ![r] = @ + 1]
    BY DEF Yield
  <1>2. /\ n \in Nat /\ Yielded(r) = n + 1 /\ YieldedSize(r) \in Int
        /\ given[r] + 1 <= Len(bucket[r].weights)
    BY <1>1, YieldedNext
  <1>3. /\ ipc \in [Receivers -> Ipc] /\ worker \in [Receivers -> Worker]
        /\ given \in [Receivers -> Nat]
    BY DEF IInv, TypeOK
  <1>4. /\ given' \in [Receivers -> Nat] /\ given'[r] = given[r] + 1
        /\ \A x \in Receivers \ {r} : given'[x] = given[x]
    BY <1>1, <1>3
  <1>5. /\ ipc' \in [Receivers -> Ipc]
        /\ ipc'[r].held = Append(ipc[r].held, n + 1)
        /\ ipc'[r].request = ipc[r].request /\ ipc'[r].last = ipc[r].last
        /\ \A x \in Receivers \ {r} : ipc'[x] = ipc[x]
    <2> DEFINE held == Append(ipc[r].held, n + 1)
               offset == ipc[r].offset + YieldedSize(r)
    <2>1. ipc[r].held \in Seq(Int) /\ ipc[r].offset \in Int /\ n + 1 \in Int
      BY <1>2, <1>3 DEF Ipc
    <2>2. held \in Seq(Int) /\ offset \in Int
      BY <1>2, <2>1
    <2>3. ipc' = [ipc EXCEPT ![r] = [ipc[r] EXCEPT !.held = held, !.offset = offset]]
      BY <1>1, <1>2
    <2> HIDE DEF held, offset
    <2>4. [ipc[r] EXCEPT !.held = held, !.offset = offset] \in Ipc
      BY <1>3, <2>2 DEF Ipc
    <2>5. ipc'[r] = [ipc[r] EXCEPT !.held = held, !.offset = offset]
      BY <1>3, <2>3
    <2>6. ipc'[r].held = held /\ ipc'[r].request = ipc[r].request /\ ipc'[r].last = ipc[r].last
      BY <1>3, <2>5 DEF Ipc
    <2> QED BY <1>3, <2>3, <2>4, <2>6 DEF held
  <1>6. TypeOK'
    BY <1>1, <1>4, <1>5 DEF IInv, TypeOK, senderVars, linkVars
  <1>7. Received(r) = UpTo(n) /\ Received(r)' = Append(Received(r), n + 1)
    <2> DEFINE got == worker[r].loaded \o (IF worker[r].busy THEN worker[r].copied ELSE <<>>)
    <2>1. got \in Seq(Int) /\ ipc[r].held \in Seq(Int)
      BY <1>3 DEF Worker, Ipc
    <2>2. Received(r) = got \o ipc[r].held /\ Received(r)' = got \o Append(ipc[r].held, n + 1)
      BY <1>1, <1>5 DEF Received
    <2> HIDE DEF got
    <2>3. n + 1 \in Int
      BY <1>2
    <2>4. \A m \in Int : got \o Append(ipc[r].held, m) = Append(got \o ipc[r].held, m)
      BY <2>1, AppendToSecond
    <2> QED BY <2>2, <2>3, <2>4 DEF IInv, WorkerInv
  <1>8. Received(r)' = UpTo(n + 1)
    BY <1>2, <1>7, UpToNext
  <1>9. /\ Before(bucket'[r].weights) + given'[r] = n + 1
        /\ bucket'[r] = bucket[r] /\ pc'[r] = pc[r] /\ worker'[r] = worker[r]
    <2>1. given[r] \in Nat /\ Before(bucket[r].weights) \in Int
      BY <1>3, EndType DEF IInv, TypeOK, Bucket
    <2> QED BY <1>1, <1>4, <2>1
  <1>10. WorkerInv(r)'
    <2>1. Received(r)' = UpTo(Before(bucket'[r].weights) + given'[r])
      BY <1>8, <1>9
    <2> QED BY <1>1, <1>5, <1>9, <2>1 DEF WorkerInv, IInv, Yielding
  <1>11. \A x \in Receivers \ {r} : WorkerInv(x)'
    BY <1>1, <1>4, <1>5, WorkerFrame DEF IInv
  <1>12. ReceiverInv(r)'
    BY <1>1, <1>2, <1>4 DEF IInv, ReceiverInv, Proper, Follows, Yielding
  <1>13. \A x \in Receivers \ {r} : ReceiverInv(x)'
    BY <1>1, <1>4, ReceiverFrame DEF IInv
  <1>14. SenderInv'
    BY <1>1, SenderFrame DEF IInv, senderVars
  <1>15. \A x \in Receivers : LinkInv(x)'
    BY <1>1, LinksFrame DEF senderVars
  <1> QED BY <1>6, <1>10, <1>11, <1>12, <1>13, <1>14, <1>15 DEF IInv

LEMMA PlaceKeeps ==
    ASSUME IInv, NEW r \in Receivers, ReceiverEnds(r) \/ UpdateReturns(r)
    PROVE  IInv'
  <1>1. UNCHANGED <<engine, sizes, buf, senderVars, recv, read, bucket, given, linkVars, ipc, worker>>
    BY DEF ReceiverEnds, UpdateReturns, workerVars
  <1>2. \/ /\ pc[r] = "drain" /\ given[r] = Len(bucket[r].weights)
           /\ pc' = [pc EXCEPT ![r] = "drained"]
        \/ /\ pc[r] = "drained" /\ ipc[r].request = "over" /\ ~worker[r].busy
           /\ pc' = [pc EXCEPT ![r] = "done"]
    BY DEF ReceiverEnds, UpdateReturns
  <1>3. pc \in [Receivers -> Places]
    BY DEF IInv, TypeOK
  <1>4. TypeOK'
    BY <1>1, <1>2, <1>3 DEF IInv, TypeOK, senderVars, linkVars, Places
  <1>5. \A x \in Receivers \ {r} : pc'[x] = pc[x]
    BY <1>2, <1>3
  <1>6. \A x \in Receivers \ {r} : WorkerInv(x)' /\ ReceiverInv(x)'
    BY <1>1, <1>5, WorkerFrame, ReceiverFrame DEF IInv
  <1>7. ReceiverInv(r)'
    BY <1>1, <1>2, <1>3 DEF IInv, ReceiverInv, Proper, Follows
  <1>8. WorkerInv(r)'
    BY <1>1, <1>2, <1>3 DEF IInv, WorkerInv, Received
  <1>9. SenderInv'
    BY <1>1, SenderFrame DEF IInv, senderVars
  <1>10. \A x \in Receivers : LinkInv(x)'
    BY <1>1, LinksFrame DEF senderVars
  <1> QED BY <1>4, <1>6, <1>7, <1>8, <1>9, <1>10 DEF IInv

-----------------------------------------------------------------------------
(* The sender                                                              *)

LEMMA RankFacts ==
    /\ 0 \in Ranks /\ 0 \notin Receivers /\ 1 \in Receivers /\ Receivers \subseteq Ranks
    /\ \A r \in Receivers : r \in Nat /\ r # 0 /\ r - 1 \in Ranks
                            /\ (r # 1 => r - 1 \in Receivers)
                            /\ (r < Rollouts => r + 1 \in Receivers)
    /\ \A b \in Buffers : 1 - b \in Buffers /\ b # 1 - b /\ 1 - (1 - b) = b
    /\ \A b, c \in Buffers : c = b \/ c = 1 - b
  BY TransferAssumption DEF TransferAssumption, Ranks, Receivers, Buffers

LEMMA WriteBuffer ==
    ASSUME TypeOK, NEW q \in Ranks, NEW b \in Buffers, NEW w \in Weights,
           buf' = [buf EXCEPT ![q][b] = w]
    PROVE  /\ buf' \in [Ranks -> [Buffers -> Weights]]
           /\ buf'[q][b] = w /\ buf'[q][1 - b] = buf[q][1 - b]
           /\ \A x \in Ranks \ {q} : buf'[x] = buf[x]
  BY RankFacts DEF TypeOK

\* What the sender holds when it fills a buffer
LEMMA FillingFacts ==
    ASSUME IInv, sender.pc = "fill"
    PROVE  /\ sender.weights \in Weights /\ Consecutive(sender.weights)
           /\ Before(sender.weights) \in Nat
           /\ sender.next \in Nat \ {0} /\ sender.buffer \in Buffers
           /\ sender.key \in Nat \ {0} /\ sender.offset \in Int
           /\ Filling /\ sending \in Bucket
           /\ End(sending.weights) \in Nat /\ Len(sizes) \in Nat
           /\ \A i \in 1..Len(sizes) : sizes[i] \in 1..BucketSize
  <1>1. /\ sender \in Sender /\ sending \in Bucket /\ sizes \in Seq(1..BucketSize) /\ Filling
    BY DEF IInv, TypeOK, SenderInv
  <1>2. /\ sender.weights \in Weights /\ sending.weights \in Weights
        /\ sender.next \in Nat \ {0} /\ sender.buffer \in Buffers
        /\ sender.key \in Nat \ {0} /\ sender.offset \in Int
    BY <1>1 DEF Sender, Bucket
  <1>3. Consecutive(sender.weights)
    BY <1>1 DEF Filling
  <1>4. Before(sender.weights) \in Nat /\ End(sending.weights) \in Nat
    BY <1>2, <1>3, EndType, BeforeType
  <1>5. Len(sizes) \in Nat /\ \A i \in 1..Len(sizes) : sizes[i] \in 1..BucketSize
    BY <1>1, LenProperties, ElementOfSeq
  <1> QED BY <1>1, <1>2, <1>3, <1>4, <1>5

LEMMA FillKeeps ==
    ASSUME IInv, Fill
    PROVE  IInv'
  <1> DEFINE w == Append(sender.weights, sender.next)
             offset == sender.offset + sizes[sender.next]
             next == sender.next + 1
  <1>1. /\ UNCHANGED <<engine, sizes, sending, receiverVars, linkVars, workerVars>>
        /\ sender.pc = "fill" /\ sender.next <= Len(sizes)
        /\ buf' = [buf EXCEPT ![0][sender.buffer] = w]
        /\ sender' = [sender EXCEPT !.weights = w, !.next = next, !.offset = offset]
    BY DEF Fill
  <1>2. /\ sender.weights \in Weights /\ Consecutive(sender.weights)
        /\ sender.next \in Nat \ {0} /\ sender.buffer \in Buffers
        /\ Filling /\ sender.offset \in Int /\ Len(sizes) \in Nat
        /\ \A i \in 1..Len(sizes) : sizes[i] \in 1..BucketSize
    BY <1>1, FillingFacts
  <1>3. sender.weights # <<>> => End(sender.weights) = sender.next - 1
    BY <1>2 DEF Filling
  <1>4. /\ w \in Weights /\ w # <<>> /\ Len(w) = Len(sender.weights) + 1
        /\ Consecutive(w) /\ End(w) = sender.next
    BY <1>2, <1>3, ConsecutiveAppend
  <1>5. next \in Nat \ {0} /\ offset \in Int
    BY <1>1, <1>2
  <1> HIDE DEF w, offset
  <1>6. sender \in Sender
    BY DEF IInv, TypeOK
  <1>7. /\ sender' \in Sender
        /\ sender'.pc = "fill" /\ sender'.buffer = sender.buffer /\ sender'.next = next
        /\ sender'.weights = w /\ sender'.key = sender.key
    BY <1>1, <1>4, <1>5, <1>6 DEF Sender
  <1>8. /\ buf' \in [Ranks -> [Buffers -> Weights]]
        /\ buf'[0][sender.buffer] = w /\ buf'[0][1 - sender.buffer] = buf[0][1 - sender.buffer]
        /\ \A x \in Ranks \ {0} : buf'[x] = buf[x]
    BY <1>1, <1>2, <1>4, WriteBuffer, RankFacts DEF IInv
  <1>9. TypeOK'
    BY <1>1, <1>7, <1>8 DEF IInv, TypeOK, receiverVars, linkVars, workerVars
  <1>10. Filling'
    <2>1. Len(sender.weights) \in Nat /\ End(sending.weights) \in Nat
      BY <1>1, <1>2, FillingFacts, EndType
    <2>2. sender'.next = End(sending.weights) + Len(w) + 1
      BY <1>2, <1>4, <1>7, <2>1 DEF Filling
    <2>3. sender'.next <= Len(sizes) + 1
      BY <1>1, <1>2, <1>7
    <2>4. End(w) = sender'.next - 1
      BY <1>2, <1>4, <1>7
    <2>5. /\ sender'.key = sending'.key + 1 /\ ~sending'.last
          /\ sending'.key # 0 => sending'.source = 1 - sender'.buffer
      BY <1>1, <1>2, <1>7 DEF Filling
    <2> QED BY <1>1, <1>4, <1>7, <1>8, <2>2, <2>3, <2>4, <2>5 DEF Filling
  <1>11. SenderInv'
    BY <1>1, <1>2, <1>7, <1>8, <1>10 DEF SenderInv, Filling, Proper, IInv
  <1>12. \A x \in Receivers : ReceiverInv(x)' /\ WorkerInv(x)'
    BY <1>1, <1>8, ReceiverFrame, WorkerFrame, RankFacts DEF IInv, receiverVars, workerVars
  <1>13. \A x \in Receivers : LinkInv(x)'
    BY <1>1, LinksFrame DEF receiverVars
  <1> QED BY <1>9, <1>11, <1>12, <1>13 DEF IInv

\* The bucket that the sender offers is the one after the bucket before it,
\* and every link from rank 0 is free for it.
LEMMA OfferKeeps ==
    ASSUME IInv, NEW last \in BOOLEAN, sender.pc = "fill", Sent, Offer(last),
           IF last THEN sender.next > Len(sizes) ELSE sender.weights # <<>>,
           UNCHANGED <<engine, sizes, recv, read, bucket>>
    PROVE  /\ sending' = [weights |-> sender.weights, last |-> last, key |-> sender.key,
                          source |-> sender.buffer]
           /\ sending' \in Bucket
           /\ Proper(sending') /\ buf[0][sender.buffer] = sender.weights
           /\ mail' \in [Receivers -> Seq(Bucket)] /\ notes' \in [Ranks -> Seq(Nat)]
           /\ \A r \in Receivers : LinkInv(r)'
  <1> DEFINE b == [weights |-> sender.weights, last |-> last, key |-> sender.key,
                   source |-> sender.buffer]
  <1>1. /\ sending' = b
        /\ notes' = [notes EXCEPT ![0] = IF sending.key = 0 THEN @ ELSE Tail(@)]
        /\ mail' = [r \in Receivers |-> IF engine = "nccl" \/ r = 1 THEN Append(mail[r], b)
                                                                    ELSE mail[r]]
    BY DEF Offer
  <1>2. /\ sender.weights \in Weights /\ Consecutive(sender.weights)
        /\ sender.next \in Nat \ {0} /\ sender.buffer \in Buffers /\ sender.key \in Nat \ {0}
        /\ Filling /\ sending \in Bucket
        /\ End(sending.weights) \in Nat /\ Len(sizes) \in Nat
    BY FillingFacts
  <1>3. b \in Bucket /\ b.weights = sender.weights /\ b.key = sender.key
        /\ b.source = sender.buffer /\ b.last = last
    BY <1>2 DEF Bucket
  <1> HIDE DEF b
  <1>4. /\ Before(sender.weights) = End(sending.weights) /\ End(sender.weights) = sender.next - 1
        /\ buf[0][sender.buffer] = sender.weights
    <2>1. CASE sender.weights = <<>>
      <3>1. End(sender.weights) = 0 /\ Before(sender.weights) = 0 /\ Len(sender.weights) = 0
        BY <1>2, <2>1, EndEmpty
      <3>2. sender.next > Len(sizes)
        BY <2>1
      <3> QED BY <1>2, <2>1, <3>1, <3>2 DEF Filling
    <2>2. CASE sender.weights # <<>>
      <3>1. /\ End(sender.weights) = Before(sender.weights) + Len(sender.weights)
            /\ Before(sender.weights) \in Int /\ Len(sender.weights) \in Nat
        BY <1>2, EndType
      <3>2. /\ End(sender.weights) = sender.next - 1
            /\ sender.next = End(sending.weights) + Len(sender.weights) + 1
            /\ buf[0][sender.buffer] = sender.weights
        BY <1>2, <2>2 DEF Filling
      <3> QED BY <1>2, <3>1, <3>2
    <2> QED BY <2>1, <2>2
  <1>5. Proper(b)
    <2>1. End(sender.weights) <= Len(sizes)
      BY <1>2, <1>4 DEF Filling
    <2>2. last => End(sender.weights) = Len(sizes)
      BY <1>2, <1>4, <2>1
    <2> QED BY <1>2, <1>3, <2>1, <2>2 DEF Proper
  <1>6. /\ mail \in [Receivers -> Seq(Bucket)] /\ notes \in [Ranks -> Seq(Nat)]
        /\ sending.key \in Nat
    BY <1>2 DEF IInv, TypeOK, Bucket
  <1>7. mail' \in [Receivers -> Seq(Bucket)]
    <2> SUFFICES ASSUME NEW r \in Receivers PROVE Append(mail[r], b) \in Seq(Bucket)
      BY <1>1, <1>6
    <2> QED BY <1>3, <1>6
  <1>8. notes' \in [Ranks -> Seq(Nat)]
    <2>1. sending.key # 0 => notes[0] # <<>> /\ Tail(notes[0]) \in Seq(Nat)
      BY <1>6, RankFacts DEF Sent
    <2> QED BY <1>1, <1>6, <2>1, RankFacts
  <1>9. \A r \in Receivers : LinkInv(r)'
    <2> SUFFICES ASSUME NEW r \in Receivers PROVE LinkInv(r)'
      OBVIOUS
    <2>0. LinkInv(r) /\ r \in Nat /\ engine \in {"nccl", "nixl"}
      BY RankFacts DEF IInv, TypeOK
    <2>1. CASE engine = "nccl" \/ r = 1
      <3>1. Upstream(r) = 0 /\ Upstream(r)' = 0
        BY <2>0, <2>1 DEF Upstream
      <3>2. Current(0) = sending /\ Current(0)' = b /\ Source(0)' = b.source
        BY <1>1 DEF Current, Source
      <3>3. Taken(r)
        BY <2>0, <3>1, <3>2 DEF LinkInv, Offered, Sent
      <3>4. /\ notes[0] = IF sending.key = 0 THEN <<>> ELSE <<sending.key>>
            /\ Same(Reached(r), sending) /\ mail[r] = <<>>
            /\ engine = "nixl" => read[r].state # "active"
        BY <3>1, <3>2, <3>3 DEF Taken
      <3>5. notes'[0] = <<>>
        BY <1>1, <1>6, <3>4, RankFacts
      <3>6. mail'[r] = Append(<<>>, b)
        BY <1>1, <2>1, <3>4
      <3>7. Reached(r)' = Reached(r)
        BY DEF Reached
      <3>8. Follows(Reached(r), b)
        BY <1>2, <1>3, <1>4, <3>4 DEF Follows, Same, Filling
      <3>9. Follows(Reached(r)', Current(0)')
        BY <3>2, <3>7, <3>8
      <3>10. Follows(Reached(r), Current(0))'
        BY <3>9 DEF Follows
      <3>12. Head(mail'[r]) = b /\ Len(mail'[r]) = 1
        BY <3>6
      <3>13. Announces(Head(mail[r]), 0)'
        BY <1>1, <3>2, <3>12 DEF Announces, Same
      <3>14. Current(0)'.key # 0 /\ read'[r] = read[r] /\ engine' = engine
        BY <1>2, <1>3, <3>2
      <3> QED BY <3>1, <3>4, <3>5, <3>10, <3>12, <3>13, <3>14 DEF LinkInv, Offered
    <2>2. CASE ~(engine = "nccl" \/ r = 1)
      <3>1. PICK q : q = Upstream(r)
        OBVIOUS
      <3>2. q # 0 /\ q \in Ranks
        BY <2>0, <2>2, <3>1, RankFacts DEF Upstream
      <3>3. notes'[q] = notes[q] /\ mail'[r] = mail[r]
        BY <1>1, <1>6, <2>2, <3>2
      <3>4. Current(q)' = Current(q) /\ Source(q)' = Source(q)
        BY <3>2 DEF Current, Source
      <3> QED BY <2>0, <3>1, <3>3, <3>4, LinkFrame
    <2> QED BY <2>1, <2>2
  <1> QED BY <1>1, <1>3, <1>4, <1>5, <1>7, <1>8, <1>9 DEF b

LEMMA SendBucketKeeps ==
    ASSUME IInv, SendBucket
    PROVE  IInv'
  <1>1. /\ UNCHANGED <<engine, sizes, buf, receiverVars, workerVars>>
        /\ sender.pc = "fill" /\ sender.next <= Len(sizes) /\ ~Fits
        /\ Sent /\ Offer(FALSE)
        /\ sender' = [sender EXCEPT !.buffer = 1 - @, !.weights = <<>>, !.offset = 0, !.key = @ + 1]
    BY DEF SendBucket
  <1>2. /\ sender.weights \in Weights /\ sender.next \in Nat \ {0} /\ sender.buffer \in Buffers
        /\ sender.key \in Nat \ {0} /\ Filling /\ Len(sizes) \in Nat
        /\ \A i \in 1..Len(sizes) : sizes[i] \in 1..BucketSize
    BY <1>1, FillingFacts
  <1>3. sender.weights # <<>>
    <2> SUFFICES ASSUME sender.weights = <<>> PROVE FALSE
      OBVIOUS
    <2>1. sender.offset = 0 /\ sizes[sender.next] \in 1..BucketSize
      BY <1>1, <1>2 DEF Filling
    <2> QED BY <1>1, <2>1, TransferAssumption DEF Fits, TransferAssumption
  <1>4. /\ sending' = [weights |-> sender.weights, last |-> FALSE, key |-> sender.key,
                       source |-> sender.buffer]
        /\ sending' \in Bucket
        /\ Proper(sending') /\ buf[0][sender.buffer] = sender.weights
        /\ mail' \in [Receivers -> Seq(Bucket)] /\ notes' \in [Ranks -> Seq(Nat)]
        /\ \A r \in Receivers : LinkInv(r)'
    BY <1>1, <1>3, OfferKeeps DEF receiverVars
  <1>5. /\ sender' \in Sender
        /\ sender'.pc = "fill" /\ sender'.buffer = 1 - sender.buffer
        /\ sender'.weights = <<>> /\ sender'.offset = 0
        /\ sender'.key = sender.key + 1 /\ sender'.next = sender.next
    <2>1. <<>> \in Weights /\ 1 - sender.buffer \in Buffers /\ sender.key + 1 \in Nat \ {0}
      BY <1>2, RankFacts DEF Weights
    <2>2. sender \in Sender
      BY DEF IInv, TypeOK
    <2> DEFINE other == 1 - sender.buffer
               key == sender.key + 1
               none == <<>>
    <2>3. /\ sender' = [sender EXCEPT !.buffer = other, !.weights = none, !.offset = 0,
                                      !.key = key]
          /\ none \in Weights /\ other \in Buffers /\ key \in Nat \ {0}
      BY <1>1, <2>1
    <2> HIDE DEF other, key, none
    <2>4. sender' \in Sender
      <3>1. sender' = [pc |-> sender.pc, buffer |-> other, next |-> sender.next,
                       weights |-> none, offset |-> 0, key |-> key]
        BY <2>2, <2>3 DEF Sender
      <3>2. sender.pc \in {"fill", "last", "done"} /\ sender.next \in Nat \ {0}
        BY <2>2 DEF Sender
      <3> QED BY <2>3, <3>1, <3>2 DEF Sender
    <2>5. /\ sender'.pc = sender.pc /\ sender'.buffer = other /\ sender'.weights = none
          /\ sender'.offset = 0 /\ sender'.key = key /\ sender'.next = sender.next
      BY <2>2, <2>3 DEF Sender
    <2> QED BY <1>1, <2>4, <2>5 DEF other, key, none
  <1>6. TypeOK'
    BY <1>1, <1>4, <1>5 DEF IInv, TypeOK, receiverVars, workerVars
  <1>7. Filling'
    <2>1. sender.next = End(sender.weights) + 0 + 1
      BY <1>2, <1>3, EndType DEF Filling
    <2>2. Len(<<>>) = 0
      BY EmptySeq
    <2>3. sender.buffer = 1 - (1 - sender.buffer)
      BY <1>2, RankFacts
    <2>4. Consecutive(<<>>)
      BY <2>2 DEF Consecutive
    <2> QED BY <1>1, <1>2, <1>4, <1>5, <2>1, <2>2, <2>3, <2>4 DEF Filling
  <1>8. SenderInv'
    BY <1>1, <1>4, <1>5, <1>7 DEF SenderInv, Proper
  <1>9. \A x \in Receivers : ReceiverInv(x)' /\ WorkerInv(x)'
    BY <1>1, ReceiverFrame, WorkerFrame DEF IInv, receiverVars, workerVars
  <1> QED BY <1>4, <1>6, <1>8, <1>9 DEF IInv

LEMMA SendLastBucketKeeps ==
    ASSUME IInv, SendLastBucket
    PROVE  IInv'
  <1>1. /\ UNCHANGED <<engine, sizes, buf, receiverVars, workerVars>>
        /\ sender.pc = "fill" /\ sender.next > Len(sizes)
        /\ Sent /\ Offer(TRUE)
        /\ sender' = [sender EXCEPT !.pc = "last"]
    BY DEF SendLastBucket
  <1>2. sender.key \in Nat \ {0} /\ sender \in Sender
    BY <1>1, FillingFacts DEF IInv, TypeOK
  <1>3. /\ sending' = [weights |-> sender.weights, last |-> TRUE, key |-> sender.key,
                       source |-> sender.buffer]
        /\ sending' \in Bucket
        /\ Proper(sending') /\ buf[0][sender.buffer] = sender.weights
        /\ mail' \in [Receivers -> Seq(Bucket)] /\ notes' \in [Ranks -> Seq(Nat)]
        /\ \A r \in Receivers : LinkInv(r)'
    BY <1>1, OfferKeeps DEF receiverVars
  <1>4. sender' \in Sender /\ sender'.pc = "last"
    BY <1>1, <1>2 DEF Sender
  <1>5. TypeOK'
    BY <1>1, <1>3, <1>4 DEF IInv, TypeOK, receiverVars, workerVars
  <1>6. SenderInv'
    BY <1>1, <1>2, <1>3, <1>4 DEF SenderInv, Proper
  <1>7. \A x \in Receivers : ReceiverInv(x)' /\ WorkerInv(x)'
    BY <1>1, ReceiverFrame, WorkerFrame DEF IInv, receiverVars, workerVars
  <1> QED BY <1>3, <1>5, <1>6, <1>7 DEF IInv

LEMMA SenderReturnsKeeps ==
    ASSUME IInv, SenderReturns
    PROVE  IInv'
  <1>1. /\ UNCHANGED <<engine, sizes, buf, sending, receiverVars, linkVars, workerVars>>
        /\ sender.pc = "last" /\ sender' = [sender EXCEPT !.pc = "done"]
    BY DEF SenderReturns
  <1>2. sender \in Sender
    BY DEF IInv, TypeOK
  <1>3. sender' \in Sender /\ sender'.pc = "done"
    BY <1>1, <1>2 DEF Sender
  <1>4. TypeOK'
    BY <1>1, <1>3 DEF IInv, TypeOK, receiverVars, linkVars, workerVars
  <1>5. SenderInv'
    BY <1>1, <1>3 DEF IInv, SenderInv, Proper
  <1>6. \A x \in Receivers : ReceiverInv(x)' /\ WorkerInv(x)'
    BY <1>1, ReceiverFrame, WorkerFrame DEF IInv, receiverVars, workerVars
  <1>7. \A x \in Receivers : LinkInv(x)'
    BY <1>1, LinksFrame DEF receiverVars
  <1> QED BY <1>4, <1>5, <1>6, <1>7 DEF IInv

-----------------------------------------------------------------------------
(* A bucket on its way                                                     *)

\* What is offered is in the buffer it is said to be in.
LEMMA CurrentHeld ==
    ASSUME IInv, NEW q \in Ranks, q # 0 \/ Current(q).key # 0
    PROVE  /\ Current(q) \in Bucket /\ Source(q) \in Buffers
           /\ Proper(Current(q)) /\ buf[q][Source(q)] = Current(q).weights
  <1>1. CASE q = 0
    BY <1>1 DEF IInv, TypeOK, SenderInv, Bucket, Current, Source
  <1>2. CASE q # 0
    <2>1. q \in Receivers
      BY <1>2 DEF Ranks, Receivers
    <2> QED BY <1>2, <2>1, RankFacts DEF IInv, TypeOK, ReceiverInv, Current, Source
  <1> QED BY <1>1, <1>2

LEMMA TailOfOne ==
    ASSUME NEW S, NEW s \in Seq(S), Len(s) = 1
    PROVE  s # <<>> /\ Tail(s) = <<>> /\ Head(s) \in S
  <1>1. s # <<>>
    BY EmptySeq
  <1>2. Tail(s) \in Seq(S) /\ Len(Tail(s)) = 0 /\ Head(s) \in S
    BY <1>1, HeadTailProperties
  <1> QED BY <1>1, <1>2, EmptySeq

LEMMA UpstreamRank ==
    ASSUME IInv, NEW r \in Receivers
    PROVE  Upstream(r) \in Ranks
  BY RankFacts DEF Upstream

LEMMA StartReadKeeps ==
    ASSUME IInv, NEW r \in Receivers, StartRead(r)
    PROVE  IInv'
  <1>1. /\ UNCHANGED <<engine, sizes, buf, senderVars, recv, bucket, given, notes, workerVars>>
        /\ pc[r] \in {"first", "next"}
        /\ pc' = [pc EXCEPT ![r] = IF @ = "first" THEN "wait" ELSE "yield"]
    BY DEF StartRead
  <1>2. /\ pc \in [Receivers -> Places] /\ read \in [Receivers -> Read]
        /\ mail \in [Receivers -> Seq(Bucket)] /\ engine \in {"nccl", "nixl"}
        /\ ReceiverInv(r) /\ LinkInv(r)
    BY DEF IInv, TypeOK
  <1>3. read[r].state = "none"
    BY <1>1, <1>2 DEF ReceiverInv
  <1>4. /\ pc' \in [Receivers -> Places] /\ pc'[r] = IF pc[r] = "first" THEN "wait" ELSE "yield"
        /\ \A x \in Receivers \ {r} : pc'[x] = pc[x]
    BY <1>1, <1>2 DEF Places
  <1>5. PICK b \in Bucket : read' = [read EXCEPT ![r] = [state |-> "active", bucket |-> b]]
                            /\ \/ engine = "nccl" /\ mail' = mail
                               \/ /\ engine = "nixl" /\ mail[r] # <<>> /\ b = Head(mail[r])
                                  /\ mail' = [mail EXCEPT ![r] = Tail(@)]
    <2>1. NoBucket \in Bucket
      BY EmptySeq DEF NoBucket, Bucket, Weights, Buffers
    <2>2. mail[r] # <<>> => Head(mail[r]) \in Bucket
      BY <1>2
    <2> QED BY <2>1, <2>2 DEF StartRead
  <1>6. /\ read' \in [Receivers -> Read]
        /\ read'[r] = [state |-> "active", bucket |-> b]
        /\ \A x \in Receivers \ {r} : read'[x] = read[x]
    <2>1. [state |-> "active", bucket |-> b] \in Read
      BY DEF Read
    <2> QED BY <1>2, <1>5, <2>1
  <1>7. /\ mail' \in [Receivers -> Seq(Bucket)]
        /\ \A x \in Receivers \ {r} : mail'[x] = mail[x]
    <2>1. mail[r] # <<>> => Tail(mail[r]) \in Seq(Bucket)
      BY <1>2
    <2> QED BY <1>2, <1>5, <2>1
  <1>8. TypeOK'
    BY <1>1, <1>4, <1>6, <1>7 DEF IInv, TypeOK, senderVars, workerVars
  <1>9. SenderInv'
    BY <1>1, SenderFrame DEF IInv, senderVars
  <1>10. ReceiverInv(r)'
    BY <1>1, <1>2, <1>4, <1>6 DEF ReceiverInv, Proper
  <1>11. WorkerInv(r)'
    BY <1>1, <1>4 DEF IInv, WorkerInv, Received, workerVars
  <1>12. \A x \in Receivers \ {r} : ReceiverInv(x)' /\ WorkerInv(x)'
    BY <1>1, <1>4, <1>6, ReceiverFrame, WorkerFrame DEF IInv, workerVars
  <1>13. \A x : Current(x)' = Current(x) /\ Source(x)' = Source(x)
    BY <1>1 DEF Current, Source, senderVars
  <1>14. \A x \in Receivers \ {r} : LinkInv(x)'
    <2> SUFFICES ASSUME NEW x \in Receivers \ {r} PROVE LinkInv(x)'
      OBVIOUS
    <2>1. PICK q : q = Upstream(x)
      OBVIOUS
    <2> QED BY <1>1, <1>6, <1>7, <1>13, <2>1, LinkFrame DEF IInv
  <1>15. LinkInv(r)'
    <2>1. PICK q : q = Upstream(r)
      OBVIOUS
    <2>2. Upstream(r)' = q /\ Reached(r)' = Reached(r) /\ notes'[q] = notes[q]
      BY <1>1, <1>3, <1>6, <2>1 DEF Upstream, Reached
    <2>3. CASE engine = "nccl"
      <3>1. mail' = mail /\ engine' = engine
        BY <1>1, <1>5, <2>3
      <3>2. \A m : Announces(m, q)' <=> Announces(m, q)
        BY <1>13 DEF Announces, Same
      <3> QED BY <1>2, <1>13, <2>1, <2>2, <2>3, <3>1, <3>2
              DEF LinkInv, Offered, Taken, Follows, Same
    <2>4. CASE engine = "nixl"
      <3>1. Offered(r) /\ Len(mail[r]) = 1 /\ Announces(Head(mail[r]), q)
        BY <1>2, <1>3, <1>5, <2>1, <2>4 DEF LinkInv, Offered, Taken
      <3>2. mail'[r] = Tail(mail[r]) /\ b = Head(mail[r]) /\ engine' = engine
        BY <1>1, <1>2, <1>5, <2>4
      <3>3. mail'[r] = <<>>
        BY <1>2, <3>1, <3>2, TailOfOne
      <3>4. read'[r].state = "active" /\ read'[r].bucket = b
        BY <1>6
      <3>5. Announces(read[r].bucket, q)'
        BY <1>13, <3>1, <3>2, <3>4 DEF Announces, Same
      <3> QED BY <1>13, <2>1, <2>2, <2>4, <3>1, <3>2, <3>3, <3>4, <3>5
              DEF LinkInv, Offered, Follows, Same
    <2> QED BY <1>2, <2>3, <2>4
  <1> QED BY <1>8, <1>9, <1>10, <1>11, <1>12, <1>14, <1>15 DEF IInv

LEMMA TransferKeeps ==
    ASSUME IInv, NEW r \in Receivers, Transfer(r)
    PROVE  IInv'
  <1> DEFINE q == r - 1
             w == buf[q][read[r].bucket.source]
  <1>1. /\ engine = "nixl" /\ read[r].state = "active"
        /\ buf' = [buf EXCEPT ![r][recv[r]] = w]
        /\ read' = [read EXCEPT ![r].state = "done"]
        /\ notes' = [notes EXCEPT ![q] = Append(@, read[r].bucket.key)]
        /\ UNCHANGED <<engine, sizes, senderVars, pc, recv, bucket, given, mail, workerVars>>
    BY DEF Transfer
  <1>2. Upstream(r) = q /\ Upstream(r)' = q
    BY <1>1 DEF Upstream
  <1>3. q \in Ranks /\ r \in Ranks /\ r # 0 /\ q # r
    BY RankFacts
  <1>4. /\ TypeOK /\ ReceiverInv(r) /\ WorkerInv(r) /\ LinkInv(r)
        /\ read \in [Receivers -> Read] /\ notes \in [Ranks -> Seq(Nat)]
        /\ recv[r] \in Buffers /\ read[r].bucket \in Bucket /\ read[r].bucket.key \in Nat
        /\ bucket[r] \in Bucket
    BY DEF IInv, TypeOK, Read, Bucket
  <1> HIDE DEF q
  <1>5. /\ Current(q).key # 0 /\ notes[q] = <<>> /\ mail[r] = <<>>
        /\ Follows(bucket[r], Current(q)) /\ Announces(read[r].bucket, q)
    <2>1. Offered(r)
      BY <1>1, <1>4 DEF LinkInv, Taken
    <2>2. Reached(r) = bucket[r]
      BY <1>1 DEF Reached
    <2> QED BY <1>1, <1>2, <2>1, <2>2 DEF Offered
  <1>6. /\ Current(q) \in Bucket /\ Proper(Current(q)) /\ w = Current(q).weights
        /\ w = read[r].bucket.weights /\ w \in Weights
    BY <1>3, <1>5, CurrentHeld DEF Announces, Same, Bucket
  <1> HIDE DEF w
  <1>7. /\ buf' \in [Ranks -> [Buffers -> Weights]]
        /\ buf'[r][recv[r]] = w /\ buf'[r][1 - recv[r]] = buf[r][1 - recv[r]]
        /\ \A x \in Ranks \ {r} : buf'[x] = buf[x]
    BY <1>1, <1>3, <1>4, <1>6, WriteBuffer
  <1>8. /\ read' \in [Receivers -> Read]
        /\ read'[r].state = "done" /\ read'[r].bucket = read[r].bucket
        /\ \A x \in Receivers \ {r} : read'[x] = read[x]
    BY <1>1, <1>4 DEF Read
  <1>9. /\ notes' \in [Ranks -> Seq(Nat)]
        /\ notes'[q] = <<Current(q).key>>
        /\ \A x \in Ranks \ {q} : notes'[x] = notes[x]
    <2> DEFINE k == read[r].bucket.key
    <2>1. k = Current(q).key /\ k \in Nat
      BY <1>4, <1>5 DEF Announces, Same
    <2> HIDE DEF k
    <2>2. notes' = [notes EXCEPT ![q] = Append(<<>>, k)]
      BY <1>1, <1>3, <1>4, <1>5 DEF k
    <2>3. Append(<<>>, k) \in Seq(Nat) /\ Append(<<>>, k) = <<k>>
      BY <2>1
    <2> QED BY <1>3, <1>4, <2>1, <2>2, <2>3
  <1>10. TypeOK'
    BY <1>1, <1>7, <1>8, <1>9 DEF IInv, TypeOK, senderVars, workerVars
  <1>11. SenderInv'
    BY <1>1, <1>3, <1>7, RankFacts, SenderFrame DEF IInv, senderVars
  <1>12. ReceiverInv(r)'
    <2>1. Proper(read[r].bucket) /\ Follows(bucket[r], read[r].bucket)
      BY <1>5, <1>6 DEF Announces, Same, Proper, Follows
    <2> QED BY <1>1, <1>4, <1>6, <1>7, <1>8, <2>1 DEF ReceiverInv, Proper, Follows
  <1>13. WorkerInv(r)'
    BY <1>1, <1>4, WorkerFrame DEF workerVars
  <1>14. \A x \in Receivers \ {r} : ReceiverInv(x)' /\ WorkerInv(x)'
    BY <1>1, <1>7, <1>8, ReceiverFrame, WorkerFrame, RankFacts DEF IInv, workerVars
  <1>15. \A x : Current(x)' = Current(x) /\ Source(x)' = Source(x)
    BY <1>1 DEF Current, Source, senderVars
  <1>16. LinkInv(r)'
    <2>1. Reached(r)' = read[r].bucket
      BY <1>8 DEF Reached
    <2>2. Same(read[r].bucket, Current(q))
      BY <1>5 DEF Announces
    <2>3. /\ notes'[q] = <<Current(q)'.key>> /\ Current(q)'.key # 0 /\ mail'[r] = <<>>
          /\ Same(Reached(r), Current(q))'
      BY <1>1, <1>5, <1>9, <1>15, <2>1, <2>2 DEF Same
    <2> QED BY <1>2, <1>8, <2>3 DEF LinkInv, Taken
  <1>17. \A x \in Receivers \ {r} : LinkInv(x)'
    <2> SUFFICES ASSUME NEW x \in Receivers \ {r} PROVE LinkInv(x)'
      OBVIOUS
    <2>1. PICK u : u = Upstream(x)
      OBVIOUS
    <2>2. u \in Ranks /\ u # q
      BY <1>1, <2>1, RankFacts DEF Upstream, q
    <2> QED BY <1>1, <1>8, <1>9, <1>15, <2>1, <2>2, LinkFrame DEF IInv
  <1> QED BY <1>10, <1>11, <1>12, <1>13, <1>14, <1>16, <1>17 DEF IInv

LEMMA BroadcastKeeps ==
    ASSUME IInv, Broadcast
    PROVE  IInv'
  <1> DEFINE b(r) == Head(mail[r])
  <1>1. /\ engine = "nccl"
        /\ \A r \in Receivers : read[r].state = "active" /\ mail[r] # <<>>
        /\ buf' = [r \in Ranks |-> IF r = 0 THEN buf[0]
                                   ELSE [buf[r] EXCEPT ![recv[r]] = buf[0][b(r).source]]]
        /\ read' = [r \in Receivers |-> [state |-> "done", bucket |-> b(r)]]
        /\ mail' = [r \in Receivers |-> Tail(mail[r])]
        /\ notes' = [notes EXCEPT ![0] = Append(@, sending.key)]
        /\ UNCHANGED <<engine, sizes, senderVars, pc, recv, bucket, given, workerVars>>
    BY DEF Broadcast
  <1>2. /\ \A r : Upstream(r) = 0 /\ Upstream(r)' = 0
        /\ Current(0) = sending /\ Source(0) = sending.source
        /\ Current(0)' = sending /\ Source(0)' = sending.source
    BY <1>1 DEF Upstream, Current, Source, senderVars
  <1>3. /\ buf \in [Ranks -> [Buffers -> Weights]] /\ recv \in [Receivers -> Buffers]
        /\ mail \in [Receivers -> Seq(Bucket)] /\ notes \in [Ranks -> Seq(Nat)]
        /\ sending \in Bucket /\ sending.key \in Nat
    BY DEF IInv, TypeOK, Bucket
  <1>4. ASSUME NEW r \in Receivers
        PROVE  /\ sending.key # 0 /\ notes[0] = <<>> /\ Follows(bucket[r], sending)
               /\ Len(mail[r]) = 1 /\ Same(b(r), sending) /\ b(r).source = sending.source
               /\ b(r) \in Bucket /\ Tail(mail[r]) = <<>>
    <2>1. LinkInv(r) /\ Reached(r) = bucket[r]
      BY <1>1 DEF IInv, Reached
    <2>2. Offered(r)
      BY <1>1, <2>1 DEF LinkInv, Taken
    <2>3. /\ sending.key # 0 /\ notes[0] = <<>> /\ Follows(bucket[r], sending)
          /\ Len(mail[r]) = 1 /\ Announces(b(r), 0)
      BY <1>1, <1>2, <2>1, <2>2 DEF Offered
    <2>4. b(r) \in Bucket /\ Tail(mail[r]) = <<>>
      BY <1>3, <2>3, TailOfOne
    <2> QED BY <1>2, <2>3, <2>4 DEF Announces
  <1>5. sending.key # 0 /\ notes[0] = <<>>
    BY <1>4, RankFacts
  <1>6. Proper(sending) /\ buf[0][sending.source] = sending.weights
    BY <1>5 DEF IInv, SenderInv
  <1> HIDE DEF b
  <1>7. ASSUME NEW r \in Receivers
        PROVE  /\ buf'[r] \in [Buffers -> Weights]
               /\ buf'[r][recv[r]] = b(r).weights
               /\ buf'[r][1 - recv[r]] = buf[r][1 - recv[r]]
    <2>1. buf'[r] = [buf[r] EXCEPT ![recv[r]] = buf[0][b(r).source]]
      BY <1>1, RankFacts
    <2>2. buf[0][b(r).source] = b(r).weights /\ b(r).weights \in Weights
      BY <1>4, <1>6 DEF Same, Bucket
    <2>3. buf[r] \in [Buffers -> Weights] /\ recv[r] \in Buffers
      BY <1>3, RankFacts
    <2> QED BY <2>1, <2>2, <2>3, RankFacts
  <1>8. buf'[0] = buf[0] /\ buf' \in [Ranks -> [Buffers -> Weights]]
    <2>1. buf'[0] = buf[0]
      BY <1>1, RankFacts
    <2>2. \A r \in Ranks : r = 0 \/ r \in Receivers
      BY DEF Ranks, Receivers
    <2>3. \A r \in Ranks : buf'[r] \in [Buffers -> Weights]
      BY <1>3, <1>7, <2>1, <2>2
    <2>4. buf' = [r \in Ranks |-> buf'[r]]
      BY <1>1
    <2> QED BY <2>1, <2>3, <2>4
  <1>9. /\ read' \in [Receivers -> Read]
        /\ \A r \in Receivers : read'[r].state = "done" /\ read'[r].bucket = b(r)
    <2>1. \A r \in Receivers : [state |-> "done", bucket |-> b(r)] \in Read
      BY <1>4 DEF Read
    <2> QED BY <1>1, <2>1
  <1>10. /\ mail' \in [Receivers -> Seq(Bucket)]
         /\ \A r \in Receivers : mail'[r] = <<>>
    <2>1. <<>> \in Seq(Bucket)
      OBVIOUS
    <2> QED BY <1>1, <1>4, <2>1
  <1>11. /\ notes' \in [Ranks -> Seq(Nat)]
         /\ notes'[0] = <<sending.key>>
    <2>1. notes' = [notes EXCEPT ![0] = Append(<<>>, sending.key)]
      BY <1>1, <1>3, <1>5, RankFacts
    <2>2. Append(<<>>, sending.key) \in Seq(Nat) /\ Append(<<>>, sending.key) = <<sending.key>>
      BY <1>3
    <2> QED BY <1>3, <2>1, <2>2, RankFacts
  <1>12. TypeOK'
    BY <1>1, <1>8, <1>9, <1>10, <1>11 DEF IInv, TypeOK, senderVars, workerVars
  <1>13. SenderInv'
    BY <1>1, <1>8, SenderFrame DEF IInv, senderVars
  <1>14. \A r \in Receivers : WorkerInv(r)'
    BY <1>1, WorkerFrame DEF IInv, workerVars
  <1>15. \A r \in Receivers : ReceiverInv(r)'
    <2> SUFFICES ASSUME NEW r \in Receivers PROVE ReceiverInv(r)'
      OBVIOUS
    <2>1. Proper(b(r)) /\ Follows(bucket[r], b(r))
      BY <1>4, <1>6 DEF Same, Proper, Follows
    <2>2. ReceiverInv(r)
      BY DEF IInv
    <2> QED BY <1>1, <1>7, <1>9, <2>1, <2>2 DEF ReceiverInv, Proper, Follows
  <1>16. \A r \in Receivers : LinkInv(r)'
    <2> SUFFICES ASSUME NEW r \in Receivers PROVE Taken(r)'
      BY DEF LinkInv
    <2>1. Reached(r)' = b(r)
      BY <1>9 DEF Reached
    <2>2. Same(Reached(r)', Current(0)')
      BY <1>2, <1>4, <2>1
    <2>3. Same(Reached(r), Current(0))'
      BY <2>2 DEF Same
    <2> QED BY <1>1, <1>2, <1>5, <1>10, <1>11, <2>3 DEF Taken
  <1> QED BY <1>12, <1>13, <1>14, <1>15, <1>16 DEF IInv

\* A rank that may swap its buffers has yielded all of its bucket, and the rank
\* that reads from it, if any, has read it.
LEMMA SwapReady ==
    ASSUME IInv, NEW r \in Receivers, Swap(r)
    PROVE  /\ given[r] = Len(bucket[r].weights) /\ given[r] \in Nat
           /\ engine = "nixl" /\ r < Rollouts =>
                  /\ Taken(r + 1) /\ Upstream(r + 1) = r
                  /\ (IF pc[r] = "yield" /\ notes[r] # <<>> THEN Tail(notes[r])
                                                            ELSE notes[r]) = <<>>
  <1>1. /\ \/ pc[r] = "wait"
           \/ pc[r] = "yield" /\ given[r] = Len(bucket[r].weights) /\ NextHasRead(r)
        /\ ReceiverInv(r) /\ given[r] \in Nat /\ bucket[r] \in Bucket
        /\ notes \in [Ranks -> Seq(Nat)]
    BY DEF Swap, IInv, TypeOK
  <1>2. bucket[r].weights \in Weights /\ bucket[r].key \in Nat
    BY <1>1 DEF Bucket
  <1>3. given[r] = Len(bucket[r].weights)
    <2>1. CASE pc[r] = "wait"
      <3>1. bucket[r].weights = <<>> /\ given[r] <= Len(bucket[r].weights)
        BY <1>1, <2>1 DEF ReceiverInv
      <3>2. Len(bucket[r].weights) = 0
        BY <1>2, <3>1, EndEmpty
      <3> QED BY <1>1, <3>1, <3>2
    <2> QED BY <1>1, <2>1
  <1>4. ASSUME engine = "nixl", r < Rollouts
        PROVE  /\ Taken(r + 1) /\ Upstream(r + 1) = r
               /\ (IF pc[r] = "yield" /\ notes[r] # <<>> THEN Tail(notes[r])
                                                         ELSE notes[r]) = <<>>
    <2> DEFINE n == r + 1
    <2>1. n \in Receivers /\ n - 1 = r /\ r # 0 /\ r \in Ranks
      BY <1>4, RankFacts
    <2>2. Upstream(n) = r /\ Current(r) = bucket[r]
      BY <1>4, <2>1 DEF Upstream, Current
    <2>3. LinkInv(n)
      BY <2>1 DEF IInv
    <2> HIDE DEF n
    <2>4. ~Offered(n)
      <3>1. CASE pc[r] = "wait"
        BY <1>1, <2>2, <3>1 DEF ReceiverInv, Offered
      <3>2. CASE pc[r] = "yield"
        BY <1>1, <1>4, <2>2, <3>2 DEF NextHasRead, Offered
      <3> QED BY <1>1, <3>1, <3>2
    <2>5. Taken(n)
      BY <2>3, <2>4 DEF LinkInv
    <2>6. notes[r] = IF bucket[r].key = 0 THEN <<>> ELSE <<bucket[r].key>>
      BY <2>2, <2>5 DEF Taken
    <2>7. (IF pc[r] = "yield" /\ notes[r] # <<>> THEN Tail(notes[r]) ELSE notes[r]) = <<>>
      <3>1. CASE pc[r] = "wait"
        BY <1>1, <2>6, <3>1 DEF ReceiverInv
      <3>2. CASE pc[r] = "yield"
        <4>1. notes[r] = <<bucket[r].key>> /\ Len(notes[r]) = 1
          BY <1>1, <2>6, <3>2 DEF ReceiverInv
        <4>2. notes[r] \in Seq(Nat)
          BY <1>1, <2>1
        <4>3. notes[r] # <<>> /\ Tail(notes[r]) = <<>>
          BY <4>1, <4>2, TailOfOne
        <4> QED BY <3>2, <4>3
      <3> QED BY <1>1, <3>1, <3>2
    <2> QED BY <2>2, <2>5, <2>7 DEF n
  <1> QED BY <1>1, <1>3, <1>4

LEMMA SwapKeeps ==
    ASSUME IInv, NEW r \in Receivers, Swap(r)
    PROVE  IInv'
  <1> DEFINE b == read[r].bucket
             m == [b EXCEPT !.source = recv[r]]
             chained == engine = "nixl" /\ r < Rollouts
  <1>1. /\ pc[r] \in {"wait", "yield"} /\ read[r].state = "done"
        /\ recv' = [recv EXCEPT ![r] = 1 - @]
        /\ bucket' = [bucket EXCEPT ![r] = b]
        /\ read' = [read EXCEPT ![r] = NoRead] /\ given' = [given EXCEPT ![r] = 0]
        /\ pc' = [pc EXCEPT ![r] = IF b.last THEN "drain" ELSE "next"]
        /\ IF chained
           THEN /\ mail' = [mail EXCEPT ![r + 1] = Append(@, m)]
                /\ notes' = [notes EXCEPT ![r] = IF pc[r] = "yield" /\ @ # <<>> THEN Tail(@) ELSE @]
           ELSE UNCHANGED <<mail, notes>>
        /\ UNCHANGED <<engine, sizes, buf, senderVars, workerVars>>
    BY DEF Swap
  <1>2. /\ pc \in [Receivers -> Places] /\ recv \in [Receivers -> Buffers]
        /\ read \in [Receivers -> Read] /\ bucket \in [Receivers -> Bucket]
        /\ given \in [Receivers -> Nat] /\ engine \in {"nccl", "nixl"}
        /\ mail \in [Receivers -> Seq(Bucket)] /\ notes \in [Ranks -> Seq(Nat)]
        /\ ReceiverInv(r) /\ WorkerInv(r) /\ LinkInv(r)
    BY DEF IInv, TypeOK
  <1>3. b \in Bucket /\ bucket[r] \in Bucket /\ recv[r] \in Buffers
    BY <1>2 DEF Read
  <1>4. m \in Bucket /\ Same(m, b) /\ m.source = recv[r]
    BY <1>3 DEF Bucket, Same
  <1>5. /\ Proper(b) /\ Follows(bucket[r], b) /\ buf[r][recv[r]] = b.weights
    BY <1>1, <1>2 DEF ReceiverInv
  <1> HIDE DEF b, m
  <1>6. /\ recv' \in [Receivers -> Buffers] /\ recv'[r] = 1 - recv[r] /\ 1 - recv'[r] = recv[r]
        /\ \A x \in Receivers \ {r} : recv'[x] = recv[x]
    BY <1>1, <1>2, <1>3, RankFacts
  <1>7. /\ bucket' \in [Receivers -> Bucket] /\ bucket'[r] = b
        /\ \A x \in Receivers \ {r} : bucket'[x] = bucket[x]
    BY <1>1, <1>2, <1>3
  <1>8. /\ read' \in [Receivers -> Read] /\ read'[r].state = "none"
        /\ \A x \in Receivers \ {r} : read'[x] = read[x]
    <2>1. NoBucket \in Bucket
      BY EmptySeq DEF NoBucket, Bucket, Weights, Buffers
    <2>2. NoRead \in Read /\ NoRead.state = "none"
      BY <2>1 DEF NoRead, Read
    <2> QED BY <1>1, <1>2, <2>2
  <1>9. /\ given' \in [Receivers -> Nat] /\ given'[r] = 0
        /\ \A x \in Receivers \ {r} : given'[x] = given[x]
    BY <1>1, <1>2
  <1>10. /\ pc' \in [Receivers -> Places] /\ pc'[r] = IF b.last THEN "drain" ELSE "next"
         /\ \A x \in Receivers \ {r} : pc'[x] = pc[x]
    BY <1>1, <1>2 DEF Places
  <1>11. /\ given[r] = Len(bucket[r].weights) /\ given[r] \in Nat
         /\ chained => /\ Taken(r + 1) /\ Upstream(r + 1) = r
                       /\ (IF pc[r] = "yield" /\ notes[r] # <<>> THEN Tail(notes[r])
                                                                 ELSE notes[r]) = <<>>
    BY SwapReady
  <1>12. /\ r \in Ranks /\ r # 0 /\ r \in Nat
         /\ chained => r + 1 \in Receivers
    BY RankFacts
  <1>13. /\ notes' \in [Ranks -> Seq(Nat)]
         /\ chained => notes'[r] = <<>>
         /\ \A x \in Ranks : x # r \/ ~chained => notes'[x] = notes[x]
    <2>1. CASE chained
      <3>1. notes' = [notes EXCEPT ![r] = <<>>]
        BY <1>1, <1>2, <1>11, <1>12, <2>1
      <3>2. <<>> \in Seq(Nat)
        OBVIOUS
      <3> QED BY <1>2, <1>12, <2>1, <3>1, <3>2
    <2>2. CASE ~chained
      BY <1>1, <1>2, <2>2
    <2> QED BY <2>1, <2>2
  <1>14. /\ mail' \in [Receivers -> Seq(Bucket)]
         /\ chained => mail'[r + 1] = Append(mail[r + 1], m)
         /\ \A x \in Receivers : x # r + 1 \/ ~chained => mail'[x] = mail[x]
    <2>1. CASE chained
      <3>1. Append(mail[r + 1], m) \in Seq(Bucket)
        BY <1>2, <1>4, <1>12, <2>1
      <3> QED BY <1>1, <1>2, <1>12, <2>1, <3>1
    <2>2. CASE ~chained
      BY <1>1, <1>2, <2>2
    <2> QED BY <2>1, <2>2
  <1>15. TypeOK'
    BY <1>1, <1>6, <1>7, <1>8, <1>9, <1>10, <1>13, <1>14 DEF IInv, TypeOK, senderVars, workerVars
  <1>16. SenderInv'
    BY <1>1, SenderFrame DEF IInv, senderVars
  <1>17. b.key # 0 /\ 0 <= Len(b.weights)
    BY <1>3, <1>5, EndType DEF Follows, Bucket
  <1>18. ReceiverInv(r)'
    BY <1>1, <1>5, <1>6, <1>7, <1>8, <1>9, <1>10, <1>17 DEF ReceiverInv, Proper
  <1>19. WorkerInv(r)'
    <2>1. Received(r)' = Received(r)
      BY <1>1 DEF Received, workerVars
    <2>2. /\ End(bucket[r].weights) = Before(bucket[r].weights) + Len(bucket[r].weights)
          /\ Before(b.weights) \in Int
      BY <1>3, EndType DEF Bucket
    <2>3. Before(b.weights) + 0 = Before(bucket[r].weights) + given[r]
      BY <1>5, <1>11, <2>2 DEF Follows
    <2>4. /\ Received(r)' = UpTo(Before(bucket'[r].weights) + given'[r])
          /\ pc'[r] # "done" /\ ipc' = ipc /\ pc[r] \notin {"drained", "done"}
      BY <1>1, <1>2, <1>7, <1>9, <1>10, <2>1, <2>3 DEF WorkerInv, workerVars
    <2> QED BY <1>2, <2>4 DEF WorkerInv
  <1>20. \A x \in Receivers \ {r} : ReceiverInv(x)' /\ WorkerInv(x)'
    BY <1>1, <1>6, <1>7, <1>8, <1>9, <1>10, ReceiverFrame, WorkerFrame DEF IInv, workerVars
  <1>21. \A q \in Ranks \ {r} : Current(q)' = Current(q) /\ Source(q)' = Source(q)
    <2> SUFFICES ASSUME NEW q \in Ranks \ {r}
                 PROVE  Current(q)' = Current(q) /\ Source(q)' = Source(q)
      OBVIOUS
    <2>1. q = 0 \/ q \in Receivers \ {r}
      BY DEF Ranks, Receivers
    <2> QED BY <1>1, <1>6, <1>7, <2>1 DEF Current, Source, senderVars
  <1>22. LinkInv(r)'
    <2>1. PICK q : q = Upstream(r)
      OBVIOUS
    <2>2. q \in Ranks \ {r} /\ Upstream(r)' = q
      BY <1>1, <1>2, <2>1, RankFacts DEF Upstream
    <2>3. Reached(r)' = b /\ Reached(r) = b
      BY <1>1, <1>7, <1>8 DEF Reached, b
    <2>4. mail'[r] = mail[r] /\ notes'[q] = notes[q] /\ engine' = engine
      BY <1>1, <1>12, <1>13, <1>14, <2>2
    <2>5. /\ Current(q)' = Current(q)
          /\ \A z : Announces(z, q)' <=> Announces(z, q)
      BY <1>21, <2>2 DEF Announces, Same
    <2>6. Taken(r) => Taken(r)'
      BY <1>8, <2>1, <2>2, <2>3, <2>4, <2>5 DEF Taken, Same
    <2>7. Offered(r) => Offered(r)'
      BY <1>1, <1>8, <2>1, <2>2, <2>3, <2>4, <2>5 DEF Offered, Follows
    <2> QED BY <1>2, <2>6, <2>7 DEF LinkInv
  <1>23. ASSUME NEW x \in Receivers, x # r, x # r + 1 \/ ~chained
         PROVE  LinkInv(x)'
    <2>1. PICK q : q = Upstream(x)
      OBVIOUS
    <2>2. q \in Ranks \ {r}
      <3>1. q \in Ranks
        BY <2>1, UpstreamRank
      <3>2. CASE engine = "nccl"
        BY <1>12, <2>1, <3>1, <3>2 DEF Upstream
      <3>3. CASE engine = "nixl"
        <4>1. q = x - 1 /\ x \in Nat /\ x <= Rollouts /\ Rollouts \in Nat
          BY <2>1, <3>3, TransferAssumption DEF Upstream, Receivers, TransferAssumption
        <4>2. x # r + 1 \/ ~(r < Rollouts)
          BY <1>23, <3>3
        <4> QED BY <1>12, <3>1, <4>1, <4>2
      <3> QED BY <1>2, <3>2, <3>3
    <2> QED BY <1>1, <1>7, <1>8, <1>13, <1>14, <1>21, <1>23, <2>1, <2>2, LinkFrame DEF IInv
  <1>24. ASSUME chained
         PROVE  LinkInv(r + 1)'
    <2> DEFINE n == r + 1
    <2>1. n \in Receivers /\ n # r /\ Taken(n) /\ Upstream(n) = r /\ engine = "nixl"
      BY <1>11, <1>12, <1>24
    <2>2. mail[n] = <<>> /\ read[n].state # "active" /\ Same(Reached(n), bucket[r])
      BY <1>12, <2>1 DEF Taken, Current
    <2>3. mail'[n] = Append(<<>>, m)
      BY <1>14, <1>24, <2>2
    <2> HIDE DEF n
    <2>4. Len(mail'[n]) = 1 /\ Head(mail'[n]) = m
      BY <1>4, <2>3
    <2>5. Upstream(n)' = r /\ Reached(n)' = Reached(n) /\ read'[n] = read[n]
      BY <1>1, <1>7, <1>8, <2>1 DEF Upstream, Reached
    <2>6. Current(r)' = b /\ Source(r)' = recv[r]
      BY <1>6, <1>7, <1>12 DEF Current, Source
    <2>7. Follows(Reached(n), b)
      BY <1>5, <2>2 DEF Follows, Same
    <2>8. Follows(Reached(n), Current(r))'
      BY <2>5, <2>6, <2>7 DEF Follows
    <2>9. Announces(Head(mail[n]), r)'
      BY <1>4, <2>4, <2>6 DEF Announces, Same
    <2>10. notes'[r] = <<>> /\ Current(r)'.key # 0
      BY <1>13, <1>17, <1>24, <2>6
    <2>11. Offered(n)'
      BY <2>2, <2>4, <2>5, <2>8, <2>9, <2>10 DEF Offered
    <2> QED BY <2>11 DEF LinkInv, n
  <1> QED BY <1>15, <1>16, <1>18, <1>19, <1>20, <1>22, <1>23, <1>24 DEF IInv

-----------------------------------------------------------------------------
(* The invariant of the specification                                      *)

LEMMA InitInv == Init => IInv
  <1> SUFFICES ASSUME Init PROVE IInv
    OBVIOUS
  <1> USE DEF Init
  <1>1. /\ NoBucket \in Bucket /\ NoBucket.weights = <<>> /\ NoBucket.key = 0
        /\ ~NoBucket.last /\ NoBucket.source = 0
        /\ NoRead \in Read /\ NoRead.state = "none"
    <2>1. <<>> \in Weights
      BY EmptySeq DEF Weights
    <2>2. NoBucket \in Bucket
      BY <2>1 DEF NoBucket, Bucket, Buffers
    <2> QED BY <2>2 DEF NoBucket, NoRead, Read
  <1>2. /\ engine \in {"nccl", "nixl"} /\ sizes \in Seq(1..BucketSize) /\ Len(sizes) \in Nat
    BY TransferAssumption DEF TransferAssumption
  <1>3. TypeOK
    <2>1. buf \in [Ranks -> [Buffers -> Weights]] /\ sender \in Sender
      BY EmptySeq DEF Weights, Sender, Buffers
    <2>2. /\ pc \in [Receivers -> Places] /\ recv \in [Receivers -> Buffers]
          /\ read \in [Receivers -> Read] /\ bucket \in [Receivers -> Bucket]
          /\ given \in [Receivers -> Nat] /\ sending \in Bucket
      BY <1>1 DEF Places, Buffers
    <2>3. mail \in [Receivers -> Seq(Bucket)] /\ notes \in [Ranks -> Seq(Nat)]
      BY EmptySeq
    <2>4. ipc \in [Receivers -> Ipc] /\ worker \in [Receivers -> Worker]
      BY EmptySeq DEF Ipc, Worker
    <2> QED BY <1>2, <2>1, <2>2, <2>3, <2>4 DEF TypeOK
  <1>4. /\ End(NoBucket.weights) = 0 /\ Before(NoBucket.weights) = 0 /\ Len(NoBucket.weights) = 0
        /\ Consecutive(NoBucket.weights) /\ Proper(NoBucket)
    <2>1. /\ End(NoBucket.weights) = 0 /\ Before(NoBucket.weights) = 0
          /\ Len(NoBucket.weights) = 0
      BY <1>1, EndEmpty DEF Bucket
    <2>2. Consecutive(NoBucket.weights)
      BY <2>1 DEF Consecutive
    <2> QED BY <1>1, <1>2, <2>1, <2>2 DEF Proper
  <1>5. SenderInv
    <2>1. /\ sender.pc = "fill" /\ sender.buffer = 0 /\ sender.next = 1
          /\ sender.weights = <<>> /\ sender.offset = 0 /\ sender.key = 1
          /\ sending = NoBucket /\ buf[0][0] = <<>>
      BY RankFacts DEF Buffers
    <2>2. Filling
      BY <1>1, <1>2, <1>4, <2>1 DEF Filling
    <2> QED BY <1>1, <1>4, <2>1, <2>2 DEF SenderInv
  <1>6. ASSUME NEW r \in Receivers
        PROVE  ReceiverInv(r) /\ WorkerInv(r) /\ LinkInv(r)
    <2>1. /\ pc[r] = "first" /\ recv[r] = 1 /\ read[r] = NoRead /\ bucket[r] = NoBucket
          /\ given[r] = 0 /\ buf[r][1 - recv[r]] = <<>> /\ mail[r] = <<>>
          /\ ~worker[r].busy /\ worker[r].loaded = <<>> /\ ipc[r].held = <<>>
          /\ ipc[r].request = "none"
      BY RankFacts DEF Buffers
    <2>2. ReceiverInv(r)
      BY <1>1, <1>4, <2>1 DEF ReceiverInv
    <2>3. WorkerInv(r)
      <3>1. UpTo(0) = <<>>
        BY DEF UpTo
      <3>2. Received(r) = (<<>> \o <<>>) \o <<>>
        BY <2>1 DEF Received
      <3>3. (<<>> \o <<>>) \o <<>> = <<>>
        OBVIOUS
      <3>4. Before(bucket[r].weights) + given[r] = 0
        BY <1>4, <2>1
      <3> QED BY <2>1, <3>1, <3>2, <3>3, <3>4 DEF WorkerInv
    <2>4. LinkInv(r)
      <3>1. PICK q \in Ranks : q = Upstream(r)
        BY RankFacts DEF Upstream
      <3>2. Current(q) = NoBucket /\ notes[q] = <<>>
        <4>1. q = 0 \/ q \in Receivers
          BY DEF Ranks, Receivers
        <4> QED BY <4>1 DEF Current
      <3>3. Reached(r) = NoBucket /\ read[r].state # "active"
        BY <1>1, <2>1 DEF Reached
      <3> QED BY <1>1, <2>1, <3>1, <3>2, <3>3 DEF LinkInv, Taken, Same
    <2> QED BY <2>2, <2>3, <2>4
  <1> QED BY <1>3, <1>5, <1>6 DEF IInv

LEMMA StutterInv ==
    ASSUME IInv, UNCHANGED vars
    PROVE  IInv'
  <1> USE DEF vars, senderVars, receiverVars, linkVars, workerVars
  <1>1. TypeOK'
    BY DEF IInv, TypeOK
  <1>2. SenderInv'
    BY SenderFrame DEF IInv
  <1>3. \A r \in Receivers : ReceiverInv(r)' /\ WorkerInv(r)'
    BY ReceiverFrame, WorkerFrame DEF IInv
  <1>4. \A r \in Receivers : LinkInv(r)'
    BY LinksFrame
  <1> QED BY <1>1, <1>2, <1>3, <1>4 DEF IInv

LEMMA NextInv == IInv /\ [Next]_vars => IInv'
  <1> SUFFICES ASSUME IInv, [Next]_vars PROVE IInv'
    OBVIOUS
  <1>1. CASE SenderStep
    BY <1>1, FillKeeps, SendBucketKeeps, SendLastBucketKeeps, SenderReturnsKeeps DEF SenderStep
  <1>2. CASE Broadcast
    BY <1>2, BroadcastKeeps
  <1>3. ASSUME NEW r \in Receivers, Transfer(r) \/ ReceiverStep(r) \/ WorkerStep(r)
        PROVE  IInv'
    BY <1>3, TransferKeeps, StartReadKeeps, SwapKeeps, YieldKeeps, RequestKeeps, AnsweredKeeps,
       PlaceKeeps, WorkerCopiesKeeps, WorkerLoadsKeeps DEF ReceiverStep, WorkerStep
  <1>4. CASE UNCHANGED vars
    BY <1>4, StutterInv
  <1> QED BY <1>1, <1>2, <1>3, <1>4 DEF Next

\* The types of the state and the invariant above, of either engine.
THEOREM TransferInv == Spec => []IInv
  BY InitInv, NextInv, PTL DEF Spec

-----------------------------------------------------------------------------
(* What the workers load                                                   *)

LEMMA UpToPrefix ==
    ASSUME NEW a \in Seq(Int), NEW b \in Seq(Int), NEW n \in Nat, a \o b = UpTo(n)
    PROVE  Len(a) \in 0..n /\ a = UpTo(Len(a))
  <1>1. /\ UpTo(n) \in Seq(Int) /\ Len(UpTo(n)) = n /\ \A i \in 1..n : UpTo(n)[i] = i
    BY DEF UpTo
  <1>2. /\ Len(a) \in Nat /\ Len(b) \in Nat /\ Len(a \o b) = Len(a) + Len(b)
        /\ \A i \in 1..Len(a) : (a \o b)[i] = a[i]
    OBVIOUS
  <1>3. Len(a) \in 0..n
    BY <1>1, <1>2
  <1>4. \A i \in 1..Len(a) : a[i] = i
    BY <1>1, <1>2, <1>3
  <1>5. /\ UpTo(Len(a)) \in Seq(Int) /\ Len(UpTo(Len(a))) = Len(a)
        /\ \A i \in 1..Len(a) : UpTo(Len(a))[i] = i
    BY <1>2 DEF UpTo
  <1>6. a = UpTo(Len(a))
    BY <1>4, <1>5, SeqEqual
  <1> QED BY <1>3, <1>6

\* What the rank has yielded so far, and how it arrives at the worker
LEMMA ReceivedFacts ==
    ASSUME IInv, NEW r \in Receivers
    PROVE  LET n == Before(bucket[r].weights) + given[r]
           IN  /\ n \in Nat /\ n <= Len(sizes) /\ Len(sizes) \in Nat
               /\ given[r] = Len(bucket[r].weights) => n = End(bucket[r].weights)
               /\ Received(r) = UpTo(n)
               /\ worker[r].loaded \in Seq(Int) /\ worker[r].copied \in Seq(Int)
               /\ ipc[r].held \in Seq(Int)
  <1>1. /\ bucket[r].weights \in Weights /\ given[r] \in Nat /\ sizes \in Seq(1..BucketSize)
        /\ Consecutive(bucket[r].weights) /\ End(bucket[r].weights) <= Len(sizes)
        /\ given[r] <= Len(bucket[r].weights)
        /\ Received(r) = UpTo(Before(bucket[r].weights) + given[r])
    BY DEF IInv, TypeOK, ReceiverInv, WorkerInv, Proper, Bucket
  <1>2. /\ Before(bucket[r].weights) \in Nat /\ Len(bucket[r].weights) \in Nat
        /\ End(bucket[r].weights) = Before(bucket[r].weights) + Len(bucket[r].weights)
        /\ Len(sizes) \in Nat
    BY <1>1, BeforeType, EndType, LenProperties
  <1>3. /\ worker[r].loaded \in Seq(Int) /\ worker[r].copied \in Seq(Int)
        /\ ipc[r].held \in Seq(Int)
    BY DEF IInv, TypeOK, Worker, Ipc
  <1> QED BY <1>1, <1>2, <1>3

LEMMA InvLoads == IInv => LoadsInOrder
  <1> SUFFICES ASSUME IInv, NEW r \in Receivers
               PROVE  worker[r].loaded \o (IF worker[r].busy THEN worker[r].copied ELSE <<>>) \in
                          {[i \in 1..n |-> i] : n \in 0..Len(sizes)}
    BY DEF LoadsInOrder
  <1> DEFINE n == Before(bucket[r].weights) + given[r]
             a == worker[r].loaded \o (IF worker[r].busy THEN worker[r].copied ELSE <<>>)
             b == IF ipc[r].request = "answered" THEN <<>> ELSE ipc[r].held
  <1>1. /\ n \in Nat /\ n <= Len(sizes) /\ Len(sizes) \in Nat /\ a \o b = UpTo(n)
        /\ worker[r].loaded \in Seq(Int) /\ worker[r].copied \in Seq(Int)
        /\ ipc[r].held \in Seq(Int)
    BY ReceivedFacts DEF Received
  <1>2. a \in Seq(Int) /\ b \in Seq(Int)
    BY <1>1
  <1> HIDE DEF a, b, n
  <1>3. Len(a) \in 0..n /\ a = UpTo(Len(a))
    BY <1>1, <1>2, UpToPrefix
  <1>4. Len(a) \in 0..Len(sizes) /\ a = [i \in 1..Len(a) |-> i]
    BY <1>1, <1>3 DEF UpTo
  <1>5. a \in {[i \in 1..k |-> i] : k \in 0..Len(sizes)}
    BY <1>4
  <1> QED BY <1>5 DEF a

LEMMA InvComplete == IInv => UpdateIsComplete
  <1> SUFFICES ASSUME IInv, NEW r \in Receivers, pc[r] = "done"
               PROVE  worker[r].loaded = [i \in 1..Len(sizes) |-> i]
    BY DEF UpdateIsComplete, UpdateDone
  <1>1. /\ bucket[r].last /\ given[r] = Len(bucket[r].weights)
        /\ End(bucket[r].weights) = Len(sizes)
        /\ ipc[r].request = "over" /\ ipc[r].held = <<>> /\ ~worker[r].busy
    BY DEF IInv, ReceiverInv, WorkerInv, Proper
  <1>2. Received(r) = UpTo(Len(sizes)) /\ worker[r].loaded \in Seq(Int)
    BY <1>1, ReceivedFacts
  <1>3. Received(r) = (worker[r].loaded \o <<>>) \o <<>>
    BY <1>1 DEF Received
  <1>4. (worker[r].loaded \o <<>>) \o <<>> = worker[r].loaded
    BY <1>2
  <1> QED BY <1>2, <1>3, <1>4 DEF UpTo

-----------------------------------------------------------------------------
(* What is written while it is read                                        *)

\* A step writes the buffer the sender fills, or the one a rank receives into.
LEMMA Written ==
    ASSUME IInv, Next, NEW q \in Ranks, NEW b \in Buffers, buf'[q][b] # buf[q][b]
    PROVE  IF q = 0 THEN sender.pc = "fill" /\ b = sender.buffer ELSE b = recv[q]
  <1>0. buf \in [Ranks -> [Buffers -> Weights]] /\ recv \in [Receivers -> Buffers]
    BY DEF IInv, TypeOK
  <1>1. CASE Fill
    BY <1>0, <1>1, RankFacts DEF Fill
  <1>2. CASE Broadcast
    <2>1. CASE q = 0
      BY <1>2, <2>1 DEF Broadcast
    <2>2. CASE q # 0
      <3>1. q \in Receivers
        BY <2>2 DEF Ranks, Receivers
      <3>2. buf'[q] = [buf[q] EXCEPT ![recv[q]] = buf[0][Head(mail[q]).source]]
        BY <1>2, <2>2 DEF Broadcast
      <3> QED BY <1>0, <2>2, <3>1, <3>2
    <2> QED BY <2>1, <2>2
  <1>3. ASSUME NEW r \in Receivers, Transfer(r)
        PROVE  IF q = 0 THEN sender.pc = "fill" /\ b = sender.buffer ELSE b = recv[q]
    <2>1. PICK w : buf' = [buf EXCEPT ![r][recv[r]] = w]
      BY <1>3 DEF Transfer
    <2> QED BY <1>0, <2>1, RankFacts
  <1>4. \/ Fill \/ Broadcast \/ (\E r \in Receivers : Transfer(r)) \/ UNCHANGED buf
    BY DEF Next, SenderStep, SendBucket, SendLastBucket, SenderReturns, ReceiverStep, StartRead,
           Swap, Yield, Request, Answered, ReceiverEnds, UpdateReturns, WorkerStep,
           WorkerCopies, WorkerLoads
  <1> QED BY <1>1, <1>2, <1>3, <1>4

\* A buffer that is read is the one that its rank offers.
LEMMA ReadIsOffered ==
    ASSUME IInv, NEW r \in Receivers, NEW b \in Buffers, NEW q \in {0, r - 1}, Reads(r, q, b)
    PROVE  q \in Ranks /\ b = Source(q) /\ Current(q).key # 0
  <1>1. q \in Ranks
    BY RankFacts
  <1>2. q = Upstream(r) /\ read[r].state = "active" /\ LinkInv(r) /\ engine \in {"nccl", "nixl"}
    BY DEF Reads, Upstream, IInv, TypeOK
  <1>3. CASE engine = "nixl"
    <2>1. Offered(r)
      BY <1>2, <1>3 DEF LinkInv, Taken
    <2>2. Announces(read[r].bucket, q) /\ Current(q).key # 0
      BY <1>2, <1>3, <2>1 DEF Offered
    <2> QED BY <1>1, <1>3, <2>2 DEF Reads, Announces
  <1>4. CASE engine = "nccl"
    <2>1. Offered(r)
      BY <1>2, <1>4 DEF LinkInv, Taken, Reads
    <2>2. Announces(Head(mail[r]), q) /\ Current(q).key # 0
      BY <1>2, <1>4, <2>1 DEF Offered
    <2> QED BY <1>1, <1>4, <2>2 DEF Reads, Announces
  <1> QED BY <1>2, <1>3, <1>4

LEMMA StableStep ==
    ASSUME IInv, Next
    PROVE  /\ \A r \in Receivers, b \in Buffers :
                 \A q \in {0, r - 1} : Reads(r, q, b) /\ Reads(r, q, b)' => buf'[q][b] = buf[q][b]
           /\ \A r \in Receivers : Yielding(r) /\ Yielding(r)' /\ recv'[r] = recv[r]
                                   => buf'[r][1 - recv[r]] = buf[r][1 - recv[r]]
  <1>1. ASSUME NEW r \in Receivers, NEW b \in Buffers, NEW q \in {0, r - 1}, Reads(r, q, b)
        PROVE  buf'[q][b] = buf[q][b]
    <2>1. q \in Ranks /\ b = Source(q) /\ Current(q).key # 0
      BY <1>1, ReadIsOffered
    <2>2. CASE q = 0
      <3>1. sender.pc = "fill" => b = 1 - sender.buffer /\ sender.buffer \in Buffers
        BY <2>1, <2>2, FillingFacts DEF Source, Current, Filling
      <3> QED BY <2>1, <2>2, <3>1, Written, RankFacts
    <2>3. CASE q # 0
      <3>1. q \in Receivers /\ b = 1 - recv[q]
        BY <2>1, <2>3 DEF Ranks, Receivers, Source
      <3>2. recv[q] \in Buffers
        BY <3>1 DEF IInv, TypeOK
      <3> QED BY <2>1, <2>3, <3>1, <3>2, Written, RankFacts
    <2> QED BY <2>2, <2>3
  <1>2. ASSUME NEW r \in Receivers
        PROVE  buf'[r][1 - recv[r]] = buf[r][1 - recv[r]]
    <2>1. recv[r] \in Buffers
      BY DEF IInv, TypeOK
    <2> QED BY <2>1, Written, RankFacts
  <1> QED BY <1>1, <1>2

-----------------------------------------------------------------------------
(* The theorems                                                            *)

\* Whatever the sizes of the weights and however the ranks, their reads and the
\* workers interleave, with NCCL or NIXL: every worker of the rollout loads the
\* weights of send_weights, each once, whole and in order.
THEOREM WeightsLoadedInOrder == Spec => []LoadsInOrder
  BY TransferInv, InvLoads, PTL

\* When update_weights of the manager returns every worker has loaded all of
\* the weights, the last bucket included.
THEOREM AllWeightsLoaded == Spec => []UpdateIsComplete
  BY TransferInv, InvComplete, PTL

\* No buffer is written while another rank reads it, nor while weights are
\* yielded from it.
THEOREM BuffersAreStable == Spec => ReadsAreStable
  <1>1. IInv /\ [Next]_vars =>
            [/\ \A r \in Receivers, b \in Buffers :
                   \A q \in {0, r - 1} : Reads(r, q, b) /\ Reads(r, q, b)' => buf'[q][b] = buf[q][b]
             /\ \A r \in Receivers : Yielding(r) /\ Yielding(r)' /\ recv'[r] = recv[r]
                                     => buf'[r][1 - recv[r]] = buf[r][1 - recv[r]]]_vars
    BY StableStep
  <1> QED BY <1>1, TransferInv, PTL DEF Spec, ReadsAreStable
=============================================================================
