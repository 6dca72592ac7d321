--------------------------- MODULE AQSocketProofs ---------------------------
(***************************************************************************)
(* The claim on _sync: for any number of writers and closers, any sizes    *)
(* and any order of events, a claim that succeeds finds the channel in     *)
(* place, and close() is called on the descriptor at most once.            *)
(***************************************************************************)
EXTENDS AQSocket, FiniteSetTheorems, TLAPS

PCs == WriterPC \cup CloserPC \cup ReadPC

(* The types of the variables the claim is made of. *)
ClaimTypeOK ==
    /\ socketIO \in BOOLEAN
    /\ sync \in {0, 1}
    /\ fd \in {"open", "closed", "reused"}
    /\ pc \in [Threads -> PCs]

(* A thread between its claim of _sync and the point where it gives the     *)
(* semaphore back or, closing, drops the channel.                          *)
Holding(t) == pc[t] \in {"schedule", "signal", "release"}

(* _sync behaves as a lock, and dropping the channel consumes it for good. *)
ClaimInv ==
    /\ \A t \in Threads : Holding(t) => sync = 0 /\ socketIO
    /\ \A s, t \in Threads : Holding(s) /\ Holding(t) => s = t
    /\ ~socketIO => sync = 0
    /\ \A t \in Threads : pc[t] = "closefd" => ~socketIO /\ fd = "open"
    /\ \A s, t \in Threads : pc[s] = "closefd" /\ pc[t] = "closefd" => s = t
    /\ fd # "open" => ~socketIO

IInv == ClaimTypeOK /\ ClaimInv

(* Nobody holds _sync when -connectedSuccessfully has signalled it. *)
LEMMA InitClaim == Init => IInv
<1> SUFFICES ASSUME Init PROVE IInv
    OBVIOUS
<1>1. ClaimTypeOK
    BY DEF Init, ClaimTypeOK, PCs, WriterPC, CloserPC
<1>2. \A t \in Threads : pc[t] = "idle"
    BY DEF Init
<1> QED
    BY <1>1, <1>2 DEF Init, IInv, ClaimInv, Holding

(* A step of a thread outside the claim's critical states. *)
LEMMA MoveOutside ==
    ASSUME IInv, NEW t \in Threads, NEW to \in PCs,
           pc' = [pc EXCEPT ![t] = to],
           to \notin {"schedule", "signal", "release", "closefd"},
           UNCHANGED <<socketIO, sync, fd>>
    PROVE  IInv'
BY DEF IInv, ClaimTypeOK, ClaimInv, Holding

(* The two waits on _sync: the claim of -writeBytes: and that of -close. *)
LEMMA ClaimStep ==
    ASSUME IInv, NEW t \in Threads, NEW to \in {"schedule", "release"},
           sync > 0, sync' = sync - 1,
           pc' = [pc EXCEPT ![t] = to],
           UNCHANGED <<socketIO, fd>>
    PROVE  IInv'
<1>1. sync = 1 /\ sync' = 0 /\ socketIO
    BY DEF IInv, ClaimTypeOK, ClaimInv
<1>2. \A s \in Threads : ~Holding(s)
    BY <1>1 DEF IInv, ClaimTypeOK, ClaimInv
<1>3. \A s \in Threads : Holding(s)' => s = t
    BY <1>2 DEF IInv, ClaimTypeOK, Holding
<1>4. \A s \in Threads : pc'[s] # "closefd"
    BY <1>1 DEF IInv, ClaimTypeOK, ClaimInv
<1> QED
    BY <1>1, <1>3, <1>4 DEF IInv, ClaimTypeOK, ClaimInv, Holding, PCs, WriterPC, CloserPC

(* -writeBytes: gives _sync back, with the channel still in place. *)
LEMMA SignalStep ==
    ASSUME IInv, NEW w \in Writers, SignalAfterWrite(w)
    PROVE  IInv'
<1>1. w \in Threads /\ Holding(w) /\ pc' = [pc EXCEPT ![w] = "spin"]
    BY DEF SignalAfterWrite, Goto, Threads, Holding
<1>2. sync' = 1 /\ socketIO' = socketIO /\ socketIO /\ fd' = fd
    BY <1>1 DEF IInv, ClaimTypeOK, ClaimInv, SignalAfterWrite
<1>3. \A t \in Threads : ~Holding(t)' /\ pc'[t] # "closefd"
    BY <1>1, <1>2 DEF IInv, ClaimTypeOK, ClaimInv, Holding
<1> QED
    BY <1>1, <1>2, <1>3 DEF IInv, ClaimTypeOK, ClaimInv, Holding, PCs, WriterPC, CloserPC

(* Once the channel is dropped nobody holds _sync, and nobody gets it. *)
LEMMA ReleaseStep ==
    ASSUME IInv, NEW c \in Threads, ReleaseChannel(c)
    PROVE  IInv'
<1>1. Holding(c) /\ pc' = [pc EXCEPT ![c] = "closefd"]
    BY DEF ReleaseChannel, Goto, Holding
<1>2. sync = 0 /\ sync' = 0 /\ socketIO /\ ~socketIO' /\ fd = "open" /\ fd' = "open"
    BY <1>1 DEF IInv, ClaimTypeOK, ClaimInv, ReleaseChannel
<1>3. \A t \in Threads : ~Holding(t)'
    BY <1>1 DEF IInv, ClaimTypeOK, ClaimInv, Holding
<1>4. \A t \in Threads : pc'[t] = "closefd" => t = c
    BY <1>1, <1>2 DEF IInv, ClaimTypeOK, ClaimInv
<1>5. ClaimTypeOK'
    BY <1>1, <1>2 DEF IInv, ClaimTypeOK, PCs, WriterPC, CloserPC, ReleaseChannel
<1> QED
    BY <1>2, <1>3, <1>4, <1>5 DEF IInv, ClaimInv

(* close() on the descriptor: the one closer at that point leaves it. *)
LEMMA CloseDescriptorStep ==
    ASSUME IInv, NEW c \in Threads, CloseDescriptor(c)
    PROVE  IInv'
<1>1. pc[c] = "closefd" /\ pc' = [pc EXCEPT ![c] = "status"]
    BY DEF CloseDescriptor, Goto
<1>2. ~socketIO /\ socketIO' = socketIO /\ sync' = 0 /\ fd' = "closed"
    BY <1>1 DEF IInv, ClaimTypeOK, ClaimInv, CloseDescriptor
<1>3. \A t \in Threads : ~Holding(t)' /\ pc'[t] # "closefd"
    BY <1>1, <1>2 DEF IInv, ClaimTypeOK, ClaimInv, Holding
<1>4. ClaimTypeOK'
    BY <1>1, <1>2 DEF IInv, ClaimTypeOK, PCs, WriterPC, CloserPC
<1> QED
    BY <1>2, <1>3, <1>4 DEF IInv, ClaimInv

(* Every other step leaves the claim alone. *)
LEMMA StepElsewhere ==
    ASSUME IInv, UNCHANGED <<socketIO, sync, fd, pc>>
    PROVE  IInv'
BY DEF IInv, ClaimTypeOK, ClaimInv, Holding

(* The threads in -writeAll: and -writeBytes:. *)
LEMMA WriterSteps ==
    ASSUME IInv, NEW w \in Writers, WriteAll(w) \/ WriterStep(w)
    PROVE  IInv'
<1> w \in Threads
    BY DEF Threads
<1>1. CASE WriteAll(w)
    BY <1>1, MoveOutside DEF WriteAll, Goto, syncVars, PCs, WriterPC, CloserPC
<1>2. CASE EnterWriteBytes(w)
    <2>1. PICK to \in {"claim", "spin"} : pc' = [pc EXCEPT ![w] = to]
        BY <1>2 DEF EnterWriteBytes, Goto
    <2> QED
        BY <1>2, <2>1, MoveOutside DEF EnterWriteBytes, syncVars, PCs, WriterPC, CloserPC
<1>3. CASE ClaimForWrite(w)
    BY <1>3, ClaimStep DEF ClaimForWrite, Goto
<1>4. CASE ClaimTimesOut(w)
    BY <1>4, MoveOutside DEF ClaimTimesOut, Goto, syncVars, PCs, WriterPC, CloserPC
<1>5. CASE Schedule(w)
    <2>1. pc[w] = "schedule" /\ pc' = [pc EXCEPT ![w] = "signal"]
          /\ UNCHANGED <<socketIO, sync, fd>>
        BY <1>5 DEF Schedule, Goto, syncVars
    <2>2. \A t \in Threads : Holding(t)' <=> Holding(t)
        BY <2>1 DEF IInv, ClaimTypeOK, Holding
    <2>3. \A t \in Threads : pc'[t] = "closefd" <=> pc[t] = "closefd"
        BY <2>1 DEF IInv, ClaimTypeOK
    <2> QED
        BY <2>1, <2>2, <2>3 DEF IInv, ClaimTypeOK, ClaimInv, PCs, WriterPC, CloserPC
<1>6. CASE SignalAfterWrite(w)
    BY <1>6, SignalStep
<1>7. CASE WriteAllReturns(w)
    BY <1>7, MoveOutside DEF WriteAllReturns, Goto, syncVars, PCs, WriterPC, CloserPC
<1> QED
    BY <1>1, <1>2, <1>3, <1>4, <1>5, <1>6, <1>7 DEF WriterStep

(* The threads in -close, the one that runs _q among them. *)
LEMMA CloserSteps ==
    ASSUME IInv, NEW c \in ClosingThreads, CloseBegins(c) \/ CloseStep(c)
    PROVE  IInv'
<1> c \in Threads
    BY DEF Threads, ClosingThreads
<1>1. CASE CloseBegins(c)
    BY <1>1, MoveOutside DEF CloseBegins, Goto, syncVars, PCs, WriterPC, CloserPC
<1>2. CASE ClaimForClose(c)
    BY <1>2, ClaimStep DEF ClaimForClose, Goto
<1>3. CASE ReleaseChannel(c)
    BY <1>3, ReleaseStep
<1>4. CASE CloseDescriptor(c)
    BY <1>4, CloseDescriptorStep
<1>5. CASE ReadStatus(c)
    <2>1. PICK to \in {"mark", "returned", "idle"} : pc' = [pc EXCEPT ![c] = to]
        BY <1>5 DEF ReadStatus, Goto, AfterClose
    <2> QED
        BY <1>5, <2>1, MoveOutside DEF ReadStatus, syncVars, PCs, WriterPC, CloserPC, ReadPC
<1>6. CASE MarkUnconnected(c)
    <2>1. PICK to \in {"returned", "idle"} : pc' = [pc EXCEPT ![c] = to]
        BY <1>6 DEF MarkUnconnected, Goto, AfterClose
    <2> QED
        BY <1>6, <2>1, MoveOutside DEF MarkUnconnected, PCs, WriterPC, CloserPC, ReadPC
<1> QED
    BY <1>1, <1>2, <1>3, <1>4, <1>5, <1>6 DEF CloseStep

(* The blocks of _q. *)
LEMMA QueueSteps ==
    ASSUME IInv, QueueStep
    PROVE  IInv'
<1> QThread \in Threads /\ QThread \in ClosingThreads
    BY DEF Threads, ClosingThreads
<1>1. CASE ReceiveData \/ DeliverData \/ ReportEnd
    <2>1. PICK to \in {"received", "idle", "eof"} : pc' = [pc EXCEPT ![QThread] = to]
        BY <1>1 DEF ReceiveData, DeliverData, ReportEnd, Goto
    <2> QED
        BY <1>1, <2>1, MoveOutside
        DEF ReceiveData, DeliverData, ReportEnd, syncVars, PCs, WriterPC, ReadPC
<1>2. CASE ReceiveNothing
    BY <1>2, MoveOutside DEF ReceiveNothing, Goto, PCs, ReadPC
<1>3. CASE CloseAtEOF
    BY <1>3, MoveOutside DEF CloseAtEOF, Goto, syncVars, PCs, WriterPC, CloserPC, ReadPC
<1>4. CASE AlreadyClosed
    BY <1>4, MoveOutside DEF AlreadyClosed, Goto, syncVars, PCs, WriterPC, CloserPC, ReadPC
<1>5. CASE ReadReturns
    BY <1>5, MoveOutside DEF ReadReturns, Goto, syncVars, PCs, WriterPC, CloserPC, ReadPC
<1>6. CASE CloseStep(QThread)
    BY <1>6, CloserSteps
<1>7. CASE \E k \in 1..WriteLen : SendSome(k)
    BY <1>7, StepElsewhere DEF SendSome, syncVars
<1>8. CASE SendFails
    BY <1>8, StepElsewhere DEF SendFails, syncVars
<1>9. CASE Complete
    BY <1>9, StepElsewhere DEF Complete, syncVars
<1> QED
    BY <1>1, <1>2, <1>3, <1>4, <1>5, <1>6, <1>7, <1>8, <1>9 DEF QueueStep

(* The claim survives every step: it is inductive. *)
LEMMA NextClaim == IInv /\ [Next]_vars => IInv'
<1> SUFFICES ASSUME IInv, [Next]_vars PROVE IInv'
    OBVIOUS
<1>1. ASSUME NEW w \in Writers, WriteAll(w) \/ WriterStep(w) PROVE IInv'
    BY <1>1, WriterSteps
<1>2. ASSUME NEW c \in Closers, CloseBegins(c) \/ CloseStep(c) PROVE IInv'
    BY <1>2, CloserSteps DEF ClosingThreads
<1>3. CASE SourceFires
    BY <1>3, StepElsewhere DEF SourceFires, syncVars
<1>4. CASE QueueStep
    BY <1>4, QueueSteps
<1>5. CASE PeerSends \/ PeerCloses \/ InstallHandler \/ AnnounceData
    BY <1>5, StepElsewhere DEF PeerSends, PeerCloses, InstallHandler, AnnounceData, syncVars
<1>6. CASE DescriptorReused
    BY <1>6 DEF DescriptorReused, IInv, ClaimTypeOK, ClaimInv, Holding
<1>7. CASE UNCHANGED vars
    BY <1>7, StepElsewhere DEF vars, syncVars
<1> QED
    BY <1>1, <1>2, <1>3, <1>4, <1>5, <1>6, <1>7 DEF Next

(* _sync is a lock on the channel, for every number of threads. *)
THEOREM ClaimInvariant == Spec => []IInv
BY InitClaim, NextClaim, PTL DEF Spec

(* The exception of AQSocket.m:845 is never raised. *)
THEOREM ChannelSafe == Spec => []ClaimedChannelIsThere
<1>1. IInv => ClaimedChannelIsThere
    BY DEF IInv, ClaimInv, ClaimedChannelIsThere, Holding, Threads
<1> QED
    BY <1>1, ClaimInvariant, PTL

(* close() never hits a descriptor that is closed or somebody else's. *)
THEOREM DescriptorSafe == Spec => []DescriptorClosedOnce
<1>1. IInv => DescriptorClosedOnce
    BY DEF IInv, ClaimInv, DescriptorClosedOnce, Threads, ClosingThreads
<1> QED
    BY <1>1, ClaimInvariant, PTL

-----------------------------------------------------------------------------
(* Type correctness. That _sync stays 0 or 1 is a consequence of the claim; *)
(* the rest of TypeOK is about one action at a time.                       *)

DataTypeOK ==
    /\ status \in {"connected", "disconnected", "unconnected"}
    /\ queue \in Seq(Jobs)
    /\ sent \in 0..WriteLen
    /\ source \in {"armed", "firing", "cancelled"}
    /\ calls \in 0..MaxCalls
    /\ accepted \in Nat
    /\ waitsFor \in [Writers -> Nat]
    /\ outcomes \in Seq(Outcomes)
    /\ wire \in Seq(Bytes)
    /\ arrivals \in 0..MaxIncoming
    /\ incoming \in 0..arrivals
    /\ peerClosed \in BOOLEAN
    /\ handler \in BOOLEAN
    /\ announcing \in BOOLEAN
    /\ reader \in Nat
    /\ disconnects \in Nat

PCTypeOK ==
    /\ pc \in [Threads -> PCs]
    /\ \A w \in Writers : pc[w] \in WriterPC
    /\ \A c \in Closers : pc[c] \in CloserPC
    /\ pc[QThread] \in CloserPC \cup ReadPC

(* The read handler runs in a read block, and that block heads _q. *)
ReadInProgress == pc[QThread] # "idle" => Running("read")

(* A writer moves between the points of -writeAll: only. *)
LEMMA WriterMoves ==
    ASSUME PCTypeOK, NEW w \in Writers, NEW to \in WriterPC,
           pc' = [pc EXCEPT ![w] = to]
    PROVE  PCTypeOK'
BY ThreadsAssumption DEF PCTypeOK, PCs, Threads, ClosingThreads

(* A closer moves between the points of -close only. *)
LEMMA CloserMoves ==
    ASSUME PCTypeOK, NEW c \in Closers, NEW to \in CloserPC,
           pc' = [pc EXCEPT ![c] = to]
    PROVE  PCTypeOK'
BY ThreadsAssumption DEF PCTypeOK, PCs, Threads, ClosingThreads

(* The thread of _q moves between those and the points of the read handler. *)
LEMMA QThreadMoves ==
    ASSUME PCTypeOK, NEW to \in CloserPC \cup ReadPC,
           pc' = [pc EXCEPT ![QThread] = to]
    PROVE  PCTypeOK'
BY ThreadsAssumption DEF PCTypeOK, PCs, Threads, ClosingThreads

(* Every step keeps the program counters in their ranges. *)
LEMMA NextPC == PCTypeOK /\ [Next]_vars => PCTypeOK'
<1> SUFFICES ASSUME PCTypeOK, [Next]_vars PROVE PCTypeOK'
    OBVIOUS
<1> USE DEF Goto
<1>1. ASSUME NEW w \in Writers, WriteAll(w) \/ WriterStep(w) PROVE PCTypeOK'
    <2>1. PICK to \in WriterPC : pc' = [pc EXCEPT ![w] = to]
        BY <1>1 DEF WriteAll, WriterStep, EnterWriteBytes, ClaimForWrite, ClaimTimesOut,
                    Schedule, SignalAfterWrite, WriteAllReturns, WriterPC
    <2> QED
        BY <2>1, WriterMoves
<1>2. ASSUME NEW c \in Closers, CloseBegins(c) \/ CloseStep(c) PROVE PCTypeOK'
    <2>1. PICK to \in CloserPC : pc' = [pc EXCEPT ![c] = to]
        BY <1>2, ThreadsAssumption
        DEF CloseBegins, CloseStep, ClaimForClose, ReleaseChannel, CloseDescriptor,
            ReadStatus, MarkUnconnected, AfterClose, CloserPC
    <2> QED
        BY <2>1, CloserMoves
<1>3. CASE QueueStep
    <2>1. CASE UNCHANGED pc
        BY <2>1 DEF PCTypeOK
    <2>2. CASE ReceiveData \/ DeliverData \/ ReceiveNothing \/ ReportEnd \/ CloseAtEOF
               \/ AlreadyClosed \/ ReadReturns \/ CloseStep(QThread)
        <3>1. PICK to \in CloserPC \cup ReadPC : pc' = [pc EXCEPT ![QThread] = to]
            BY <2>2 DEF ReceiveData, DeliverData, ReceiveNothing, ReportEnd, CloseAtEOF,
                        AlreadyClosed, ReadReturns, CloseStep, ClaimForClose,
                        ReleaseChannel, CloseDescriptor, ReadStatus, MarkUnconnected,
                        AfterClose, CloserPC, ReadPC
        <3> QED
            BY <3>1, QThreadMoves
    <2> QED
        BY <1>3, <2>1, <2>2 DEF QueueStep, SendSome, SendFails, Complete
<1>4. CASE SourceFires \/ InstallHandler \/ AnnounceData \/ PeerSends \/ PeerCloses
           \/ DescriptorReused \/ UNCHANGED vars
    BY <1>4 DEF SourceFires, InstallHandler, AnnounceData, PeerSends, PeerCloses,
                DescriptorReused, vars, PCTypeOK
<1> QED
    BY <1>1, <1>2, <1>3, <1>4 DEF Next

(* The block at the head of _q, when there is one of that kind. *)
LEMMA RunningHead ==
    ASSUME DataTypeOK, NEW kind, Running(kind)
    PROVE  /\ Head(queue) \in Jobs
           /\ Head(queue).kind = kind
           /\ Tail(queue) \in Seq(Jobs)
BY DEF DataTypeOK, Running

(* A write or its completion carries a ticket, a completion a result. *)
LEMMA JobFields ==
    /\ \A j \in Jobs : j.kind \in {"write", "done"} => j.ticket \in Tickets
    /\ \A j \in Jobs : j.kind = "done" => j.result \in Results
    /\ \A n \in Tickets : WriteJob(n) \in Jobs
    /\ \A n \in Tickets, r \in Results : DoneJob(n, r) \in Jobs
    /\ ReadJob \in Jobs
BY DEF Jobs, WriteJob, DoneJob, ReadJob

(* The steps that leave _q, the bytes and the completions alone. *)
LEMMA PlainData ==
    ASSUME DataTypeOK,
           status' \in {"connected", "disconnected", "unconnected"},
           source' \in {"armed", "firing", "cancelled"},
           calls' \in 0..MaxCalls,
           waitsFor' \in [Writers -> Nat],
           UNCHANGED <<queue, sent, accepted, outcomes, wire, peerVars, eventVars>>
    PROVE  DataTypeOK'
BY DEF DataTypeOK, peerVars, eventVars, handlerVars

(* What the writers do to the data: one of them puts its write on _q. *)
LEMMA WriterData ==
    ASSUME DataTypeOK, NEW w \in Writers, WriteAll(w) \/ WriterStep(w)
    PROVE  DataTypeOK'
<1>1. CASE Schedule(w)
    <2>1. accepted + 1 \in Tickets /\ accepted + 1 \in Nat
        BY DEF DataTypeOK, Tickets
    <2>2. queue' \in Seq(Jobs)
        BY <1>1, <2>1, JobFields DEF Schedule, DataTypeOK
    <2>3. waitsFor' \in [Writers -> Nat]
        BY <1>1, <2>1 DEF Schedule, DataTypeOK
    <2> QED
        BY <1>1, <2>1, <2>2, <2>3
        DEF Schedule, DataTypeOK, syncVars, peerVars, eventVars, handlerVars
<1>2. CASE WriteAll(w)
    BY <1>2, PlainData, SizesAssumption
    DEF WriteAll, DataTypeOK, syncVars, queueVars, writerVars
<1>3. CASE EnterWriteBytes(w) \/ ClaimForWrite(w) \/ ClaimTimesOut(w)
           \/ SignalAfterWrite(w) \/ WriteAllReturns(w)
    BY <1>3, PlainData
    DEF EnterWriteBytes, ClaimForWrite, ClaimTimesOut, SignalAfterWrite, WriteAllReturns,
        DataTypeOK, syncVars, queueVars, writerVars
<1> QED
    BY <1>1, <1>2, <1>3 DEF WriterStep

(* What the closers do to the data: the status and the reader source. *)
LEMMA CloserData ==
    ASSUME DataTypeOK, NEW c \in ClosingThreads, CloseBegins(c) \/ CloseStep(c)
    PROVE  DataTypeOK'
BY PlainData
DEF CloseBegins, CloseStep, ClaimForClose, ReleaseChannel, CloseDescriptor,
    ReadStatus, MarkUnconnected, DataTypeOK, syncVars, queueVars, writerVars

(* send() took some bytes: they are the first ones of the write again. *)
LEMMA SendData ==
    ASSUME DataTypeOK, NEW k \in 1..WriteLen, SendSome(k)
    PROVE  DataTypeOK'
<1>1. Head(queue) \in Jobs /\ Head(queue).ticket \in Tickets /\ Tail(queue) \in Seq(Jobs)
    BY RunningHead, JobFields DEF SendSome
<1>2. \A i \in 1..k : Offered(i) \in Bytes
    BY <1>1, SizesAssumption DEF Offered, Bytes
<1>3. [i \in 1..k |-> Offered(i)] \in Seq(Bytes)
    BY <1>2
<1>4. wire' \in Seq(Bytes)
    BY <1>3 DEF SendSome, DataTypeOK
<1>5. queue' \in Seq(Jobs)
    <2>1. DoneJob(Head(queue).ticket, "ok") \in Jobs
        BY <1>1, JobFields DEF Results
    <2>2. queue' = queue \/ queue' = Append(Tail(queue), DoneJob(Head(queue).ticket, "ok"))
        BY DEF SendSome
    <2>3. Append(Tail(queue), DoneJob(Head(queue).ticket, "ok")) \in Seq(Jobs)
        BY <1>1, <2>1
    <2> QED
        BY <2>2, <2>3 DEF DataTypeOK
<1>6. sent' \in 0..WriteLen
    BY SizesAssumption DEF SendSome, DataTypeOK
<1> QED
    BY <1>4, <1>5, <1>6
    DEF SendSome, DataTypeOK, syncVars, writerVars, peerVars, eventVars, handlerVars

(* The blocks of _q keep their own types. *)
LEMMA QueueData ==
    ASSUME DataTypeOK, ReadInProgress, QueueStep
    PROVE  DataTypeOK'
<1>1. CASE ReceiveData
    <2>1. incoming' \in 0..arrivals'
        BY <1>1 DEF ReceiveData, DataTypeOK
    <2> QED
        BY <1>1, <2>1
        DEF ReceiveData, DataTypeOK, syncVars, queueVars, writerVars, handlerVars
<1>2. CASE ReceiveNothing
    BY <1>2
    DEF ReceiveNothing, DataTypeOK, queueVars, writerVars, peerVars, eventVars, handlerVars
<1>3. CASE CloseAtEOF \/ AlreadyClosed
    BY <1>3, PlainData
    DEF CloseAtEOF, AlreadyClosed, DataTypeOK, syncVars, queueVars, writerVars
<1>4. CASE ReadReturns \/ DeliverData
    <2>1. queue # << >>
        BY <1>4 DEF ReadReturns, DeliverData, Goto, ReadInProgress, Running
    <2>2. Tail(queue) \in Seq(Jobs)
        BY <2>1 DEF DataTypeOK
    <2>3. reader' \in Nat
        BY <1>4 DEF ReadReturns, DeliverData, DataTypeOK, eventVars
    <2> QED
        BY <1>4, <2>2, <2>3
        DEF ReadReturns, DeliverData, ReadEnds, DataTypeOK, syncVars, writerVars,
            peerVars, eventVars, handlerVars
<1>9. CASE ReportEnd
    <2>1. disconnects' \in Nat
        BY <1>9 DEF ReportEnd, DataTypeOK
    <2> QED
        BY <1>9, <2>1
        DEF ReportEnd, DataTypeOK, syncVars, queueVars, writerVars, peerVars, handlerVars
<1>5. CASE CloseStep(QThread)
    BY <1>5, CloserData DEF ClosingThreads
<1>6. CASE \E k \in 1..WriteLen : SendSome(k)
    BY <1>6, SendData
<1>7. CASE SendFails
    <2>1. PICK r \in Results : queue' = Append(Tail(queue), DoneJob(Head(queue).ticket, r))
        BY <1>7 DEF SendFails, Results
    <2>2. Head(queue).ticket \in Tickets /\ Tail(queue) \in Seq(Jobs)
        BY <1>7, RunningHead, JobFields DEF SendFails
    <2>3. queue' \in Seq(Jobs)
        BY <2>1, <2>2, JobFields
    <2> QED
        BY <1>7, <2>3, SizesAssumption
        DEF SendFails, DataTypeOK, syncVars, writerVars, peerVars, eventVars, handlerVars
<1>8. CASE Complete
    <2>1. /\ Head(queue).ticket \in Tickets
          /\ Head(queue).result \in Results
          /\ Tail(queue) \in Seq(Jobs)
        BY <1>8, RunningHead, JobFields DEF Complete
    <2>2. outcomes' \in Seq(Outcomes)
        BY <1>8, <2>1 DEF Complete, DataTypeOK, Outcomes
    <2> QED
        BY <1>8, <2>1, <2>2
        DEF Complete, DataTypeOK, syncVars, writerVars, peerVars, eventVars, handlerVars
<1> QED
    BY <1>1, <1>2, <1>3, <1>4, <1>5, <1>6, <1>7, <1>8, <1>9 DEF QueueStep

(* Every step keeps the data in their types. *)
LEMMA NextData == DataTypeOK /\ ReadInProgress /\ [Next]_vars => DataTypeOK'
<1> SUFFICES ASSUME DataTypeOK, ReadInProgress, [Next]_vars PROVE DataTypeOK'
    OBVIOUS
<1>1. ASSUME NEW w \in Writers, WriteAll(w) \/ WriterStep(w) PROVE DataTypeOK'
    BY <1>1, WriterData
<1>2. ASSUME NEW c \in Closers, CloseBegins(c) \/ CloseStep(c) PROVE DataTypeOK'
    BY <1>2, CloserData DEF ClosingThreads
<1>3. CASE SourceFires
    <2>1. queue' \in Seq(Jobs)
        BY <1>3, JobFields DEF SourceFires, DataTypeOK
    <2> QED
        BY <1>3, <2>1
        DEF SourceFires, DataTypeOK, syncVars, writerVars, peerVars, eventVars, handlerVars
<1>4. CASE QueueStep
    BY <1>4, QueueData
<1>5. CASE PeerSends
    BY <1>5, SizesAssumption
    DEF PeerSends, DataTypeOK, syncVars, queueVars, writerVars, eventVars, handlerVars
<1>6. CASE PeerCloses
    BY <1>6
    DEF PeerCloses, DataTypeOK, syncVars, queueVars, writerVars, eventVars, handlerVars
<1>7. CASE DescriptorReused
    BY <1>7, PlainData DEF DescriptorReused, DataTypeOK, queueVars, writerVars
<1>8. CASE UNCHANGED vars
    BY <1>8
    DEF vars, DataTypeOK, syncVars, queueVars, writerVars, peerVars, eventVars, handlerVars
<1>9. CASE InstallHandler
    BY <1>9 DEF InstallHandler, DataTypeOK, syncVars, queueVars, writerVars, peerVars
<1>10. CASE AnnounceData
    BY <1>10 DEF AnnounceData, DataTypeOK, syncVars, queueVars, writerVars, peerVars
<1> QED
    BY <1>1, <1>2, <1>3, <1>4, <1>5, <1>6, <1>7, <1>8, <1>9, <1>10 DEF Next

(* A block put at the end of _q does not change the one that runs. *)
LEMMA AppendKeepsHead ==
    ASSUME DataTypeOK, NEW j \in Jobs, queue' = Append(queue, j), Running("read")
    PROVE  Running("read")'
<1>1. queue \in Seq(Jobs) /\ queue # << >>
    BY DEF DataTypeOK, Running
<1>2. Head(Append(queue, j)) = Head(queue) /\ Append(queue, j) # << >>
    BY <1>1
<1> QED
    BY <1>2 DEF Running

(* Only the read handler itself ends its block. *)
LEMMA NextRead ==
    PCTypeOK /\ DataTypeOK /\ ReadInProgress /\ [Next]_vars => ReadInProgress'
<1> SUFFICES ASSUME PCTypeOK, DataTypeOK, ReadInProgress, [Next]_vars, pc'[QThread] # "idle"
             PROVE  Running("read")'
    BY DEF ReadInProgress
<1> QThread \in Threads
    BY DEF Threads
<1> USE DEF Goto
<1>1. ASSUME NEW w \in Writers, WriteAll(w) \/ WriterStep(w) PROVE Running("read")'
    <2>1. w # QThread
        BY ThreadsAssumption DEF ClosingThreads
    <2>2. pc'[QThread] = pc[QThread]
        BY <1>1, <2>1
        DEF WriteAll, WriterStep, EnterWriteBytes, ClaimForWrite, ClaimTimesOut,
            Schedule, SignalAfterWrite, WriteAllReturns, PCTypeOK
    <2>3. Running("read")
        BY <2>2 DEF ReadInProgress
    <2>4. CASE Schedule(w)
        <3>1. WriteJob(accepted + 1) \in Jobs
            BY JobFields DEF DataTypeOK, Tickets
        <3> QED
            BY <2>3, <2>4, <3>1, AppendKeepsHead DEF Schedule
    <2>5. CASE UNCHANGED queue
        BY <2>3, <2>5 DEF Running
    <2> QED
        BY <1>1, <2>4, <2>5
        DEF WriteAll, WriterStep, EnterWriteBytes, ClaimForWrite, ClaimTimesOut,
            SignalAfterWrite, WriteAllReturns, queueVars
<1>2. ASSUME NEW c \in Closers, CloseBegins(c) \/ CloseStep(c) PROVE Running("read")'
    <2>1. c # QThread
        BY ThreadsAssumption
    <2>2. pc'[QThread] = pc[QThread] /\ UNCHANGED queue
        BY <1>2, <2>1
        DEF CloseBegins, CloseStep, ClaimForClose, ReleaseChannel, CloseDescriptor,
            ReadStatus, MarkUnconnected, PCTypeOK, queueVars
    <2> QED
        BY <2>2 DEF ReadInProgress, Running
<1>3. CASE QueueStep
    <2>1. CASE DeliverData \/ ReadReturns
        BY <2>1 DEF DeliverData, ReadReturns, PCTypeOK
    <2>2. CASE ReceiveData \/ ReceiveNothing \/ ReportEnd \/ CloseAtEOF \/ AlreadyClosed
               \/ CloseStep(QThread)
        <3>1. UNCHANGED queue
            BY <2>2
            DEF ReceiveData, ReceiveNothing, ReportEnd, CloseAtEOF, AlreadyClosed,
                CloseStep, ClaimForClose, ReleaseChannel, CloseDescriptor, ReadStatus,
                MarkUnconnected, queueVars
        <3>2. Running("read")
            BY <2>2
            DEF ReadInProgress, ReceiveData, ReceiveNothing, ReportEnd, CloseAtEOF,
                AlreadyClosed, CloseStep, ClaimForClose, ReleaseChannel, CloseDescriptor,
                ReadStatus, MarkUnconnected
        <3> QED
            BY <3>1, <3>2 DEF Running
    <2>3. CASE (\E k \in 1..WriteLen : SendSome(k)) \/ SendFails \/ Complete
        <3>1. pc' = pc /\ ~Running("read")
            BY <2>3 DEF SendSome, SendFails, Complete, Running
        <3> QED
            BY <3>1 DEF ReadInProgress
    <2> QED
        BY <1>3, <2>1, <2>2, <2>3 DEF QueueStep
<1>4. CASE SourceFires
    <2>1. Running("read")
        BY <1>4 DEF SourceFires, ReadInProgress
    <2> QED
        BY <1>4, <2>1, JobFields, AppendKeepsHead DEF SourceFires
<1>5. CASE InstallHandler \/ AnnounceData \/ PeerSends \/ PeerCloses \/ DescriptorReused
           \/ UNCHANGED vars
    BY <1>5
    DEF InstallHandler, AnnounceData, PeerSends, PeerCloses, DescriptorReused, vars,
        queueVars, ReadInProgress, Running
<1> QED
    BY <1>1, <1>2, <1>3, <1>4, <1>5 DEF Next

(* The types of the data and of the program counters need one another: an  *)
(* end of the read handler takes the head of _q for its own block.         *)
TInv == PCTypeOK /\ DataTypeOK /\ ReadInProgress

(* That is inductive: what a reader needs of the types besides the claim. *)
LEMMA TypeInvariant == Spec => []TInv
<1>1. Init => TInv
    <2> SUFFICES ASSUME Init PROVE TInv
        OBVIOUS
    <2>1. PCTypeOK
        BY DEF Init, PCTypeOK, PCs, WriterPC, CloserPC, Threads
    <2>2. DataTypeOK
        <3>1. << >> \in Seq(Jobs) /\ << >> \in Seq(Outcomes) /\ << >> \in Seq(Bytes)
            OBVIOUS
        <3>2. [w \in Writers |-> 0] \in [Writers -> Nat]
            OBVIOUS
        <3>3. queue \in Seq(Jobs) /\ outcomes \in Seq(Outcomes) /\ wire \in Seq(Bytes)
            BY <3>1 DEF Init
        <3>4. /\ sent \in 0..WriteLen
              /\ calls \in 0..MaxCalls
              /\ arrivals \in 0..MaxIncoming
              /\ incoming \in 0..arrivals
            BY SizesAssumption DEF Init
        <3> QED
            BY <3>2, <3>3, <3>4 DEF Init, DataTypeOK
    <2>3. ReadInProgress
        BY DEF Init, ReadInProgress, Threads
    <2> QED
        BY <2>1, <2>2, <2>3 DEF TInv
<1>2. TInv /\ [Next]_vars => TInv'
    BY NextPC, NextData, NextRead DEF TInv
<1> QED
    BY <1>1, <1>2, PTL DEF Spec

(* Every variable of the socket keeps its type, for all constants. *)
THEOREM TypeCorrect == Spec => []TypeOK
<1>1. TInv /\ IInv => TypeOK
    BY DEF TInv, PCTypeOK, PCs, DataTypeOK, IInv, ClaimTypeOK, TypeOK
<1> QED
    BY <1>1, TypeInvariant, ClaimInvariant, PTL

-----------------------------------------------------------------------------
(* The last event. The source's handler waits for its block, so there is   *)
(* never more than one read block; the one that reports the end of the     *)
(* stream returns only when the source was cancelled, by whoever closed.   *)

OneRead(q) ==
    \A i, j \in 1..Len(q) : q[i].kind = "read" /\ q[j].kind = "read" => i = j
NoRead(q) == \A i \in 1..Len(q) : q[i].kind # "read"

ReadLast ==
    /\ ~socketIO => source = "cancelled"
    /\ pc[QThread] \in {"closefd", "status", "mark", "returned"} => ~socketIO
    /\ OneRead(queue)
    /\ source = "armed" => NoRead(queue)
    /\ disconnects > 0 /\ pc[QThread] = "idle" => source = "cancelled" /\ NoRead(queue)
    /\ pc[QThread] \in {"received", "ended"} => disconnects = 0

(* A block that leaves _q, and one that joins it. *)
LEMMA TailReads ==
    ASSUME NEW q \in Seq(Jobs), q # << >>, OneRead(q)
    PROVE  /\ OneRead(Tail(q))
           /\ NoRead(q) => NoRead(Tail(q))
           /\ Head(q).kind = "read" => NoRead(Tail(q))
<1>1. /\ Len(q) \in Nat /\ Len(q) > 0 /\ Head(q) = q[1]
      /\ Len(Tail(q)) = Len(q) - 1
      /\ \A i \in 1..Len(Tail(q)) : Tail(q)[i] = q[i + 1]
    OBVIOUS
<1>2. \A i \in 1..Len(Tail(q)) : i + 1 \in 1..Len(q) /\ i + 1 # 1
    BY <1>1
<1>3. 1 \in 1..Len(q)
    BY <1>1
<1>4. OneRead(Tail(q))
    <2> SUFFICES ASSUME NEW i \in 1..Len(Tail(q)), NEW j \in 1..Len(Tail(q)),
                        Tail(q)[i].kind = "read", Tail(q)[j].kind = "read"
                 PROVE  i = j
        BY DEF OneRead
    <2>1. q[i + 1].kind = "read" /\ q[j + 1].kind = "read"
        BY <1>1
    <2>2. i + 1 = j + 1
        BY <1>2, <2>1 DEF OneRead
    <2> QED
        BY <2>2
<1>5. NoRead(q) => NoRead(Tail(q))
    BY <1>1, <1>2 DEF NoRead
<1>6. Head(q).kind = "read" => NoRead(Tail(q))
    BY <1>1, <1>2, <1>3 DEF OneRead, NoRead
<1> QED
    BY <1>4, <1>5, <1>6

LEMMA AppendReads ==
    ASSUME NEW q \in Seq(Jobs), NEW job \in Jobs, OneRead(q)
    PROVE  /\ NoRead(q) => OneRead(Append(q, job))
           /\ job.kind # "read" => OneRead(Append(q, job))
           /\ job.kind # "read" /\ NoRead(q) => NoRead(Append(q, job))
<1>1. /\ Len(q) \in Nat /\ Len(Append(q, job)) = Len(q) + 1
      /\ \A i \in 1..Len(q) : Append(q, job)[i] = q[i]
      /\ Append(q, job)[Len(q) + 1] = job
    OBVIOUS
<1>2. \A i \in 1..(Len(q) + 1) : i \in 1..Len(q) \/ i = Len(q) + 1
    BY <1>1
<1> QED
    BY <1>1, <1>2 DEF OneRead, NoRead

(* A step that leaves the source, the channel and the reading alone. *)
LEMMA QuietStep ==
    ASSUME ReadLast, UNCHANGED <<socketIO, source, disconnects>>,
           pc'[QThread] = pc[QThread],
           OneRead(queue)', NoRead(queue) => NoRead(queue)'
    PROVE  ReadLast'
BY DEF ReadLast

LEMMA ReleaseLast ==
    ASSUME ReadLast, NEW c \in ClosingThreads, ReleaseChannel(c)
    PROVE  ReadLast'
<1>1. /\ socketIO' = FALSE /\ source' = "cancelled"
      /\ UNCHANGED <<queue, disconnects>>
      /\ pc[c] = "release" /\ pc' = [pc EXCEPT ![c] = "closefd"]
    BY DEF ReleaseChannel, Goto, eventVars
<1>2. pc'[QThread] = "idle" => pc[QThread] = "idle"
    BY <1>1
<1> QED
    BY <1>1, <1>2 DEF ReadLast, OneRead, NoRead

LEMMA WriterLast ==
    ASSUME TInv, ReadLast, NEW w \in Writers, WriteAll(w) \/ WriterStep(w)
    PROVE  ReadLast'
<1> USE DEF Goto
<1>1. /\ UNCHANGED <<socketIO, source, disconnects>>
      /\ pc'[QThread] = pc[QThread]
    <2>1. w # QThread
        BY ThreadsAssumption DEF ClosingThreads
    <2>2. pc \in [Threads -> PCs] /\ QThread \in Threads
        BY DEF TInv, PCTypeOK, PCs, Threads
    <2> QED
        BY <2>1, <2>2
        DEF WriteAll, WriterStep, EnterWriteBytes, ClaimForWrite, ClaimTimesOut,
            Schedule, SignalAfterWrite, WriteAllReturns, syncVars, queueVars, eventVars
<1>2. CASE Schedule(w)
    <2>1. WriteJob(accepted + 1) \in Jobs /\ WriteJob(accepted + 1).kind = "write"
        BY JobFields DEF TInv, DataTypeOK, Tickets, WriteJob
    <2>2. queue \in Seq(Jobs) /\ OneRead(queue)
        BY DEF TInv, DataTypeOK, ReadLast
    <2>3. /\ OneRead(Append(queue, WriteJob(accepted + 1)))
          /\ NoRead(queue) => NoRead(Append(queue, WriteJob(accepted + 1)))
        BY <2>1, <2>2, AppendReads
    <2>4. OneRead(queue)' /\ (NoRead(queue) => NoRead(queue)')
        BY <1>2, <2>3 DEF Schedule
    <2> QED
        BY <1>1, <2>4, QuietStep
<1>3. CASE UNCHANGED queue
    BY <1>1, <1>3, QuietStep DEF ReadLast, OneRead, NoRead
<1> QED
    BY <1>2, <1>3
    DEF WriteAll, WriterStep, EnterWriteBytes, ClaimForWrite, ClaimTimesOut,
        SignalAfterWrite, WriteAllReturns, queueVars

LEMMA CloserLast ==
    ASSUME TInv, ReadLast, NEW c \in Closers, CloseBegins(c) \/ CloseStep(c)
    PROVE  ReadLast'
<1>1. c # QThread /\ c \in ClosingThreads
    BY ThreadsAssumption DEF ClosingThreads
<1>0. pc \in [Threads -> PCs] /\ QThread \in Threads
    BY DEF TInv, PCTypeOK, PCs, Threads
<1>2. CASE ReleaseChannel(c)
    BY <1>1, <1>2, ReleaseLast
<1>3. CASE ~ReleaseChannel(c)
    <2>1. UNCHANGED <<socketIO, source, disconnects, queue>> /\ pc'[QThread] = pc[QThread]
        BY <1>0, <1>1, <1>3
        DEF CloseBegins, CloseStep, ClaimForClose, CloseDescriptor, ReadStatus,
            MarkUnconnected, Goto, syncVars, queueVars, eventVars
    <2> QED
        BY <2>1, QuietStep DEF ReadLast, OneRead, NoRead
<1> QED
    BY <1>2, <1>3

(* The read handler, which may close the socket itself. *)
LEMMA HandlerLast ==
    ASSUME TInv, ReadLast, CloseAtEOF \/ AlreadyClosed \/ ReadReturns \/ CloseStep(QThread)
    PROVE  ReadLast'
<1> USE DEF Goto
<1>0. QThread \in ClosingThreads /\ QThread \in Threads /\ pc[QThread] # "idle"
    BY DEF ClosingThreads, Threads, CloseAtEOF, AlreadyClosed, ReadReturns, CloseStep,
           ClaimForClose, ReleaseChannel, CloseDescriptor, ReadStatus, MarkUnconnected
<1>1. CASE ReleaseChannel(QThread)
    BY <1>0, <1>1, ReleaseLast
<1>2. CASE ReadReturns
    <2>1. Running("read")
        BY <1>0 DEF TInv, ReadInProgress
    <2>2. source = "cancelled" /\ ~socketIO
        BY <1>2 DEF ReadReturns, ReadLast
    <2>3. /\ source' = "cancelled" /\ queue' = Tail(queue)
          /\ pc'[QThread] = "idle" /\ socketIO' = socketIO
        BY <1>0, <1>2, <2>2
        DEF ReadReturns, ReadEnds, syncVars, TInv, PCTypeOK
    <2>4. queue \in Seq(Jobs) /\ queue # << >> /\ Head(queue).kind = "read"
        BY <2>1 DEF TInv, DataTypeOK, Running
    <2>5. OneRead(Tail(queue)) /\ NoRead(Tail(queue))
        BY <2>4, TailReads DEF ReadLast
    <2> QED
        BY <2>2, <2>3, <2>5 DEF ReadLast
<1>3. CASE CloseAtEOF \/ AlreadyClosed \/ ClaimForClose(QThread) \/ CloseDescriptor(QThread)
           \/ ReadStatus(QThread) \/ MarkUnconnected(QThread)
    <2>1. UNCHANGED <<socketIO, source, queue>>
        BY <1>3
        DEF CloseAtEOF, AlreadyClosed, ClaimForClose, CloseDescriptor, ReadStatus,
            MarkUnconnected, syncVars, queueVars
    <2>2. /\ pc'[QThread] \notin {"idle", "received", "ended"}
          /\ pc'[QThread] \in {"closefd", "status", "mark", "returned"} => ~socketIO
        BY <1>0, <1>3
        DEF CloseAtEOF, AlreadyClosed, ClaimForClose, CloseDescriptor, ReadStatus,
            MarkUnconnected, AfterClose, ReadLast, TInv, PCTypeOK
    <2> QED
        BY <2>1, <2>2 DEF ReadLast, OneRead, NoRead
<1> QED
    BY <1>1, <1>2, <1>3 DEF CloseStep

(* The other blocks of _q. *)
LEMMA BlockLast ==
    ASSUME TInv, ReadLast,
           ReceiveData \/ DeliverData \/ ReceiveNothing \/ ReportEnd
               \/ (\E k \in 1..WriteLen : SendSome(k)) \/ SendFails \/ Complete
    PROVE  ReadLast'
<1>0. queue \in Seq(Jobs) /\ OneRead(queue) /\ disconnects \in Nat
    BY DEF TInv, DataTypeOK, ReadLast
<1>1. queue # << >>
    BY DEF ReceiveData, DeliverData, ReceiveNothing, ReportEnd, SendSome, SendFails,
           Complete, Running, Goto, TInv, ReadInProgress
<1>2. /\ OneRead(Tail(queue)) /\ Tail(queue) \in Seq(Jobs)
      /\ NoRead(queue) => NoRead(Tail(queue))
      /\ Head(queue).kind = "read" => NoRead(Tail(queue))
    BY <1>0, <1>1, TailReads
<1>3. CASE ReceiveData \/ ReceiveNothing
    <2>1. Head(queue).kind = "read" /\ pc[QThread] = "idle"
        BY <1>3 DEF ReceiveData, ReceiveNothing, Running, Goto
    <2>2. 1 \in 1..Len(queue) /\ queue[1].kind = "read"
        BY <1>0, <1>1, <2>1
    <2>3. disconnects = 0
        BY <1>0, <2>1, <2>2 DEF ReadLast, NoRead
    <2>4. /\ UNCHANGED <<socketIO, source, queue, disconnects>>
          /\ pc'[QThread] \in {"received", "ended"}
        BY <1>3
        DEF ReceiveData, ReceiveNothing, Goto, syncVars, queueVars, eventVars, TInv,
            PCTypeOK, Threads
    <2> QED
        BY <2>3, <2>4 DEF ReadLast, OneRead, NoRead
<1>4. CASE DeliverData
    <2>1. pc[QThread] = "received" /\ Head(queue).kind = "read"
        BY <1>4 DEF DeliverData, Goto, TInv, ReadInProgress, Running
    <2>2. disconnects = 0
        BY <2>1 DEF ReadLast
    <2>3. /\ queue' = Tail(queue) /\ UNCHANGED <<socketIO, disconnects>>
          /\ pc'[QThread] = "idle"
          /\ source' = IF source = "firing" THEN "armed" ELSE source
        BY <1>4 DEF DeliverData, ReadEnds, Goto, syncVars, TInv, PCTypeOK, Threads
    <2> QED
        BY <1>2, <2>1, <2>2, <2>3 DEF ReadLast
<1>6. CASE ReportEnd
    <2>1. UNCHANGED <<socketIO, source, queue>> /\ pc'[QThread] = "eof"
        BY <1>6 DEF ReportEnd, Goto, syncVars, queueVars, TInv, PCTypeOK, Threads
    <2> QED
        BY <2>1 DEF ReadLast, OneRead, NoRead
<1>5. CASE (\E k \in 1..WriteLen : SendSome(k)) \/ SendFails \/ Complete
    <2>1. UNCHANGED <<socketIO, source, disconnects, pc>>
        BY <1>5 DEF SendSome, SendFails, Complete, syncVars, eventVars
    <2>2. CASE queue' = queue \/ queue' = Tail(queue)
        BY <1>0, <1>2, <2>1, <2>2, QuietStep DEF OneRead, NoRead
    <2>3. CASE \E r \in Results : queue' = Append(Tail(queue), DoneJob(Head(queue).ticket, r))
        <3>1. PICK r \in Results :
                  queue' = Append(Tail(queue), DoneJob(Head(queue).ticket, r))
            BY <2>3
        <3>2. Running("write") \/ Running("done")
            BY <1>5 DEF SendSome, SendFails, Complete
        <3>3. Head(queue).ticket \in Tickets
            BY <3>2, RunningHead, JobFields DEF TInv
        <3> DEFINE job == DoneJob(Head(queue).ticket, r)
        <3>4. job \in Jobs /\ job.kind # "read"
            BY <3>3, JobFields DEF DoneJob
        <3> HIDE DEF job
        <3>5. OneRead(Append(Tail(queue), job))
            BY <1>2, <3>4, AppendReads
        <3>6. NoRead(queue) => NoRead(Append(Tail(queue), job))
            BY <1>2, <3>4, AppendReads
        <3>7. queue' = Append(Tail(queue), job)
            BY <3>1 DEF job
        <3> QED
            BY <2>1, <3>5, <3>6, <3>7, QuietStep
    <2> QED
        BY <1>5, <2>2, <2>3 DEF SendSome, SendFails, Complete, Results
<1> QED
    BY <1>3, <1>4, <1>5, <1>6

LEMMA SourceLast ==
    ASSUME TInv, ReadLast, SourceFires
    PROVE  ReadLast'
<1>1. /\ source = "armed" /\ source' = "firing" /\ queue' = Append(queue, ReadJob)
      /\ UNCHANGED <<socketIO, disconnects, pc>>
    BY DEF SourceFires, syncVars, eventVars
<1>2. OneRead(Append(queue, ReadJob))
    BY <1>1, AppendReads, JobFields DEF TInv, DataTypeOK, ReadLast
<1> QED
    BY <1>1, <1>2 DEF ReadLast

LEMMA NextLast == TInv /\ ReadLast /\ [Next]_vars => ReadLast'
<1> SUFFICES ASSUME TInv, ReadLast, [Next]_vars PROVE ReadLast'
    OBVIOUS
<1>1. ASSUME NEW w \in Writers, WriteAll(w) \/ WriterStep(w) PROVE ReadLast'
    BY <1>1, WriterLast
<1>2. ASSUME NEW c \in Closers, CloseBegins(c) \/ CloseStep(c) PROVE ReadLast'
    BY <1>2, CloserLast
<1>3. CASE QueueStep
    BY <1>3, HandlerLast, BlockLast DEF QueueStep
<1>4. CASE InstallHandler \/ AnnounceData \/ PeerSends \/ PeerCloses \/ DescriptorReused
           \/ UNCHANGED vars
    <2>1. UNCHANGED <<socketIO, source, disconnects, queue, pc>>
        BY <1>4
        DEF InstallHandler, AnnounceData, PeerSends, PeerCloses, DescriptorReused, vars,
            syncVars, queueVars, eventVars
    <2> QED
        BY <2>1, QuietStep DEF ReadLast, OneRead, NoRead
<1> QED
    BY <1>1, <1>2, <1>3, <1>4, SourceLast DEF Next

(* The end of the stream is reported once and nothing is received after it: *)
(* the source fires no more, although the descriptor stays readable, for    *)
(* the read handler returns only when -close has cancelled it. A handler    *)
(* that is installed afterwards is told of what was in the reader before.   *)
THEOREM DisconnectFinal == Spec => DisconnectIsFinal
<1>1. Init => ReadLast
    BY DEF Init, ReadLast, OneRead, NoRead, Threads
<1>2. TInv /\ ReadLast /\ [Next]_vars
          => [disconnects > 0 => disconnects' = disconnects /\ reader' <= reader]_vars
    <2> SUFFICES ASSUME TInv, ReadLast, [Next]_vars, disconnects > 0
                 PROVE  disconnects' = disconnects /\ reader' <= reader
        OBVIOUS
    <2> DEFINE NoEvent == UNCHANGED <<disconnects, reader>>
    <2>0. reader \in Nat
        BY DEF TInv, DataTypeOK
    <2>1. ~ReceiveData /\ ~ReceiveNothing /\ ~DeliverData /\ ~ReportEnd
        <3>0. pc[QThread] \notin {"received", "ended"}
            BY DEF ReadLast
        <3> SUFFICES ASSUME Running("read"), pc[QThread] = "idle" PROVE FALSE
            BY <3>0 DEF ReceiveData, ReceiveNothing, DeliverData, ReportEnd, Goto
        <3>1. queue \in Seq(Jobs) /\ queue # << >> /\ Head(queue).kind = "read"
            BY DEF TInv, DataTypeOK, Running
        <3>2. 1 \in 1..Len(queue) /\ queue[1].kind = "read"
            BY <3>1
        <3> QED
            BY <3>2 DEF ReadLast, NoRead
    <2>2. ASSUME NEW w \in Writers, WriteAll(w) \/ WriterStep(w) PROVE NoEvent
        BY <2>2
        DEF WriteAll, WriterStep, EnterWriteBytes, ClaimForWrite, ClaimTimesOut,
            Schedule, SignalAfterWrite, WriteAllReturns, eventVars
    <2>3. ASSUME NEW c \in ClosingThreads, CloseBegins(c) \/ CloseStep(c)
          PROVE  NoEvent
        BY <2>3
        DEF CloseBegins, CloseStep, ClaimForClose, ReleaseChannel, CloseDescriptor,
            ReadStatus, MarkUnconnected, eventVars
    <2>4. ASSUME QueueStep PROVE NoEvent
        <3>1. CASE CloseStep(QThread)
            BY <2>3, <3>1 DEF ClosingThreads
        <3>2. CASE ~CloseStep(QThread)
            BY <2>1, <2>4, <3>2
            DEF QueueStep, CloseAtEOF, AlreadyClosed, ReadReturns, SendSome, SendFails,
                Complete, eventVars
        <3> QED
            BY <3>1, <3>2
    <2>5. CASE SourceFires \/ PeerSends \/ PeerCloses \/ DescriptorReused \/ UNCHANGED vars
        BY <2>0, <2>5
        DEF SourceFires, PeerSends, PeerCloses, DescriptorReused, vars, eventVars
    <2>6. CASE InstallHandler \/ AnnounceData
        BY <2>0, <2>6 DEF InstallHandler, AnnounceData
    <2> QED
        BY <2>0, <2>2, <2>3, <2>4, <2>5, <2>6 DEF Next, ClosingThreads
<1> QED
    BY <1>1, <1>2, NextLast, TypeInvariant, PTL DEF Spec, DisconnectIsFinal

-----------------------------------------------------------------------------
(***************************************************************************)
(* The socket implements WriteQueue: whatever the threads, the semaphore   *)
(* and the kernel do, a write is accepted only while the channel is there  *)
(* and the completion handlers run once each, in the order of acceptance.  *)
(*                                                                         *)
(* A write is on _q twice, as the write block and later as the block of    *)
(* its completion handler, and new writes come in between the two. What    *)
(* orders the completions is that both kinds of block are in the order of  *)
(* the tickets, with every completion's ticket below every write's.        *)
(***************************************************************************)
Positions == 1..Len(queue)
Unsettled == (Len(outcomes) + 1)..accepted

(* A block that has a ticket still to be settled, a write or a completion. *)
Pending(i) == queue[i].kind # "read"

TicketsUnsettled ==
    \A i \in Positions : Pending(i) => queue[i].ticket \in Unsettled

UnsettledQueued ==
    \A n \in Unsettled : \E i \in Positions : Pending(i) /\ queue[i].ticket = n

DonesBeforeWrites ==
    \A i, j \in Positions :
        queue[i].kind = "done" /\ queue[j].kind = "write"
            => queue[i].ticket < queue[j].ticket

KindInOrder(kind) ==
    \A i, j \in Positions :
        queue[i].kind = kind /\ queue[j].kind = kind /\ i < j
            => queue[i].ticket < queue[j].ticket

SettledInOrder ==
    /\ Len(outcomes) <= accepted
    /\ \A i \in 1..Len(outcomes) : outcomes[i][1] = i

OrderInv ==
    /\ TicketsUnsettled
    /\ UnsettledQueued
    /\ DonesBeforeWrites
    /\ KindInOrder("done")
    /\ KindInOrder("write")
    /\ SettledInOrder

(* What a block is made of. *)
LEMMA JobKinds ==
    /\ \A j \in Jobs : j.kind \in {"write", "done", "read"}
    /\ \A n \in Tickets : WriteJob(n).kind = "write" /\ WriteJob(n).ticket = n
    /\ \A n \in Tickets, r \in Results :
           DoneJob(n, r).kind = "done" /\ DoneJob(n, r).ticket = n
    /\ ReadJob.kind = "read"
BY DEF WriteJob, DoneJob, ReadJob, Jobs

(* The positions of a queue that gets a block at its end. *)
LEMMA AppendPositions ==
    ASSUME NEW s \in Seq(Jobs), NEW j \in Jobs
    PROVE  /\ Append(s, j) \in Seq(Jobs)
           /\ Len(s) \in Nat
           /\ Len(Append(s, j)) = Len(s) + 1
           /\ Append(s, j)[Len(s) + 1] = j
           /\ \A i \in 1..Len(s) : Append(s, j)[i] = s[i]
OBVIOUS

(* The positions of a queue that loses its head. *)
LEMMA TailPositions ==
    ASSUME NEW s \in Seq(Jobs), s # << >>
    PROVE  /\ Tail(s) \in Seq(Jobs)
           /\ Len(s) \in Nat \ {0}
           /\ Len(Tail(s)) = Len(s) - 1
           /\ Head(s) = s[1]
           /\ \A i \in 1..(Len(s) - 1) : Tail(s)[i] = s[i + 1]
OBVIOUS

(* The steps that do not touch _q. *)
LEMMA OrderElsewhere ==
    ASSUME OrderInv, UNCHANGED <<queue, accepted, outcomes>>
    PROVE  OrderInv'
BY DEF OrderInv, Pending, Positions, Unsettled, TicketsUnsettled, UnsettledQueued,
       DonesBeforeWrites, KindInOrder, SettledInOrder

(* A new write has the last ticket of all. *)
LEMMA OrderSchedule ==
    ASSUME DataTypeOK, OrderInv, NEW w \in Writers, Schedule(w)
    PROVE  OrderInv'
<1> DEFINE n == Len(queue)
<1>1. queue' = Append(queue, WriteJob(accepted + 1)) /\ accepted' = accepted + 1
      /\ outcomes' = outcomes
    BY DEF Schedule
<1>2. accepted + 1 \in Tickets /\ accepted \in Nat /\ queue \in Seq(Jobs)
      /\ WriteJob(accepted + 1) \in Jobs /\ Len(outcomes) \in Nat
    BY JobFields DEF DataTypeOK, Tickets
<1>3. /\ n \in Nat
      /\ Len(queue') = n + 1
      /\ \A i \in 1..n : queue'[i] = queue[i]
      /\ queue'[n + 1].kind = "write"
      /\ queue'[n + 1].ticket = accepted + 1
    BY <1>1, <1>2, AppendPositions, JobKinds
<1>4. Unsettled' = Unsettled \cup {accepted + 1}
    BY <1>1, <1>2 DEF Unsettled, OrderInv, SettledInOrder
<1>5. Positions' = Positions \cup {n + 1} /\ Positions = 1..n
    BY <1>3 DEF Positions
<1>6. \A i \in Positions : Pending(i) => queue[i].ticket < accepted + 1
    BY <1>2 DEF OrderInv, TicketsUnsettled, Unsettled
<1>7. TicketsUnsettled'
    BY <1>3, <1>4, <1>5 DEF OrderInv, TicketsUnsettled, Pending
<1>8. UnsettledQueued'
    BY <1>3, <1>4, <1>5, SMTT(20) DEF OrderInv, UnsettledQueued, Pending
<1>9. DonesBeforeWrites'
    BY <1>3, <1>5, <1>6 DEF OrderInv, DonesBeforeWrites, Pending
<1>10. KindInOrder("done")' /\ KindInOrder("write")'
    BY <1>3, <1>5, <1>6, SMTT(20) DEF OrderInv, KindInOrder, Pending
<1> QED
    BY <1>1, <1>2, <1>7, <1>8, <1>9, <1>10 DEF OrderInv, SettledInOrder

(* A read block carries no ticket. *)
LEMMA OrderSource ==
    ASSUME DataTypeOK, OrderInv, SourceFires
    PROVE  OrderInv'
<1> DEFINE n == Len(queue)
<1>1. queue' = Append(queue, ReadJob) /\ UNCHANGED <<accepted, outcomes>>
    BY DEF SourceFires, writerVars
<1>2. /\ n \in Nat
      /\ Len(queue') = n + 1
      /\ \A i \in 1..n : queue'[i] = queue[i]
      /\ queue'[n + 1].kind = "read"
    BY <1>1, AppendPositions, JobFields, JobKinds DEF DataTypeOK
<1>3. Positions' = Positions \cup {n + 1} /\ Positions = 1..n
    BY <1>2 DEF Positions
<1>4. Unsettled' = Unsettled
    BY <1>1 DEF Unsettled
<1>5. TicketsUnsettled' /\ UnsettledQueued'
    BY <1>2, <1>3, <1>4 DEF OrderInv, TicketsUnsettled, UnsettledQueued, Pending
<1>6. DonesBeforeWrites' /\ KindInOrder("done")' /\ KindInOrder("write")'
    BY <1>2, <1>3 DEF OrderInv, DonesBeforeWrites, KindInOrder
<1> QED
    BY <1>1, <1>5, <1>6 DEF OrderInv, SettledInOrder

(* What holds of the positions of _q behind the head, moved up by one, and *)
(* of the tickets there.                                                   *)
LEMMA MovedUp ==
    ASSUME DataTypeOK, queue # << >>, Len(queue') = Len(queue) - 1,
           \A i \in 1..(Len(queue) - 1) : queue'[i] = queue[i + 1]
    PROVE  /\ \A i \in Positions' : i + 1 \in Positions /\ queue'[i] = queue[i + 1]
           /\ \A i \in Positions : i # 1 => i - 1 \in Positions' /\ queue'[i - 1] = queue[i]
<1>1. Len(queue) \in Nat \ {0}
    BY TailPositions DEF DataTypeOK
<1> QED
    BY <1>1 DEF Positions

(* Blocks that move up stay in order. *)
LEMMA MovedUpInOrder ==
    ASSUME OrderInv,
           \A i \in Positions' : i + 1 \in Positions /\ queue'[i] = queue[i + 1]
    PROVE  DonesBeforeWrites' /\ KindInOrder("done")' /\ KindInOrder("write")'
<1>1. DonesBeforeWrites'
    BY DEF OrderInv, DonesBeforeWrites
<1>2. ASSUME NEW kind, KindInOrder(kind) PROVE KindInOrder(kind)'
    <2> SUFFICES ASSUME NEW i \in Positions', NEW j \in Positions', i < j,
                        queue'[i].kind = kind, queue'[j].kind = kind
                 PROVE  queue'[i].ticket < queue'[j].ticket
        BY DEF KindInOrder
    <2>1. i + 1 < j + 1
        BY DEF Positions
    <2> QED
        BY <1>2, <2>1 DEF KindInOrder
<1> QED
    BY <1>1, <1>2 DEF OrderInv

(* The end of a read block moves the others up. *)
LEMMA OrderReadEnds ==
    ASSUME DataTypeOK, OrderInv, Running("read"), queue' = Tail(queue),
           UNCHANGED <<accepted, outcomes>>
    PROVE  OrderInv'
<1>1. queue \in Seq(Jobs) /\ queue # << >> /\ queue[1].kind = "read"
    BY TailPositions DEF Running, DataTypeOK
<1>2. /\ \A i \in Positions' : i + 1 \in Positions /\ queue'[i] = queue[i + 1]
      /\ \A i \in Positions : i # 1 => i - 1 \in Positions' /\ queue'[i - 1] = queue[i]
    BY <1>1, TailPositions, MovedUp
<1>3. Unsettled' = Unsettled
    BY DEF Unsettled
<1>4. TicketsUnsettled'
    <2> SUFFICES ASSUME NEW i \in Positions', Pending(i)'
                 PROVE  queue'[i].ticket \in Unsettled'
        BY DEF TicketsUnsettled
    <2>1. i + 1 \in Positions /\ Pending(i + 1) /\ queue'[i] = queue[i + 1]
        BY <1>2 DEF Pending
    <2> QED
        BY <1>3, <2>1 DEF OrderInv, TicketsUnsettled
<1>5. UnsettledQueued'
    <2> SUFFICES ASSUME NEW m \in Unsettled'
                 PROVE  \E i \in Positions' : Pending(i)' /\ queue'[i].ticket = m
        BY DEF UnsettledQueued
    <2>1. PICK i \in Positions : Pending(i) /\ queue[i].ticket = m
        BY <1>3 DEF OrderInv, UnsettledQueued
    <2>2. i # 1
        BY <1>1, <2>1 DEF Pending
    <2>3. i - 1 \in Positions' /\ queue'[i - 1] = queue[i]
        BY <1>2, <2>2
    <2> QED
        BY <2>1, <2>3 DEF Pending
<1>6. DonesBeforeWrites' /\ KindInOrder("done")' /\ KindInOrder("write")'
    BY <1>2, MovedUpInOrder
<1>7. SettledInOrder'
    BY DEF OrderInv, SettledInOrder
<1> QED
    BY <1>4, <1>5, <1>6, <1>7 DEF OrderInv

(* A write that ends goes to the back as the completion with the highest   *)
(* ticket, and every write that is left has a higher one.                  *)
LEMMA OrderWriteEnds ==
    ASSUME DataTypeOK, OrderInv, Running("write"), NEW r \in Results,
           queue' = Append(Tail(queue), DoneJob(Head(queue).ticket, r)),
           UNCHANGED <<accepted, outcomes>>
    PROVE  OrderInv'
<1> DEFINE n == Len(queue)
           t == queue[1].ticket
<1>1. /\ queue \in Seq(Jobs) /\ queue # << >> /\ n \in Nat \ {0}
      /\ Head(queue) = queue[1] /\ queue[1] \in Jobs /\ queue[1].kind = "write"
    BY TailPositions, RunningHead DEF Running, DataTypeOK
<1>2. t \in Tickets /\ DoneJob(t, r) \in Jobs
    BY <1>1, JobFields
<1>3. /\ Len(queue') = n
      /\ \A i \in 1..(n - 1) : queue'[i] = queue[i + 1]
      /\ queue'[n].kind = "done" /\ queue'[n].ticket = t
    BY <1>1, <1>2, TailPositions, AppendPositions, JobKinds
<1>4. Positions = 1..n /\ Positions' = 1..n /\ 1 \in Positions /\ n \in Positions'
    BY <1>1, <1>3 DEF Positions
<1>5. \A i \in Positions' :
          i # n => i + 1 \in Positions /\ i + 1 # 1 /\ queue'[i] = queue[i + 1]
    <2> SUFFICES ASSUME NEW i \in 1..n, i # n
                 PROVE  i + 1 \in 1..n /\ i + 1 # 1 /\ queue'[i] = queue[i + 1]
        BY <1>4
    <2>1. i \in 1..(n - 1) /\ i + 1 \in 1..n /\ i + 1 # 1
        BY <1>1
    <2> QED
        BY <1>3, <2>1
<1>6. \A i \in Positions :
          i # 1 => i - 1 \in Positions' /\ queue'[i - 1] = queue[i]
    BY <1>1, <1>3, <1>4
<1>7. \A i, j \in Positions' : i < j => i # n /\ i + 1 < j + 1
    BY <1>4
<1>8. Unsettled' = Unsettled
    BY DEF Unsettled
<1>9. TicketsUnsettled'
    <2>1. t \in Unsettled
        BY <1>1, <1>4 DEF OrderInv, TicketsUnsettled, Pending
    <2>2. ASSUME NEW i \in Positions', Pending(i)', i # n
          PROVE  queue'[i].ticket \in Unsettled
        BY <1>5, <2>2 DEF OrderInv, TicketsUnsettled, Pending
    <2> QED
        BY <1>3, <1>8, <2>1, <2>2 DEF TicketsUnsettled, Pending
<1>10. UnsettledQueued'
    <2> SUFFICES ASSUME NEW m \in Unsettled
                 PROVE  \E i \in Positions' : Pending(i)' /\ queue'[i].ticket = m
        BY <1>8 DEF UnsettledQueued
    <2>1. PICK i \in Positions : Pending(i) /\ queue[i].ticket = m
        BY DEF OrderInv, UnsettledQueued
    <2>2. CASE i = 1
        BY <1>3, <1>4, <2>1, <2>2 DEF Pending
    <2>3. CASE i # 1
        BY <1>6, <2>1, <2>3 DEF Pending
    <2> QED
        BY <2>2, <2>3
<1>11. \A i \in Positions : i # 1 /\ queue[i].kind = "write" => t < queue[i].ticket
    BY <1>1, <1>4 DEF OrderInv, KindInOrder
<1>12. \A i \in Positions : queue[i].kind = "done" => queue[i].ticket < t
    BY <1>1, <1>4 DEF OrderInv, DonesBeforeWrites
<1>13. DonesBeforeWrites'
    BY <1>3, <1>5, <1>11 DEF OrderInv, DonesBeforeWrites
<1>14. KindInOrder("done")'
    BY <1>3, <1>5, <1>7, <1>12 DEF OrderInv, KindInOrder
<1>15. KindInOrder("write")'
    BY <1>3, <1>5, <1>7 DEF OrderInv, KindInOrder
<1> QED
    BY <1>9, <1>10, <1>13, <1>14, <1>15 DEF OrderInv, SettledInOrder

(* The completion at the head is that of the first write not settled yet:  *)
(* the block of that write is nowhere behind it.                           *)
LEMMA NextToSettle ==
    ASSUME DataTypeOK, OrderInv, Running("done")
    PROVE  Head(queue).ticket = Len(outcomes) + 1 /\ Len(outcomes) < accepted
<1> DEFINE m == Len(outcomes) + 1
<1>1. /\ queue \in Seq(Jobs) /\ queue # << >> /\ Head(queue) = queue[1]
      /\ Len(queue) \in Nat \ {0} /\ queue[1].kind = "done"
      /\ accepted \in Nat /\ Len(outcomes) \in Nat
    BY TailPositions DEF Running, DataTypeOK
<1>2. 1 \in Positions /\ \A i \in Positions : i # 1 => 1 < i
    BY <1>1 DEF Positions
<1>3. queue[1].ticket \in m..accepted
    <2>1. Pending(1)
        BY <1>1 DEF Pending
    <2> QED
        BY <1>2, <2>1 DEF OrderInv, TicketsUnsettled, Unsettled
<1>4. PICK i \in Positions : Pending(i) /\ queue[i].ticket = m
    <2>1. m \in Unsettled
        BY <1>1, <1>3 DEF Unsettled
    <2> QED
        BY <2>1 DEF OrderInv, UnsettledQueued
<1>5. queue[i].kind \in {"write", "done"}
    BY <1>1, <1>4, JobKinds DEF Pending, Positions
<1>6. i # 1 => queue[1].ticket < m
    BY <1>1, <1>2, <1>4, <1>5 DEF OrderInv, DonesBeforeWrites, KindInOrder
<1> QED
    BY <1>1, <1>3, <1>4, <1>6

(* A settled write leaves the queue, and the next one is the first. *)
LEMMA OrderComplete ==
    ASSUME DataTypeOK, OrderInv, Complete
    PROVE  OrderInv'
<1> DEFINE m == Len(outcomes) + 1
<1>1. /\ queue \in Seq(Jobs) /\ queue # << >> /\ Len(queue) \in Nat \ {0}
      /\ queue[1].kind = "done" /\ queue[1].ticket = m
      /\ accepted \in Nat /\ Len(outcomes) \in Nat /\ Len(outcomes) < accepted
    BY TailPositions, NextToSettle DEF Complete, Running, DataTypeOK
<1>2. accepted' = accepted /\ queue' = Tail(queue)
    BY DEF Complete, writerVars
<1>3. /\ \A i \in Positions' : i + 1 \in Positions /\ queue'[i] = queue[i + 1]
      /\ \A i \in Positions : i # 1 => i - 1 \in Positions' /\ queue'[i - 1] = queue[i]
    BY <1>1, <1>2, TailPositions, MovedUp
<1>4. 1 \in Positions /\ \A i \in Positions : i # 1 => 1 < i
    BY <1>1 DEF Positions
<1>5. \A i \in Positions' : i + 1 # 1
    BY DEF Positions
<1>6. /\ Len(outcomes') = m
      /\ outcomes'[m][1] = m
      /\ \A i \in 1..Len(outcomes) : outcomes'[i] = outcomes[i]
    <2>1. outcomes \in Seq(Outcomes)
        BY DEF DataTypeOK
    <2>2. outcomes' = Append(outcomes, <<m, Head(queue).result>>)
        BY <1>1, TailPositions DEF Complete
    <2> QED
        BY <2>1, <2>2
<1>7. Unsettled = Unsettled' \cup {m} /\ m \notin Unsettled'
    BY <1>1, <1>2, <1>6 DEF Unsettled
<1>8. \A i \in Positions : i # 1 /\ Pending(i) => queue[i].ticket # m
    <2> SUFFICES ASSUME NEW i \in Positions, i # 1, Pending(i), queue[i].ticket = m
                 PROVE  FALSE
        OBVIOUS
    <2>1. queue[i].kind \in {"write", "done"}
        BY <1>1, JobKinds DEF Pending, Positions
    <2> QED
        BY <1>1, <1>4, <2>1 DEF OrderInv, DonesBeforeWrites, KindInOrder
<1>9. TicketsUnsettled'
    BY <1>3, <1>5, <1>7, <1>8 DEF OrderInv, TicketsUnsettled, Pending
<1>10. UnsettledQueued'
    BY <1>1, <1>3, <1>7 DEF OrderInv, UnsettledQueued, Pending
<1>11. DonesBeforeWrites' /\ KindInOrder("done")' /\ KindInOrder("write")'
    BY <1>3, MovedUpInOrder
<1>12. SettledInOrder'
    BY <1>1, <1>2, <1>6 DEF OrderInv, SettledInOrder
<1> QED
    BY <1>9, <1>10, <1>11, <1>12 DEF OrderInv

(* Every step keeps the order. *)
LEMMA NextOrder == TInv /\ OrderInv /\ [Next]_vars => OrderInv'
<1> SUFFICES ASSUME TInv, OrderInv, [Next]_vars PROVE OrderInv'
    OBVIOUS
<1> USE DEF TInv
<1>1. ASSUME NEW w \in Writers, WriteAll(w) \/ WriterStep(w) PROVE OrderInv'
    <2>1. CASE Schedule(w)
        BY <2>1, OrderSchedule
    <2>2. CASE ~Schedule(w)
        BY <1>1, <2>2, OrderElsewhere
        DEF WriteAll, WriterStep, EnterWriteBytes, ClaimForWrite, ClaimTimesOut,
            SignalAfterWrite, WriteAllReturns, queueVars, writerVars
    <2> QED
        BY <2>1, <2>2
<1>2. ASSUME NEW c \in ClosingThreads, CloseBegins(c) \/ CloseStep(c) PROVE OrderInv'
    BY <1>2, OrderElsewhere
    DEF CloseBegins, CloseStep, ClaimForClose, ReleaseChannel, CloseDescriptor,
        ReadStatus, MarkUnconnected, queueVars, writerVars
<1>3. CASE SourceFires
    BY <1>3, OrderSource
<1>5. CASE DeliverData \/ ReadReturns
    <2>1. Running("read")
        BY <1>5 DEF DeliverData, ReadReturns, Goto, ReadInProgress
    <2> QED
        BY <1>5, <2>1, OrderReadEnds DEF DeliverData, ReadReturns, ReadEnds, writerVars
<1>6. CASE ReceiveData \/ ReceiveNothing \/ ReportEnd \/ CloseAtEOF \/ AlreadyClosed
    BY <1>6, OrderElsewhere
    DEF ReceiveData, ReceiveNothing, ReportEnd, CloseAtEOF, AlreadyClosed, queueVars,
        writerVars
<1>7. CASE \E k \in 1..WriteLen : SendSome(k)
    <2>1. PICK k \in 1..WriteLen : SendSome(k)
        BY <1>7
    <2>2. CASE UNCHANGED queue
        BY <2>1, <2>2, OrderElsewhere DEF SendSome, writerVars
    <2>3. CASE queue' = Append(Tail(queue), DoneJob(Head(queue).ticket, "ok"))
        BY <2>1, <2>3, OrderWriteEnds DEF SendSome, Results, writerVars
    <2> QED
        BY <2>1, <2>2, <2>3 DEF SendSome
<1>8. CASE SendFails
    <2>1. PICK r \in Results : queue' = Append(Tail(queue), DoneJob(Head(queue).ticket, r))
        BY <1>8 DEF SendFails, Results
    <2> QED
        BY <1>8, <2>1, OrderWriteEnds DEF SendFails, writerVars
<1>9. CASE Complete
    BY <1>9, OrderComplete
<1>10. CASE InstallHandler \/ AnnounceData \/ PeerSends \/ PeerCloses \/ DescriptorReused
            \/ UNCHANGED vars
    BY <1>10, OrderElsewhere
    DEF InstallHandler, AnnounceData, PeerSends, PeerCloses, DescriptorReused, vars,
        queueVars, writerVars
<1> QED
    BY <1>1, <1>2, <1>3, <1>5, <1>6, <1>7, <1>8, <1>9, <1>10
    DEF Next, QueueStep, ClosingThreads

(* The blocks of _q and the completions that have run stay in order. *)
LEMMA OrderInvariant == Spec => []OrderInv
<1>1. Init => OrderInv
    BY DEF Init, OrderInv, TicketsUnsettled, UnsettledQueued, DonesBeforeWrites,
           KindInOrder, SettledInOrder, Positions, Unsettled
<1> QED
    BY <1>1, NextOrder, TypeInvariant, PTL DEF Spec

-----------------------------------------------------------------------------
(* The refinement, step by step. *)

(* The completions in the order they ran are the accepted writes in theirs. *)
LEMMA SettledIs ==
    ASSUME OrderInv, DataTypeOK
    PROVE  Settled = [i \in 1..Len(outcomes) |-> i] /\ Len(Settled) = Len(outcomes)
<1>1. Len(outcomes) \in Nat
    BY DEF DataTypeOK
<1> QED
    BY <1>1 DEF OrderInv, SettledInOrder, Settled

(* A step that changes none of the three variables of WriteQueue. *)
LEMMA PromiseStutters ==
    ASSUME UNCHANGED <<socketIO, accepted, outcomes>>
    PROVE  UNCHANGED Promise!vars
BY DEF Promise!vars, Settled

(* A write is put on _q with the channel in place. *)
LEMMA ScheduleAccepts ==
    ASSUME IInv, NEW w \in Writers, Schedule(w)
    PROVE  Promise!Accept
<1>1. socketIO
    BY DEF IInv, ClaimInv, Holding, Schedule, Goto, Threads
<1> QED
    BY <1>1 DEF Schedule, Promise!Accept, Settled, syncVars

(* The channel is dropped once. *)
LEMMA ReleaseCloses ==
    ASSUME IInv, NEW c \in ClosingThreads, ReleaseChannel(c)
    PROVE  Promise!Close
<1>1. socketIO
    BY DEF IInv, ClaimInv, Holding, ReleaseChannel, Goto, Threads, ClosingThreads
<1> QED
    BY <1>1 DEF ReleaseChannel, Promise!Close, Settled, writerVars

(* The completion handler that runs is that of the next write. *)
LEMMA CompleteSettles ==
    ASSUME TInv, OrderInv, OrderInv', DataTypeOK', Complete
    PROVE  Promise!Settle
<1>1. Head(queue).ticket = Len(outcomes) + 1 /\ Len(outcomes) < accepted
    BY NextToSettle DEF Complete, TInv
<1>2. Len(outcomes) \in Nat /\ Len(outcomes') = Len(outcomes) + 1
    BY DEF Complete, TInv, DataTypeOK
<1>3. Settled = [i \in 1..Len(outcomes) |-> i] /\ Len(Settled) = Len(outcomes)
    BY SettledIs DEF TInv
<1>4. Settled' = [i \in 1..(Len(outcomes) + 1) |-> i]
    <2>1. \A i \in 1..Len(outcomes') : outcomes'[i][1] = i
        BY DEF OrderInv, SettledInOrder
    <2> QED
        BY <1>2, <2>1 DEF Settled
<1>5. Settled \in Seq(Nat)
    BY <1>2, <1>3
<1>6. Settled' = Append(Settled, Len(Settled) + 1)
    BY <1>2, <1>3, <1>4, <1>5
<1> QED
    BY <1>1, <1>3, <1>6 DEF Complete, Promise!Settle, syncVars, writerVars

(* Every step of the socket is a step of WriteQueue or leaves it alone. *)
LEMMA StepKeepsPromise ==
    IInv /\ TInv /\ OrderInv /\ TInv' /\ OrderInv' /\ [Next]_vars
        => [Promise!Next]_Promise!vars
<1> SUFFICES ASSUME IInv, TInv, OrderInv, TInv', OrderInv', [Next]_vars
             PROVE  Promise!Next \/ UNCHANGED Promise!vars
    OBVIOUS
<1>1. CASE \E w \in Writers : Schedule(w)
    BY <1>1, ScheduleAccepts DEF Promise!Next
<1>2. CASE \E c \in ClosingThreads : ReleaseChannel(c)
    BY <1>2, ReleaseCloses DEF Promise!Next
<1>3. CASE Complete
    BY <1>3, CompleteSettles DEF Promise!Next, TInv
<1>4. CASE UNCHANGED <<socketIO, accepted, outcomes>>
    BY <1>4, PromiseStutters
<1>5. ASSUME NEW w \in Writers, WriteAll(w) \/ WriterStep(w), ~Schedule(w)
      PROVE  UNCHANGED <<socketIO, accepted, outcomes>>
    BY <1>5
    DEF WriteAll, WriterStep, EnterWriteBytes, ClaimForWrite, ClaimTimesOut,
        SignalAfterWrite, WriteAllReturns, syncVars, writerVars
<1>6. ASSUME NEW c \in ClosingThreads, CloseBegins(c) \/ CloseStep(c), ~ReleaseChannel(c)
      PROVE  UNCHANGED <<socketIO, accepted, outcomes>>
    BY <1>6
    DEF CloseBegins, CloseStep, ClaimForClose, CloseDescriptor, ReadStatus,
        MarkUnconnected, syncVars, writerVars
<1>7. ASSUME QueueStep, ~Complete, ~CloseStep(QThread)
      PROVE  UNCHANGED <<socketIO, accepted, outcomes>>
    BY <1>7
    DEF QueueStep, ReceiveData, DeliverData, ReceiveNothing, ReportEnd, CloseAtEOF,
        AlreadyClosed, ReadReturns, SendSome, SendFails, syncVars, writerVars
<1>8. CASE SourceFires \/ InstallHandler \/ AnnounceData \/ PeerSends \/ PeerCloses
           \/ DescriptorReused \/ UNCHANGED vars
    BY <1>4, <1>8
    DEF SourceFires, InstallHandler, AnnounceData, PeerSends, PeerCloses,
        DescriptorReused, vars, syncVars, writerVars
<1> QED
    BY <1>1, <1>2, <1>3, <1>4, <1>5, <1>6, <1>7, <1>8 DEF Next, QueueStep, ClosingThreads

(* The socket implements WriteQueue for any number of threads: no write is  *)
(* accepted once the channel is gone, and the completion handlers run once  *)
(* per accepted write, in the order of acceptance.                          *)
THEOREM ImplementsWriteQueue == Spec => OrderedWrites
<1>1. Init => Promise!Init
    <2> SUFFICES ASSUME Init PROVE Promise!Init
        OBVIOUS
    <2>1. Settled = << >>
        BY DEF Init, Settled
    <2> QED
        BY <2>1 DEF Init, Promise!Init
<1> QED
    BY <1>1, StepKeepsPromise, ClaimInvariant, TypeInvariant, OrderInvariant, PTL
    DEF Spec, OrderedWrites, Promise!Spec

-----------------------------------------------------------------------------
(* The bytes send() took of each write: none before it is at the head of   *)
(* _q, totalSent of them while it is, all of them once it is completed     *)
(* without an error.                                                       *)
Taken == [n \in Tickets |-> Cardinality(BytesTaken(n))]

SuccessTaken ==
    \A i \in 1..Len(outcomes) :
        outcomes[i][2] = "ok" => Taken[outcomes[i][1]] = WriteLen

TakenInv ==
    /\ \A n \in Tickets : n > accepted => Taken[n] = 0
    /\ ~Running("write") => sent = 0
    /\ \A i \in Positions :
           queue[i].kind = "write" => Taken[queue[i].ticket] = IF i = 1 THEN sent ELSE 0
    /\ \A i \in Positions :
           queue[i].kind = "done" /\ queue[i].result = "ok"
               => Taken[queue[i].ticket] = WriteLen
    /\ SuccessTaken

LEMMA SuccessTakenStays ==
    ASSUME SuccessTaken, wire' = wire, outcomes' = outcomes
    PROVE  SuccessTaken'
<1>1. Taken' = Taken
    BY DEF Taken, BytesTaken
<1> QED
    BY <1>1 DEF SuccessTaken

LEMMA TakenIsFinite ==
    ASSUME DataTypeOK, NEW n \in Tickets
    PROVE  IsFiniteSet(BytesTaken(n)) /\ Taken[n] \in Nat
<1>1. Len(wire) \in Nat
    BY DEF DataTypeOK
<1>2. IsFiniteSet(1..Len(wire))
    BY <1>1, FS_Interval
<1>3. IsFiniteSet(BytesTaken(n))
    BY <1>2, FS_Subset DEF BytesTaken
<1> QED
    BY <1>3, FS_CardinalityType DEF Taken

(* send() took k bytes of the write at the head. *)
LEMMA SendTakes ==
    ASSUME DataTypeOK, NEW k \in 1..WriteLen, SendSome(k)
    PROVE  /\ Taken'[Head(queue).ticket] = Taken[Head(queue).ticket] + k
           /\ \A n \in Tickets : n # Head(queue).ticket => Taken'[n] = Taken[n]
<1> DEFINE l == Len(wire)
           new == [i \in 1..k |-> Offered(i)]
           fresh == (l + 1)..(l + k)
<1>1. wire \in Seq(Bytes) /\ l \in Nat /\ k \in Nat \ {0}
    BY SizesAssumption DEF DataTypeOK
<1>2. PICK t \in Tickets : t = Head(queue).ticket
    BY RunningHead, JobFields DEF SendSome
<1>3. \A i \in 1..k : Offered(i) \in Bytes /\ Offered(i)[1] = t
    BY <1>2, SizesAssumption DEF Offered, Bytes
<1>4. new \in Seq(Bytes) /\ Len(new) = k /\ \A i \in 1..k : new[i][1] = t
    BY <1>1, <1>3
<1> HIDE DEF new
<1>5. wire' = wire \o new
    BY DEF SendSome, new
<1>6. /\ Len(wire') = l + k
      /\ \A i \in 1..l : wire'[i] = wire[i]
      /\ \A i \in fresh : wire'[i][1] = t
    <2>1. \A i \in 1..(l + k) : wire'[i] = IF i <= l THEN wire[i] ELSE new[i - l]
        BY <1>1, <1>4, <1>5
    <2>2. ASSUME NEW i \in fresh PROVE wire'[i][1] = t
        <3>1. i \in 1..(l + k) /\ ~(i <= l) /\ i - l \in 1..k
            BY <1>1, <2>2
        <3> QED
            BY <1>4, <2>1, <3>1
    <2>3. \A i \in 1..l : i \in 1..(l + k) /\ i <= l
        BY <1>1
    <2>4. Len(wire') = l + k
        <3>1. wire \in Seq(Bytes) /\ new \in Seq(Bytes) /\ Len(new) = k
            BY <1>1, <1>4
        <3>2. Len(wire \o new) = Len(wire) + Len(new)
            BY <3>1
        <3> QED
            BY <1>5, <3>1, <3>2
    <2>5. \A i \in 1..l : wire'[i] = wire[i]
        BY <2>1, <2>3
    <2> HIDE DEF l, fresh
    <2> QED
        BY <2>2, <2>4, <2>5
<1>7. 1..Len(wire') = (1..l) \cup fresh /\ (1..l) \cap fresh = {}
    BY <1>1, <1>6
<1>8. BytesTaken(t)' = BytesTaken(t) \cup fresh /\ BytesTaken(t) \cap fresh = {}
    BY <1>6, <1>7 DEF BytesTaken
<1>9. \A n : n # t => BytesTaken(n)' = BytesTaken(n)
    BY <1>6, <1>7 DEF BytesTaken
<1>10. IsFiniteSet(fresh) /\ Cardinality(fresh) = k
    <2>1. l + 1 \in Int /\ l + k \in Int /\ ~(l + 1 > l + k) /\ (l + k) - (l + 1) + 1 = k
        BY <1>1
    <2> QED
        BY <2>1, FS_Interval
<1>11. Taken'[t] = Taken[t] + k
    <2>1. IsFiniteSet(BytesTaken(t)) /\ Taken[t] \in Nat
        BY TakenIsFinite
    <2>2. Cardinality(BytesTaken(t) \cup fresh)
              = Cardinality(BytesTaken(t)) + Cardinality(fresh) - Cardinality({})
        BY <1>8, <1>10, <2>1, FS_Union
    <2>3. Cardinality({}) = 0
        BY FS_EmptySet
    <2>4. Taken[t] = Cardinality(BytesTaken(t))
        BY DEF Taken
    <2>5. Taken'[t] = Cardinality(BytesTaken(t) \cup fresh)
        BY <1>8 DEF Taken
    <2> QED
        BY <1>1, <1>10, <2>1, <2>2, <2>3, <2>4, <2>5
<1> QED
    BY <1>2, <1>9, <1>11 DEF Taken

(* The steps that touch neither the bytes nor the queue. *)
LEMMA TakenElsewhere ==
    ASSUME TakenInv, UNCHANGED <<queue, sent, accepted, outcomes, wire>>
    PROVE  TakenInv'
<1>1. Taken' = Taken
    BY DEF Taken, BytesTaken
<1>2. Running("write")' = Running("write") /\ Positions' = Positions
    BY DEF Running, Positions
<1> QED
    BY <1>1, <1>2 DEF TakenInv, SuccessTaken

(* A write or a completion on _q has a ticket. *)
LEMMA PendingTickets ==
    ASSUME DataTypeOK
    PROVE  \A i \in Positions : Pending(i) => queue[i].ticket \in Tickets
<1>1. \A i \in Positions : queue[i] \in Jobs
    BY DEF Positions, DataTypeOK
<1> QED
    BY <1>1, JobKinds, JobFields DEF Pending

(* The write at the head, and what the others are to it. *)
LEMMA HeadWrite ==
    ASSUME DataTypeOK, OrderInv, Running("write")
    PROVE  /\ 1 \in Positions /\ Head(queue) = queue[1]
           /\ queue[1].ticket \in Tickets /\ queue[1].ticket <= accepted
           /\ \A i \in Positions : i # 1 /\ Pending(i) => queue[i].ticket # queue[1].ticket
           /\ \A i \in 1..Len(outcomes) : outcomes[i][1] # queue[1].ticket
<1>1. /\ queue \in Seq(Jobs) /\ queue # << >> /\ Head(queue) = queue[1]
      /\ Len(queue) \in Nat \ {0} /\ queue[1].kind = "write" /\ queue[1] \in Jobs
      /\ accepted \in Nat /\ Len(outcomes) \in Nat
    BY TailPositions, RunningHead DEF Running, DataTypeOK
<1>2. 1 \in Positions /\ \A i \in Positions : i # 1 => 1 < i
    BY <1>1 DEF Positions
<1>3. \A i \in Positions : queue[i].kind \in {"write", "done", "read"}
    BY <1>1, JobKinds DEF Positions
<1>4. \A i \in Positions : Pending(i) => queue[i].ticket \in Tickets
    BY <1>1, <1>3, JobFields DEF Positions, Pending
<1>5. \A i \in Positions : i # 1 /\ Pending(i) => queue[i].ticket # queue[1].ticket
    <2> SUFFICES ASSUME NEW i \in Positions, i # 1, Pending(i),
                        queue[i].ticket = queue[1].ticket
                 PROVE  FALSE
        OBVIOUS
    <2>1. queue[i].ticket \in Nat
        BY <1>4 DEF Tickets
    <2>2. queue[i].kind = "write" \/ queue[i].kind = "done"
        BY <1>3 DEF Pending
    <2>3. CASE queue[i].kind = "write"
        BY <1>1, <1>2, <2>1, <2>3 DEF OrderInv, KindInOrder
    <2>4. CASE queue[i].kind = "done"
        BY <1>1, <1>2, <2>1, <2>4 DEF OrderInv, DonesBeforeWrites
    <2> QED
        BY <2>2, <2>3, <2>4
<1>6. queue[1].ticket \in (Len(outcomes) + 1)..accepted
    <2>1. Pending(1)
        BY <1>1 DEF Pending
    <2> QED
        BY <1>2, <2>1 DEF OrderInv, TicketsUnsettled, Unsettled
<1>7. \A i \in 1..Len(outcomes) : outcomes[i][1] # queue[1].ticket
    <2>1. \A i \in 1..Len(outcomes) : outcomes[i][1] = i
        BY DEF OrderInv, SettledInOrder
    <2> QED
        BY <1>1, <1>6, <2>1
<1> QED
    BY <1>1, <1>2, <1>5, <1>6, <1>7 DEF Tickets

LEMMA SettledTickets ==
    ASSUME DataTypeOK
    PROVE  \A i \in 1..Len(outcomes) : outcomes[i][1] \in Tickets
<1>1. \A i \in 1..Len(outcomes) : outcomes[i] \in Outcomes
    BY DEF DataTypeOK
<1> QED
    BY <1>1 DEF Outcomes

(* A new write has none of its bytes taken. *)
LEMMA TakenSchedule ==
    ASSUME DataTypeOK, TakenInv, NEW w \in Writers, Schedule(w)
    PROVE  TakenInv'
<1> DEFINE n == Len(queue)
           t == accepted + 1
<1>1. /\ queue' = Append(queue, WriteJob(t)) /\ accepted' = t
      /\ UNCHANGED <<sent, outcomes, wire>>
    BY DEF Schedule
<1>2. t \in Tickets /\ accepted \in Nat /\ queue \in Seq(Jobs) /\ WriteJob(t) \in Jobs
    BY JobFields DEF DataTypeOK, Tickets
<1>3. /\ n \in Nat /\ Len(queue') = n + 1
      /\ \A i \in 1..n : queue'[i] = queue[i]
      /\ queue'[n + 1].kind = "write" /\ queue'[n + 1].ticket = t
      /\ queue' # << >> /\ queue' \in Seq(Jobs)
    BY <1>1, <1>2, AppendPositions, JobKinds
<1>4. Positions' = Positions \cup {n + 1} /\ Positions = 1..n
    BY <1>3 DEF Positions
<1>5. Taken' = Taken
    BY <1>1 DEF Taken, BytesTaken
<1>6. Taken[t] = 0
    BY <1>2 DEF TakenInv
<1>7. \A m \in Tickets : m > accepted' => Taken'[m] = 0
    BY <1>1, <1>2, <1>5 DEF TakenInv, Tickets
<1>8. Running("write")' \/ sent' = 0
    <2>1. CASE queue = << >>
        BY <1>1, <2>1 DEF TakenInv, Running
    <2>2. CASE queue # << >>
        <3>1. Head(queue') = Head(queue)
            BY <1>1, <1>2, <2>2
        <3> QED
            BY <1>1, <1>3, <2>2, <3>1 DEF TakenInv, Running
    <2> QED
        BY <2>1, <2>2
<1>9. queue'[n + 1].kind = "write"
          => Taken'[queue'[n + 1].ticket] = IF n + 1 = 1 THEN sent' ELSE 0
    <2>1. n = 0 => ~Running("write")
        BY <1>2 DEF Running
    <2> QED
        BY <1>1, <1>3, <1>5, <1>6, <2>1 DEF TakenInv
<1>10. \A i \in Positions' :
          queue'[i].kind = "write" => Taken'[queue'[i].ticket] = IF i = 1 THEN sent' ELSE 0
    BY <1>1, <1>3, <1>4, <1>5, <1>9 DEF TakenInv
<1>11. \A i \in Positions' :
          queue'[i].kind = "done" /\ queue'[i].result = "ok"
              => Taken'[queue'[i].ticket] = WriteLen
    BY <1>1, <1>3, <1>4, <1>5 DEF TakenInv
<1>12. SuccessTaken'
    BY <1>1, SuccessTakenStays DEF TakenInv
<1> QED
    BY <1>7, <1>8, <1>10, <1>11, <1>12 DEF TakenInv

LEMMA TakenSource ==
    ASSUME DataTypeOK, TakenInv, SourceFires
    PROVE  TakenInv'
<1> DEFINE n == Len(queue)
<1>1. queue' = Append(queue, ReadJob) /\ UNCHANGED <<sent, accepted, outcomes, wire>>
    BY DEF SourceFires, writerVars
<1>2. /\ n \in Nat /\ Len(queue') = n + 1
      /\ \A i \in 1..n : queue'[i] = queue[i]
      /\ queue'[n + 1].kind = "read"
    BY <1>1, AppendPositions, JobFields, JobKinds DEF DataTypeOK
<1>3. Positions' = Positions \cup {n + 1} /\ Positions = 1..n
    BY <1>2 DEF Positions
<1>4. Taken' = Taken
    BY <1>1 DEF Taken, BytesTaken
<1>5. Running("write")' \/ sent' = 0
    <2>1. CASE queue = << >>
        BY <1>1, <2>1 DEF TakenInv, Running
    <2>2. CASE queue # << >>
        <3>1. Head(queue') = Head(queue) /\ queue' # << >>
            BY <1>1, <1>2, <2>2 DEF DataTypeOK
        <3> QED
            BY <1>1, <2>2, <3>1 DEF TakenInv, Running
    <2> QED
        BY <2>1, <2>2
<1>6. SuccessTaken'
    BY <1>1, SuccessTakenStays DEF TakenInv
<1> QED
    BY <1>1, <1>2, <1>3, <1>4, <1>5, <1>6 DEF TakenInv

(* A block that leaves the head makes room for one nothing was sent of. *)
LEMMA TakenTail ==
    ASSUME DataTypeOK, TakenInv, queue # << >>, ~Running("write"), queue' = Tail(queue),
           UNCHANGED <<sent, accepted, wire>>, SuccessTaken'
    PROVE  TakenInv'
<1>1. sent = 0
    BY DEF TakenInv
<1>2. /\ \A i \in Positions' : i + 1 \in Positions /\ queue'[i] = queue[i + 1]
      /\ \A i \in Positions' : i + 1 # 1
    <2>1. queue \in Seq(Jobs)
        BY DEF DataTypeOK
    <2>2. \A i \in Positions' : i + 1 \in Positions /\ queue'[i] = queue[i + 1]
        BY <2>1, TailPositions, MovedUp
    <2> QED
        BY <2>2 DEF Positions
<1>3. Taken' = Taken
    BY DEF Taken, BytesTaken
<1>4. \A i \in Positions' :
          queue'[i].kind = "write" => Taken'[queue'[i].ticket] = 0
    BY <1>2, <1>3 DEF TakenInv
<1>5. \A i \in Positions' :
          queue'[i].kind = "done" /\ queue'[i].result = "ok"
              => Taken'[queue'[i].ticket] = WriteLen
    BY <1>2, <1>3 DEF TakenInv
<1> QED
    BY <1>1, <1>3, <1>4, <1>5 DEF TakenInv

LEMMA TakenComplete ==
    ASSUME DataTypeOK, TakenInv, Complete
    PROVE  TakenInv'
<1>1. /\ queue \in Seq(Jobs) /\ queue # << >> /\ Head(queue) = queue[1]
      /\ Len(queue) \in Nat \ {0} /\ Head(queue).kind = "done"
      /\ queue' = Tail(queue) /\ UNCHANGED <<sent, accepted, wire>>
    BY TailPositions DEF Complete, Running, DataTypeOK, writerVars
<1>2. ~Running("write")
    BY <1>1 DEF Running
<1>3. 1 \in Positions
    BY <1>1 DEF Positions
<1>4. /\ Len(outcomes') = Len(outcomes) + 1 /\ Len(outcomes) \in Nat
      /\ \A i \in 1..Len(outcomes) : outcomes'[i] = outcomes[i]
      /\ outcomes'[Len(outcomes) + 1] = <<queue[1].ticket, queue[1].result>>
    <2>1. outcomes \in Seq(Outcomes)
        BY DEF DataTypeOK
    <2>2. outcomes' = Append(outcomes, <<queue[1].ticket, queue[1].result>>)
        BY <1>1 DEF Complete
    <2> QED
        BY <2>1, <2>2
<1>5. Taken' = Taken
    BY <1>1 DEF Taken, BytesTaken
<1>6. queue[1].result = "ok" => Taken[queue[1].ticket] = WriteLen
    BY <1>1, <1>3 DEF TakenInv
<1>7. SuccessTaken'
    <2> SUFFICES ASSUME NEW i \in 1..Len(outcomes'), outcomes'[i][2] = "ok"
                 PROVE  Taken'[outcomes'[i][1]] = WriteLen
        BY DEF SuccessTaken
    <2>1. CASE i \in 1..Len(outcomes)
        BY <1>4, <1>5, <2>1 DEF TakenInv, SuccessTaken
    <2>2. CASE i = Len(outcomes) + 1
        BY <1>4, <1>5, <1>6, <2>2
    <2> QED
        BY <1>4, <2>1, <2>2
<1> QED
    BY <1>1, <1>2, <1>7, TakenTail

(* The write at the head ends: with all its bytes taken, or with an error. *)
LEMMA TakenWriteEnds ==
    ASSUME DataTypeOK, OrderInv, TakenInv, Running("write"), NEW r \in Results,
           queue' = Append(Tail(queue), DoneJob(Head(queue).ticket, r)),
           sent' = 0, UNCHANGED <<accepted, outcomes>>,
           r = "ok" => Taken'[Head(queue).ticket] = WriteLen,
           \A m \in Tickets : m # Head(queue).ticket => Taken'[m] = Taken[m]
    PROVE  TakenInv'
<1> DEFINE n == Len(queue)
           t == queue[1].ticket
<1>1. /\ queue \in Seq(Jobs) /\ queue # << >> /\ n \in Nat \ {0}
      /\ Head(queue) = queue[1] /\ queue[1] \in Jobs
    BY TailPositions, RunningHead DEF Running, DataTypeOK
<1>2. /\ t \in Tickets /\ t <= accepted
      /\ \A i \in Positions : i # 1 /\ Pending(i) => queue[i].ticket # t
      /\ \A i \in 1..Len(outcomes) : outcomes[i][1] # t
    BY HeadWrite
<1>3. /\ Len(queue') = n
      /\ \A i \in 1..(n - 1) : queue'[i] = queue[i + 1]
      /\ queue'[n] = DoneJob(t, r)
    BY <1>1, <1>2, TailPositions, AppendPositions, JobFields
<1>4. queue'[n].kind = "done" /\ queue'[n].ticket = t /\ queue'[n].result = r
    BY <1>2, <1>3 DEF DoneJob
<1>5. \A i \in Positions' : i = n \/
          (i + 1 \in Positions /\ i + 1 # 1 /\ queue'[i] = queue[i + 1])
    <2> SUFFICES ASSUME NEW i \in 1..n, i # n
                 PROVE  i + 1 \in 1..n /\ i + 1 # 1 /\ queue'[i] = queue[i + 1]
        BY <1>3 DEF Positions
    <2>1. i \in 1..(n - 1) /\ i + 1 \in 1..n /\ i + 1 # 1
        BY <1>1
    <2> QED
        BY <1>3, <2>1
<1>6. /\ \A m \in Tickets : m # t => Taken'[m] = Taken[m]
      /\ \A i \in Positions : Pending(i) => queue[i].ticket \in Tickets
    BY <1>1, PendingTickets
<1>7. \A i \in Positions' : queue'[i].kind = "write" => Taken'[queue'[i].ticket] = 0
    <2> SUFFICES ASSUME NEW i \in Positions', queue'[i].kind = "write"
                 PROVE  Taken'[queue'[i].ticket] = 0
        OBVIOUS
    <2>1. i + 1 \in Positions /\ i + 1 # 1 /\ queue'[i] = queue[i + 1]
        BY <1>4, <1>5
    <2>2. Taken[queue[i + 1].ticket] = 0 /\ Pending(i + 1)
        BY <2>1 DEF TakenInv, Pending
    <2> QED
        BY <1>2, <1>6, <2>1, <2>2
<1>8. \A i \in Positions' :
          queue'[i].kind = "done" /\ queue'[i].result = "ok"
              => Taken'[queue'[i].ticket] = WriteLen
    <2> SUFFICES ASSUME NEW i \in Positions',
                        queue'[i].kind = "done", queue'[i].result = "ok"
                 PROVE  Taken'[queue'[i].ticket] = WriteLen
        OBVIOUS
    <2>1. CASE i = n
        BY <1>1, <1>4, <2>1
    <2>2. CASE i # n
        <3>1. i + 1 \in Positions /\ i + 1 # 1 /\ queue'[i] = queue[i + 1]
            BY <1>5, <2>2
        <3>2. Taken[queue[i + 1].ticket] = WriteLen /\ Pending(i + 1)
            BY <3>1 DEF TakenInv, Pending
        <3> QED
            BY <1>2, <1>6, <3>1, <3>2
    <2> QED
        BY <2>1, <2>2
<1>9. \A m \in Tickets : m > accepted' => Taken'[m] = 0
    <2> SUFFICES ASSUME NEW m \in Tickets, m > accepted
                 PROVE  Taken'[m] = 0
        OBVIOUS
    <2>1. m # t
        BY <1>2 DEF Tickets, DataTypeOK
    <2> QED
        BY <1>6, <2>1 DEF TakenInv
<1>10. SuccessTaken'
    BY <1>2, <1>6, SettledTickets DEF TakenInv, SuccessTaken
<1> QED
    BY <1>7, <1>8, <1>9, <1>10 DEF TakenInv

LEMMA TakenSend ==
    ASSUME DataTypeOK, OrderInv, TakenInv, NEW k \in 1..WriteLen, SendSome(k)
    PROVE  TakenInv'
<1> DEFINE t == queue[1].ticket
<1>1. /\ 1 \in Positions /\ Head(queue) = queue[1] /\ queue[1].kind = "write"
      /\ t \in Tickets /\ t <= accepted
      /\ \A i \in Positions : i # 1 /\ Pending(i) => queue[i].ticket # t
      /\ \A i \in 1..Len(outcomes) : outcomes[i][1] # t
    BY HeadWrite DEF SendSome, Running
<1>2. /\ Taken'[t] = Taken[t] + k
      /\ \A m \in Tickets : m # t => Taken'[m] = Taken[m]
      /\ \A i \in Positions : Pending(i) => queue[i].ticket \in Tickets
    BY <1>1, SendTakes, PendingTickets
<1>3. Taken[t] = sent /\ sent \in 0..WriteLen /\ WriteLen \in Nat /\ k \in Nat
    BY <1>1, SizesAssumption DEF TakenInv, DataTypeOK
<1>4. UNCHANGED <<accepted, outcomes>> /\ Running("write")
    BY DEF SendSome, writerVars
<1>5. CASE sent + k = WriteLen
    <2>1. queue' = Append(Tail(queue), DoneJob(Head(queue).ticket, "ok")) /\ sent' = 0
        BY <1>5 DEF SendSome
    <2>2. Taken'[Head(queue).ticket] = WriteLen
        BY <1>1, <1>2, <1>3, <1>5
    <2> HIDE DEF t
    <2> QED
        BY <1>1, <1>2, <1>4, <2>1, <2>2, TakenWriteEnds DEF Results, t
<1>6. CASE sent + k # WriteLen
    <2>1. queue' = queue /\ sent' = sent + k
        BY <1>6 DEF SendSome
    <2>2. Positions' = Positions /\ Running("write")'
        BY <1>4, <2>1 DEF Positions, Running
    <2>3. \A i \in Positions :
              queue[i].kind = "write" => Taken'[queue[i].ticket] = IF i = 1 THEN sent' ELSE 0
        BY <1>1, <1>2, <1>3, <2>1 DEF TakenInv, Pending
    <2>4. \A i \in Positions :
              queue[i].kind = "done" /\ queue[i].result = "ok"
                  => Taken'[queue[i].ticket] = WriteLen
        BY <1>1, <1>2 DEF TakenInv, Pending
    <2>5. \A m \in Tickets : m > accepted => Taken'[m] = 0
        <3> SUFFICES ASSUME NEW m \in Tickets, m > accepted
                     PROVE  Taken'[m] = 0
            OBVIOUS
        <3>1. m # t
            BY <1>1 DEF Tickets, DataTypeOK
        <3> QED
            BY <1>2, <3>1 DEF TakenInv
    <2>6. SuccessTaken'
        BY <1>1, <1>2, <1>4, SettledTickets DEF TakenInv, SuccessTaken
    <2> QED
        BY <1>4, <2>1, <2>2, <2>3, <2>4, <2>5, <2>6 DEF TakenInv
<1> QED
    BY <1>5, <1>6

LEMMA TakenFails ==
    ASSUME DataTypeOK, OrderInv, TakenInv, SendFails
    PROVE  TakenInv'
<1>1. PICK r \in Results \ {"ok"} :
          queue' = Append(Tail(queue), DoneJob(Head(queue).ticket, r))
    BY DEF SendFails, Results
<1>2. Running("write") /\ sent' = 0 /\ UNCHANGED <<accepted, outcomes, wire>>
    BY DEF SendFails, writerVars
<1>3. Taken' = Taken
    BY <1>2 DEF Taken, BytesTaken
<1> QED
    BY <1>1, <1>2, <1>3, TakenWriteEnds

LEMMA NextTaken == TInv /\ OrderInv /\ TakenInv /\ [Next]_vars => TakenInv'
<1> SUFFICES ASSUME TInv, OrderInv, TakenInv, [Next]_vars PROVE TakenInv'
    OBVIOUS
<1> USE DEF TInv
<1>1. ASSUME NEW w \in Writers, WriteAll(w) \/ WriterStep(w) PROVE TakenInv'
    <2>1. CASE Schedule(w)
        BY <2>1, TakenSchedule
    <2>2. CASE ~Schedule(w)
        BY <1>1, <2>2, TakenElsewhere
        DEF WriteAll, WriterStep, EnterWriteBytes, ClaimForWrite, ClaimTimesOut,
            SignalAfterWrite, WriteAllReturns, queueVars, writerVars
    <2> QED
        BY <2>1, <2>2
<1>2. ASSUME NEW c \in ClosingThreads, CloseBegins(c) \/ CloseStep(c) PROVE TakenInv'
    BY <1>2, TakenElsewhere
    DEF CloseBegins, CloseStep, ClaimForClose, ReleaseChannel, CloseDescriptor,
        ReadStatus, MarkUnconnected, queueVars, writerVars
<1>3. CASE DeliverData \/ ReadReturns
    <2>1. /\ Running("read") /\ queue' = Tail(queue)
          /\ UNCHANGED <<sent, accepted, outcomes, wire>>
        BY <1>3 DEF DeliverData, ReadReturns, Goto, ReadInProgress, ReadEnds, writerVars
    <2>2. SuccessTaken'
        BY <2>1, SuccessTakenStays DEF TakenInv
    <2>3. queue # << >> /\ ~Running("write")
        BY <2>1 DEF Running
    <2> QED
        BY <2>1, <2>2, <2>3, TakenTail
<1>4. CASE ReceiveData \/ ReceiveNothing \/ ReportEnd \/ CloseAtEOF \/ AlreadyClosed
    BY <1>4, TakenElsewhere
    DEF ReceiveData, ReceiveNothing, ReportEnd, CloseAtEOF, AlreadyClosed, queueVars,
        writerVars
<1>5. CASE InstallHandler \/ AnnounceData \/ PeerSends \/ PeerCloses \/ DescriptorReused
           \/ UNCHANGED vars
    BY <1>5, TakenElsewhere
    DEF InstallHandler, AnnounceData, PeerSends, PeerCloses, DescriptorReused, vars,
        queueVars, writerVars
<1> QED
    BY <1>1, <1>2, <1>3, <1>4, <1>5, TakenSource, TakenSend, TakenFails, TakenComplete
    DEF Next, QueueStep, ClosingThreads

(* A write that is reported to have succeeded had as many bytes taken by   *)
(* send() as it has: totalSent of the write block counts every one, for    *)
(* every size, however send() splits it and whatever is queued meanwhile.  *)
THEOREM SuccessIsComplete == Spec => []SuccessCountsAllBytes
<1>1. Init => TakenInv
    <2> SUFFICES ASSUME Init PROVE TakenInv
        OBVIOUS
    <2>1. \A n : BytesTaken(n) = {}
        BY DEF Init, BytesTaken
    <2>2. \A n \in Tickets : Taken[n] = 0
        BY <2>1, FS_EmptySet DEF Taken
    <2> QED
        BY <2>2 DEF Init, TakenInv, Running, Positions, SuccessTaken
<1>2. TInv /\ TakenInv => SuccessCountsAllBytes
    BY SettledTickets DEF TInv, TakenInv, SuccessTaken, SuccessCountsAllBytes, Taken
<1> QED
    BY <1>1, <1>2, NextTaken, TypeInvariant, OrderInvariant, PTL DEF Spec
=============================================================================
