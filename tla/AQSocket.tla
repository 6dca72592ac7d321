------------------------------ MODULE AQSocket ------------------------------
(***************************************************************************)
(* A connected AQSocket with its AQSocketLegacyIOChannel: the channel's    *)
(* serial queue _q, the semaphore _sync that -writeBytes: and -close claim *)
(* the channel with, the reader dispatch source, the descriptor and the    *)
(* peer at its other end.                                                  *)
(*                                                                         *)
(* The threads are the writers (response operations in -writeAll:), the    *)
(* closers (any thread that calls -close) and the thread that runs the     *)
(* blocks of _q; the read handler runs on that one too and closes the      *)
(* socket itself at end of stream, so QThread is also a closer.            *)
(*                                                                         *)
(* Every write carries WriteLen bytes; a write is known by its ticket, the *)
(* place it took in the order of acceptance.                               *)
(***************************************************************************)
EXTENDS Naturals, Sequences, FiniteSets

CONSTANTS
    Writers,        \* threads that call -writeAll:
    Closers,        \* threads that call -close, the queue's own left aside
    QThread,        \* the thread that runs the blocks of _q
    WriteLen,       \* bytes of one write
    MaxCalls,       \* bound: calls of -writeAll: in a behaviour
    MaxIncoming     \* bound: chunks the peer sends in a behaviour

Threads == Writers \cup Closers \cup {QThread}

ClosingThreads == Closers \cup {QThread}

ASSUME ThreadsAssumption ==
    /\ Writers \cap ClosingThreads = {}
    /\ QThread \notin Closers

ASSUME SizesAssumption ==
    /\ WriteLen \in Nat \ {0}
    /\ MaxCalls \in Nat
    /\ MaxIncoming \in Nat

VARIABLES
    status,     \* _status
    socketIO,   \* _socketIO # nil
    sync,       \* the count of the semaphore _sync
    fd,         \* what the number in _rawSocket and _nativeSocket names: this
                \* connection, nothing, or the connection accepted next
    queue,      \* the blocks of _q, the running one at the head
    sent,       \* totalSent of the write block at the head of _q
    source,     \* _readerSource
    pc,         \* where each thread is
    waitsFor,   \* the ticket a writer waits for in -writeAll:, 0 before it has one
    calls,      \* calls of -writeAll: so far
    accepted,   \* how many writes reached the channel
    outcomes,   \* what the completion handlers were given, in the order they ran
    wire,       \* the bytes send() took, as <<ticket, offset, who got them>>
    incoming,   \* chunks the peer sent that nothing has received yet
    arrivals,   \* how many chunks the peer sent
    peerClosed, \* the peer closed its end
    handler,    \* eventHandler # nil
    announcing, \* -setEventHandler: has installed a handler, and is about to
                \* look at what is in the reader
    reader,     \* chunks in _socketReader that no handler has taken out
    disconnects \* AQSocketEventDisconnected events

syncVars == <<status, socketIO, sync, fd>>
queueVars == <<queue, sent, source>>
writerVars == <<calls, accepted, waitsFor>>
peerVars == <<incoming, arrivals, peerClosed>>
handlerVars == <<handler, announcing>>
eventVars == <<handlerVars, reader, disconnects>>
vars == <<syncVars, queueVars, pc, writerVars, outcomes, wire, peerVars, eventVars>>

(* The blocks of _q: a write, the completion of a write, and a read. *)
Tickets == Nat \ {0}
Results == {"ok", "pipe", "other"}
Jobs == [kind : {"write"}, ticket : Tickets]
        \cup [kind : {"done"}, ticket : Tickets, result : Results]
        \cup [kind : {"read"}]

Outcomes == Tickets \X Results

Bytes == Tickets \X (1..WriteLen) \X {"peer", "stranger"}

WriteJob(n) == [kind |-> "write", ticket |-> n]
DoneJob(n, r) == [kind |-> "done", ticket |-> n, result |-> r]
ReadJob == [kind |-> "read"]

WriterPC == {"idle", "enter", "claim", "schedule", "signal", "spin"}
CloserPC == {"idle", "wait", "release", "closefd", "status", "mark"}
ReadPC == {"received", "ended", "eof", "returned"}

TypeOK ==
    /\ status \in {"connected", "disconnected", "unconnected"}
    /\ socketIO \in BOOLEAN
    /\ sync \in {0, 1}
    /\ fd \in {"open", "closed", "reused"}
    /\ queue \in Seq(Jobs)
    /\ sent \in 0..WriteLen
    /\ source \in {"armed", "firing", "cancelled"}
    /\ pc \in [Threads -> WriterPC \cup CloserPC \cup ReadPC]
    /\ \A w \in Writers : pc[w] \in WriterPC
    /\ \A c \in Closers : pc[c] \in CloserPC
    /\ pc[QThread] \in CloserPC \cup ReadPC
    /\ calls \in 0..MaxCalls
    /\ accepted \in Nat
    /\ waitsFor \in [Writers -> Nat]
    /\ outcomes \in Seq(Outcomes)
    /\ wire \in Seq(Bytes)
    /\ arrivals \in 0..MaxIncoming
    /\ incoming \in 0..arrivals
    /\ peerClosed \in BOOLEAN
    /\ handler \in BOOLEAN
    /\ announcing \in BOOLEAN
    /\ reader \in Nat
    /\ disconnects \in Nat

(* -initWithConnectedSocket: has run -connectedSuccessfully, which signals *)
(* _sync and resumes the reader source. Nobody listens yet.                *)
Init ==
    /\ status = "connected"
    /\ socketIO = TRUE
    /\ sync = 1
    /\ fd = "open"
    /\ queue = << >>
    /\ sent = 0
    /\ source = "armed"
    /\ pc = [t \in Threads |-> "idle"]
    /\ calls = 0
    /\ accepted = 0
    /\ waitsFor = [w \in Writers |-> 0]
    /\ outcomes = << >>
    /\ wire = << >>
    /\ incoming = 0
    /\ arrivals = 0
    /\ peerClosed = FALSE
    /\ handler = FALSE
    /\ announcing = FALSE
    /\ reader = 0
    /\ disconnects = 0

Goto(t, from, to) == pc[t] = from /\ pc' = [pc EXCEPT ![t] = to]

-----------------------------------------------------------------------------
(* Writers: -[AQHTTPResponseOperation writeAll:] and -[AQSocket            *)
(* writeBytes:completion:] on the thread of the operation.                 *)

(* The test of the status in -writeAll:; it returns NO at once otherwise.  *)
(* What writes are the operations of requests that a handler was told of.  *)
WriteAll(w) ==
    /\ calls < MaxCalls
    /\ handler /\ incoming < arrivals
    /\ status = "connected"
    /\ Goto(w, "idle", "enter")
    /\ calls' = calls + 1
    /\ waitsFor' = [waitsFor EXCEPT ![w] = 0]
    /\ UNCHANGED <<syncVars, queueVars, accepted, outcomes, wire, peerVars, eventVars>>

(* The status is tested again: when it changed, -writeBytes: returns without *)
(* a completion, and -writeAll: goes on to wait for one.                     *)
EnterWriteBytes(w) ==
    /\ Goto(w, "enter", IF status = "connected" THEN "claim" ELSE "spin")
    /\ UNCHANGED <<syncVars, queueVars, writerVars, outcomes, wire, peerVars, eventVars>>

ClaimForWrite(w) ==
    /\ sync > 0
    /\ Goto(w, "claim", "schedule")
    /\ sync' = sync - 1
    /\ UNCHANGED <<status, socketIO, fd, queueVars, writerVars, outcomes, wire, peerVars, eventVars>>

(* The second of dispatch_time passed with the semaphore at zero. *)
ClaimTimesOut(w) ==
    /\ sync = 0
    /\ Goto(w, "claim", "spin")
    /\ UNCHANGED <<syncVars, queueVars, writerVars, outcomes, wire, peerVars, eventVars>>

(* -writeData:withCompletion: puts the write block on _q. *)
Schedule(w) ==
    /\ Goto(w, "schedule", "signal")
    /\ accepted' = accepted + 1
    /\ waitsFor' = [waitsFor EXCEPT ![w] = accepted + 1]
    /\ queue' = Append(queue, WriteJob(accepted + 1))
    /\ UNCHANGED <<syncVars, sent, source, calls, outcomes, wire, peerVars, eventVars>>

SignalAfterWrite(w) ==
    /\ Goto(w, "signal", "spin")
    /\ sync' = sync + 1
    /\ UNCHANGED <<status, socketIO, fd, queueVars, writerVars, outcomes, wire, peerVars, eventVars>>

(* The completion handler ran: `done' is set and -writeAll: returns. *)
WriteAllReturns(w) ==
    /\ waitsFor[w] > 0
    /\ \E i \in 1..Len(outcomes) : outcomes[i][1] = waitsFor[w]
    /\ Goto(w, "spin", "idle")
    /\ UNCHANGED <<syncVars, queueVars, writerVars, outcomes, wire, peerVars, eventVars>>

-----------------------------------------------------------------------------
(* Closers: -[AQSocket close]. *)

(* Past the test of _socketIO: the call returns at once when it is nil. *)
CloseBegins(c) ==
    /\ socketIO
    /\ Goto(c, "idle", "wait")
    /\ UNCHANGED <<syncVars, queueVars, writerVars, outcomes, wire, peerVars, eventVars>>

(* Mutant: -close waits for the semaphore but does not keep it. *)
WaitForClose(c) ==
    /\ sync > 0
    /\ Goto(c, "wait", "release")
    /\ UNCHANGED <<syncVars, queueVars, writerVars, outcomes, wire, peerVars, eventVars>>

ClaimForClose(c) ==
    /\ sync > 0
    /\ Goto(c, "wait", "release")
    /\ sync' = sync - 1
    /\ UNCHANGED <<status, socketIO, fd, queueVars, writerVars, outcomes, wire, peerVars, eventVars>>

(* Mutant: -close gives the semaphore back. *)
ReleaseAndSignal(c) ==
    /\ Goto(c, "release", "closefd")
    /\ socketIO' = FALSE
    /\ sync' = sync + 1
    /\ source' = "cancelled"
    /\ UNCHANGED <<status, fd, queue, sent, writerVars, outcomes, wire, peerVars, eventVars>>

(* Mutant: the reader source is not cancelled. *)
ReleaseButKeepSource(c) ==
    /\ Goto(c, "release", "closefd")
    /\ socketIO' = FALSE
    /\ UNCHANGED <<status, sync, fd, queueVars, writerVars, outcomes, wire, peerVars, eventVars>>

(* -[AQSocketDispatchSourceIOChannel close] cancels the reader source; the *)
(* channel is dropped. The semaphore is never signalled again.             *)
ReleaseChannel(c) ==
    /\ Goto(c, "release", "closefd")
    /\ socketIO' = FALSE
    /\ source' = "cancelled"
    /\ UNCHANGED <<status, sync, fd, queue, sent, writerVars, outcomes, wire, peerVars, eventVars>>

(* Blocks already on _q keep the number of the closed descriptor. *)
CloseDescriptor(c) ==
    /\ Goto(c, "closefd", "status")
    /\ fd' = "closed"
    /\ UNCHANGED <<status, socketIO, sync, queueVars, writerVars, outcomes, wire, peerVars, eventVars>>

AfterClose(c) == IF c = QThread THEN "returned" ELSE "idle"

(* A voluntary close makes the socket reusable, a reset does not. *)
ReadStatus(c) ==
    /\ Goto(c, "status", IF status # "disconnected" THEN "mark" ELSE AfterClose(c))
    /\ UNCHANGED <<syncVars, queueVars, writerVars, outcomes, wire, peerVars, eventVars>>

MarkUnconnected(c) ==
    /\ Goto(c, "mark", AfterClose(c))
    /\ status' = "unconnected"
    /\ UNCHANGED <<socketIO, sync, fd, queueVars, writerVars, outcomes, wire, peerVars, eventVars>>

CloseStep(c) ==
    \/ ClaimForClose(c) \/ ReleaseChannel(c) \/ CloseDescriptor(c)
    \/ ReadStatus(c) \/ MarkUnconnected(c)

-----------------------------------------------------------------------------
(* The reader source: its handler puts a block on _q and waits for it, so  *)
(* the source does not fire again before that block is done.               *)

(* Mutant: only data makes the source fire, an end of stream does not. *)
SourceFiresForData ==
    /\ source = "armed"
    /\ fd = "open"
    /\ incoming > 0
    /\ source' = "firing"
    /\ queue' = Append(queue, ReadJob)
    /\ UNCHANGED <<syncVars, sent, pc, writerVars, outcomes, wire, peerVars, eventVars>>

SourceFires ==
    /\ source = "armed"
    /\ fd = "open"
    /\ incoming > 0 \/ peerClosed
    /\ source' = "firing"
    /\ queue' = Append(queue, ReadJob)
    /\ UNCHANGED <<syncVars, sent, pc, writerVars, outcomes, wire, peerVars, eventVars>>

Running(kind) == queue # << >> /\ Head(queue).kind = kind

(* The block at the head of _q ends, and with it the source's handler when *)
(* it was a read.                                                          *)
ReadEnds ==
    /\ queue' = Tail(queue)
    /\ source' = IF source = "firing" THEN "armed" ELSE source

(* Everything readable is received at once and appended to the reader, a    *)
(* stranger's bytes too once the number is his.                             *)
ReceiveData ==
    /\ Running("read")
    /\ Goto(QThread, "idle", "received")
    /\ \/ fd = "open" /\ incoming > 0 /\ incoming' = 0
       \/ fd = "reused" /\ UNCHANGED incoming
    /\ reader' = reader + 1
    /\ UNCHANGED <<syncVars, queueVars, writerVars, outcomes, wire, arrivals, peerClosed,
                   handlerVars, disconnects>>

(* Whether there is an event handler for the read handler: the connection's *)
(* -close sets it to nil when that of the socket has returned. The property *)
(* is read twice, which AQHTTPConnection has as two steps.                  *)
Listens == IF socketIO THEN {handler} ELSE {handler, FALSE}

(* AQSocketEventDataAvailable: the handler takes out all there is. *)
DeliverData ==
    /\ Goto(QThread, "received", "idle")
    /\ ReadEnds
    /\ \E listens \in Listens : reader' = IF listens THEN 0 ELSE reader
    /\ UNCHANGED <<syncVars, sent, writerVars, outcomes, wire, peerVars, handlerVars, disconnects>>

(* No byte was received: end of stream, or an error on a closed descriptor. *)
(* The read handler takes the empty data for a closed socket.               *)
ReceiveNothing ==
    /\ Running("read")
    /\ fd = "open" => incoming = 0
    /\ Goto(QThread, "idle", "ended")
    /\ status' = "disconnected"
    /\ UNCHANGED <<socketIO, sync, fd, queueVars, writerVars, outcomes, wire, peerVars, eventVars>>

(* AQSocketEventDisconnected, if anybody listens. *)
ReportEnd ==
    /\ Goto(QThread, "ended", "eof")
    /\ \E listens \in Listens :
           disconnects' = IF listens THEN disconnects + 1 ELSE disconnects
    /\ UNCHANGED <<syncVars, queueVars, writerVars, outcomes, wire, peerVars, handlerVars, reader>>

(* The read handler's own [self close]. *)
CloseAtEOF ==
    /\ socketIO
    /\ Goto(QThread, "eof", "wait")
    /\ UNCHANGED <<syncVars, queueVars, writerVars, outcomes, wire, peerVars, eventVars>>

(* The socket was closed meanwhile: that -close returned early. *)
AlreadyClosed ==
    /\ ~socketIO
    /\ Goto(QThread, "eof", "returned")
    /\ UNCHANGED <<syncVars, queueVars, writerVars, outcomes, wire, peerVars, eventVars>>

ReadReturns ==
    /\ Goto(QThread, "returned", "idle")
    /\ ReadEnds
    /\ UNCHANGED <<syncVars, sent, writerVars, outcomes, wire, peerVars, eventVars>>

-----------------------------------------------------------------------------
(* -setEventHandler:, once, on a thread of its own: the handler is          *)
(* installed, and told in the critical section of what is in the reader     *)
(* already, whatever has become of the socket.                              *)

InstallHandler ==
    /\ ~handler
    /\ handler' = TRUE
    /\ announcing' = TRUE
    /\ UNCHANGED <<syncVars, queueVars, pc, writerVars, outcomes, wire, peerVars, reader, disconnects>>

AnnounceData ==
    /\ announcing
    /\ announcing' = FALSE
    /\ reader' = 0
    /\ UNCHANGED <<syncVars, queueVars, pc, writerVars, outcomes, wire, peerVars,
                   handler, disconnects>>

-----------------------------------------------------------------------------
(* The write block: send() until everything was taken. It takes any number *)
(* of the bytes it is offered, or none (EAGAIN: the block waits in         *)
(* select() and tries again). The pointer p is never advanced: what is     *)
(* offered after a partial send starts at the first byte again.            *)

Offered(i) ==
    <<Head(queue).ticket, i, IF fd = "open" THEN "peer" ELSE "stranger">>

(* Mutant: a partial send ends the write. *)
SendOnce(k) ==
    /\ Running("write")
    /\ fd # "closed"
    /\ k <= WriteLen - sent
    /\ wire' = wire \o [i \in 1..k |-> Offered(i)]
    /\ queue' = Append(Tail(queue), DoneJob(Head(queue).ticket, "ok"))
    /\ UNCHANGED <<syncVars, sent, source, pc, writerVars, outcomes, peerVars, eventVars>>

SendSome(k) ==
    /\ Running("write")
    /\ fd # "closed"
    /\ k <= WriteLen - sent
    /\ wire' = wire \o [i \in 1..k |-> Offered(i)]
    /\ IF sent + k = WriteLen
       THEN /\ sent' = 0
            /\ queue' = Append(Tail(queue), DoneJob(Head(queue).ticket, "ok"))
       ELSE /\ sent' = sent + k
            /\ queue' = queue
    /\ UNCHANGED <<syncVars, source, pc, writerVars, outcomes, peerVars, eventVars>>

(* Mutant: an error is reported at once, not in a block of its own. *)
SendFailsInline ==
    /\ Running("write")
    /\ fd = "open" => peerClosed
    /\ outcomes' = Append(outcomes, <<Head(queue).ticket, "other">>)
    /\ queue' = Tail(queue)
    /\ sent' = 0
    /\ UNCHANGED <<syncVars, source, pc, writerVars, wire, peerVars, eventVars>>

(* Mutant: the completion handler is forgotten on an error. *)
SendFailsSilently ==
    /\ Running("write")
    /\ fd = "open" => peerClosed
    /\ queue' = Tail(queue)
    /\ sent' = 0
    /\ UNCHANGED <<syncVars, source, pc, writerVars, outcomes, wire, peerVars, eventVars>>

(* EPIPE or ECONNRESET once the other end is gone, EBADF on a closed        *)
(* descriptor.                                                             *)
SendFails ==
    /\ Running("write")
    /\ fd = "open" => peerClosed
    /\ LET result == IF fd = "closed" THEN "other" ELSE "pipe"
       IN  queue' = Append(Tail(queue), DoneJob(Head(queue).ticket, result))
    /\ sent' = 0
    /\ UNCHANGED <<syncVars, source, pc, writerVars, outcomes, wire, peerVars, eventVars>>

(* The completion handler, in a block of its own. *)
Complete ==
    /\ Running("done")
    /\ outcomes' = Append(outcomes, <<Head(queue).ticket, Head(queue).result>>)
    /\ queue' = Tail(queue)
    /\ UNCHANGED <<syncVars, sent, source, pc, writerVars, wire, peerVars, eventVars>>

-----------------------------------------------------------------------------
(* The peer, and the rest of the process. *)

(* accept() hands out the lowest free number, the one just closed. *)
DescriptorReused ==
    /\ fd = "closed"
    /\ fd' = "reused"
    /\ UNCHANGED <<status, socketIO, sync, queueVars, pc, writerVars, outcomes, wire, peerVars, eventVars>>

PeerSends ==
    /\ ~peerClosed
    /\ fd = "open"
    /\ arrivals < MaxIncoming
    /\ arrivals' = arrivals + 1
    /\ incoming' = incoming + 1
    /\ UNCHANGED <<syncVars, queueVars, pc, writerVars, outcomes, wire, peerClosed, eventVars>>

PeerCloses ==
    /\ ~peerClosed
    /\ peerClosed' = TRUE
    /\ UNCHANGED <<syncVars, queueVars, pc, writerVars, outcomes, wire, incoming, arrivals, eventVars>>

-----------------------------------------------------------------------------
WriterStep(w) ==
    \/ EnterWriteBytes(w) \/ ClaimForWrite(w) \/ ClaimTimesOut(w)
    \/ Schedule(w) \/ SignalAfterWrite(w) \/ WriteAllReturns(w)

QueueStep ==
    \/ ReceiveData \/ DeliverData
    \/ ReceiveNothing \/ ReportEnd \/ CloseAtEOF \/ AlreadyClosed \/ ReadReturns
    \/ CloseStep(QThread)
    \/ \E k \in 1..WriteLen : SendSome(k)
    \/ SendFails \/ Complete

Next ==
    \/ \E w \in Writers : WriteAll(w) \/ WriterStep(w)
    \/ \E c \in Closers : CloseBegins(c) \/ CloseStep(c)
    \/ SourceFires
    \/ QueueStep
    \/ InstallHandler \/ AnnounceData
    \/ PeerSends \/ PeerCloses \/ DescriptorReused

Spec == Init /\ [][Next]_vars

(* Threads inside a call keep running, the source is serviced, and send()  *)
(* does not find the output buffer full for ever: a peer that never reads  *)
(* and never closes is left out. Nobody has to call -writeAll:, -close or  *)
(* -setEventHandler:.                                                      *)
Fairness ==
    /\ \A w \in Writers : WF_vars(WriterStep(w))
    /\ \A c \in Closers : WF_vars(CloseStep(c))
    /\ WF_vars(SourceFires)
    /\ WF_vars(QueueStep)
    /\ WF_vars(AnnounceData)

FairSpec == Spec /\ Fairness

-----------------------------------------------------------------------------
(* Properties. *)

(* -writeBytes: raises an exception when it has claimed _sync and finds     *)
(* _socketIO nil (AQSocket.m:845). It never does: whoever closes keeps      *)
(* _sync for good, so a claim that succeeds finds the channel in place.     *)
ClaimedChannelIsThere ==
    \A w \in Writers : pc[w] = "schedule" => socketIO

(* close() is called at most once on the descriptor, so it never closes one *)
(* that the system has given to somebody else meanwhile (AQSocket.m:785).   *)
DescriptorClosedOnce ==
    \A c \in ClosingThreads : pc[c] = "closefd" => fd = "open"

(* A completion handler gets no error only after send() took as many bytes *)
(* as the write has (AQSocketIOChannel.m:469).                             *)
BytesTaken(n) == {i \in 1..Len(wire) : wire[i][1] = n}

SuccessCountsAllBytes ==
    \A i \in 1..Len(outcomes) :
        outcomes[i][2] = "ok" => Cardinality(BytesTaken(outcomes[i][1])) = WriteLen

(* What the peer receives of a write that succeeded is that write, from its *)
(* first byte to its last: "guaranteed to write everything in a single go,  *)
(* monitoring writability states" (AQSocket.h:214).                         *)
WrittenIntact ==
    \A i \in 1..Len(outcomes) :
        outcomes[i][2] = "ok" =>
            SelectSeq(wire, LAMBDA b : b[1] = outcomes[i][1])
                = [k \in 1..WriteLen |-> <<outcomes[i][1], k, "peer">>]

(* The end of the stream stays readable, but it is reported once (AQSocket.m *)
(* :1062), and nothing is received after it: a handler that is installed    *)
(* later (AQSocket.m:879) is told of what had arrived before and no more.    *)
DisconnectIsFinal ==
    [][disconnects > 0 => disconnects' = disconnects /\ reader' <= reader]_vars

(* A peer that closes its end is noticed, whatever is queued before the    *)
(* read block: everything it sent is received and the disconnect event     *)
(* follows (AQSocket.m:1062), or somebody closes the socket on this side.   *)
EndIsReported ==
    peerClosed /\ handler ~> (disconnects > 0 /\ incoming = 0) \/ ~socketIO

(* The writes of a socket are accepted, ordered and settled as AQSocket.h   *)
(* says, whatever the threads, the semaphore and the kernel do.             *)
Settled == [i \in 1..Len(outcomes) |-> outcomes[i][1]]

Promise == INSTANCE WriteQueue WITH open <- socketIO, settled <- Settled

OrderedWrites == Promise!Spec

(* _q is stuck: the read handler waits in -close for a semaphore that was   *)
(* consumed by another -close.                                              *)
QueueStuck == pc[QThread] = "wait" /\ sync = 0

(* An accepted write is settled, unless the queue thread is stuck for ever  *)
(* in -close behind another closer: nothing else, not the end of stream, a  *)
(* broken pipe or a close, keeps a completion handler waiting.              *)
AcceptedIsSettled ==
    \A w \in Writers :
        waitsFor[w] > 0 ~> (pc[w] = "idle" \/ []QueueStuck)
=============================================================================
