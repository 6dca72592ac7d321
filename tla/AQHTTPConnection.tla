-------------------------- MODULE AQHTTPConnection --------------------------
(***************************************************************************)
(* One AQHTTPConnection over its AQSocket: requests that arrive in pieces, *)
(* the operations they become on the serial _requestQ, the idle timer of   *)
(* the main run loop, and the ways the connection is closed.               *)
(*                                                                         *)
(* Two threads can run _handleIncomingData: the reader (the read handler,  *)
(* on the channel's serial queue) and the setter (the dispatch_after block *)
(* that installs the event handler 0.1 s after -init and delivers what has *)
(* arrived by then). Operations, completion blocks, the main thread and    *)
(* whoever sets the document root run beside them.                         *)
(*                                                                         *)
(* The peer sends the requests 1, 2, ... in order. Each is two fragments:  *)
(* 2r - 1 opens request r, and 2r ends its header. A closed socket is one  *)
(* step here; module AQSocket has what happens inside it.                  *)
(***************************************************************************)
EXTENDS Naturals, Sequences

CONSTANTS
    Requests,   \* how many requests the peer sends
    Missing,    \* the requests -responseOperationForRequest: returns nil for
    Fatal       \* the requests whose operation ends with [_connection close]

ASSUME RequestsAssumption ==
    /\ Requests \in Nat
    /\ Missing \subseteq 1..Requests
    /\ Fatal \subseteq 1..Requests

Fragments == 1..(2 * Requests)
RequestOf(f) == (f + 1) \div 2
Opens(f) == f % 2 = 1
Ends(f) == f % 2 = 0

Handlers == {"setter", "reader"}

VARIABLES
    \* the peer and the socket
    arrived,    \* fragments 1..arrived were sent
    received,   \* fragments 1..received were taken by recv()
    peerClosed,
    sock,       \* "open" until the socket is closed or sees the end of stream
    handlerSet, \* the socket's eventHandler # nil
    reader,     \* the fragments in the socket's reader
    section,    \* who is in the socket's _criticalSection
    \* the threads in the handler
    pc,         \* where the setter and the reader are
    chunk,      \* what the reader's recv() got
    msg,        \* each thread's CFHTTPMessage, as the fragments appended to it
    fresh,      \* that message is not the one _incomingMessage names
    incoming,   \* _incomingMessage, << >> for NULL
    \* the request queue
    ops,        \* the operations of _requestQ that count, in order
    opState,    \* the first of them: "waiting", "running", "hung" or "finished"
    idleBlocks, \* completion blocks {[self _maybeInstallIdleTimer]} about to run
    rootBlocks, \* completion blocks of -setDocumentRoot: about to run
    timer,      \* _idleDisconnectionTimer
    main,       \* where the main thread is in _checkIdleTimer:
    rootCaller, \* where a thread is in -setDocumentRoot:
    rootChanged,\* the document root was set
    \* the connection
    attached,   \* _socket # nil
    listed,     \* the server's _connections holds the connection
    crashed,    \* a nil block was called
    \* history
    consumed,   \* the fragments handed out by the reader, in order
    added,      \* the requests an operation was made for, in order
    finished,   \* how many operations have finished
    barrier     \* operations added when -setDocumentRoot: was called

peerVars == <<arrived, peerClosed>>
socketVars == <<sock, handlerSet, attached, listed>>
readVars == <<received, reader, section, pc, chunk>>
messageVars == <<msg, fresh, incoming, consumed>>
queueVars == <<ops, opState, added, finished>>
blockVars == <<idleBlocks, rootBlocks>>
rootVars == <<rootCaller, rootChanged, barrier>>
timerVars == <<timer, main>>
vars == <<peerVars, socketVars, readVars, messageVars, queueVars, blockVars,
          rootVars, timerVars, crashed>>

Operations ==
    [request : 1..Requests, block : {"idle", "root"}, cancelled : BOOLEAN]

TypeOK ==
    /\ arrived \in 0..(2 * Requests)
    /\ received \in 0..arrived
    /\ peerClosed \in BOOLEAN
    /\ sock \in {"open", "closed"}
    /\ handlerSet \in BOOLEAN
    /\ reader \in Seq(Fragments)
    /\ section \in Handlers \cup {"free"}
    /\ pc["setter"] \in {"delayed", "enter", "take", "read", "dispatch", "done"}
    /\ pc["reader"] \in {"idle", "append", "test", "call", "take", "read", "dispatch",
                         "eoftest", "eofcall"}
    /\ chunk \in Seq(Fragments)
    /\ \A t \in Handlers : msg[t] \in Seq(Fragments) /\ fresh[t] \in BOOLEAN
    /\ incoming \in Seq(Fragments)
    /\ ops \in Seq(Operations)
    /\ opState \in {"waiting", "running", "hung", "finished"}
    /\ ops = << >> => opState = "waiting"
    /\ idleBlocks \in Nat /\ rootBlocks \in Nat
    /\ timer \in {"nil", "armed", "firing", "stale"}
    /\ main \in {"idle", "check", "close"}
    /\ rootCaller \in {"idle", "defer", "now", "done"}
    /\ rootChanged \in BOOLEAN
    /\ attached \in BOOLEAN /\ listed \in BOOLEAN /\ crashed \in BOOLEAN
    /\ consumed \in Seq(Fragments)
    /\ added \in Seq(1..Requests)
    /\ finished \in Nat /\ barrier \in Nat

Init ==
    /\ arrived = 0 /\ received = 0 /\ peerClosed = FALSE
    /\ sock = "open" /\ handlerSet = FALSE
    /\ reader = << >> /\ section = "free"
    /\ pc = [setter |-> "delayed", reader |-> "idle"]
    /\ chunk = << >>
    /\ msg = [t \in Handlers |-> << >>]
    /\ fresh = [t \in Handlers |-> FALSE]
    /\ incoming = << >>
    /\ ops = << >> /\ opState = "waiting"
    /\ idleBlocks = 0 /\ rootBlocks = 0
    /\ timer = "nil" /\ main = "idle"
    /\ rootCaller = "idle" /\ rootChanged = FALSE
    /\ attached = TRUE /\ listed = TRUE /\ crashed = FALSE
    /\ consumed = << >> /\ added = << >> /\ finished = 0
    /\ barrier = 0

(* A call of a nil block ends the process. *)
Alive == ~crashed

Goto(t, from, to) == pc[t] = from /\ pc' = [pc EXCEPT ![t] = to]

-----------------------------------------------------------------------------
(* -close: every operation is cancelled, the socket closed and let go, and *)
(* the delegate, when there is one, forgets the connection.                *)

Cancelled(queue) == [i \in DOMAIN queue |-> [queue[i] EXCEPT !.cancelled = TRUE]]

Close ==
    /\ ops' = Cancelled(ops)
    /\ sock' = "closed"
    /\ handlerSet' = FALSE
    /\ attached' = FALSE
    /\ listed' = FALSE

-----------------------------------------------------------------------------
(* The peer. *)

PeerSends ==
    /\ Alive
    /\ ~peerClosed
    /\ arrived < 2 * Requests
    /\ arrived' = arrived + 1
    /\ UNCHANGED <<peerClosed, socketVars, readVars, messageVars, queueVars,
                   blockVars, rootVars, timerVars, crashed>>

PeerCloses ==
    /\ Alive
    /\ ~peerClosed
    /\ peerClosed' = TRUE
    /\ UNCHANGED <<arrived, socketVars, readVars, messageVars, queueVars,
                   blockVars, rootVars, timerVars, crashed>>

-----------------------------------------------------------------------------
(* The read handler of the socket, on the serial queue of its channel. *)

Receive ==
    /\ Alive
    /\ sock = "open"
    /\ received < arrived
    /\ Goto("reader", "idle", "append")
    /\ chunk' = [i \in 1..(arrived - received) |-> received + i]
    /\ received' = arrived
    /\ UNCHANGED <<peerVars, socketVars, reader, section, messageVars, queueVars,
                   blockVars, rootVars, timerVars, crashed>>

(* Mutant: -appendData: outside the critical section, over what the other *)
(* thread is about to look at.                                            *)
AppendOverwrites ==
    /\ Alive
    /\ Goto("reader", "append", "test")
    /\ reader' = chunk
    /\ chunk' = << >>
    /\ UNCHANGED <<peerVars, socketVars, received, section, messageVars, queueVars,
                   blockVars, rootVars, timerVars, crashed>>

(* -appendData: in the critical section. *)
AppendChunk ==
    /\ Alive
    /\ section = "free"
    /\ Goto("reader", "append", "test")
    /\ reader' = reader \o chunk
    /\ chunk' = << >>
    /\ UNCHANGED <<peerVars, socketVars, received, section, messageVars, queueVars,
                   blockVars, rootVars, timerVars, crashed>>

(* The handler is read twice: for the test, and for the call. *)
TestHandler ==
    /\ Alive
    /\ Goto("reader", "test", IF handlerSet THEN "call" ELSE "idle")
    /\ UNCHANGED <<peerVars, socketVars, received, reader, section, chunk, messageVars,
                   queueVars, blockVars, rootVars, timerVars, crashed>>

CallHandler ==
    /\ Alive
    /\ \/ handlerSet /\ Goto("reader", "call", "take") /\ UNCHANGED crashed
       \/ ~handlerSet /\ Goto("reader", "call", "idle") /\ crashed' = TRUE
    /\ UNCHANGED <<peerVars, socketVars, received, reader, section, chunk, messageVars,
                   queueVars, blockVars, rootVars, timerVars>>

(* End of stream: the status changes first, the connection is told when it *)
(* has a handler, and the socket closes itself in any case.                *)
EndOfStream ==
    /\ Alive
    /\ sock = "open"
    /\ peerClosed /\ received = arrived
    /\ Goto("reader", "idle", "eoftest")
    /\ sock' = "closed"
    /\ UNCHANGED <<peerVars, handlerSet, attached, listed, received, reader, section, chunk,
                   messageVars, queueVars, blockVars, rootVars, timerVars, crashed>>

TestAtEOF ==
    /\ Alive
    /\ Goto("reader", "eoftest", IF handlerSet THEN "eofcall" ELSE "idle")
    /\ UNCHANGED <<peerVars, socketVars, received, reader, section, chunk, messageVars,
                   queueVars, blockVars, rootVars, timerVars, crashed>>

(* Mutant: the delegate is not told that the connection closed. *)
CallAtEOFQuietly ==
    /\ Alive
    /\ Goto("reader", "eofcall", "idle")
    /\ handlerSet
    /\ ops' = Cancelled(ops)
    /\ handlerSet' = FALSE
    /\ attached' = FALSE
    /\ UNCHANGED <<peerVars, sock, listed, received, reader, section, chunk, messageVars,
                   opState, added, finished, blockVars, rootVars, timerVars, crashed>>

(* AQSocketEventDisconnected: _socketDisconnected closes the connection. *)
CallAtEOF ==
    /\ Alive
    /\ Goto("reader", "eofcall", "idle")
    /\ \/ handlerSet /\ Close /\ UNCHANGED crashed
       \/ ~handlerSet /\ crashed' = TRUE /\ UNCHANGED <<socketVars, ops>>
    /\ UNCHANGED <<peerVars, received, reader, section, chunk, messageVars, opState, added,
                   finished, blockVars, rootVars, timerVars>>

-----------------------------------------------------------------------------
(* _setEventHandlerOnSocket, 0.1 s after -init. *)

(* Without a socket any more this is a message to nil. *)
SetHandler ==
    /\ Alive
    /\ Goto("setter", "delayed", IF attached THEN "enter" ELSE "done")
    /\ handlerSet' = attached
    /\ UNCHANGED <<peerVars, sock, attached, listed, received, reader, section, chunk,
                   messageVars, queueVars, blockVars, rootVars, timerVars, crashed>>

(* Mutant: the handler is installed, and nobody looks at what is there. *)
NeglectEarlyData ==
    /\ Alive
    /\ section = "free"
    /\ Goto("setter", "enter", "done")
    /\ UNCHANGED <<peerVars, socketVars, received, reader, section, chunk, messageVars,
                   queueVars, blockVars, rootVars, timerVars, crashed>>

(* What arrived before is delivered, and the handler runs in the section. *)
DeliverEarlyData ==
    /\ Alive
    /\ section = "free"
    /\ Goto("setter", "enter", IF reader # << >> THEN "take" ELSE "done")
    /\ section' = IF reader # << >> THEN "setter" ELSE "free"
    /\ UNCHANGED <<peerVars, socketVars, received, reader, chunk, messageVars,
                   queueVars, blockVars, rootVars, timerVars, crashed>>

-----------------------------------------------------------------------------
(* _handleIncomingData: in thread t. *)

(* The thread leaves the handler and releases its message. *)
Return(t) ==
    /\ msg' = [msg EXCEPT ![t] = << >>]
    /\ fresh' = [fresh EXCEPT ![t] = FALSE]
    /\ pc' = [pc EXCEPT ![t] = IF t = "setter" THEN "done" ELSE "idle"]
    /\ section' = IF section = t THEN "free" ELSE section

(* The message to append to: _incomingMessage, or a new one. *)
TakeMessage(t) ==
    /\ Alive
    /\ Goto(t, "take", "read")
    /\ msg' = [msg EXCEPT ![t] = incoming]
    /\ fresh' = [fresh EXCEPT ![t] = incoming = << >>]
    /\ UNCHANGED <<peerVars, socketVars, received, reader, section, chunk, incoming,
                   consumed,
                   queueVars, blockVars, rootVars, timerVars, crashed>>

(* The other thread has taken the data meanwhile: nothing to append. *)
ReadNothing(t) ==
    /\ Alive
    /\ reader = << >>
    /\ pc[t] = "read"
    /\ Return(t)
    /\ UNCHANGED <<peerVars, socketVars, received, reader, chunk, incoming, consumed,
                   queueVars, blockVars, rootVars, timerVars, crashed>>

(* Everything the reader has is appended, to the shared message if it is it. *)
ReadBytes(t) ==
    /\ Alive
    /\ reader # << >>
    /\ Goto(t, "read", "dispatch")
    /\ msg' = [msg EXCEPT ![t] = @ \o reader]
    /\ incoming' = IF fresh[t] \/ incoming = << >> THEN incoming ELSE msg[t] \o reader
    /\ consumed' = consumed \o reader
    /\ reader' = << >>
    /\ UNCHANGED <<peerVars, socketVars, received, section, chunk, fresh, queueVars,
                   blockVars, rootVars, timerVars, crashed>>

HeaderComplete(m) == \E i \in 1..Len(m) : Ends(m[i])

(* A message that starts in the middle of a header is no request. *)
WellFormed(m) == Opens(m[1])

(* The request of a complete message: whatever follows its header is body. *)
RequestIn(m) == RequestOf(m[1])

(* An incomplete message waits for more in _incomingMessage. *)
KeepMessage(t) ==
    /\ Alive
    /\ pc[t] = "dispatch"
    /\ ~HeaderComplete(msg[t])
    /\ incoming' = msg[t]
    /\ Return(t)
    /\ UNCHANGED <<peerVars, socketVars, received, reader, chunk, consumed,
                   queueVars, blockVars, rootVars, timerVars, crashed>>

(* Mutant: a finished message stays in _incomingMessage. *)
KeepTheMessage(t) == UNCHANGED incoming

ForgetMessage(t) == incoming' = IF fresh[t] THEN incoming ELSE << >>

(* A complete request becomes an operation; in the lock the idle timer is   *)
(* dropped, if it is valid, and the operation added. Foundation does not    *)
(* say whether a timer is valid while it fires.                             *)
AddOperation(t) ==
    /\ Alive
    /\ pc[t] = "dispatch"
    /\ HeaderComplete(msg[t]) /\ WellFormed(msg[t])
    /\ RequestIn(msg[t]) \notin Missing
    /\ ForgetMessage(t)
    /\ timer' \in CASE timer = "armed"  -> {"nil"}
                    [] timer = "firing" -> {"nil", "firing"}
                    [] OTHER            -> {timer}
    /\ ops' = Append(ops, [request |-> RequestIn(msg[t]), block |-> "idle", cancelled |-> FALSE])
    /\ added' = Append(added, RequestIn(msg[t]))
    /\ Return(t)
    /\ UNCHANGED <<peerVars, socketVars, received, reader, chunk, consumed,
                   opState, finished, blockVars, rootVars, main, crashed>>

(* No operation for the request: the connection is closed. Bytes that are  *)
(* no request end here too, or are refused by CFHTTPMessageAppendBytes.     *)
NoOperation(t) ==
    /\ Alive
    /\ pc[t] = "dispatch"
    /\ HeaderComplete(msg[t])
    /\ ~WellFormed(msg[t]) \/ RequestIn(msg[t]) \in Missing
    /\ ForgetMessage(t)
    /\ Close
    /\ Return(t)
    /\ UNCHANGED <<peerVars, received, reader, chunk, consumed, opState, added,
                   finished, blockVars, rootVars, timerVars, crashed>>

BytesRefused(t) ==
    /\ Alive
    /\ pc[t] = "dispatch"
    /\ ~WellFormed(msg[t])
    /\ Return(t)
    /\ UNCHANGED <<peerVars, socketVars, received, reader, chunk, incoming, consumed,
                   queueVars, blockVars, rootVars, timerVars, crashed>>

-----------------------------------------------------------------------------
(* The serial _requestQ: a cancelled operation that has not started never   *)
(* runs its -main, and finishes like any other. -main does not look at      *)
(* isCancelled.                                                            *)

(* The operation finishes; its completion block, as set by now, is handed   *)
(* to another thread. The operation still counts until it is dequeued.      *)
Finish ==
    /\ opState' = "finished"
    /\ finished' = finished + 1
    /\ IF Head(ops).block = "idle"
       THEN idleBlocks' = idleBlocks + 1 /\ UNCHANGED rootBlocks
       ELSE rootBlocks' = rootBlocks + 1 /\ UNCHANGED idleBlocks

StartOperation ==
    /\ Alive
    /\ ops # << >> /\ opState = "waiting"
    /\ ~Head(ops).cancelled
    /\ opState' = "running"
    /\ UNCHANGED <<peerVars, socketVars, readVars, messageVars, ops, added, finished,
                   blockVars, rootVars, timerVars, crashed>>

(* Mutant: a cancelled operation does not report that it has finished. *)
SkipWithoutFinishing ==
    /\ Alive
    /\ ops # << >> /\ opState = "waiting"
    /\ Head(ops).cancelled
    /\ UNCHANGED vars

SkipCancelled ==
    /\ Alive
    /\ ops # << >> /\ opState = "waiting"
    /\ Head(ops).cancelled
    /\ Finish
    /\ UNCHANGED <<peerVars, socketVars, readVars, messageVars, ops, added,
                   rootVars, timerVars, crashed>>

(* -main writes the response (AQSocket says what becomes of it), and closes *)
(* the connection when reading failed or "Connection: close" was answered.  *)
Respond ==
    /\ Alive
    /\ opState = "running"
    /\ IF Head(ops).request \in Fatal THEN Close ELSE UNCHANGED <<socketVars, ops>>
    /\ Finish
    /\ UNCHANGED <<peerVars, readVars, messageVars, added, rootVars, timerVars, crashed>>

(* -main never returns. A socket that is closed or at its end under the     *)
(* operation is one whose -writeBytes: may give up without a completion for *)
(* -writeAll: to wait for, and whose -close may wait behind another one.    *)
RespondForEver ==
    /\ Alive
    /\ opState = "running"
    /\ sock = "closed"
    /\ opState' = "hung"
    /\ UNCHANGED <<peerVars, socketVars, readVars, messageVars, ops, added, finished,
                   blockVars, rootVars, timerVars, crashed>>

Dequeue ==
    /\ Alive
    /\ opState = "finished"
    /\ opState' = "waiting"
    /\ ops' = Tail(ops)
    /\ UNCHANGED <<peerVars, socketVars, readVars, messageVars, added, finished,
                   blockVars, rootVars, timerVars, crashed>>

-----------------------------------------------------------------------------
(* The idle timer. *)

(* Mutant: the timer is installed without counting the operations. *)
RunIdleBlockBlindly ==
    /\ Alive
    /\ idleBlocks > 0
    /\ idleBlocks' = idleBlocks - 1
    /\ timer' = IF timer = "nil" THEN "armed" ELSE timer
    /\ UNCHANGED <<peerVars, socketVars, readVars, messageVars, queueVars, rootBlocks,
                   rootVars, main, crashed>>

(* _maybeInstallIdleTimer, in the lock: operationCount = 0 and no timer. *)
RunIdleBlock ==
    /\ Alive
    /\ idleBlocks > 0
    /\ idleBlocks' = idleBlocks - 1
    /\ timer' = IF ops = << >> /\ timer = "nil" THEN "armed" ELSE timer
    /\ UNCHANGED <<peerVars, socketVars, readVars, messageVars, queueVars, rootBlocks,
                   rootVars, main, crashed>>

TimerFires ==
    /\ Alive
    /\ timer = "armed" /\ main = "idle"
    /\ timer' = "firing"
    /\ main' = "check"
    /\ UNCHANGED <<peerVars, socketVars, readVars, messageVars, queueVars, blockVars,
                   rootVars, crashed>>

(* The timer does not repeat: when the callback is over it is invalid, and  *)
(* the pointer to it stays.                                                *)
CallbackEnds ==
    /\ main' = "idle"
    /\ timer' = IF timer = "firing" THEN "stale" ELSE timer

CheckIdle ==
    /\ Alive
    /\ main = "check"
    /\ IF ops # << >> THEN CallbackEnds ELSE main' = "close" /\ UNCHANGED timer
    /\ UNCHANGED <<peerVars, socketVars, readVars, messageVars, queueVars, blockVars,
                   rootVars, crashed>>

IdleClose ==
    /\ Alive
    /\ main = "close"
    /\ Close
    /\ CallbackEnds
    /\ UNCHANGED <<peerVars, readVars, messageVars, opState, added, finished,
                   blockVars, rootVars, crashed>>

-----------------------------------------------------------------------------
(* -setDocumentRoot:, called once. *)

CallSetRoot ==
    /\ Alive
    /\ rootCaller = "idle"
    /\ rootCaller' = IF ops # << >> THEN "defer" ELSE "now"
    /\ barrier' = Len(added)
    /\ UNCHANGED <<peerVars, socketVars, readVars, messageVars, queueVars, blockVars,
                   rootChanged, timerVars, crashed>>

SetRootNow ==
    /\ Alive
    /\ rootCaller = "now"
    /\ rootCaller' = "done"
    /\ rootChanged' = TRUE
    /\ UNCHANGED <<peerVars, socketVars, readVars, messageVars, queueVars, blockVars,
                   barrier, timerVars, crashed>>

(* Mutant: the first operation's completion block is replaced. *)
DeferToTheFirst ==
    /\ Alive
    /\ rootCaller = "defer"
    /\ rootCaller' = "done"
    /\ ops' = IF ops = << >> THEN ops ELSE [ops EXCEPT ![1].block = "root"]
    /\ UNCHANGED <<peerVars, socketVars, readVars, messageVars, opState, added, finished,
                   blockVars, rootChanged, barrier, timerVars, crashed>>

(* The setter replaces the completion block of the last operation: of none, *)
(* when they are gone by now, and in vain when that one has finished.       *)
DeferSetRoot ==
    /\ Alive
    /\ rootCaller = "defer"
    /\ rootCaller' = "done"
    /\ ops' = IF ops = << >> THEN ops ELSE [ops EXCEPT ![Len(ops)].block = "root"]
    /\ UNCHANGED <<peerVars, socketVars, readVars, messageVars, opState, added,
                   finished, blockVars, rootChanged, barrier, timerVars, crashed>>

RunRootBlock ==
    /\ Alive
    /\ rootBlocks > 0
    /\ rootBlocks' = rootBlocks - 1
    /\ rootChanged' = TRUE
    /\ UNCHANGED <<peerVars, socketVars, readVars, messageVars, queueVars, idleBlocks,
                   rootCaller, barrier, timerVars, crashed>>

-----------------------------------------------------------------------------
(* -[AQHTTPServer stop] closes every connection it has and forgets them. *)
ServerStops ==
    /\ Alive
    /\ listed
    /\ Close
    /\ UNCHANGED <<peerVars, readVars, messageVars, opState, added, finished,
                   blockVars, rootVars, timerVars, crashed>>

HandlerStep(t) ==
    \/ TakeMessage(t) \/ ReadNothing(t) \/ ReadBytes(t)
    \/ KeepMessage(t) \/ AddOperation(t) \/ NoOperation(t) \/ BytesRefused(t)

ReaderStep ==
    \/ Receive \/ AppendChunk \/ TestHandler \/ CallHandler
    \/ EndOfStream \/ TestAtEOF \/ CallAtEOF
    \/ HandlerStep("reader")

SetterStep == SetHandler \/ DeliverEarlyData \/ HandlerStep("setter")

QueueStep ==
    \/ StartOperation \/ SkipCancelled
    \/ Respond \/ RespondForEver
    \/ Dequeue

MainStep == TimerFires \/ CheckIdle \/ IdleClose

RootStep == SetRootNow \/ DeferSetRoot

Next ==
    \/ PeerSends \/ PeerCloses
    \/ ReaderStep \/ SetterStep \/ QueueStep \/ MainStep
    \/ RunIdleBlock \/ RunRootBlock
    \/ CallSetRoot \/ RootStep
    \/ ServerStops

Spec == Init /\ [][Next]_vars

(* The dispatch queues, the operation queue and the main run loop service  *)
(* what is pending, and a peer that stays takes what it is sent. The peer,  *)
(* -stop and -setDocumentRoot: may never come.                              *)
Fairness ==
    /\ WF_vars(ReaderStep)
    /\ WF_vars(SetterStep)
    /\ WF_vars(QueueStep)
    /\ WF_vars(MainStep)
    /\ WF_vars(RunIdleBlock)
    /\ WF_vars(RunRootBlock)
    /\ WF_vars(RootStep)

FairSpec == Spec /\ Fairness

-----------------------------------------------------------------------------
(* Properties. *)

(* The two threads that take data from the reader never lose, repeat or     *)
(* reorder a fragment (AQSocket.m:873 and 1050 against AQHTTPConnection.m:410). *)
FragmentsInOrder ==
    consumed \o reader \o chunk = [i \in 1..received |-> i]

(* No request becomes two operations, and they are queued in the order the  *)
(* peer sent them, although two threads dispatch them.                      *)
OperationsInOrder ==
    \A i, j \in 1..Len(added) : i < j => added[i] < added[j]

(* The lock around the timer and -addOperation: works: a timer that is still *)
(* to fire is dropped by whoever adds an operation (AQHTTPConnection.m:446). *)
ArmedMeansIdle ==
    timer = "armed" => ops = << >>

(* The document root changes only after the operations enqueued when the    *)
(* setter was called have finished (AQHTTPConnection.h:124).                 *)
RootWaits ==
    [][rootChanged' # rootChanged => finished >= barrier]_vars

(* Every operation is finished and dequeued, cancelled or not, whatever is  *)
(* closed or set meanwhile, unless one before it waits for ever on a socket *)
(* that was closed under it (AQHTTPResponseOperation.m:523).                *)
OperationsFinish ==
    ops # << >> ~> (ops = << >> \/ crashed \/ opState = "hung")

(* Data that arrive while the handler is being installed wake somebody up:  *)
(* they are taken out of the reader, or the connection goes away first.     *)
NoLostWakeup ==
    reader # << >> ~> reader = << >> \/ sock = "closed" \/ crashed

(* When the client closes its end of a connection whose handler is in       *)
(* place, the server forgets the connection.                                *)
DisconnectIsNoticed ==
    (peerClosed /\ handlerSet /\ sock = "open") ~> (~listed \/ crashed)

(* Pipelining is supported (AQHTTPConnection.m:179, :373): every request    *)
(* whose header was taken from the reader became an operation, in order,    *)
(* as long as all of them can be answered.                                  *)
EveryRequestQueued ==
    sock = "open" /\ (\A t \in Handlers : pc[t] # "dispatch")
        => Len(added) = Len(SelectSeq(consumed, Ends))
=============================================================================
