---------------------------- MODULE PackageServer ----------------------------
(***************************************************************************)
(* The servers behind the reader screens: PackageResourceServer makes an   *)
(* AQHTTPServer for the package on screen and stops it when the screen     *)
(* goes away. The package and the lock of the byte streams are statics, so *)
(* whatever a request of one server still does meets those of the next.    *)
(*                                                                         *)
(* The main thread makes and deallocates the servers, one screen after the *)
(* other. Every connection has a thread of the accept handler, then one    *)
(* that handles its events, then that of its operation; one request per    *)
(* connection is enough here, AQHTTPConnection has the rest. Messages to   *)
(* deallocated objects, to nil locks and nil blocks end the program.       *)
(***************************************************************************)
EXTENDS Naturals

CONSTANTS
    Connections,    \* the connections clients open
    MaxServers,     \* bound: reader screens one after the other
    MaxReads        \* bound: reads of one operation

ASSUME BoundsAssumption == MaxServers \in Nat /\ MaxReads \in Nat

Nil == 0
Servers == 1..MaxServers    \* also their packages and their locks

VARIABLES
    main,       \* where the main thread is in -initWithPackage: or -dealloc
    server,     \* the latest PackageResourceServer
    bound,      \* servers whose listening sockets are bound
    lock,       \* m_byteStreamResourceLock
    count,      \* the count of each lock
    package,    \* PackageResourceConnection's m_package
    toClose,    \* connections -_clearConnections has still to come to
    mutated,    \* the set changed while it does that
    owner,      \* the server each connection was accepted by
    listed,     \* connections in the _connections of their server
    closed,     \* connections whose socket was closed
    closer,     \* who is in -close of the socket of each connection
    undelegated,\* connections whose delegate is nil
    callbacks,  \* connections about to call -connectionDidClose:
    pc,         \* what the request of each connection has come to
    sem,        \* the lock a request waits for, or waited for and holds
    resource,   \* the package a resource was found in, until its operation has it
    reads,      \* how often its operation has read
    crashed     \* the program has ended

mainVars == <<main, server, bound>>
clearVars == <<toClose, mutated>>
lockVars == <<lock, count>>
connectionVars == <<owner, listed, closed, closer, undelegated, callbacks>>
requestVars == <<pc, sem, resource, reads>>
vars == <<mainVars, clearVars, lockVars, package, connectionVars, requestVars, crashed>>

HandlerSteps == {"asked", "look", "lookwait", "looking", "found"}
OperationSteps == {"read", "readwait", "reading"}
Inside == {"looking", "reading"}
Places == {"none", "accepted", "dropped", "idle", "queued", "done"}
          \cup HandlerSteps \cup OperationSteps

TypeOK ==
    /\ main \in {"none", "locked", "failed", "started", "open", "unlocked", "clearing",
                 "stuck", "cleared", "shutdown", "stopped"}
    /\ server \in 0..MaxServers
    /\ main # "none" => server \in Servers
    /\ bound \subseteq Servers
    /\ lock \in Servers \cup {Nil}
    /\ count \in [Servers -> Nat]
    /\ package \in Servers \cup {Nil}
    /\ toClose \subseteq Connections
    /\ mutated \in BOOLEAN
    /\ owner \in [Connections -> Servers \cup {Nil}]
    /\ listed \subseteq Connections
    /\ closed \subseteq Connections
    /\ closer \in [Connections -> {"none", "main", "own"}]
    /\ undelegated \subseteq Connections
    /\ callbacks \subseteq Connections
    /\ pc \in [Connections -> Places]
    /\ sem \in [Connections -> Servers \cup {Nil}]
    /\ resource \in [Connections -> Servers \cup {Nil}]
    /\ reads \in [Connections -> 0..MaxReads]
    /\ crashed \in BOOLEAN

Init ==
    /\ main = "none" /\ server = 0 /\ bound = {}
    /\ lock = Nil /\ count = [s \in Servers |-> 1]
    /\ package = Nil
    /\ toClose = {} /\ mutated = FALSE
    /\ owner = [c \in Connections |-> Nil]
    /\ listed = {} /\ closed = {} /\ undelegated = {} /\ callbacks = {}
    /\ closer = [c \in Connections |-> "none"]
    /\ pc = [c \in Connections |-> "none"]
    /\ sem = [c \in Connections |-> Nil]
    /\ resource = [c \in Connections |-> Nil]
    /\ reads = [c \in Connections |-> 0]
    /\ crashed = FALSE

Running == ~crashed

(* The program ends, and its memory with it. *)
Crash ==
    /\ crashed' = TRUE
    /\ main' = "none" /\ server' = 0 /\ bound' = {}
    /\ lock' = Nil /\ count' = [s \in Servers |-> 1]
    /\ package' = Nil
    /\ toClose' = {} /\ mutated' = FALSE
    /\ owner' = [c \in Connections |-> Nil]
    /\ listed' = {} /\ closed' = {} /\ undelegated' = {} /\ callbacks' = {}
    /\ closer' = [c \in Connections |-> "none"]
    /\ pc' = [c \in Connections |-> "none"]
    /\ sem' = [c \in Connections |-> Nil]
    /\ resource' = [c \in Connections |-> Nil]
    /\ reads' = [c \in Connections |-> 0]

(* The handler blocks are in place from -start: until -_shutdownSockets. *)
HandlerSet(s) ==
    s = server /\ main \in {"started", "open", "unlocked", "clearing", "stuck", "cleared"}

(* The AQHTTPServer of s was released for the last time. *)
Freed(s) == s < server \/ (s = server /\ main \in {"stopped", "none"})

ListedBy(s) == {c \in listed : owner[c] = s}

-----------------------------------------------------------------------------
(* The main thread: -initWithPackage:. *)

MakeLock ==
    /\ Running /\ main = "none" /\ server < MaxServers
    /\ server' = server + 1
    /\ lock' = server + 1
    /\ main' = "locked"
    /\ UNCHANGED <<bound, clearVars, count, package, connectionVars, requestVars, crashed>>

Start ==
    /\ Running /\ main = "locked"
    /\ bound' = bound \cup {server}
    /\ main' = "started"
    /\ UNCHANGED <<server, clearVars, lockVars, package, connectionVars, requestVars, crashed>>

(* The server's address cannot be bound, and the object is released at once. *)
StartFails ==
    /\ Running /\ main = "locked"
    /\ main' = "failed"
    /\ UNCHANGED <<server, bound, clearVars, lockVars, package, connectionVars, requestVars,
                   crashed>>

SetPackage ==
    /\ Running /\ main = "started"
    /\ package' = server
    /\ main' = "open"
    /\ UNCHANGED <<server, bound, clearVars, lockVars, connectionVars, requestVars, crashed>>

-----------------------------------------------------------------------------
(* The main thread: -dealloc, with -stop of the AQHTTPServer in it. *)

AfterLock == IF main = "open" THEN "unlocked" ELSE "stopped"

(* Mutant: the signal that the code has commented out. *)
SignalAndReleaseLock ==
    /\ Running /\ main \in {"open", "failed"}
    /\ count' = [count EXCEPT ![lock] = @ + 1]
    /\ lock' = Nil
    /\ main' = AfterLock
    /\ UNCHANGED <<server, bound, clearVars, package, connectionVars, requestVars, crashed>>

(* A semaphore that is released below its first count ends the program. *)
ReleaseLock ==
    /\ Running /\ main \in {"open", "failed"}
    /\ IF count[lock] = 0 THEN Crash
       ELSE /\ lock' = Nil
            /\ main' = AfterLock
            /\ UNCHANGED <<server, bound, clearVars, count, package, connectionVars,
                           requestVars, crashed>>

ClearConnections ==
    /\ Running /\ main = "unlocked"
    /\ main' = "clearing"
    /\ toClose' = ListedBy(server)
    /\ mutated' = FALSE
    /\ UNCHANGED <<server, bound, lockVars, package, connectionVars, requestVars, crashed>>

(* Closing cancels the operation, which matters only until it has started. *)
Cancelled(c) == [pc EXCEPT ![c] = IF @ = "queued" THEN "done" ELSE @]

(* The loop over _connections raises an exception when the set has changed; *)
(* the delegate of the next connection is taken away.                       *)
Undelegate ==
    /\ Running /\ main = "clearing"
    /\ toClose # {} /\ toClose \cap undelegated = {}
    /\ IF mutated THEN Crash
       ELSE /\ \E c \in toClose : undelegated' = undelegated \cup {c}
            /\ UNCHANGED <<mainVars, clearVars, lockVars, package, owner, listed, closed, closer,
                           callbacks, requestVars, crashed>>

(* That connection is closed: its socket is claimed, was closed before, or   *)
(* is being closed. In that case the main thread waits for a signal of _sync *)
(* that -[AQSocket close] never gives.                                       *)
CloseNext ==
    /\ Running /\ main = "clearing"
    /\ \E c \in toClose \cap undelegated :
        /\ closer[c] # "main"
        /\ pc' = Cancelled(c)
        /\ \/ /\ c \notin closed /\ closer[c] = "none"
              /\ closer' = [closer EXCEPT ![c] = "main"]
              /\ UNCHANGED <<main, toClose>>
           \/ /\ c \in closed
              /\ toClose' = toClose \ {c}
              /\ UNCHANGED <<main, closer>>
           \/ /\ closer[c] = "own"
              /\ main' = "stuck"
              /\ UNCHANGED <<closer, toClose>>
    /\ UNCHANGED <<server, bound, mutated, lockVars, package, owner, listed, closed, undelegated,
                   callbacks, sem, resource, reads, crashed>>

(* The socket has let go of its channel: nobody waits for it any more. *)
LetGo(c) ==
    /\ closer' = [closer EXCEPT ![c] = "none"]
    /\ closed' = closed \cup {c}

EndCloseNext ==
    /\ Running /\ main = "clearing"
    /\ \E c \in toClose : closer[c] = "main" /\ LetGo(c) /\ toClose' = toClose \ {c}
    /\ UNCHANGED <<mainVars, mutated, lockVars, package, owner, listed, undelegated, callbacks,
                   requestVars, crashed>>

RemoveAllObjects ==
    /\ Running /\ main = "clearing" /\ toClose = {}
    /\ listed' = listed \ ListedBy(server)
    /\ mutated' = FALSE
    /\ main' = "cleared"
    /\ UNCHANGED <<server, bound, toClose, lockVars, package, owner, closed, closer,
                   undelegated, callbacks, requestVars, crashed>>

(* Takes the handlers away; -close does nothing for a listening socket, and  *)
(* the block of its dispatch source keeps the AQSocket.                       *)
ShutdownSockets ==
    /\ Running /\ main = "cleared"
    /\ main' = "shutdown"
    /\ UNCHANGED <<server, bound, clearVars, lockVars, package, connectionVars, requestVars,
                   crashed>>

(* The last release of the AQHTTPServer releases what is in its set. *)
FreeServer ==
    /\ Running /\ main = "shutdown"
    /\ listed' = listed \ ListedBy(server)
    /\ main' = "stopped"
    /\ UNCHANGED <<server, bound, clearVars, lockVars, package, owner, closed, closer,
                   undelegated, callbacks, requestVars, crashed>>

(* Mutant: the class keeps the package. *)
KeepPackage ==
    /\ Running /\ main = "stopped"
    /\ main' = "none"
    /\ UNCHANGED <<server, bound, clearVars, lockVars, package, connectionVars, requestVars,
                   crashed>>

UnsetPackage ==
    /\ Running /\ main = "stopped"
    /\ package' = Nil
    /\ main' = "none"
    /\ UNCHANGED <<server, bound, clearVars, lockVars, connectionVars, requestVars, crashed>>

-----------------------------------------------------------------------------
(* Accepting. A server that was stopped still accepts: nobody is told, and  *)
(* the client waits.                                                        *)

Accept(c) ==
    /\ Running /\ pc[c] = "none"
    /\ \E s \in bound :
        \/ /\ HandlerSet(s)
           /\ owner' = [owner EXCEPT ![c] = s]
           /\ pc' = [pc EXCEPT ![c] = "accepted"]
        \/ /\ ~HandlerSet(s)
           /\ pc' = [pc EXCEPT ![c] = "dropped"]
           /\ UNCHANGED owner
    /\ UNCHANGED <<mainVars, clearVars, lockVars, package, listed, closed, closer, undelegated,
                   callbacks, sem, resource, reads, crashed>>

(* The handler was tested, and is read again to be called. *)
CallHandler(c) ==
    /\ Running /\ pc[c] = "accepted"
    /\ IF HandlerSet(owner[c])
       THEN /\ listed' = listed \cup {c}
            /\ mutated' = (main = "clearing")
            /\ pc' = [pc EXCEPT ![c] = "idle"]
            /\ UNCHANGED <<mainVars, toClose, lockVars, package, owner, closed, closer,
                           undelegated, callbacks, sem, resource, reads, crashed>>
       ELSE Crash

-----------------------------------------------------------------------------
(* -close of a connection by its own thread or its operation.               *)

(* Its socket is claimed; or was closed before, and the delegate is told     *)
(* again; or is being closed, and the thread waits for ever.                 *)
Close(c, p) ==
    /\ pc' = p
    /\ closer' = [closer EXCEPT ![c] = IF @ = "none" /\ c \notin closed THEN "own" ELSE @]
    /\ callbacks' = callbacks \cup (({c} \cap closed) \ undelegated)
    /\ UNCHANGED <<mainVars, clearVars, lockVars, package, owner, listed, closed, undelegated,
                   sem, resource, reads, crashed>>

(* Mutant: the delegate is not told while the operation runs. *)
EndQuietly(c) ==
    /\ Running /\ closer[c] = "own"
    /\ LetGo(c)
    /\ callbacks' = callbacks \cup {d \in {c} \ undelegated : pc[d] \notin OperationSteps}
    /\ UNCHANGED <<mainVars, clearVars, lockVars, package, owner, listed, undelegated,
                   requestVars, crashed>>

(* The socket is closed; then the delegate is read and told. *)
EndClose(c) ==
    /\ Running /\ closer[c] = "own"
    /\ LetGo(c)
    /\ callbacks' = callbacks \cup ({c} \ undelegated)
    /\ UNCHANGED <<mainVars, clearVars, lockVars, package, owner, listed, undelegated,
                   requestVars, crashed>>

(* The client closes its end. *)
Disconnect(c) ==
    /\ Running /\ c \in listed \ closed
    /\ pc[c] \notin HandlerSteps
    /\ Close(c, Cancelled(c))

ConnectionDidClose(c) ==
    /\ Running /\ c \in callbacks
    /\ IF Freed(owner[c]) THEN Crash
       ELSE /\ callbacks' = callbacks \ {c}
            /\ listed' = listed \ {c}
            /\ mutated' = (main = "clearing")
            /\ UNCHANGED <<mainVars, toClose, lockVars, package, owner, closed, closer,
                           undelegated, requestVars, crashed>>

(* _connections is a plain NSMutableSet: two threads in it at a time may     *)
(* corrupt it.                                                               *)
MayTouchSet(c) ==
    c \in callbacks \/ (pc[c] = "accepted" /\ HandlerSet(owner[c]))

DataRace ==
    /\ Running
    /\ \E c \in Connections :
        /\ MayTouchSet(c)
        /\ \/ main = "clearing" /\ owner[c] = server
           \/ \E d \in Connections \ {c} : owner[d] = owner[c] /\ MayTouchSet(d)
    /\ Crash

-----------------------------------------------------------------------------
(* LOCK_BYTESTREAM. The static is read to wait, and read again to signal. *)

Goto(c, place) == pc' = [pc EXCEPT ![c] = place]

ReadLock(c, from, to) ==
    /\ Running /\ pc[c] = from /\ lock # Nil
    /\ sem' = [sem EXCEPT ![c] = lock]
    /\ Goto(c, to)
    /\ UNCHANGED <<mainVars, clearVars, lockVars, package, connectionVars, resource, reads,
                   crashed>>

Enter(c, from, to) ==
    /\ Running /\ pc[c] = from /\ sem[c] = lock
    /\ count[lock] > 0
    /\ count' = [count EXCEPT ![lock] = @ - 1]
    /\ Goto(c, to)
    /\ UNCHANGED <<mainVars, clearVars, lock, package, connectionVars, sem, reads, crashed>>

(* Mutant: the block is left without the signal. *)
LeaveLocked(c, from, to) ==
    /\ Running /\ pc[c] = from /\ lock # Nil
    /\ Goto(c, to)
    /\ UNCHANGED <<mainVars, clearVars, lockVars, package, connectionVars, sem, resource, crashed>>

Leave(c, from, to) ==
    /\ Running /\ pc[c] = from /\ lock # Nil
    /\ count' = [count EXCEPT ![lock] = @ + 1]
    /\ sem' = [sem EXCEPT ![c] = Nil]
    /\ Goto(c, to)
    /\ UNCHANGED <<mainVars, clearVars, lock, package, connectionVars, resource, crashed>>

(* The static is nil, or what it held was released since it was read. *)
LockIsGone(c) ==
    /\ Running
    /\ \/ pc[c] \in {"look", "looking", "reading"} /\ lock = Nil
       \/ pc[c] = "read" /\ reads[c] < MaxReads /\ lock = Nil
       \/ pc[c] \in {"lookwait", "readwait"} /\ sem[c] # lock
    /\ Crash

-----------------------------------------------------------------------------
(* A request: -responseOperationForRequest: on the connection's thread. *)

Request(c) ==
    /\ Running /\ pc[c] = "idle" /\ c \in listed \ closed
    /\ Goto(c, "asked")
    /\ UNCHANGED <<mainVars, clearVars, lockVars, package, connectionVars, sem, resource, reads,
                   crashed>>

(* Without an operation the connection is closed. *)
NoPackage(c) ==
    /\ Running /\ pc[c] = "asked" /\ package = Nil
    /\ Close(c, [pc EXCEPT ![c] = "done"])

TestPackage(c) ==
    /\ Running /\ pc[c] = "asked" /\ package # Nil
    /\ Goto(c, "look")
    /\ UNCHANGED <<mainVars, clearVars, lockVars, package, connectionVars, sem, resource, reads,
                   crashed>>

(* The package is read once more; a nil one has no resources. *)
LookUp(c) ==
    /\ Enter(c, "lookwait", "looking")
    /\ resource' = [resource EXCEPT ![c] = package]

NoResource(c) ==
    /\ Running /\ pc[c] = "found" /\ resource[c] = Nil
    /\ Close(c, [pc EXCEPT ![c] = "done"])

AddOperation(c) ==
    /\ Running /\ pc[c] = "found" /\ resource[c] # Nil
    /\ Goto(c, "queued")
    /\ resource' = [resource EXCEPT ![c] = Nil]
    /\ UNCHANGED <<mainVars, clearVars, lockVars, package, connectionVars, sem, reads, crashed>>

(* The connection's thread does not retain the connection, and goes on with  *)
(* a deallocated one when it was only in the server's set.                   *)
HandlerIsGone(c) ==
    /\ Running /\ c \notin listed
    /\ pc[c] \in HandlerSteps \/ closer[c] = "own"
    /\ Crash

HandlerStep(c) ==
    \/ NoPackage(c) \/ TestPackage(c)
    \/ ReadLock(c, "look", "lookwait")
    \/ LookUp(c)
    \/ Leave(c, "looking", "found") /\ UNCHANGED reads
    \/ NoResource(c) \/ AddOperation(c)

-----------------------------------------------------------------------------
(* The operation, which retains its connection. *)

StartOperation(c) ==
    /\ Running /\ pc[c] = "queued"
    /\ Goto(c, "read")
    /\ UNCHANGED <<mainVars, clearVars, lockVars, package, connectionVars, sem, resource, reads,
                   crashed>>

ReadAgain(c) == reads[c] < MaxReads /\ ReadLock(c, "read", "readwait")

ReadData(c) == Enter(c, "readwait", "reading") /\ UNCHANGED resource

DataRead(c) ==
    /\ Leave(c, "reading", "read")
    /\ reads' = [reads EXCEPT ![c] = @ + 1]

(* The operation closes the connection when it could not write, or has to. *)
FinishOperation(c) ==
    /\ Running /\ pc[c] = "read"
    /\ \/ Close(c, [pc EXCEPT ![c] = "done"])
       \/ /\ Goto(c, "done")
          /\ UNCHANGED <<mainVars, clearVars, lockVars, package, connectionVars, sem, resource,
                         reads, crashed>>

OperationStep(c) ==
    StartOperation(c) \/ ReadAgain(c) \/ ReadData(c) \/ DataRead(c) \/ FinishOperation(c)

-----------------------------------------------------------------------------
MainStep ==
    \/ Start \/ StartFails \/ SetPackage
    \/ ClearConnections \/ Undelegate \/ CloseNext \/ EndCloseNext
    \/ RemoveAllObjects \/ ShutdownSockets \/ FreeServer \/ UnsetPackage

ConnectionStep(c) ==
    \/ CallHandler(c) \/ EndClose(c) \/ ConnectionDidClose(c)
    \/ HandlerStep(c) \/ OperationStep(c) \/ LockIsGone(c)

Next ==
    \/ MainStep \/ MakeLock \/ ReleaseLock \/ DataRace
    \/ \E c \in Connections :
        \/ Accept(c) \/ Request(c) \/ Disconnect(c) \/ HandlerIsGone(c)
        \/ ConnectionStep(c)

Spec == Init /\ [][Next]_vars

(* What a thread has begun it goes on with; nobody has to connect, to ask,   *)
(* or to open or leave a reader screen.                                      *)
Fairness == WF_vars(MainStep) /\ \A c \in Connections : WF_vars(ConnectionStep(c))

FairSpec == Spec /\ Fairness

-----------------------------------------------------------------------------
(* Properties. *)

(* "create a critical section lock" (PackageResourceServer.m:61): the lock   *)
(* is replaced from server to server and signalled through the static, yet   *)
(* two requests are never in the byte streams at the same time.              *)
ReadsExclusive ==
    \A c, d \in Connections : pc[c] \in Inside /\ pc[d] \in Inside => c = d

(* The static package may be one server ahead of a request, or nil, but a    *)
(* request is never answered from the package of an earlier server, although *)
(* each server listens before it sets its own (PackageResourceServer.m:76).  *)
LookupIsNotStale ==
    \A c \in Connections : resource[c] # Nil => resource[c] >= owner[c]

(* Whoever waits for the byte streams gets them, unless the program ends.    *)
ReadersGetThrough ==
    \A c \in Connections :
        pc[c] \in {"lookwait", "readwait"} ~> crashed \/ pc[c] \notin {"lookwait", "readwait"}

(* A closed connection leaves the server's set, whether its thread, its      *)
(* operation or -stop closed it (AQHTTPServer.m:339), unless -stop waits for *)
(* ever behind a connection that was closing itself (AQSocket.m:762). One of *)
(* those may wait for ever behind -stop or another close of its own: that    *)
(* never keeps a connection in the set.                                      *)
ClosedIsForgotten ==
    \A c \in Connections : c \in closed ~> crashed \/ c \notin listed \/ main = "stuck"
=============================================================================
