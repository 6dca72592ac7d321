------------------------ MODULE PackageServerProofs ------------------------
(***************************************************************************)
(* The servers of any number of reader screens with any number of          *)
(* connections: their types, that the lock of the byte streams excludes    *)
(* whoever is in them although it is replaced from server to server, and   *)
(* that no request is answered from the package of an earlier server.      *)
(***************************************************************************)
EXTENDS PackageServer, TLAPS

USE BoundsAssumption

-----------------------------------------------------------------------------
(* The inductive invariant, in parts. *)

(* Whoever waits for the byte streams has read the lock. *)
WaitersInv ==
    \A c \in Connections :
        /\ pc[c] \in {"lookwait", "readwait"} => sem[c] \in Servers
        /\ pc[c] \in {"readwait", "reading"} => reads[c] < MaxReads

(* The lock is at zero while somebody is inside, so it is not released then. *)
LockInv ==
    /\ \A s \in Servers : count[s] <= 1
    /\ \A c \in Connections : pc[c] \in Inside => lock # Nil /\ count[lock] = 0
    /\ main \in {"none", "unlocked", "clearing", "stuck", "cleared", "shutdown",
                "stopped"} => lock = Nil

(* The static package is that of the latest server, or none. *)
PackageInv ==
    /\ package # Nil =>
        package = server /\ main \notin {"none", "locked", "failed", "started"}
    /\ \A s \in bound : s <= server
    /\ \A c \in Connections : owner[c] <= server
    /\ \A c \in Connections : pc[c] = "none" => resource[c] = Nil

IInv == TypeOK /\ WaitersInv /\ LockInv /\ ReadsExclusive /\ PackageInv /\ LookupIsNotStale

LEMMA Initially == Init => IInv
<1> SUFFICES ASSUME Init PROVE IInv
    OBVIOUS
<1> USE DEF Init, Servers, Nil
<1>1. TypeOK
    <2> USE DEF Places
    <2>1. /\ server \in 0..MaxServers /\ bound \subseteq Servers
          /\ count \in [Servers -> Nat]
          /\ owner \in [Connections -> Servers \cup {Nil}]
          /\ sem \in [Connections -> Servers \cup {Nil}]
          /\ reads \in [Connections -> 0..MaxReads]
        OBVIOUS
    <2> QED
        BY <2>1 DEF TypeOK
<1>2. WaitersInv /\ LockInv /\ ReadsExclusive
    BY DEF WaitersInv, LockInv, ReadsExclusive, Inside
<1>3. PackageInv /\ LookupIsNotStale
    BY DEF PackageInv, LookupIsNotStale
<1> QED
    BY <1>1, <1>2, <1>3 DEF IInv

(* The program ends, and nothing of it is left. *)
LEMMA CrashPreserves ==
    ASSUME Crash
    PROVE  IInv'
<1> USE DEF Crash, Servers, Nil
<1>1. TypeOK'
    <2> USE DEF Places
    <2>1. /\ server' \in 0..MaxServers /\ bound' \subseteq Servers
          /\ count' \in [Servers -> Nat]
          /\ owner' \in [Connections -> Servers \cup {Nil}]
          /\ sem' \in [Connections -> Servers \cup {Nil}]
          /\ reads' \in [Connections -> 0..MaxReads]
        OBVIOUS
    <2> QED
        BY <2>1 DEF TypeOK
<1>2. WaitersInv' /\ LockInv' /\ ReadsExclusive'
    BY DEF WaitersInv, LockInv, ReadsExclusive, Inside
<1>3. PackageInv' /\ LookupIsNotStale'
    BY DEF PackageInv, LookupIsNotStale
<1> QED
    BY <1>1, <1>2, <1>3 DEF IInv

-----------------------------------------------------------------------------
(* The main thread does not move the requests, except to cancel them. *)

LEMMA RequestsUntouched ==
    ASSUME IInv, UNCHANGED <<owner, pc, sem, resource, reads>>, TypeOK', LockInv', PackageInv'
    PROVE  IInv'
<1>1. WaitersInv'
    BY DEF IInv, WaitersInv
<1>2. ReadsExclusive' /\ LookupIsNotStale'
    BY DEF IInv, ReadsExclusive, LookupIsNotStale
<1> QED
    BY <1>1, <1>2 DEF IInv

(* What waits to be run may be cancelled. *)
LEMMA CancelPreserves ==
    ASSUME IInv, NEW c \in Connections,
           UNCHANGED <<mainVars, lockVars, package, owner, sem, resource, reads>>,
           pc' = Cancelled(c), TypeOK'
    PROVE  IInv'
<1>1. \A d \in Connections : pc'[d] = pc[d] \/ (pc[d] = "queued" /\ pc'[d] = "done")
    BY DEF IInv, TypeOK, Cancelled
<1>2. WaitersInv'
    BY <1>1 DEF IInv, WaitersInv
<1>3. LockInv' /\ ReadsExclusive'
    BY <1>1 DEF IInv, LockInv, ReadsExclusive, Inside, mainVars, lockVars
<1>4. PackageInv' /\ LookupIsNotStale'
    BY <1>1 DEF IInv, PackageInv, LookupIsNotStale, mainVars
<1> QED
    BY <1>2, <1>3, <1>4 DEF IInv

(* A request that goes where the lock does not matter. *)
LEMMA MovePreserves ==
    ASSUME IInv, NEW c \in Connections,
           NEW place \in {"asked", "look", "idle", "queued", "read", "done"},
           UNCHANGED <<mainVars, lockVars, package, owner, sem, resource, reads>>,
           pc' = [pc EXCEPT ![c] = place], TypeOK'
    PROVE  IInv'
<1>1. /\ pc'[c] = place
      /\ \A d \in Connections \ {c} : pc'[d] = pc[d]
    BY DEF IInv, TypeOK
<1>2. WaitersInv'
    BY <1>1 DEF IInv, WaitersInv
<1>3. LockInv' /\ ReadsExclusive'
    BY <1>1 DEF IInv, LockInv, ReadsExclusive, Inside, mainVars, lockVars
<1>4. PackageInv' /\ LookupIsNotStale'
    BY <1>1 DEF IInv, PackageInv, LookupIsNotStale, mainVars
<1> QED
    BY <1>2, <1>3, <1>4 DEF IInv

LEMMA MainPreserves ==
    ASSUME IInv, MainStep \/ MakeLock \/ ReleaseLock
    PROVE  IInv'
<1> DEFINE requests == <<owner, pc, sem, resource, reads>>
<1> USE DEF IInv, clearVars, connectionVars, requestVars
<1>1. CASE MakeLock
    <2>1. /\ UNCHANGED requests
          /\ TypeOK'
        BY <1>1 DEF MakeLock, TypeOK, Servers
    <2>2. LockInv'
        BY <1>1 DEF MakeLock, TypeOK, LockInv, Servers, Nil
    <2>3. /\ package = Nil /\ server \in Nat /\ bound \subseteq Nat
          /\ \A c \in Connections : owner[c] \in Nat
          /\ UNCHANGED <<bound, package>> /\ server' = server + 1
        BY <1>1 DEF MakeLock, TypeOK, PackageInv, Servers, Nil
    <2>4. PackageInv'
        <3>1. \A n \in Nat : n <= server => n <= server'
            BY <2>3
        <3>2. /\ \A s \in bound' : s <= server'
              /\ \A c \in Connections : owner'[c] <= server'
            BY <2>1, <2>3, <3>1 DEF PackageInv
        <3> QED
            BY <2>1, <2>3, <3>2 DEF PackageInv, Nil
    <2> QED
        BY <2>1, <2>2, <2>4, RequestsUntouched
<1>2. CASE Start
    <2>1. /\ UNCHANGED requests
          /\ TypeOK'
        BY <1>2 DEF Start, TypeOK, Servers, lockVars
    <2>2. LockInv'
        BY <1>2 DEF Start, TypeOK, LockInv, Servers, Nil, lockVars
    <2>3. PackageInv'
        BY <1>2 DEF Start, TypeOK, PackageInv, Servers, Nil, lockVars
    <2> QED
        BY <2>1, <2>2, <2>3, RequestsUntouched
<1>3. CASE StartFails
    <2>1. /\ UNCHANGED requests
          /\ TypeOK'
        BY <1>3 DEF StartFails, TypeOK, Servers, lockVars
    <2>2. LockInv'
        BY <1>3 DEF StartFails, TypeOK, LockInv, Servers, Nil, lockVars
    <2>3. PackageInv'
        BY <1>3 DEF StartFails, TypeOK, PackageInv, Servers, Nil, lockVars
    <2> QED
        BY <2>1, <2>2, <2>3, RequestsUntouched
<1>4. CASE SetPackage
    <2>1. /\ UNCHANGED requests
          /\ TypeOK'
        BY <1>4 DEF SetPackage, TypeOK, Servers, lockVars
    <2>2. LockInv'
        BY <1>4 DEF SetPackage, TypeOK, LockInv, Servers, Nil, lockVars
    <2>3. PackageInv'
        BY <1>4 DEF SetPackage, TypeOK, PackageInv, Servers, Nil, lockVars
    <2> QED
        BY <2>1, <2>2, <2>3, RequestsUntouched
<1>5. CASE ReleaseLock
    <2>1. CASE count[lock] = 0
        BY <1>5, <2>1, CrashPreserves DEF ReleaseLock
    <2>2. CASE count[lock] # 0
        <3>1. /\ UNCHANGED requests
              /\ UNCHANGED <<server, bound, clearVars, count, package, connectionVars, crashed>>
              /\ main \in {"open", "failed"} /\ main' \in {"unlocked", "stopped"}
              /\ main = "failed" => package = Nil
              /\ lock' = Nil
            BY <1>5, <2>2 DEF ReleaseLock, AfterLock, PackageInv
        <3>2. TypeOK'
            BY <3>1 DEF TypeOK
        <3>3. \A c \in Connections : pc[c] \notin Inside
            BY <2>2 DEF LockInv
        <3>4. LockInv' /\ PackageInv'
            BY <3>1, <3>3 DEF LockInv, PackageInv
        <3> QED
            BY <3>1, <3>2, <3>4, RequestsUntouched
    <2> QED
        BY <2>1, <2>2
<1>6. CASE ClearConnections
    <2>1. /\ UNCHANGED requests
          /\ TypeOK'
        BY <1>6 DEF ClearConnections, TypeOK, Servers, lockVars, ListedBy
    <2>2. LockInv'
        BY <1>6 DEF ClearConnections, TypeOK, LockInv, Servers, Nil, lockVars, ListedBy
    <2>3. PackageInv'
        BY <1>6 DEF ClearConnections, TypeOK, PackageInv, Servers, Nil, lockVars, ListedBy
    <2> QED
        BY <2>1, <2>2, <2>3, RequestsUntouched
<1>7. CASE Undelegate
    <2>1. CASE mutated
        BY <1>7, <2>1, CrashPreserves DEF Undelegate
    <2>2. CASE ~mutated
        <3>1. /\ UNCHANGED requests
              /\ \E c \in toClose : undelegated' = undelegated \cup {c}
              /\ UNCHANGED <<mainVars, clearVars, lockVars, package, listed, closed, closer,
                             callbacks, crashed>>
            BY <1>7, <2>2 DEF Undelegate
        <3>2. undelegated' \subseteq Connections
            BY <3>1 DEF TypeOK
        <3>3. TypeOK' /\ LockInv' /\ PackageInv'
            BY <3>1, <3>2 DEF TypeOK, LockInv, PackageInv, mainVars, lockVars
        <3> QED
            BY <3>1, <3>3, RequestsUntouched
    <2> QED
        BY <2>1, <2>2
<1>8. CASE CloseNext
    <2>1. PICK c \in toClose : pc' = Cancelled(c)
        BY <1>8 DEF CloseNext
    <2>2. /\ UNCHANGED <<server, bound, mutated, lockVars, package, owner, listed, closed,
                         undelegated, callbacks, sem, resource, reads, crashed>>
          /\ main = "clearing" /\ main' \in {"clearing", "stuck"}
          /\ toClose' \subseteq toClose
          /\ closer' = closer \/ \E d \in Connections : closer' = [closer EXCEPT ![d] = "main"]
        BY <1>8 DEF CloseNext, TypeOK
    <2>3. c \in Connections /\ pc' \in [Connections -> Places]
        BY <2>1 DEF TypeOK, Cancelled, Places
    <2>4. closer' \in [Connections -> {"none", "main", "own"}]
        BY <2>2 DEF TypeOK
    <2>5. TypeOK'
        BY <2>2, <2>3, <2>4 DEF TypeOK, lockVars
    <2>6. \A d \in Connections : pc'[d] = pc[d] \/ (pc[d] = "queued" /\ pc'[d] = "done")
        BY <2>1, <2>3 DEF TypeOK, Cancelled
    <2>7. WaitersInv'
        BY <2>2, <2>6 DEF WaitersInv
    <2>8. LockInv' /\ ReadsExclusive'
        BY <2>2, <2>6 DEF LockInv, ReadsExclusive, Inside, lockVars
    <2>9. PackageInv' /\ LookupIsNotStale'
        BY <2>2, <2>6 DEF PackageInv, LookupIsNotStale
    <2> QED
        BY <2>5, <2>7, <2>8, <2>9
<1>9. CASE EndCloseNext
    <2>1. PICK c \in toClose : LetGo(c) /\ toClose' = toClose \ {c}
        BY <1>9 DEF EndCloseNext
    <2>2. /\ UNCHANGED requests
          /\ UNCHANGED <<mainVars, mutated, lockVars, package, listed, undelegated, callbacks,
                         crashed>>
        BY <1>9 DEF EndCloseNext
    <2>3. /\ closed' \subseteq Connections /\ toClose' \subseteq Connections
          /\ closer' \in [Connections -> {"none", "main", "own"}]
        BY <2>1 DEF LetGo, TypeOK
    <2>4. TypeOK' /\ LockInv' /\ PackageInv'
        BY <2>2, <2>3 DEF TypeOK, LockInv, PackageInv, mainVars, lockVars
    <2> QED
        BY <2>2, <2>4, RequestsUntouched
<1>10. CASE RemoveAllObjects
    <2>1. /\ UNCHANGED requests
          /\ TypeOK'
        BY <1>10 DEF RemoveAllObjects, TypeOK, Servers, lockVars, ListedBy
    <2>2. LockInv'
        BY <1>10 DEF RemoveAllObjects, TypeOK, LockInv, Servers, Nil, lockVars, ListedBy
    <2>3. PackageInv'
        BY <1>10 DEF RemoveAllObjects, TypeOK, PackageInv, Servers, Nil, lockVars, ListedBy
    <2> QED
        BY <2>1, <2>2, <2>3, RequestsUntouched
<1>11. CASE ShutdownSockets
    <2>1. /\ UNCHANGED requests
          /\ TypeOK'
        BY <1>11 DEF ShutdownSockets, TypeOK, Servers, lockVars
    <2>2. LockInv'
        BY <1>11 DEF ShutdownSockets, TypeOK, LockInv, Servers, Nil, lockVars
    <2>3. PackageInv'
        BY <1>11 DEF ShutdownSockets, TypeOK, PackageInv, Servers, Nil, lockVars
    <2> QED
        BY <2>1, <2>2, <2>3, RequestsUntouched
<1>12. CASE FreeServer
    <2>1. /\ UNCHANGED requests
          /\ TypeOK'
        BY <1>12 DEF FreeServer, TypeOK, Servers, lockVars, ListedBy
    <2>2. LockInv'
        BY <1>12 DEF FreeServer, TypeOK, LockInv, Servers, Nil, lockVars, ListedBy
    <2>3. PackageInv'
        BY <1>12 DEF FreeServer, TypeOK, PackageInv, Servers, Nil, lockVars, ListedBy
    <2> QED
        BY <2>1, <2>2, <2>3, RequestsUntouched
<1>13. CASE UnsetPackage
    <2>1. /\ UNCHANGED requests
          /\ TypeOK'
        BY <1>13 DEF UnsetPackage, TypeOK, Servers, lockVars
    <2>2. LockInv'
        BY <1>13 DEF UnsetPackage, TypeOK, LockInv, Servers, Nil, lockVars
    <2>3. PackageInv'
        BY <1>13 DEF UnsetPackage, TypeOK, PackageInv, Servers, Nil, lockVars
    <2> QED
        BY <2>1, <2>2, <2>3, RequestsUntouched
<1> QED
    BY <1>1, <1>2, <1>3, <1>4, <1>5, <1>6, <1>7, <1>8, <1>9, <1>10, <1>11, <1>12, <1>13
    DEF MainStep

-----------------------------------------------------------------------------
(* Closing leaves the lock, the package and who is inside alone. *)

LEMMA ClosePreserves ==
    ASSUME IInv, NEW c \in Connections, NEW p, Close(c, p),
           p = Cancelled(c) \/ p = [pc EXCEPT ![c] = "done"]
    PROVE  IInv'
<1>1. p \in [Connections -> Places]
    BY DEF IInv, TypeOK, Cancelled, Places
<1>2. TypeOK'
    <2>1. /\ callbacks' \subseteq Connections
          /\ closer' \in [Connections -> {"none", "main", "own"}]
        BY DEF Close, IInv, TypeOK
    <2> QED
        BY <1>1, <2>1 DEF Close, IInv, TypeOK, mainVars, clearVars, lockVars
<1>3. CASE p = Cancelled(c)
    BY <1>2, <1>3, CancelPreserves DEF Close
<1>4. CASE p = [pc EXCEPT ![c] = "done"]
    BY <1>2, <1>4, MovePreserves DEF Close
<1> QED
    BY <1>3, <1>4

LEMMA AcceptPreserves ==
    ASSUME IInv, NEW c \in Connections,
           Accept(c) \/ CallHandler(c) \/ EndClose(c) \/ ConnectionDidClose(c)
    PROVE  IInv'
<1> USE DEF mainVars, clearVars, lockVars
<1>1. CASE Accept(c)
    <2>1. PICK s \in bound, place \in {"accepted", "dropped"} :
            /\ pc[c] = "none"
            /\ owner' = [owner EXCEPT ![c] = s] \/ owner' = owner
            /\ pc' = [pc EXCEPT ![c] = place]
            /\ UNCHANGED <<mainVars, clearVars, lockVars, package, listed, closed, closer,
                           undelegated, callbacks, sem, resource, reads, crashed>>
        BY <1>1 DEF Accept
    <2>2. s \in Servers /\ s <= server /\ resource[c] = Nil
        BY <2>1 DEF IInv, TypeOK, PackageInv
    <2>3. /\ owner' \in [Connections -> Servers \cup {Nil}]
          /\ pc' \in [Connections -> Places]
        BY <2>1, <2>2 DEF IInv, TypeOK, Places
    <2>4. TypeOK'
        BY <2>1, <2>3 DEF IInv, TypeOK
    <2>5. /\ owner'[c] \in {s, owner[c]} /\ pc'[c] = place
          /\ \A d \in Connections \ {c} : pc'[d] = pc[d] /\ owner'[d] = owner[d]
        BY <2>1 DEF IInv, TypeOK
    <2>6. WaitersInv'
        BY <2>1, <2>5 DEF IInv, WaitersInv
    <2>7. LockInv' /\ ReadsExclusive'
        BY <2>1, <2>5 DEF IInv, LockInv, ReadsExclusive, Inside
    <2>8. PackageInv'
        BY <2>1, <2>2, <2>5 DEF IInv, PackageInv
    <2>9. LookupIsNotStale'
        BY <2>1, <2>2, <2>5 DEF IInv, LookupIsNotStale
    <2> QED
        BY <2>4, <2>6, <2>7, <2>8, <2>9 DEF IInv
<1>2. CASE CallHandler(c)
    <2>1. CASE ~HandlerSet(owner[c])
        BY <1>2, <2>1, CrashPreserves DEF CallHandler
    <2>2. CASE HandlerSet(owner[c])
        <3>1. TypeOK'
            BY <1>2, <2>2 DEF CallHandler, IInv, TypeOK, Places
        <3> QED
            BY <1>2, <2>2, <3>1, MovePreserves DEF CallHandler
    <2> QED
        BY <2>1, <2>2
<1>3. CASE ConnectionDidClose(c)
    <2>1. CASE Freed(owner[c])
        BY <1>3, <2>1, CrashPreserves DEF ConnectionDidClose
    <2>2. CASE ~Freed(owner[c])
        <3>1. TypeOK' /\ LockInv' /\ PackageInv'
            BY <1>3, <2>2 DEF ConnectionDidClose, IInv, TypeOK, LockInv, PackageInv, requestVars
        <3> QED
            BY <1>3, <2>2, <3>1, RequestsUntouched DEF ConnectionDidClose, requestVars
    <2> QED
        BY <2>1, <2>2
<1>4. CASE EndClose(c)
    <2>1. /\ closed' \subseteq Connections /\ callbacks' \subseteq Connections
          /\ closer' \in [Connections -> {"none", "main", "own"}]
        BY <1>4 DEF EndClose, LetGo, IInv, TypeOK
    <2>2. TypeOK' /\ LockInv' /\ PackageInv'
        BY <1>4, <2>1 DEF EndClose, IInv, TypeOK, LockInv, PackageInv, requestVars
    <2> QED
        BY <1>4, <2>2, RequestsUntouched DEF EndClose, requestVars
<1> QED
    BY <1>1, <1>2, <1>3, <1>4

-----------------------------------------------------------------------------
(* The lock of the byte streams. *)

LEMMA ReadLockPreserves ==
    ASSUME IInv, NEW c \in Connections,
           \/ ReadLock(c, "look", "lookwait")
           \/ ReadAgain(c)
    PROVE  IInv'
<1>1. PICK place \in {"lookwait", "readwait"} :
        /\ pc[c] \in {"look", "read"} /\ lock # Nil
        /\ place = "readwait" => reads[c] < MaxReads
        /\ sem' = [sem EXCEPT ![c] = lock] /\ pc' = [pc EXCEPT ![c] = place]
        /\ UNCHANGED <<mainVars, clearVars, lockVars, package, connectionVars, resource, reads,
                       crashed>>
    BY DEF ReadLock, ReadAgain, Goto
<1> USE DEF mainVars, clearVars, lockVars, connectionVars
<1>2. lock \in Servers
    BY <1>1 DEF IInv, TypeOK
<1>3. /\ sem' \in [Connections -> Servers \cup {Nil}]
      /\ pc' \in [Connections -> Places]
    BY <1>1, <1>2 DEF IInv, TypeOK, Places, HandlerSteps, OperationSteps
<1>4. TypeOK'
    BY <1>1, <1>3 DEF IInv, TypeOK
<1>5. /\ sem'[c] = lock /\ pc'[c] = place
      /\ \A d \in Connections \ {c} : pc'[d] = pc[d] /\ sem'[d] = sem[d]
    BY <1>1 DEF IInv, TypeOK
<1>6. WaitersInv'
    BY <1>1, <1>2, <1>5 DEF IInv, WaitersInv
<1>7. LockInv' /\ ReadsExclusive'
    BY <1>1, <1>5 DEF IInv, LockInv, ReadsExclusive, Inside
<1>8. PackageInv' /\ LookupIsNotStale'
    BY <1>1, <1>5 DEF IInv, PackageInv, LookupIsNotStale
<1> QED
    BY <1>4, <1>6, <1>7, <1>8 DEF IInv

(* Nobody is inside when the lock is not at zero. *)
LEMMA EnterPreserves ==
    ASSUME IInv, NEW c \in Connections, LookUp(c) \/ ReadData(c)
    PROVE  IInv'
<1>1. /\ sem[c] = lock /\ lock \in Servers
      /\ count[lock] = 1 /\ count' = [count EXCEPT ![lock] = 0]
      /\ \A d \in Connections : pc[d] \notin Inside
    BY DEF LookUp, ReadData, Enter, IInv, TypeOK, WaitersInv, LockInv, Servers
<1>2. \E place \in Inside :
        /\ pc' = [pc EXCEPT ![c] = place]
        /\ place = "reading" => pc[c] = "readwait"
    BY DEF LookUp, ReadData, Enter, Goto, Inside
<1>3. /\ \/ resource' = [resource EXCEPT ![c] = package]
         \/ resource' = resource
      /\ pc[c] \in {"lookwait", "readwait"}
      /\ UNCHANGED <<mainVars, clearVars, lock, package, connectionVars, sem, reads, crashed>>
    BY DEF LookUp, ReadData, Enter
<1> USE <1>1, <1>2, <1>3 DEF IInv, mainVars, connectionVars, Inside, Servers, Nil
<1>4. TypeOK'
    <2>1. count' \in [Servers -> Nat]
        BY DEF TypeOK
    <2>2. resource' \in [Connections -> Servers \cup {Nil}]
        BY ZenonT(30) DEF TypeOK
    <2>3. pc' \in [Connections -> Places]
        BY DEF TypeOK, Places, HandlerSteps, OperationSteps
    <2> QED
        BY <2>1, <2>2, <2>3 DEF TypeOK, clearVars
<1>5. WaitersInv'
    BY DEF TypeOK, WaitersInv
<1>6. LockInv' /\ ReadsExclusive'
    BY DEF TypeOK, LockInv, ReadsExclusive
<1>7. PackageInv'
    BY DEF TypeOK, PackageInv, Nil
<1>8. LookupIsNotStale'
    BY DEF TypeOK, PackageInv, LookupIsNotStale, Nil
<1> QED
    BY <1>4, <1>5, <1>6, <1>7, <1>8

(* Whoever leaves was alone. *)
LEMMA LeavePreserves ==
    ASSUME IInv, NEW c \in Connections,
           (Leave(c, "looking", "found") /\ UNCHANGED reads) \/ DataRead(c)
    PROVE  IInv'
<1>1. /\ lock \in Servers /\ count[lock] = 0
      /\ count' = [count EXCEPT ![lock] = 1]
      /\ \A d \in Connections : pc[d] \in Inside => d = c
    BY DEF DataRead, Leave, IInv, TypeOK, LockInv, ReadsExclusive, Inside, Servers
<1>2. /\ pc' = [pc EXCEPT ![c] = "found"] \/ pc' = [pc EXCEPT ![c] = "read"]
      /\ \/ reads' = reads
         \/ pc[c] = "reading" /\ reads' = [reads EXCEPT ![c] = @ + 1]
      /\ sem' = [sem EXCEPT ![c] = Nil]
      /\ UNCHANGED <<mainVars, clearVars, lock, package, connectionVars, resource, crashed>>
      /\ pc[c] # "none"
    BY DEF DataRead, Leave, Goto
<1> USE <1>1, <1>2 DEF IInv, mainVars, connectionVars, Inside, Servers, Nil
<1>3. TypeOK'
    <2>1. count' \in [Servers -> Nat]
        BY DEF TypeOK
    <2>2. reads' \in [Connections -> 0..MaxReads]
        <3>1. pc[c] = "reading" => reads[c] + 1 \in 0..MaxReads
            BY DEF TypeOK, WaitersInv
        <3> QED
            BY <3>1 DEF TypeOK
    <2>3. pc' \in [Connections -> Places]
        BY DEF TypeOK, Places, HandlerSteps, OperationSteps
    <2> QED
        BY <2>1, <2>2, <2>3 DEF TypeOK, clearVars
<1>4. WaitersInv'
    BY DEF TypeOK, WaitersInv
<1>5. LockInv' /\ ReadsExclusive'
    <2>1. \A d \in Connections : pc'[d] \notin Inside
        BY DEF TypeOK
    <2> QED
        BY <2>1 DEF TypeOK, LockInv, ReadsExclusive
<1>6. PackageInv' /\ LookupIsNotStale'
    BY DEF TypeOK, PackageInv, LookupIsNotStale
<1> QED
    BY <1>3, <1>4, <1>5, <1>6

-----------------------------------------------------------------------------
(* The other steps of a request. *)

LEMMA GotoPreserves ==
    ASSUME IInv, NEW c \in Connections,
           NEW place \in {"asked", "look", "queued", "read", "done"}, Goto(c, place),
           UNCHANGED <<mainVars, clearVars, lockVars, package, connectionVars, sem, resource, reads,
                       crashed>>
    PROVE  IInv'
<1>1. pc' \in [Connections -> Places]
    BY DEF Goto, IInv, TypeOK, Places, HandlerSteps, OperationSteps
<1>2. TypeOK'
    BY <1>1 DEF IInv, TypeOK, mainVars, clearVars, lockVars, connectionVars
<1> QED
    BY <1>2, MovePreserves DEF Goto, connectionVars

LEMMA AddPreserves ==
    ASSUME IInv, NEW c \in Connections, AddOperation(c)
    PROVE  IInv'
<1>1. /\ pc[c] = "found"
      /\ pc' = [pc EXCEPT ![c] = "queued"] /\ resource' = [resource EXCEPT ![c] = Nil]
      /\ UNCHANGED <<mainVars, clearVars, lockVars, package, connectionVars, sem, reads, crashed>>
    BY DEF AddOperation, Goto
<1> USE DEF mainVars, clearVars, lockVars, connectionVars
<1>2. /\ pc' \in [Connections -> Places]
      /\ resource' \in [Connections -> Servers \cup {Nil}]
    BY <1>1 DEF IInv, TypeOK, Places
<1>3. TypeOK'
    BY <1>1, <1>2 DEF IInv, TypeOK
<1>4. /\ pc'[c] = "queued" /\ resource'[c] = Nil
      /\ \A d \in Connections \ {c} : pc'[d] = pc[d] /\ resource'[d] = resource[d]
    BY <1>1 DEF IInv, TypeOK
<1>5. WaitersInv'
    BY <1>1, <1>4 DEF IInv, WaitersInv
<1>6. LockInv' /\ ReadsExclusive'
    BY <1>1, <1>4 DEF IInv, LockInv, ReadsExclusive, Inside
<1>7. PackageInv' /\ LookupIsNotStale'
    BY <1>1, <1>4 DEF IInv, PackageInv, LookupIsNotStale
<1> QED
    BY <1>3, <1>5, <1>6, <1>7 DEF IInv

LEMMA RequestPreserves ==
    ASSUME IInv, NEW c \in Connections,
           Request(c) \/ Disconnect(c) \/ HandlerStep(c) \/ OperationStep(c)
    PROVE  IInv'
<1>1. CASE Request(c) \/ TestPackage(c) \/ StartOperation(c)
    BY <1>1, GotoPreserves DEF Request, TestPackage, StartOperation
<1>2. CASE Disconnect(c) \/ NoPackage(c) \/ NoResource(c)
    BY <1>2, ClosePreserves DEF Disconnect, NoPackage, NoResource
<1>3. CASE FinishOperation(c)
    BY <1>3, GotoPreserves, ClosePreserves DEF FinishOperation
<1>4. CASE ReadLock(c, "look", "lookwait") \/ ReadAgain(c)
    BY <1>4, ReadLockPreserves
<1>5. CASE LookUp(c) \/ ReadData(c)
    BY <1>5, EnterPreserves
<1>6. CASE (Leave(c, "looking", "found") /\ UNCHANGED reads) \/ DataRead(c)
    BY <1>6, LeavePreserves
<1>7. CASE AddOperation(c)
    BY <1>7, AddPreserves
<1> QED
    BY <1>1, <1>2, <1>3, <1>4, <1>5, <1>6, <1>7 DEF HandlerStep, OperationStep

LEMMA Preserved ==
    ASSUME IInv, [Next]_vars
    PROVE  IInv'
<1>1. CASE MainStep \/ MakeLock \/ ReleaseLock
    BY <1>1, MainPreserves
<1>2. CASE DataRace
    BY <1>2, CrashPreserves DEF DataRace
<1>3. ASSUME NEW c \in Connections,
             Accept(c) \/ Request(c) \/ Disconnect(c) \/ HandlerIsGone(c) \/ ConnectionStep(c)
      PROVE  IInv'
    <2>1. CASE Accept(c) \/ CallHandler(c) \/ EndClose(c) \/ ConnectionDidClose(c)
        BY <2>1, AcceptPreserves
    <2>2. CASE Request(c) \/ Disconnect(c) \/ HandlerStep(c) \/ OperationStep(c)
        BY <2>2, RequestPreserves
    <2>3. CASE HandlerIsGone(c) \/ LockIsGone(c)
        BY <2>3, CrashPreserves DEF HandlerIsGone, LockIsGone
    <2> QED
        BY <1>3, <2>1, <2>2, <2>3 DEF ConnectionStep
<1>4. CASE UNCHANGED vars
    <2> USE <1>4 DEF vars, mainVars, clearVars, lockVars, connectionVars, requestVars
    <2>1. TypeOK'
        BY DEF IInv, TypeOK
    <2>2. LockInv' /\ PackageInv'
        BY DEF IInv, LockInv, PackageInv
    <2> QED
        BY <2>1, <2>2, RequestsUntouched
<1> QED
    BY <1>1, <1>2, <1>3, <1>4 DEF Next

-----------------------------------------------------------------------------
(* The invariant of the lock, the package and the requests holds of any     *)
(* number of servers and connections.                                       *)
THEOREM ServerInvariant == Spec => []IInv
BY Initially, Preserved, PTL DEF Spec

(* The lock of the byte streams (LOCK_BYTESTREAM in PackageResourceServer.h) *)
(* keeps requests apart across the servers that replace it.                  *)
THEOREM StreamsExclusive == Spec => []ReadsExclusive
<1>1. IInv => ReadsExclusive
    BY DEF IInv
<1> QED
    BY <1>1, ServerInvariant, PTL

(* A request is answered from the package of its own server or of a later    *)
(* one (-responseOperationForRequest: of PackageResourceConnection).         *)
THEOREM PackageNotStale == Spec => []LookupIsNotStale
<1>1. IInv => LookupIsNotStale
    BY DEF IInv
<1> QED
    BY <1>1, ServerInvariant, PTL

(* Type correctness of the package servers. *)
THEOREM ServerTypeCorrect == Spec => []TypeOK
<1>1. IInv => TypeOK
    BY DEF IInv
<1> QED
    BY <1>1, ServerInvariant, PTL
=============================================================================
