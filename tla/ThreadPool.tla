----------------------------- MODULE ThreadPool -----------------------------
(***************************************************************************)
(* thread_pool of the SDK (__thread_pool_impl_stdcpp): its workers, the    *)
(* thread that moves timed closures into the queue, and the destructor.    *)
(*                                                                         *)
(* What happens between taking _mutex and giving it back, by unlocking or  *)
(* by waiting on a condition variable, is one step. A wait ends by a       *)
(* notification, spuriously or, for wait_until, when its time has come.    *)
(*                                                                         *)
(* wait_until is given a reference to the time in the front element of the *)
(* heap and compares the clock with what it refers to after the wait.      *)
(* Nothing reserves room in the vector, so an emplace that finds it full   *)
(* moves the heap and leaves that reference dangling: the comparison may   *)
(* then come out either way.                                               *)
(***************************************************************************)
EXTENDS Naturals, Sequences, FiniteSets

CONSTANTS
    Workers,    \* _threads
    Closures,   \* the closures that are added, each once
    None,       \* no closure
    MaxTime     \* bound: the clock and the deadlines stop here

ASSUME PoolAssumption ==
    /\ None \notin Closures
    /\ MaxTime \in Nat

VARIABLES
    queue,      \* _queue
    timed,      \* _timed_queue, as pairs <<deadline, closure>>
    room,       \* the capacity of its vector
    exiting,    \* _exiting
    wpc,        \* where each worker is in _RunWorker
    running,    \* the closure each worker runs
    tpc,        \* where the timer thread is in _RunTimer
    until,      \* the deadline it sleeps for
    dangling,   \* the time it will compare with was moved away
    held,       \* the closure it took out of _timed_queue and is about to add
    dpc,        \* where the destructor is
    now,        \* the system clock
    added,      \* history: the closures added
    due,        \* history: when each was to be enqueued at the earliest
    runs,       \* history: how often each was started
    misled      \* history: those taken on a comparison with a time moved away

workerVars == <<wpc, running, runs>>
heapVars == <<timed, room>>
sleepVars == <<until, dangling, held, misled>>
timerVars == <<tpc, sleepVars>>
callVars == <<added, due>>
exitVars == <<exiting, dpc>>
vars == <<queue, heapVars, workerVars, timerVars, callVars, exitVars, now>>

Times == 0..MaxTime

TypeOK ==
    /\ queue \in Seq(Closures)
    /\ timed \subseteq Times \X Closures
    /\ room \in Nat
    /\ exiting \in BOOLEAN
    /\ wpc \in [Workers -> {"top", "waiting", "woken", "running", "exited"}]
    /\ running \in [Workers -> Closures \cup {None}]
    /\ \A w \in Workers : wpc[w] = "running" <=> running[w] # None
    /\ tpc \in {"top", "waiting", "woken", "sleeping", "roused", "adding", "exited"}
    /\ until \in Times
    /\ dangling \in BOOLEAN
    /\ held \in Closures \cup {None}
    /\ tpc = "adding" <=> held # None
    /\ dpc \in {"none", "notify", "notifytimer", "join", "destroyed"}
    /\ now \in Times
    /\ added \subseteq Closures
    /\ due \in [Closures -> Times]
    /\ runs \in [Closures -> Nat]
    /\ misled \subseteq Closures

Init ==
    /\ queue = << >>
    /\ timed = {} /\ room = 0
    /\ exiting = FALSE
    /\ wpc = [w \in Workers |-> "top"]
    /\ running = [w \in Workers |-> None]
    /\ tpc = "top" /\ until = 0 /\ dangling = FALSE /\ held = None
    /\ dpc = "none"
    /\ now = 0
    /\ added = {}
    /\ due = [c \in Closures |-> 0]
    /\ runs = [c \in Closures |-> 0]
    /\ misled = {}

-----------------------------------------------------------------------------
(* Adding closures. *)

Waiting == {w \in Workers : wpc[w] = "waiting"}

(* Mutant: the worker is not woken. *)
EnqueueSilently(c) ==
    /\ queue' = Append(queue, c)
    /\ UNCHANGED wpc

(* add(): _jobs_ready.notify_one wakes one worker that waits, if one does. *)
Enqueue(c) ==
    /\ queue' = Append(queue, c)
    /\ IF Waiting = {}
       THEN UNCHANGED wpc
       ELSE \E w \in Waiting : wpc' = [wpc EXCEPT ![w] = "woken"]

(* Anybody may add before the destructor, and closures that run until it ends. *)
Callable == ~exiting \/ \E w \in Workers : wpc[w] = "running"

Add(c) ==
    /\ Callable
    /\ c \notin added
    /\ added' = added \cup {c}
    /\ Enqueue(c)
    /\ UNCHANGED <<heapVars, running, runs, timerVars, due, exitVars, now>>

RousedTimer ==
    CASE tpc = "waiting"  -> "woken"
      [] tpc = "sleeping" -> "roused"
      [] OTHER            -> tpc

(* std::vector: a full one moves to memory of twice the size. *)
Full == Cardinality(timed) = room
MoreRoom == IF room = 0 THEN 1 ELSE 2 * room

AddAt(c, time) ==
    /\ Callable
    /\ c \notin added
    /\ added' = added \cup {c}
    /\ due' = [due EXCEPT ![c] = time]
    /\ timed' = timed \cup {<<time, c>>}
    /\ room' = IF Full THEN MoreRoom ELSE room
    /\ tpc' = RousedTimer
    /\ dangling' = (dangling \/ Full)
    /\ UNCHANGED <<queue, until, held, misled, workerVars, exitVars, now>>

-----------------------------------------------------------------------------
(* _RunWorker. *)

WorkerWaits(w) ==
    /\ wpc[w] = "top"
    /\ ~exiting /\ queue = << >>
    /\ wpc' = [wpc EXCEPT ![w] = "waiting"]
    /\ UNCHANGED <<queue, heapVars, running, runs, timerVars, callVars, exitVars, now>>

WorkerWakes(w) ==
    /\ wpc[w] = "waiting"
    /\ wpc' = [wpc EXCEPT ![w] = "woken"]
    /\ UNCHANGED <<queue, heapVars, running, runs, timerVars, callVars, exitVars, now>>

WorkerExits(w) ==
    /\ wpc[w] \in {"top", "woken"}
    /\ exiting
    /\ wpc' = [wpc EXCEPT ![w] = "exited"]
    /\ UNCHANGED <<queue, heapVars, running, runs, timerVars, callVars, exitVars, now>>

(* Another worker was faster. *)
WorkerFindsNothing(w) ==
    /\ wpc[w] = "woken"
    /\ ~exiting /\ queue = << >>
    /\ wpc' = [wpc EXCEPT ![w] = "top"]
    /\ UNCHANGED <<queue, heapVars, running, runs, timerVars, callVars, exitVars, now>>

WorkerTakes(w) ==
    /\ wpc[w] \in {"top", "woken"}
    /\ ~exiting /\ queue # << >>
    /\ queue' = Tail(queue)
    /\ wpc' = [wpc EXCEPT ![w] = "running"]
    /\ running' = [running EXCEPT ![w] = Head(queue)]
    /\ runs' = [runs EXCEPT ![Head(queue)] = @ + 1]
    /\ UNCHANGED <<heapVars, timerVars, callVars, exitVars, now>>

(* The closure returns: one that throws ends the process. *)
WorkerEnds(w) ==
    /\ wpc[w] = "running"
    /\ wpc' = [wpc EXCEPT ![w] = "top"]
    /\ running' = [running EXCEPT ![w] = None]
    /\ UNCHANGED <<queue, heapVars, runs, timerVars, callVars, exitVars, now>>

-----------------------------------------------------------------------------
(* _RunTimer. *)

(* priority_queue::top() under __timed_closure_less: no other is later. *)
Tops == {t \in timed : \A u \in timed : u[1] <= t[1]}

TimerWaits ==
    /\ tpc = "top"
    /\ ~exiting /\ timed = {}
    /\ tpc' = "waiting"
    /\ UNCHANGED <<queue, heapVars, workerVars, sleepVars, callVars, exitVars, now>>

TimerSleeps ==
    /\ tpc = "top"
    /\ ~exiting
    /\ \E t \in Tops : until' = t[1]
    /\ tpc' = "sleeping"
    /\ dangling' = FALSE
    /\ UNCHANGED <<queue, heapVars, workerVars, held, misled, callVars, exitVars, now>>

(* The timeout of wait_until. *)
TimerExpires ==
    /\ tpc = "sleeping"
    /\ now >= until
    /\ tpc' = "roused"
    /\ UNCHANGED <<queue, heapVars, workerVars, sleepVars, callVars, exitVars, now>>

(* A wait that ends for no reason. *)
TimerWakes ==
    /\ tpc \in {"waiting", "sleeping"}
    /\ tpc' = RousedTimer
    /\ UNCHANGED <<queue, heapVars, workerVars, sleepVars, callVars, exitVars, now>>

TimerExits ==
    /\ tpc \in {"top", "woken", "roused"}
    /\ exiting
    /\ tpc' = "exited"
    /\ UNCHANGED <<queue, heapVars, workerVars, sleepVars, callVars, exitVars, now>>

(* cv_status::no_timeout, always so after a wait without a time. *)
TimerGoesRound ==
    /\ ~exiting
    /\ \/ tpc = "woken"
       \/ tpc = "roused" /\ (dangling \/ \E t \in Tops : now < t[1])
    /\ tpc' = "top"
    /\ UNCHANGED <<queue, heapVars, workerVars, sleepVars, callVars, exitVars, now>>

(* Mutant: the status of the wait is not looked at. *)
AnyWakeUp == TRUE

TimedOut == dangling \/ \E t \in Tops : now >= t[1]

(* Mutant: the closure is copied and popped the next time round. *)
TimerCopies ==
    /\ tpc = "roused"
    /\ ~exiting
    /\ TimedOut
    /\ \E t \in Tops : held' = t[2]
    /\ tpc' = "adding"
    /\ UNCHANGED <<queue, heapVars, workerVars, until, dangling, misled, callVars, exitVars, now>>

(* cv_status::timeout: what is on top by now is taken, and _mutex released. *)
TimerTakes ==
    /\ tpc = "roused"
    /\ ~exiting
    /\ TimedOut
    /\ \E t \in Tops :
           /\ timed' = timed \ {t}
           /\ held' = t[2]
           /\ misled' = IF dangling THEN misled \cup {t[2]} ELSE misled
    /\ tpc' = "adding"
    /\ UNCHANGED <<queue, room, workerVars, until, dangling, callVars, exitVars, now>>

TimerAdds ==
    /\ tpc = "adding"
    /\ Enqueue(held)
    /\ held' = None
    /\ tpc' = "top"
    /\ UNCHANGED <<heapVars, running, runs, until, dangling, misled, callVars, exitVars, now>>

-----------------------------------------------------------------------------
(* The destructor, and the clock. *)

(* Mutant: the flag is set without anybody being told. *)
DestroyQuietly ==
    /\ dpc = "none"
    /\ exiting' = TRUE
    /\ dpc' = "join"
    /\ UNCHANGED <<queue, heapVars, workerVars, timerVars, callVars, now>>

Destroy ==
    /\ dpc = "none"
    /\ exiting' = TRUE
    /\ dpc' = "notify"
    /\ UNCHANGED <<queue, heapVars, workerVars, timerVars, callVars, now>>

NotifyWorkers ==
    /\ dpc = "notify"
    /\ dpc' = "notifytimer"
    /\ wpc' = [w \in Workers |-> IF wpc[w] = "waiting" THEN "woken" ELSE wpc[w]]
    /\ UNCHANGED <<queue, heapVars, running, runs, timerVars, callVars, exiting, now>>

NotifyTimer ==
    /\ dpc = "notifytimer"
    /\ dpc' = "join"
    /\ tpc' = RousedTimer
    /\ UNCHANGED <<queue, heapVars, workerVars, sleepVars, callVars, exiting, now>>

Join ==
    /\ dpc = "join"
    /\ tpc = "exited" /\ \A w \in Workers : wpc[w] = "exited"
    /\ dpc' = "destroyed"
    /\ UNCHANGED <<queue, heapVars, workerVars, timerVars, callVars, exiting, now>>

Tick ==
    /\ now < MaxTime
    /\ now' = now + 1
    /\ UNCHANGED <<queue, heapVars, workerVars, timerVars, callVars, exitVars>>

-----------------------------------------------------------------------------
WorkerStep(w) ==
    WorkerWaits(w) \/ WorkerExits(w) \/ WorkerFindsNothing(w) \/ WorkerTakes(w) \/ WorkerEnds(w)

TimerStep ==
    \/ TimerWaits \/ TimerSleeps \/ TimerExpires \/ TimerExits
    \/ TimerGoesRound \/ TimerTakes \/ TimerAdds

DestructorStep == NotifyWorkers \/ NotifyTimer \/ Join

Next ==
    \/ \E c \in Closures : Add(c) \/ \E time \in Times : AddAt(c, time)
    \/ \E w \in Workers : WorkerStep(w) \/ WorkerWakes(w)
    \/ TimerStep \/ TimerWakes
    \/ Destroy \/ DestructorStep
    \/ Tick

Spec == Init /\ [][Next]_vars

(* Threads that can run do, closures return, and time passes. Nobody has to *)
(* add a closure or to destroy the pool, and spurious wake-ups may not come.*)
Fairness ==
    /\ \A w \in Workers : WF_vars(WorkerStep(w))
    /\ WF_vars(TimerStep)
    /\ WF_vars(DestructorStep)
    /\ WF_vars(Tick)

FairSpec == Spec /\ Fairness

-----------------------------------------------------------------------------
(* Properties. *)

InQueue(c) == \E i \in 1..Len(queue) : queue[i] = c
InTimed(c) == \E t \in timed : t[2] = c

InOnePlace(c) ==
    /\ c \in added => InQueue(c) \/ InTimed(c) \/ held = c \/ runs[c] = 1
    /\ c \notin added => ~InQueue(c) /\ ~InTimed(c) /\ held # c /\ runs[c] = 0
    /\ InQueue(c) => ~InTimed(c) /\ held # c /\ runs[c] = 0
    /\ InTimed(c) => held # c /\ runs[c] = 0
    /\ held = c => runs[c] = 0
    /\ runs[c] <= 1

(* A closure is in one place at a time, also while the timer thread has it   *)
(* in hand between _timed_queue and _queue with _mutex released              *)
(* (executor.cpp:239-246): it is started at most once, and none is lost.     *)
NothingLost ==
    /\ \A c \in Closures : InOnePlace(c)
    /\ \A i, j \in 1..Len(queue) : queue[i] = queue[j] => i = j
    /\ \A t, u \in timed : t[2] = u[2] => t = u

(* "scheduled_executor should only enqueue closures after a given duration" *)
(* (executor_tests.cpp:167): one whose time has not come is in _timed_queue. *)
(* The one exception is a closure the timer thread took on a comparison with *)
(* a time that an add_at had moved away while it slept (executor.cpp:229):  *)
(* whatever wakes the thread, and whatever joins the heap meanwhile, nothing *)
(* else is early.                                                           *)
NotEarly ==
    \A c \in added : now < due[c] => <<due[c], c>> \in timed \/ c \in misled

(* "the priority_queue will sort it into place automatically"               *)
(* (executor.cpp:176): the timer thread, which waits "until either notified *)
(* or a timer expires" (executor.cpp:228), takes no closure while another   *)
(* one was due before it. A closure taken on a comparison with a time that  *)
(* was moved away is left aside.                                            *)
EarliestFirst ==
    [][held' \in Closures /\ held = None /\ ~dangling
           => \A t \in timed : due[held'] <= t[1]]_vars

(* No wake-up is lost: a closure that was added is run, unless the pool is   *)
(* destroyed first.                                                         *)
ClosuresRun ==
    \A c \in Closures : c \in added ~> (runs[c] = 1 \/ exiting)

(* The destructor returns, whatever the threads were about to wait for when *)
(* it set _exiting (executor.cpp:147-160).                                  *)
DestructorReturns ==
    exiting ~> dpc = "destroyed"
=============================================================================
