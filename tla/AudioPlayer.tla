---------------------------- MODULE AudioPlayer ----------------------------
(***************************************************************************)
(* The audio player of the reader's media overlays on iOS: one audio       *)
(* element that must be told to play before it loads anything, and that    *)
(* reports a seek through events it also fires for other reasons.          *)
(*                                                                         *)
(* The player may postpone a request, and it leaves listeners with the     *)
(* element and closures with setTimeout. Neither is taken back by reset(). *)
(* Timeouts of one delay fire in order; those of different delays in any,  *)
(* but for the 5 ms ones, which are never set later than their 50 ms one.  *)
(* JavaScript is not interrupted: while an event is dispatched (calls)     *)
(* nothing but the element goes on.                                        *)
(***************************************************************************)
EXTENDS Integers, Sequences, SequencesExt

CONSTANTS
    Files,          \* the audio files
    Times,          \* times more than a second apart; 0 is the beginning
    None,           \* undefined
    MAX_SEEK_RETRIES,
    MaxSkips,       \* ticks the interval timer skips before it stops
    MaxCommands     \* bound: calls of playFile, play, pause and reset

ASSUME PlayerAssumption ==
    /\ 0 \in Times
    /\ None \notin Files \cup Times \cup Int \cup {"canplay", "seek"}
    /\ MAX_SEEK_RETRIES \in Nat /\ MaxSkips \in Nat /\ MaxCommands \in Nat

VARIABLES
    asked,      \* the requests made so far; a request is its place
    tries,      \* seekRetries of each request's event data
    isNewSrc,   \* isNewSrc of each request's event data
    cur,        \* _currentEpubSrc
    seeking,    \* _audioElement.moSeeking
    timer,      \* _intervalTimer
    skips,      \* _intervalTimerSkips
    queuing,    \* _seekQueuing
    preload,    \* onPlayToForcePreload listens to "play"
    onReady,    \* the requests whose onReadyToSeek listens to "canplay"
    onSeek,     \* the requests whose onSeeked listens to each event
    due,        \* the timeouts of each delay that have not fired
    calls,      \* the listeners the event that is dispatched has yet to call
    src,        \* what the element was given to play
    paused,     \* the element does not play
    position,   \* currentTime
    target,     \* where the element is seeking to
    heard,      \* its events that have not been dispatched
    loading,    \* "canplay" has not been fired for src
    commands,   \* how often the player was called
    served,     \* the request started last
    ender,      \* the request whose listener ended the last seek
    astray,     \* reset() or a request for another file came while
                \* something of the last request was under way
    hushed      \* pause() was the last call, and nothing was under way

data == <<asked, tries, isNewSrc>>
player == <<cur, seeking, timer, skips, queuing>>
listeners == <<preload, onReady, onSeek>>
element == <<src, paused, position, target, heard, loading>>
history == <<served, ender, astray, hushed>>
vars == <<data, player, listeners, due, calls, element, commands, history>>

Delays == {1, 5, 20, 50}
SeekEvents == {"progress", "timeupdate"}
Idle == [listener |-> None, left |-> << >>, last |-> None]
Requests == 1..Len(asked)

Init ==
    /\ asked = << >> /\ tries = << >> /\ isNewSrc = << >>
    /\ cur = None /\ seeking = FALSE /\ timer = FALSE
    /\ skips = 0 /\ queuing = 0
    /\ preload = FALSE /\ onReady = << >>
    /\ onSeek = [e \in SeekEvents |-> << >>]
    /\ due = [d \in Delays |-> << >>]
    /\ calls = Idle
    /\ src = None /\ paused = TRUE /\ position = 0 /\ target = None
    /\ heard = << >> /\ loading = FALSE
    /\ commands = 0
    /\ served = None /\ ender = None /\ astray = FALSE /\ hushed = FALSE

Set(timeouts, d, closure) == [timeouts EXCEPT ![d] = Append(@, closure)]
Fired(d) == [due EXCEPT ![d] = Tail(@)]
SeekEvent(new) == IF new THEN "progress" ELSE "timeupdate"

(* Listeners, timeouts or events that the next request will meet. *)
UnderWay ==
    \/ onReady # << >> \/ \E e \in SeekEvents : onSeek[e] # << >>
    \/ due[5] # << >> \/ due[50] # << >>
    \/ loading \/ target # None \/ Contains(heard, "canplay")

(***************************************************************************)
(* play() and pause(), of the player.                                      *)
(***************************************************************************)
Playing ==
    IF cur = None THEN UNCHANGED <<timer, paused, heard>>
    ELSE /\ timer' = TRUE
         /\ paused' = FALSE
         /\ heard' = IF paused THEN Append(heard, "play") ELSE heard

Pausing ==
    /\ timer' = FALSE
    /\ paused' = TRUE

(***************************************************************************)
(* playSeekCurrentTime                                                     *)
(***************************************************************************)
Continue(id) ==
    /\ seeking' = FALSE
    /\ ender' = id
    /\ UNCHANGED <<onSeek, target>>

Seek(id, begin, new) ==
    /\ onSeek' = [onSeek EXCEPT ![SeekEvent(new)] = Append(@, id)]
    /\ target' = begin
    /\ Pausing
    /\ UNCHANGED <<ender, heard>>

(***************************************************************************)
(* playFile                                                                *)
(***************************************************************************)
Postpone(id, timeouts) ==
    /\ IF queuing + 1 > MAX_SEEK_RETRIES
       THEN /\ queuing' = 0
            /\ due' = timeouts
       ELSE /\ queuing' = queuing + 1
            /\ due' = Set(timeouts, 20, id)
    /\ UNCHANGED <<cur, seeking, timer, skips, listeners, element,
                   served, ender, astray>>

(* The element has the file already: seek in it, or just play on. The      *)
(* pause before makes the element fire "play" again.                       *)
StartSameSrc(id, request) ==
    /\ cur = request.file
    /\ IF position = request.begin
       THEN /\ Continue(id)
            /\ timer' = TRUE
            /\ paused' = FALSE
            /\ heard' = Append(heard, "play")
       ELSE /\ seeking' = TRUE
            /\ Seek(id, request.begin, FALSE)
    /\ UNCHANGED <<cur, preload, onReady, src, position, loading>>

ClearAndLoad(timeouts) == Set(Set(timeouts, 1, "clear"), 1, "load")

StartNewSrc(id, request) ==
    /\ cur # request.file
    /\ Pausing
    /\ seeking' = TRUE
    /\ cur' = request.file
    /\ preload' = TRUE
    /\ onReady' = Append(onReady, id)
    /\ UNCHANGED <<onSeek, src, position, target, heard, loading, ender>>

Start(id, request, timeouts) ==
    /\ StartSameSrc(id, request) \/ StartNewSrc(id, request)
    /\ due' = IF cur = request.file THEN timeouts ELSE ClearAndLoad(timeouts)
    /\ served' = id
    /\ astray' = (astray \/ (cur # request.file /\ UnderWay))
    /\ UNCHANGED <<skips, queuing>>

Called ==
    /\ calls = Idle
    /\ commands < MaxCommands
    /\ commands' = commands + 1
    /\ UNCHANGED calls

(* Mutant: a request does not wait for the one that is seeking. *)
PlayFileAtOnce(file, begin) ==
    LET request == [file |-> file, begin |-> begin]
        id == Len(asked) + 1
    IN  /\ Called
        /\ asked' = Append(asked, request)
        /\ tries' = Append(tries, None)
        /\ isNewSrc' = Append(isNewSrc, cur # file)
        /\ Start(id, request, due)
        /\ hushed' = FALSE

PlayFile(file, begin) ==
    LET request == [file |-> file, begin |-> begin]
        id == Len(asked) + 1
    IN  /\ Called
        /\ asked' = Append(asked, request)
        /\ tries' = Append(tries, None)
        /\ isNewSrc' = Append(isNewSrc, cur # file)
        /\ IF seeking THEN Postpone(id, due) ELSE Start(id, request, due)
        /\ hushed' = FALSE

PlayFileAgain ==
    /\ calls = Idle
    /\ due[20] # << >>
    /\ LET id == Head(due[20])
           request == asked[id]
       IN  /\ isNewSrc' = [isNewSrc EXCEPT ![id] = cur # request.file]
           /\ IF seeking THEN Postpone(id, Fired(20))
                         ELSE Start(id, request, Fired(20))
    /\ UNCHANGED <<asked, tries, calls, commands, hushed>>

(***************************************************************************)
(* The other calls.                                                        *)
(***************************************************************************)
Play ==
    /\ Called
    /\ Playing
    /\ hushed' = FALSE
    /\ UNCHANGED <<data, cur, seeking, skips, queuing, listeners, due,
                   src, position, target, loading, served, ender, astray>>

Pause ==
    /\ Called
    /\ Pausing
    /\ hushed' = (~seeking /\ due[20] = << >>)
    /\ UNCHANGED <<data, cur, seeking, skips, queuing, listeners, due,
                   src, position, target, heard, loading,
                   served, ender, astray>>

(* Mutant: what was played is not forgotten. *)
ResetKeepsSrc ==
    /\ Called
    /\ Pausing
    /\ seeking' = FALSE
    /\ due' = Set(due, 1, "clear")
    /\ astray' = (astray \/ UnderWay)
    /\ hushed' = FALSE
    /\ UNCHANGED <<data, cur, skips, queuing, listeners,
                   src, position, target, heard, loading, served, ender>>

Reset ==
    /\ Called
    /\ Pausing
    /\ seeking' = FALSE
    /\ cur' = None
    /\ due' = Set(due, 1, "clear")
    /\ astray' = (astray \/ UnderWay)
    /\ hushed' = FALSE
    /\ UNCHANGED <<data, skips, queuing, listeners,
                   src, position, target, heard, loading, served, ender>>

(***************************************************************************)
(* The timeouts.                                                           *)
(***************************************************************************)
(* The load algorithm of the element drops the events it had fired. *)
Loaded(file) ==
    /\ src' = file
    /\ position' = 0
    /\ target' = None
    /\ loading' = (file # None)

Clear ==
    /\ calls = Idle
    /\ due[1] # << >> /\ Head(due[1]) = "clear"
    /\ due' = Fired(1)
    /\ Loaded(None)
    /\ heard' = << >>
    /\ paused' = TRUE
    /\ UNCHANGED <<data, player, listeners, calls, commands, history>>

(* The source is read when the timeout fires, and playToForcePreload does  *)
(* nothing when there is none.                                             *)
Load ==
    /\ calls = Idle
    /\ due[1] # << >> /\ Head(due[1]) = "load"
    /\ due' = Fired(1)
    /\ Loaded(cur)
    /\ timer' = (timer \/ cur # None)
    /\ paused' = (cur = None)
    /\ heard' = IF cur = None THEN << >> ELSE <<"play">>
    /\ UNCHANGED <<data, cur, seeking, skips, queuing, listeners, calls,
                   commands, history>>

SetCurrentTime ==
    /\ calls = Idle
    /\ due[5] # << >>
    /\ target' = IF src = None THEN None ELSE asked[Head(due[5])].begin
    /\ due' = Fired(5)
    /\ UNCHANGED <<data, player, listeners, calls, src, paused, position,
                   heard, loading, commands, history>>

(***************************************************************************)
(* onSeeked. It is called for the data of a request; closures it leaves    *)
(* refer to the event object, which has the data of the last listener.     *)
(***************************************************************************)
(* Mutant: the listener is taken off for a retry only. *)
UnlistenedForRetry(id) ==
    IF tries[id] = MAX_SEEK_RETRIES
    THEN [onSeek EXCEPT ![SeekEvent(isNewSrc[id])] = << >>]
    ELSE onSeek

Unlistened(id) ==
    IF tries[id] \in {None, MAX_SEEK_RETRIES}
    THEN [onSeek EXCEPT ![SeekEvent(isNewSrc[id])] = << >>]
    ELSE onSeek

SeekFails(id) ==
    /\ position # asked[id].begin
    /\ tries[id] # -1

(* Mutant: the first retry waits for the event and for 50 ms. *)
FirstRetryTwice(id, event, timeouts) ==
    /\ SeekFails(id)
    /\ tries[id] = None
    /\ tries' = [tries EXCEPT ![id] = MAX_SEEK_RETRIES]
    /\ isNewSrc' = [isNewSrc EXCEPT ![id] = FALSE]
    /\ onSeek' = [Unlistened(id) EXCEPT !["timeupdate"] = Append(@, id)]
    /\ due' = Set(Set(timeouts, 50, event), 5, event)
    /\ UNCHANGED <<seeking, timer, paused, heard, ender>>

FirstRetry(id, event, timeouts) ==
    /\ SeekFails(id)
    /\ tries[id] = None
    /\ tries' = [tries EXCEPT ![id] = MAX_SEEK_RETRIES]
    /\ isNewSrc' = [isNewSrc EXCEPT ![id] = FALSE]
    /\ onSeek' = [Unlistened(id) EXCEPT !["timeupdate"] = Append(@, id)]
    /\ due' = Set(timeouts, 5, event)
    /\ UNCHANGED <<seeking, timer, paused, heard, ender>>

(* Mutant: the next retry is left to an event nobody listens to. *)
RetryAgainUnheard(id, event, timeouts) ==
    /\ SeekFails(id)
    /\ tries[id] # None
    /\ tries' = [tries EXCEPT ![id] = @ - 1]
    /\ onSeek' = Unlistened(id)
    /\ due' = Set(timeouts, 5, event)
    /\ UNCHANGED <<isNewSrc, seeking, timer, paused, heard, ender>>

RetryAgain(id, event, timeouts) ==
    /\ SeekFails(id)
    /\ tries[id] # None
    /\ tries' = [tries EXCEPT ![id] = @ - 1]
    /\ onSeek' = Unlistened(id)
    /\ due' = Set(Set(timeouts, 50, event), 5, event)
    /\ UNCHANGED <<isNewSrc, seeking, timer, paused, heard, ender>>

SeekOkay(id, timeouts) ==
    /\ ~SeekFails(id)
    /\ tries' = [tries EXCEPT ![id] = None]
    /\ onSeek' = Unlistened(id)
    /\ due' = timeouts
    /\ Playing
    /\ seeking' = FALSE
    /\ ender' = id
    /\ UNCHANGED isNewSrc

OnSeeked(id, event, timeouts) ==
    /\ \/ FirstRetry(id, event, timeouts)
       \/ RetryAgain(id, event, timeouts)
       \/ SeekOkay(id, timeouts)
    /\ UNCHANGED <<asked, cur, skips, queuing, preload, onReady,
                   src, position, target, loading,
                   commands, served, astray, hushed>>

Retry ==
    /\ calls = Idle
    /\ due[50] # << >> /\ due[5] = << >>
    /\ OnSeeked(Head(due[50]), Head(due[50]), Fired(50))
    /\ UNCHANGED calls

(***************************************************************************)
(* The events of the element. Each one calls the listeners it had when it  *)
(* was dispatched, also those a listener before has removed.               *)
(***************************************************************************)
Dispatch(listener, ids) ==
    calls' = [listener |-> listener, left |-> ids, last |-> Last(ids)]

Next1 ==
    calls' = IF Len(calls.left) = 1 THEN Idle
             ELSE [calls EXCEPT !.left = Tail(@)]

CallReadyToSeek ==
    /\ calls.listener = "canplay"
    /\ LET id == Head(calls.left)
           begin == asked[id].begin
       IN  IF position = begin
           THEN Continue(id) /\ Playing
           ELSE Seek(id, begin, TRUE) /\ UNCHANGED seeking
    /\ onReady' = << >>
    /\ Next1
    /\ UNCHANGED <<data, cur, skips, queuing, preload, due,
                   src, position, loading, commands, served, astray, hushed>>

CallSeeked ==
    /\ calls.listener = "seek"
    /\ OnSeeked(Head(calls.left), calls.last, due)
    /\ Next1

HearPlay ==
    /\ calls = Idle
    /\ heard # << >> /\ Head(heard) = "play"
    /\ heard' = Tail(heard)
    /\ preload' = FALSE
    /\ paused' = (paused \/ preload)
    /\ UNCHANGED <<data, player, onReady, onSeek, due, calls,
                   src, position, target, loading, commands, history>>

HearCanPlay ==
    /\ calls = Idle
    /\ heard # << >> /\ Head(heard) = "canplay"
    /\ heard' = Tail(heard)
    /\ IF onReady = << >> THEN UNCHANGED calls
                          ELSE Dispatch("canplay", onReady)
    /\ UNCHANGED <<data, player, listeners, due,
                   src, paused, position, target, loading, commands, history>>

(* Either event may come at any time, for a seek or not. *)
HearSeekEvent(e) ==
    /\ calls = Idle
    /\ src # None /\ heard = << >>
    /\ onSeek[e] # << >>
    /\ Dispatch("seek", onSeek[e])
    /\ UNCHANGED <<data, player, listeners, due, element, commands, history>>

(* The end of the file; skipped while seeking, but the element has stopped. *)
HearEnded ==
    /\ calls = Idle
    /\ src # None /\ ~paused /\ heard = << >> /\ ~loading
    /\ paused' = TRUE
    /\ timer' = (timer /\ seeking)
    /\ UNCHANGED <<data, cur, seeking, skips, queuing, listeners, due, calls,
                   src, position, target, heard, loading, commands, history>>

(* The interval timer, when it skips; otherwise it reports the position. *)
Tick ==
    /\ calls = Idle
    /\ timer /\ seeking
    /\ skips' = IF skips + 1 > MaxSkips THEN 0 ELSE skips + 1
    /\ timer' = (skips + 1 <= MaxSkips)
    /\ UNCHANGED <<data, cur, seeking, queuing, listeners, due, calls,
                   element, commands, history>>

(***************************************************************************)
(* The element itself.                                                     *)
(***************************************************************************)
CanPlay ==
    /\ loading
    /\ loading' = FALSE
    /\ heard' = Append(heard, "canplay")
    /\ UNCHANGED <<data, player, listeners, due, calls,
                   src, paused, position, target, commands, history>>

(* A seek lands in its own time, and may let the element fire "canplay". *)
Land ==
    /\ target # None /\ ~loading
    /\ position' = target
    /\ target' = None
    /\ heard' \in {heard, Append(heard, "canplay")}
    /\ UNCHANGED <<data, player, listeners, due, calls,
                   src, paused, loading, commands, history>>

Client ==
    \/ \E file \in Files, begin \in Times : PlayFile(file, begin)
    \/ Play \/ Pause \/ Reset

Timeouts == PlayFileAgain \/ Clear \/ Load \/ SetCurrentTime \/ Retry

Events ==
    \/ CallReadyToSeek \/ CallSeeked \/ HearPlay \/ HearCanPlay
    \/ \E e \in SeekEvents : HearSeekEvent(e)

Next == Client \/ Timeouts \/ Events \/ HearEnded \/ Tick \/ CanPlay \/ Land

(* Timeouts fire and events are dispatched; the element loads what it is   *)
(* given and goes on firing both events; a seek need not land.             *)
Fairness ==
    /\ WF_vars(PlayFileAgain)
    /\ WF_vars(Clear \/ Load) /\ WF_vars(SetCurrentTime) /\ WF_vars(Retry)
    /\ WF_vars(CallReadyToSeek \/ CallSeeked \/ HearPlay \/ HearCanPlay)
    /\ \A e \in SeekEvents : WF_vars(HearSeekEvent(e))
    /\ WF_vars(CanPlay)

Spec == Init /\ [][Next]_vars /\ Fairness
-----------------------------------------------------------------------------
TypeOK ==
    /\ asked \in Seq([file : Files, begin : Times])
    /\ DOMAIN tries = Requests /\ DOMAIN isNewSrc = Requests
    /\ Range(tries) \subseteq {None} \cup (-1)..MAX_SEEK_RETRIES
    /\ Range(isNewSrc) \subseteq BOOLEAN
    /\ cur \in Files \cup {None} /\ src \in Files \cup {None}
    /\ {seeking, timer, preload, paused, loading, astray, hushed}
           \subseteq BOOLEAN
    /\ skips \in 0..MaxSkips /\ queuing \in 0..MAX_SEEK_RETRIES
    /\ onReady \in Seq(Requests)
    /\ onSeek \in [SeekEvents -> Seq(Requests)]
    /\ due[1] \in Seq({"clear", "load"})
    /\ \A d \in Delays \ {1} : due[d] \in Seq(Requests)
    /\ position \in Times /\ target \in Times \cup {None}
    /\ heard \in Seq({"play", "canplay"})
    /\ {served, ender} \subseteq Requests \cup {None}

(* The source of the element is set and cleared a millisecond after the    *)
(* player's own: whatever was called in between, they end up the same.     *)
SourceSettles == due[1] = << >> => src = cur

(* A seek is ended by a listener of its own request: listeners are never   *)
(* shared, as long as none was left behind by reset().                     *)
EndsItsOwnSeek == ~seeking /\ cur # None /\ ~astray => ender = served

(* A pause that finds nothing under way holds until the next call.         *)
PauseHolds == hushed /\ ~astray => paused /\ ~timer

(* A request that is over has left no listener with the element.           *)
NothingLeftBehind ==
    ~seeking /\ ~astray /\ calls = Idle /\ heard = << >>
        => /\ ~preload /\ onReady = << >>
           /\ \A e \in SeekEvents : onSeek[e] = << >>

(* Every seek ends: by its event, by running out of retries, or by reset() *)
(* (otherwise every later request is postponed until it is dropped).       *)
SeekEnds == seeking ~> ~seeking
=============================================================================
