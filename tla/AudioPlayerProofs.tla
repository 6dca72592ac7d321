------------------------- MODULE AudioPlayerProofs -------------------------
(***************************************************************************)
(* For every set of files, every number of calls and every order of        *)
(* timeouts and events: the element has what the player thinks it has      *)
(* whenever no timeout is about to change it (SourceFollows); every        *)
(* variable has its type (PlayerTypes); and, unless something was left     *)
(* behind, a request goes through phases in which only its own listeners   *)
(* and timeouts are there to be called (PlayerInv).                        *)
(***************************************************************************)
EXTENDS AudioPlayer, SequenceTheorems, TLAPS

Jobs == {"clear", "load"}

(* What is left of the 1 ms timeouts decides: a load takes whatever the    *)
(* player has by then, and a clear comes last only if it has nothing.      *)
SourceFollows ==
    /\ DOMAIN due = Delays
    /\ due[1] \in Seq(Jobs)
    /\ due[1] = << >> => src = cur
    /\ due[1] # << >> /\ Last(due[1]) = "clear" => cur = None
-----------------------------------------------------------------------------
LEMMA AppendIsLast ==
    ASSUME NEW S, NEW s \in Seq(S), NEW x \in S
    PROVE  /\ Append(s, x) \in Seq(S)
           /\ Append(s, x) # << >>
           /\ Last(Append(s, x)) = x
  <1>1. Append(s, x) \in Seq(S) /\ Len(Append(s, x)) = Len(s) + 1
    OBVIOUS
  <1>2. Append(s, x)[Len(s) + 1] = x
    OBVIOUS
  <1>3. Len(s) \in Nat
    OBVIOUS
  <1> QED
    BY <1>1, <1>2, <1>3 DEF Last

LEMMA TailKeepsLast ==
    ASSUME NEW S, NEW s \in Seq(S), s # << >>, Tail(s) # << >>
    PROVE  Last(Tail(s)) = Last(s)
  <1>1. Tail(s) \in Seq(S) /\ Len(Tail(s)) = Len(s) - 1 /\ Len(s) \in Nat
    OBVIOUS
  <1>2. Len(Tail(s)) > 0
    BY <1>1
  <1>3. Tail(s)[Len(Tail(s))] = s[Len(s)]
    BY <1>1, <1>2
  <1> QED
    BY <1>3 DEF Last

LEMMA LastOfOne ==
    ASSUME NEW S, NEW s \in Seq(S), s # << >>, Tail(s) = << >>
    PROVE  Last(s) = Head(s)
  <1>1. Len(Tail(s)) = Len(s) - 1 /\ Len(s) \in Nat
    BY HeadTailProperties, LenProperties
  <1>2. Len(Tail(s)) = 0
    BY EmptySeq
  <1>3. Len(s) = 1
    BY <1>1, <1>2
  <1> QED
    BY <1>3 DEF Last

LEMMA InitFollows == Init => SourceFollows
  BY DEF Init, SourceFollows, Delays

(* Who sets timeouts of another delay, or none, and leaves both sources    *)
(* alone disturbs nothing.                                                 *)
LEMMA OtherDelays ==
    ASSUME SourceFollows, DOMAIN due' = Delays, due'[1] = due[1],
           src' = src, cur' = cur
    PROVE  SourceFollows'
  BY DEF SourceFollows

LEMMA PostponeFollows ==
    ASSUME SourceFollows, NEW id, NEW timeouts,
           DOMAIN timeouts = Delays, timeouts[1] = due[1],
           Postpone(id, timeouts)
    PROVE  SourceFollows'
  <1>1. DOMAIN due' = Delays /\ due'[1] = due[1]
    BY DEF Postpone, Set, Delays
  <1> QED
    BY <1>1, OtherDelays DEF Postpone, element

LEMMA StartFollows ==
    ASSUME SourceFollows, NEW id, NEW request, NEW timeouts,
           DOMAIN timeouts = Delays, timeouts[1] = due[1],
           Start(id, request, timeouts)
    PROVE  SourceFollows'
  <1>1. CASE StartSameSrc(id, request)
    <2>1. cur = request.file /\ cur' = cur /\ src' = src
      BY <1>1 DEF StartSameSrc
    <2>2. due' = timeouts
      BY <2>1 DEF Start
    <2> QED
      BY <2>1, <2>2, OtherDelays
  <1>2. CASE StartNewSrc(id, request)
    <2>1. due' = Set(Set(timeouts, 1, "clear"), 1, "load")
      BY <1>2 DEF Start, StartNewSrc, ClearAndLoad
    <2>2. /\ DOMAIN due' = Delays
          /\ due'[1] = Append(Append(timeouts[1], "clear"), "load")
      BY <2>1 DEF Set, Delays
    <2> DEFINE cleared == Append(timeouts[1], "clear")
    <2>3. timeouts[1] \in Seq(Jobs) /\ "clear" \in Jobs /\ "load" \in Jobs
      BY DEF SourceFollows, Jobs
    <2>4. cleared \in Seq(Jobs)
      BY <2>3, AppendIsLast
    <2>5. due'[1] = Append(cleared, "load")
      BY <2>2
    <2> HIDE DEF cleared
    <2>6. /\ Append(cleared, "load") \in Seq(Jobs)
          /\ Append(cleared, "load") # << >>
          /\ Last(Append(cleared, "load")) = "load"
      BY <2>3, <2>4, AppendIsLast
    <2> QED
      BY <2>2, <2>5, <2>6 DEF SourceFollows
  <1> QED
    BY <1>1, <1>2 DEF Start

LEMMA PlayFileFollows ==
    ASSUME SourceFollows, NEW file, NEW begin, PlayFile(file, begin)
    PROVE  SourceFollows'
  <1> DEFINE request == [file |-> file, begin |-> begin]
             id == Len(asked) + 1
  <1>1. DOMAIN due = Delays
    BY DEF SourceFollows
  <1>2. Postpone(id, due) \/ Start(id, request, due)
    BY DEF PlayFile
  <1> HIDE DEF request, id
  <1> QED
    BY <1>1, <1>2, PostponeFollows, StartFollows

LEMMA PlayFileAgainFollows ==
    ASSUME SourceFollows, PlayFileAgain
    PROVE  SourceFollows'
  <1> DEFINE id == Head(due[20])
             timeouts == Fired(20)
  <1>1. DOMAIN timeouts = Delays /\ timeouts[1] = due[1]
    BY DEF SourceFollows, Fired, Delays
  <1>2. Postpone(id, timeouts) \/ Start(id, asked[id], timeouts)
    BY DEF PlayFileAgain
  <1> HIDE DEF id, timeouts
  <1> QED
    BY <1>1, <1>2, PostponeFollows, StartFollows

(* reset() forgets the source before it has the element cleared. *)
LEMMA ResetFollows ==
    ASSUME SourceFollows, Reset
    PROVE  SourceFollows'
  <1>1. DOMAIN due' = Delays /\ due'[1] = Append(due[1], "clear") /\ cur' = None
    BY DEF Reset, Set, SourceFollows, Delays
  <1>2. due[1] \in Seq(Jobs) /\ "clear" \in Jobs
    BY DEF SourceFollows, Jobs
  <1>3. Append(due[1], "clear") \in Seq(Jobs) /\ Append(due[1], "clear") # << >>
    BY <1>2, AppendIsLast
  <1> QED
    BY <1>1, <1>3 DEF SourceFollows

(* A timeout that fires leaves the ones behind it. *)
LEMMA FiredFollows ==
    ASSUME SourceFollows, due[1] # << >>, due' = Fired(1)
    PROVE  /\ DOMAIN due' = Delays
           /\ due'[1] = Tail(due[1])
           /\ due'[1] \in Seq(Jobs)
           /\ due'[1] # << >> => Last(due'[1]) = Last(due[1])
           /\ due'[1] = << >> => Last(due[1]) = Head(due[1])
  <1>1. DOMAIN due' = Delays /\ due'[1] = Tail(due[1])
    BY DEF SourceFollows, Fired, Delays
  <1>2. due[1] \in Seq(Jobs)
    BY DEF SourceFollows
  <1>3. due'[1] \in Seq(Jobs)
    BY <1>1, <1>2, HeadTailProperties
  <1> QED
    BY <1>1, <1>2, <1>3, TailKeepsLast, LastOfOne

LEMMA ClearFollows ==
    ASSUME SourceFollows, Clear
    PROVE  SourceFollows'
  <1>1. due[1] # << >> /\ Head(due[1]) = "clear" /\ due' = Fired(1)
    BY DEF Clear
  <1>2. src' = None /\ cur' = cur
    BY DEF Clear, Loaded, player
  <1>3. /\ DOMAIN due' = Delays /\ due'[1] \in Seq(Jobs)
        /\ due'[1] # << >> => Last(due'[1]) = Last(due[1])
        /\ due'[1] = << >> => Last(due[1]) = "clear"
    BY <1>1, FiredFollows
  <1> QED
    BY <1>1, <1>2, <1>3 DEF SourceFollows

LEMMA LoadFollows ==
    ASSUME SourceFollows, Load
    PROVE  SourceFollows'
  <1>1. due[1] # << >> /\ due' = Fired(1)
    BY DEF Load
  <1>2. src' = cur /\ cur' = cur
    BY DEF Load, Loaded
  <1>3. /\ DOMAIN due' = Delays /\ due'[1] \in Seq(Jobs)
        /\ due'[1] # << >> => Last(due'[1]) = Last(due[1])
    BY <1>1, FiredFollows
  <1> QED
    BY <1>1, <1>2, <1>3 DEF SourceFollows

(* Seeks have timeouts of 5 and 50 ms. *)
LEMMA OnSeekedFollows ==
    ASSUME SourceFollows, NEW id, NEW event, NEW timeouts,
           DOMAIN timeouts = Delays, timeouts[1] = due[1],
           OnSeeked(id, event, timeouts)
    PROVE  SourceFollows'
  <1>1. src' = src /\ cur' = cur
    BY DEF OnSeeked
  <1>2. DOMAIN due' = Delays /\ due'[1] = due[1]
    <2>1. CASE FirstRetry(id, event, timeouts)
      BY <2>1 DEF FirstRetry, Set, Delays
    <2>2. CASE RetryAgain(id, event, timeouts)
      BY <2>2 DEF RetryAgain, Set, Delays
    <2>3. CASE SeekOkay(id, timeouts)
      BY <2>3 DEF SeekOkay
    <2> QED
      BY <2>1, <2>2, <2>3 DEF OnSeeked
  <1> QED
    BY <1>1, <1>2, OtherDelays

LEMMA TimeoutsFollow ==
    ASSUME SourceFollows, Timeouts
    PROVE  SourceFollows'
  <1>0. DOMAIN due = Delays
    BY DEF SourceFollows
  <1>1. CASE SetCurrentTime
    <2>1. DOMAIN due' = Delays /\ due'[1] = due[1]
      BY <1>0, <1>1 DEF SetCurrentTime, Fired, Delays
    <2> QED
      BY <1>1, <2>1, OtherDelays DEF SetCurrentTime, player
  <1>2. CASE Retry
    <2> DEFINE id == Head(due[50])
               timeouts == Fired(50)
    <2>1. DOMAIN timeouts = Delays /\ timeouts[1] = due[1]
      BY <1>0 DEF Fired, Delays
    <2>2. OnSeeked(id, id, timeouts)
      BY <1>2 DEF Retry
    <2> HIDE DEF id, timeouts
    <2> QED
      BY <2>1, <2>2, OnSeekedFollows
  <1> QED
    BY <1>1, <1>2, PlayFileAgainFollows, ClearFollows, LoadFollows DEF Timeouts

LEMMA EventsFollow ==
    ASSUME SourceFollows, Events
    PROVE  SourceFollows'
  <1>0. DOMAIN due = Delays
    BY DEF SourceFollows
  <1>1. CASE CallReadyToSeek
    BY <1>0, <1>1, OtherDelays DEF CallReadyToSeek
  <1>2. CASE CallSeeked
    <2>1. PICK id, event : OnSeeked(id, event, due)
      BY <1>2 DEF CallSeeked
    <2> QED
      BY <1>0, <2>1, OnSeekedFollows
  <1>3. CASE HearPlay
    BY <1>0, <1>3, OtherDelays DEF HearPlay, player
  <1>4. CASE HearCanPlay
    BY <1>0, <1>4, OtherDelays DEF HearCanPlay, player
  <1>5. CASE \E e \in SeekEvents : HearSeekEvent(e)
    BY <1>0, <1>5, OtherDelays DEF HearSeekEvent, player, element
  <1> QED
    BY <1>1, <1>2, <1>3, <1>4, <1>5 DEF Events

LEMMA StepFollows == SourceFollows /\ [Next]_vars => SourceFollows'
  <1> SUFFICES ASSUME SourceFollows, [Next]_vars PROVE SourceFollows'
    OBVIOUS
  <1>0. DOMAIN due = Delays
    BY DEF SourceFollows
  <1>1. CASE Client
    <2>1. CASE Play
      BY <1>0, <2>1, OtherDelays DEF Play
    <2>2. CASE Pause
      BY <1>0, <2>2, OtherDelays DEF Pause
    <2> QED
      BY <1>1, <2>1, <2>2, PlayFileFollows, ResetFollows DEF Client
  <1>2. CASE HearEnded
    BY <1>0, <1>2, OtherDelays DEF HearEnded
  <1>3. CASE Tick
    BY <1>0, <1>3, OtherDelays DEF Tick, element
  <1>4. CASE CanPlay
    BY <1>0, <1>4, OtherDelays DEF CanPlay, player
  <1>5. CASE Land
    BY <1>0, <1>5, OtherDelays DEF Land, player
  <1>6. CASE UNCHANGED vars
    BY <1>0, <1>6, OtherDelays DEF vars, player, element
  <1> QED
    BY <1>1, <1>2, <1>3, <1>4, <1>5, <1>6, TimeoutsFollow, EventsFollow DEF Next

(* The player and the element agree on what is played once the timeouts of *)
(* playFile and reset() have fired, whatever was called in between:        *)
(* AudioPlayer.playFile, reset and the two closures they leave.            *)
THEOREM SpecSourceSettles == Spec => []SourceSettles
  <1>1. SourceFollows => SourceSettles
    BY DEF SourceFollows, SourceSettles
  <1> QED
    BY <1>1, InitFollows, StepFollows, PTL DEF Spec

(***************************************************************************)
(* What is known of the types: whatever is left with the element, with     *)
(* setTimeout or with a dispatched event belongs to a request made before. *)
(***************************************************************************)
Records == [file : Files, begin : Times]
Counts == {None} \cup (-1)..MAX_SEEK_RETRIES
Marks == {"play", "canplay"}

DataTyped ==
    /\ asked \in Seq(Records)
    /\ tries \in Seq(Counts) /\ Len(tries) = Len(asked)
    /\ isNewSrc \in Seq(BOOLEAN) /\ Len(isNewSrc) = Len(asked)

Typed(timeouts, ids) ==
    /\ DOMAIN timeouts = Delays
    /\ timeouts[1] \in Seq(Jobs)
    /\ timeouts[5] \in Seq(ids)
    /\ timeouts[20] \in Seq(ids)
    /\ timeouts[50] \in Seq(ids)

ListenersTyped(ready, seek, ids) ==
    /\ ready \in Seq(ids)
    /\ seek \in [SeekEvents -> Seq(ids)]

CallsTyped(c, ids) ==
    c = Idle \/ /\ c \in [listener : {"canplay", "seek"},
                          left : Seq(ids), last : ids]
                /\ c.left # << >>

HistoryTyped(ids) == served \in ids \cup {None} /\ ender \in ids \cup {None}

SourceTyped ==
    /\ cur \in Files \cup {None} /\ src \in Files \cup {None}
    /\ position \in Times /\ target \in Times \cup {None}

FlagsTyped ==
    /\ seeking \in BOOLEAN /\ timer \in BOOLEAN /\ preload \in BOOLEAN
    /\ paused \in BOOLEAN /\ loading \in BOOLEAN
    /\ astray \in BOOLEAN /\ hushed \in BOOLEAN

CountersTyped == skips \in 0..MaxSkips /\ queuing \in 0..MAX_SEEK_RETRIES

PlayerTypes ==
    /\ DataTyped
    /\ Typed(due, Requests)
    /\ ListenersTyped(onReady, onSeek, Requests)
    /\ CallsTyped(calls, Requests)
    /\ HistoryTyped(Requests)
    /\ SourceTyped /\ FlagsTyped /\ CountersTyped
    /\ heard \in Seq(Marks)
-----------------------------------------------------------------------------
LEMMA NoneIsNoNumber == None \notin Int /\ None # "canplay" /\ None # "seek"
  BY PlayerAssumption

LEMMA EmptyTyped == \A S : << >> \in Seq(S)
  OBVIOUS

LEMMA TypedSet ==
    ASSUME NEW ids, NEW timeouts, Typed(timeouts, ids), NEW id \in ids
    PROVE  /\ Typed(Set(timeouts, 5, id), ids)
           /\ Typed(Set(timeouts, 20, id), ids)
           /\ Typed(Set(timeouts, 50, id), ids)
  BY DEF Typed, Set, Delays

LEMMA TypedJob ==
    ASSUME NEW ids, NEW timeouts, Typed(timeouts, ids), NEW job \in Jobs
    PROVE  Typed(Set(timeouts, 1, job), ids)
  BY DEF Typed, Set, Delays

LEMMA TypedFired ==
    ASSUME PlayerTypes, NEW d \in Delays, due[d] # << >>
    PROVE  Typed(Fired(d), Requests)
  <1>1. Typed(due, Requests)
    BY DEF PlayerTypes
  <1>2. \A S : \A s \in Seq(S) : s # << >> => Tail(s) \in Seq(S)
    OBVIOUS
  <1> QED
    BY <1>1, <1>2 DEF Typed, Fired, Delays

LEMMA SeqWidens ==
    ASSUME NEW S, NEW T, S \subseteq T, NEW s \in Seq(S)
    PROVE  s \in Seq(T)
  BY SeqMonotonic

LEMMA TypedWidens ==
    ASSUME NEW ids, NEW more, ids \subseteq more,
           NEW timeouts, Typed(timeouts, ids)
    PROVE  Typed(timeouts, more)
  BY SeqWidens DEF Typed

LEMMA ListenersWiden ==
    ASSUME NEW ids, NEW more, ids \subseteq more,
           NEW ready, NEW seek, ListenersTyped(ready, seek, ids)
    PROVE  ListenersTyped(ready, seek, more)
  <1>1. Seq(ids) \subseteq Seq(more)
    BY SeqWidens
  <1> QED
    BY <1>1 DEF ListenersTyped

LEMMA CallsWiden ==
    ASSUME NEW ids, NEW more, ids \subseteq more,
           NEW c, CallsTyped(c, ids)
    PROVE  CallsTyped(c, more)
  <1>1. Seq(ids) \subseteq Seq(more)
    BY SeqWidens
  <1> QED
    BY <1>1 DEF CallsTyped

LEMMA HeadTyped ==
    ASSUME NEW S, NEW s \in Seq(S), s # << >>
    PROVE  Head(s) \in S /\ Tail(s) \in Seq(S) /\ Last(s) \in S
  <1>1. Len(s) \in Nat /\ Len(s) > 0
    BY EmptySeq, LenProperties
  <1>2. s[Len(s)] \in S
    BY <1>1, ElementOfSeq
  <1> QED
    BY <1>2, HeadTailProperties DEF Last

LEMMA InitTypes == Init => PlayerTypes
  <1> SUFFICES ASSUME Init PROVE PlayerTypes
    OBVIOUS
  <1>1. DataTyped /\ Len(asked) = 0
    BY DEF Init, DataTyped
  <1>2. Typed(due, Requests)
    BY DEF Init, Typed, Delays
  <1>3. ListenersTyped(onReady, onSeek, Requests)
    BY DEF Init, ListenersTyped
  <1>4. CallsTyped(calls, Requests) /\ HistoryTyped(Requests)
    BY DEF Init, CallsTyped, HistoryTyped
  <1>5. SourceTyped
    BY PlayerAssumption DEF Init, SourceTyped
  <1>6. heard \in Seq(Marks)
    BY EmptyTyped DEF Init
  <1>9. FlagsTyped
    BY DEF Init, FlagsTyped
  <1>7. \A n \in Nat : 0 \in 0..n
    OBVIOUS
  <1>8. CountersTyped
    BY <1>7, PlayerAssumption DEF Init, CountersTyped
  <1> QED
    BY <1>1, <1>2, <1>3, <1>4, <1>5, <1>6, <1>8, <1>9 DEF PlayerTypes

(* A request that is made is appended to the others. *)
LEMMA AskedGrows ==
    ASSUME PlayerTypes, NEW file \in Files, NEW begin \in Times,
           NEW new \in BOOLEAN,
           asked' = Append(asked, [file |-> file, begin |-> begin]),
           tries' = Append(tries, None),
           isNewSrc' = Append(isNewSrc, new)
    PROVE  /\ DataTyped'
           /\ Requests' = Requests \cup {Len(asked) + 1}
           /\ Len(asked) \in Nat
           /\ tries'[Len(asked) + 1] = None
           /\ isNewSrc'[Len(asked) + 1] = new
           /\ \A id \in Requests : tries'[id] = tries[id] /\ isNewSrc'[id] = isNewSrc[id]
  <1>1. DataTyped
    BY DEF PlayerTypes
  <1>2. Len(asked) \in Nat
    BY <1>1 DEF DataTyped
  <1>3. [file |-> file, begin |-> begin] \in Records /\ None \in Counts
    BY DEF Records, Counts
  <1>4. asked' \in Seq(Records) /\ Len(asked') = Len(asked) + 1
    BY <1>1, <1>3, AppendProperties DEF DataTyped
  <1>5. /\ tries' \in Seq(Counts) /\ Len(tries') = Len(asked) + 1
        /\ tries'[Len(asked) + 1] = None
        /\ \A id \in 1..Len(asked) : tries'[id] = tries[id]
    BY <1>1, <1>3, AppendProperties DEF DataTyped
  <1>6. /\ isNewSrc' \in Seq(BOOLEAN) /\ Len(isNewSrc') = Len(asked) + 1
        /\ isNewSrc'[Len(asked) + 1] = new
        /\ \A id \in 1..Len(asked) : isNewSrc'[id] = isNewSrc[id]
    BY <1>1, AppendProperties DEF DataTyped
  <1>7. 1..(Len(asked) + 1) = (1..Len(asked)) \cup {Len(asked) + 1}
    BY <1>2
  <1> QED
    BY <1>2, <1>4, <1>5, <1>6, <1>7 DEF DataTyped, Requests

LEMMA RequestTyped ==
    ASSUME PlayerTypes, NEW id \in Requests
    PROVE  /\ asked[id] \in Records
           /\ tries[id] \in Counts /\ isNewSrc[id] \in BOOLEAN
           /\ id \in Int
  <1>1. asked \in Seq(Records) /\ Len(asked) \in Nat
    BY DEF PlayerTypes, DataTyped
  <1>2. id \in 1..Len(asked) /\ id \in Int
    BY <1>1 DEF Requests
  <1> QED
    BY <1>1, <1>2, ElementOfSeq DEF PlayerTypes, DataTyped

LEMMA PostponeTypes ==
    ASSUME PlayerTypes, NEW timeouts, Typed(timeouts, Requests),
           DataTyped', Requests \subseteq Requests', NEW id \in Requests',
           calls' = calls, hushed' \in BOOLEAN, Postpone(id, timeouts)
    PROVE  PlayerTypes'
  <1>1. Typed(timeouts, Requests')
    BY TypedWidens
  <1>2. Typed(due', Requests')
    BY <1>1, TypedSet DEF Postpone
  <1>3. ListenersTyped(onReady', onSeek', Requests')
    BY ListenersWiden DEF PlayerTypes, Postpone, listeners
  <1>4. CallsTyped(calls', Requests')
    BY CallsWiden DEF PlayerTypes
  <1>5. HistoryTyped(Requests)'
    BY DEF PlayerTypes, HistoryTyped, Postpone
  <1>6. SourceTyped' /\ heard' \in Seq(Marks)
    BY DEF PlayerTypes, SourceTyped, Postpone, element
  <1>7. FlagsTyped'
    BY DEF PlayerTypes, FlagsTyped, Postpone, element, listeners
  <1>8. \A m, n \in Nat : n \in 0..m => /\ 0 \in 0..m
                                        /\ ~(n + 1 > m) => n + 1 \in 0..m
    OBVIOUS
  <1>9. CountersTyped'
    BY <1>8, PlayerAssumption DEF PlayerTypes, CountersTyped, Postpone
  <1> QED
    BY <1>2, <1>3, <1>4, <1>5, <1>6, <1>7, <1>9 DEF PlayerTypes

LEMMA ContinueOrSeekTypes ==
    ASSUME ListenersTyped(onReady, onSeek, Requests'), NEW id \in Requests',
           NEW begin, NEW new, Continue(id) \/ Seek(id, begin, new),
           onReady' \in Seq(Requests')
    PROVE  ListenersTyped(onReady', onSeek', Requests')
  <1>1. \A s \in Seq(Requests') : Append(s, id) \in Seq(Requests')
    OBVIOUS
  <1>2. CASE Continue(id)
    BY <1>2 DEF Continue, ListenersTyped
  <1>3. CASE Seek(id, begin, new)
    BY <1>1, <1>3 DEF Seek, ListenersTyped
  <1> QED
    BY <1>2, <1>3

LEMMA StartTypes ==
    ASSUME PlayerTypes, NEW timeouts, Typed(timeouts, Requests),
           DataTyped', Requests \subseteq Requests', NEW id \in Requests',
           NEW request \in Records,
           calls' = calls, hushed' \in BOOLEAN, Start(id, request, timeouts)
    PROVE  PlayerTypes'
  <1>1. Typed(timeouts, Requests') /\ CallsTyped(calls', Requests')
    BY TypedWidens, CallsWiden DEF PlayerTypes
  <1>2. ListenersTyped(onReady, onSeek, Requests')
    BY ListenersWiden DEF PlayerTypes
  <1>3. request.file \in Files /\ request.begin \in Times
    BY DEF Records
  <1>4. CountersTyped'
    BY DEF PlayerTypes, CountersTyped, Start
  <1>5. served' = id /\ astray' \in BOOLEAN
    BY DEF PlayerTypes, FlagsTyped, Start
  <1>6. heard \in Seq(Marks) /\ Append(heard, "play") \in Seq(Marks)
    BY AppendProperties DEF PlayerTypes, Marks
  <1>7. CASE StartSameSrc(id, request)
    <2>1. cur = request.file /\ preload' = preload /\ loading' = loading
      BY <1>7 DEF StartSameSrc
    <2>2. Typed(due', Requests')
      BY <1>1, <2>1 DEF Start
    <2>3. Continue(id) \/ Seek(id, request.begin, FALSE)
      BY <1>7 DEF StartSameSrc
    <2>4. onReady' \in Seq(Requests')
      BY <1>2, <1>7 DEF StartSameSrc, ListenersTyped
    <2>5. ListenersTyped(onReady', onSeek', Requests')
      BY <1>2, <2>3, <2>4, ContinueOrSeekTypes
    <2>6. HistoryTyped(Requests)'
      BY <1>5, <1>7 DEF PlayerTypes, HistoryTyped, StartSameSrc, Continue, Seek
    <2>7. SourceTyped'
      BY <1>3, <1>7 DEF PlayerTypes, SourceTyped, StartSameSrc, Continue, Seek
    <2>8. seeking' \in BOOLEAN /\ timer' \in BOOLEAN /\ paused' \in BOOLEAN
      BY <1>7 DEF StartSameSrc, Continue, Seek, Pausing
    <2>9. FlagsTyped'
      BY <1>5, <2>1, <2>8 DEF PlayerTypes, FlagsTyped
    <2>10. heard' \in Seq(Marks)
      BY <1>6, <1>7 DEF StartSameSrc, Continue, Seek
    <2> QED
      BY <1>1, <1>4, <2>2, <2>5, <2>6, <2>7, <2>9, <2>10 DEF PlayerTypes
  <1>8. CASE StartNewSrc(id, request)
    <2>1. due' = Set(Set(timeouts, 1, "clear"), 1, "load")
      BY <1>8 DEF Start, StartNewSrc, ClearAndLoad
    <2>2. Typed(due', Requests')
      BY <1>1, <2>1, TypedJob DEF Jobs
    <2>3. onReady' \in Seq(Requests') /\ onSeek' = onSeek
      BY <1>2, <1>8, AppendProperties DEF StartNewSrc, ListenersTyped
    <2>4. ListenersTyped(onReady', onSeek', Requests')
      BY <1>2, <2>3 DEF ListenersTyped
    <2>5. HistoryTyped(Requests)'
      BY <1>5, <1>8 DEF PlayerTypes, HistoryTyped, StartNewSrc
    <2>6. SourceTyped'
      BY <1>3, <1>8 DEF PlayerTypes, SourceTyped, StartNewSrc
    <2>7. FlagsTyped'
      BY <1>5, <1>8 DEF PlayerTypes, FlagsTyped, StartNewSrc, Pausing
    <2>8. heard' \in Seq(Marks)
      BY <1>6, <1>8 DEF StartNewSrc
    <2> QED
      BY <1>1, <1>4, <2>2, <2>4, <2>5, <2>6, <2>7, <2>8 DEF PlayerTypes
  <1> QED
    BY <1>7, <1>8 DEF Start

LEMMA PlayFileTypes ==
    ASSUME PlayerTypes, NEW file \in Files, NEW begin \in Times,
           PlayFile(file, begin)
    PROVE  PlayerTypes'
  <1> DEFINE request == [file |-> file, begin |-> begin]
             id == Len(asked) + 1
  <1>1. /\ asked' = Append(asked, request) /\ tries' = Append(tries, None)
        /\ isNewSrc' = Append(isNewSrc, cur # file)
        /\ calls' = calls /\ hushed' \in BOOLEAN
    BY DEF PlayFile, Called
  <1>2. /\ DataTyped' /\ Requests' = Requests \cup {id}
    BY <1>1, AskedGrows
  <1>3. Typed(due, Requests) /\ request \in Records
    BY DEF PlayerTypes, Records
  <1>4. Postpone(id, due) \/ Start(id, request, due)
    BY DEF PlayFile
  <1>5. id \in Requests' /\ Requests \subseteq Requests'
    BY <1>2
  <1> HIDE DEF id, request
  <1> QED
    BY <1>1, <1>2, <1>3, <1>4, <1>5, PostponeTypes, StartTypes

LEMMA PlayFileAgainTypes ==
    ASSUME PlayerTypes, PlayFileAgain
    PROVE  PlayerTypes'
  <1> DEFINE id == Head(due[20])
             timeouts == Fired(20)
  <1>1. due[20] # << >> /\ due[20] \in Seq(Requests)
    BY DEF PlayFileAgain, PlayerTypes, Typed
  <1>2. id \in Requests /\ Typed(timeouts, Requests)
    BY <1>1, HeadTyped, TypedFired DEF Delays
  <1>3. asked[id] \in Records
    BY <1>2, RequestTyped
  <1>4. /\ isNewSrc' = [isNewSrc EXCEPT ![id] = cur # asked[id].file]
        /\ asked' = asked /\ tries' = tries
        /\ calls' = calls /\ hushed' = hushed
    BY DEF PlayFileAgain
  <1>5. id \in 1..Len(isNewSrc)
    BY <1>2 DEF Requests, PlayerTypes, DataTyped
  <1>6. isNewSrc' \in Seq(BOOLEAN) /\ Len(isNewSrc') = Len(isNewSrc)
    BY <1>4, <1>5, ExceptSeq DEF PlayerTypes, DataTyped
  <1>7. DataTyped' /\ Requests' = Requests /\ hushed' \in BOOLEAN
    BY <1>4, <1>6 DEF PlayerTypes, DataTyped, Requests, FlagsTyped
  <1>8. Postpone(id, timeouts) \/ Start(id, asked[id], timeouts)
    BY DEF PlayFileAgain
  <1> HIDE DEF id, timeouts
  <1>9. id \in Requests' /\ Requests \subseteq Requests'
    BY <1>2, <1>7
  <1> QED
    BY <1>2, <1>3, <1>4, <1>7, <1>8, <1>9, PostponeTypes, StartTypes

(* Most steps make no request: what belonged to one still does. *)
LEMMA SameData ==
    ASSUME PlayerTypes, UNCHANGED data
    PROVE  DataTyped' /\ Requests' = Requests
  BY DEF PlayerTypes, DataTyped, Requests, data

LEMMA SameListeners ==
    ASSUME PlayerTypes, UNCHANGED <<data, onReady, onSeek>>
    PROVE  ListenersTyped(onReady', onSeek', Requests')
  BY SameData DEF PlayerTypes

LEMMA SameCalls ==
    ASSUME PlayerTypes, UNCHANGED <<data, calls>>
    PROVE  CallsTyped(calls', Requests')
  BY SameData DEF PlayerTypes

LEMMA SameHistory ==
    ASSUME PlayerTypes, UNCHANGED <<data, served, ender>>
    PROVE  HistoryTyped(Requests)'
  BY SameData DEF PlayerTypes, HistoryTyped

LEMMA SameDue ==
    ASSUME PlayerTypes, UNCHANGED <<data, due>>
    PROVE  Typed(due', Requests')
  BY SameData DEF PlayerTypes

LEMMA MarksGrow ==
    ASSUME PlayerTypes
    PROVE  /\ heard \in Seq(Marks) /\ << >> \in Seq(Marks)
           /\ Append(heard, "play") \in Seq(Marks)
           /\ Append(heard, "canplay") \in Seq(Marks)
           /\ heard # << >> => Tail(heard) \in Seq(Marks)
  BY AppendProperties, HeadTyped DEF PlayerTypes, Marks

LEMMA PlayTypes ==
    ASSUME PlayerTypes, Play
    PROVE  PlayerTypes'
  <1>1. /\ UNCHANGED data /\ UNCHANGED <<onReady, onSeek>> /\ UNCHANGED calls
        /\ UNCHANGED <<served, ender>> /\ UNCHANGED due
        /\ UNCHANGED <<skips, queuing>>
    BY DEF Play, Called, listeners
  <1>2. SourceTyped' /\ CountersTyped'
    BY DEF PlayerTypes, SourceTyped, CountersTyped, Play
  <1>3. timer' \in BOOLEAN /\ paused' \in BOOLEAN /\ heard' \in Seq(Marks)
    BY MarksGrow DEF PlayerTypes, FlagsTyped, Play, Playing
  <1>4. FlagsTyped'
    BY <1>3 DEF PlayerTypes, FlagsTyped, Play, listeners
  <1> QED
    BY <1>1, <1>2, <1>3, <1>4, SameData, SameListeners, SameCalls, SameHistory,
       SameDue DEF PlayerTypes

LEMMA PauseTypes ==
    ASSUME PlayerTypes, Pause
    PROVE  PlayerTypes'
  <1>1. /\ UNCHANGED data /\ UNCHANGED <<onReady, onSeek>> /\ UNCHANGED calls
        /\ UNCHANGED <<served, ender>> /\ UNCHANGED due
        /\ UNCHANGED <<skips, queuing>>
    BY DEF Pause, Called, listeners
  <1>2. SourceTyped' /\ CountersTyped' /\ heard' \in Seq(Marks)
    BY DEF PlayerTypes, SourceTyped, CountersTyped, Pause
  <1>3. timer' \in BOOLEAN /\ paused' \in BOOLEAN /\ hushed' \in BOOLEAN
    BY DEF PlayerTypes, FlagsTyped, Pause, Pausing
  <1>4. FlagsTyped'
    BY <1>3 DEF PlayerTypes, FlagsTyped, Pause, listeners
  <1> QED
    BY <1>1, <1>2, <1>4, SameData, SameListeners, SameCalls, SameHistory,
       SameDue DEF PlayerTypes

LEMMA ResetTypes ==
    ASSUME PlayerTypes, Reset
    PROVE  PlayerTypes'
  <1>1. /\ UNCHANGED data /\ UNCHANGED <<onReady, onSeek>> /\ UNCHANGED calls
        /\ UNCHANGED <<served, ender>>
        /\ UNCHANGED <<skips, queuing>>
    BY DEF Reset, Called, listeners
  <1>2. Requests' = Requests
    BY <1>1, SameData
  <1>3. Typed(due', Requests')
    BY <1>2, TypedJob DEF PlayerTypes, Reset, Jobs
  <1>4. SourceTyped' /\ CountersTyped' /\ heard' \in Seq(Marks)
    BY DEF PlayerTypes, SourceTyped, CountersTyped, Reset
  <1>5. astray' \in BOOLEAN
    BY DEF PlayerTypes, FlagsTyped, Reset
  <1>6. FlagsTyped'
    BY <1>5 DEF PlayerTypes, FlagsTyped, Reset, Pausing, listeners
  <1> QED
    BY <1>1, <1>3, <1>4, <1>6, SameData, SameListeners, SameCalls, SameHistory
       DEF PlayerTypes

LEMMA ClearOrLoadTypes ==
    ASSUME PlayerTypes, Clear \/ Load
    PROVE  PlayerTypes'
  <1>1. /\ UNCHANGED data /\ UNCHANGED <<onReady, onSeek>> /\ UNCHANGED calls
        /\ UNCHANGED <<served, ender>>
        /\ UNCHANGED <<skips, queuing>>
    BY DEF Clear, Load, player, listeners, history
  <1>2. Requests' = Requests
    BY <1>1, SameData
  <1>3. due' = Fired(1) /\ due[1] # << >>
    BY DEF Clear, Load
  <1>4. Typed(due', Requests')
    BY <1>2, <1>3, TypedFired DEF Delays
  <1>5. SourceTyped'
    BY PlayerAssumption
       DEF PlayerTypes, SourceTyped, Clear, Load, Loaded, player
  <1>6. heard' \in Seq(Marks)
    <2>1. <<"play">> \in Seq(Marks)
      BY DEF Marks
    <2> QED
      BY <2>1, EmptyTyped DEF Clear, Load
  <1>7. timer' \in BOOLEAN /\ paused' \in BOOLEAN /\ loading' \in BOOLEAN
    BY DEF PlayerTypes, FlagsTyped, Clear, Load, Loaded, player
  <1>8. FlagsTyped'
    BY <1>7 DEF PlayerTypes, FlagsTyped, Clear, Load, player, listeners, history
  <1>9. CountersTyped'
    BY <1>1 DEF PlayerTypes, CountersTyped
  <1> QED
    BY <1>1, <1>4, <1>5, <1>6, <1>8, <1>9, SameData, SameListeners, SameCalls,
       SameHistory DEF PlayerTypes

LEMMA SetCurrentTimeTypes ==
    ASSUME PlayerTypes, SetCurrentTime
    PROVE  PlayerTypes'
  <1>1. /\ UNCHANGED data /\ UNCHANGED <<onReady, onSeek>> /\ UNCHANGED calls
        /\ UNCHANGED <<served, ender>>
        /\ UNCHANGED <<skips, queuing>>
    BY DEF SetCurrentTime, player, listeners, history
  <1>2. Requests' = Requests
    BY <1>1, SameData
  <1>3. due' = Fired(5) /\ due[5] # << >>
    BY DEF SetCurrentTime
  <1>4. Typed(due', Requests')
    BY <1>2, <1>3, TypedFired DEF Delays
  <1>5. Head(due[5]) \in Requests
    BY <1>3, HeadTyped DEF PlayerTypes, Typed
  <1>6. asked[Head(due[5])].begin \in Times
    BY <1>5, RequestTyped DEF Records
  <1>7. target' \in Times \cup {None}
    BY <1>6 DEF SetCurrentTime
  <1>8. SourceTyped' /\ heard' \in Seq(Marks)
    BY <1>7 DEF PlayerTypes, SourceTyped, SetCurrentTime, player
  <1>9. FlagsTyped' /\ CountersTyped'
    BY DEF PlayerTypes, FlagsTyped, CountersTyped, SetCurrentTime, player,
           listeners, history
  <1> QED
    BY <1>1, <1>4, <1>8, <1>9, SameData, SameListeners, SameCalls,
       SameHistory DEF PlayerTypes

LEMMA UnlistenedTyped ==
    ASSUME PlayerTypes, NEW id \in Requests
    PROVE  Unlistened(id) \in [SeekEvents -> Seq(Requests)]
  BY EmptyTyped DEF Unlistened, PlayerTypes, ListenersTyped

LEMMA OnSeekedTypes ==
    ASSUME PlayerTypes, NEW id \in Requests, NEW event \in Requests,
           NEW timeouts, Typed(timeouts, Requests),
           CallsTyped(calls', Requests), OnSeeked(id, event, timeouts)
    PROVE  PlayerTypes'
  <1>1. UNCHANGED asked /\ UNCHANGED onReady /\ Requests' = Requests
    BY DEF OnSeeked, Requests
  <1>2. /\ tries \in Seq(Counts) /\ id \in 1..Len(tries)
        /\ isNewSrc \in Seq(BOOLEAN) /\ id \in 1..Len(isNewSrc)
    BY DEF PlayerTypes, DataTyped, Requests
  <1>3. Unlistened(id) \in [SeekEvents -> Seq(Requests)]
    BY UnlistenedTyped
  <1>4. SourceTyped' /\ CountersTyped' /\ UNCHANGED served
    BY DEF PlayerTypes, SourceTyped, CountersTyped, OnSeeked
  <1>5. preload' \in BOOLEAN /\ loading' \in BOOLEAN /\ astray' \in BOOLEAN
        /\ hushed' \in BOOLEAN
    BY DEF PlayerTypes, FlagsTyped, OnSeeked
  <1>6. Typed(Set(timeouts, 5, event), Requests)
        /\ Typed(Set(Set(timeouts, 50, event), 5, event), Requests)
    BY TypedSet
  <1>7. SUFFICES /\ tries' \in Seq(Counts) /\ Len(tries') = Len(tries)
                 /\ isNewSrc' \in Seq(BOOLEAN) /\ Len(isNewSrc') = Len(isNewSrc)
                 /\ onSeek' \in [SeekEvents -> Seq(Requests)]
                 /\ Typed(due', Requests)
                 /\ seeking' \in BOOLEAN /\ timer' \in BOOLEAN /\ paused' \in BOOLEAN
                 /\ heard' \in Seq(Marks)
                 /\ ender' \in Requests \cup {None}
    <2>1. DataTyped'
      BY <1>1, <1>7 DEF PlayerTypes, DataTyped
    <2>2. ListenersTyped(onReady', onSeek', Requests')
      BY <1>1, <1>7 DEF PlayerTypes, ListenersTyped
    <2>3. FlagsTyped'
      BY <1>5, <1>7 DEF FlagsTyped
    <2>4. HistoryTyped(Requests)'
      BY <1>1, <1>4, <1>7 DEF PlayerTypes, HistoryTyped
    <2> QED
      BY <1>1, <1>4, <1>7, <2>1, <2>2, <2>3, <2>4 DEF PlayerTypes
  <1>8. CASE FirstRetry(id, event, timeouts)
    <2>1. MAX_SEEK_RETRIES \in Counts
      BY PlayerAssumption DEF Counts
    <2>2. tries' \in Seq(Counts) /\ Len(tries') = Len(tries)
      BY <1>2, <1>8, <2>1, ExceptSeq DEF FirstRetry
    <2>3. isNewSrc' \in Seq(BOOLEAN) /\ Len(isNewSrc') = Len(isNewSrc)
      BY <1>2, <1>8, ExceptSeq DEF FirstRetry
    <2>4. \A s \in Seq(Requests) : Append(s, id) \in Seq(Requests)
      OBVIOUS
    <2>5. onSeek' \in [SeekEvents -> Seq(Requests)]
      <3> DEFINE others == Unlistened(id)
      <3>1. onSeek' = [others EXCEPT !["timeupdate"] = Append(@, id)]
        BY <1>8 DEF FirstRetry
      <3>2. others \in [SeekEvents -> Seq(Requests)]
        BY <1>3
      <3> HIDE DEF others
      <3> QED
        BY <2>4, <3>1, <3>2 DEF SeekEvents
    <2>6. Typed(due', Requests)
      BY <1>6, <1>8 DEF FirstRetry
    <2> QED
      BY <1>8, <2>2, <2>3, <2>5, <2>6
         DEF FirstRetry, PlayerTypes, FlagsTyped, HistoryTyped
  <1>9. CASE RetryAgain(id, event, timeouts)
    <2>1. tries[id] \in Counts /\ tries[id] # None /\ tries[id] # -1
      BY <1>2, <1>9, RequestTyped DEF RetryAgain, SeekFails
    <2>2. \A m \in Nat : \A n \in (-1)..m : n # -1 => n - 1 \in (-1)..m
      OBVIOUS
    <2>3. tries[id] - 1 \in Counts
      BY <2>1, <2>2, PlayerAssumption DEF Counts
    <2>4. tries' = [tries EXCEPT ![id] = tries[id] - 1]
      BY <1>9 DEF RetryAgain
    <2>5. tries' \in Seq(Counts) /\ Len(tries') = Len(tries)
      BY <1>2, <2>3, <2>4, ExceptSeq
    <2>6. Typed(due', Requests) /\ onSeek' \in [SeekEvents -> Seq(Requests)]
      BY <1>3, <1>6, <1>9 DEF RetryAgain
    <2> QED
      BY <1>2, <1>9, <2>5, <2>6 DEF RetryAgain, PlayerTypes, FlagsTyped, HistoryTyped
  <1>10. CASE SeekOkay(id, timeouts)
    <2>1. tries' \in Seq(Counts) /\ Len(tries') = Len(tries)
      BY <1>2, <1>10, ExceptSeq DEF SeekOkay, Counts
    <2>2. timer' \in BOOLEAN /\ paused' \in BOOLEAN /\ heard' \in Seq(Marks)
      BY <1>10, MarksGrow DEF SeekOkay, Playing, PlayerTypes, FlagsTyped
    <2>3. seeking' \in BOOLEAN /\ ender' \in Requests \cup {None}
      BY <1>10 DEF SeekOkay
    <2>4. Typed(due', Requests) /\ onSeek' \in [SeekEvents -> Seq(Requests)]
          /\ isNewSrc' = isNewSrc
      BY <1>3, <1>10 DEF SeekOkay
    <2> QED
      BY <1>2, <2>1, <2>2, <2>3, <2>4
  <1> QED
    BY <1>8, <1>9, <1>10 DEF OnSeeked

LEMMA RetryTypes ==
    ASSUME PlayerTypes, Retry
    PROVE  PlayerTypes'
  <1> DEFINE id == Head(due[50])
             timeouts == Fired(50)
  <1>1. due[50] # << >> /\ due[50] \in Seq(Requests)
    BY DEF Retry, PlayerTypes, Typed
  <1>2. id \in Requests /\ Typed(timeouts, Requests)
    BY <1>1, HeadTyped, TypedFired DEF Delays
  <1>3. OnSeeked(id, id, timeouts) /\ CallsTyped(calls', Requests)
    BY DEF Retry, PlayerTypes
  <1> HIDE DEF id, timeouts
  <1> QED
    BY <1>2, <1>3, OnSeekedTypes

(* A batch that is called belongs to requests, and so does the next one. *)
LEMMA Batch ==
    ASSUME PlayerTypes, calls.listener \in {"canplay", "seek"}
    PROVE  /\ calls.left \in Seq(Requests) /\ calls.left # << >>
           /\ Head(calls.left) \in Requests /\ calls.last \in Requests
           /\ Next1 => CallsTyped(calls', Requests)
  <1>1. calls # Idle
    BY NoneIsNoNumber DEF Idle
  <1>2. /\ calls \in [listener : {"canplay", "seek"},
                      left : Seq(Requests), last : Requests]
        /\ calls.left # << >>
    BY <1>1 DEF PlayerTypes, CallsTyped
  <1>3. calls.left \in Seq(Requests) /\ calls.last \in Requests
    BY <1>2
  <1>4. Head(calls.left) \in Requests /\ Tail(calls.left) \in Seq(Requests)
    BY <1>2, <1>3, HeadTyped
  <1>5. Len(calls.left) # 1 => Tail(calls.left) # << >>
    <2> DEFINE rest == Tail(calls.left)
               n == Len(calls.left)
    <2>1. n \in Nat /\ Len(rest) = n - 1
      BY <1>2, <1>3, HeadTailProperties, LenProperties
    <2>2. rest = << >> => Len(rest) = 0
      BY <1>4, EmptySeq
    <2> HIDE DEF rest, n
    <2>3. n # 1 => rest # << >>
      BY <2>1, <2>2
    <2> QED
      BY <2>3 DEF rest, n
  <1>6. Next1 => CallsTyped(calls', Requests)
    BY <1>2, <1>4, <1>5 DEF Next1, CallsTyped
  <1> QED
    BY <1>2, <1>3, <1>4, <1>6

LEMMA CallReadyToSeekTypes ==
    ASSUME PlayerTypes, CallReadyToSeek
    PROVE  PlayerTypes'
  <1> DEFINE id == Head(calls.left)
             begin == asked[id].begin
  <1>1. UNCHANGED data /\ Requests' = Requests /\ UNCHANGED due
    BY SameData DEF CallReadyToSeek
  <1>2. id \in Requests /\ CallsTyped(calls', Requests)
    BY Batch DEF CallReadyToSeek
  <1>3. begin \in Times
    BY <1>2, RequestTyped DEF Records
  <1>4. \/ Continue(id) /\ Playing
        \/ Seek(id, begin, TRUE) /\ UNCHANGED seeking
    BY DEF CallReadyToSeek
  <1> HIDE DEF id, begin
  <1>5. ListenersTyped(onReady, onSeek, Requests') /\ onReady' \in Seq(Requests')
    BY <1>1, EmptyTyped DEF PlayerTypes, CallReadyToSeek
  <1>6. ListenersTyped(onReady', onSeek', Requests')
    BY <1>1, <1>2, <1>4, <1>5, ContinueOrSeekTypes
  <1>7. HistoryTyped(Requests)'
    BY <1>1, <1>2, <1>4
       DEF PlayerTypes, HistoryTyped, CallReadyToSeek, Continue, Seek
  <1>8. target' \in Times \cup {None}
    BY <1>3, <1>4 DEF PlayerTypes, SourceTyped, Continue, Seek
  <1>9. SourceTyped' /\ CountersTyped'
    BY <1>8 DEF PlayerTypes, SourceTyped, CountersTyped, CallReadyToSeek
  <1>10. seeking' \in BOOLEAN /\ timer' \in BOOLEAN /\ paused' \in BOOLEAN
    BY <1>4 DEF Continue, Playing, Seek, Pausing, PlayerTypes, FlagsTyped
  <1>11. FlagsTyped'
    BY <1>10 DEF PlayerTypes, FlagsTyped, CallReadyToSeek
  <1>12. heard' \in Seq(Marks)
    BY <1>4, MarksGrow DEF Playing, Seek
  <1> QED
    BY <1>1, <1>2, <1>6, <1>7, <1>9, <1>11, <1>12, SameData, SameDue
       DEF PlayerTypes

LEMMA CallSeekedTypes ==
    ASSUME PlayerTypes, CallSeeked
    PROVE  PlayerTypes'
  <1> DEFINE id == Head(calls.left)
             event == calls.last
  <1>1. id \in Requests /\ event \in Requests /\ CallsTyped(calls', Requests)
    BY Batch DEF CallSeeked
  <1>2. OnSeeked(id, event, due) /\ Typed(due, Requests)
    BY DEF CallSeeked, PlayerTypes
  <1> HIDE DEF id, event
  <1> QED
    BY <1>1, <1>2, OnSeekedTypes

LEMMA DispatchTypes ==
    ASSUME NEW S, NEW ids \in Seq(S), ids # << >>,
           NEW listener \in {"canplay", "seek"}, Dispatch(listener, ids)
    PROVE  CallsTyped(calls', S)
  BY HeadTyped DEF Dispatch, CallsTyped

LEMMA HearTypes ==
    ASSUME PlayerTypes,
           HearPlay \/ HearCanPlay \/ (\E e \in SeekEvents : HearSeekEvent(e))
    PROVE  PlayerTypes'
  <1>1. /\ UNCHANGED data /\ UNCHANGED <<onReady, onSeek>> /\ UNCHANGED due
        /\ UNCHANGED <<served, ender>> /\ UNCHANGED <<skips, queuing>>
    BY DEF HearPlay, HearCanPlay, HearSeekEvent, listeners, player, history
  <1>2. SourceTyped' /\ CountersTyped'
    BY DEF PlayerTypes, SourceTyped, CountersTyped, HearPlay, HearCanPlay,
           HearSeekEvent, player, element
  <1>3. heard' \in Seq(Marks)
    BY MarksGrow DEF HearPlay, HearCanPlay, HearSeekEvent, element
  <1>4. preload' \in BOOLEAN /\ paused' \in BOOLEAN
    BY DEF PlayerTypes, FlagsTyped, HearPlay, HearCanPlay, HearSeekEvent,
           element, listeners
  <1>5. FlagsTyped'
    BY <1>4 DEF PlayerTypes, FlagsTyped, HearPlay, HearCanPlay, HearSeekEvent,
           element, listeners, player, history
  <1>6. CallsTyped(calls', Requests)
    <2>1. CASE UNCHANGED calls
      BY <2>1 DEF PlayerTypes
    <2>2. CASE HearCanPlay /\ ~UNCHANGED calls
      BY <2>2, DispatchTypes DEF HearCanPlay, PlayerTypes, ListenersTyped
    <2>3. ASSUME NEW e \in SeekEvents, HearSeekEvent(e)
          PROVE  CallsTyped(calls', Requests)
      <3>1. onSeek[e] \in Seq(Requests) /\ onSeek[e] # << >>
        BY <2>3 DEF PlayerTypes, ListenersTyped, HearSeekEvent
      <3> QED
        BY <2>3, <3>1, DispatchTypes DEF HearSeekEvent
    <2> QED
      BY <2>1, <2>2, <2>3 DEF HearPlay
  <1>7. CallsTyped(calls', Requests')
    BY <1>1, <1>6, SameData
  <1> QED
    BY <1>1, <1>2, <1>3, <1>5, <1>7, SameData, SameListeners, SameHistory,
       SameDue DEF PlayerTypes

LEMMA ElementTypes ==
    ASSUME PlayerTypes, HearEnded \/ Tick \/ CanPlay \/ Land
    PROVE  PlayerTypes'
  <1>1. /\ UNCHANGED data /\ UNCHANGED <<onReady, onSeek>> /\ UNCHANGED due
        /\ UNCHANGED <<served, ender>> /\ UNCHANGED calls
    BY DEF HearEnded, Tick, CanPlay, Land, listeners, player, history
  <1>2. SourceTyped'
    BY DEF PlayerTypes, SourceTyped, HearEnded, Tick, CanPlay, Land,
           player, element
  <1>3. heard' \in Seq(Marks)
    BY MarksGrow DEF HearEnded, Tick, CanPlay, Land, element
  <1>4. /\ timer' \in BOOLEAN /\ paused' \in BOOLEAN /\ loading' \in BOOLEAN
    <2>1. CASE Tick
      <3>1. timer' \in BOOLEAN
        BY <2>1 DEF Tick
      <3> QED
        BY <2>1, <3>1 DEF PlayerTypes, FlagsTyped, Tick, element
    <2>2. CASE HearEnded \/ CanPlay \/ Land
      BY <2>2 DEF PlayerTypes, FlagsTyped, HearEnded, CanPlay, Land, player
    <2> QED
      BY <2>1, <2>2
  <1>5. FlagsTyped'
    BY <1>4 DEF PlayerTypes, FlagsTyped, HearEnded, Tick, CanPlay, Land,
           player, listeners, history
  <1>6. \A m, n \in Nat : n \in 0..m => /\ 0 \in 0..m
                                        /\ ~(n + 1 > m) => n + 1 \in 0..m
    OBVIOUS
  <1>7. CountersTyped'
    BY <1>6, PlayerAssumption DEF PlayerTypes, CountersTyped, HearEnded, Tick,
       CanPlay, Land, player
  <1> QED
    BY <1>1, <1>2, <1>3, <1>5, <1>7, SameData, SameListeners, SameCalls,
       SameHistory, SameDue DEF PlayerTypes

LEMMA StutterTypes ==
    ASSUME PlayerTypes, UNCHANGED vars
    PROVE  PlayerTypes'
  <1>1. /\ UNCHANGED data /\ UNCHANGED <<onReady, onSeek>> /\ UNCHANGED due
        /\ UNCHANGED <<served, ender>> /\ UNCHANGED calls
    BY DEF vars, listeners, history
  <1>2. SourceTyped' /\ CountersTyped' /\ heard' \in Seq(Marks)
    BY DEF PlayerTypes, SourceTyped, CountersTyped, vars, player, element
  <1>3. FlagsTyped'
    BY DEF PlayerTypes, FlagsTyped, vars, player, element, listeners, history
  <1> QED
    BY <1>1, <1>2, <1>3, SameData, SameListeners, SameCalls,
       SameHistory, SameDue DEF PlayerTypes

LEMMA StepTypes == PlayerTypes /\ [Next]_vars => PlayerTypes'
  <1> SUFFICES ASSUME PlayerTypes, [Next]_vars PROVE PlayerTypes'
    OBVIOUS
  <1>1. CASE Client
    BY <1>1, PlayFileTypes, PlayTypes, PauseTypes, ResetTypes DEF Client
  <1>2. CASE Timeouts
    BY <1>2, PlayFileAgainTypes, ClearOrLoadTypes, SetCurrentTimeTypes, RetryTypes
       DEF Timeouts
  <1>3. CASE Events
    BY <1>3, CallReadyToSeekTypes, CallSeekedTypes, HearTypes DEF Events
  <1>4. CASE HearEnded \/ Tick \/ CanPlay \/ Land
    BY <1>4, ElementTypes
  <1>5. CASE UNCHANGED vars
    BY <1>5, StutterTypes
  <1> QED
    BY <1>1, <1>2, <1>3, <1>4, <1>5 DEF Next

LEMMA TypesAreTypeOK == PlayerTypes => TypeOK
  <1> SUFFICES ASSUME PlayerTypes PROVE TypeOK
    OBVIOUS
  <1>1. DOMAIN tries = Requests /\ DOMAIN isNewSrc = Requests
    BY LenProperties DEF PlayerTypes, DataTyped, Requests
  <1>2. Range(tries) \subseteq Counts /\ Range(isNewSrc) \subseteq BOOLEAN
    BY <1>1, RequestTyped DEF Range
  <1>3. asked \in Seq([file : Files, begin : Times]) /\ heard \in Seq({"play", "canplay"})
    BY DEF PlayerTypes, DataTyped, Records, Marks
  <1>4. /\ onReady \in Seq(Requests)
        /\ onSeek \in [SeekEvents -> Seq(Requests)]
        /\ due[1] \in Seq({"clear", "load"})
        /\ \A d \in Delays \ {1} : due[d] \in Seq(Requests)
    BY DEF PlayerTypes, ListenersTyped, Typed, Jobs, Delays
  <1>5. {seeking, timer, preload, paused, loading, astray, hushed} \subseteq BOOLEAN
    BY DEF PlayerTypes, FlagsTyped
  <1>6. {served, ender} \subseteq Requests \cup {None}
    BY DEF PlayerTypes, HistoryTyped
  <1> QED
    BY <1>1, <1>2, <1>3, <1>4, <1>5, <1>6
       DEF PlayerTypes, SourceTyped, CountersTyped, TypeOK, Counts

(* Every variable has its type in every reachable state, whatever the      *)
(* files, the times and the limits: all handlers of AudioPlayer.           *)
THEOREM SpecTypes == Spec => []TypeOK
  BY InitTypes, StepTypes, TypesAreTypeOK, PTL DEF Spec

(***************************************************************************)
(* The phases of a request, as long as nothing was left behind: none is    *)
(* under way; it waits for the file to open; it listens for the end of its *)
(* seek; or it waits to look again.                                        *)
(***************************************************************************)
Clears(jobs) == \A i \in 1..Len(jobs) : jobs[i] = "clear"

ClearsThenLoad(jobs) ==
    /\ jobs # << >>
    /\ jobs[Len(jobs)] = "load"
    /\ \A i \in 1..(Len(jobs) - 1) : jobs[i] = "clear"

NoListener == \A e \in SeekEvents : onSeek[e] = << >>

Dispatching(listener) ==
    calls = [listener |-> listener, left |-> <<served>>, last |-> served]

Quiet ==
    /\ ~seeking /\ calls = Idle
    /\ ~preload /\ onReady = << >> /\ NoListener /\ due[50] = << >>
    /\ Clears(due[1])
    /\ cur # None => ender = served /\ due[1] = << >>

(* The file is not opened before its load, so nothing is heard of it; once *)
(* it is, the first thing heard is the play that starts the loading.       *)
FileOpens ==
    /\ due[1] # << >> => /\ ClearsThenLoad(due[1])
                         /\ ~loading /\ target = None
                         /\ ~Contains(heard, "canplay")
    /\ due[1] = << >> /\ preload => heard # << >> /\ Head(heard) = "play"

Opening ==
    /\ seeking /\ cur # None /\ served \in Requests
    /\ tries[served] = None /\ isNewSrc[served]
    /\ onReady = <<served>> /\ NoListener
    /\ due[50] = << >> /\ due[5] = << >>
    /\ FileOpens
    /\ \/ calls = Idle
       \/ Dispatching("canplay") /\ ~preload /\ due[1] = << >>

Listening ==
    /\ seeking /\ cur # None /\ served \in Requests
    /\ tries[served] \in {None, MAX_SEEK_RETRIES}
    /\ ~preload /\ onReady = << >> /\ due[50] = << >> /\ due[1] = << >>
    /\ \A e \in SeekEvents :
           onSeek[e] = IF e = SeekEvent(isNewSrc[served]) THEN <<served>> ELSE << >>
    /\ calls = Idle \/ Dispatching("seek")

Retrying ==
    /\ seeking /\ cur # None /\ served \in Requests
    /\ tries[served] \in (-1)..(MAX_SEEK_RETRIES - 1)
    /\ ~preload /\ onReady = << >> /\ NoListener
    /\ due[50] = <<served>> /\ due[1] = << >>
    /\ calls = Idle

PhaseInv == ~astray => Quiet \/ Opening \/ Listening \/ Retrying

(* A postponed request waits once, is not the one that was started last,   *)
(* and has not been tried.                                                 *)
Waiters == {id \in Requests : id # served /\ (~astray => tries[id] = None)}

Distinct(queue) ==
    \A i, j \in 1..Len(queue) : i # j => queue[i] # queue[j]

WaitingInv == due[20] \in Seq(Waiters) /\ Distinct(due[20])

(* Nothing wakes up that could play against a pause. *)
HushedInv == hushed /\ ~astray => ~seeking /\ due[20] = << >> /\ paused /\ ~timer

PlayerInv == PlayerTypes /\ PhaseInv /\ WaitingInv /\ HushedInv
-----------------------------------------------------------------------------
LEMMA ClearsLast ==
    ASSUME NEW jobs \in Seq(Jobs), Clears(jobs)
    PROVE  /\ Append(jobs, "clear") \in Seq(Jobs)
           /\ Clears(Append(jobs, "clear"))
  <1>1. "clear" \in Jobs /\ Len(jobs) \in Nat
    BY DEF Jobs
  <1>2. /\ Append(jobs, "clear") \in Seq(Jobs)
        /\ Len(Append(jobs, "clear")) = Len(jobs) + 1
        /\ \A i \in 1..Len(jobs) : Append(jobs, "clear")[i] = jobs[i]
        /\ Append(jobs, "clear")[Len(jobs) + 1] = "clear"
    BY <1>1, AppendProperties
  <1> DEFINE more == Append(jobs, "clear")
             n == Len(jobs)
  <1>3. \A i \in 1..(n + 1) : i \in 1..n \/ i = n + 1
    BY <1>1
  <1> HIDE DEF more
  <1>4. Clears(more)
    BY <1>2, <1>3 DEF Clears, more
  <1> QED
    BY <1>2, <1>4 DEF more

LEMMA LoadLast ==
    ASSUME NEW jobs \in Seq(Jobs), Clears(jobs)
    PROVE  ClearsThenLoad(Append(Append(jobs, "clear"), "load"))
  <1> DEFINE more == Append(jobs, "clear")
             all == Append(more, "load")
  <1>1. more \in Seq(Jobs) /\ Clears(more)
    BY ClearsLast
  <1>2. "load" \in Jobs
    BY DEF Jobs
  <1> HIDE DEF more
  <1>3. /\ all \in Seq(Jobs) /\ Len(more) \in Nat
        /\ Len(all) = Len(more) + 1
        /\ \A i \in 1..Len(more) : all[i] = more[i]
        /\ all[Len(more) + 1] = "load"
    BY <1>1, <1>2, AppendProperties
  <1>4. all # << >>
    BY <1>1, <1>2, AppendIsLast
  <1> HIDE DEF all
  <1>5. Len(all) - 1 = Len(more)
    BY <1>3
  <1>6. ClearsThenLoad(all)
    BY <1>1, <1>3, <1>4, <1>5 DEF ClearsThenLoad, Clears
  <1> QED
    BY <1>6 DEF all, more

LEMMA TailsOfJobs ==
    ASSUME NEW jobs \in Seq(Jobs), jobs # << >>
    PROVE  /\ Clears(jobs) => Head(jobs) = "clear" /\ Clears(Tail(jobs))
           /\ ClearsThenLoad(jobs) /\ Head(jobs) = "clear"
                  => ClearsThenLoad(Tail(jobs))
           /\ ClearsThenLoad(jobs) /\ Head(jobs) = "load"
                  => Tail(jobs) = << >>
  <1> DEFINE rest == Tail(jobs)
             n == Len(jobs)
  <1>1. /\ rest \in Seq(Jobs) /\ Len(rest) = n - 1 /\ n \in Nat
        /\ \A i \in 1..Len(rest) : rest[i] = jobs[i + 1]
        /\ Head(jobs) = jobs[1]
    BY HeadTailProperties, LenProperties
  <1>2. n > 0
    BY EmptySeq, LenProperties
  <1>3. rest = << >> <=> Len(rest) = 0
    BY <1>1, EmptySeq
  <1> HIDE DEF rest, n
  <1>4. \A i \in 1..Len(rest) : i + 1 \in 1..n
    BY <1>1
  <1>5. 1 \in 1..n
    BY <1>1, <1>2
  <1>6. Clears(jobs) => Head(jobs) = "clear" /\ Clears(rest)
    BY <1>1, <1>4, <1>5 DEF Clears, n
  <1>7. ASSUME ClearsThenLoad(jobs), Head(jobs) = "clear"
        PROVE  ClearsThenLoad(rest)
    <2>1. jobs[n] = "load" /\ \A i \in 1..(n - 1) : jobs[i] = "clear"
      BY <1>7 DEF ClearsThenLoad, n
    <2>2. n # 1
      BY <1>1, <1>7, <2>1
    <2>3. Len(rest) # 0 /\ Len(rest) \in 1..Len(rest) /\ Len(rest) + 1 = n
      BY <1>1, <1>2, <2>2
    <2>4. rest[Len(rest)] = "load"
      BY <1>1, <2>1, <2>3
    <2>5. \A i \in 1..(Len(rest) - 1) : i \in 1..Len(rest) /\ i + 1 \in 1..(n - 1)
      BY <1>1
    <2>6. \A i \in 1..(Len(rest) - 1) : rest[i] = "clear"
      BY <1>1, <2>1, <2>5
    <2> QED
      BY <1>3, <2>3, <2>4, <2>6 DEF ClearsThenLoad
  <1>8. ASSUME ClearsThenLoad(jobs), Head(jobs) = "load"
        PROVE  rest = << >>
    <2>1. \A i \in 1..(n - 1) : jobs[i] = "clear"
      BY <1>8 DEF ClearsThenLoad, n
    <2>2. n = 1
      BY <1>1, <1>2, <1>8, <2>1
    <2> QED
      BY <1>1, <1>3, <2>2
  <1> QED
    BY <1>6, <1>7, <1>8 DEF rest

LEMMA Heard ==
    ASSUME NEW marks \in Seq(Marks)
    PROVE  /\ ~Contains(<< >>, "canplay")
           /\ Contains(Append(marks, "play"), "canplay") => Contains(marks, "canplay")
           /\ marks # << >> /\ Contains(Tail(marks), "canplay")
                  => Contains(marks, "canplay")
           /\ marks # << >> /\ Head(marks) = "canplay" => Contains(marks, "canplay")
           /\ \A m \in Marks : Append(marks, m) # << >>
           /\ marks # << >> => \A m \in Marks : Head(Append(marks, m)) = Head(marks)
  <1>1. Len(marks) \in Nat
    OBVIOUS
  <1>2. ~Contains(<< >>, "canplay")
    BY DEF Contains
  <1>3. Contains(Append(marks, "play"), "canplay") => Contains(marks, "canplay")
    <2>1. /\ Len(Append(marks, "play")) = Len(marks) + 1
          /\ \A i \in 1..Len(marks) : Append(marks, "play")[i] = marks[i]
          /\ Append(marks, "play")[Len(marks) + 1] = "play"
      BY AppendProperties DEF Marks
    <2>2. \A i \in 1..(Len(marks) + 1) : i \in 1..Len(marks) \/ i = Len(marks) + 1
      BY <1>1
    <2> QED
      BY <2>1, <2>2 DEF Contains
  <1>4. marks # << >> /\ Contains(Tail(marks), "canplay")
            => Contains(marks, "canplay")
    <2> SUFFICES ASSUME marks # << >>, Contains(Tail(marks), "canplay")
                 PROVE  Contains(marks, "canplay")
      OBVIOUS
    <2> DEFINE rest == Tail(marks)
    <2>1. /\ Len(rest) = Len(marks) - 1
          /\ \A i \in 1..Len(rest) : rest[i] = marks[i + 1]
      BY HeadTailProperties
    <2>2. PICK i \in 1..Len(rest) : rest[i] = "canplay"
      BY DEF Contains
    <2> HIDE DEF rest
    <2>3. marks[i + 1] = "canplay" /\ i + 1 \in 1..Len(marks)
      BY <1>1, <2>1, <2>2
    <2> QED
      BY <2>3 DEF Contains
  <1>5. marks # << >> /\ Head(marks) = "canplay" => Contains(marks, "canplay")
    <2>1. marks # << >> => 1 \in 1..Len(marks) /\ Head(marks) = marks[1]
      BY EmptySeq, LenProperties, HeadTailProperties
    <2> QED
      BY <2>1 DEF Contains
  <1>6. \A m \in Marks : Append(marks, m) # << >>
    BY AppendIsLast
  <1>7. marks # << >> => \A m \in Marks : Head(Append(marks, m)) = Head(marks)
    BY HeadTailAppend
  <1> QED
    BY <1>2, <1>3, <1>4, <1>5, <1>6, <1>7

LEMMA InitPhase == Init => PhaseInv /\ WaitingInv /\ HushedInv
  <1> SUFFICES ASSUME Init PROVE PhaseInv /\ WaitingInv /\ HushedInv
    OBVIOUS
  <1>1. due[1] = << >> /\ due[20] = << >> /\ due[50] = << >>
    BY DEF Init, Delays
  <1>2. Clears(<< >>)
    BY DEF Clears
  <1>3. Quiet
    BY <1>1, <1>2 DEF Init, Quiet, NoListener
  <1>4. Distinct(<< >>)
    BY DEF Distinct
  <1>5. WaitingInv
    BY <1>1, <1>4, EmptyTyped DEF WaitingInv
  <1>6. HushedInv
    BY DEF HushedInv, Init
  <1> QED
    BY <1>3, <1>5, <1>6 DEF PhaseInv

(***************************************************************************)
(* The phase. Most steps touch the element only, or what waits.            *)
(***************************************************************************)
LEMMA PhaseStays ==
    ASSUME PlayerTypes, PhaseInv, astray' = astray,
           UNCHANGED <<cur, seeking, onReady, onSeek, calls, served, ender>>,
           due'[1] = due[1], due'[50] = due[50],
           due[5] = << >> => due'[5] = << >>,
           Requests \subseteq Requests',
           served \in Requests => /\ tries'[served] = tries[served]
                                  /\ isNewSrc'[served] = isNewSrc[served],
           due[5] = << >> /\ ~loading /\ target = None /\ ~Contains(heard, "canplay")
               => ~loading' /\ target' = None /\ ~Contains(heard', "canplay"),
           preload' => /\ preload
                       /\ heard # << >> /\ Head(heard) = "play"
                              => heard' # << >> /\ Head(heard') = "play"
    PROVE  PhaseInv'
  <1> SUFFICES ASSUME ~astray PROVE (Quiet \/ Opening \/ Listening \/ Retrying)'
    BY DEF PhaseInv
  <1>1. CASE Quiet
    BY <1>1 DEF Quiet, NoListener
  <1>2. CASE Opening
    <2>1. FileOpens'
      BY <1>2 DEF Opening, FileOpens
    <2>2. preload' => preload
      OBVIOUS
    <2>3. Opening'
      BY <1>2, <2>1, <2>2 DEF Opening, NoListener, Dispatching
    <2> QED
      BY <2>3
  <1>3. CASE Listening
    <2>1. Listening'
      BY <1>3 DEF Listening, Dispatching
    <2> QED
      BY <2>1
  <1>4. CASE Retrying
    <2>1. Retrying'
      BY <1>4 DEF Retrying, NoListener
    <2> QED
      BY <2>1
  <1> QED
    BY <1>1, <1>2, <1>3, <1>4 DEF PhaseInv

(* A request is started when none is under way. *)
LEMMA StartPhase ==
    ASSUME PlayerTypes, PhaseInv, ~seeking,
           NEW timeouts, Typed(timeouts, Requests),
           timeouts[1] = due[1], timeouts[5] = due[5], timeouts[50] = due[50],
           NEW id \in Requests', NEW request \in Records,
           tries'[id] = None, isNewSrc'[id] = (cur # request.file),
           calls' = calls, Start(id, request, timeouts)
    PROVE  PhaseInv'
  <1> SUFFICES ASSUME ~astray' PROVE (Quiet \/ Opening \/ Listening \/ Retrying)'
    BY DEF PhaseInv
  <1>1. ~astray /\ (cur # request.file => ~UnderWay)
    BY DEF Start
  <1>2. Quiet
    BY <1>1 DEF PhaseInv, Opening, Listening, Retrying
  <1>3. served' = id
    BY DEF Start
  <1>4. request.file # None
    BY PlayerAssumption DEF Records
  <1>5. CASE StartSameSrc(id, request)
    <2>1. cur = request.file /\ due' = timeouts
      BY <1>5 DEF Start, StartSameSrc
    <2>2. due'[1] = << >> /\ due'[50] = << >> /\ Clears(due'[1])
      BY <1>2, <1>4, <2>1 DEF Quiet, Clears
    <2>3. cur' = cur /\ ~preload' /\ onReady' = << >>
      BY <1>2, <1>5 DEF Quiet, StartSameSrc
    <2>4. CASE Continue(id) /\ seeking' = FALSE
      <3>1. Quiet'
        BY <1>2, <1>3, <2>2, <2>3, <2>4 DEF Quiet, NoListener, Continue
      <3> QED
        BY <3>1
    <2>5. CASE seeking' = TRUE /\ Seek(id, request.begin, FALSE)
      <3>1. \A e \in SeekEvents : onSeek[e] = << >>
        BY <1>2 DEF Quiet, NoListener
      <3>2. onSeek' = [onSeek EXCEPT !["timeupdate"] = Append(@, id)]
        BY <2>5 DEF Seek, SeekEvent
      <3>3. DOMAIN onSeek = SeekEvents
        BY DEF PlayerTypes, ListenersTyped
      <3>4. /\ onSeek'["timeupdate"] = Append(<< >>, id)
            /\ onSeek'["progress"] = << >>
        BY <3>1, <3>2, <3>3 DEF SeekEvents
      <3>5. Append(<< >>, id) = <<id>>
        OBVIOUS
      <3>6. ~isNewSrc'[id]
        BY <2>1
      <3>7. \A e \in SeekEvents : onSeek'[e] =
                IF e = SeekEvent(isNewSrc'[id]) THEN <<id>> ELSE << >>
        BY <3>4, <3>5, <3>6 DEF SeekEvents, SeekEvent
      <3>8. Listening'
        BY <1>2, <1>3, <1>4, <2>1, <2>2, <2>3, <2>5, <3>7 DEF Quiet, Listening
      <3> QED
        BY <3>8
    <2> QED
      BY <1>5, <2>4, <2>5 DEF StartSameSrc, Continue
  <1>6. CASE StartNewSrc(id, request)
    <2>1. cur # request.file /\ cur' = request.file /\ seeking' = TRUE
      BY <1>6 DEF StartNewSrc
    <2>2. due' = Set(Set(timeouts, 1, "clear"), 1, "load")
      BY <2>1 DEF Start, ClearAndLoad
    <2>3. /\ due'[1] = Append(Append(due[1], "clear"), "load")
          /\ due'[5] = due[5] /\ due'[50] = due[50]
      BY <2>2 DEF Set, Typed, Delays
    <2>4. ClearsThenLoad(due'[1])
      BY <1>2, <2>3, LoadLast DEF Quiet, PlayerTypes, Typed
    <2>5. due[5] = << >> /\ ~loading /\ target = None /\ ~Contains(heard, "canplay")
      BY <1>1, <2>1 DEF UnderWay
    <2>6. FileOpens'
      BY <1>6, <2>4, <2>5 DEF FileOpens, StartNewSrc, ClearsThenLoad
    <2>7. onReady' = <<id>> /\ onSeek' = onSeek
      BY <1>2, <1>6 DEF StartNewSrc, Quiet
    <2>8. Opening'
      BY <1>2, <1>3, <1>4, <2>1, <2>3, <2>5, <2>6, <2>7
         DEF Quiet, Opening, NoListener
    <2> QED
      BY <2>8
  <1> QED
    BY <1>5, <1>6 DEF Start

LEMMA PostponePhase ==
    ASSUME PlayerTypes, PhaseInv, NEW timeouts, Typed(timeouts, Requests),
           timeouts[1] = due[1], timeouts[5] = due[5], timeouts[50] = due[50],
           NEW id, Requests \subseteq Requests',
           served \in Requests => /\ tries'[served] = tries[served]
                                  /\ isNewSrc'[served] = isNewSrc[served],
           calls' = calls, Postpone(id, timeouts)
    PROVE  PhaseInv'
  <1>1. due'[1] = due[1] /\ due'[5] = due[5] /\ due'[50] = due[50]
    BY DEF Postpone, Set, Typed, Delays
  <1>2. UNCHANGED <<cur, seeking, onReady, onSeek, calls, served, ender, astray>>
    BY DEF Postpone, listeners
  <1>3. UNCHANGED <<loading, target, heard, preload>>
    BY DEF Postpone, listeners, element
  <1> QED
    BY <1>1, <1>2, <1>3, PhaseStays

LEMMA PlayFilePhase ==
    ASSUME PlayerTypes, PhaseInv, NEW file \in Files, NEW begin \in Times,
           PlayFile(file, begin)
    PROVE  PhaseInv'
  <1> DEFINE request == [file |-> file, begin |-> begin]
             id == Len(asked) + 1
  <1>1. /\ asked' = Append(asked, request) /\ tries' = Append(tries, None)
        /\ isNewSrc' = Append(isNewSrc, cur # file)
        /\ calls' = calls
    BY DEF PlayFile, Called
  <1>2. /\ Requests' = Requests \cup {id}
        /\ tries'[id] = None /\ isNewSrc'[id] = (cur # file)
        /\ \A r \in Requests : tries'[r] = tries[r] /\ isNewSrc'[r] = isNewSrc[r]
    BY <1>1, AskedGrows
  <1>3. Typed(due, Requests) /\ request \in Records
    BY DEF PlayerTypes, Records
  <1>4. /\ seeking => Postpone(id, due)
        /\ ~seeking => Start(id, request, due)
    BY DEF PlayFile
  <1>5. id \in Requests' /\ Requests \subseteq Requests' /\ request.file = file
    BY <1>2
  <1> HIDE DEF id, request
  <1>6. CASE seeking
    BY <1>1, <1>2, <1>3, <1>4, <1>5, <1>6, PostponePhase
  <1>7. CASE ~seeking
    BY <1>1, <1>2, <1>3, <1>4, <1>5, <1>7, StartPhase
  <1> QED
    BY <1>6, <1>7

LEMMA HeadWaits ==
    ASSUME PlayerTypes, WaitingInv, due[20] # << >>
    PROVE  /\ Head(due[20]) \in Requests
           /\ Head(due[20]) # served
           /\ ~astray => tries[Head(due[20])] = None
  <1>1. Head(due[20]) \in Waiters
    BY HeadTyped DEF WaitingInv
  <1> QED
    BY <1>1 DEF Waiters

LEMMA PlayFileAgainPhase ==
    ASSUME PlayerTypes, PhaseInv, WaitingInv, PlayFileAgain
    PROVE  PhaseInv'
  <1> DEFINE id == Head(due[20])
             timeouts == Fired(20)
  <1>1. due[20] # << >>
    BY DEF PlayFileAgain
  <1>2. id \in Requests /\ id # served /\ (~astray => tries[id] = None)
    BY <1>1, HeadWaits
  <1>3. Typed(timeouts, Requests)
    BY <1>1, TypedFired DEF Delays
  <1>4. asked[id] \in Records
    BY <1>2, RequestTyped
  <1>5. /\ isNewSrc' = [isNewSrc EXCEPT ![id] = cur # asked[id].file]
        /\ asked' = asked /\ tries' = tries /\ calls' = calls
    BY DEF PlayFileAgain
  <1>6. Requests' = Requests
    BY <1>5 DEF Requests
  <1>7. id \in DOMAIN isNewSrc
    BY <1>2, LenProperties DEF PlayerTypes, DataTyped, Requests
  <1>8. /\ isNewSrc'[id] = (cur # asked[id].file)
        /\ served \in Requests => isNewSrc'[served] = isNewSrc[served]
    BY <1>2, <1>5, <1>7
  <1>9. /\ timeouts[1] = due[1] /\ timeouts[5] = due[5]
        /\ timeouts[50] = due[50]
    BY DEF Fired, PlayerTypes, Typed, Delays
  <1>10. /\ seeking => Postpone(id, timeouts)
         /\ ~seeking => Start(id, asked[id], timeouts)
    BY DEF PlayFileAgain
  <1>11. astray => PhaseInv'
    <2>1. astray => astray'
      BY <1>10 DEF Postpone, Start
    <2> QED
      BY <2>1 DEF PhaseInv
  <1> HIDE DEF id, timeouts
  <1>12. CASE seeking
    BY <1>3, <1>5, <1>6, <1>8, <1>9, <1>10, <1>12, PostponePhase
  <1>13. CASE ~seeking /\ ~astray
    <2>1. tries'[id] = None /\ id \in Requests'
      BY <1>2, <1>5, <1>6, <1>13
    <2> QED
      BY <1>3, <1>4, <1>5, <1>8, <1>9, <1>10, <1>13, <2>1, StartPhase
  <1> QED
    BY <1>11, <1>12, <1>13

LEMMA PlayOrPausePhase ==
    ASSUME PlayerTypes, PhaseInv, Play \/ Pause
    PROVE  PhaseInv'
  <1>1. UNCHANGED <<cur, seeking, onReady, onSeek, calls, served, ender, astray>>
    BY DEF Play, Pause, Called, listeners
  <1>2. UNCHANGED due /\ UNCHANGED data /\ UNCHANGED <<preload, loading, target>>
    BY DEF Play, Pause, listeners
  <1>3. UNCHANGED <<asked, tries, isNewSrc>> /\ Requests' = Requests
    BY <1>2, SameData DEF data
  <1>4. heard' = heard \/ heard' = Append(heard, "play")
    BY DEF Play, Playing, Pause
  <1>5. heard \in Seq(Marks) /\ "play" \in Marks
    BY DEF PlayerTypes, Marks
  <1> DEFINE longer == Append(heard, "play")
  <1>6. /\ ~Contains(heard, "canplay") => ~Contains(longer, "canplay")
        /\ longer # << >>
        /\ heard # << >> => Head(longer) = Head(heard)
    BY <1>5, Heard
  <1>7. heard' = heard \/ heard' = longer
    BY <1>4
  <1> HIDE DEF longer
  <1>8. /\ ~Contains(heard, "canplay") => ~Contains(heard', "canplay")
        /\ heard # << >> /\ Head(heard) = "play"
               => heard' # << >> /\ Head(heard') = "play"
    BY <1>6, <1>7
  <1> QED
    BY <1>1, <1>2, <1>3, <1>8, PhaseStays

LEMMA SetCurrentTimePhase ==
    ASSUME PlayerTypes, PhaseInv, SetCurrentTime
    PROVE  PhaseInv'
  <1>1. UNCHANGED <<cur, seeking, onReady, onSeek, calls, served, ender, astray>>
    BY DEF SetCurrentTime, listeners, player, history
  <1>2. UNCHANGED data /\ UNCHANGED <<preload, loading, heard>>
    BY DEF SetCurrentTime, listeners
  <1>3. UNCHANGED <<asked, tries, isNewSrc>> /\ Requests' = Requests
    BY <1>2, SameData DEF data
  <1>4. due[5] # << >> /\ due'[1] = due[1] /\ due'[50] = due[50]
    BY DEF SetCurrentTime, Fired, PlayerTypes, Typed, Delays
  <1> QED
    BY <1>1, <1>2, <1>3, <1>4, PhaseStays

LEMMA ElementPhase ==
    ASSUME PlayerTypes, PhaseInv,
           HearPlay \/ HearEnded \/ Tick \/ CanPlay \/ Land \/ UNCHANGED vars
    PROVE  PhaseInv'
  <1>1. UNCHANGED <<cur, seeking, onReady, onSeek, calls, served, ender, astray>>
    BY DEF HearPlay, HearEnded, Tick, CanPlay, Land, listeners, player, history,
           vars
  <1>2. UNCHANGED data /\ UNCHANGED due
    BY DEF HearPlay, HearEnded, Tick, CanPlay, Land, vars
  <1>3. UNCHANGED <<asked, tries, isNewSrc>> /\ Requests' = Requests
    BY <1>2, SameData DEF data
  <1>4. heard \in Seq(Marks) /\ "canplay" \in Marks
    BY DEF PlayerTypes, Marks
  <1>5. ~loading /\ target = None /\ ~Contains(heard, "canplay")
            => ~loading' /\ target' = None /\ ~Contains(heard', "canplay")
    BY <1>4, Heard DEF HearPlay, HearEnded, Tick, CanPlay, Land, element, vars
  <1>6. preload' => /\ preload
                    /\ heard # << >> /\ Head(heard) = "play"
                           => heard' # << >> /\ Head(heard') = "play"
    <2>1. CASE HearPlay
      BY <2>1 DEF HearPlay
    <2>2. CASE HearEnded \/ Tick \/ UNCHANGED vars
      BY <2>2 DEF HearEnded, Tick, element, listeners, vars
    <2>3. CASE CanPlay \/ Land
      <3> DEFINE longer == Append(heard, "canplay")
      <3>1. heard' = heard \/ heard' = longer
        BY <2>3 DEF CanPlay, Land
      <3>2. longer # << >> /\ (heard # << >> => Head(longer) = Head(heard))
        BY <1>4, Heard
      <3>3. preload' = preload
        BY <2>3 DEF CanPlay, Land, listeners
      <3> HIDE DEF longer
      <3> QED
        BY <3>1, <3>2, <3>3
    <2> QED
      BY <2>1, <2>2, <2>3
  <1> QED
    BY <1>1, <1>2, <1>3, <1>5, <1>6, PhaseStays

(* reset() with something under way leaves it behind. *)
LEMMA ResetPhase ==
    ASSUME PlayerTypes, PhaseInv, Reset
    PROVE  PhaseInv'
  <1> SUFFICES ASSUME ~astray' PROVE (Quiet \/ Opening \/ Listening \/ Retrying)'
    BY DEF PhaseInv
  <1>1. ~astray /\ ~UnderWay
    BY DEF Reset
  <1>2. ~Opening
    <2>1. Opening => onReady # << >>
      BY DEF Opening
    <2> QED
      BY <1>1, <2>1 DEF UnderWay
  <1>3. ~Listening
    <2>1. ASSUME Listening PROVE FALSE
      <3> DEFINE e == SeekEvent(isNewSrc[served])
      <3>1. e \in SeekEvents
        BY DEF SeekEvents, SeekEvent
      <3>2. onSeek[e] = <<served>> /\ <<served>> # << >>
        BY <2>1, <3>1 DEF Listening
      <3> HIDE DEF e
      <3> QED
        BY <1>1, <3>1, <3>2 DEF UnderWay
    <2> QED
      BY <2>1
  <1>4. <<served>> # << >>
    OBVIOUS
  <1>5. Quiet
    BY <1>1, <1>2, <1>3, <1>4 DEF PhaseInv, Retrying, UnderWay
  <1>6. due' = Set(due, 1, "clear") /\ DOMAIN due = Delays /\ due[1] \in Seq(Jobs)
    BY DEF Reset, PlayerTypes, Typed
  <1>7. due'[1] = Append(due[1], "clear") /\ due'[50] = due[50]
    BY <1>6 DEF Set, Delays
  <1>8. Clears(due'[1])
    BY <1>5, <1>6, <1>7, ClearsLast DEF Quiet
  <1>9. Quiet'
    BY <1>5, <1>7, <1>8 DEF Reset, Called, Quiet, NoListener, listeners
  <1> QED
    BY <1>9

LEMMA JobsLeft ==
    ASSUME PlayerTypes, due[1] # << >>, due' = Fired(1)
    PROVE  /\ due[1] \in Seq(Jobs)
           /\ due'[1] = Tail(due[1])
           /\ due'[5] = due[5] /\ due'[50] = due[50]
           /\ due'[20] = due[20]
  BY DEF PlayerTypes, Typed, Fired, Delays

LEMMA ClearPhase ==
    ASSUME PlayerTypes, PhaseInv, Clear
    PROVE  PhaseInv'
  <1>1. due[1] # << >> /\ Head(due[1]) = "clear" /\ due' = Fired(1)
    BY DEF Clear
  <1>2. /\ UNCHANGED <<cur, seeking, onReady, onSeek, calls, served, ender, astray>>
        /\ UNCHANGED <<asked, tries, isNewSrc>> /\ UNCHANGED preload
    BY DEF Clear, player, listeners, history, data
  <1>3. heard' = << >> /\ target' = None /\ loading' = FALSE
    BY DEF Clear, Loaded
  <1>4. due[1] \in Seq(Jobs) /\ due'[1] = Tail(due[1])
        /\ due'[5] = due[5] /\ due'[50] = due[50]
    BY <1>1, JobsLeft
  <1> SUFFICES ASSUME ~astray PROVE (Quiet \/ Opening \/ Listening \/ Retrying)'
    BY <1>2 DEF PhaseInv
  <1>5. CASE Quiet
    <2>1. Clears(due'[1])
      BY <1>1, <1>4, <1>5, TailsOfJobs DEF Quiet
    <2>2. Quiet'
      BY <1>1, <1>2, <1>4, <1>5, <2>1 DEF Quiet, NoListener
    <2> QED
      BY <2>2
  <1>6. CASE Opening
    <2>1. ClearsThenLoad(due'[1])
      BY <1>1, <1>4, <1>6, TailsOfJobs DEF Opening, FileOpens
    <2>2. due'[1] # << >>
      BY <2>1 DEF ClearsThenLoad
    <2>3. ~Contains(<< >>, "canplay")
      BY DEF Contains
    <2>4. FileOpens'
      BY <1>3, <2>1, <2>2, <2>3 DEF FileOpens
    <2>5. calls = Idle
      BY <1>1, <1>6 DEF Opening
    <2>6. Requests' = Requests
      BY <1>2 DEF Requests
    <2>7. Opening'
      BY <1>2, <1>4, <1>6, <2>4, <2>5, <2>6 DEF Opening, NoListener
    <2> QED
      BY <2>7
  <1> QED
    BY <1>1, <1>5, <1>6 DEF PhaseInv, Listening, Retrying

LEMMA LoadPhase ==
    ASSUME PlayerTypes, PhaseInv, Load
    PROVE  PhaseInv'
  <1>1. due[1] # << >> /\ Head(due[1]) = "load" /\ due' = Fired(1) /\ calls = Idle
    BY DEF Load
  <1>2. /\ UNCHANGED <<cur, seeking, onReady, onSeek, calls, served, ender, astray>>
        /\ UNCHANGED <<asked, tries, isNewSrc>> /\ UNCHANGED preload
    BY DEF Load, listeners, history, data
  <1>3. due[1] \in Seq(Jobs) /\ due'[1] = Tail(due[1])
        /\ due'[5] = due[5] /\ due'[50] = due[50]
    BY <1>1, JobsLeft
  <1> SUFFICES ASSUME ~astray PROVE (Quiet \/ Opening \/ Listening \/ Retrying)'
    BY <1>2 DEF PhaseInv
  <1>4. ~Quiet
    BY <1>1, <1>3, TailsOfJobs DEF Quiet
  <1>5. CASE Opening
    <2>1. due'[1] = << >>
      BY <1>1, <1>3, <1>5, TailsOfJobs DEF Opening, FileOpens
    <2>2. heard' = <<"play">>
      BY <1>5 DEF Load, Opening
    <2>3. heard' # << >> /\ Head(heard') = "play"
      BY <2>2
    <2>4. FileOpens'
      BY <2>1, <2>3 DEF FileOpens
    <2>5. Requests' = Requests
      BY <1>2 DEF Requests
    <2>6. Opening'
      BY <1>1, <1>2, <1>3, <1>5, <2>4, <2>5 DEF Opening, NoListener
    <2> QED
      BY <2>6
  <1> QED
    BY <1>1, <1>4, <1>5 DEF PhaseInv, Listening, Retrying

(* The file can be played: the seek begins, or is not needed. *)
LEMMA CallReadyToSeekPhase ==
    ASSUME PlayerTypes, PhaseInv, CallReadyToSeek
    PROVE  PhaseInv'
  <1>1. /\ UNCHANGED <<cur, due, preload, served, astray>>
        /\ UNCHANGED <<asked, tries, isNewSrc>>
        /\ onReady' = << >>
    BY DEF CallReadyToSeek, data
  <1> SUFFICES ASSUME ~astray PROVE (Quiet \/ Opening \/ Listening \/ Retrying)'
    BY <1>1 DEF PhaseInv
  <1>2. calls.listener = "canplay"
    BY DEF CallReadyToSeek
  <1>3. calls # Idle
    BY <1>2, NoneIsNoNumber DEF Idle
  <1>4. Opening /\ Dispatching("canplay") /\ ~preload /\ due[1] = << >>
    <2>1. ~Dispatching("seek")
      BY <1>2 DEF Dispatching
    <2> QED
      BY <1>3, <2>1 DEF PhaseInv, Quiet, Opening, Listening, Retrying
  <1>5. calls.left = <<served>>
    BY <1>4 DEF Dispatching
  <1>6. Head(calls.left) = served /\ calls' = Idle
    BY <1>5 DEF CallReadyToSeek, Next1
  <1>7. \/ Continue(served)
        \/ Seek(served, asked[served].begin, TRUE) /\ UNCHANGED seeking
    BY <1>6 DEF CallReadyToSeek
  <1>8. CASE Continue(served)
    <2>1. Clears(due'[1])
      BY <1>1, <1>4 DEF Clears
    <2>2. Quiet'
      BY <1>1, <1>4, <1>6, <1>8, <2>1 DEF Quiet, Opening, NoListener, Continue
    <2> QED
      BY <2>2
  <1>9. CASE Seek(served, asked[served].begin, TRUE) /\ UNCHANGED seeking
    <2>1. \A e \in SeekEvents : onSeek[e] = << >>
      BY <1>4 DEF Opening, NoListener
    <2>2. DOMAIN onSeek = SeekEvents
      BY DEF PlayerTypes, ListenersTyped
    <2>3. onSeek' = [onSeek EXCEPT !["progress"] = Append(@, served)]
      BY <1>9 DEF Seek, SeekEvent
    <2>4. /\ onSeek'["progress"] = Append(<< >>, served)
          /\ onSeek'["timeupdate"] = << >>
      BY <2>1, <2>2, <2>3 DEF SeekEvents
    <2>5. Append(<< >>, served) = <<served>>
      OBVIOUS
    <2>6. isNewSrc[served]
      BY <1>4 DEF Opening
    <2>7. \A e \in SeekEvents : onSeek'[e] =
              IF e = SeekEvent(isNewSrc[served]) THEN <<served>> ELSE << >>
      BY <2>4, <2>5, <2>6 DEF SeekEvents, SeekEvent
    <2>8. Requests' = Requests
      BY <1>1 DEF Requests
    <2>9. Listening'
      BY <1>1, <1>4, <1>6, <1>9, <2>7, <2>8 DEF Opening, Listening
    <2> QED
      BY <2>9
  <1> QED
    BY <1>7, <1>8, <1>9

LEMMA HearCanPlayPhase ==
    ASSUME PlayerTypes, PhaseInv, HearCanPlay
    PROVE  PhaseInv'
  <1>1. /\ UNCHANGED <<cur, seeking, onReady, onSeek, served, ender, astray>>
        /\ UNCHANGED <<asked, tries, isNewSrc>>
        /\ UNCHANGED <<due, preload, loading, target>>
        /\ calls = Idle /\ heard # << >> /\ Head(heard) = "canplay"
        /\ heard' = Tail(heard)
    BY DEF HearCanPlay, player, listeners, history, data
  <1>2. Requests' = Requests
    BY <1>1 DEF Requests
  <1>3. heard \in Seq(Marks)
    BY DEF PlayerTypes
  <1>4. Contains(heard, "canplay")
    BY <1>1, <1>3, Heard
  <1>5. CASE Opening /\ ~astray
    <2>1. due[1] = << >> /\ ~preload
      BY <1>1, <1>4, <1>5 DEF Opening, FileOpens
    <2>2. onReady = <<served>> /\ <<served>> # << >> /\ Last(<<served>>) = served
      BY <1>5 DEF Opening, Last
    <2>3. Dispatch("canplay", onReady)
      BY <2>2 DEF HearCanPlay
    <2>4. Dispatching("canplay")'
      BY <1>1, <2>2, <2>3 DEF Dispatch, Dispatching
    <2>5. FileOpens'
      BY <1>1, <2>1 DEF FileOpens
    <2>6. Opening'
      BY <1>1, <1>2, <1>5, <2>1, <2>4, <2>5 DEF Opening, NoListener
    <2> QED
      BY <2>6 DEF PhaseInv
  <1>6. CASE ~Opening /\ ~astray
    <2>1. onReady = << >> /\ ~preload
      BY <1>6 DEF PhaseInv, Quiet, Listening, Retrying
    <2>2. calls' = calls
      BY <2>1 DEF HearCanPlay
    <2> QED
      BY <1>1, <1>2, <1>4, <2>1, <2>2, PhaseStays
  <1>7. CASE astray
    BY <1>1, <1>7 DEF PhaseInv
  <1> QED
    BY <1>5, <1>6, <1>7

LEMMA HearSeekEventPhase ==
    ASSUME PlayerTypes, PhaseInv, NEW e \in SeekEvents, HearSeekEvent(e)
    PROVE  PhaseInv'
  <1>1. /\ UNCHANGED <<cur, seeking, onReady, onSeek, served, ender, astray>>
        /\ UNCHANGED <<asked, tries, isNewSrc>> /\ UNCHANGED <<due, preload>>
        /\ onSeek[e] # << >> /\ Dispatch("seek", onSeek[e])
    BY DEF HearSeekEvent, player, listeners, history, data
  <1> SUFFICES ASSUME ~astray PROVE (Quiet \/ Opening \/ Listening \/ Retrying)'
    BY <1>1 DEF PhaseInv
  <1>2. Listening
    BY <1>1 DEF PhaseInv, Quiet, Opening, Retrying, NoListener
  <1>3. onSeek[e] = <<served>> /\ Last(<<served>>) = served
    BY <1>1, <1>2 DEF Listening, Last
  <1>4. Dispatching("seek")'
    BY <1>1, <1>3 DEF Dispatch, Dispatching
  <1>5. Requests' = Requests
    BY <1>1 DEF Requests
  <1>6. Listening'
    BY <1>1, <1>2, <1>4, <1>5 DEF Listening
  <1> QED
    BY <1>6

(* onSeeked, for the request started last and with its listener taken off: *)
(* it listens again, waits to look again, or is over.                      *)
LEMMA OnSeekedPhase ==
    ASSUME PlayerTypes, ~astray, seeking, cur # None, served \in Requests,
           ~preload, onReady = << >>,
           \A e \in SeekEvents : Unlistened(served)[e] = << >>,
           NEW timeouts, Typed(timeouts, Requests),
           timeouts[1] = << >>, timeouts[50] = << >>,
           calls' = Idle, OnSeeked(served, served, timeouts)
    PROVE  (Quiet \/ Listening \/ Retrying)'
  <1>1. /\ UNCHANGED <<asked, cur, preload, onReady, served, astray>>
        /\ Requests' = Requests
    BY DEF OnSeeked, Requests
  <1>2. served \in DOMAIN tries /\ served \in DOMAIN isNewSrc
    BY LenProperties DEF PlayerTypes, DataTyped, Requests
  <1>3. tries[served] \in Counts
    BY RequestTyped
  <1>4. Unlistened(served) \in [SeekEvents -> Seq(Requests)]
    BY UnlistenedTyped
  <1>5. DOMAIN timeouts = Delays
    BY DEF Typed
  <1> DEFINE others == Unlistened(served)
  <1>6. DOMAIN others = SeekEvents /\ \A e \in SeekEvents : others[e] = << >>
    BY <1>4
  <1>7. CASE FirstRetry(served, served, timeouts)
    <2>1. onSeek' = [others EXCEPT !["timeupdate"] = Append(@, served)]
      BY <1>7 DEF FirstRetry
    <2> HIDE DEF others
    <2>2. /\ onSeek'["timeupdate"] = Append(<< >>, served)
          /\ onSeek'["progress"] = << >>
      BY <1>6, <2>1 DEF SeekEvents
    <2>3. Append(<< >>, served) = <<served>>
      OBVIOUS
    <2>4. tries'[served] = MAX_SEEK_RETRIES /\ isNewSrc'[served] = FALSE
          /\ seeking' = seeking
      BY <1>2, <1>7 DEF FirstRetry
    <2>5. \A e \in SeekEvents : onSeek'[e] =
              IF e = SeekEvent(isNewSrc'[served]) THEN <<served>> ELSE << >>
      BY <2>2, <2>3, <2>4 DEF SeekEvents, SeekEvent
    <2>6. due'[1] = << >> /\ due'[50] = << >>
      BY <1>5, <1>7 DEF FirstRetry, Set, Delays
    <2>7. Listening'
      BY <1>1, <2>4, <2>5, <2>6 DEF Listening
    <2> QED
      BY <2>7
  <1>8. CASE RetryAgain(served, served, timeouts)
    <2>1. tries[served] # None /\ tries[served] # -1
      BY <1>8 DEF RetryAgain, SeekFails
    <2>2. tries'[served] = tries[served] - 1 /\ seeking' = seeking
      BY <1>2, <1>8 DEF RetryAgain
    <2>3. \A m \in Nat : \A n \in (-1)..m : n # -1 => n - 1 \in (-1)..(m - 1)
      OBVIOUS
    <2>4. tries'[served] \in (-1)..(MAX_SEEK_RETRIES - 1)
      BY <1>3, <2>1, <2>2, <2>3, PlayerAssumption DEF Counts
    <2>5. due' = Set(Set(timeouts, 50, served), 5, served)
      BY <1>8 DEF RetryAgain
    <2>6. due'[1] = << >> /\ due'[50] = Append(<< >>, served)
      BY <1>5, <2>5 DEF Set, Delays
    <2>7. Append(<< >>, served) = <<served>>
      OBVIOUS
    <2>8. NoListener'
      BY <1>6, <1>8 DEF RetryAgain, NoListener
    <2>9. Retrying'
      BY <1>1, <2>2, <2>4, <2>6, <2>7, <2>8 DEF Retrying
    <2> QED
      BY <2>9
  <1>9. CASE SeekOkay(served, timeouts)
    <2>1. NoListener'
      BY <1>6, <1>9 DEF SeekOkay, NoListener
    <2>2. due' = timeouts /\ ender' = served /\ seeking' = FALSE
      BY <1>9 DEF SeekOkay
    <2>3. Clears(due'[1])
      BY <2>2 DEF Clears
    <2>4. Quiet'
      BY <1>1, <2>1, <2>2, <2>3 DEF Quiet
    <2> QED
      BY <2>4
  <1> QED
    BY <1>7, <1>8, <1>9 DEF OnSeeked

LEMMA RetryPhase ==
    ASSUME PlayerTypes, PhaseInv, Retry
    PROVE  PhaseInv'
  <1> DEFINE id == Head(due[50])
             timeouts == Fired(50)
  <1>1. OnSeeked(id, id, timeouts) /\ due[50] # << >> /\ calls' = Idle
    BY DEF Retry
  <1> SUFFICES ASSUME ~astray PROVE (Quiet \/ Opening \/ Listening \/ Retrying)'
    BY <1>1 DEF PhaseInv, OnSeeked
  <1>2. Retrying
    BY <1>1 DEF PhaseInv, Quiet, Opening, Listening
  <1>3. id = served
    BY <1>2 DEF Retrying
  <1>4. Typed(timeouts, Requests)
    BY <1>1, TypedFired DEF Delays
  <1>5. timeouts[1] = due[1] /\ timeouts[50] = Tail(due[50])
    BY DEF Fired, PlayerTypes, Typed, Delays
  <1>6. Tail(<<served>>) = << >>
    OBVIOUS
  <1>7. timeouts[1] = << >> /\ timeouts[50] = << >>
    BY <1>2, <1>5, <1>6 DEF Retrying
  <1>8. tries[served] # None /\ tries[served] # MAX_SEEK_RETRIES
    <2>1. \A m \in Nat : \A n \in (-1)..(m - 1) : n \in Int /\ n # m
      OBVIOUS
    <2> QED
      BY <1>2, <2>1, NoneIsNoNumber, PlayerAssumption DEF Retrying
  <1>9. \A e \in SeekEvents : Unlistened(served)[e] = << >>
    BY <1>2, <1>8 DEF Unlistened, Retrying, NoListener
  <1>10. /\ seeking /\ cur # None /\ served \in Requests
         /\ ~preload /\ onReady = << >>
    BY <1>2 DEF Retrying
  <1>11. OnSeeked(served, served, timeouts)
    BY <1>1, <1>3
  <1> HIDE DEF id, timeouts
  <1> QED
    BY <1>1, <1>4, <1>7, <1>9, <1>10, <1>11, OnSeekedPhase

LEMMA CallSeekedPhase ==
    ASSUME PlayerTypes, PhaseInv, CallSeeked
    PROVE  PhaseInv'
  <1>1. OnSeeked(Head(calls.left), calls.last, due) /\ Next1
        /\ calls.listener = "seek"
    BY DEF CallSeeked
  <1> SUFFICES ASSUME ~astray PROVE (Quiet \/ Opening \/ Listening \/ Retrying)'
    BY <1>1 DEF PhaseInv, OnSeeked
  <1>2. calls # Idle /\ ~Dispatching("canplay")
    BY <1>1, NoneIsNoNumber DEF Idle, Dispatching
  <1>3. Listening /\ Dispatching("seek")
    BY <1>2 DEF PhaseInv, Quiet, Opening, Listening, Retrying
  <1>4. calls.left = <<served>> /\ calls.last = served
    BY <1>3 DEF Dispatching
  <1>5. OnSeeked(served, served, due) /\ calls' = Idle
    BY <1>1, <1>4 DEF Next1
  <1>6. /\ seeking /\ cur # None /\ served \in Requests
        /\ ~preload /\ onReady = << >> /\ due[1] = << >> /\ due[50] = << >>
        /\ tries[served] \in {None, MAX_SEEK_RETRIES}
    BY <1>3 DEF Listening
  <1>7. DOMAIN onSeek = SeekEvents /\ Typed(due, Requests)
    BY DEF PlayerTypes, ListenersTyped
  <1>8. Unlistened(served)
            = [onSeek EXCEPT ![SeekEvent(isNewSrc[served])] = << >>]
    BY <1>6 DEF Unlistened
  <1>9. \A e \in SeekEvents : Unlistened(served)[e] = << >>
    BY <1>3, <1>7, <1>8 DEF Listening
  <1> QED
    BY <1>5, <1>6, <1>7, <1>9, OnSeekedPhase

LEMMA StepPhase == PlayerTypes /\ PhaseInv /\ WaitingInv /\ [Next]_vars => PhaseInv'
  <1> SUFFICES ASSUME PlayerTypes, PhaseInv, WaitingInv, [Next]_vars
               PROVE  PhaseInv'
    OBVIOUS
  <1>1. CASE Client
    BY <1>1, PlayFilePhase, PlayOrPausePhase, ResetPhase DEF Client
  <1>2. CASE Timeouts
    BY <1>2, PlayFileAgainPhase, ClearPhase, LoadPhase, SetCurrentTimePhase,
       RetryPhase DEF Timeouts
  <1>3. CASE Events
    BY <1>3, CallReadyToSeekPhase, CallSeekedPhase, ElementPhase,
       HearCanPlayPhase, HearSeekEventPhase DEF Events
  <1>4. CASE HearEnded \/ Tick \/ CanPlay \/ Land
    BY <1>4, ElementPhase
  <1>5. CASE UNCHANGED vars
    BY <1>5, ElementPhase
  <1> QED
    BY <1>1, <1>2, <1>3, <1>4, <1>5 DEF Next

(***************************************************************************)
(* What waits.                                                             *)
(***************************************************************************)
LEMMA TailIsDistinct ==
    ASSUME NEW S, NEW queue \in Seq(S), queue # << >>, Distinct(queue)
    PROVE  /\ Head(queue) \in S
           /\ Tail(queue) \in Seq(S \ {Head(queue)})
           /\ Distinct(Tail(queue))
  <1> DEFINE rest == Tail(queue)
             n == Len(queue)
  <1>1. /\ rest \in Seq(S) /\ Len(rest) = n - 1 /\ n \in Nat
        /\ \A i \in 1..Len(rest) : rest[i] = queue[i + 1]
        /\ Head(queue) = queue[1] /\ Head(queue) \in S
    BY HeadTyped, HeadTailProperties, LenProperties
  <1>2. n > 0
    BY EmptySeq, LenProperties
  <1>3. \A i, j \in 1..n : i # j => queue[i] # queue[j]
    BY DEF Distinct
  <1> HIDE DEF rest, n
  <1>4. \A i \in 1..Len(rest) : i + 1 \in 1..n /\ i + 1 # 1 /\ 1 \in 1..n /\ i \in Int
    BY <1>1, <1>2
  <1>5. \A i \in 1..Len(rest) : rest[i] # Head(queue)
    BY <1>1, <1>3, <1>4
  <1>6. \A i \in 1..Len(rest) : rest[i] \in S \ {Head(queue)}
    BY <1>1, <1>5, ElementOfSeq
  <1>7. rest \in Seq(S \ {Head(queue)})
    <2>1. Len(rest) \in Nat /\ rest \in [1..Len(rest) -> S]
      BY <1>1, LenProperties
    <2>2. rest \in [1..Len(rest) -> S \ {Head(queue)}]
      BY <1>6, <2>1
    <2> QED
      BY <2>1, <2>2, SeqDef
  <1>8. \A i, j \in Int : i # j => i + 1 # j + 1
    OBVIOUS
  <1>9. Distinct(rest)
    BY <1>1, <1>3, <1>4, <1>8 DEF Distinct
  <1> QED
    BY <1>1, <1>7, <1>9 DEF rest

LEMMA AppendIsDistinct ==
    ASSUME NEW S, NEW queue \in Seq(S), Distinct(queue), NEW id, id \notin S
    PROVE  Distinct(Append(queue, id))
  <1> DEFINE longer == Append(queue, id)
             n == Len(queue)
  <1>1. queue \in Seq(S \cup {id}) /\ n \in Nat
    BY SeqWidens, LenProperties
  <1>2. /\ Len(longer) = n + 1
        /\ \A i \in 1..n : longer[i] = queue[i]
        /\ longer[n + 1] = id
    BY <1>1, AppendProperties
  <1>3. \A i \in 1..n : queue[i] # id
    BY ElementOfSeq
  <1>4. \A i \in 1..(n + 1) : i \in 1..n \/ i = n + 1
    BY <1>1
  <1>5. \A i, j \in 1..n : i # j => queue[i] # queue[j]
    BY DEF Distinct
  <1> HIDE DEF longer, n
  <1>6. \A i, j \in 1..(n + 1) : i # j => longer[i] # longer[j]
    BY <1>2, <1>3, <1>4, <1>5
  <1>7. Distinct(longer)
    BY <1>2, <1>6 DEF Distinct
  <1> QED
    BY <1>7 DEF longer

LEMMA WaitingStays ==
    ASSUME WaitingInv, due'[20] = due[20], Waiters \subseteq Waiters'
    PROVE  WaitingInv'
  BY SeqWidens DEF WaitingInv

LEMMA WaitersStay ==
    ASSUME PlayerTypes, WaitingInv, due'[20] = due[20], served' = served,
           Requests \subseteq Requests',
           ~astray' => ~astray /\ \A id \in Requests \ {served} : tries'[id] = tries[id]
    PROVE  WaitingInv'
  <1>1. Waiters \subseteq Waiters'
    BY DEF Waiters
  <1> QED
    BY <1>1, WaitingStays

LEMMA PlayFileWaits ==
    ASSUME PlayerTypes, WaitingInv, NEW file \in Files, NEW begin \in Times,
           PlayFile(file, begin)
    PROVE  WaitingInv'
  <1> DEFINE request == [file |-> file, begin |-> begin]
             id == Len(asked) + 1
  <1>1. /\ asked' = Append(asked, request) /\ tries' = Append(tries, None)
        /\ isNewSrc' = Append(isNewSrc, cur # file)
    BY DEF PlayFile
  <1>2. /\ Requests' = Requests \cup {id} /\ Len(asked) \in Nat
        /\ tries'[id] = None
        /\ \A r \in Requests : tries'[r] = tries[r]
    BY <1>1, AskedGrows
  <1>3. id \notin Requests /\ id # None
    BY <1>2, NoneIsNoNumber DEF Requests
  <1>4. served # id
    BY <1>3 DEF PlayerTypes, HistoryTyped
  <1>5. Postpone(id, due) \/ Start(id, request, due)
    BY DEF PlayFile
  <1>6. DOMAIN due = Delays
    BY DEF PlayerTypes, Typed
  <1>7. CASE Postpone(id, due)
    <2> HIDE DEF id, request
    <2>1. served' = served /\ astray' = astray
      BY <1>7 DEF Postpone
    <2>2. Waiters \subseteq Waiters' /\ id \in Waiters' /\ id \notin Waiters
      BY <1>2, <1>3, <1>4, <2>1 DEF Waiters
    <2>3. due'[20] = due[20] \/ due'[20] = Append(due[20], id)
      BY <1>6, <1>7 DEF Postpone, Set, Delays
    <2>4. due[20] \in Seq(Waiters') /\ Append(due[20], id) \in Seq(Waiters')
      BY <2>2, SeqWidens, AppendProperties DEF WaitingInv
    <2>5. Distinct(due[20]) /\ Distinct(Append(due[20], id))
      BY <2>2, AppendIsDistinct DEF WaitingInv
    <2> QED
      BY <2>3, <2>4, <2>5 DEF WaitingInv
  <1>8. CASE Start(id, request, due)
    <2> HIDE DEF id, request
    <2>1. served' = id /\ (astray => astray')
      BY <1>8 DEF Start
    <2>2. Waiters \subseteq Waiters'
      BY <1>2, <1>3, <2>1 DEF Waiters
    <2>3. due'[20] = due[20]
      BY <1>6, <1>8 DEF Start, ClearAndLoad, Set, Delays
    <2> QED
      BY <2>2, <2>3, WaitingStays
  <1> QED
    BY <1>5, <1>7, <1>8

LEMMA PlayFileAgainWaits ==
    ASSUME PlayerTypes, WaitingInv, PlayFileAgain
    PROVE  WaitingInv'
  <1> DEFINE id == Head(due[20])
             rest == Tail(due[20])
             timeouts == Fired(20)
  <1>1. /\ due[20] # << >> /\ asked' = asked /\ tries' = tries
        /\ Requests' = Requests
    BY DEF PlayFileAgain, Requests
  <1>2. id \in Waiters /\ rest \in Seq(Waiters \ {id}) /\ Distinct(rest)
    BY <1>1, TailIsDistinct DEF WaitingInv
  <1>3. DOMAIN timeouts = Delays /\ timeouts[20] = rest
    BY DEF Fired, PlayerTypes, Typed, Delays
  <1>4. Postpone(id, timeouts) \/ Start(id, asked[id], timeouts)
    BY DEF PlayFileAgain
  <1> HIDE DEF id, rest, timeouts
  <1>5. CASE Postpone(id, timeouts)
    <2>1. served' = served /\ astray' = astray
      BY <1>5 DEF Postpone
    <2>2. Waiters' = Waiters
      BY <1>1, <2>1 DEF Waiters
    <2>3. due'[20] = rest \/ due'[20] = Append(rest, id)
      BY <1>3, <1>5 DEF Postpone, Set, Delays
    <2>4. rest \in Seq(Waiters) /\ Append(rest, id) \in Seq(Waiters)
      BY <1>2, SeqWidens, AppendProperties
    <2>5. Distinct(Append(rest, id))
      BY <1>2, AppendIsDistinct
    <2> QED
      BY <1>2, <2>2, <2>3, <2>4, <2>5 DEF WaitingInv
  <1>6. CASE Start(id, asked[id], timeouts)
    <2>1. served' = id /\ (astray => astray')
      BY <1>6 DEF Start
    <2>2. Waiters \ {id} \subseteq Waiters'
      BY <1>1, <2>1 DEF Waiters
    <2>3. due'[20] = rest
      BY <1>3, <1>6 DEF Start, ClearAndLoad, Set, Delays
    <2>4. rest \in Seq(Waiters')
      BY <1>2, <2>2, SeqWidens
    <2> QED
      BY <1>2, <2>3, <2>4 DEF WaitingInv
  <1> QED
    BY <1>4, <1>5, <1>6

(* A request that listens or looks again is the one started last. *)
LEMMA SeekedWaits ==
    ASSUME PlayerTypes, WaitingInv, NEW id, NEW event, NEW timeouts,
           DOMAIN timeouts = Delays, timeouts[20] = due[20],
           ~astray => id = served, OnSeeked(id, event, timeouts)
    PROVE  WaitingInv'
  <1>1. due'[20] = due[20]
    BY DEF OnSeeked, FirstRetry, RetryAgain, SeekOkay, Set, Delays
  <1>2. UNCHANGED <<asked, served, astray>> /\ Requests' = Requests
    BY DEF OnSeeked, Requests
  <1>3. DOMAIN tries = Requests
    BY LenProperties DEF PlayerTypes, DataTyped, Requests
  <1>4. \A r \in Requests \ {id} : tries'[r] = tries[r]
    BY <1>3 DEF OnSeeked, FirstRetry, RetryAgain, SeekOkay
  <1> QED
    BY <1>1, <1>2, <1>4, WaitersStay

LEMMA OtherStepsWait ==
    ASSUME PlayerTypes, WaitingInv,
           \/ Play \/ Pause \/ Reset
           \/ Clear \/ Load \/ SetCurrentTime
           \/ CallReadyToSeek \/ HearPlay \/ HearCanPlay
           \/ \E e \in SeekEvents : HearSeekEvent(e)
           \/ HearEnded \/ Tick \/ CanPlay \/ Land \/ UNCHANGED vars
    PROVE  WaitingInv'
  <1>1. UNCHANGED data /\ served' = served
    BY DEF Play, Pause, Reset, Clear, Load, SetCurrentTime, CallReadyToSeek,
           HearPlay, HearCanPlay, HearSeekEvent, HearEnded, Tick, CanPlay, Land,
           vars, history
  <1>2. UNCHANGED <<asked, tries>> /\ Requests' = Requests
    BY <1>1, SameData DEF data
  <1>3. ~astray' => ~astray
    BY DEF Play, Pause, Reset, Clear, Load, SetCurrentTime, CallReadyToSeek,
           HearPlay, HearCanPlay, HearSeekEvent, HearEnded, Tick, CanPlay, Land,
           vars, history
  <1>4. DOMAIN due = Delays
    BY DEF PlayerTypes, Typed
  <1>5. due'[20] = due[20]
    <2>1. CASE Reset \/ Clear \/ Load \/ SetCurrentTime
      BY <1>4, <2>1 DEF Reset, Clear, Load, SetCurrentTime, Set, Fired, Delays
    <2>2. CASE ~(Reset \/ Clear \/ Load \/ SetCurrentTime)
      BY <2>2 DEF Play, Pause, CallReadyToSeek,
           HearPlay, HearCanPlay, HearSeekEvent, HearEnded, Tick, CanPlay, Land,
           vars
    <2> QED
      BY <2>1, <2>2
  <1> QED
    BY <1>1, <1>2, <1>3, <1>5, WaitersStay

LEMMA RetryWaits ==
    ASSUME PlayerTypes, PhaseInv, WaitingInv, Retry
    PROVE  WaitingInv'
  <1> DEFINE id == Head(due[50])
             timeouts == Fired(50)
  <1>1. OnSeeked(id, id, timeouts) /\ due[50] # << >>
    BY DEF Retry
  <1>2. ~astray => id = served
    BY <1>1 DEF PhaseInv, Quiet, Opening, Listening, Retrying
  <1>3. DOMAIN timeouts = Delays /\ timeouts[20] = due[20]
    BY DEF Fired, PlayerTypes, Typed, Delays
  <1> HIDE DEF id, timeouts
  <1> QED
    BY <1>1, <1>2, <1>3, SeekedWaits

LEMMA CallSeekedWaits ==
    ASSUME PlayerTypes, PhaseInv, WaitingInv, CallSeeked
    PROVE  WaitingInv'
  <1> DEFINE id == Head(calls.left)
  <1>1. OnSeeked(id, calls.last, due) /\ calls.listener = "seek"
    BY DEF CallSeeked
  <1>2. calls # Idle
    BY <1>1, NoneIsNoNumber DEF Idle
  <1>3. ~astray => id = served
    BY <1>2 DEF PhaseInv, Quiet, Opening, Listening, Retrying, Dispatching
  <1>4. DOMAIN due = Delays
    BY DEF PlayerTypes, Typed
  <1> HIDE DEF id
  <1> QED
    BY <1>1, <1>3, <1>4, SeekedWaits

LEMMA StepWaits == PlayerTypes /\ PhaseInv /\ WaitingInv /\ [Next]_vars => WaitingInv'
  <1> SUFFICES ASSUME PlayerTypes, PhaseInv, WaitingInv, [Next]_vars
               PROVE  WaitingInv'
    OBVIOUS
  <1>1. CASE Client
    BY <1>1, PlayFileWaits, OtherStepsWait DEF Client
  <1>2. CASE Timeouts
    BY <1>2, PlayFileAgainWaits, OtherStepsWait, RetryWaits DEF Timeouts
  <1>3. CASE Events
    BY <1>3, CallSeekedWaits, OtherStepsWait DEF Events
  <1>4. CASE HearEnded \/ Tick \/ CanPlay \/ Land \/ UNCHANGED vars
    BY <1>4, OtherStepsWait
  <1> QED
    BY <1>1, <1>2, <1>3, <1>4 DEF Next

(***************************************************************************)
(* The pause, and what follows from the phases.                            *)
(***************************************************************************)
LEMMA HushedIsQuiet ==
    ASSUME PhaseInv, HushedInv, hushed, ~astray
    PROVE  Quiet /\ due[20] = << >> /\ paused /\ ~timer
  BY DEF PhaseInv, HushedInv, Opening, Listening, Retrying

LEMMA StepHushed == PlayerTypes /\ PhaseInv /\ HushedInv /\ [Next]_vars => HushedInv'
  <1> SUFFICES ASSUME PlayerTypes, PhaseInv, HushedInv, [Next]_vars,
                      hushed', ~astray'
               PROVE  (~seeking /\ due[20] = << >> /\ paused /\ ~timer)'
    BY DEF HushedInv
  <1>1. DOMAIN due = Delays
    BY DEF PlayerTypes, Typed
  <1>2. CASE Client
    <2>1. Pause
      BY <1>2 DEF Client, PlayFile, Play, Reset
    <2> QED
      BY <2>1 DEF Pause, Pausing
  <1>3. CASE ~Client
    <2>1. hushed /\ ~astray
      <3>1. hushed' = hushed /\ (~PlayFileAgain => astray' = astray)
        BY <1>3 DEF Next, Timeouts, PlayFileAgain, Clear, Load,
                    SetCurrentTime, Retry, OnSeeked, Events, CallReadyToSeek,
                    CallSeeked, HearPlay, HearCanPlay, HearSeekEvent,
                    HearEnded, Tick, CanPlay, Land, vars, history
      <3>2. PlayFileAgain => (~astray' => ~astray)
        BY DEF PlayFileAgain, Postpone, Start
      <3>3. FlagsTyped
        BY DEF PlayerTypes
      <3> QED
        BY <3>1, <3>2, <3>3 DEF FlagsTyped
    <2>2. Quiet /\ due[20] = << >> /\ paused /\ ~timer
      BY <2>1, HushedIsQuiet
    <2>3. ~seeking /\ calls = Idle /\ due[50] = << >> /\ Clears(due[1])
      BY <2>2 DEF Quiet
    <2>4. ~PlayFileAgain /\ ~Retry /\ ~Tick
      BY <2>2, <2>3 DEF PlayFileAgain, Retry, Tick
    <2>5. ~Load
      <3>1. due[1] # << >> => Head(due[1]) = "clear"
        BY <2>3, TailsOfJobs DEF PlayerTypes, Typed
      <3> QED
        BY <3>1 DEF Load
    <2>6. ~CallReadyToSeek /\ ~CallSeeked
      BY <2>3, NoneIsNoNumber DEF CallReadyToSeek, CallSeeked, Idle
    <2>7. /\ UNCHANGED seeking
          /\ timer' = timer \/ timer' = (timer /\ seeking)
          /\ paused' = paused \/ paused' = TRUE \/ paused' = (paused \/ preload)
      BY <1>3, <2>4, <2>5, <2>6
         DEF Next, Timeouts, Events, Clear, SetCurrentTime, HearPlay, HearCanPlay,
             HearSeekEvent, HearEnded, CanPlay, Land, vars, player, element
    <2>8. due'[20] = due[20]
      BY <1>1, <1>3, <2>4, <2>5, <2>6
         DEF Next, Timeouts, Events, Clear, SetCurrentTime, HearPlay, HearCanPlay,
             HearSeekEvent, HearEnded, CanPlay, Land, vars, Fired, Delays
    <2>9. seeking = FALSE /\ timer = FALSE /\ paused = TRUE
      BY <2>2, <2>3 DEF PlayerTypes, FlagsTyped
    <2>10. seeking' = FALSE /\ timer' = FALSE /\ paused' = TRUE
      BY <2>7, <2>9
    <2> QED
      BY <2>2, <2>8, <2>10
  <1> QED
    BY <1>2, <1>3

LEMMA StepPlayer == PlayerInv /\ [Next]_vars => PlayerInv'
  BY StepTypes, StepPhase, StepWaits, StepHushed DEF PlayerInv

LEMMA SpecPlayer == Spec => []PlayerInv
  <1>1. Init => PlayerInv
    BY InitTypes, InitPhase DEF PlayerInv
  <1> QED
    BY <1>1, StepPlayer, PTL DEF Spec

(* A seek is over for the request that was started last, so a listener of  *)
(* an earlier request never ends it: onSeeked and onReadyToSeek.           *)
THEOREM SpecEndsItsOwnSeek == Spec => []EndsItsOwnSeek
  <1>1. PlayerInv => EndsItsOwnSeek
    BY DEF PlayerInv, PhaseInv, EndsItsOwnSeek, Quiet, Opening, Listening, Retrying
  <1> QED
    BY <1>1, SpecPlayer, PTL

(* A pause that finds nothing under way is not undone by a timeout or an   *)
(* event that was left: pause, against every closure and listener.         *)
THEOREM SpecPauseHolds == Spec => []PauseHolds
  <1>1. PlayerInv => PauseHolds
    BY DEF PlayerInv, HushedInv, PauseHolds
  <1> QED
    BY <1>1, SpecPlayer, PTL

(* A request that is over left no listener to be called for a later one.   *)
THEOREM SpecNothingLeftBehind == Spec => []NothingLeftBehind
  <1>1. PlayerInv => NothingLeftBehind
    BY DEF PlayerInv, PhaseInv, NothingLeftBehind, Quiet, Opening, Listening,
           Retrying, NoListener
  <1> QED
    BY <1>1, SpecPlayer, PTL
=============================================================================
