---------------------------- MODULE MediaOverlay ----------------------------
(***************************************************************************)
(* The media overlay player of the reader: it walks through the pars of a  *)
(* book's SMIL files while an audio element reads them, and has the reader *)
(* open the page each one is on.                                           *)
(*                                                                         *)
(* The element is the small one below; AudioPlayer has it in detail. With  *)
(* Prompt the audio never runs past a clip before the timer is seen; its   *)
(* end may be reported before or after a tick, and a page the player asked *)
(* for shows up when the user has done something else. Every par has audio *)
(* here: speech, embedded media and blank pages are left out.              *)
(***************************************************************************)
EXTENDS Integers, Sequences, FiniteSetsExt

CONSTANTS
    Book,           \* the pars in reading order
    Length,         \* how long each audio file is
    Docs,           \* the content documents, with or without overlay
    None,           \* undefined
    Prompt,         \* timers of 20 ms keep up with the audio
    SkipSkippables, \* _settings.mediaOverlaysSkipSkippables
    MaxCommands     \* bound: what the user does

Pars == DOMAIN Book
Files == DOMAIN Length

(* Pages to open: the par whose element it shows, if it was given one, its *)
(* document, whether the overlay asked for it, and whether it is loading.  *)
Pages == [to : Pars \cup {None}, doc : Docs, own : BOOLEAN, loading : BOOLEAN]

ASSUME BookAssumption ==
    /\ Pars = 1..Len(Book) /\ Len(Book) \in Nat
    /\ Length \in [Files -> Nat \ {0}]
    /\ \A p \in Pars :
           /\ Book[p].smil \in Nat /\ Book[p].doc \in Docs /\ Book[p].file \in Files
           /\ Book[p].begin \in Nat /\ Book[p].end \in Nat
           /\ Book[p].skippable \in BOOLEAN
           /\ Book[p].begin < Book[p].end
           /\ Book[p].begin < Length[Book[p].file]
    /\ \A p, q \in Pars : p <= q => Book[p].smil <= Book[q].smil
    /\ None \notin Nat /\ None \notin Files /\ None \notin Pages
    /\ {SkipSkippables, Prompt} \subseteq BOOLEAN /\ MaxCommands \in Nat

VARIABLES
    par,        \* _smilIterator.currentPar
    highlighted, \* the par of the element highlighter
    skipEnded,  \* _skipAudioEnded
    wasPlaying, \* _wasPlayingAtDocLoadStart
    file,       \* currentSmilSrc() of the audio player
    timer,      \* its interval timer runs: isPlaying()
    seek,       \* the time it is seeking to
    waiting,    \* the requests it has postponed
    position,   \* of the audio element
    running,    \* the element plays
    ended,      \* its "ended" has not been dispatched
    doc,        \* the content document that is shown
    opening,    \* the page the reader is opening
    commands,   \* what the user has done so far
    wanted,     \* the user has started the overlay and not stopped it
    astray,     \* the user did something, or a page he asked for loaded or
                \* came, while the player was on its way, or an end of file
                \* was heard while such a page opened
    heard       \* the par has been read to its end since it was reached

iterator == <<par, highlighted>>
overlay == <<iterator, skipEnded, wasPlaying>>
element == <<file, timer, seek, waiting, position, running>>
audio == <<element, ended>>
vars == <<overlay, audio, doc, opening, commands, wanted, astray, heard>>

(* Nothing the overlay asked for is still on its way. *)
Settled == seek = None /\ waiting = << >> /\ opening = None /\ ~ended

Page(p, d, own) == [to |-> p, doc |-> d, own |-> own, loading |-> FALSE]

Init ==
    /\ par = None /\ highlighted = None
    /\ skipEnded = FALSE /\ wasPlaying = FALSE
    /\ file = None /\ timer = FALSE /\ seek = None /\ waiting = << >>
    /\ position = 0 /\ running = FALSE /\ ended = FALSE
    /\ doc \in Docs
    /\ opening = None
    /\ commands = 0 /\ wanted = FALSE /\ astray = FALSE /\ heard = FALSE

(***************************************************************************)
(* The audio player, as far as the overlay sees it. What becomes of an     *)
(* "ended" on its way: a request makes the player skip it, a reset of the  *)
(* element drops it.                                                       *)
(***************************************************************************)
Out ==
    /\ par # None
    /\ file = Book[par].file /\ seek = None
    /\ position >= Book[par].end \/ position = Length[file]

Observe == heard' = (Out' \/ (heard /\ par' = par))

EndedStays == ended' = (ended /\ seek' = None /\ file' # None)

(* A request made while the element is seeking is made again later. The    *)
(* timer was stopped before unless the caller was playing.                 *)
PlayFile(f, t, playing) ==
    IF seek # None
    THEN /\ waiting' = Append(waiting, <<f, t>>)
         /\ timer' = playing
         /\ UNCHANGED <<file, seek, position, running>>
    ELSE /\ file' = f
         /\ seek' = t
         /\ timer' = FALSE
         /\ running' = FALSE
         /\ position' = IF f = file THEN position ELSE 0
         /\ UNCHANGED waiting

PauseAudio ==
    /\ timer' = FALSE
    /\ running' = FALSE
    /\ UNCHANGED <<file, seek, waiting, position>>

ResetAudio ==
    /\ file' = None
    /\ timer' = FALSE
    /\ seek' = None
    /\ position' = 0
    /\ running' = FALSE
    /\ UNCHANGED waiting

(* An element that is told to play at its end starts all over. *)
ResumeAudio ==
    /\ timer' = TRUE
    /\ running' = (seek = None)
    /\ position' = IF position = Length[file] THEN 0 ELSE position
    /\ UNCHANGED <<file, seek, waiting>>

(***************************************************************************)
(* The overlay.                                                            *)
(***************************************************************************)
Reset ==
    /\ par' = None
    /\ highlighted' = None
    /\ skipEnded' = FALSE
    /\ ResetAudio

Pause ==
    /\ PauseAudio
    /\ highlighted' = None

(* highlightCurrentElement, with document d shown, the page o still to be  *)
(* opened and the par lit highlighted: a par of another document is opened,*)
(* with no iterator until then; one that is not highlighted yet may be on  *)
(* another page of this one.                                               *)
Highlight(p, d, o, lit) ==
    IF Book[p].doc = d
    THEN /\ par' = p
         /\ highlighted' = p
         /\ opening' \in IF p = lit THEN {o} ELSE {o, Page(None, d, TRUE)}
    ELSE /\ par' = None
         /\ highlighted' = lit
         /\ opening' = Page(p, Book[p].doc, TRUE)

PlayCurrentPar(p, d, o, lit, playing) ==
    /\ PlayFile(Book[p].file, Book[p].begin, playing)
    /\ Highlight(p, d, o, lit)

(***************************************************************************)
(* The iterator: the next or previous par of the SMIL file that is not     *)
(* skipped, or the nearest one of the next or previous file.               *)
(***************************************************************************)
Skipped(p) == SkipSkippables /\ Book[p].skippable

Beyond(p, forward) ==
    {q \in Pars : /\ Book[q].smil = Book[p].smil
                  /\ ~Skipped(q)
                  /\ IF forward THEN q > p ELSE q < p}

OtherSmil(p, forward) ==
    LET n == IF forward THEN Book[p].smil + 1 ELSE Book[p].smil - 1
    IN  {q \in Pars : Book[q].smil = n}

Nearest(S, forward) == IF forward THEN Min(S) ELSE Max(S)

(* Mutant: the audio goes on while the page opens. *)
LeaveAudioPlaying ==
    /\ skipEnded' = TRUE
    /\ highlighted' = None
    /\ UNCHANGED element

(* Mutant: the end of the file that was left is not skipped. *)
LeaveAudioUnskipped ==
    /\ skipEnded' = FALSE
    /\ Pause

(* The audio is left behind, and its end with it. *)
LeaveAudio ==
    /\ skipEnded' = TRUE
    /\ Pause

NextSmil(forward) ==
    IF OtherSmil(par, forward) = {}
    THEN /\ Reset
         /\ wanted' = FALSE
         /\ UNCHANGED opening
    ELSE LET q == Nearest(OtherSmil(par, forward), forward)
         IN  /\ par' = q
             /\ opening' = Page(q, Book[q].doc, TRUE)
             /\ LeaveAudio
             /\ wanted' = TRUE

(* Where the audio is said to be when q is reached: what was reported, or  *)
(* just behind the par that was skipped last.                              *)
Reported(q, at) == IF q - 1 = par THEN at ELSE Book[q - 1].end + 1

ReadOn(q, at) ==
    /\ Book[q].file = file
    /\ Book[q].begin <= at /\ at <= Book[q].end

(* onAudioPositionChanged, when it leaves the par. *)
Move(at, forward, playing) ==
    IF Beyond(par, forward) = {}
    THEN NextSmil(forward)
    ELSE LET q == Nearest(Beyond(par, forward), forward)
         IN  /\ IF forward /\ playing /\ ReadOn(q, Reported(q, at))
                THEN /\ Highlight(q, doc, opening, highlighted)
                     /\ UNCHANGED element
                ELSE PlayCurrentPar(q, doc, opening, highlighted, playing)
             /\ skipEnded' = TRUE
             /\ wanted' = TRUE

(* Mutant: the end of the file stays skipped. *)
WithinParStillSkipping == UNCHANGED <<iterator, skipEnded, element, opening, wanted>>

(* onAudioPositionChanged, when it stays in the par. *)
WithinPar ==
    /\ skipEnded' = FALSE
    /\ UNCHANGED <<iterator, element, opening, wanted>>

(* The interval timer. *)
Tick ==
    /\ timer /\ seek = None
    /\ IF par = None \/ position <= Book[par].end
       THEN WithinPar
       ELSE Move(position, TRUE, TRUE)
    /\ EndedStays
    /\ UNCHANGED <<wasPlaying, doc, commands, astray>>
    /\ Observe

(* onEnded of the player and onAudioEnded of the overlay. *)
HearEnded ==
    /\ ended
    /\ ended' = FALSE
    /\ IF seek # None
       THEN UNCHANGED <<iterator, skipEnded, element, opening, wanted>>
       ELSE IF skipEnded
       THEN /\ skipEnded' = FALSE
            /\ timer' = FALSE
            /\ UNCHANGED <<iterator, file, seek, waiting, position, running,
                           opening, wanted>>
       ELSE IF par = None
       THEN Reset /\ UNCHANGED <<opening, wanted>>
       ELSE Move(Book[par].end + 1, TRUE, FALSE)
    /\ astray' = (astray \/ (opening # None /\ ~opening.own))
    /\ UNCHANGED <<wasPlaying, doc, commands>>
    /\ Observe

(***************************************************************************)
(* Pages. A document that loads announces itself first.                    *)
(***************************************************************************)
DocLoadStart ==
    /\ opening # None
    /\ opening.doc # doc /\ ~opening.loading
    /\ opening' = [opening EXCEPT !.loading = TRUE]
    /\ IF timer THEN Pause /\ wasPlaying' = TRUE /\ UNCHANGED par
       ELSE UNCHANGED <<iterator, element, wasPlaying>>
    /\ EndedStays
    /\ astray' = (astray \/ (~opening.own /\ seek # None))
    /\ UNCHANGED <<skipEnded, doc, commands, wanted>>
    /\ Observe

(* toggleMediaOverlayRefresh: start at the first par that is visible.      *)
Refresh(d, o) ==
    IF \A z \in Pars : Book[z].doc # d
    THEN /\ Reset
         /\ opening' = o
         /\ wanted' = FALSE
    ELSE \E z \in Pars :
             /\ Book[z].doc = d
             /\ IF timer /\ z = par
                THEN ResumeAudio /\ Highlight(z, d, o, None)
                ELSE PlayCurrentPar(z, d, o, IF timer THEN None ELSE highlighted,
                                    FALSE)
             /\ wanted' = TRUE
             /\ UNCHANGED skipEnded

OwnPage(d, playing) ==
    LET to == opening.to
        p == IF par = None THEN to ELSE par
    IN  IF p = None \/ (to # None /\ to # p)
        THEN /\ opening' = None
             /\ UNCHANGED <<iterator, element>>
        ELSE IF par # None /\ playing
        THEN /\ opening' = None
             /\ UNCHANGED <<iterator, element>>
        ELSE PlayCurrentPar(p, d, None, highlighted, timer)

(* onPageChanged *)
PageChanged ==
    /\ opening # None
    /\ opening.doc = doc \/ opening.loading
    /\ doc' = opening.doc
    /\ wasPlaying' = FALSE
    /\ IF opening.own
       THEN OwnPage(doc', timer \/ wasPlaying) /\ UNCHANGED <<skipEnded, wanted>>
       ELSE IF par = None \/ ~(timer \/ wasPlaying)
       THEN /\ Reset
            /\ opening' = None
            /\ wanted' = FALSE
       ELSE Refresh(doc', None)
    /\ EndedStays
    /\ astray' = (astray \/ (~opening.own /\ seek # None))
    /\ UNCHANGED commands
    /\ Observe

(***************************************************************************)
(* The user.                                                               *)
(***************************************************************************)
Command ==
    /\ commands < MaxCommands
    /\ commands' = commands + 1
    /\ astray' = (astray \/ ~Settled)
    /\ UNCHANGED <<wasPlaying, doc>>

PlayOn ==
    IF par # None /\ file # None
    THEN /\ ResumeAudio
         /\ Highlight(par, doc, opening, highlighted)
         /\ wanted' = TRUE
         /\ UNCHANGED skipEnded
    ELSE Refresh(doc, opening)

(* toggleMediaOverlay *)
Toggle ==
    /\ Command
    /\ IF timer
       THEN /\ Pause
            /\ wanted' = FALSE
            /\ UNCHANGED <<par, skipEnded, opening>>
       ELSE PlayOn
    /\ EndedStays
    /\ Observe

(* nextMediaOverlay and previousMediaOverlay *)
NextOrPrevious(forward) ==
    /\ Command
    /\ IF par # None /\ timer
       THEN Move(Book[par].end + 1, forward, FALSE)
       ELSE PlayOn
    /\ EndedStays
    /\ Observe

(* A page is turned, or a link is followed, by hand. *)
TurnPage(d) ==
    /\ Command
    /\ opening' = Page(None, d, FALSE)
    /\ UNCHANGED <<iterator, skipEnded, audio, wanted>>
    /\ Observe

(***************************************************************************)
(* The audio element.                                                      *)
(***************************************************************************)
(* A timer is due: the par is over or was only just reached, or a request  *)
(* that was postponed can be made.                                         *)
Due ==
    \/ timer /\ par # None /\ (position > Book[par].end \/ skipEnded)
    \/ waiting # << >>

(* Reading goes on, up to the end of the file. *)
Elapse ==
    /\ running /\ seek = None
    /\ Prompt => ~Due
    /\ position' = position + 1
    /\ running' = (position' < Length[file])
    /\ ended' = (ended \/ position' = Length[file])
    /\ UNCHANGED <<overlay, file, timer, seek, waiting, doc, opening,
                   commands, wanted, astray>>
    /\ Observe

(* A new file is played for a moment to make it load. *)
Preload ==
    /\ seek # None
    /\ timer' = ~timer
    /\ UNCHANGED <<overlay, file, seek, waiting, position, running, ended,
                   doc, opening, commands, wanted, astray>>
    /\ Observe

SeekDone ==
    /\ seek # None
    /\ position' = seek
    /\ seek' = None
    /\ timer' = TRUE
    /\ running' = (seek < Length[file])
    /\ ended' = (ended \/ seek = Length[file])
    /\ UNCHANGED <<overlay, file, waiting, doc, opening, commands, wanted, astray>>
    /\ Observe

PlayWaiting ==
    /\ waiting # << >> /\ seek = None
    /\ LET r == Head(waiting)
       IN  /\ file' = r[1]
           /\ seek' = r[2]
           /\ position' = IF r[1] = file THEN position ELSE 0
    /\ timer' = FALSE /\ running' = FALSE
    /\ waiting' = Tail(waiting)
    /\ EndedStays
    /\ UNCHANGED <<overlay, doc, opening, commands, wanted, astray>>
    /\ Observe

User ==
    \/ Toggle
    \/ \E forward \in BOOLEAN : NextOrPrevious(forward)
    \/ \E d \in Docs : TurnPage(d)

Next ==
    \/ User
    \/ Tick \/ HearEnded \/ DocLoadStart \/ PageChanged
    \/ Elapse \/ Preload \/ SeekDone \/ PlayWaiting

(* Timers fire, events are dispatched, audio goes on and seeks end, and    *)
(* the reader opens the pages it is asked for.                             *)
Fairness ==
    /\ WF_vars(Tick) /\ WF_vars(HearEnded) /\ WF_vars(PlayWaiting)
    /\ WF_vars(Elapse) /\ WF_vars(SeekDone)
    /\ WF_vars(DocLoadStart) /\ WF_vars(PageChanged)

Spec == Init /\ [][Next]_vars /\ Fairness
-----------------------------------------------------------------------------
TypeOK ==
    /\ {par, highlighted} \subseteq Pars \cup {None}
    /\ {skipEnded, wasPlaying, timer, running, ended, wanted, astray,
        heard} \subseteq BOOLEAN
    /\ file \in Files \cup {None}
    /\ position \in Nat /\ seek \in Nat \cup {None}
    /\ waiting \in Seq(Files \X Nat)
    /\ doc \in Docs
    /\ opening \in Pages \cup {None}
    /\ commands \in Nat

(* The pars behind which there are only pars to be skipped before p. *)
SkippedTo(p) ==
    {q \in Pars : /\ Book[q].smil = Book[p].smil
                  /\ q < p - 1
                  /\ \A r \in (q + 1)..(p - 1) : Skipped(r)}

(* The audio is not before p, or only in what is skipped to reach it.        *)
Reached(p) ==
    \/ position >= Book[p].begin
    \/ \E q \in SkippedTo(p) : Book[q].file = file /\ position > Book[q].end

(* What is read aloud is the par that is highlighted, once the player has    *)
(* caught up with the requests it was given; or, when pars before it were    *)
(* to be skipped in the same file, they too: the audio is then said to be    *)
(* behind them (media_overlay_player.js:807-815) and reads them aloud, but   *)
(* never again what came before them.                                        *)
ReadsWhatIsShown ==
    timer /\ running /\ par # None /\ Settled /\ ~astray
        => file = Book[par].file /\ Reached(par)

(* The overlay moves on by itself only when the audio has read the par to  *)
(* its end: neither a tick and the end of the file together, nor an end    *)
(* that belongs to another file, takes it past a par nobody heard. That    *)
(* no clip is over before a timer saw it is assumed (Prompt).              *)
OnlyTheHeardIsPassed ==
    [][(Tick \/ HearEnded) /\ par # None /\ par' # par /\ ~astray
           => heard]_vars

(* An overlay that was started goes on until its end or until the user or  *)
(* a page without overlay stops it, with timers that keep up (Prompt).     *)
PlaysOn == wanted /\ ~astray ~> ~wanted \/ astray
=============================================================================
