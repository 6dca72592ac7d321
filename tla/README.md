# Verification of the reader's concurrent core

TLA+ models of the parts of this repository where several threads, sockets,
timers, callbacks and screens meet, the TLC runs that check them on small instances, and
TLAPS proofs of what holds of every size. Paths below are relative to the
repository. In `PROJECT.json`, "map" leads from every definition to the lines
it stands for.

- [The system](#the-system)
- [What is modelled](#what-is-modelled)
- [The runs](#the-runs)
- [What the models show besides](#what-the-models-show-besides)
- [Bounds](#bounds) and [fairness](#fairness)
- [What is proved](#what-is-proved)
- [What is not modelled](#what-is-not-modelled)
- [What is left](#what-is-left)

## The system

An iOS e-book reader. A web view runs the reader's JavaScript
(`src/Resources/readium-shared-js`); every chapter, picture and sound it asks
for goes over HTTP to a server in the same process, which reads it from the
EPUB archive through the C++ SDK.

    web view --TCP--> AQSocket (listening) --accept--> AQHTTPServer
                          |                                 | _connections
                      AQSocket (connected) ---events---> AQHTTPConnection
                          ^                                 | _requestQ (serial)
                          +--writeAll:-- AQHTTPResponseOperation
                                            |  LOCK_BYTESTREAM
                                         RDPackageResource --> SDK byte streams
                                                                (ring buffers)

    reader view --openPage--> fixed view --loadSpineItem--> page views (iframes)
        ^  openContentUrl         | pagination changed, document loaded
        +------------------ media overlay player <--position, ended-- audio player
                              (SMIL iterator)     --playFile, pause-->  (<audio>)

### Components, their state and what makes them hard

| component | state | operations | what is hard | what makes it correct |
|---|---|---|---|---|
| **AQSocket** and its I/O channel (`SimpleHTTPServer/AQSocket`) | status, channel, semaphore `_sync`, serial queue `_q`, reader source, descriptor | `-writeBytes:completion:`, `-close`, read handler | any thread writes and closes; the queue's own thread closes from a read block; a descriptor number is reused | the channel is there when claimed; one close(); completions once and in order; the end is reported once, after the data |
| **AQSocketReader** | chunks received | append, length, read | one thread appends while another reads | bytes come out once, in order |
| **AQHTTPConnection** | message being assembled, operation queue, idle timer, document root, socket | `_handleIncomingData:`, `_maybeInstallIdleTimer`, `_checkIdleTimer:`, `-setDocumentRoot:`, `-close` | the handler is installed 0.1 s after `-init`, so two threads may handle data; completion blocks run before the operation leaves the queue | requests become operations once, in order; the timer never fires at a busy connection it was taken from; nothing that arrived is left lying |
| **AQHTTPResponseOperation** and the package's subclass | request, ranges, head, stream, connection to be closed or kept | `-main`, `-stream:handleEvent:`, `-writeAll:` | ranges against chunks; a read or write that fails midway; Content-Length was already sent | what is sent is what was asked for; a kept connection is in step |
| **AQHTTPServer** | listening sockets, `_connections`, handler block | `-start:`, accept handler, `-connectionDidClose:`, `-stop`, release | an unsynchronised set; a stop while connections come and go | closed connections leave the set |
| **PackageResourceServer / -Connection** | static lock of the byte streams, static package | `-initWithPackage:`, `-dealloc`, `LOCK_BYTESTREAM`, look-up | both statics are replaced from screen to screen while operations of the last server run | one reader at a time in the byte streams; no answer from an earlier package |
| **SDK executors** (`readium-sdk/ePub3/utilities/executor.cpp`) | queue, timed heap, workers, timer thread | `add`, `add_at`, destructor | lost wake-ups, closures between two locks, deadlines | closures run once, not early; the destructor returns |
| SDK futures and run loops | shared states, continuations, sources, timers | `then`, `set_value`, `Run`, `Stop` | callbacks against completion | each continuation once |
| **SDK ring buffer** (`ring_buffer.cpp`) | block, two positions, count | read, write, remove | both positions wrap; equal positions mean empty or full | a queue of bytes |
| SDK byte streams, filter chain | stream state, filters | read, write, filter | readers and writers on pool threads | bytes in order |
| SDK package, CFI, container, navigation | parsed tables | parse, look up, compare | sequential | CFI comparison and round trips |
| **Audio player** (`views/audio_player.js`) | source, seek, interval timer, listeners, timeouts | `playFile`, `play`, `pause`, `reset`, element events | a seek is reported by events that come for other reasons; requests postponed; listeners and timeouts that outlive their request | the element plays what was asked for last, or nothing after a pause |
| **Media overlay player** (`views/media_overlay_player.js`, SMIL iterator) | current par, highlight, "skip the end" flag | audio positions and ends, `onPageChanged`, toggle, next, previous | ticks, ends of files, page loads and the user in any order | what is heard is what is shown; no par is passed unheard; it goes on |
| **Fixed layout view** (`views/fixed_view.js`, spread, page views) | spread, three page views with an iframe each | open, next, previous, resize, settings, document loaded | requests while documents load | the spread that was announced is what is shown; the last request is announced; turning back shows what was left |
| Reflowable and scroll views | pagination, loading iframe | open, next, previous, resize | as above | the last request wins |
| Launcher controllers, bookmarks, lists | UI state | UIKit callbacks | main thread only | - |

The full list, with the status of each part, is "components" in
`PROJECT.json`. "hazards" there lists what can go wrong at which line, with the
properties that would catch it, or a note saying why none does.

## What is modelled

Nine components, each a module of its own. First the server and the SDK,
then the reader's JavaScript.

**`AQSocket`** - a connected socket over `AQSocketLegacyIOChannel`, the channel
the build selects. Writers (threads in `-writeAll:`), closers and the thread
that runs `_q` are program counters; `sync` is the semaphore's count; `queue`
the blocks of `_q` with the running one at its head; `fd` is what the
descriptor's number names: this connection, nothing, or the connection that was
accepted next. An action is what a thread does between two points where another
can come in: the test of `_socketIO`, the claim of `_sync`, the scheduling, each
`send()`, each step of `-close`. `send()` may take any part, and fail with a
broken pipe or another error; the claim of a writer may time out. A write is
known by its *ticket*, its place in the order of acceptance; bytes by ticket
and offset. `-setEventHandler:` comes at any time and in two steps, the
installation (`InstallHandler`) and the look at the reader (`AnnounceData`),
with the read handler of `_q` in between: `DeliverData` and `ReportEnd` tell a
handler that is there, and `Listens` that `-close` may have taken it away.

**`WriteQueue`** - what `AQSocket.h` promises of `-writeBytes:completion:`, with
no thread in it: accepted while open, one ordered queue, each write settled
once. `AQSocket` implements it with `open <- socketIO` and the tickets of the
completions that have run for `settled`.

**`AQHTTPConnection`** - one connection: fragments of requests, the reader,
`_incomingMessage`, the operations on the serial `_requestQ`, the idle timer of
the main run loop, `-setDocumentRoot:`, `-close` from everywhere it is called
and `-stop` of the server. `-main` of an operation either ends (`Respond`) or,
once the socket is closed or at its end, may wait for ever (`RespondForEver`). Two threads can be in `_handleIncomingData:`: that of
the read handler, and the delayed block that installs the event handler and
delivers what has arrived by then. Closing the socket is a single step here;
what happens inside it is `AQSocket`, and what two closes that overlap do to a
connection and to `-stop` is `PackageServer`. A request is two fragments, the second
of which completes the header.

**`RangeResponse`** - one operation, GET or HEAD: the parser of the Range
header, the ordering and merging of ranges into an index set, the head, the
three ways a body is sent (read from the archive in ranges, streamed whole,
ranges picked out of a stream), a read or a write that fails at any point, and
the end of `-main`. A write that was not sent whole (`Lost`) has three outcomes
(`AfterLoss`): `-writeAll:` returns `NO`, returns `YES` because the error is none
of the three it looks for, or waits for ever because `-writeBytes:` gave up
without calling the completion handler (`pc = "hung"`). A byte is its position, a component of the header is a
record of its kind and numbers, boundaries are items of the body with no
length. On Darwin `strtoull` sets `errno` when there are no digits, which is
how the parser tells "-n" and "n-" from "n-m".

**`PackageServer`** - the servers of reader screens that come one after the
other: `PackageResourceServer` with its `AQHTTPServer`, the accept handler, the
set of connections, `-stop`, the release of the server, the static lock and the
static package. Per connection there is one request: it looks its resource up
under the lock, becomes an operation, and reads under the lock. A close is two
steps, the claim of the socket (`Close`, `CloseNext`) and the rest (`EndClose`,
`EndCloseNext`), and `closer` says who is between them: a connection's own thread
that finds the main thread there waits for ever, and the other way round
`-stop` does (`main = "stuck"`). The build does
not use ARC: the lock is released with the server (`dispatch_release` of a
semaphore below its first count ends the program), and a message to a server or
a connection that is gone, a nil semaphore and a changed set in a `for` loop
end it too. All of that is `Crash`, which leaves no state behind; the liveness properties allow for it
explicitly and the invariants do not need to. A server that was stopped keeps
its listening socket, since `-close` returns at once for a socket without a
channel (`AQSocket.m:758`), so its connections are accepted and dropped.

**`ThreadPool`** - `__thread_pool_impl_stdcpp`: workers, the timer thread, `add`,
`add_at` and the destructor. What happens between taking `_mutex` and giving it
back is one step; a wait on a condition variable ends by a notification,
spuriously or by its time. `wait_until` is given a reference into the vector of
the heap. Nothing reserves room in that vector, so an `add_at` that finds it full
(`Full`: its capacity is 0, 1, 2, 4, ...) moves it; the comparison after the wait
then comes out either way, and `misled` remembers the closure it let through.

**`RingBuffer`** - `ReadBytes`, `WriteBytes` and `RemoveBytes`, each one step,
with every length. The I/O thread of the asynchronous streams calls them under
the buffer's lock and with lengths that fit (`byte_stream.cpp:278-307`); the
client of a stream calls them without it and passes the length it was given
(`:149-172`). A call of the one that overlaps a call of the other is `Overlap`.
`broken` says what put an end to everything: a `memcpy` left either block
(`"outside"`), a write went over bytes not read yet (`"overfull"`), two calls
raced. `given`, `asked` and `got` are what the last write brought, what the last
read asked for and what it delivered.

**`BoundedFIFO`** - what `ring_buffer.h` promises of it, with no positions, and
which calls end the promise: `Overfill`, `ReadOther` and `Overlap`, and no other.
`RingBuffer` implements it with the bytes between the positions for `queue`.

**`AudioPlayer`** - the player of one `<audio>` element on iOS, where a file is
loaded by playing it for a moment, and a seek is reported by `progress` or
`timeupdate`, events the element fires anyway. A request is its place in the
order of the calls of `playFile`; its event data (`seekRetries`, `isNewSrc`) are
functions of that. `onReady` and `onSeek` are the listeners jQuery has for each
event, `due` the timeouts of 1, 5, 20 and 50 ms, `calls` the listeners the event
that is being dispatched has yet to call: with several, jQuery calls also those
that were taken off meanwhile, and a closure left by any of them refers to the
event object, whose data are the last one's. `off` takes off *every* `onSeeked`,
of whichever request. Times are far enough apart for both of the code's
comparisons (0.3 and 1 s) to be equality. `astray` remembers that `reset()` or a
request for another file came while the last one had listeners, timeouts or
events on their way: `reset()` takes none of them back.

**`MediaOverlay`** - the walk through a book's SMIL files. A par has a SMIL
file, a document and a clip; `Beyond` and `OtherSmil` are the iterator's `next`,
`previous` and the package's next and previous SMIL. `Move` is
`onAudioPositionChanged` when the position is outside the par: the next par that
is not skipped, highlighted if the audio is in its clip already, and asked for
otherwise. `Highlight` opens another page when the par's document is not the one
shown. The page the reader is opening (`opening`) announces its document
(`DocLoadStart`) and then itself (`PageChanged`). The audio player is here what
the overlay sees of it: a seek that ends, requests that wait for it, a position
that moves, an end that is reported later. `Docs` also has documents without
overlay. `astray` is history: the user did something, or a page he asked for
loaded or came, while the player was on its way, or an end of file was heard
while such a page opened.

**`FixedView`** - the sides the spine gives its items, the spread that is
opened for an item, and the three page views. A request is announced when every
view it waits for has said `SPINE_ITEM_OPENED`; a view that has the item already
says so at once, to everybody who waited for it, and everybody stops listening.
`attached` says that whoever hears of a new document (`CONTENT_DOCUMENT_LOADED`)
has heard of this one. `hasty` is history: a page was asked for before the last
one was there.

`MC*` modules give the constants their values for TLC.

Composition. The modules share no variables: `MediaOverlay` uses of `AudioPlayer` a
seek that ends and a pause that holds, and of the views a page that is announced
in the end; `AQHTTPConnection` uses the
socket's events and its `-close`, `PackageServer` uses what the connection does
with one request, `RangeResponse` is the body of an operation in either. Where a
component is a single step in another, its own module shows what the step may
be relied on for: events in order, writes settled in order, an operation that
ends or waits for ever in `-writeAll:` or `-close` on a socket that was closed
under it. That it must not wait there is shown nowhere, for it may.

## The runs

| run | module, cfg | shows |
|---|---|---|
| `socket` | `MCAQSocket` | a claim of `_sync` finds the channel; `close()` hits only this connection's descriptor; a success means all bytes were taken; the end is reported once and nothing is received after it; a peer that closes is noticed, after its data; **refinement of `WriteQueue`**; accepted writes are settled |
| `connection` | `MCAQHTTPConnection` | fragments and operations in order; an armed timer means an idle queue; the document root waits for the operations before it; operations finish unless one waits for ever on a closed socket; no arrival is lost while the handler is installed; a client that leaves is noticed |
| `ranges` | `MCRangeResponse` | the body is what was asked for; Content-Length is honest on every connection that is kept; streamed ranges send no byte unasked or twice; the operation ends whatever fails, or waits for ever in one of two named places |
| `package_server` | `MCPackageServer` | one request at a time in the byte streams across servers; no answer from an earlier package; whoever waits gets through; closed connections are forgotten, whoever closes them and however that overlaps, unless `-stop` is stuck |
| `pool` | `MCThreadPool` | no closure lost or run twice; none early but those taken on a comparison with a deadline that was moved away; each runs; the destructor returns |
| `ring` | `MCRingBuffer` | memory is left only by lengths that do not fit; the count is the distance between the positions; **refinement of `BoundedFIFO`** |
| `audio` | `MCAudioPlayer` | the element has the player's source once its timeouts are through; a seek is ended by its own request; a pause that finds nothing under way holds; a request that is over leaves no listeners; every seek ends |
| `overlay` | `MCMediaOverlay` | what is read aloud is what is highlighted, or skipped right before it; the overlay passes no par by itself that was not heard to its end; once started it goes on until its end or until the user stops it |
| `fixed_view` | `MCFixedView` | when a request is announced its spread is on the screen and nothing else, with the documents attached; the latest request is always announced; turning forward and back shows the spread that was left, unless a page in the centre is put beside another |

Every property has a mutant in `PROJECT.json`: a definition with a plausible
bug, under which TLC finds the property violated in the same run.

Three more runs each show that the code does not do what one of its comments,
headers or tests says:

| run | statement | what the code does |
|---|---|---|
| `socket_intact` | a write goes out "in a single go" (`AQSocket.h:213`) | after a partial `send()` the next one starts at the first byte again (`AQSocketIOChannel.m:451`) |
| `connection_pipelining` | "It works with pipelining!" (`AQHTTPConnection.m:373`) | two requests that are read together become one operation |
| `pool_order` | the heap puts the next timer on top (`executor.cpp:176`, `:228`) | `executor.h:568` orders it the other way round |

`TypeOK` of every module says what its variables are. The runs do not list it;
it holds in every one of them, and is proved of every module but
`AQHTTPConnection`.

Deadlock is not checked in any run: a socket that is closed, a connection with
no more requests, a response that has ended, a program that has crashed, a pool
that is destroyed, and a user who does nothing more all stop. That nothing stops earlier is what the
liveness properties say.

## What the models show besides

Behaviours the code has, found with TLC while the modules were written. Each is
in the model. Where a property above would be broken by one, the property says
what it leaves out: by a history variable (`astray`, `hasty`, `misled`), by a
state that is named in it (`"hung"`, `"stuck"`, `broken`, `QueueStuck`,
`Mispaired`, `SkippedTo`), or, for timers that fall behind the audio, by the
constant `Prompt`, which the run and the theorems set and the comments of the
properties name.

Socket, connection, server:

- `-close` tests `_socketIO` before it waits for `_sync` and never signals it: of
  two overlapping calls the second waits for ever (`AQSocket.m:762`). When that
  is a connection's own close, its delegate is never told; when it is `-stop`'s,
  the main thread hangs with the delegate taken away already.
- `-writeBytes:` returns without a completion when the status has changed or the
  claim times out (`AQSocket.m:838`, `:842`), and `-writeAll:` then waits for ever
  (`AQHTTPResponseOperation.m:523`): the serial queue of the connection stands
  still.
- `-writeAll:` takes every error but three for a success
  (`AQHTTPResponseOperation.m:502`): the response goes on, and the connection may
  be kept although bytes of it are missing.
- A handler that is installed after the end of the stream was reported to the one
  before is told of the data in the reader (`AQSocket.m:879`): the disconnect is
  not always the last event.
- Write blocks still queued when `-close` closes the descriptor send to whoever
  is given its number next (`AQSocket.m:785`), though `-close` "ceases all
  handling of input and output" (`AQSocket.h:173`).
- A part of a multipart response that cannot be read leaves the connection open
  and the client waiting (`AQHTTPResponseOperation.m:307`); for a single range
  the code closes it, "to stop the other end from just timing out" (`:273`).
- An operation that has begun does not look at its cancellation and reads on
  after its server is gone; `-stop` "also stops all in-progress resource requests
  and responses" (`AQHTTPServer.h:52`).

Ring buffer (`broken`), against its header:

- A read of fewer bytes than there are, when they wrap, moves everything up to
  the end of the block into the caller's buffer and then passes `memcpy` a
  negative length; one that does not wrap copies `len` bytes even if there are
  fewer. The header promises "a smaller amount" (`ring_buffer.h:160`).
- A write copies `len` bytes whatever room there is, over bytes not read yet or
  out of the block, and returns the smaller amount as its result
  (`ring_buffer.h:171`).
- `WriteBytes` and `RemoveBytes` do not take the lock the header says they acquire
  (`ring_buffer.h:169`, `:180`), and neither does the client
  (`byte_stream.cpp:149-172`).
- `FunnelBytes` (`filter_chain.cpp:385`) reads in chunks, and between its
  `BytesAvailable()` and its read the I/O thread may add bytes: either way the
  read asks for fewer than there are.

Thread pool (`misled`):

- A second `add_at` while the timer thread sleeps moves the heap's vector
  (`executor.h:561`). The thread's `wait_until` and its comparison
  (`executor.cpp:229`) then read freed memory, and the closure on top may be
  enqueued before it is due.

Audio player (`astray`):

- `reset()` or another file while a seek is under way leaves its listeners and
  timeouts: the next file's events end the old seek, start the old place, or
  make it play after a reset.
- A pause during a seek is undone when the seek ends, because the end plays
  (`audio_player.js:634`).
- A request made during a seek is repeated every 20 ms and dropped without a word
  after ten times; `_seekQueuing` is not set back when it succeeds, so later ones
  are dropped sooner, and several that wait are served in any order with what
  was asked for since.

Media overlay:

- *Next*, *previous* or a turned page while a seek is under way: the old seek
  ends and plays; `onPageChanged` then finds the player playing and only
  highlights (`media_overlay_player.js:309`). The wrong par is heard.
- With timers that fall behind by a whole clip (`Prompt = FALSE`) a tick can step
  into the last clip while the end of the file is on its way; the flag the tick
  sets (`:655`) swallows the end, and the overlay stalls. A postponed request can
  take the audio back behind the par that was reached since.
- An end of file that is heard between the load of a page of the user's and its
  announcement moves the iterator, and the overlay stalls.
- A page of the user's that begins to load while the player seeks leaves
  `_wasPlayingAtDocLoadStart` set (`:91`). If the overlay opens a page of its own
  instead, the one that is announced finds the player playing and asks for
  nothing (`:309`); when the user then toggles, the element goes on in the file
  it had, under the new highlight.
- A last clip that lies wholly at the end of its file, which the clip before
  already reaches: the one end the element reports is taken for that clip's, and
  there is none for the last one. The overlay stands still, and a toggle starts
  the file from its beginning, under the last clip's highlight.
- A skipped par whose clip is followed at once by another on the same page is
  read aloud, under the highlight of that one (`:726`, `:807-815`). This is the
  ordinary case of a skipped par; `ReadsWhatIsShown` allows for exactly that
  (`SkippedTo`).

Fixed layout view:

- A page whose neighbour stands in the centre is shown together with it, since
  `openItem` tests the page's own position where it should test the neighbour's
  (`fixed_page_spread.js:74`), and turning back shows another spread
  (`Mispaired`).
- The item that is loading is asked for again, by the user or by new settings: the
  request is announced before the document is there, and the listeners are
  taken off, so `CONTENT_DOCUMENT_LOADED` never comes for it
  (`one_page_view.js:205-217`).
- A view that is left before its first document was there is not "displaying", is
  not removed, and shows up later.
- A request that waits for a view that is removed is announced by a later one's
  document, with its old item.

## Bounds

- `socket`: two writers, one closer and the queue's thread (which closes too),
  so two claims compete, and two closers meet. Two writes (`MaxCalls`) of two
  bytes (`WriteLen`), so that one can be partial and there is an order to keep;
  one chunk from the peer (`MaxIncoming`), enough to be overtaken by an end of
  stream.
- `connection`: two requests of two fragments each; the second one's operation
  ends with a forced close (`Fatal`). Both threads, both ways to close, one stop
  and one change of the document root (`CallSetRoot` happens once).
- `ranges`: an item of three bytes read two at a time (so that a range can end
  in, begin in and span a piece), and every header of at most two components
  with numbers up to one past the end: overlapping, adjacent, equal, contained
  and inverted ranges all occur.
- `package_server`: two servers and two connections (one that outlives its
  server, one of the next), one read of each operation (`MaxReads`).
- `pool`: two workers, two closures, a clock of two ticks (`MaxTime`). The second
  closure finds the vector full and moves it, so every comparison of the timer
  thread occurs with a reference that holds and with one that does not.
- `ring`: a block of four bytes and calls of up to five, so that either position
  wraps anywhere in a call, the buffer fills and empties, and a call can be
  shorter or longer than what there is, the room, or the block; two values of a
  byte, so that bytes out of order show.
- `audio`: three calls (`MaxCommands`), enough for a request, one that is
  postponed by it and one that comes between; two files and two places; one retry
  of a seek (`MAX_SEEK_RETRIES`, ten in the code) and no tick skipped (`MaxSkips`,
  1000 in the code): the last value of a counter is what differs.
- `overlay`: seven pars: clips that follow one another, one of them to be skipped,
  another one with a gap behind it, a change of document inside a SMIL file, a change of SMIL file and
  of audio file, a file that ends with its last clip and one that goes on, and a
  document without overlay that the user can turn to. Three commands of the
  user. `Prompt` holds: no clip passes between two timers.
- `fixed_view`: four pages, which is two spreads or three with a single first
  page; sides left to the spine, two lefts or rights in a row, a page left
  to the spine between given ones, and one in the centre; renditions that are
  all `both`, all `landscape`, or mixed; four requests.

The constants that are not bounds are arbitrary in the theorems.

## Fairness

All of it is weak fairness of what a thread, a queue or a run loop does once it
has begun.

- `AQSocket`: threads inside a call go on, the reader source is serviced, `_q`
  runs its blocks. `send()` is not blocked for ever: a peer that neither reads
  nor closes is left out. Nobody has to write or close.
- `AQHTTPConnection`: dispatch queues, the operation queue and the main run loop
  service what is pending. The peer, `-stop` and `-setDocumentRoot:` may never
  come. An operation ends on a socket that is open, since a peer that stays takes
  what it is sent; on one that is not, it may end or wait for ever.
- `RangeResponse`: the operation's thread runs; a stream goes on delivering, or
  ends, or fails; a peer that stays takes what it is sent. A write that loses
  something may never return, and neither may the close at the end.
- `PackageServer`: an `-init` or `-stop` that has begun goes on, and so do the
  requests. Nobody has to connect, to ask, to open a screen or to leave one. A close that has the socket ends; one that waits
  for another does not. A
  semaphore wakes waiters in order; weak fairness is less than that, and
  suffices because each operation reads `MaxReads` times.
- `ThreadPool`: threads that can run do, closures return, time passes. Spurious
  wake-ups are possible and never needed.
- `AudioPlayer`: timeouts fire, events are dispatched, a file that was given to
  the element becomes playable, and the element goes on firing the events a seek
  waits for. A seek need not land where it should: that is what the retries are
  for.
- `MediaOverlay`: the interval timer ticks, the audio plays on, seeks end, ends of
  files are reported, and the reader opens the pages it is asked for. The user
  need not do anything.
- `FixedView`: documents load. Each view is fair on its own, since the iframes
  load independently.

## What is proved

The proofs are in `AQSocketProofs`, `AQHTTPConnectionProofs`,
`RangeResponseProofs`, `PackageServerProofs`, `UtilitiesProofs` (the thread pool
and the ring buffer), `AudioPlayerProofs`, `MediaOverlayProofs` and
`FixedViewProofs`. They assume only the named assumptions of the modules: the
writers are not closers, sizes and bounds are natural numbers, a header is a
sequence of components, the items of a spine have a side and a rendition, the
clips of a book have a length and begin within their file, and `None` is no
value of another kind. Where a theorem holds of some books, spines or callers
only, it says so in its own hypotheses.

**`AQSocket`**, for any threads, sizes and number of calls.
`ClaimInvariant`: `_sync` as a lock. A thread *holds* it between its claim and
the point where it signals or, closing, drops the channel; at most one does, the
count is zero while one does, and once the channel is dropped nobody holds it
and nobody gets it, because `-close` never signals. `ClaimedChannelIsThere` and
`DescriptorClosedOnce` do not hold by themselves from step to step: they need
exactly this relation between count, channel and descriptor. Hence
`ChannelSafe` and `DescriptorSafe`. `TypeCorrect` needs in addition that the
read handler runs in a read block at the head of `_q`.

`DisconnectFinal`: `_q` has one read block at most, and none while the source is
armed; the block that reports the end gets back to the handler's return only
when the channel is gone, and with the channel the source is cancelled. So once
it has returned, nothing can put another read block on `_q`: the end is
reported once, and the reader only gets emptier.

`ImplementsWriteQueue`: a write is on `_q` twice, as the write block and later
as the block of its completion handler, with new writes in between. The
invariant says that the two kinds of blocks are each in the order of their
tickets, that every completion's ticket is below every write's, that the settled
tickets are the first ones in order, and that exactly the others are on `_q`.
Then each step of the socket is a step of `WriteQueue` or leaves it alone.

`SuccessIsComplete`, for every size and every way the kernel splits a write. That
a reported success counted all bytes says nothing of the step before, so
`TakenInv` follows a write: the kernel has none of its bytes before it is
accepted and while it waits behind another, `totalSent` of them while it is at
the head of `_q`, and all of them from the moment its handler is on `_q` without
an error.

**`AQHTTPConnection`**, for any number of requests, answered or not, and every
order of the threads. All four of its safety properties, from three invariants:

- *Fragments* (`ReadInv`): only the thread between `recv()` and `-appendData:`
  has a chunk, and what was consumed, what is in the reader and the chunk are
  together what was received: `SpecFragmentsInOrder`.
- *Counts* (`CountInv`): the operations that were added are those that have
  finished and those in the queue, but for the first between its end and its
  removal; an armed timer means none are in it: `SpecArmedMeansIdle`. The
  block of `-setDocumentRoot:` is on no operation before the last one that
  was there, and when the setter found none, all had finished: so by the time
  the root changes, `finished` has reached `barrier`: `SpecRootWaits`.
- *Hands* (`HandInv`, `OrderInv`): who has read leaves the reader empty, and it
  is not filled before that thread is done, since the one is the reader's thread
  and the other is in the critical section. So one thread dispatches at a time,
  and `_incomingMessage` is its message or none; a message that may become a
  request begins behind every request that was added: `SpecOperationsInOrder`.

**`RangeResponse`**, for any size of the item, any number of components in the
header, any pieces and any place where a read or a write fails. None of
`BodyIsWhatWasAsked`, `LengthIsHonest` and `OnlyAskedIsPicked` is inductive: they
speak of a response that is over. `ResponseInv` follows it on the way. The ranges
are those of the header, or for a stream the same in another order
(`RangesInv`: `SortRanges` is what sorting promises, a permutation in ascending
order, and no more is used of it). The place in `-main` fixes what was sent so
far and which flags can be set (`PlaceInv`). A file of the bundle is the body up
to where its stream was read, and a resource is whole, or the connection will be
closed (`WholeInv`). The parts of a multipart body that are finished lie one
behind the other, each as long as its range (`PartsInv`: there is a sequence of
positions, which grows by one with each part). What was picked out of a stream
lies in the ranges and behind each other, before the place the stream has reached
(`PickedInv`).

**`ThreadPool`**, for any workers, closures and times. `PoolTypeCorrect`;
`NoClosureLost` (a closure is in the queue, the heap, the timer thread's hand or
running or done, in one of them only); `NoClosureEarly`, for a vector that grows as it
does, from the invariant that the heap holds each closure with the deadline it
was added with, and that a timer thread whose reference does not dangle has
waited for a deadline that is over when it takes a closure.

**`PackageServer`**, for any servers, connections and reads. `ServerInvariant`:
while a request is inside the byte streams the lock it entered is the current
one and at zero. So the lock cannot be released then without ending the program,
and is neither replaced nor signalled twice: `StreamsExclusive`, although the
static is read anew for each `wait` and each `signal`. The package is that of the
latest server once it has been set, and nil before: `PackageNotStale`.
`ServerTypeCorrect`.

**`RingBuffer`**, for any capacity, any bytes and calls of any length.
`RingInvariant` is type correctness and `PositionsAgree` together: neither is
inductive alone. That a write which fits and does not wrap ends inside the block
needs the distance between the positions, and the distance is only kept because
the write does. `RingStaysInMemory`, an action property, from the same: a write
that fits and a read of all there is stay inside. `RingIsQueue`: a write that fits
appends to the bytes between the positions, a removal takes them from the front,
a read delivers the first of them, whichever of the positions wraps, and what
breaks the buffer is one of the three steps that may; the proof looks at each
place of the queue after the step, and at which `memcpy` put it there.

**`AudioPlayer`**, for any files, times, retries and number of calls.
`SpecSourceSettles`: the 1 ms timeouts that are left decide. A load takes
whatever source the player has when it fires, and a clear is last only if the
player has none, because each is set together with the source and they fire in
order.

`SpecEndsItsOwnSeek`, `SpecPauseHolds` and `SpecNothingLeftBehind` are about a seek
as a whole, which is spread over three delays and the element's listeners. `PhaseInv`
says that, unless the player went astray, a seek is in one of four phases:
*quiet* (nobody listens, no retry is due), *opening* (the request that was
started last waits for its file and nobody else does), *listening* (it alone
hears the one event it waits for) or *retrying* (nobody listens, and its timeout
is due). Each handler moves from phase to phase, and none of the three
properties holds after a step without the phases: which listener is called
depends on who subscribed several events ago. `WaitingInv`: a postponed request
waits once, is not the one being served, and was never tried; without it one
could be started twice. `HushedInv` adds that there is nothing to wake up after
such a pause. `SpecTypes` comes first, since an event carries what a listener
put there.

**`MediaOverlay`**, for any book, any documents without overlay and number of
commands. `OverlayTypes`, for all timers; it already needs that the page on its
way is one of the document that holds its par. The other two properties
speak of a player that is not `astray`, with timers that keep up (`Prompt`),
and rest on one invariant over the audio, the timers and the pages, `PlayerInv`.
Its part `OnCourse` says what is still on its way:

- *A page* (`LoadingStops`, `LeavingStops`, `UsersPageFirst`): while the page of
  the next par is opened, the audio stands still, and an end of file that is not
  reported yet will be skipped; while a page of the user's is opened, no request
  waits.
- *A request* (`AsksForTarget`, `WaitingIsEarly`, `ReadsPar`): what the element
  seeks and what waits for it is the par that is shown or about to be, and
  otherwise the element has that par's file.
- *An end of file* (`EndIsHeard`, `RunsOut`): if one is to be reported and will
  count, the par was heard and reaches the end of the file; audio that runs
  with its timer stopped is in such a par.

`OnlyTheHeard`: `OnlyTheHeardIsPassed` follows for each step, since the two ways
past a par are a tick behind its end and an end that counts. The proof takes a
book with `SkipsInOrder`: where reading goes on behind a skipped par, it goes on
with a clip that ends later than the one that was read, as clips in the order of
their audio do. We know of no book without it in which the property fails.

`ShownIsRead`: `InStep` adds where the audio is. It is behind the begin of the
par, or in what is skipped to reach it (`Reached`), and before the end of its
file, unless an end is on its way (`WithinClip`); an end is skipped only while a
par is left (`EndIsTaken`); and nothing is read without the timer
(`TimerGoesAlong`). It holds of books with `SkipsInOrder` in which no clip lies
wholly at an end of file which a clip before already reaches (`OneEndPerFile`).
Clips that follow one another at once, skipped ones among them, are covered.
For this property neither hypothesis is one of convenience: TLC finds the
property violated in a book without `OneEndPerFile` (see the findings above), and
in one without `SkipsInOrder`, where a clip `[0, 9]` of a file of length 10, a
skipped `[1, 2]` and a clip `[2, 4]` follow one another. The book of the run
satisfies both.

**`FixedView`**, for any spines and number of requests. `SpecSpreadIsShown`,
from the invariant `Calm`: while nobody was hasty, each view has what the spread
says, the latest request is pending as long as a view loads, and every view that
loads is awaited by that request and no other. Nothing about sides is used.

`SpecPagesTurn`, an action property, for every spine, with any sides and any
renditions. The one exception is in the property, `Mispaired`: a page in the
centre that is shown beside another (see the findings above). Other spreads
partition the items (`SideSpread`: each spread is a page alone, or one on the
side the book starts from with the next). `PagesInv` says that what is shown is
the spread of some item under the present orientation and setting. That has to
be shown for a turned viewport, where the code compares with a spread that knows
nothing of the setting and may ask for none (`TurnedOfTheBook`). The sides are
defined along the spine; that there are such sides for every spine is
`SidesExist`, by the first item without one. `SpecTypes`: the types.

Only model-checked: every liveness property (`AcceptedIsSettled`, `EndIsReported`,
`OperationsFinish`, `NoLostWakeup`, `DisconnectIsNoticed`, `ResponseEnds`,
`ReadersGetThrough`, `ClosedIsForgotten`, `ClosuresRun`, `DestructorReturns`,
`SeekEnds`, `PlaysOn`, `LatestIsAnnounced`), since liveness and `ENABLED` are out of the
prover's reach. Every safety and action property of the runs that pass is proved.

What the library's induction theorems say of an operator cannot be used by the
provers installed. Where a proof needs induction over data (least elements, the
sides of the spine), it takes the least counterexample instead, which
`WFMin` gives for a set.

## What is not modelled

- Listening, connecting and address lookup of `AQSocket`, and its two other
  channel classes, which the build does not select.
- `-reset` and `-setDocumentRoot:` of the server. (The header says existing
  connections keep the old root; `AQHTTPServer.m:331` sets it on all of them.)
- The package objects: the static retains without a lock, so a look-up may meet
  one that is being released. In `PackageServer` the static is read in one step.
- Other methods than GET and HEAD, error pages, entity tags, content types. The
  status 500 of `AQHTTPResponseOperation.m:152` is set after the response was
  made; no subclass of the repository gets there.
- In `RangeResponse`, Content-Length of a single range picked out of a stream:
  the model has what the code sends (a boundary that was not counted, bytes of
  the next range dropped), and no property is stated about it.
- The idle timer's promise: the model has the stale timer that keeps others from
  being installed and the timer that races a new request; the code says
  nothing about either that could be checked.
- Copying, moving and assigning ring buffers; the asynchronous streams around
  them (their I/O thread takes a full buffer for the end of the stream:
  `byte_stream.cpp:281-290`), byte buffers and the filter chain.
- The audio player on Android and in a desktop browser, exceptions of
  `currentTime`, volume and rate, `touchInit`.
- Speech, embedded media, blank pages, escaping, synchronisation granularity and
  the offset into a clip of the media overlay player; spreads of two documents.
- The reflowable and the scroll view, the switch between views, and the place in
  a document a request names.
- The parts "components" lists as not modelled because they have no concurrency
  or no state of their own.

## What is left

In the order in which it would add most:

1. Executors: `serial_executor` over the pool (its lambda outlives it),
   `loop_executor`; then the generic run loop and futures, with continuations
   against `set_value`.
2. The asynchronous byte streams over two ring buffers and the filter chain.
3. The reflowable view: deferred page requests against a loading iframe.
4. `PackageServer`, continued: `-reset`, the document root of the server, and
   the package's retain count as a part of the look-up.
5. CFI comparison as a pure module.
