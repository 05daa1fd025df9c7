# A verification model of libAlazar

libAlazar drives an Alazar ATS9870 digitizer: it configures the board, keeps a
pool of DMA buffers going round between the board, a receive thread and the
application, and turns the samples into per-channel arrays.  This directory
holds TLA+ models of the parts whose correctness is hard to test, the TLC runs
that check them on small instances, and TLAPS proofs of the most important
results for every instance.  Paths below are relative to the repository.

## Inventory

| Component | State it keeps | Operations | Here |
|---|---|---|---|
| Acquisition engine: `rx`, `rxThreadRun`, `rxThreadStop`, `postBuffer` (`src/lib/libAlazar.cpp`) | `bufferQ`, `dataQ`, `ownerQ`, `bufferCounter`, `threadStop`, `threadRunning`, the thread | start, receive loop, repost, stop | `Acquisition` |
| C API (`src/lib/libAlazarAPI.cpp`) | one static `AlazarATS9870` per board | `connectBoard`, `setAll`, `acquire`, `wait_for_acquisition`, `stop`, `disconnect`, `register_socket`, `unregister_sockets`, `force_trigger`, `flashLED` | `Acquisition` (one board, one client thread), `BoardInformation` |
| Buffer queue (`src/lib/alazarBuff.h`) | a `std::queue` and a mutex | `push`, `pop` (locked), `clear` (not locked) | `Push`, `Head`/`Tail` and `ClearQueues` in `Acquisition` |
| Board configuration and buffer geometry: `ConfigureBoard`, `getBufferSize` | record, segment, waveform and round robin counts and everything derived from them | `setAll` | `ConfigureBoard` |
| Sample processing: `processBuffer` and its two variants | `ch1WorkBuff`, `ch2WorkBuff`, the application's arrays | place, scale, de-interleave, average | `ProcessBuffer`; with which counter a buffer is processed: `Process`, `RoundOf` in `Acquisition` |
| Socket transmission (in `rx`) | `sockets[2]`, `socketbuffsize`, what is left of a result | size-prefixed chunks per channel | `SocketTransmission`; one message per round robin in `Acquisition` (`RxSend`) |
| Board and ATS driver (not in the repository) | posted buffers, capture state | `AlazarBeforeAsyncRead`, `AlazarPostAsyncBuffer`, `AlazarStartCapture`, `AlazarWaitAsyncBufferComplete`, `AlazarAbortAsyncRead` | `AlazarBoard` (external) |
| Driver stand-in (`src/lib/alazarSim.cpp`) | a lock-free queue of pointers, a record counter | the driver's calls | `AlazarSim`; its buffer layout is `Byte` in `ProcessBuffer` |
| C example (`src/lib/apiExample.cpp`) | settings, counters, two files, a quit thread | parse, connect, configure, acquire, poll with a time-out, stop, exit | `ExampleClient` |
| Option parser (`src/lib/optionparser.h`, vendored, but the example's own front door) | the argument array, option buffer and lists, counts | `Stats`, `Parser`, `append`, `shift` | `CommandLine` (the meaning), `OptionParser` (the algorithm) |
| Board information and LED: `sysInfo`, `DisplaySystemInfo`, `DisplayBoardInfo`, `FlashLed` | the LEDs; loop positions | query, log, flash | `BoardInformation` |
| Python and MATLAB drivers (`src/python/libalazar.py`, `src/matlab/AlazarATS9870.m`) | settings, channel arrays | wrappers of the C API | the calls they make are `Acquisition`'s client's |
| Unit tests, error texts, logging, build files, containers | | | not modelled |

How they interact.  The application thread calls the C API; `acquire` posts a
pool of buffers to the board, starts the capture and creates the receive
thread.  Both threads then work on the queues (each operation under the queue's
mutex) and on the board, without any other lock:

    board --complete--> rx --dataQ--> wait_for_acquisition --bufferQ + post--> board
                        rx --chunks-> listener, then bufferQ + post ---------> board

`rx` waits on the board for exactly the buffer it popped from `bufferQ`, so the
order of `bufferQ` has to be the order of the board's FIFO although two separate
calls feed them.  `bufferCounter`, `sockets`, the geometry and the flags are read
and written by both threads at different points of a buffer's way.

What is hard: the two feeds of `bufferQ` and the board; a buffer pointer that is
alive only because some queue has a copy; `bufferCounter` read by one thread for a
buffer the other thread counted; a stop request arriving at any point of `rx`; a
pool smaller than the acquisition; driver calls whose failure is only printed;
`setAll` and socket (un)registration while a thread runs; a send that blocks while
the client stops, or that finds its socket gone between two chunks; 32-bit products
and fields left over from an earlier `setAll` in the geometry; a parser whose second
pass reads what its first pass moved; loops over boards whose return values read
inverted; and a client that ignores most return values and ends by a poll count.

What makes each component correct:

* engine: the board never writes into freed or still used memory, nor beyond a
  buffer's end; results reach
  the consumer once, in order and whole; no buffer drops out of circulation; calls
  return; stop leaves nothing behind;
* queues: FIFO, one element per operation, one producer at a time for the stand-in;
* geometry: buffers divide the acquisition equally, hold their records, and the
  application is told the right sizes;
* processing: a buffer's samples go to the place of that buffer in its round robin;
* sockets: what arrives is the stream of results, cut where the sizes say;
* parser: the options are those a plain left-to-right reading finds, and fit the
  arrays that were counted out for them;
* example: its files hold the results in order, it ends, and leaves nothing behind.

## Modules

**`AlazarBoard`** - the board as the library uses it: a FIFO of posted buffers,
how many of them are full, the capture number each buffer's memory holds, how long
the board was told it is (`length`), and the number of buffers the acquisition asked for.  The driver's source is not in the
repository; the actions say what the code relies on (buffers complete in posting
order; a wait on another buffer than the oldest fails; the abort gives up all
buffers) and what the stand-in does.  `BeforeAsyncRead` is refused while buffers are
posted: an assumption about the real driver, which matters only after an abort that
failed.

**`Acquisition`** - the engine and the API on one board.  The state is the class's
shared members plus a program counter and the local `buff` of each thread
(`rxpc`/`rxBuf`, `apc`/`apiBuf`).  An action is what a thread does between two
accesses to shared state, so `wait_for_acquisition` is four actions (pop, process,
push to `bufferQ`, post) and one turn of `rx`'s loop up to eleven.  `rxBuf` becomes
`NoBuffer` where the local `shared_ptr` goes out of scope.  `ownerQ` is kept as the
set of buffers it has copies of.  Samples are abstracted to capture numbers; the
channel arrays to the slots a round robin fills.  `appRound` and `sentRound` record
what was handed over last: the number of a round robin or `Torn` when its slots are
not the consecutive captures of one whole round robin.
`Faults` names the calls that may fail ("post", "start", "wait", "send", "abort"),
`MidRun` what the client may change while an acquisition is on ("sockets",
"setAll"); both empty is a disciplined client on a working board.
`AcquireReturn` waits for `ready`; `stop` when nothing runs only lowers
`threadStop`; `disconnect` is `stop`.  `force_trigger` and `connectBoard` change no
state of the engine.  `setAll` is atomic here and installs one of `Configs`, which are
what accepted calls leave: mixtures of refused ones are in `ProcessBuffer`.  `room` is what
each buffer was allocated with, `length` what it was last posted with, which is the
`bufferLen` of that moment; `PostedFits` compares the two, while `MemoryLive` and
`ExclusiveBuffers` are about which buffers are where, whatever their size.  A send is one
action, its return, for which `ThreadSpec` asks no fairness.

**`BufferStream`** - the abstract specification: while an acquisition is on, results
0, 1, 2, ... are delivered one by one, never more than its number of acquisitions.
`Acquisition` implements it three times (`AppStream`, `Ch1Stream`, `Ch2Stream`), with
`running` mapped to `threadRunning` and `last` to the last result handed over (for the
application only while buffers hold whole round robins, see `partial_polling`).
`SocketTransmission` implements it for the single floats each listener receives.

**`ConfigureBoard`** - `setAll` in detail: a call is refused before the record length
(`RefuseSetup`: any of the look-ups, range checks and driver calls of lines 92-278),
at the record length, or reaches `getBufferSize`; fields keep what earlier calls
left.  `\otimes` is `uint32_t` multiplication.  Each of the two searches of
`getBufferSize` is its list (`Factors`: every factor, each put in front of the smaller
ones), its test (`FittingRoundRobins`, `FittingRecords`) and its walk, which takes the
first that fits and breaks (`FirstFitting`).  `setAll` ends the process when it
divides by zero, at line 652 or 658 or, with a stale `recordsPerBuffer` larger than the
acquisition, at 323 (`NoNumber`); that is a result of its own, after which nothing happens.
Bound: no request has 2^32 - 1 round robins or records, with which the loops' own counter
would wrap to 0.

**`ProcessBuffer`** - `processBuffer` sample by sample, on top of `ConfigureBoard`: any
sequence of `setAll`, `acquire`, buffers processed in capture order and `stop`, polling or
sending.  A sample is its channel and place in the acquisition, an array element the bag
of samples added up in it and the divisor.  `Old` stands for whatever an array held
before the acquisition.  The rows of loops in the code are one set of source indices per
element (`Averaged`).  On a socket `rx` counts a buffer after it processed it; when a client
polls, `rx` counts on its own (`RxCounts`) and a buffer may be placed by a later count, which
`inStep` records.  `acquire` does not ask whether `setAll` was refused, and neither does
`Acquire`: acquisitions on a mixture of two configurations are explored, for where they
write.  Undefined behaviour is cut off: an index out of bounds sets
`overrun`, after which nothing is processed in that acquisition (`NoOverrun` says that it
does not happen after an accepted `setAll`; that
averaging several waveforms over several buffers does overrun is `work_buffer`).
`Byte` is the layout the stand-in gives a buffer.

**`AlazarSim`** - the driver stand-in under the engine: `AlazarWaitAsyncBufferComplete`
spins on its queue of posted buffers (no step while the queue is empty), takes the oldest
one, writes it record by record and returns.  How many records that is comes from one
`bufferLenBytes` for all buffers, that of the latest post (`LastPosted`), and from the
record length `AlazarBeforeAsyncRead` was given, not from the buffer.  It knows no trigger,
no time-out and no abort of its own queue beyond what the engine asks of it.  Bound: with
record length 0, which an acquisition begun before the first `setAll` has, the stand-in
divides by zero; that end is left out.

**`SocketTransmission`** - the engine on the stand-in, with `rx`'s loop over the chunks
of a work buffer: look at `sockets[]`, send the chunk's size, send its floats one at a
time while the socket has room, channel 1 before channel 2.  `rem`, `chunk` and `moved`
are `buf_size_rem`, `sock_send_size` and the progress of one `send`.  A socket that was
unregistered since the last look makes the next `send` fail and ends `rx`; a `send` under
way keeps its descriptor.  `Library` maps it to `Acquisition`: the buffer being filled is
still the head of the board's FIFO, and it is full when its last record is written.

**`CommandLine`** and **`OptionParser`** - `Meaning` is the reference: what a command
line stands for, read once, nothing moved.  `OptionParser` has the two passes of
`Stats` and `Parser`, each argument or character of a group one action, with `shift`'s
permutation of the array, the arrays' sizes, and the tagged circular lists of `append`;
`first` and `last` find a list's ends from any member by following its links, as the code.
An argument is a word, the terminator, a long option or a group of short ones.

**`BoardInformation`** - `connectBoard`'s walk over systems and boards.  Every query may
fail.  The return values are the code's: `FlashLed` returns 0, `DisplayBoardInfo` makes -1
of it, and the loops go on *because* of that.

**`ExampleClient`** - `apiExample.cpp` from its command line to its exit.  `main` is
the API thread of `Acquisition`, `rx` and the board go on beside it; `connectBoard` is
`BoardInformation`, the command line `CommandLine`'s `Meaning`, which `OptionParser`
computes.  Of the settings, `Setup` keeps what decides whether `setAll` survives: it does not
get past a null mode, a zero sampling rate or zero round robins ("fatal"), with other
numbers it may or may not ("risky"), and it may refuse anything.  The quit thread is one
action, possible at any moment after it was started; an end by it is "quit", or "aborted"
when `rx` runs.

**`AcquisitionProofs`**, **`StreamProofs`**, **`SocketProofs`**, **`FloatProofs`**,
**`GeometryProofs`**, **`ProcessProofs`**, **`ExampleProofs`**, **`ParserProofs`** - the
theorems.
**`MC...`** - constants for TLC.

Operators called `Bug...` are mutations of the definition that follows them; no
specification uses them.  They show that each property can fail.

## Runs

| Run | Question | Instance |
|---|---|---|
| `acq_streams` | Do rx, client and board agree on the buffers and their length, and do the client and the listeners get every result once, whole and in order? | pool of 3; acquisitions of 5 buffers, of 1 larger one and of two round robins of two buffers; stop and restart at any time, sockets or polling |
| `acq_robust` | Do memory safety, exclusive use, a clean stop, and the return of `acquire` and `stop` survive failing calls and a client that reconfigures and re-registers mid-run, when no send lasts for ever? | all faults but "abort", all mid-run calls; acquisitions of 3 and 1 buffers through a pool of 2 |
| `process` | Is the geometry an equal division into the largest buffers with the right sizes told, and is each result the round robin's samples or their average, on its channel, in order, within the arrays, as many as announced? | 25 requests in any sequence, accepted and refused mixed, acquisitions also after a refused one, on sockets or polled with `rx` counting on its own; sizes scaled to 12 and 24 |
| `options` | Do the two passes over the permuted arguments find what the command line means, within their arrays, with the options of each index chained in order? | every line of up to 3 arguments of 16 kinds, GNU and POSIX, buffer limit none or 2 |
| `example` | Are the files right, does the example end, leave nothing behind when `main` ends it, visit every board and leave no LED on? | 2 systems of 2 boards; 2 or 3 buffers through a pool of 2; post, start and wait may fail; "q" at any moment; 12 command lines |
| `sockets` | Does the engine on the stand-in, sending in chunks through sockets that fill up, implement `Acquisition`, deliver each listener's stream, keep frames whole, post from one thread at a time, and return from `stop`? | results of 3 floats in chunks of 2, sockets of 2 items; 3 results in buffers of 2 records through a pool of 2, and 1 in a smaller buffer; unregistering at any time |
| `partial_polling` (violation) | Is a polled round robin that spans buffers whole? | two round robins of two buffers |
| `work_buffer` (violation) | Does the work buffer hold the round robin that is put into it? | 80 requests, sizes scaled to 24 and 48 |
| `long_record` (violation) | Is a round robin equally divided when a record exceeds the preferred size? | records between the preferred and the maximum size |
| `huge_acquisition` (violation) | ... when the size of a round robin exceeds 32 bits? | the code's limits in units of 64 samples |
| `polled_average` (violation) | Is the average of a round robin of several buffers right on each channel? | one waveform, two buffers |
| `sent_average` (violation) | Does rx send the average of such a round robin? | the same |

Bounds.  In `acq_streams` acquisitions are longer than the pool by two buffers, so every
buffer goes round at least once and some twice, and two round robins of two buffers make
the pool of three wrap inside a round robin; in `acq_robust`, `example` and `sockets` they
are longer by one, enough for a buffer to go round.  In `acq_streams` and `sockets` the
buffers of one acquisition are larger than those of another; record lengths are 1, so that
`bufferLen` counts records.  No counter is bounded artificially:
`bufferCounter` and `captured` stop at the number of buffers asked for, and the example's
counters at its time-out.  Buffers are symmetric and `acq_streams` uses that; the runs
with liveness do not.  In `process`, round robins go one to four to a buffer or take two
buffers; six of ten round robins would fit where only five divide the ten.  `Word` is out
of reach there, and `huge_acquisition` is about reaching it.  In `options` three arguments
are an option, its value and a word in every order; a group of short options has up to
three characters; the descriptors have every kind of check, an alias, a repeated index and
the dummy.  In `sockets` a result is a whole chunk and a shorter last one, and a socket
that holds two items blocks inside nearly every chunk.  The listeners register between
acquisitions only, and for one acquisition each (`Unused`); `acq_robust` registers at any
time.

Fairness.  `ThreadSpec` has weak fairness of the receive thread and of the inside of
an API call: the operating system schedules both threads, and none of their steps waits
for the other except `join` and `ready`.  A send is not among them, because it blocks for
as long as the listener does not read and looks at no `threadStop`: `StopReturns` says that
`stop` returns unless `rx` is in a send for ever.  Nothing is asked of the board or the
client: `stop` and `acquire` return although no trigger ever comes.  `FairExampleSpec` has the
same of `main` and `rx`; nobody has to type "q" and no trigger has to come.
`ListenedSpec` adds that the listeners read (without it a send into a full socket blocks
`rx`, and `stop` in `join`, for ever), and `PolledSpec` that the client keeps polling,
which only delivery needs.  The client never has to stop.

What the violations show:

* `partial_polling` (code bug): `processPartialBuffer` takes the place of a buffer in
  its round robin from `bufferCounter` (`src/lib/libAlazar.cpp:733`).  On the polling
  path the call comes from the application's thread, after or before `rx` counted that
  buffer (line 465), so the place is off by one or more; a listener on a socket is not
  affected (`Ch1StreamSpec`), because there `rx` calls it before it counts.
* `work_buffer` (code bug): the work buffers are resized to `samplesPerAcquisition`
  (lines 330-331), in averager mode one record per segment; the partial averager puts
  all waveforms of the round robin into them (lines 745-751).
* `long_record` (code bug): if not even one record fits the preferred size, line 640 is
  never reached and `recordsPerBuffer` stays from an earlier call - or 0, and line 652
  divides by it.
* `huge_acquisition` (code bug): the product at lines 591-592 is computed in 32 bits
  before it is widened, so a round robin of 4 GB looks as if it fits.
* `polled_average` (code bug): line 746 starts channel 2's pointer from channel 1's work
  buffer.  Channel 1's average is made of channel 2's samples, channel 2's of what its
  work buffer happened to hold.
* `sent_average` (code bug): `rx` passes the work buffers as the result arrays, and lines
  756-757 clear them before they are averaged.

Also seen on the way, where no text of the repository says otherwise or where the
behaviour is outside the models:

* A `setAll` in the middle of an acquisition that makes the buffers larger lets the board
  write beyond their end: `postBuffer` posts a buffer with the `bufferLen` of the moment
  (line 556), which is not what it was allocated with.  TLC finds it when `MidRun` has
  "setAll" and the run checks `PostedFits` (register a socket, acquire, let `rx` process a
  buffer, configure, repost).  The theorems about lengths are for clients that configure
  between acquisitions.
* A `setAll` that is refused half-way leaves a mixture, and the next `acquire` works with
  it.  With an averager's arrays and the digitizer mode of a refused call (line 105),
  `processCompleteBuffer` writes half the buffer's samples into arrays of one average
  (lines 721-725): `NoOverrun` is violated without its `result = "ok"`.
* A polling client that is late has digitized round robins of several buffers torn as well
  (`partial_polling`): without `inStep`, `ResultsRight` and `ResultCount` are violated.
* "q" while `main` is inside `acquire`'s posting, before there is an `rx`, ends the process
  with status 0 and destroys buffers the board has; "q" during `connectBoard`'s flash leaves
  an LED lit.  `CleanExit` is about the ends `main` brings about.
* With "abort" among the faults `MemoryLive` fails: `rxThreadStop` only prints an abort
  that failed and clears the queues, against its own note at lines 534-538 - which is why
  the theorems below exclude that fault.
* A client that registers a socket in the middle of an acquisition, after polling, can
  bring `rx` and its own thread to the post at the same time; `OneProducer` is about
  clients that register between acquisitions (and unregister whenever they like).
* What a listener has not taken when `stop` returns is still in its socket, and the next
  acquisition's sizes and floats follow it: a client that keeps its sockets has to read
  them empty first.  `Begin` asks for that, and `FloatStreams` is about such clients.
* `--timeout -1` is accepted and stored in a `uint32_t` (`src/lib/apiExample.cpp:141`): the
  example then polls practically without end.  `Atoi` gives it a number like any other.
* One process that reads all of channel 1 before channel 2 deadlocks with `rx` once the
  sockets are full (line 426); the model gives each channel a listener of its own.
* With partial buffers the example counts, and writes, the -1 of a refused post as a
  result (`src/lib/apiExample.cpp:172`); with whole ones the result was complete.
* `--mode` takes no argument, so `acquireMode` is a null pointer whenever it is given, of
  which `ConfigureBoard` makes a string; `--roundrobins 0` and `--samplingRate 0` are divided
  by (lines 658 and 111).  All three end the process, unless `setAll` refuses before it gets
  there.  `atoi` reads "1e3", which `stod` accepted, as 1.
* A numeric option without a value makes a string of a null pointer too, in `Arg::Numeric`.
  Here the parser's own text says otherwise (`src/lib/optionparser.h:323-326`): a check
  function "will even be called if there is no argument.  In that case option.arg will be
  NULL."  Both `Meaning` and `OptionParser` have that end as the verdict "throws".
* `IsPcieDevice` is commented "Return 0 if board has PCIe" (line 1024) and returns true;
  its result only chooses what is logged.
* `boardInfo` returns the characters of a destroyed string; the function it calls is
  commented out, so it does not link at this commit.

## Proofs

For every set of buffers, every pool size, geometry, mid-run behaviour, and every set of
faults (except where "abort" is excluded by name), `AcquisitionProofs` proves:

* `TypeCorrect` - `Spec => []TypeOK`.  `TypeOK` alone is not inductive: the slots of a
  round robin have their type only because a thread never processes an empty pointer,
  so the induction carries `HeldBuffers` too.
* `CleanAfterStop` - `Spec => []CleanWhenStopped`, from `LifeInv`: the thread exists
  exactly while `threadRunning`, which calls can be under way with and without it, a
  stop request is pending only inside `stop`, and at the clear the board is empty.
* `BoardMemoryLive` - `Spec => []MemoryLive`.  The invariant is `OwnInv`: `ownerQ` has
  every posted buffer and every one about to be posted.  It needs `LifeInv`, because
  `ClearQueues` empties `ownerQ` and only the abort before it makes that safe.
* `BoardStaysInBuffers` - `Spec => []PostedFits`, for clients that configure between
  acquisitions.  `RoomInv`: in an acquisition, whatever is on its way back to the board - in
  a queue or in a thread's hands - was allocated with the `bufferLen` that will be given for
  it.  A fresh buffer does not disturb what is posted (`OwnInv`), and a new acquisition finds
  nothing on its way (`LifeInv`).
* `NoOverwrite` - `Spec => []ExclusiveBuffers`, together with the two invariants above:
  a fresh buffer is new to the board because everything posted is in `ownerQ`.

`ExampleProofs`, for every command line, number of boards, pool and geometry:

* `ExampleIsAClient` - `ExampleSpec => Spec`: each step of the example is a call of the
  library, a step inside one, or a stutter.  All of the above therefore holds of it.
* `ExampleLeavesNothing` - `ExampleSpec => []CleanExit`, from that, `CleanAfterStop`,
  the two invariants of `connectBoard` and `EndInv`: a process that `main` ended has no
  thread and no call under way.
* `ClientTypeCorrect` - `ExampleTypeOK`.
* `BoardsVisited`, `LedsTurnedOff` - `EveryBoardVisited` and `LedsOff`, both from
  `InfoInv`: until a system answers nothing has been looked at, then every board up to the
  current one, whose LED is on in odd phases of its flashing only.
* `FilesRight` - `ExampleSpec => []FileRight`, for buffers that hold whole round robins
  (`CompleteBuffers`; for others the property is false, see above) and any fault but
  "abort".  Unlike the stream theorems it has to follow a client that goes on after refused
  posts: `ResultInv` says that the next result `main` writes is the oldest capture it has
  not written, and that the application's hands, `dataQ`, `rx`'s hands and the board hold
  the next ones in order; `PlaceInv` where `main` is in the library when.

`StreamProofs` is about a client and a board without surprises, named as assumptions: `Reliable` (no call fails except `AlazarStartCapture`, whose result the code
only prints), `SocketsStay` and `GeometryStays` (no `register_socket`/`unregister_sockets`,
no `setAll`, while an acquisition is on).  What the code does without them is the subject
of the robust run and of the violations.  For every pool and geometry:

* `QueuesAgree` - `Spec => []QueueAgreement` (without `GeometryStays`).  The statement is
  inductive only together with `OneConsumer`: one of the two threads consumes, decided by
  the sockets, so at most one of them can stand between its push and its post.
* `BuffersGoRound` - `Spec => []NoBufferLost` (without `SocketsStay`).  It needs `CountInv`,
  which relates `bufferCounter` to what the board captured and says that it is below
  `nbrBuffers` while `rx` holds a buffer: the test before the repost never skips it.
* `InCaptureOrder` - `Spec => []CapturesInOrder`, from `OrderInv`, the same place by place:
  the full buffers on the board, the one `rx` holds, `dataQ` and the one the application
  holds carry consecutive numbers ending at `captured - 1`.  A DMA keeps it because the
  buffer it writes is none of these (`ExclusiveBuffers`).
* `ListenerOneStream`, `ListenerTwoStream` - `Spec => Ch1StreamSpec`, `Spec => Ch2StreamSpec`.
  `SendInv` says that a listener has had `bufferCounter \div buffersPerRoundRobin` round
  robins (one more between its send and the count) and that the work buffer holds the
  captures since the last multiple; the rest is division with a remainder.
* `ApplicationStream` - `Spec => AppStreamSpec`.  `AppInv`: the application has had every
  result before the oldest capture that is still to be consumed.

`SocketProofs`, for every pool, geometry, chunk and socket size, and `Disciplined` (no
injected fault, no `setAll` in an acquisition):

* `StandInImplements` - `SocketSpec => LibrarySpec`: the stand-in, with the chunked sending
  on top, is the board and the library of `Acquisition` with sends that may fail.
  `RefInv` says that the stand-in writes only into the buffer `rx` waits for and has counted
  the records of the buffers `rx` has taken - which needs `SizeInv`: whatever is posted in an
  acquisition has the length it was configured with, so the one length the stand-in keeps is
  that of the buffer it writes - and where in the loop over the chunks `rx` is:
  the step that ends a channel's last chunk is the one that maps to `RxSend`.

and, whatever the client does:

* `ProducersTakeTurns` - `SocketSpec => []OneProducer`, from `SendInv`: while a socket is
  registered, and until a buffer `rx` began to send is posted, `dataQ` is empty and the
  client is not inside `wait_for_acquisition`.
* `SocketsTyped` - `SocketSpec => []SocketTypeOK`.  It needs that a chunk is never empty
  while `rx` is in the loop, and that what is on a socket is sizes and floats, so that a
  listener's expectation stays a number: typing needs the frames and the frames the types.
* `FramesNeverTorn` - `SocketSpec => []FramesWhole`.  `FrameInv` says that what is on a
  socket can be read to its end from what the listener expects (`Frames`), and that what it
  then still expects is what `rx` has still to send of its chunk.  A failed send leaves a
  chunk open for good, on a socket nobody writes to any more.

and, for every failure but the abort's and a client that configures between acquisitions:

* `StandInWritesSafely` - `MemoryLive`, `ExclusiveBuffers` and `CleanWhenStopped` of the board
  that the stand-in is, and `WritesInside`: what it writes into a buffer ends where the buffer
  ends.  The stand-in takes a buffer off its queue before it writes to it; `FillInv` says that
  only `rx`, waiting, and `ownerQ` have it until the wait returns, and `SizeInv` and `RoomInv`
  give its lengths.  A larger `bufferLen` in the middle of an acquisition would overrun it.

`FloatProofs`, under `Disciplined`, with sockets unregistered and `stop` called at any time:

* `FloatsInOrder` - `SocketSpec => FloatStreams`, a refinement of `BufferStream` for each
  channel.  `CountedInv`: the buffer in `rx`'s hands is the one it counts next and below
  `nbrBuffers`, which in turn needs the stand-in's record count (`RefInv`).  `WorkInv`:
  while some channel stays registered, the work buffers hold the captures of the round
  robin so far, so the one that goes out is whole and the one that is due.  `FloatInv`: the
  floats on a channel's socket are, in order and without a gap, those between the last its
  listener took and `FloatsSent`, where `rx` is in the stream - the rounds done, the chunks
  done of this one, the floats gone of this chunk; `FramesNeverTorn`'s invariant makes what
  the listener takes for a float one.

`GeometryProofs`, for `setAll` with any sequence of requests, accepted and refused mixed:

* `GeometryTyped` - `TypeOK`; `BuffersExact`, `RoundRobinsDivided`, `RoundRobinDivided`,
  `BuffersLargest`, `SamplesTold` - the run's `BuffersHoldRecords`,
  `RoundRobinsDividedEqually`, `RoundRobinEquallyDivided`, `LargestBuffers`,
  `SamplesConserved`, all from `GeometryInv`, which says what the last accepted request
  left: the request itself, the divisor that was chosen and everything derived from it.
* `WorkBuffersFit` - the work buffers have room for the buffers of a round robin.

They assume `RegularRequests`: no product of a request exceeds 32 bits, and a record fits the
preferred buffer size or is refused.  `huge_acquisition` and `long_record` show what happens
without; the requests of the `process` run satisfy it.  `WorkBuffersFit` also assumes
`AveragesFit`, which excludes what `work_buffer` shows.  That both searches end with the
largest factor that fits has two parts: the list has every factor, at the place that is the
number of factors at least as large (`FactorsPlaced`), so it descends, and the first that
fits in a descending list is the largest (`FirstIsLargest`).

`ProcessProofs`, for the same requests and any sequence of `setAll`, `acquire`, buffers and
`stop`:

* `ProcessTyped`, `ResultsCounted` - `ProcessTypeOK`, through refused calls and acquisitions
  on what they left, and `ResultCount`: after an accepted call `processBuffer`
  announces exactly `numberAcquisitions` results over an acquisition.
* `StaysInArrays` - `NoOverrun`, under `AveragesFit`: after an accepted call every index the
  loops form is inside the array it is used on, whatever `rx` has counted.
* `ResultsAreRight` - `ResultsRight`: each finished result is its round robins' samples, or
  the sum over exactly its waveforms and round robins; polled round robins of several buffers
  as long as the counter was in step.  `GeometryWhileProcessing` carries the geometry theorems
  over to acquisitions.  The invariant is `Placed`: the
  buffers of an unfinished round robin are at their places in the array.  That the sum
  of samples is the bag of them (`TotalOfSamples`) is proved without induction: a smallest
  set on which the fold and the bag differed would be one element larger than one on which
  they agree.

`ParserProofs`, for every table of descriptors, command line, mode and buffer limit:

* `ParserTyped` - `ParserTypeOK`; `MeaningParsed`, `ArraysAreEnough`, `OrderKept` - the run's
  `ParsedAsMeant`, `ArraysSuffice`, `ArgumentsKeepOrder`.  None of them is inductive: that
  the second pass stores what the first has counted depends on what the first left in the
  array, and that on every step it took.  `ParseInv` says it, against `Meaning` from each
  argument on (`After`) and from each character of a group on (`ToCome`).
  In the first pass (`CountRun`), what was counted and what is to come are together the
  options meant, likewise the words; the array is unread behind the cursor, has the words
  passed before it and the options in front (`Sorted`); and these options can be read again
  (`Cuts`): each is followed by its value if it took one, and then by the option with which
  the meaning goes on.  In the second (`StoreRun`), the cursor is at one of these options,
  behind them at a word, or where the first pass stopped - the end, `--`, a word in
  POSIX mode or the option it found illegal (`Arranged`, `Ends`) - and the buffer is the
  beginning of what is meant.  An option that took no value may see another argument behind
  it the second time; that it still takes none is `OptionInType`.
  What `Meaning`'s two recursive functions say of one argument is proved for any function
  that is defined from its later values (`Recursion`: it exists; `SameFunctions`: there is
  only one), with a least counterexample instead of an induction.
* `ListsChained` - `ListsRight`.  The invariant (`Chained`) says of the buffer's positions
  what the heads and both links of every node are: two positions in a row of one index are
  linked, the last to the head, the first position's option is in the head and its own slot
  is a ring of one.  That `append` keeps it needs the node `last` finds: `first` is a
  recursive function over the links `append` changes, which the proof first shows to exist
  (`FirstWalks`, with the head of each position's index as the witness) and then to lead to
  that head from every position, with the least one from which it would not (`FirstIs`).

They assume of the board what `AlazarBoard` says, and the named assumptions on the
constants.  Lemmas on the contents of a queue after a push or a pop carry the sequence
reasoning.

Only model-checked: the violations, and all liveness - `AcquireReturns`, `StopReturns`,
`ExampleEnds`, `StopReturnsHere`, `AllReceived` - because fairness and ENABLED are out of the
prover's reach.  Every invariant and every refinement of the passing runs has a theorem.

## Plan

Done: the engine, the geometry, the processing, the sockets, the stand-in, the example with
its parser and `connectBoard`, the runs and the proofs above.  Left:

1. `AlazarBufferQ` at the grain of its mutex, refined to a FIFO, and `clear` without it.
2. A board that refuses posts after an abort.

Not modelled.  The Python and MATLAB drivers are wrappers that keep no state of their own
beyond settings and arrays; that the Python driver calls `setAll` in every `acquire` is
"setAll" in `MidRun`, and the MATLAB timer is outside the repository.  The unit tests were
read for what they expect.  Sample values and scaling, error texts, logging, `printUsage`
and the parser's abbreviated and single-minus long names (off in this program) are left
out.  A `send` that takes fewer bytes than asked, which needs a signal, is a failing send.
`std::thread` creation and memory allocation are assumed to succeed.  The accesses to
`sockets` and the geometry that race without a lock are modelled as atomic reads and
writes of the whole field.  A `setAll` in the middle of an acquisition changes the geometry,
`bufferLen` included; that it resizes the work buffers while `rx` fills them, and the C
arrays' contents then, is not modelled.
