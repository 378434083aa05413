# Models and proofs for the TSPi action camera

The repository holds the programs of an action camera built on a TaishanPi
board: a video recorder with preview, an IMU logger, a GNSS logger, a web page
to view the recordings, and the user interface (a binary without source). This
directory holds TLA+ models of their control logic, the TLC configurations that
check them on small instances, and TLAPS proofs of what the models promise for
every instance. `PROJECT.json` maps every definition to its lines of code.

## 1. The system

### Components

| component | state | operations | hard behaviour | what makes it correct |
|---|---|---|---|---|
| IMU data path (`IMU/src/sensor_read.c`, `logger.c`) | ring buffer with `head` and `count`, a mutex, the CSV file with its start time, a System V message queue | the sensor thread reads and stores; the logging thread looks, writes, sends, releases; file creation with retries and fallbacks | two threads and a signal handler; a blocking call under the mutex; failing storage | the ring is a FIFO queue; rows in order; few rows too many after a stop or from before a start; nobody is starved |
| IMU process (`IMU/src/main.c`) | flag `g_imu_recording`, the pipe `/tmp/imu_control_fifo` | start, stop, status; SIGTERM | handler frees what the threads use | no crash but in shutdown |
| IMU drivers and filter (`mpu6500.c`, `ak8963.c`, `i2c_utils.c`, `complementary_filter`) | registers of both chips, the sample being read, previous angles and time | initialise, read registers, compute angles | a chip that is set up in part, a read that fails or ends early, samples lost between two the filter gets | a sample is of one pass; no time is lost; the yaw stays within half a turn |
| Recording control (`Video/src/pipeline.c`) | flag in shared memory, command file, `is_recording`, `prev_state`, `thread_running`, two valves, the sink's file | poll, start, stop, monitor, clean up | two interfaces with their own memory; cleanup next to the thread; card pulled out; kill and restart | one file per request; valves agree with the flag; requests obeyed; the process comes to its end |
| Preview (`on_new_sample`, `shm_utils.c`) | frame in shared memory, semaphore `/preview_sem` | copy a frame | killed holding the semaphore; names unlinked under a user | one holder; whole frames; the preview never stops the recorder |
| Pipeline construction and configuration (`create_pipeline`, `config.c`) | a fixed graph, two leaky queues behind a tee | build | a branch that stops takes the other with it | the recording does not depend on the preview; the frame fits the memory |
| Video process (`Video/src/main.c`) | what it has acquired | acquire, run, release | failure half-way | everything it has for itself is released |
| Command pipes (`command_listener_thread` twice, `GNSS/src/gnss_control.c`) | a named pipe, the running flag | open, read, close, act; open, write, close | rendezvous, concatenation, data lost with the pipe, SIGPIPE, restart | a command is carried out once, in order, and not lost |
| GNSS files (`gnss_reading_thread`) | `json_filename`, `is_first_entry`, `last_record_time`, the files | create, record, end, begin anew | storage fails, device missing, names by the second, kill | files are JSON arrays; records spaced; nothing overwritten |
| GNSS display and process (`ui_update_thread`, `GNSS/src/main.c`) | the pipe `/tmp/gnss_ui_fifo`, the running flag, what each thread has open | send a number, start, stop | two writers, a display that opens and closes at any time, SIGPIPE, the pipe made anew | no thread is held up; a display that listens gets a number |
| NMEA parser (`parse_nmea`) | the data of earlier reads | fields of a GGA sentence | empty fields, sentences that are cut off | each datum comes from its own field |
| Web viewer (`app/web/index.html`) | tab, list, file on show, the map object | list, show, load GNSS and IMU data, go back | answers out of order or after the file was left; the map's library not loaded | what is shown belongs to one recording; the map can always be made |
| `save_to_json`, `imu_utils.c`, `utils.c` | - | not called | - | - |
| User interface (`app/lvgl/lvglsim`), web server (`app/web/civetweb`), `DTS/`, vendored headers, build files | external | - | - | - |

### How they interact

- The user interface writes the recording flag (System V shared memory 5678) and
  the pipes of the two collectors; anybody may write `/tmp/record_cmd` or run
  `gnss_control`.
- The logging thread of the IMU sends every row to message queue 0x1234. The
  sources of the repository contain no receiver.
- The recorder puts frames into shared memory 1234 under `/preview_sem`; the user
  interface takes them.
- The GNSS collector sends the number of satellites to the user interface over
  `/tmp/gnss_ui_fifo`.
- All three recorders write files named after the second of their creation to
  `/mnt/sdcard`; the web viewer derives the names of the GNSS and IMU files from
  that of the video.

## 2. Modules

| module | models | abstract specification |
|---|---|---|
| `SampleQueue` | what the ring buffer promises: a bounded queue that drops the newest sample | - |
| `ImuLogger` | sensor thread, logging thread, command listener's effect, signal handler | implements `SampleQueue` |
| `ImuLoggerProofs` | theorems about `ImuLogger` | |
| `RecordControl` | `record_control_thread`, `start_recording`, `stop_recording`, `monitor_pipeline`, `cleanup_pipeline` | |
| `RecordControlProofs` | theorems about `RecordControl` | |
| `CommandFifo` | `command_listener_thread` (GNSS and IMU) and `gnss_control` over the kernel's pipe | |
| `CommandFifoProofs` | theorems about `CommandFifo` | |
| `GnssCollector` | `gnss_reading_thread` and its files | |
| `GnssCollectorProofs` | theorems about `GnssCollector` | |
| `VideoProcess` | `Video/src/main.c`, `shm_utils.c`, `config.c`, and of `pipeline.c` the construction, `on_new_sample`, start and cleanup | |
| `VideoProcessProofs` | theorems about `VideoProcess` | |
| `ImuSensors` | start-up of the IMU process, both drivers, the reading loop, time step and yaw of the filter | |
| `ImuSensorsProofs` | theorems about `ImuSensors` | |
| `NmeaParser` | `parse_nmea` | |
| `GnssProcess` | start and end of the GNSS process, `ui_update_thread`, the reading thread's sends | |
| `WebViewer` | the script of `app/web/index.html` | |
| `WebViewerProofs` | theorems about `WebViewer` | |
| `MCEdges` | `ImuSensors`, `NmeaParser`, `GnssProcess` and `WebViewer` side by side, for TLC | |
| `EdgesProofs` | theorems about `NmeaParser`, `GnssProcess` and `MCEdges` | |
| `MC...` | the module of the same name, for TLC; constants are in the `.cfg` files | |

`RecordControl` and `VideoProcess` are two views of one process. `VideoProcess` reduces
the control thread to running or ended, as `cleanup_pipeline` sees it; `RecordControl`
reduces the rest of main to what surrounds the recording. `CommandFifo`,
`GnssCollector`, `GnssProcess` and `NmeaParser` divide the GNSS process in the same way:
they share the running flag, which each lets change at any time.

### ImuLogger

One program counter per thread (`spc`, `lpc`) and one for the handler; a step is
what a thread does between two points at which another thread can observe it:
taking the mutex, filling a slot and loading `count`, storing `count`, copying the
oldest sample and testing the recording flag, each test of `write_to_csv`, the
`fprintf`, the `msgsnd`, the release. A sample is the number of its reading. `raw[]`
of the buffer is never read and is left out. A file is one of three kinds: dated
(on the card or in `/tmp`), the emergency file, none; `expired` stands for the test
of the file's age. What handle_signal does is modelled statement by statement, with
the other threads running on; a row printed to a stream that is being closed is
undefined, so it may appear, be lost, or crash the process. `EMPTY_LIMIT` counts
the polls between two dummy rows modulo its value. `msgsnd` blocks while the queue
holds `MSG_CAPACITY` messages.

### RecordControl

The control thread and the main thread each have a program counter; the functions both
call, `stop_recording`, take the thread as parameter. A step is one access to shared
state: the flag in shared memory, the command file, `is_recording`, a valve,
`thread_running`. `is_recording` and the valves are not protected by any lock, as in the
code. GStreamer is reduced to what the code asks of it: the `drop` property of the two
valves, the sink's new file, an error on the bus. A process has no control thread
(`pc["control"] = "none"`) when its pipeline cannot start, with an error on the bus, and
when `pthread_create` fails, without one: then the pipeline plays on and nobody looks at
the flag or the command file. `refused` says that the start the thread is in was given
up on the card; it is forgotten when the thread returns. A killed process keeps the
shared memory and the command file. A command whose file is removed between the shell's
open and its write goes nowhere (`writer = "orphan"`).

### CommandFifo

The kernel's pipe is external but is where the difficulty lies, so it is modelled
after pipe(7) and fifo(7) as the code uses it: an open waits for the other side; a
waiting reader or writer counts as one; a read takes all there is, or waits for it
while there is a writer, or returns nothing; a write without reader ends the writer;
the data goes with the last descriptor. A pipe that was unlinked and made anew
leaves its users with the old one (`stale`). A `mkfifo` that fails, because the name is
there again or for another reason, ends the listener for good (`"ended"`) and the
collector goes on without it; an open that fails is tried again (`OpenFails`,
`TryAgain`). The buffer of 20 bytes holds three
commands; `MaxCommands` keeps to that, so that a command is never cut in two. The
commands carry their number in the order of writing for the properties only.

### GnssCollector

A file is the sequence of brackets, commas and records in it. The action
`EmptyFile` is `fopen(..., "w")` in each of its three places, and what is printed
until `fclose` reaches the file in the following step, as the stream's buffer does;
appending is one step. Each fopen may fail. Time is a number of seconds that only
moves forward, in any step relative to the thread. Two of the intervals of the code
are constants, `RECORD_INTERVAL` (10) and `BACKDATE` (15). `sleep` is left out: any
number of other steps may happen between two of a thread. The contents of a record
are left out; what is sent to the display afterwards is in `GnssProcess`.

### VideoProcess

Segments and semaphores are numbered as the kernel makes them; `key` and `name` say
which of them the next `shmget` or `sem_open` finds, so that a process can hold an
object whose name is gone. `rec` and `ui` are what the two processes have attached and
opened. `record_control` is the life of the third shared object, the segment of the
recording flag under its own key: `init_record_control` makes it if it is missing,
`cleanup_pipeline` only detaches it. `main` is the program counter of the main thread:
one step per call that acquires or releases something, each of which may fail as the
code provides for. `stream` is the streaming thread in `on_new_sample`; `memcpy` is two
steps, so that a reader may see half of a copy. The two queues behind the tee are
GStreamer's, with the property `leaky` as `create_pipeline` sets it: `Takes` says
whether a branch accepts a frame, and the camera waits for both. Going to NULL empties
the queues and then waits for the streaming thread (`Flush`, `Drain`). A frame is 0 or 1
in turn, which is enough to tell one from the next. The user interface is a binary; it
is taken to open both objects in any order, to copy under the semaphore, and to be
killed anywhere. `had`, `lost`, `removed` and `cut` are history.

### ImuSensors, NmeaParser, GnssProcess, WebViewer

`ImuSensors`: a chip is open or not, with some of its registers written; a read yields
nothing, a part, or all bytes, and only a full one changes `raw`, whose parts carry the
number of the pass that read them. Angles are integers with a half turn of `PI` units;
the filter's weights are percentages. The two `while` loops of the normalisation become
the number of turns they take off.

`NmeaParser`: a sentence is the set of its fields that are not empty, a token the name of
its field, so that the parser's result says from where each datum came. `strtok_r` takes
a run of commas for one, so the n-th token is the n-th field that is there (`Number`,
`Tokens`). `gnss_data` keeps what a sentence does not replace, as the thread's variable
does.

`GnssProcess`: a pipe is the number of numbers in it; `path` is the pipe found under its
name. The two threads have a program counter each and a flag that says whether they have
made their pass since the last `Tick`, which stands for the `sleep`s. A send is an open
that fails without a reader, and a write that ends the process if the reader has gone
since, because nothing ignores SIGPIPE.

`WebViewer`: an opening of a file is an entry of `opened` with the state of its two
requests; `await Promise.all` is the condition that both are answered. Nothing in the
page cancels an earlier opening, so answers of all of them may arrive at any time, also
after `backToList`. `leaflet` says whether the library, which the page loads from the
Internet, has come; it does not change while the page is open. What `initMap` throws,
because `L` is not defined or because Leaflet refuses the element, ends in the `catch`
that empties the player (`Throws`). `initialised` is Leaflet's own mark on the element,
`mapInstance` the page's idea of it.

## 3. What the runs check

Every constant named `Max...` is a bound of the model.

| run | instance | result |
|---|---|---|
| `imu` | 2 slots, 3 samples, dummy row at every empty poll, 1 message, receiver, signal | all hold |
| `imu_live` | 1 slot, 3 samples, receiver, no signal, fairness | all hold |
| `imu_no_reader` | the same, no receiver | **`SensorNotStarved` fails** |
| `imu_emergency` | 2 slots, 2 samples | **`EmergencyFileTakesRows` fails** |
| `record` | 2 requests, card comes and goes, errors, 1 restart, fairness | all hold |
| `record_flag` | 2 requests, good card, no restart, fairness | **`FlagTellsState` fails** |
| `fifo` | 2 senders, 3 commands, 1 restart, a `mkfifo` or open that fails, fairness | all hold |
| `fifo_careful` | 2 senders, 2 commands, each sent after the last was carried out | **`SentIsReceived` fails** |
| `gnss` | interval 2 s, 2 s of time, 2 starts, any fopen fails, device comes and goes, 1 restart, fairness | all hold |
| `gnss_storage` | 3 s of time, otherwise the same without restart | **`EndedFilesAreArrays` fails** |
| `video` | queues of 1 frame, 2 starts of the recorder, 1 of the user interface, any step fails, kills, fairness | all hold |
| `edges` | sensors: 3 passes, 3 rates, 4 time gaps; parser: sentences cut at 3 places; display: 2 starts, 3 switches, 2 openings, fairness; page: 2 recordings, 3 openings, with and without Leaflet | all hold |

`CHECK_DEADLOCK FALSE` is set throughout: with the inputs bounded, each system comes
to rest (no more samples, commands or seconds), and the recorder and the IMU process
may end.

**Why the bounds are enough.** In `imu`, two slots and three samples fill the ring, drop
a sample, and wrap both indices around, with a file change and a signal at every point;
with one slot (`imu_live`) the ring is full or empty at each step. In `record`, two
requests are the least with which a request can meet the traces of an earlier one (flag
against command, command against flag, restart against command file). In `fifo`, three
commands of two senders can run together in all ways the buffer has room for, and a
restart finds each sender at each of its steps. In `gnss`, the port's opening makes a
record due at once and another falls due two seconds later, so that a file receives two
due records; two collections make the thread use a second file; the restart may come at
any step, in the same second or later. In `video`, a queue of one frame is full and
drops at once; frames in a longer queue differ in age only, and no property asks for the
age. The second start of the recorder finds what the first left in every state, ended or
killed at every step; a user interface started at any time meets both. (Two frames and
two starts of the user interface, without the liveness properties, were checked as
well.) In `edges` each behaviour is one of a component by itself, chosen in the first
state: the four share no state, so interleaving them would show nothing more. Three
passes of the sensor loop are the least in which a sample can be lost between two the
filter gets, and gaps of one unit, two, more than `MAX_DT` and minus one are one of each
kind; a rate of five against a half turn of three needs the normalisation more than
once. The pipe of the display holds two numbers, so that it fills up; two starts and two
openings let it be made anew under a display that has it open. Three openings let the
answers of two files cross while a third is shown.

**What holds.** For the IMU: rows in the order of the samples and none twice
(`RowsInOrder`); at most `BUFFER_SIZE + 1` rows from before a start
(`StaleRowsBounded`); at most one row after a stop (`AtMostOneRowAfterStop`); of the
samples taken before a dummy row only the one in the sensor thread's hand may follow it
(`DummyRowsInOrder`, which is not about the row that a new file begins with); the ring
implements the queue (`ImplementsSampleQueue`); with a receiver, no starvation and no
sample that stays (`SensorNotStarved`, `SamplesReleased`); no use of a closed file
before a signal (`CrashOnlyInShutdown`). For the recorder: valves agree with
`is_recording` whenever the thread is not inside a start or a stop (`ValvesMatch`); a
request makes one file at most, except that a killed process may obey a command twice
(`OneFilePerRequest`); a change the thread gets to see is obeyed, unless the start is
given up on the card this very time or the process has no control thread (`FlagObeyed`);
cleanup ends (`CleanupFinishes`). For the pipes: commands are carried out once and in
the order of writing (`EachCommandOnce`); a sender that has a waiting listener to itself
is obeyed (`LoneCommandObeyed`); senders do not hang while the listener of their pipe is
at work (`SenderReturns`): a sender whose pipe a later collector has replaced, or whose
listener has ended, does wait for ever. For the GNSS files: as long as every fopen
worked, files are JSON arrays or beginnings of one (`FilesAreArrays`) with spaced
records (`RecordsSpaced`); a step only adds to the end of a file, but for a file whose
name is computed again in its second (`RecordsKept`); a stop that comes while the serial
port is open ends the array of the file in use, also when the thread is in its blocking
read (`StopEndsArray`), unless the file cannot be opened, collection is started again or
the process ends. A stop while the port could not be opened ends nothing: the array
stays open until a later collection is stopped.

For the preview: every semaphore is free, held by one process, or was held by one that
was killed (`OneHolder`); what is shown is one frame (`WholeFrames`), even when the
recorder is killed in the middle of a copy, because the semaphore it leaves taken keeps
everybody from its half-written frame. TLC found the exceptions, which the property
names: a kill between `sem_unlink` and `IPC_RMID`, and an orderly end of the recorder
while the user interface has opened only one of the two objects, or after a process was
killed under the semaphore, leave a semaphore and a segment that do not belong together.
A kill and restart of either process does not separate the two; an orderly end of the
recorder does (`KillKeepsPreview`): the user interface keeps the old segment and shows
its last frame. `on_new_sample` uses nothing that is released (`NoUseAfterRelease`), and
whichever step of main fails, it returns with nothing open or attached and with the
preview's segment and semaphore removed (`AllReleased`). The segment of the recording flag
stays: nobody removes it, and a process that got as far as `init_record_control` always
leaves it behind. `AllReleased` is not about the calls of `exit` in `init_semaphore` and
`init_record_control`, which remove nothing. A frame gets through
(`PreviewFlows`) and cleanup ends (`CleanupEnds`), both unless a process was killed
holding the semaphore: then `on_new_sample` waits for ever, and with it every later
recorder's cleanup. The recording goes on all the same, because both queues of the tee
are leaky (`EncoderFed`).

At the edges: a sample the filter gets is of one pass (`SampleOfOnePass`), time lost to
drops and failed reads is made up for as long as no gap between two samples is zero,
negative or longer than `MAX_DT` (`AllTimeIntegrated`), the yaw is in range
(`TypeOK`). A datum of a record comes from its own field unless a sentence had an empty
one (`DataFromOwnField`): without a fix, `strtok_r` moves the satellites to the place of
the longitude or latitude. No send holds a thread up (`SendersReturn`), at the price that
a display which closes the pipe between open and write ends the collector; a display
that has the pipe open gets a number (`DisplayFed`) unless it made the pipe in the moment
between the collector's `unlink` and `mkfifo`, which ends `ui_update_thread`. On the page
the details are those of the file that plays (`DetailAgrees`) as long as no file is opened
while answers for another are due; otherwise the last answer wins. Without the Leaflet
library a file that has a place to show does not even play: the `catch` empties the
player and blames the video. Leaflet never refuses
a map (`MapKnown`).

**What does not hold**, each with the line it contradicts in `PROJECT.json`: the
sensor's 200 Hz when nobody receives messages; the emergency file; the meaning of the
recording flag; the delivery of a command reported as sent; the completed JSON file
after a failed creation.

### Fairness

- `ImuLogger`: weak fairness of each thread once it is past the sensor reading,
  strong fairness of taking the mutex: both threads sleep outside the critical
  section, so the mutex is free again and again, and a waiting thread gets it. The
  receiver of the messages, where there is one, keeps receiving. Samples, commands,
  days and signals are not forced.
- `RecordControl`: both threads of the process are scheduled. The user interface, the
  shell, the card and GStreamer's errors are not forced.
- `CommandFifo`: the listener is scheduled, and so is a sender between its open and
  its end. The listener's open, tried every five seconds, does not fail for ever (strong
  fairness of `OpenToRead`): it fails only for want of descriptors or memory. Nobody has
  to send.
- `GnssCollector`: the thread is scheduled, and its blocking read returns sooner or
  later. The receiver sends sentences all the time and reading an unplugged one
  fails; a receiver that falls silent would hold up a stop.

- `VideoProcess`: main, the camera and both threads behind the queues are scheduled. The
  user interface finishes a read it has begun, which it does in a few instructions.
  Taking the semaphore is strongly fair: the user interface holds it for one copy in a
  refresh of its screen, so that it is free again and again when `on_new_sample` is woken.
  Neither kills nor errors are forced.
- `GnssProcess`: both threads are scheduled and time passes. The display is not forced to
  do anything.

## 4. Proofs

`ImuLoggerProofs` proves seven theorems about `ImuLogger` for every `BUFFER_SIZE`,
`EMPTY_LIMIT` and `MSG_CAPACITY` (positive naturals, `SizeAssumption`), with or without
a receiver and a signal, and for any number of samples: all safety properties of the
runs `imu` and `imu_live`, and the refinement.

The argument goes through invariants of which each uses the earlier ones:

1. `TypeOK /\ CountInv` (lemma `Typing`). `CountInv` says that the loaded `count` is
   still below `BUFFER_SIZE` when it is stored, and that the logging thread releases
   only if there is a sample; without it `count` need not stay in range.
2. `MutexInv`: while the mutex is not destroyed, a thread inside its critical section
   holds it.
3. `DataInv`: what each thread keeps in a local variable is still what the ring says,
   because of 2.
4. `OrderInv`: the rows, the sample in the logging thread's hand, the window of the
   ring in its order and the sample in the sensor thread's hand form one increasing
   sequence. `RowsInOrder` alone is not inductive: it says nothing of what is still to
   be written.
5. `DummyInv`, `StaleInv`, `FileInv`, `StopInv`: the marks of the history variables
   against 4. `StaleInv` counts, for each slot that holds a stale sample, the stale rows
   written and those ahead of it.

The arithmetic of the ring is in lemmas of its own: `Wrap` (an index modulo
`BUFFER_SIZE`), `TailIsFree` (the slot behind the window is not in it), `Advance` and
the `Win...` lemmas (what storing and releasing do to the window as a sequence). With
them `RingImplementsQueue` shows that every step is a step of `SampleQueue` or leaves
it unchanged, until the handler destroys the mutex. After that nothing is promised of
the ring, and every statement about it is restricted to `MutexAlive`.

`CommandFifoProofs` proves `TypeOK` and `EachCommandOnce` for every set of senders
and any number of commands and restarts. `EachCommandOnce` speaks only of the commands
in the listener's hand and is not inductive: an unordered pipe would be read. `PipeInv`
adds the pipe: what is in it is in order and younger than what is in hand, which is
younger than what was carried out. Every loss in the kernel (a last close, a write
without a reader, a crash) empties the pipe and keeps this (lemma `LosingIsSafe`).

`VideoProcessProofs` proves `TypeOK`, `OneHolder`, `NoUseAfterRelease`, `AllReleased`
and `KillKeepsPreview` of `VideoProcess`, for every `MAX_BUFFERS` and any number of
starts and kills of both processes. The inductive invariant `VideoInv` has four parts,
which need each other and are kept by a step together:

1. `TypeOK`. A semaphore stays 0 or 1 only because whoever posts it holds it, by 4.
2. `MainInv`: what `rec` has, and what is found under key and name, as a function of the
   step `main` is at, whether the recording flag's segment is attached or left behind, and
   that a frame is copied only before `Drain` is over. This is what
   `cleanup_pipeline` relies on when it sets the pipeline to NULL before it closes the
   semaphore and main detaches the memory; `NoUseAfterRelease` alone says nothing of it.
3. `UiInv`: the user interface has opened what it uses, and what it has opened is still
   found under key and name unless something was removed.
4. `HoldInv`: each semaphore's value against its holders and `lost`, as a sum;
   `Counted` turns it into the cardinality in `OneHolder`.

A segment or semaphore that is made gets a number nobody has yet (lemmas `Segments`,
`Semaphores`), so a new object never matches an old handle.

`FramesWhole` (`WholeFrames`) rests on `VideoInv` and on `FrameInv`, which has three parts
that are kept together as long as no exception has happened (`~cut`):

1. `PairInv`: the semaphore the user interface has open is the one that goes with its
   segment, but for the moment between `sem_unlink` and `IPC_RMID`.
2. `TornInv`: a segment with halves of two frames is being copied to, or whoever could
   read it would need a semaphore that was lost with a killed holder (`Guards`).
3. `HalfInv`: how far each copy has come.

A reader has the semaphore, so by `HoldInv` nobody copies to its segment and the
semaphore is not lost; by 2 its segment is whole (lemma `ReaderAlone`). TLC had checked
`FrameInv` for one buffer and three starts of the recorder and two of the user interface.

`RecordControlProofs` proves `TypeOK`, `ValvesMatch` and `OneFilePerRequest` for any
number of requests, restarts, errors and changes of the card. The inductive invariant is
`ControlInv`, which TLC had checked:

1. `ValveInv` says at each step of `start_recording` and `stop_recording` how the two
   valves and `is_recording` stand. Nothing locks them; what keeps them together is that
   only the control thread writes them until `cleanup_pipeline` begins.
2. `RequestInv`: a request that has not made its file yet is in one of three places, the
   flag, the command file, or the thread on its way to the file, and
   `files + Pending <= requests + restarts`. `OneFilePerRequest` by itself says nothing of
   what is still to come. The definition of the three places is the argument: a flag
   that is set counts only if the thread will see it change, which it does not when it is
   the thread that has set it, in `Return`, after a "start" command.
3. `CommandInv`: what the thread does for the command file is what it has read there.

A restart may obey the command file again, and is counted. When `cleanup_pipeline` has
begun no claim is made of the valves, and the count need only hold for the files made.

`GnssCollectorProofs` proves `TypeOK`, `FilesAreArrays`, `RecordsSpaced` and the action
property `RecordsKept`, for every `RECORD_INTERVAL`, `BACKDATE`, storage and number of
starts and restarts, and any end of time. `MaxTime >= RECORD_INTERVAL` is assumed because
the clock of the model starts at `RECORD_INTERVAL`. The inductive invariant
`CollectorInv` (checked by TLC first) adds to the types and the spacing:

1. `ArrayInv`: the step the thread is at says what is in the file in use: nothing, or an
   array that was begun and ends in a record, so that a comma or the end may follow.
2. `SpaceInv`: no record of the file is later than `last_record_time`. That is not plain,
   for opening the serial port sets it back by `BACKDATE`: the records that are then later
   are those of a missing device, and until then the file has none of the other kind.
3. `ReuseInv`: a name that is about to be opened for writing and is in use was found in
   use when it was computed.

With them `WrittenStays` shows that every step leaves a file as a beginning of what it is
after the step, but for the one exception the property names.

What appending does to an array is in the lemmas `BeginsArray`, `RecordsArray` and
`EndsArray`, what it does to the spacing of its records in `RecordsSpacedOut`.

`WebViewerProofs` proves `MapKnown` and `DetailAgrees` for any recordings and any number
of openings. `MapKnown` is inductive with the types. `DetailAgrees` is not: `DetailInv`
adds that only the newest opening is due (unless files were opened too early), that it
is of the file chosen last, and that once it is answered the details on show are its
own, or the player is empty because its map is due and Leaflet is missing
(`NoMapToShow`).

`ImuSensorsProofs` proves `SampleOfOnePass`, `AllTimeIntegrated` and, as the type of
`yaw`, that the filter's yaw stays within half a turn, for all rates of turn, headings
and gaps between samples in the ranges the constants give; `AllTimeIntegrated` itself
only speaks of behaviours without a gap that is zero, negative or longer than `MAX_DT`.
`ReadInPass` says that what has been read of a sample belongs to the pass that is going
on, `TimeKept` that `prev_ts` is the time of the last sample the filter got.
`TurnsSuffice` and `NormaliseInRange` are the arithmetic of the two normalisation loops.

`EdgesProofs` has the two other components of the run `edges`. `DataStayInPlace`
(`DataFromOwnField`) holds for reads that end after any of the 14 fields: a sentence of
the receiver either has an empty field in front of a datum or is the beginning of the
full one (`SentenceKinds`), and in a beginning every token is at the place of its field
(`PrefixInPlace`, by the cardinality of an interval). `DataMoveUpOnly` says what remains
true with empty fields: a datum comes from its own field or a later one, because the
number of a field among those that are there is at most its place, and grows
(`NumbersGrow`); so there is also one token at most for each position (`TokenIsOne`).
`DisplayTypes` is the type invariant of `GnssProcess` for pipes of any size and any
number of starts, commands and openings. It says that no pipe is overfilled and that
every handle is a pipe that was made; for that, `WriterHasPipe` says that a thread about
to write has one open, and `NoThreadWithout` that a process that does not run has no
threads. `EdgesTypes` puts the four components together.

Only model-checked:

- The liveness properties (`SensorNotStarved`, `SamplesReleased`, `FlagObeyed`,
  `CleanupFinishes`, `LoneCommandObeyed`, `SenderReturns`, `StopEndsArray`,
  `PreviewFlows`, `CleanupEnds`, `EncoderFed`, `SendersReturn`, `DisplayFed`): the prover
  has no rule for fairness, which is defined with ENABLED.
- The properties of the runs that find a disagreement: there TLC's counterexample is the
  result.

Every other property of a passing run is stated by a theorem.

## 5. Not modelled

- Roll and pitch of the filter: weighted means without a case distinction, and no
  statement about them in the repository. They are not normalised as the yaw is. The yaw
  is blended with the magnetometer's angle as a plain mean, which is far from both when
  they lie on either side of half a turn; nothing says what should come out.
- The scaling of register values. `mpu6500.c:28` says "±8g" of a register that is
  converted with 16 g in lines 60 to 62: a constant, not a behaviour.
- The value of the number sent to the display. `current_gnss_data` is never written, so
  `ui_update_thread` sends 0 and the reading thread the right number in turn.
- Layout, texts, styles and the map's tiles on the web page; escaping and formatting of
  names and sizes. The page looks for GNSS and IMU files with the second of the video in
  their names, while each recorder names its files by the second of its own start; and a
  GNSS file holds an array, of which `initMap` finds no coordinates, so that only the
  default place and the example are ever shown on a map.
- `save_to_json`, `imu_utils.c`, `utils.c`: nobody calls them.
- `imu_test.txt`, which nothing reads; a `pthread_create` that fails in the IMU process.
- The delays of retries: a file creation is one step. The encoder's frames in flight when
  a valve closes, and what the muxer writes at the beginning of a second file, are
  GStreamer's.
- Two recordings in the same second; a clock that is set back under the GNSS files.
- Binaries (`lvglsim`, `civetweb`), `DTS/`, build files, and the headers of the board's
  media libraries under `Video/usr`. The latter are more than two thirds of the lines of
  code in the repository and hold no behaviour, which is why the share of lines the map
  covers cannot be high: of the programs' own C files it covers about four lines in five,
  of the page the script without its example data and texts.

## 6. Plan

1. Done: all modules of section 2; proofs of every safety property of the passing runs,
   and of the refinement of `SampleQueue`.
2. Left:
   - `GnssProcess`: beyond types, that what is in a pipe is lost exactly when neither a
     sender nor the display has it open.
   - The steps towards liveness that need no fairness: that each step the fairness
     conditions name brings the system nearer to what is promised.
