---------------------------- MODULE VideoProcess ----------------------------
(***************************************************************************)
(* The video process from start to end, and the preview (Video/src/main.c, *)
(* shm_utils.c, config.c and the preview part of pipeline.c).              *)
(*                                                                         *)
(* A tee hands every frame of the camera to two queues that drop their     *)
(* oldest frame when full.  The thread behind enc_queue encodes; the       *)
(* streaming thread behind app_queue runs on_new_sample, which copies a    *)
(* scaled frame to shared memory while it holds the named semaphore        *)
(* /preview_sem.  The user interface, another process, reads the frame     *)
(* under the same semaphore.                                               *)
(*                                                                         *)
(* Segments and semaphores belong to the kernel: a killed process leaves   *)
(* them as they are, with the value the semaphore had; cleanup removes     *)
(* key and name, and then a process that still has the objects keeps them. *)
(* Recording is in RecordControl; of its segment only the life is here.    *)
(***************************************************************************)
EXTENDS Naturals, Sequences, FiniteSets

CONSTANTS
  MAX_BUFFERS,  \* "max-size-buffers" of a queue, 3
  MaxStarts,    \* bound of the model: starts of the video process
  MaxUiStarts   \* bound of the model: starts of the user interface

ASSUME VideoAssumption ==
  MAX_BUFFERS \in Nat \ {0} /\ MaxStarts \in Nat /\ MaxUiStarts \in Nat

VARIABLES
  segment,    \* the two halves of every segment made so far
  semaphore,  \* the value of every semaphore made so far
  key,        \* segment found under SHM_KEY, or None
  name,       \* semaphore found under /preview_sem, or None
  rec,        \* what the video process has attached and opened
  record_control, \* segment under RECORD_SHM_KEY: "missing", "found" under the
                  \* key, or "attached" by the video process as well
  ui,         \* what the user interface has attached and opened
  main,       \* step of the main thread of the video process
  control,    \* record_control_thread: "none", "running", "exited"
  stream,     \* step of the streaming thread behind app_queue
  display,    \* step of the user interface
  playing,    \* is the pipeline in the state PLAYING?
  bus,        \* has an element posted an error or the end of the stream?
  frame,      \* the next frame of the camera
  app_queue,  \* frames for the preview
  enc_queue,  \* number of frames for the encoder
  map,        \* frame on_new_sample has mapped
  shown       \* the two halves the user interface has read

(* History of the run, read by the properties only.                        *)
VARIABLES
  starts, uiStarts,
  had,      \* what the process has ever attached and opened since its start
  lost,     \* semaphores held by a process when it was killed
  removed,  \* has a key or name been removed since the user interface started?
  cut       \* has a key or name been removed when that was unsafe?

kernel   == <<segment, semaphore, key, name>>
attachments == <<rec, record_control>>
pipeline == <<playing, frame, app_queue, enc_queue>>
copying  == <<stream, map>>
reader   == <<ui, display, shown>>
history  == <<starts, uiStarts, had, lost, removed, cut>>
vars     == <<kernel, attachments, main, control, bus, pipeline, copying, reader,
              history>>

None   == 0
NoObjects == [seg |-> None, sem |-> None]
Frames == {0, 1}
Blank  == 2
-----------------------------------------------------------------------------
(* load_config and calculate_preview_size: the largest size with the       *)
(* camera's aspect ratio that fits the screen.                             *)
Config == [record_width |-> 1920, record_height |-> 1080]

PreviewSize(config, screen_width, screen_height) ==
  LET w == config.record_width
      h == config.record_height
  IN  IF screen_width * h <= screen_height * w
      THEN <<screen_width, (screen_width * h) \div w>>
      ELSE <<(screen_height * w) \div h, screen_height>>

(* The pipeline does not use it: its scaler has this size written in, four *)
(* bytes to a pixel, and on_new_sample drops a frame of another size.      *)
ScaledSize  == <<800, 450>>
FrameBytes  == ScaledSize[1] * ScaledSize[2] * 4
ExpectedBytes == 1440000
SHM_SIZE    == 800 * 480 * 4
-----------------------------------------------------------------------------
(* shmget with IPC_CREAT, sem_open with O_CREAT: what is there is used as  *)
(* it is, the initial value is for a new object only.                      *)
GetPrivateSegment(id) ==
  /\ id = Len(segment) + 1
  /\ segment' = Append(segment, <<Blank, Blank>>)
  /\ key' = id
GetSegment(id) ==
  \/ key # None /\ id = key /\ UNCHANGED <<segment, key>>
  \/ /\ key = None /\ id = Len(segment) + 1
     /\ segment' = Append(segment, <<Blank, Blank>>)
     /\ key' = id

OpenSemaphoreReset(id) ==
  \/ name # None /\ id = name /\ UNCHANGED name
     /\ semaphore' = [semaphore EXCEPT ![id] = 1]
  \/ /\ name = None /\ id = Len(semaphore) + 1
     /\ semaphore' = Append(semaphore, 1)
     /\ name' = id
OpenSemaphore(id) ==
  \/ name # None /\ id = name /\ UNCHANGED <<semaphore, name>>
  \/ /\ name = None /\ id = Len(semaphore) + 1
     /\ semaphore' = Append(semaphore, 1)
     /\ name' = id

Init ==
  /\ segment = <<>> /\ semaphore = <<>> /\ key = None /\ name = None
  /\ rec = NoObjects /\ ui = NoObjects /\ record_control = "missing"
  /\ main = "down" /\ control = "none" /\ stream = "idle" /\ display = "down"
  /\ playing = FALSE /\ bus = FALSE
  /\ frame = 0 /\ app_queue = <<>> /\ enc_queue = 0 /\ map = Blank
  /\ shown = <<Blank, Blank>>
  /\ starts = 0 /\ uiStarts = 0
  /\ had = NoObjects /\ lost = {} /\ removed = FALSE /\ cut = FALSE
-----------------------------------------------------------------------------
(* main, create_pipeline, start_pipeline.                                  *)
Goto(from, to) == main = from /\ main' = to

NotRunning == main \in {"down", "returned", "exited"}

StartProcess ==
  /\ NotRunning /\ starts < MaxStarts
  /\ main' = "config"
  /\ rec' = NoObjects
  /\ control' = "none" /\ bus' = FALSE
  /\ starts' = starts + 1
  /\ had' = NoObjects
  /\ UNCHANGED <<kernel, record_control, pipeline, copying, reader, uiStarts,
                 lost, removed, cut>>

(* malloc may fail; the preview size is computed, and not used again.      *)
LoadConfig ==
  /\ \/ Goto("config", "returned")
     \/ /\ PreviewSize(Config, 800, 480) = ScaledSize
        /\ Goto("config", "shm")
  /\ UNCHANGED <<kernel, attachments, control, bus, pipeline, copying, reader,
                 history>>

(* create_shm: the key may not be had, and main returns.                   *)
CreateShm ==
  /\ \/ /\ Goto("shm", "returned")
        /\ UNCHANGED <<segment, key, had>>
     \/ /\ Goto("shm", "attach")
        /\ \E id \in 1..(Len(segment) + 1) :
             GetSegment(id) /\ had' = [had EXCEPT !.seg = id]
  /\ UNCHANGED <<semaphore, name, attachments, control, bus, pipeline, copying,
                 reader, starts, uiStarts, lost, removed, cut>>

(* attach_shm; when it fails the segment is destroyed again.               *)
AttachShm ==
  /\ \/ Goto("attach", "destroy") /\ UNCHANGED rec
     \/ Goto("attach", "create") /\ rec' = [rec EXCEPT !.seg = had.seg]
  /\ UNCHANGED <<kernel, record_control, control, bus, pipeline, copying,
                 reader, history>>

(* create_pipeline: an element may not be there, or two may not link; the  *)
(* pipeline is given back then.                                            *)
CreatePipeline ==
  /\ Goto("create", "detach") \/ Goto("create", "sem")
  /\ UNCHANGED <<kernel, attachments, control, bus, pipeline, copying, reader,
                 history>>

(* init_semaphore and init_record_control end the process when they fail:  *)
(* the kernel detaches its memory, and nothing is removed.                 *)
InitSemaphore ==
  /\ \/ /\ Goto("sem", "exited")
        /\ rec' = NoObjects
        /\ UNCHANGED <<semaphore, name, had>>
     \/ /\ Goto("sem", "record")
        /\ \E id \in 1..(Len(semaphore) + 1) :
             /\ OpenSemaphore(id)
             /\ rec' = [rec EXCEPT !.sem = id]
             /\ had' = [had EXCEPT !.sem = id]
  /\ UNCHANGED <<segment, key, record_control, control, bus, pipeline, copying,
                 reader, starts, uiStarts, lost, removed, cut>>

(* shmget makes the segment when it is missing; it, or shmat, may fail.    *)
InitRecordControl ==
  /\ \/ /\ Goto("record", "exited")
        /\ rec' = NoObjects
        /\ record_control' \in {record_control, "found"}
     \/ /\ Goto("record", "play")
        /\ record_control' = "attached"
        /\ UNCHANGED rec
  /\ UNCHANGED <<kernel, control, bus, pipeline, copying, reader, history>>

(* A pipeline that cannot be started posts an error, and start_pipeline    *)
(* returns without a thread; so it does when the thread cannot be made.    *)
Play ==
  /\ Goto("play", "monitor")
  /\ \/ bus' = TRUE /\ UNCHANGED <<playing, control>>
     \/ /\ playing' = TRUE
        /\ control' \in {"running", "none"}
        /\ UNCHANGED bus
  /\ UNCHANGED <<kernel, attachments, frame, app_queue, enc_queue, copying,
                 reader, history>>
-----------------------------------------------------------------------------
(* monitor_pipeline takes the message off the bus and returns; then come   *)
(* cleanup_pipeline, and what main does after it.                          *)
Monitor ==
  /\ bus
  /\ Goto("monitor", "join")
  /\ bus' = FALSE
  /\ UNCHANGED <<kernel, attachments, control, pipeline, copying, reader,
                 history>>

(* The thread is told to end and is joined, if there is one; RecordControl *)
(* has the details.                                                        *)
ThreadExited == control = "exited"
ThreadGone   == control # "running"

JoinThread ==
  /\ \/ control = "running" /\ control' = "exited" /\ UNCHANGED main
     \/ ThreadGone /\ Goto("join", "null") /\ UNCHANGED control
  /\ main = "join"
  /\ UNCHANGED <<kernel, attachments, bus, pipeline, copying, reader, history>>

(* Going to NULL flushes the queues, then waits for the threads behind     *)
(* them: for the streaming thread to come back from on_new_sample.         *)
Flush ==
  /\ Goto("null", "drain")
  /\ playing' = FALSE /\ app_queue' = <<>> /\ enc_queue' = 0
  /\ UNCHANGED <<kernel, attachments, control, bus, frame, copying, reader,
                 history>>

StreamEndedUnchecked == TRUE
StreamEnded == stream = "idle"

Drain ==
  /\ StreamEnded
  /\ Goto("drain", "close")
  /\ UNCHANGED <<kernel, attachments, control, bus, pipeline, copying, reader,
                 history>>

CloseSemaphore ==
  /\ Goto("close", "unlink")
  /\ rec' = [rec EXCEPT !.sem = None]
  /\ UNCHANGED <<kernel, record_control, control, bus, pipeline, copying,
                 reader, history>>

(* Removing is unsafe when the user interface has opened one of the two    *)
(* objects so far, or when a process was killed under the semaphore.       *)
Unsafe == (ui.seg = None) # (ui.sem = None) \/ had.sem \in lost

UnlinkSemaphoreForgotten == UNCHANGED name
UnlinkSemaphore == name' = None

(* sem_unlink, and shmdt of the memory of the recording control; nobody    *)
(* removes that segment, the user interface goes on using it.              *)
Unlink ==
  /\ Goto("unlink", "detach")
  /\ UnlinkSemaphore
  /\ record_control' = "found"
  /\ removed' = TRUE /\ cut' = (cut \/ Unsafe)
  /\ UNCHANGED <<segment, semaphore, key, rec, control, bus, pipeline, copying,
                 reader, starts, uiStarts, had, lost>>

DetachShm ==
  /\ Goto("detach", "destroy")
  /\ rec' = [rec EXCEPT !.seg = None]
  /\ UNCHANGED <<kernel, record_control, control, bus, pipeline, copying,
                 reader, history>>

(* IPC_RMID takes the key away from the segment main knows by its number,  *)
(* whoever is attached to it; main returns.                                *)
DestroyShm ==
  /\ Goto("destroy", "returned")
  /\ key' = IF key = had.seg THEN None ELSE key
  /\ removed' = TRUE /\ cut' = (cut \/ Unsafe)
  /\ UNCHANGED <<segment, semaphore, name, attachments, control, bus, pipeline,
                 copying, reader, starts, uiStarts, had, lost>>

StartUp == LoadConfig \/ CreateShm \/ AttachShm \/ CreatePipeline
             \/ InitSemaphore \/ InitRecordControl \/ Play
CleanUp == Monitor \/ JoinThread \/ Flush \/ Drain \/ CloseSemaphore \/ Unlink
             \/ DetachShm \/ DestroyShm
MainStep == StartUp \/ CleanUp
-----------------------------------------------------------------------------
(* Data flow along the branches that create_pipeline links.  The tee       *)
(* pushes every frame into the first element of its two branches in turn;  *)
(* the muxer gets what passes both valves.                                 *)
Branches ==
  [preview |-> <<"tee", "app_queue", "videoscale", "scale_caps", "converter",
                 "rgba_caps", "videoflip", "app_sink">>,
   video   |-> <<"tee", "enc_queue", "video_valve", "encoder", "parser", "muxer",
                 "filesink">>,
   audio   |-> <<"audio-source", "audio_queue", "audio_valve", "audio-convert",
                 "audio-resample", "audio-encoder", "muxer">>]

(* "leaky" 2: a full queue drops its oldest frame for the new one.         *)
LeakyEncQueueOnly == {"enc_queue", "audio_queue"}
LeakyQueues == {"enc_queue", "app_queue", "audio_queue"}

PushUnbounded(queue, f) == Append(queue, f)
PushLeaky(queue, f) ==
  Append(IF Len(queue) = MAX_BUFFERS THEN Tail(queue) ELSE queue, f)

(* A branch takes a frame at once if it begins with such a queue, and when *)
(* there is room otherwise.                                                *)
Takes(branch, waiting) ==
  Branches[branch][2] \in LeakyQueues \/ waiting < MAX_BUFFERS

(* The camera's thread.                                                    *)
Camera ==
  /\ playing /\ Takes("preview", Len(app_queue)) /\ Takes("video", enc_queue)
  /\ app_queue' = PushLeaky(app_queue, frame)
  /\ enc_queue' = IF enc_queue = MAX_BUFFERS THEN enc_queue ELSE enc_queue + 1
  /\ frame' = (frame + 1) % 2
  /\ UNCHANGED <<kernel, attachments, main, control, bus, playing, copying,
                 reader, history>>

(* The thread behind enc_queue takes a frame to the valve and the encoder. *)
Encode ==
  /\ playing /\ enc_queue > 0
  /\ enc_queue' = enc_queue - 1
  /\ UNCHANGED <<kernel, attachments, main, control, bus, playing, frame,
                 app_queue, copying, reader, history>>

(* on_new_sample: pulls and maps the frame; one of the wrong size is       *)
(* dropped before the semaphore is taken.                                  *)
NewSample ==
  /\ playing /\ stream = "idle" /\ app_queue # <<>>
  /\ app_queue' = Tail(app_queue)
  /\ \/ FrameBytes = ExpectedBytes /\ stream' = "wait" /\ map' = Head(app_queue)
     \/ FrameBytes # ExpectedBytes /\ UNCHANGED <<stream, map>>
  /\ UNCHANGED <<kernel, attachments, main, control, bus, playing, frame,
                 enc_queue, reader, history>>

Down(id) == semaphore' = [semaphore EXCEPT ![id] = @ - 1]
UpForgotten(id) == UNCHANGED semaphore
Up(id)   == semaphore' = [semaphore EXCEPT ![id] = @ + 1]

SemWaitUnchecked ==
  /\ stream = "wait"
  /\ stream' = "copy"
  /\ UNCHANGED <<kernel, attachments, main, control, bus, pipeline, map,
                 reader, history>>
SemWait ==
  /\ stream = "wait" /\ semaphore[rec.sem] > 0
  /\ stream' = "copy"
  /\ Down(rec.sem)
  /\ UNCHANGED <<segment, key, name, attachments, main, control, bus, pipeline,
                 map, reader, history>>

(* memcpy, in two halves.                                                  *)
CopyFirst ==
  /\ stream = "copy"
  /\ stream' = "copyRest"
  /\ segment' = [segment EXCEPT ![rec.seg][1] = map]
  /\ UNCHANGED <<semaphore, key, name, attachments, main, control, bus,
                 pipeline, map, reader, history>>

CopyRest ==
  /\ stream = "copyRest"
  /\ stream' = "post"
  /\ segment' = [segment EXCEPT ![rec.seg][2] = map]
  /\ UNCHANGED <<semaphore, key, name, attachments, main, control, bus,
                 pipeline, map, reader, history>>

SemPost ==
  /\ stream = "post"
  /\ stream' = "idle" /\ map' = Blank
  /\ Up(rec.sem)
  /\ UNCHANGED <<segment, key, name, attachments, main, control, bus, pipeline,
                 reader, history>>

OnNewSample == NewSample \/ CopyFirst \/ CopyRest \/ SemPost

(* An element fails, or the stream ends.                                   *)
PipelineError ==
  /\ main = "monitor" /\ ~bus
  /\ bus' = TRUE
  /\ UNCHANGED <<kernel, attachments, main, control, pipeline, copying, reader,
                 history>>
-----------------------------------------------------------------------------
(* The user interface.  It opens both objects, in either order, and reads  *)
(* a frame now and then.                                                   *)
StartUi ==
  /\ display = "down" /\ uiStarts < MaxUiStarts
  /\ display' = "open"
  /\ uiStarts' = uiStarts + 1
  /\ removed' = FALSE
  /\ UNCHANGED <<kernel, attachments, main, control, bus, pipeline, copying,
                 ui, shown, starts, had, lost, cut>>

UiOpenSemaphore ==
  /\ display = "open" /\ ui.sem = None
  /\ \E id \in 1..(Len(semaphore) + 1) :
       OpenSemaphore(id) /\ ui' = [ui EXCEPT !.sem = id]
  /\ display' = IF ui.seg # None THEN "ready" ELSE "open"
  /\ UNCHANGED <<segment, key, attachments, main, control, bus, pipeline,
                 copying, shown, history>>

UiAttach ==
  /\ display = "open" /\ ui.seg = None
  /\ \E id \in 1..(Len(segment) + 1) :
       GetSegment(id) /\ ui' = [ui EXCEPT !.seg = id]
  /\ display' = IF ui.sem # None THEN "ready" ELSE "open"
  /\ UNCHANGED <<semaphore, name, attachments, main, control, bus, pipeline,
                 copying, shown, history>>

UiWait ==
  /\ display = "ready" /\ semaphore[ui.sem] > 0
  /\ display' = "read"
  /\ Down(ui.sem)
  /\ UNCHANGED <<segment, key, name, attachments, main, control, bus, pipeline,
                 copying, ui, shown, history>>

UiReadFirst ==
  /\ display = "read"
  /\ display' = "readRest"
  /\ shown' = <<segment[ui.seg][1], Blank>>
  /\ UNCHANGED <<kernel, attachments, main, control, bus, pipeline, copying,
                 ui, history>>

UiReadRest ==
  /\ display = "readRest"
  /\ display' = "post"
  /\ shown' = [shown EXCEPT ![2] = segment[ui.seg][2]]
  /\ UNCHANGED <<kernel, attachments, main, control, bus, pipeline, copying,
                 ui, history>>

UiPost ==
  /\ display = "post"
  /\ display' = "ready"
  /\ shown' = <<Blank, Blank>>
  /\ Up(ui.sem)
  /\ UNCHANGED <<segment, key, name, attachments, main, control, bus, pipeline,
                 copying, ui, history>>

UiReading == UiReadFirst \/ UiReadRest \/ UiPost
-----------------------------------------------------------------------------
(* Either process may be killed anywhere.                                  *)
RecHolds(id) == stream \in {"copy", "copyRest", "post"} /\ rec.sem = id
UiHolds(id)  == display \in {"read", "readRest", "post"} /\ ui.sem = id

KillProcess ==
  /\ ~NotRunning
  /\ main' = "down"
  /\ rec' = NoObjects
  /\ record_control' = IF record_control = "missing" THEN "missing" ELSE "found"
  /\ control' = "none" /\ bus' = FALSE /\ playing' = FALSE
  /\ frame' = 0 /\ app_queue' = <<>> /\ enc_queue' = 0
  /\ stream' = "idle" /\ map' = Blank
  /\ lost' = lost \cup {id \in DOMAIN semaphore : RecHolds(id)}
  /\ cut' = (cut \/ (main \in {"detach", "destroy"} /\ had.sem # None))
  /\ UNCHANGED <<kernel, reader, starts, uiStarts, had, removed>>

KillUi ==
  /\ display # "down"
  /\ display' = "down"
  /\ ui' = NoObjects
  /\ shown' = <<Blank, Blank>>
  /\ lost' = lost \cup {id \in DOMAIN semaphore : UiHolds(id)}
  /\ UNCHANGED <<kernel, attachments, main, control, bus, pipeline, copying,
                 starts, uiStarts, had, removed, cut>>

Next ==
  \/ StartProcess \/ MainStep \/ KillProcess
  \/ Camera \/ Encode \/ OnNewSample \/ SemWait \/ PipelineError
  \/ StartUi \/ UiOpenSemaphore \/ UiAttach \/ UiWait \/ UiReading \/ KillUi

Spec == Init /\ [][Next]_vars

(* The threads of the video process are scheduled and the camera delivers; *)
(* the user interface comes to the end of a read it has begun, unless it   *)
(* is killed; and as it reads once in a refresh of its screen, a thread    *)
(* that finds the semaphore free again and again gets it.                  *)
FairSpec ==
  /\ Spec
  /\ WF_vars(MainStep) /\ WF_vars(Camera) /\ WF_vars(Encode)
  /\ WF_vars(OnNewSample) /\ SF_vars(SemWait) /\ WF_vars(UiReading)
-----------------------------------------------------------------------------
StartPC == {"config", "shm", "attach", "create", "sem", "record", "play"}
EndPC   == {"join", "null", "drain", "close", "unlink", "detach", "destroy"}
Objects == [seg : 0..Len(segment), sem : 0..Len(semaphore)]

(* Types of all variables.  A semaphore never exceeds one.                 *)
TypeOK ==
  /\ segment \in Seq((Frames \cup {Blank}) \X (Frames \cup {Blank}))
  /\ semaphore \in Seq({0, 1})
  /\ key \in 0..Len(segment) /\ name \in 0..Len(semaphore)
  /\ rec \in Objects /\ ui \in Objects /\ had \in Objects
  /\ record_control \in {"missing", "found", "attached"}
  /\ main \in StartPC \cup EndPC \cup {"down", "monitor", "returned", "exited"}
  /\ control \in {"none", "running", "exited"}
  /\ stream \in {"idle", "wait", "copy", "copyRest", "post"}
  /\ display \in {"down", "open", "ready", "read", "readRest", "post"}
  /\ playing \in BOOLEAN /\ bus \in BOOLEAN
  /\ removed \in BOOLEAN /\ cut \in BOOLEAN
  /\ frame \in Frames
  /\ app_queue \in Seq(Frames) /\ Len(app_queue) <= MAX_BUFFERS
  /\ enc_queue \in 0..MAX_BUFFERS
  /\ map \in Frames \cup {Blank}
  /\ shown \in (Frames \cup {Blank}) \X (Frames \cup {Blank})
  /\ starts \in Nat /\ uiStarts \in Nat
  /\ lost \subseteq 1..Len(semaphore)

(* Every semaphore is free, or held by one process, or was held by one     *)
(* that was killed: on_new_sample and the user interface never both copy   *)
(* under the same semaphore, whatever was killed, removed or restarted.    *)
OneHolder ==
  \A id \in DOMAIN semaphore :
    Cardinality({h \in {"rec"} : RecHolds(id)} \cup {h \in {"ui"} : UiHolds(id)})
      + (IF id \in lost THEN 1 ELSE 0) = 1 - semaphore[id]

(* What the user interface shows is one frame of the camera, never parts   *)
(* of two, over kills and restarts of both processes: a process killed     *)
(* while it copies leaves the semaphore taken, so nobody reads its half.   *)
(* The exceptions: a process killed between removing name and key, objects *)
(* removed while the user interface has opened one of the two, and an      *)
(* orderly end that removes the semaphore of one that was killed copying.  *)
WholeFrames == display = "post" /\ ~cut => shown[1] = shown[2]

(* on_new_sample runs only while its semaphore is open and its memory      *)
(* attached, and the copy fits: cleanup_pipeline releases nothing that the *)
(* streaming thread may still use.                                         *)
NoUseAfterRelease ==
  stream # "idle" => rec.sem # None /\ rec.seg # None /\ ExpectedBytes <= SHM_SIZE

(* When main returns, through whichever of its failures, the process has   *)
(* nothing open or attached, and the segment and semaphore of the preview  *)
(* that it used cannot be found; the segment of the recording control is   *)
(* the one thing it leaves behind, and does leave once it has come so far. *)
AllReleased ==
  main = "returned" =>
    /\ rec = NoObjects /\ record_control # "attached"
    /\ had.seg # None => key # had.seg
    /\ had.sem # None => name # had.sem /\ record_control = "found"

(* A video process and a user interface use the same objects: a kill and   *)
(* restart of either does not separate them, only a video process that     *)
(* came to its orderly end does.                                           *)
KillKeepsPreview ==
  ~removed =>
    /\ rec.seg # None /\ ui.seg # None => rec.seg = ui.seg
    /\ rec.sem # None /\ ui.sem # None => rec.sem = ui.sem

Orphaned == rec.sem \in lost

(* A frame that waits for the semaphore gets into shared memory, if nobody *)
(* was killed while holding it.                                            *)
PreviewFlows == stream = "wait" ~> stream = "idle" \/ Orphaned

(* Once the pipeline has reported an error main comes to its end: going to *)
(* NULL waits for on_new_sample, and on_new_sample for the reader at most  *)
(* once.  Again, a process killed in the middle of a copy breaks this.     *)
CleanupEnds == main = "join" ~> main \in {"returned", "down"} \/ Orphaned

(* The recording does not depend on the preview: even when on_new_sample   *)
(* never comes back the encoder's queue is served for ever.                *)
EncoderFed == <>[](main = "monitor" /\ playing) => []<><<Encode>>_vars
=============================================================================
