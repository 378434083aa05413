--------------------------- MODULE RecordControl ---------------------------
(***************************************************************************)
(* Recording control of the video process (Video/src/pipeline.c).  The     *)
(* thread record_control_thread polls two interfaces ten times a second: a *)
(* flag in shared memory, which the user interface writes, and a command   *)
(* file, which it removes after reading.  It opens and closes the valves   *)
(* in front of the encoders and gives the file sink a new file.  When the  *)
(* pipeline reports an error, the main thread leaves monitor_pipeline and  *)
(* runs cleanup_pipeline next to that thread.                              *)
(*                                                                         *)
(* The process may be killed at any time and started again; the shared     *)
(* memory and the command file survive it.                                 *)
(***************************************************************************)
EXTENDS Naturals

CONSTANTS
  CardMayFail,  \* can /mnt/sdcard stop being writable?
  MaxRequests,  \* bound of the model: requests to start a recording
  MaxRestarts   \* bound of the model: restarts of the process

ASSUME ControlAssumption ==
  CardMayFail \in BOOLEAN /\ MaxRequests \in Nat /\ MaxRestarts \in Nat

VARIABLES
  flag,                      \* record_control->is_recording, shared memory
  cmdFile,                   \* RECORD_CMD_FILE: "none", "empty", a command
  writer,                    \* process writing it: "idle", "open", "orphan"
  card,                      \* is /mnt/sdcard writable?
  is_recording,              \* the process's own idea of it
  prev_state,                \* last value of flag the thread acted on
  cmd,                       \* command the thread has read
  caller,                    \* interface for which it starts or stops
  thread_running,
  video_valve, audio_valve,  \* property "drop" of the valves: TRUE is closed
  bus,                       \* has an element posted an error message?
  pc                         \* step of each thread

(* History of the run, read by the properties only.                        *)
VARIABLES
  requests,  \* times a start was asked for, by flag or by command
  files,     \* times the sink was given a new file before any cleanup
  refused,   \* does start_recording return because of the SD card?
  restarts

external == <<flag, cmdFile, writer, card>>
valves   == <<video_valve, audio_valve>>
locals   == <<prev_state, cmd, caller>>
history  == <<requests, files, refused, restarts>>
vars     == <<external, is_recording, locals, thread_running, valves, bus, pc,
              history>>

Threads  == {"control", "main"}
Commands == {"start", "stop"}
StopPC   == {"stop", "stopVideo", "stopAudio", "stopMark"}
StartPC  == {"start", "newFile", "startVideo", "startAudio", "startMark"}
ControlPC ==
  {"none", "top", "shm", "back", "file", "act", "remove", "exited"}
    \cup StartPC \cup StopPC
MainPC   == {"monitor", "check", "halt", "join", "null", "done"} \cup StopPC

Step(t, from, to) == pc[t] = from /\ pc' = [pc EXCEPT ![t] = to]
-----------------------------------------------------------------------------
(* start_pipeline has attached the shared memory and cleared the flag.  It *)
(* returns without a control thread when the pipeline, which then posts an *)
(* error, cannot start; and when pthread_create fails, which is only       *)
(* printed: the pipeline plays on, with no error on the bus.  A command    *)
(* file may be left from an earlier run.                                   *)
StartedPipeline ==
  /\ flag' = FALSE
  /\ is_recording' = FALSE
  /\ prev_state' = FALSE /\ cmd' = "none" /\ caller' = "shm"
  /\ thread_running' = TRUE
  /\ video_valve' = TRUE /\ audio_valve' = TRUE
  /\ \E thread \in {"top", "none"} :
       /\ pc' = [control |-> thread, main |-> "monitor"]
       /\ bus' \in BOOLEAN /\ (bus' => thread = "none")

Init ==
  /\ flag = FALSE
  /\ cmdFile \in Commands \cup {"none"} /\ writer = "idle"
  /\ card \in BOOLEAN /\ (CardMayFail \/ card)
  /\ is_recording = FALSE
  /\ prev_state = FALSE /\ cmd = "none" /\ caller = "shm"
  /\ thread_running = TRUE
  /\ video_valve = TRUE /\ audio_valve = TRUE
  /\ pc \in {[control |-> thread, main |-> "monitor"] : thread \in {"top", "none"}}
  /\ bus \in BOOLEAN /\ (bus => pc["control"] = "none")
  /\ requests = (IF cmdFile = "start" THEN 1 ELSE 0)
  /\ files = 0 /\ refused = FALSE /\ restarts = 0
-----------------------------------------------------------------------------
(* stop_recording, called by the control thread and by cleanup_pipeline.   *)
AfterStopInThread(t) == "back"
AfterStop(t) == IF t = "control" THEN "back" ELSE "halt"

StopTest(t) ==
  /\ Step(t, "stop", IF is_recording THEN "stopVideo" ELSE AfterStop(t))
  /\ UNCHANGED <<external, is_recording, locals, thread_running, valves, bus,
                 history>>

StopVideo(t) ==
  /\ Step(t, "stopVideo", "stopAudio")
  /\ video_valve' = TRUE
  /\ UNCHANGED <<external, is_recording, locals, thread_running, audio_valve,
                 bus, history>>

StopAudio(t) ==
  /\ Step(t, "stopAudio", "stopMark")
  /\ audio_valve' = TRUE
  /\ UNCHANGED <<external, is_recording, locals, thread_running, video_valve,
                 bus, history>>

StopMark(t) ==
  /\ Step(t, "stopMark", AfterStop(t))
  /\ is_recording' = FALSE
  /\ UNCHANGED <<external, locals, thread_running, valves, bus, history>>

StopRecording(t) == StopTest(t) \/ StopVideo(t) \/ StopAudio(t) \/ StopMark(t)
-----------------------------------------------------------------------------
(* start_recording, called by the control thread only.                     *)

(* Nothing is done when a recording is on, or when the card's directory is *)
(* missing and cannot be made, or cannot be written.  Otherwise the valves *)
(* are closed first.                                                       *)
AlreadyRecordingUnchecked == FALSE
AlreadyRecording == is_recording

StartTest ==
  /\ \/ /\ AlreadyRecording
        /\ Step("control", "start", "back")
        /\ UNCHANGED <<valves, refused>>
     \/ /\ ~AlreadyRecording /\ ~card
        /\ Step("control", "start", "back")
        /\ refused' = TRUE
        /\ UNCHANGED valves
     \/ /\ ~AlreadyRecording /\ card
        /\ Step("control", "start", "newFile")
        /\ UNCHANGED refused
        /\ video_valve' = TRUE /\ audio_valve' = TRUE
  /\ UNCHANGED <<external, is_recording, locals, thread_running, bus, requests,
                 files, restarts>>

(* The sink goes to NULL, gets its location and returns to its state; if   *)
(* the file cannot be opened after all it posts an error, which nothing in *)
(* start_recording looks at.                                               *)
NewFile ==
  /\ Step("control", "newFile", "startVideo")
  /\ bus' = (bus \/ ~card)
  /\ files' = files + (IF card /\ pc["main"] = "monitor" THEN 1 ELSE 0)
  /\ UNCHANGED <<external, is_recording, locals, thread_running, valves, requests,
                 refused, restarts>>

StartVideo ==
  /\ Step("control", "startVideo", "startAudio")
  /\ video_valve' = FALSE
  /\ UNCHANGED <<external, is_recording, locals, thread_running, audio_valve, bus,
                 history>>

StartAudioForgotten == UNCHANGED audio_valve
OpenAudioValve == audio_valve' = FALSE

StartAudio ==
  /\ Step("control", "startAudio", "startMark")
  /\ OpenAudioValve
  /\ UNCHANGED <<external, is_recording, locals, thread_running, video_valve, bus,
                 history>>

StartMark ==
  /\ Step("control", "startMark", "back")
  /\ is_recording' = TRUE
  /\ UNCHANGED <<external, locals, thread_running, valves, bus, history>>

StartRecording ==
  StartTest \/ NewFile \/ StartVideo \/ StartAudio \/ StartMark
-----------------------------------------------------------------------------
(* record_control_thread.                                                  *)
LoopTest ==
  /\ Step("control", "top", IF thread_running THEN "shm" ELSE "exited")
  /\ UNCHANGED <<external, is_recording, locals, thread_running, valves, bus,
                 history>>

(* A change of the flag since the last one acted on starts or stops.       *)
ChangedToRecording == flag /\ ~prev_state
Changed == flag # prev_state

ReadFlag ==
  /\ \/ /\ ~Changed
        /\ Step("control", "shm", "file")
        /\ UNCHANGED caller
     \/ /\ Changed
        /\ Step("control", "shm", IF flag THEN "start" ELSE "stop")
        /\ caller' = "shm"
  /\ UNCHANGED <<external, is_recording, prev_state, cmd, thread_running, valves,
                 bus, history>>

(* Back from start_recording or stop_recording: the value acted on is      *)
(* remembered, or, after a command, the flag is overwritten to match it,   *)
(* even if start_recording gave up.                                        *)
Return ==
  /\ \/ /\ caller = "shm"
        /\ Step("control", "back", "file")
        /\ prev_state' = ~prev_state
        /\ UNCHANGED flag
     \/ /\ caller = "cmd"
        /\ Step("control", "back", "remove")
        /\ flag' = (cmd = "start")
        /\ UNCHANGED prev_state
  /\ refused' = FALSE
  /\ UNCHANGED <<cmdFile, writer, card, is_recording, cmd, caller, thread_running,
                 valves, bus, requests, files, restarts>>

(* fopen and fgets.  An empty file has no command, and is removed as well. *)
ReadCommand ==
  /\ \/ cmdFile = "none" /\ Step("control", "file", "top")
     \/ cmdFile \in Commands /\ Step("control", "file", "act")
     \/ cmdFile = "empty" /\ Step("control", "file", "remove")
  /\ cmd' = cmdFile
  /\ UNCHANGED <<external, is_recording, prev_state, caller, thread_running,
                 valves, bus, history>>

(* A command that asks for the state the thread is in is dropped.          *)
Wanted == (cmd = "start") = ~is_recording

ActOnCommand ==
  /\ Step("control", "act", IF Wanted THEN cmd ELSE "remove")
  /\ caller' = "cmd"
  /\ UNCHANGED <<external, is_recording, prev_state, cmd, thread_running, valves,
                 bus, history>>

RemoveCommand ==
  /\ Step("control", "remove", "top")
  /\ cmdFile' = "none"
  /\ writer' = IF writer = "open" THEN "orphan" ELSE writer
  /\ UNCHANGED <<flag, card, is_recording, locals, thread_running, valves, bus,
                 history>>

ControlStep ==
  StartRecording \/ StopRecording("control") \/ LoopTest \/ ReadFlag \/ Return
    \/ ReadCommand \/ ActOnCommand \/ RemoveCommand
-----------------------------------------------------------------------------
(* The main thread: monitor_pipeline, then cleanup_pipeline.               *)
LeaveMonitor ==
  /\ bus
  /\ Step("main", "monitor", "check")
  /\ UNCHANGED <<external, is_recording, locals, thread_running, valves, bus,
                 history>>

CleanupTest ==
  /\ Step("main", "check", IF is_recording THEN "stop" ELSE "halt")
  /\ UNCHANGED <<external, is_recording, locals, thread_running, valves, bus,
                 history>>

SignalThreadForgotten == UNCHANGED thread_running
SignalThread == thread_running' = FALSE

CleanupHalt ==
  /\ Step("main", "halt", "join")
  /\ SignalThread
  /\ UNCHANGED <<external, is_recording, locals, valves, bus, history>>

(* pthread_join.  Without a thread there is nothing to wait for: its id is *)
(* zero, or names a thread that never ran.                                 *)
ThreadGone == pc["control"] \in {"none", "exited"}

CleanupJoin ==
  /\ ThreadGone
  /\ Step("main", "join", "null")
  /\ UNCHANGED <<external, is_recording, locals, thread_running, valves, bus,
                 history>>

(* The pipeline is set to NULL and unreferenced, and main returns.         *)
CleanupRelease ==
  /\ Step("main", "null", "done")
  /\ UNCHANGED <<external, is_recording, locals, thread_running, valves, bus,
                 history>>

MainStep ==
  LeaveMonitor \/ CleanupTest \/ StopRecording("main") \/ CleanupHalt
    \/ CleanupJoin \/ CleanupRelease
-----------------------------------------------------------------------------
(* The user interface switches the flag.                                   *)
SetFlag ==
  /\ ~flag /\ requests < MaxRequests
  /\ flag' = TRUE
  /\ requests' = requests + 1
  /\ UNCHANGED <<cmdFile, writer, card, is_recording, locals, thread_running,
                 valves, bus, pc, files, refused, restarts>>

ClearFlag ==
  /\ flag
  /\ flag' = FALSE
  /\ UNCHANGED <<cmdFile, writer, card, is_recording, locals, thread_running,
                 valves, bus, pc, history>>

(* A shell writes the command file: it creates or empties it, then writes. *)
(* If the file was removed in between, the command goes nowhere.           *)
OpenCommandFile ==
  /\ writer = "idle" /\ requests < MaxRequests
  /\ cmdFile' = "empty"
  /\ writer' = "open"
  /\ UNCHANGED <<flag, card, is_recording, locals, thread_running, valves, bus,
                 pc, history>>

WriteCommandFile ==
  \/ /\ writer = "open"
     /\ writer' = "idle"
     /\ \E c \in Commands :
          /\ cmdFile' = c
          /\ requests' = requests + (IF c = "start" THEN 1 ELSE 0)
     /\ UNCHANGED <<flag, card, is_recording, locals, thread_running, valves, bus,
                    pc, files, refused, restarts>>
  \/ /\ writer = "orphan"
     /\ writer' = "idle"
     /\ UNCHANGED <<flag, cmdFile, card, is_recording, locals, thread_running,
                    valves, bus, pc, history>>

(* The card is pulled out, remounted read-only, or put back.               *)
CardChanges ==
  /\ CardMayFail
  /\ card' = ~card
  /\ UNCHANGED <<flag, cmdFile, writer, is_recording, locals, thread_running,
                 valves, bus, pc, history>>

(* Some element posts an error.                                            *)
PipelineError ==
  /\ pc["main"] = "monitor" /\ ~bus
  /\ bus' = TRUE
  /\ UNCHANGED <<external, is_recording, locals, thread_running, valves, pc,
                 history>>

(* The process is killed, or has ended, and is started again.              *)
Restart ==
  /\ restarts < MaxRestarts
  /\ restarts' = restarts + 1
  /\ StartedPipeline
  /\ refused' = FALSE
  /\ UNCHANGED <<cmdFile, writer, card, requests, files>>

Environment ==
  SetFlag \/ ClearFlag \/ OpenCommandFile \/ WriteCommandFile \/ CardChanges
    \/ PipelineError \/ Restart

Next == ControlStep \/ MainStep \/ Environment

Spec == Init /\ [][Next]_vars

(* Both threads are scheduled.  Nothing outside the process is forced.     *)
FairSpec == Spec /\ WF_vars(ControlStep) /\ WF_vars(MainStep)
-----------------------------------------------------------------------------
(* Types of all variables.                                                 *)
TypeOK ==
  /\ flag \in BOOLEAN
  /\ cmdFile \in Commands \cup {"none", "empty"}
  /\ writer \in {"idle", "open", "orphan"}
  /\ card \in BOOLEAN
  /\ is_recording \in BOOLEAN
  /\ prev_state \in BOOLEAN
  /\ cmd \in Commands \cup {"none", "empty"}
  /\ caller \in {"shm", "cmd"}
  /\ thread_running \in BOOLEAN
  /\ video_valve \in BOOLEAN /\ audio_valve \in BOOLEAN
  /\ bus \in BOOLEAN
  /\ pc \in [Threads -> ControlPC \cup MainPC]
  /\ pc["control"] \in ControlPC /\ pc["main"] \in MainPC
  /\ requests \in Nat /\ files \in Nat /\ restarts \in Nat
  /\ refused \in BOOLEAN

(* Until cleanup_pipeline interferes, both valves are open exactly while   *)
(* is_recording says so, whenever the control thread is not in the middle  *)
(* of start_recording or stop_recording.                                   *)
ValvesMatch ==
  pc["main"] = "monitor" /\ pc["control"] \notin StartPC \cup StopPC =>
    video_valve = ~is_recording /\ audio_valve = ~is_recording

(* A request for a recording, through whichever interface, makes one file  *)
(* at most: the flag set after a "start" command, read back on the next    *)
(* poll, does not start a second file.  Only a process that is killed      *)
(* before it has removed the command file obeys the command again.  (In    *)
(* cleanup_pipeline's time the thread may start what was just stopped.)    *)
OneFilePerRequest == files <= requests + restarts

Ending == bus \/ pc["main"] # "monitor"
NoThread == pc["control"] = "none"

(* The flag's change to 1 has just been tried and given up on the SD card. *)
GivenUp == refused /\ caller = "shm"

(* A change of the flag that record_control_thread gets to see is obeyed:  *)
(* a recording starts, unless start_recording gives up on the SD card this *)
(* very time, and it stops.  A process that could not create the thread    *)
(* plays on and obeys nothing.                                             *)
FlagObeyed ==
  /\ flag /\ ~prev_state
       ~> is_recording \/ ~flag \/ GivenUp \/ Ending \/ NoThread
  /\ ~flag /\ prev_state ~> ~is_recording \/ flag \/ Ending \/ NoThread

(* Once monitor_pipeline has returned, cleanup_pipeline comes to its end,  *)
(* unless the process is killed: the control thread sees thread_running    *)
(* and exits from wherever it is.                                          *)
CleanupFinishes == pc["main"] = "check" ~> pc["main"] \in {"done", "monitor"}

(* The meaning the comment of RecordControl gives the flag, 0 for "not     *)
(* recording" and 1 for "recording", as far as a poll of 100 ms allows.    *)
FlagTellsState ==
  /\ flag /\ ~is_recording ~> (flag => is_recording) \/ Ending \/ NoThread
  /\ ~flag /\ is_recording ~> (is_recording => flag) \/ Ending \/ NoThread
=============================================================================
