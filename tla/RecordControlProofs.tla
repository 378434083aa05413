------------------------ MODULE RecordControlProofs ------------------------
(***************************************************************************)
(* Theorems about RecordControl, for any number of requests, restarts and  *)
(* changes of the card: types, the valves agree with is_recording, and a   *)
(* request makes one file at most.                                         *)
(***************************************************************************)
EXTENDS RecordControl, TLAPS

(* Where the control thread is, and what it serves.                        *)
control == pc["control"]
Serving(interface) == control \in StartPC \cup StopPC \cup {"back"} /\ caller = interface

(* The valves and is_recording at every step of start_recording and        *)
(* stop_recording, until cleanup_pipeline interferes.                      *)
Matching == video_valve = ~is_recording /\ audio_valve = ~is_recording
ValveInv ==
  pc["main"] = "monitor" =>
    /\ control \notin (StartPC \cup StopPC) \ {"start", "stop"} => Matching
    /\ control \in {"newFile", "startVideo", "startAudio", "startMark"} =>
         ~is_recording
    /\ control \in {"newFile", "startVideo"} => video_valve /\ audio_valve
    /\ control = "startAudio" => ~video_valve
    /\ control = "startMark" => ~video_valve /\ ~audio_valve
    /\ control \in {"stopAudio", "stopMark"} => video_valve
    /\ control = "stopMark" => audio_valve
    /\ control \in {"stopVideo", "stopAudio", "stopMark"} => is_recording

(* What the thread does is what the command said.                          *)
CommandInv ==
  /\ control = "act" => cmd \in Commands
  /\ Serving("cmd") /\ control \in StopPC => cmd = "stop"

(* A request that has not made its file yet is in one of three places: the *)
(* flag, if the thread will see it change; the command file, if it has not *)
(* been read; and the thread, on its way to the new file.                  *)
InFlag ==
  /\ flag
  /\ IF Serving("shm") THEN prev_state
     ELSE ~Serving("cmd") /\ ~prev_state /\ ~is_recording
InCommandFile ==
  /\ cmdFile = "start"
  /\ ~Serving("cmd") /\ control \notin {"act", "remove"}
InThread ==
  \/ control = "newFile"
  \/ control = "start" /\ ~is_recording
  \/ control = "act" /\ cmd = "start" /\ ~is_recording
  \/ control = "back" /\ caller = "cmd" /\ cmd = "start" /\ ~is_recording

One(pending) == IF pending THEN 1 ELSE 0
Pending == One(InFlag) + One(InCommandFile) + One(InThread)

RequestInv ==
  /\ files <= requests + restarts
  /\ pc["main"] = "monitor" => files + Pending <= requests + restarts

ControlInv == TypeOK /\ ValveInv /\ CommandInv /\ RequestInv
-----------------------------------------------------------------------------
(* A step of one thread leaves the other where it is.                      *)
LEMMA ControlGoes ==
  ASSUME TypeOK, NEW from, NEW to, Step("control", from, to)
  PROVE  /\ control = from /\ control' = to
         /\ pc'["main"] = pc["main"]
         /\ to \in ControlPC => pc' \in [Threads -> ControlPC \cup MainPC]
BY DEF TypeOK, Step, Threads, control

LEMMA MainGoes ==
  ASSUME TypeOK, NEW from, NEW to, Step("main", from, to)
  PROVE  /\ pc["main"] = from /\ pc'["main"] = to
         /\ control' = control
         /\ to \in MainPC => pc' \in [Threads -> ControlPC \cup MainPC]
BY DEF TypeOK, Step, Threads, control

(* Where each action takes the control thread.                             *)
LEMMA ControlPlaces ==
  ASSUME TypeOK, CommandInv, ControlStep
  PROVE  /\ pc'["main"] = pc["main"]
         /\ \/ StartTest /\ control = "start" /\ control' \in {"back", "newFile"}
            \/ NewFile /\ control = "newFile" /\ control' = "startVideo"
            \/ StartVideo /\ control = "startVideo" /\ control' = "startAudio"
            \/ StartAudio /\ control = "startAudio" /\ control' = "startMark"
            \/ StartMark /\ control = "startMark" /\ control' = "back"
            \/ StopTest("control") /\ control = "stop"
                 /\ control' = IF is_recording THEN "stopVideo" ELSE "back"
            \/ StopVideo("control") /\ control = "stopVideo" /\ control' = "stopAudio"
            \/ StopAudio("control") /\ control = "stopAudio" /\ control' = "stopMark"
            \/ StopMark("control") /\ control = "stopMark" /\ control' = "back"
            \/ LoopTest /\ control = "top" /\ control' \in {"shm", "exited"}
            \/ ReadFlag /\ control = "shm" /\ control' \in {"file", "start", "stop"}
            \/ Return /\ control = "back"
                 /\ control' = IF caller = "shm" THEN "file" ELSE "remove"
            \/ ReadCommand /\ control = "file" /\ control' \in {"top", "act", "remove"}
            \/ ActOnCommand /\ control = "act" /\ cmd \in Commands
                 /\ control' = IF Wanted THEN cmd ELSE "remove"
            \/ RemoveCommand /\ control = "remove" /\ control' = "top"
         /\ pc' \in [Threads -> ControlPC \cup MainPC] /\ control' \in ControlPC
<1> DEFINE Goes(from, to) ==
             /\ control = from /\ control' = to
             /\ pc'["main"] = pc["main"]
             /\ to \in ControlPC => pc' \in [Threads -> ControlPC \cup MainPC]
<1> HIDE DEF Goes
<1>0. \A from, to : Step("control", from, to) => Goes(from, to)
  BY ControlGoes DEF Goes
<1> USE DEF ControlPC, StartPC, StopPC
<1>1. CASE StartRecording
  <2>1. CASE StartTest
    <3>1. \E to \in {"back", "newFile"} : Step("control", "start", to)
      BY <2>1 DEF StartTest
    <3> QED
      BY <1>0, <2>1, <3>1 DEF Goes
  <2>2. CASE NewFile
    BY <1>0, <2>2 DEF NewFile, Goes
  <2>3. CASE StartVideo
    BY <1>0, <2>3 DEF StartVideo, Goes
  <2>4. CASE StartAudio
    BY <1>0, <2>4 DEF StartAudio, Goes
  <2>5. CASE StartMark
    BY <1>0, <2>5 DEF StartMark, Goes
  <2> QED
    BY <1>1, <2>1, <2>2, <2>3, <2>4, <2>5 DEF StartRecording
<1>2. CASE StopRecording("control")
  <2>1. CASE StopTest("control")
    BY <1>0, <2>1 DEF StopTest, AfterStop, Goes
  <2>2. CASE StopVideo("control")
    BY <1>0, <2>2 DEF StopVideo, Goes
  <2>3. CASE StopAudio("control")
    BY <1>0, <2>3 DEF StopAudio, Goes
  <2>4. CASE StopMark("control")
    BY <1>0, <2>4 DEF StopMark, AfterStop, Goes
  <2> QED
    BY <1>2, <2>1, <2>2, <2>3, <2>4 DEF StopRecording
<1>3. CASE LoopTest
  BY <1>0, <1>3 DEF LoopTest, Goes
<1>4. CASE ReadFlag
  <2>1. \E to \in {"file", "start", "stop"} : Step("control", "shm", to)
    BY <1>4 DEF ReadFlag
  <2> QED
    BY <1>0, <1>4, <2>1 DEF Goes
<1>5. CASE Return
  <2>1. Step("control", "back", IF caller = "shm" THEN "file" ELSE "remove")
    BY <1>5 DEF Return
  <2> QED
    BY <1>0, <1>5, <2>1 DEF Goes
<1>6. CASE ReadCommand
  <2>1. \E to \in {"top", "act", "remove"} : Step("control", "file", to)
    BY <1>6 DEF ReadCommand
  <2> QED
    BY <1>0, <1>6, <2>1 DEF Goes
<1>7. CASE ActOnCommand
  <2>1. Step("control", "act", IF Wanted THEN cmd ELSE "remove")
    BY <1>7 DEF ActOnCommand
  <2>2. Goes("act", IF Wanted THEN cmd ELSE "remove")
    BY <1>0, <2>1
  <2>3. cmd \in Commands
    BY <2>2 DEF CommandInv, Goes
  <2> QED
    BY <1>7, <2>2, <2>3 DEF Goes, Commands
<1>8. CASE RemoveCommand
  BY <1>0, <1>8 DEF RemoveCommand, Goes
<1> QED
  BY <1>1, <1>2, <1>3, <1>4, <1>5, <1>6, <1>7, <1>8 DEF ControlStep

(* The main thread does not touch what the others write, and moves on only *)
(* within the steps of cleanup_pipeline.                                   *)
LEMMA MainPlaces ==
  ASSUME TypeOK, MainStep
  PROVE  /\ control' = control /\ pc'["main"] \in MainPC \ {"monitor"}
         /\ pc' \in [Threads -> ControlPC \cup MainPC]
         /\ UNCHANGED <<external, locals, bus, history>>
         /\ is_recording' \in BOOLEAN /\ thread_running' \in BOOLEAN
         /\ video_valve' \in BOOLEAN /\ audio_valve' \in BOOLEAN
<1> DEFINE Goes(to) ==
             /\ pc'["main"] = to
             /\ control' = control
             /\ to \in MainPC => pc' \in [Threads -> ControlPC \cup MainPC]
<1> HIDE DEF Goes
<1>0. \A from, to : Step("main", from, to) => Goes(to)
  BY MainGoes DEF Goes
<1>1. \E from \in MainPC, to \in MainPC \ {"monitor"} : Step("main", from, to)
  BY DEF MainStep, LeaveMonitor, CleanupTest, StopRecording, StopTest, StopVideo,
     StopAudio, StopMark, AfterStop, CleanupHalt, CleanupJoin, CleanupRelease,
     MainPC, StopPC
<1>2. /\ UNCHANGED <<external, locals, bus, history>>
      /\ is_recording' \in {is_recording, FALSE}
      /\ thread_running' \in {thread_running, FALSE}
      /\ video_valve' \in {video_valve, TRUE} /\ audio_valve' \in {audio_valve, TRUE}
  BY DEF MainStep, LeaveMonitor, CleanupTest, StopRecording, StopTest, StopVideo,
     StopAudio, StopMark, CleanupHalt, SignalThread, CleanupJoin, CleanupRelease,
     valves
<1>3. PICK to \in MainPC \ {"monitor"} : Goes(to)
  BY <1>0, <1>1
<1> QED
  BY <1>2, <1>3 DEF Goes, TypeOK
-----------------------------------------------------------------------------
(* A process that is started again.                                        *)
LEMMA RestartPlaces ==
  ASSUME Restart
  PROVE  /\ control' \in {"top", "none"} /\ pc'["main"] = "monitor"
         /\ pc' \in [Threads -> ControlPC \cup MainPC]
         /\ bus' \in BOOLEAN
BY DEF Restart, StartedPipeline, control, Threads, ControlPC, MainPC

(* What the environment changes of the process while it runs: its flag,    *)
(* its command file, the card and the bus.                                 *)
LEMMA EnvironmentPlaces ==
  ASSUME Environment, ~Restart
  PROVE  UNCHANGED <<is_recording, locals, thread_running, valves, pc, control,
                     files, refused, restarts>>
BY DEF Environment, SetFlag, ClearFlag, OpenCommandFile, WriteCommandFile,
   CardChanges, PipelineError, history, control

LEMMA TypeStep == TypeOK /\ CommandInv /\ [Next]_vars => TypeOK'
<1> SUFFICES ASSUME TypeOK, CommandInv, [Next]_vars PROVE TypeOK'
  OBVIOUS
<1>1. CASE ControlStep
  <2>1. /\ pc' \in [Threads -> ControlPC \cup MainPC] /\ control' \in ControlPC
        /\ pc'["main"] \in MainPC
    BY <1>1, ControlPlaces DEF TypeOK
  <2>2. /\ flag' \in BOOLEAN /\ cmdFile' \in Commands \cup {"none", "empty"}
        /\ writer' \in {"idle", "open", "orphan"} /\ UNCHANGED card
    BY <1>1 DEF ControlStep, StartRecording, StartTest, NewFile, StartVideo,
       StartAudio, StartMark, StopRecording, StopTest, StopVideo, StopAudio,
       StopMark, LoopTest, ReadFlag, Return, ReadCommand, ActOnCommand,
       RemoveCommand, external, TypeOK
  <2>3. /\ is_recording' \in BOOLEAN /\ UNCHANGED thread_running
        /\ video_valve' \in BOOLEAN /\ audio_valve' \in BOOLEAN
    BY <1>1 DEF ControlStep, StartRecording, StartTest, NewFile, StartVideo,
       StartAudio, StartMark, OpenAudioValve, StopRecording, StopTest, StopVideo,
       StopAudio, StopMark, LoopTest, ReadFlag, Return, ReadCommand,
       ActOnCommand, RemoveCommand, valves, TypeOK
  <2>4. /\ prev_state' \in BOOLEAN /\ cmd' \in Commands \cup {"none", "empty"}
        /\ caller' \in {"shm", "cmd"}
    BY <1>1 DEF ControlStep, StartRecording, StartTest, NewFile, StartVideo,
       StartAudio, StartMark, StopRecording, StopTest, StopVideo, StopAudio,
       StopMark, LoopTest, ReadFlag, Return, ReadCommand, ActOnCommand,
       RemoveCommand, locals, TypeOK
  <2>5. bus' \in BOOLEAN /\ refused' \in BOOLEAN
    BY <1>1 DEF ControlStep, StartRecording, StartTest, NewFile, StartVideo,
       StartAudio, StartMark, StopRecording, StopTest, StopVideo, StopAudio,
       StopMark, LoopTest, ReadFlag, Return, ReadCommand, ActOnCommand,
       RemoveCommand, history, TypeOK
  <2>6. requests' \in Nat /\ files' \in Nat /\ restarts' \in Nat
    <3>1. UNCHANGED <<requests, restarts>> /\ files' \in {files, files + 1}
      BY <1>1 DEF ControlStep, StartRecording, StartTest, NewFile, StartVideo,
         StartAudio, StartMark, StopRecording, StopTest, StopVideo, StopAudio,
         StopMark, LoopTest, ReadFlag, Return, ReadCommand, ActOnCommand,
         RemoveCommand, history, TypeOK
    <3> QED
      BY <3>1 DEF TypeOK
  <2> QED
    BY <2>1, <2>2, <2>3, <2>4, <2>5, <2>6 DEF TypeOK, control
<1>2. CASE MainStep
  BY <1>2, MainPlaces DEF TypeOK, control, external, locals, history
<1>3. CASE Restart
  <2>1. /\ flag' = FALSE /\ is_recording' = FALSE
        /\ prev_state' = FALSE /\ cmd' = "none" /\ caller' = "shm"
        /\ thread_running' = TRUE
        /\ video_valve' = TRUE /\ audio_valve' = TRUE
        /\ refused' = FALSE
        /\ UNCHANGED <<cmdFile, writer, card, requests, files>>
    BY <1>3 DEF Restart, StartedPipeline
  <2>2. restarts' \in Nat
    BY <1>3 DEF Restart, TypeOK
  <2>3. control' \in ControlPC /\ pc'["main"] \in MainPC
    BY <1>3, RestartPlaces DEF ControlPC, MainPC
  <2> QED
    BY <1>3, <2>1, <2>2, <2>3, RestartPlaces DEF TypeOK, control
<1>4. CASE Environment /\ ~Restart
  <2>1. UNCHANGED <<is_recording, prev_state, cmd, caller, thread_running,
                    video_valve, audio_valve, pc, files, refused, restarts>>
    BY <1>4, EnvironmentPlaces DEF locals, valves
  <2>2. /\ flag' \in BOOLEAN /\ cmdFile' \in Commands \cup {"none", "empty"}
        /\ writer' \in {"idle", "open", "orphan"}
        /\ card' \in BOOLEAN /\ bus' \in BOOLEAN
    BY <1>4 DEF Environment, SetFlag, ClearFlag, OpenCommandFile, WriteCommandFile,
       CardChanges, PipelineError, external, TypeOK
  <2>3. requests' \in {requests, requests + 1}
    BY <1>4 DEF Environment, SetFlag, ClearFlag, OpenCommandFile, WriteCommandFile,
       CardChanges, PipelineError, history, TypeOK
  <2>4. requests' \in Nat
    BY <2>3 DEF TypeOK
  <2> QED
    BY <2>1, <2>2, <2>4 DEF TypeOK
<1>5. CASE UNCHANGED vars
  BY <1>5 DEF vars, external, locals, valves, history, TypeOK
<1> QED
  BY <1>1, <1>2, <1>3, <1>4, <1>5 DEF Next

(* What the thread does is what the command said, because a command is     *)
(* read once and acted on before the next is read.                         *)
LEMMA CommandStep == TypeOK /\ CommandInv /\ [Next]_vars => CommandInv'
<1> SUFFICES ASSUME TypeOK, CommandInv, [Next]_vars PROVE CommandInv'
  OBVIOUS
<1> USE DEF CommandInv, Serving, StartPC, StopPC
<1>1. CASE ReadCommand
  <2>1. control' \in {"top", "act", "remove"} /\ (control' = "act" => cmd' \in Commands)
    BY <1>1, ControlGoes DEF ReadCommand
  <2> QED
    BY <2>1
<1>2. CASE ActOnCommand
  <2>1. control = "act" /\ control' = IF Wanted THEN cmd ELSE "remove"
    BY <1>2, ControlGoes DEF ActOnCommand
  <2>2. cmd' = cmd /\ cmd \in Commands
    BY <1>2, <2>1 DEF ActOnCommand
  <2> QED
    BY <2>1, <2>2 DEF Commands
<1>3. CASE ReadFlag
  <2>1. control' \in {"file", "start", "stop"}
        /\ (control' \in {"start", "stop"} => caller' = "shm")
    BY <1>3, ControlGoes DEF ReadFlag
  <2> QED
    BY <2>1
<1>4. CASE ControlStep /\ ~ReadCommand /\ ~ActOnCommand /\ ~ReadFlag
  <2>1. UNCHANGED <<cmd, caller>>
    BY <1>4 DEF ControlStep, StartRecording, StartTest, NewFile, StartVideo,
       StartAudio, StartMark, StopRecording, StopTest, StopVideo, StopAudio,
       StopMark, LoopTest, Return, RemoveCommand, locals
  <2>2. /\ control' # "act"
        /\ control' \in StopPC => control \in StopPC
    BY <1>4, ControlPlaces
  <2> QED
    BY <2>1, <2>2
<1>5. CASE MainStep
  BY <1>5, MainPlaces DEF locals
<1>6. CASE Restart
  BY <1>6, RestartPlaces
<1>7. CASE Environment /\ ~Restart
  BY <1>7, EnvironmentPlaces DEF locals
<1>8. CASE UNCHANGED vars
  BY <1>8 DEF vars, locals, control
<1> QED
  BY <1>1, <1>2, <1>3, <1>4, <1>5, <1>6, <1>7, <1>8 DEF Next

(* start_recording and stop_recording leave both valves in agreement with  *)
(* is_recording, which nobody else changes before the cleanup.             *)
LEMMA ValveStep == TypeOK /\ CommandInv /\ ValveInv /\ [Next]_vars => ValveInv'
<1> SUFFICES ASSUME TypeOK, CommandInv, ValveInv, [Next]_vars,
                    pc'["main"] = "monitor"
             PROVE  ValveInv'
  BY DEF ValveInv
<1>0. /\ is_recording \in BOOLEAN
      /\ video_valve \in BOOLEAN /\ audio_valve \in BOOLEAN
  BY DEF TypeOK
<1> USE DEF ValveInv, Matching, StartPC, StopPC
<1>1. CASE ControlStep
  <2>0. pc["main"] = "monitor"
    BY <1>1, ControlPlaces
  <2>1. CASE StartTest
    <3>1. control = "start" /\ UNCHANGED is_recording
          /\ \/ control' = "back" /\ UNCHANGED <<video_valve, audio_valve>>
             \/ /\ control' = "newFile" /\ ~is_recording
                /\ video_valve' = TRUE /\ audio_valve' = TRUE
      BY <2>1, ControlGoes DEF StartTest, AlreadyRecording, valves
    <3> QED
      BY <1>0, <2>0, <3>1
  <2>2. CASE NewFile
    BY <1>0, <2>0, <2>2, ControlGoes DEF NewFile, valves
  <2>3. CASE StartVideo
    BY <1>0, <2>0, <2>3, ControlGoes DEF StartVideo
  <2>4. CASE StartAudio
    BY <1>0, <2>0, <2>4, ControlGoes DEF StartAudio, OpenAudioValve
  <2>5. CASE StartMark
    BY <1>0, <2>0, <2>5, ControlGoes DEF StartMark, valves
  <2>6. CASE StopTest("control")
    BY <1>0, <2>0, <2>6, ControlGoes DEF StopTest, AfterStop, valves
  <2>7. CASE StopVideo("control")
    <3>1. /\ control = "stopVideo" /\ control' = "stopAudio"
          /\ video_valve' = TRUE /\ UNCHANGED <<is_recording, audio_valve>>
      BY <2>7, ControlGoes DEF StopVideo
    <3> QED
      BY <1>0, <2>0, <3>1
  <2>8. CASE StopAudio("control")
    <3>1. /\ control = "stopAudio" /\ control' = "stopMark"
          /\ audio_valve' = TRUE /\ UNCHANGED <<is_recording, video_valve>>
      BY <2>8, ControlGoes DEF StopAudio
    <3> QED
      BY <1>0, <2>0, <3>1
  <2>9. CASE StopMark("control")
    BY <1>0, <2>0, <2>9, ControlGoes DEF StopMark, AfterStop, valves
  <2>10. CASE LoopTest \/ ReadFlag \/ Return \/ ReadCommand \/ ActOnCommand
              \/ RemoveCommand
    <3>1. UNCHANGED <<is_recording, video_valve, audio_valve>>
      BY <2>10 DEF LoopTest, ReadFlag, Return, ReadCommand, ActOnCommand,
         RemoveCommand, valves
    <3>2. /\ control \in {"top", "shm", "back", "file", "act", "remove"}
          /\ control' \notin (StartPC \cup StopPC) \ {"start", "stop"}
      <4>1. CASE LoopTest \/ Return \/ RemoveCommand
        BY <4>1, ControlGoes DEF LoopTest, Return, RemoveCommand
      <4>2. CASE ReadFlag \/ ReadCommand
        BY <4>2, ControlGoes DEF ReadFlag, ReadCommand
      <4>3. CASE ActOnCommand
        <5>1. control = "act" /\ control' = IF Wanted THEN cmd ELSE "remove"
          BY <4>3, ControlGoes DEF ActOnCommand
        <5> QED
          BY <5>1 DEF CommandInv, Commands
      <4> QED
        BY <2>10, <4>1, <4>2, <4>3
    <3> QED
      BY <1>0, <2>0, <3>1, <3>2
  <2> QED
    BY <1>1, <2>1, <2>2, <2>3, <2>4, <2>5, <2>6, <2>7, <2>8, <2>9, <2>10
       DEF ControlStep, StartRecording, StopRecording
<1>2. CASE MainStep
  BY <1>2, MainPlaces
<1>3. CASE Restart
  <2>1. /\ control' \in {"top", "none"} /\ is_recording' = FALSE
        /\ video_valve' = TRUE /\ audio_valve' = TRUE
    BY <1>3, RestartPlaces DEF Restart, StartedPipeline
  <2> QED
    BY <2>1
<1>4. CASE Environment /\ ~Restart
  BY <1>4, EnvironmentPlaces DEF valves
<1>5. CASE UNCHANGED vars
  BY <1>5 DEF vars, valves, control
<1> QED
  BY <1>1, <1>2, <1>3, <1>4, <1>5 DEF Next
-----------------------------------------------------------------------------
(* Counting: a request that moves from one place to another, or is lost,   *)
(* leaves no more of them.                                                 *)
LEMMA PendingIsNat == Pending \in Nat
BY DEF Pending, One

LEMMA NoMorePending ==
  ASSUME TypeOK, RequestInv, pc["main"] = "monitor",
         UNCHANGED <<files, requests, restarts>>,
         One(InFlag)' + One(InCommandFile)' + One(InThread)' <= Pending
  PROVE  RequestInv'
BY PendingIsNat DEF TypeOK, RequestInv, Pending, One

(* A step of the control thread makes no request.                          *)
LEMMA ControlRequests ==
  TypeOK /\ CommandInv /\ RequestInv /\ ControlStep => RequestInv'
<1> SUFFICES ASSUME TypeOK, CommandInv, RequestInv, ControlStep
             PROVE  RequestInv'
  OBVIOUS
<1>0. /\ files \in Nat /\ requests \in Nat /\ restarts \in Nat
      /\ is_recording \in BOOLEAN /\ prev_state \in BOOLEAN /\ flag \in BOOLEAN
      /\ caller \in {"shm", "cmd"} /\ card \in BOOLEAN
  BY DEF TypeOK
<1>1. pc'["main"] = pc["main"] /\ UNCHANGED <<requests, restarts>>
  BY ControlPlaces DEF ControlStep, StartRecording, StartTest, NewFile, StartVideo,
     StartAudio, StartMark, StopRecording, StopTest, StopVideo, StopAudio, StopMark,
     LoopTest, ReadFlag, Return, ReadCommand, ActOnCommand, RemoveCommand, history
<1>2. CASE pc["main"] # "monitor"
  <2>1. UNCHANGED files
    BY <1>0, <1>2 DEF ControlStep, StartRecording, StartTest, NewFile, StartVideo,
       StartAudio, StartMark, StopRecording, StopTest, StopVideo, StopAudio, StopMark,
       LoopTest, ReadFlag, Return, ReadCommand, ActOnCommand, RemoveCommand, history
  <2> QED
    BY <1>1, <1>2, <2>1 DEF RequestInv
<1>3. CASE pc["main"] = "monitor"
  <2> DEFINE Rest == One(InFlag)' + One(InCommandFile)' + One(InThread)'
  <2> USE DEF Serving, StartPC, StopPC
  <2>1. CASE NewFile
    <3>1. /\ control = "newFile" /\ control' = "startVideo"
          /\ UNCHANGED <<flag, cmdFile, prev_state, cmd, caller, is_recording>>
          /\ files' \in {files, files + 1}
      BY <1>0, <2>1, ControlGoes DEF NewFile, external, locals
    <3>2. /\ InFlag' <=> InFlag
          /\ InCommandFile' <=> InCommandFile
          /\ InThread /\ ~InThread'
      BY <3>1 DEF InFlag, InCommandFile, InThread
    <3>3. /\ Pending' = One(InFlag) + One(InCommandFile)
          /\ Pending = One(InFlag) + One(InCommandFile) + 1
          /\ One(InFlag) \in Nat /\ One(InCommandFile) \in Nat
      BY <3>2 DEF Pending, One
    <3>4. files + (One(InFlag) + One(InCommandFile) + 1) <= requests + restarts
      BY <1>3, <3>3 DEF RequestInv
    <3>5. /\ files' <= requests' + restarts'
          /\ files' + (One(InFlag) + One(InCommandFile)) <= requests' + restarts'
      BY <1>0, <1>1, <3>1, <3>3, <3>4
    <3> QED
      BY <3>3, <3>5, Zenon DEF RequestInv
  <2>2. CASE ~NewFile
    <3>1. UNCHANGED files
      BY <2>2 DEF ControlStep, StartRecording, StartTest, StartVideo,
         StartAudio, StartMark, StopRecording, StopTest, StopVideo, StopAudio, StopMark,
         LoopTest, ReadFlag, Return, ReadCommand, ActOnCommand, RemoveCommand, history
    <3> SUFFICES One(InFlag)' + One(InCommandFile)' + One(InThread)' <= Pending
      BY <1>1, <1>3, <3>1, NoMorePending
    <3>2. CASE StartTest
      <4>1. /\ control = "start" /\ control' \in {"back", "newFile"}
            /\ control' = "newFile" => ~is_recording
            /\ UNCHANGED <<flag, cmdFile, prev_state, cmd, caller, is_recording>>
        BY <3>2, ControlGoes DEF StartTest, AlreadyRecording, external, locals
      <4>2. /\ InFlag' <=> InFlag
            /\ InCommandFile' <=> InCommandFile
            /\ InThread' => InThread
        BY <4>1 DEF InFlag, InCommandFile, InThread
      <4> QED
        BY <4>2 DEF Pending, One
    <3>3. CASE StartVideo \/ StartAudio
      <4>1. /\ control \in {"startVideo", "startAudio"}
            /\ control' \in {"startAudio", "startMark"}
            /\ UNCHANGED <<flag, cmdFile, prev_state, cmd, caller, is_recording>>
        BY <3>3, ControlGoes DEF StartVideo, StartAudio, external, locals
      <4>2. /\ InFlag' <=> InFlag
            /\ InCommandFile' <=> InCommandFile
            /\ ~InThread'
        BY <4>1 DEF InFlag, InCommandFile, InThread
      <4> QED
        BY <4>2 DEF Pending, One
    <3>4. CASE StartMark
      <4>1. /\ control = "startMark" /\ control' = "back"
            /\ is_recording' = TRUE
            /\ UNCHANGED <<flag, cmdFile, prev_state, cmd, caller>>
        BY <3>4, ControlGoes DEF StartMark, external, locals
      <4>2. /\ InFlag' => InFlag
            /\ InCommandFile' <=> InCommandFile
            /\ ~InThread'
        BY <1>0, <4>1 DEF InFlag, InCommandFile, InThread
      <4> QED
        BY <4>2 DEF Pending, One
    <3>5. CASE StopRecording("control")
      <4>1. /\ control \in StopPC /\ control' \in StopPC \cup {"back"}
            /\ UNCHANGED <<flag, cmdFile, prev_state, cmd, caller>>
        BY <3>5, ControlGoes DEF StopRecording, StopTest, StopVideo, StopAudio,
           StopMark, AfterStop, external, locals
      <4>2. caller = "cmd" => cmd # "start"
        BY <4>1 DEF CommandInv
      <4>3. /\ InFlag' <=> InFlag
            /\ InCommandFile' <=> InCommandFile
            /\ ~InThread'
        BY <1>0, <4>1, <4>2 DEF InFlag, InCommandFile, InThread
      <4> QED
        BY <4>3 DEF Pending, One
    <3>6. CASE LoopTest
      <4>1. /\ control = "top" /\ control' \in {"shm", "exited"}
            /\ UNCHANGED <<flag, cmdFile, prev_state, cmd, caller, is_recording>>
        BY <3>6, ControlGoes DEF LoopTest, external, locals
      <4>2. /\ InFlag' <=> InFlag
            /\ InCommandFile' <=> InCommandFile
            /\ ~InThread'
        BY <4>1 DEF InFlag, InCommandFile, InThread
      <4> QED
        BY <4>2 DEF Pending, One
    <3>7. CASE ReadFlag
      <4>1. /\ control = "shm"
            /\ UNCHANGED <<flag, cmdFile, prev_state, cmd, is_recording>>
            /\ \/ control' = "file" /\ UNCHANGED caller
               \/ control' = "start" /\ caller' = "shm" /\ flag /\ ~prev_state
               \/ control' = "stop" /\ caller' = "shm" /\ ~flag
        BY <1>0, <3>7, ControlGoes DEF ReadFlag, Changed, external
      <4>2. CASE control' = "file"
        <5>1. /\ InFlag' <=> InFlag
              /\ InCommandFile' <=> InCommandFile
              /\ ~InThread'
          BY <4>1, <4>2 DEF InFlag, InCommandFile, InThread
        <5> QED
          BY <5>1 DEF Pending, One
      <4>3. CASE control' = "start"
        <5>1. /\ ~InFlag' /\ (InThread' => InFlag)
              /\ InCommandFile' <=> InCommandFile
          BY <4>1, <4>3 DEF InFlag, InCommandFile, InThread
        <5> QED
          BY <5>1 DEF Pending, One
      <4>4. CASE control' = "stop"
        <5>1. /\ ~InFlag' /\ ~InThread'
              /\ InCommandFile' <=> InCommandFile
          BY <4>1, <4>4 DEF InFlag, InCommandFile, InThread
        <5> QED
          BY <5>1 DEF Pending, One
      <4> QED
        BY <4>1, <4>2, <4>3, <4>4
    <3>8. CASE Return /\ caller = "shm"
      <4>1. /\ control = "back" /\ control' = "file" /\ prev_state' = ~prev_state
            /\ UNCHANGED <<flag, cmdFile, cmd, caller, is_recording>>
        BY <3>8, ControlGoes DEF Return
      <4>2. /\ InFlag' => InFlag
            /\ InCommandFile' <=> InCommandFile
            /\ ~InThread'
        BY <1>0, <3>8, <4>1 DEF InFlag, InCommandFile, InThread
      <4> QED
        BY <4>2 DEF Pending, One
    <3>9. CASE Return /\ caller = "cmd"
      <4>1. /\ control = "back" /\ control' = "remove" /\ flag' = (cmd = "start")
            /\ UNCHANGED <<prev_state, cmdFile, cmd, caller, is_recording>>
        BY <3>9, ControlGoes DEF Return
      <4>2. /\ InFlag' => InThread
            /\ ~InCommandFile' /\ ~InThread'
        BY <3>9, <4>1 DEF InFlag, InCommandFile, InThread
      <4> QED
        BY <4>2 DEF Pending, One
    <3>10. CASE ReadCommand
      <4>1. /\ control = "file" /\ cmd' = cmdFile
            /\ \/ control' = "top" /\ cmdFile = "none"
               \/ control' \in {"act", "remove"}
            /\ UNCHANGED <<flag, prev_state, cmdFile, caller, is_recording>>
        BY <3>10, ControlGoes DEF ReadCommand, external
      <4>2. /\ InFlag' <=> InFlag
            /\ ~InCommandFile' /\ (InThread' => InCommandFile)
        BY <4>1 DEF InFlag, InCommandFile, InThread
      <4> QED
        BY <4>2 DEF Pending, One
    <3>11. CASE ActOnCommand
      <4>1. /\ control = "act" /\ caller' = "cmd" /\ cmd \in Commands
            /\ control' = IF Wanted THEN cmd ELSE "remove"
            /\ UNCHANGED <<flag, prev_state, cmdFile, cmd, is_recording>>
        BY <3>11, ControlGoes DEF ActOnCommand, CommandInv, external
      <4>2. /\ InFlag' => InFlag
            /\ ~InCommandFile'
            /\ InThread' => InThread
        BY <4>1 DEF InFlag, InCommandFile, InThread, Commands, Wanted
      <4> QED
        BY <4>2 DEF Pending, One
    <3>12. CASE RemoveCommand
      <4>1. /\ control = "remove" /\ control' = "top" /\ cmdFile' = "none"
            /\ UNCHANGED <<flag, prev_state, cmd, caller, is_recording>>
        BY <3>12, ControlGoes DEF RemoveCommand, locals
      <4>2. /\ InFlag' <=> InFlag
            /\ ~InCommandFile' /\ ~InThread'
        BY <4>1 DEF InFlag, InCommandFile, InThread
      <4> QED
        BY <4>2 DEF Pending, One
    <3> QED
      BY <1>0, <2>2, <3>2, <3>3, <3>4, <3>5, <3>6, <3>7, <3>8, <3>9, <3>10, <3>11,
         <3>12 DEF ControlStep, StartRecording
  <2> QED
    BY <2>1, <2>2
<1> QED
  BY <1>2, <1>3

(* The environment makes requests, and each is counted.                    *)
LEMMA EnvironmentRequests ==
  TypeOK /\ RequestInv /\ Environment /\ ~Restart => RequestInv'
<1> SUFFICES ASSUME TypeOK, RequestInv, Environment, ~Restart
             PROVE  RequestInv'
  OBVIOUS
<1>0. /\ files \in Nat /\ requests \in Nat /\ restarts \in Nat
      /\ UNCHANGED <<is_recording, prev_state, cmd, caller, control, files, restarts>>
      /\ pc'["main"] = pc["main"]
  BY EnvironmentPlaces DEF TypeOK, locals
<1>1. CASE requests' = requests + 1
  <2>1. InThread' <=> InThread
    BY <1>0 DEF InThread
  <2>2. \/ InCommandFile' <=> InCommandFile
        \/ InFlag' <=> InFlag
    BY <1>0, <1>1 DEF Environment, SetFlag, ClearFlag, OpenCommandFile,
       WriteCommandFile, CardChanges, PipelineError, history, InFlag,
       InCommandFile, Serving
  <2> QED
    BY <1>0, <1>1, <2>1, <2>2 DEF RequestInv, Pending, One
<1>2. CASE requests' # requests + 1
  <2>1. InThread' <=> InThread
    BY <1>0 DEF InThread
  <2>2. /\ flag' => flag
        /\ cmdFile' = "start" => cmdFile = "start"
        /\ requests' = requests
    BY <1>0, <1>2 DEF Environment, SetFlag, ClearFlag, OpenCommandFile,
       WriteCommandFile, CardChanges, PipelineError, external, history, Commands
  <2>3. /\ InFlag' => InFlag
        /\ InCommandFile' => InCommandFile
    BY <1>0, <2>2 DEF InFlag, InCommandFile, Serving
  <2> QED
    BY <1>0, <2>1, <2>2, <2>3 DEF RequestInv, Pending, One
<1> QED
  BY <1>1, <1>2

(* A process that starts again knows of no request, and may find one in    *)
(* the command file that it has obeyed before.                             *)
LEMMA RestartRequests == TypeOK /\ RequestInv /\ Restart => RequestInv'
<1> SUFFICES ASSUME TypeOK, RequestInv, Restart PROVE RequestInv'
  OBVIOUS
<1>1. /\ files \in Nat /\ requests \in Nat /\ restarts \in Nat
      /\ files <= requests + restarts
      /\ restarts' = restarts + 1 /\ UNCHANGED <<files, requests>>
      /\ flag' = FALSE /\ control' \in {"top", "none"}
  BY RestartPlaces DEF TypeOK, RequestInv, Restart, StartedPipeline
<1>2. ~InFlag' /\ ~InThread'
  BY <1>1 DEF InFlag, InThread
<1> QED
  BY <1>1, <1>2 DEF RequestInv, Pending, One

LEMMA RequestStep ==
  TypeOK /\ CommandInv /\ RequestInv /\ [Next]_vars => RequestInv'
<1> SUFFICES ASSUME TypeOK, CommandInv, RequestInv, [Next]_vars
             PROVE  RequestInv'
  OBVIOUS
<1>1. CASE MainStep
  <2>1. UNCHANGED <<files, requests, restarts>> /\ pc'["main"] # "monitor"
    BY <1>1, MainPlaces DEF history
  <2> QED
    BY <2>1 DEF RequestInv
<1>2. CASE UNCHANGED vars
  BY <1>2 DEF vars, external, locals, history, RequestInv, Pending, InFlag,
     InCommandFile, InThread, Serving, control
<1> QED
  BY <1>1, <1>2, ControlRequests, EnvironmentRequests, RestartRequests DEF Next
-----------------------------------------------------------------------------
LEMMA ControlStart == Init => ControlInv
<1> SUFFICES ASSUME Init PROVE ControlInv
  OBVIOUS
<1>1. control \in {"top", "none"} /\ pc["main"] = "monitor"
      /\ pc \in [Threads -> ControlPC \cup MainPC]
  BY DEF Init, control, Threads, ControlPC, MainPC
<1>2. TypeOK
  BY <1>1 DEF Init, TypeOK, control, ControlPC, MainPC
<1>3. ValveInv
  BY <1>1 DEF Init, ValveInv, Matching
<1>4. CommandInv
  BY <1>1 DEF CommandInv, Serving, StopPC, StartPC
<1>5. RequestInv
  <2>1. ~InFlag /\ ~InThread /\ (InCommandFile => cmdFile = "start")
    BY <1>1 DEF Init, InFlag, InThread, InCommandFile
  <2>2. files = 0 /\ restarts = 0 /\ requests = IF cmdFile = "start" THEN 1 ELSE 0
    BY DEF Init
  <2> QED
    BY <2>1, <2>2 DEF RequestInv, Pending, One
<1> QED
  BY <1>2, <1>3, <1>4, <1>5 DEF ControlInv

LEMMA ControlStays == Spec => []ControlInv
<1>1. ControlInv /\ [Next]_vars => ControlInv'
  BY TypeStep, CommandStep, ValveStep, RequestStep DEF ControlInv
<1> QED
  BY <1>1, ControlStart, PTL DEF Spec

(* The types of the recording control.                                     *)
THEOREM ControlTypes == Spec => []TypeOK
<1>1. ControlInv => TypeOK
  BY DEF ControlInv
<1> QED
  BY <1>1, ControlStays, PTL

(* Both valves are open exactly while is_recording says so, whenever the   *)
(* control thread is not in start_recording or stop_recording and          *)
(* cleanup_pipeline has not begun, for any requests, failures of the card  *)
(* and restarts.                                                           *)
THEOREM ValvesAgree == Spec => []ValvesMatch
<1>1. ControlInv => ValvesMatch
  BY DEF ControlInv, ValveInv, Matching, ValvesMatch, control
<1> QED
  BY <1>1, ControlStays, PTL

(* No request makes two files: neither the flag that Return sets after a   *)
(* "start" command, nor a start that gave up on the card, nor a request    *)
(* made while another is served.                                           *)
THEOREM NoFileTwice == Spec => []OneFilePerRequest
<1>1. ControlInv => OneFilePerRequest
  BY DEF ControlInv, RequestInv, OneFilePerRequest
<1> QED
  BY <1>1, ControlStays, PTL
=============================================================================
