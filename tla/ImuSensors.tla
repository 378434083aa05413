----------------------------- MODULE ImuSensors -----------------------------
(***************************************************************************)
(* The sensors of the IMU process: its start-up (IMU/src/main.c), the two  *)
(* drivers (mpu6500.c, ak8963.c, i2c_utils.c), the loop that reads them    *)
(* (sensor_read.c) and the yaw of complementary_filter.  What happens to a *)
(* sample in the buffer is in ImuLogger.                                   *)
(*                                                                         *)
(* Angles are integers with a half turn of PI units, the filter's weights  *)
(* are percentages, and time is in units of the default time step.         *)
(***************************************************************************)
EXTENDS Integers, Sequences

CONSTANTS
  PI,           \* a half turn
  Rates,        \* rates of turn about the vertical, per unit of time
  Headings,     \* yaw angles the magnetometer gives
  DEFAULT_DT,   \* 0.005 s
  MAX_DT,       \* 1.0 s, the longest time step taken as such
  Gaps,         \* time from one sample to the next; the clock may be set
  MaxPasses     \* bound of the model: passes through the loop

ASSUME SensorAssumption ==
  /\ PI \in Nat \ {0} /\ Rates \subseteq Int /\ Headings \subseteq (-PI)..PI
  /\ DEFAULT_DT \in Nat \ {0} /\ MAX_DT \in Nat /\ DEFAULT_DT <= MAX_DT
  /\ Gaps \subseteq Int /\ MaxPasses \in Nat

VARIABLES
  csv_file,   \* first file: "none", "sdcard", "tmp"
  mpu_fd,     \* is the MPU6500 open?
  ak_fd,      \* is the AK8963 open?
  mpu_set,    \* registers of the MPU6500 that are set up
  ak_mode,    \* mode of the AK8963: "down", "fuse", "continuous"
  stage,      \* step of main, then of sensor_read_thread
  clock,      \* CLOCK_REALTIME
  pass,       \* number of the pass through the loop
  raw,        \* pass in which each part of the sample was read; its time
  prev_ts,    \* time of the last sample the filter got, or None
  yaw

(* History of the run, read by the properties only.                        *)
VARIABLES
  mixed,       \* has the filter got a sample with parts of several passes?
  first, last, \* time of the first and of the last sample it got
  integrated,  \* sum of its time steps
  irregular    \* has the time between two samples been out of range?

devices == <<csv_file, mpu_fd, ak_fd, mpu_set, ak_mode>>
filter  == <<prev_ts, yaw>>
sensorHistory == <<mixed, first, last, integrated, irregular>>
sensorVars == <<devices, stage, clock, pass, raw, filter, sensorHistory>>

None == 0  \* a time of zero seconds; the clock of a running system is later
Boot == 1
-----------------------------------------------------------------------------
SensorInit ==
  /\ csv_file = "none"
  /\ mpu_fd = FALSE /\ ak_fd = FALSE /\ mpu_set = 0
  /\ ak_mode \in {"down", "continuous"}
  /\ stage = "file"
  /\ clock = Boot /\ pass = 0
  /\ raw = [motion |-> 0, mag |-> 0, ts |-> None]
  /\ prev_ts = None /\ yaw = 0
  /\ mixed = FALSE /\ first = None /\ last = None /\ integrated = 0
  /\ irregular = FALSE

(* main: a first file on the card, or else in /tmp, whatever the sensors.  *)
FirstFile ==
  /\ stage = "file"
  /\ csv_file' \in {"sdcard", "tmp", "none"}
  /\ stage' = "mpu"
  /\ UNCHANGED <<mpu_fd, ak_fd, mpu_set, ak_mode, clock, pass, raw, filter,
                 sensorHistory>>

(* mpu6500_init: four registers are written in turn, up to a failure.      *)
MpuRegisters == 4

InitMpu ==
  /\ stage = "mpu"
  /\ \/ UNCHANGED <<mpu_fd, mpu_set>>
     \/ mpu_fd' = TRUE /\ mpu_set' \in 0..MpuRegisters
  /\ stage' = "ak"
  /\ UNCHANGED <<csv_file, ak_fd, ak_mode, clock, pass, raw, filter,
                 sensorHistory>>

(* ak8963_init: down, to the fuse ROM, a read there, down, to continuous   *)
(* measurement; the chip stays where a failure leaves it.  A failure of    *)
(* either sensor is reported, and main goes on with its threads.           *)
AkModes == <<"down", "fuse", "fuse", "down", "continuous">>

InitAk ==
  /\ stage = "ak"
  /\ \/ UNCHANGED <<ak_fd, ak_mode>>
     \/ /\ ak_fd' = TRUE
        /\ \/ UNCHANGED ak_mode
           \/ \E done \in DOMAIN AkModes : ak_mode' = AkModes[done]
  /\ stage' = "motion"
  /\ UNCHANGED <<csv_file, mpu_fd, mpu_set, clock, pass, raw, filter,
                 sensorHistory>>
-----------------------------------------------------------------------------
(* i2c_read_reg gives the number of bytes read: none, too few, or all.     *)
Results(fd) == {"error"} \cup (IF fd THEN {"short", "full"} ELSE {})
AcceptedUnlessError(result) == result # "error"
Accepted(result) == result = "full"

(* read_mpu6500_data: a new pass.  The time of the sample is taken here.   *)
ReadMotion ==
  /\ stage = "motion"
  /\ pass < MaxPasses
  /\ pass' = pass + 1
  /\ \E gap \in Gaps : clock + gap > None /\ clock' = clock + gap
  /\ \E result \in Results(mpu_fd) :
       /\ raw' = [raw EXCEPT !.motion = IF result = "full" THEN pass' ELSE @,
                             !.ts = IF Accepted(result) THEN clock' ELSE @]
       /\ stage' = IF Accepted(result) THEN "mag" ELSE "motion"
  /\ UNCHANGED <<devices, filter, sensorHistory>>

(* read_ak8963_data; after a failure the loop starts anew.                 *)
ReadMag ==
  /\ stage = "mag"
  /\ \E result \in Results(ak_fd) :
       /\ raw' = [raw EXCEPT !.mag = IF result = "full" THEN pass ELSE @]
       /\ stage' = IF Accepted(result) THEN "store" ELSE "motion"
  /\ UNCHANGED <<devices, clock, pass, filter, sensorHistory>>

(* A full buffer drops the sample, and the filter does not see it.         *)
DropSample ==
  /\ stage = "store"
  /\ stage' = "motion"
  /\ UNCHANGED <<devices, clock, pass, raw, filter, sensorHistory>>
-----------------------------------------------------------------------------
(* complementary_filter.  The time since the last sample it got, if that   *)
(* makes sense.                                                            *)
Elapsed(ts) == ts - prev_ts
InRange(t) == 0 < t /\ t <= MAX_DT

TimeStep(ts) ==
  IF prev_ts # None /\ InRange(Elapsed(ts)) THEN Elapsed(ts) ELSE DEFAULT_DT

KeepPrevious(ts) == IF prev_ts = None THEN ts ELSE prev_ts
NextPrevious(ts) == ts

(* The two loops that turn yaw back by whole turns; the number of turns is *)
(* what the loop needs.                                                    *)
NormaliseOnce(a) == IF a > PI THEN a - 2 * PI
                    ELSE IF a < -PI THEN a + 2 * PI ELSE a
Turns(excess) == (excess + 2 * PI - 1) \div (2 * PI)
Normalise(a) == IF a > PI THEN a - 2 * PI * Turns(a - PI)
                ELSE IF a < -PI THEN a + 2 * PI * Turns(-PI - a) ELSE a

(* The gyroscope alone, or blended with the magnetometer, whose weight is  *)
(* two percent.                                                            *)
Turned(rate, dt) == yaw + rate * dt
Blended(angle, heading) == (98 * angle + 2 * heading) \div 100

(* The magnetometer counts as absent when all its values are near zero; a  *)
(* chip that does not measure may give such values, or earlier ones.       *)
FilterSample ==
  /\ stage = "store"
  /\ \E rate \in Rates :
       LET angle == Turned(rate, TimeStep(raw.ts))
       IN  \E measured \in {angle} \cup {Blended(angle, h) : h \in Headings} :
             yaw' = Normalise(measured)
  /\ prev_ts' = NextPrevious(raw.ts)
  /\ stage' = "motion"
  /\ mixed' = (mixed \/ raw.motion # pass \/ raw.mag # pass)
  /\ first' = IF first = None THEN raw.ts ELSE first
  /\ last' = raw.ts
  /\ integrated' = integrated + TimeStep(raw.ts)
  /\ irregular' = (irregular \/ (last # None /\ ~InRange(raw.ts - last)))
  /\ UNCHANGED <<devices, clock, pass, raw>>

SensorNext ==
  FirstFile \/ InitMpu \/ InitAk \/ ReadMotion \/ ReadMag \/ DropSample
    \/ FilterSample

SensorSpec == SensorInit /\ [][SensorNext]_sensorVars
-----------------------------------------------------------------------------
(* Types of all variables.  The yaw that is logged is at most half a turn  *)
(* either way, whatever the rate of turn and the time between two samples. *)
SensorTypeOK ==
  /\ csv_file \in {"none", "sdcard", "tmp"}
  /\ {mpu_fd, ak_fd, mixed, irregular} \subseteq BOOLEAN
  /\ mpu_set \in 0..MpuRegisters
  /\ ak_mode \in {AkModes[i] : i \in DOMAIN AkModes}
  /\ stage \in {"file", "mpu", "ak", "motion", "mag", "store"}
  /\ {clock, pass, prev_ts, first, last} \subseteq Nat /\ integrated \in Int
  /\ raw \in [motion : 0..pass, mag : 0..pass, ts : Nat]
  /\ yaw \in (-PI)..PI

(* Acceleration, rate of turn and magnetic field of a sample the filter    *)
(* gets are of one pass through the loop: a read of either sensor that     *)
(* fails or ends early leaves nothing that a later sample is made of.      *)
SampleOfOnePass == ~mixed

(* The filter turns yaw through all the time from its first sample to its  *)
(* last, that of samples lost to a full buffer or a failed read included,  *)
(* as long as two samples it gets are no more than MAX_DT apart and the    *)
(* clock is not set back.                                                  *)
AllTimeIntegrated ==
  ~irregular /\ first # None => integrated = DEFAULT_DT + (last - first)
=============================================================================
