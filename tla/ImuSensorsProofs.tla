-------------------------- MODULE ImuSensorsProofs --------------------------
(***************************************************************************)
(* Theorems about ImuSensors, for all rates of turn, gaps between samples  *)
(* and numbers of passes: a sample is of one pass, the filter loses no     *)
(* time, and the yaw stays within half a turn.                             *)
(***************************************************************************)
EXTENDS ImuSensors, TLAPS

(* What has been read of a sample is of the pass that is going on.         *)
ReadInPass ==
  /\ stage \in {"mag", "store"} => raw.motion = pass /\ raw.ts # None
  /\ stage = "store" => raw.mag = pass

(* The filter knows the time of the last sample it got.                    *)
TimeKept ==
  /\ prev_ts = last
  /\ first = None <=> last = None
  /\ first = None => integrated = 0
  /\ AllTimeIntegrated

SensorInv == SensorTypeOK /\ ReadInPass /\ SampleOfOnePass /\ TimeKept

-----------------------------------------------------------------------------
(* A number of whole turns, the least that suffices, leaves at most half a *)
(* turn.                                                                   *)
LEMMA TurnsSuffice ==
  ASSUME NEW excess \in Int, excess > 0
  PROVE  /\ Turns(excess) \in Int
         /\ 2 * PI * Turns(excess) >= excess
         /\ 2 * PI * Turns(excess) < excess + 2 * PI
<1>1. PI \in Nat /\ PI > 0
  BY SensorAssumption
<1> DEFINE d == 2 * PI
           x == excess + d - 1
           q == x \div d
<1>2. d \in Nat /\ d > 0 /\ x \in Int
  BY <1>1
<1>3. q \in Int /\ d * q <= x /\ x < d * q + d
  <2> HIDE DEF d, x
  <2> QED
    BY <1>2
<1>4. Turns(excess) = q
  BY DEF Turns
<1>5. d * q >= excess /\ d * q < excess + d
  <2> HIDE DEF q
  <2>1. x = excess + d - 1
    OBVIOUS
  <2> HIDE DEF d
  <2>2. d * q \in Int
    BY <1>2, <1>3
  <2> QED
    BY <1>2, <1>3, <2>1, <2>2
<1> QED
  BY <1>3, <1>4, <1>5

(* The two loops leave at most half a turn either way.                     *)
LEMMA NormaliseInRange ==
  ASSUME NEW a \in Int
  PROVE  Normalise(a) \in (-PI)..PI
<1>1. PI \in Nat
  BY SensorAssumption
<1>2. CASE a > PI
  <2>1. /\ Turns(a - PI) \in Int
        /\ 2 * PI * Turns(a - PI) >= a - PI
        /\ 2 * PI * Turns(a - PI) < a - PI + 2 * PI
    BY <1>1, <1>2, TurnsSuffice
  <2> DEFINE n == 2 * PI * Turns(a - PI)
  <2>2. n \in Int
    BY <1>1, <2>1
  <2>3. Normalise(a) = a - n
    BY <1>2 DEF Normalise
  <2> HIDE DEF n
  <2>4. n >= a - PI /\ n < a - PI + 2 * PI
    BY <2>1 DEF n
  <2> QED
    BY <1>1, <2>2, <2>3, <2>4
<1>3. CASE a < -PI
  <2>1. /\ Turns(-PI - a) \in Int
        /\ 2 * PI * Turns(-PI - a) >= -PI - a
        /\ 2 * PI * Turns(-PI - a) < -PI - a + 2 * PI
    BY <1>1, <1>3, TurnsSuffice
  <2> DEFINE n == 2 * PI * Turns(-PI - a)
  <2>2. n \in Int
    BY <1>1, <2>1
  <2>3. Normalise(a) = a + n
    BY <1>1, <1>3 DEF Normalise
  <2>4. n >= -PI - a /\ n < -PI - a + 2 * PI
    BY <2>1 DEF n
  <2> HIDE DEF n
  <2> QED
    BY <1>1, <2>2, <2>3, <2>4
<1>4. CASE ~(a > PI) /\ ~(a < -PI)
  BY <1>1, <1>4 DEF Normalise
<1> QED
  BY <1>2, <1>3, <1>4

-----------------------------------------------------------------------------
LEMMA TimeStepIsInt ==
  ASSUME NEW ts \in Int, prev_ts \in Int
  PROVE  TimeStep(ts) \in Int
BY SensorAssumption DEF TimeStep, Elapsed, InRange

(* The filter turns yaw by an integer and then back into its range.        *)
LEMMA YawInRange ==
  ASSUME SensorTypeOK, FilterSample
  PROVE  yaw' \in (-PI)..PI
<1>1. PICK rate \in Rates :
        \E measured \in {Turned(rate, TimeStep(raw.ts))}
             \cup {Blended(Turned(rate, TimeStep(raw.ts)), h) : h \in Headings} :
          yaw' = Normalise(measured)
  BY DEF FilterSample
<1>2. Turned(rate, TimeStep(raw.ts)) \in Int
  <2>1. TimeStep(raw.ts) \in Int
    BY TimeStepIsInt DEF SensorTypeOK
  <2>2. yaw \in Int /\ rate \in Int
    BY SensorAssumption DEF SensorTypeOK
  <2>3. rate * TimeStep(raw.ts) \in Int
    BY <2>1, <2>2
  <2> QED
    BY <2>2, <2>3 DEF Turned
<1>3. \A h \in Headings : Blended(Turned(rate, TimeStep(raw.ts)), h) \in Int
  <2>1. \A h \in Headings : h \in Int
    BY SensorAssumption
  <2> QED
    BY <1>2, <2>1 DEF Blended
<1> QED
  BY <1>1, <1>2, <1>3, NormaliseInRange

(* Each step of main and of the thread.                                    *)
LEMMA SensorStep == SensorInv /\ [SensorNext]_sensorVars => SensorInv'
<1> SUFFICES ASSUME SensorInv, [SensorNext]_sensorVars PROVE SensorInv'
  OBVIOUS
<1> USE DEF SensorInv, ReadInPass, SampleOfOnePass, TimeKept, AllTimeIntegrated
<1>1. CASE FirstFile
  BY <1>1 DEF FirstFile, filter, sensorHistory, SensorTypeOK
<1>2. CASE InitMpu
  <2>1. SensorTypeOK'
    BY <1>2 DEF InitMpu, filter, sensorHistory, SensorTypeOK, MpuRegisters
  <2> QED
    BY <1>2, <2>1 DEF InitMpu, filter, sensorHistory
<1>3. CASE InitAk
  <2>1. ak_mode' \in {AkModes[i] : i \in DOMAIN AkModes}
    BY <1>3 DEF InitAk, SensorTypeOK
  <2>2. SensorTypeOK'
    BY <1>3, <2>1 DEF InitAk, filter, sensorHistory, SensorTypeOK
  <2> QED
    BY <1>3, <2>2 DEF InitAk, filter, sensorHistory
<1>4. CASE ReadMotion
  <2>1. PICK gap \in Gaps : clock + gap > None /\ clock' = clock + gap
    BY <1>4 DEF ReadMotion
  <2>2. clock' \in Nat /\ clock' # None
    BY <2>1, SensorAssumption DEF SensorTypeOK, None
  <2>3. pass \in Nat /\ pass' = pass + 1
    BY <1>4 DEF ReadMotion, SensorTypeOK
  <2>4. PICK result \in Results(mpu_fd) :
          /\ raw' = [raw EXCEPT !.motion = IF result = "full" THEN pass' ELSE @,
                                !.ts = IF Accepted(result) THEN clock' ELSE @]
          /\ stage' = IF Accepted(result) THEN "mag" ELSE "motion"
    BY <1>4 DEF ReadMotion
  <2>5. raw \in [motion : 0..pass, mag : 0..pass, ts : Nat]
    BY DEF SensorTypeOK
  <2>6. raw' \in [motion : 0..pass', mag : 0..pass', ts : Nat]
    <3>1. pass' \in 0..pass' /\ 0..pass \subseteq 0..pass'
      BY <2>3
    <3>2. raw'.motion \in 0..pass' /\ raw'.mag \in 0..pass' /\ raw'.ts \in Nat
      BY <2>2, <2>4, <2>5, <3>1
    <3>3. raw' = [motion |-> raw'.motion, mag |-> raw'.mag, ts |-> raw'.ts]
      BY <2>4, <2>5
    <3> QED
      BY <3>2, <3>3
  <2>7. ReadInPass'
    BY <2>2, <2>4, <2>5 DEF Accepted
  <2>8. UNCHANGED <<devices, filter, sensorHistory>>
    BY <1>4 DEF ReadMotion
  <2>9. SensorTypeOK'
    BY <2>2, <2>3, <2>4, <2>6, <2>8
       DEF SensorTypeOK, devices, filter, sensorHistory
  <2> QED
    BY <2>7, <2>8, <2>9 DEF filter, sensorHistory
<1>5. CASE ReadMag
  BY <1>5 DEF ReadMag, Accepted, devices, filter, sensorHistory, SensorTypeOK
<1>6. CASE DropSample
  BY <1>6 DEF DropSample, devices, filter, sensorHistory, SensorTypeOK
<1>7. CASE FilterSample
  <2>1. /\ stage = "store" /\ stage' = "motion"
        /\ prev_ts' = raw.ts /\ last' = raw.ts
        /\ mixed' = (mixed \/ raw.motion # pass \/ raw.mag # pass)
        /\ first' = IF first = None THEN raw.ts ELSE first
        /\ integrated' = integrated + TimeStep(raw.ts)
        /\ irregular' = (irregular \/ (last # None /\ ~InRange(raw.ts - last)))
        /\ UNCHANGED <<devices, clock, pass, raw>>
    BY <1>7 DEF FilterSample, NextPrevious
  <2>2. yaw' \in (-PI)..PI
    BY <1>7, YawInRange
  <2>3. TimeStep(raw.ts) \in Int /\ raw.ts \in Nat /\ prev_ts \in Nat
    BY TimeStepIsInt DEF SensorTypeOK
  <2>4. SampleOfOnePass'
    BY <2>1
  <2>5. mixed' \in BOOLEAN /\ irregular' \in BOOLEAN
    BY <2>1 DEF SensorTypeOK
  <2>6. SensorTypeOK'
    BY <2>1, <2>2, <2>3, <2>5 DEF SensorTypeOK, devices
  <2>7. AllTimeIntegrated'
    <3> SUFFICES ASSUME ~irregular' PROVE integrated' = DEFAULT_DT + (last' - first')
      OBVIOUS
    <3>1. first \in Nat /\ last \in Nat /\ integrated \in Int /\ DEFAULT_DT \in Int
      BY SensorAssumption DEF SensorTypeOK
    <3>2. CASE first = None
      <4>1. prev_ts = None
        BY <3>2
      <4>2. first' = raw.ts /\ TimeStep(raw.ts) = DEFAULT_DT
        BY <2>1, <3>2, <4>1 DEF TimeStep
      <4>3. integrated = 0
        BY <3>2
      <4> QED
        BY <2>1, <2>3, <3>1, <4>2, <4>3
    <3>3. CASE first # None
      <4>1. last # None /\ prev_ts = last
        BY <3>3
      <4>2. InRange(raw.ts - last) /\ ~irregular
        BY <2>1, <4>1
      <4>3. TimeStep(raw.ts) = raw.ts - last
        BY <4>1, <4>2 DEF TimeStep, Elapsed
      <4>4. integrated = DEFAULT_DT + (last - first)
        BY <3>3, <4>2
      <4> QED
        BY <2>1, <2>3, <3>1, <3>3, <4>3, <4>4
    <3> QED
      BY <3>2, <3>3
  <2> QED
    BY <2>1, <2>4, <2>6, <2>7
<1>8. CASE UNCHANGED sensorVars
  BY <1>8 DEF sensorVars, devices, filter, sensorHistory, SensorTypeOK
<1> QED
  BY <1>1, <1>2, <1>3, <1>4, <1>5, <1>6, <1>7, <1>8 DEF SensorNext

LEMMA SensorStart == SensorInit => SensorInv
<1> SUFFICES ASSUME SensorInit PROVE SensorInv
  OBVIOUS
<1>1. DOMAIN AkModes = 1..5 /\ AkModes[1] = "down" /\ AkModes[5] = "continuous"
  BY DEF AkModes
<1>2. ak_mode \in {AkModes[i] : i \in DOMAIN AkModes}
  BY <1>1 DEF SensorInit
<1>3. SensorTypeOK
  <2>1. 0 \in (-PI)..PI
    BY SensorAssumption
  <2>2. raw \in [motion : 0..pass, mag : 0..pass, ts : Nat]
    BY DEF SensorInit, None
  <2>3. {mpu_fd, ak_fd, mixed, irregular} \subseteq BOOLEAN
    BY DEF SensorInit
  <2>4. {clock, pass, prev_ts, first, last} \subseteq Nat
    BY DEF SensorInit, None, Boot
  <2> QED
    BY <1>2, <2>1, <2>2, <2>3, <2>4 DEF SensorInit, SensorTypeOK, MpuRegisters
<1> QED
  BY <1>3 DEF SensorInit, SensorInv, ReadInPass, SampleOfOnePass, TimeKept,
              AllTimeIntegrated, None

LEMMA SensorsStayRight == SensorSpec => []SensorInv
BY SensorStart, SensorStep, PTL DEF SensorSpec

(* Types of all variables, and with them the range of the yaw, for all     *)
(* rates of turn, headings and gaps.                                       *)
THEOREM YawStaysInRange == SensorSpec => []SensorTypeOK
<1>1. SensorInv => SensorTypeOK
  BY DEF SensorInv
<1> QED
  BY <1>1, SensorsStayRight, PTL

(* A sample the filter gets is of one pass, whatever reads fail or end     *)
(* early.                                                                  *)
THEOREM SamplesStayWhole == SensorSpec => []SampleOfOnePass
<1>1. SensorInv => SampleOfOnePass
  BY DEF SensorInv
<1> QED
  BY <1>1, SensorsStayRight, PTL

(* The filter integrates over all the time from its first sample to its    *)
(* last, for all gaps between samples that are in range.                   *)
THEOREM NoTimeLost == SensorSpec => []AllTimeIntegrated
<1>1. SensorInv => AllTimeIntegrated
  BY DEF SensorInv, TimeKept
<1> QED
  BY <1>1, SensorsStayRight, PTL
=============================================================================
