------------------------------ MODULE MCEdges ------------------------------
(***************************************************************************)
(* Instance, for TLC, of the four small components at the edges of the     *)
(* system: the sensors of the IMU process and the parser of the receiver's *)
(* sentences, where data come in; the number sent to the display and the   *)
(* page that shows the recordings, where they go out.  They share nothing  *)
(* that any of them reads, so their steps need not be interleaved: every   *)
(* behaviour is one of the component it has picked at the start.           *)
(***************************************************************************)
EXTENDS ImuSensors, NmeaParser, GnssProcess, WebViewer

VARIABLE part  \* the component whose behaviour this is

edgeVars == <<part, sensorVars, parserVars, gnssVars, viewerVars>>

Parts == {"sensors", "parser", "display", "page"}

Init ==
  /\ part \in Parts
  /\ SensorInit /\ ParserInit /\ GnssInit /\ ViewerInit
  /\ part # "page" => leaflet

Next ==
  /\ UNCHANGED part
  /\ \/ /\ part = "sensors" /\ SensorNext
        /\ UNCHANGED <<parserVars, gnssVars, viewerVars>>
     \/ /\ part = "parser" /\ ParserNext
        /\ UNCHANGED <<sensorVars, gnssVars, viewerVars>>
     \/ /\ part = "display" /\ GnssNext
        /\ UNCHANGED <<sensorVars, parserVars, viewerVars>>
     \/ /\ part = "page" /\ ViewerNext
        /\ UNCHANGED <<sensorVars, parserVars, gnssVars>>

FairSpec == Init /\ [][Next]_edgeVars /\ (part = "display" => GnssFairness)

(* Values that a cfg file cannot write.                                    *)
MCRates    == {-4, 0, 5}
MCHeadings == {-3, 0, 3}
MCGaps     == {-1, 1, 2, 4}

(* Types of the variables of all four.                                     *)
TypeOK == SensorTypeOK /\ ParserTypeOK /\ GnssTypeOK /\ ViewerTypeOK
=============================================================================
