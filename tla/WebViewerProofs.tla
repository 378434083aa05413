--------------------------- MODULE WebViewerProofs ---------------------------
(***************************************************************************)
(* Theorems about WebViewer, for any recordings and any number of          *)
(* openings: Leaflet never refuses a map, and the details shown are those  *)
(* of the file that plays, if Leaflet is there or no map is due.           *)
(***************************************************************************)
EXTENDS WebViewer, TLAPS

Gps == {"due", "example", "array", "default"}
Imu == {"due", "example", "rows", "error"}
Openings == [file : AllFiles, gps : Gps, imu : Imu]

(* Only the newest opening is due, unless files were opened too early; the *)
(* newest is of the file chosen last; and once it is answered, the details *)
(* on show are its own.                                                    *)
NewestChosen == opened # <<>> => opened[Len(opened)].file = currentFileData
OnlyNewestDue ==
  ~overlapped => \A i \in DOMAIN opened : Due(i) => i = Len(opened)
DetailPlays ==
  /\ view = "detail" => opened # <<>>
  /\ view = "detail" /\ ~overlapped =>
       player = IF ~Due(Len(opened)) /\ NoMapToShow THEN Nobody
                ELSE currentFileData
NewestShown ==
  view = "detail" /\ ~overlapped /\ ~Due(Len(opened)) /\ ~NoMapToShow =>
    mapContainer = Len(opened) /\ imuPreview = Len(opened)

DetailInv == NewestChosen /\ OnlyNewestDue /\ DetailPlays /\ NewestShown

-----------------------------------------------------------------------------
(* An answer changes what is known of one opening, and nothing of its      *)
(* file.                                                                   *)
LEMMA AnswerKeepsFiles ==
  ASSUME NEW i \in DOMAIN opened, ViewerTypeOK, AnswerArrives(i)
  PROVE  /\ opened' \in Seq(Openings)
         /\ Len(opened') = Len(opened)
         /\ \A j \in DOMAIN opened : opened'[j].file = opened[j].file
         /\ \A j \in DOMAIN opened : j # i => opened'[j] = opened[j]
         /\ Due(i)
<1>1. /\ opened \in Seq(Openings)
      /\ Example \in AllFiles
  BY DEF ViewerTypeOK, Openings, Gps, Imu, AllFiles
<1>2. CASE /\ opened[i].gps = "due"
           /\ \E a \in GpsAnswers(opened[i].file) :
                opened' = [opened EXCEPT ![i].gps = a]
  <2>1. PICK a \in Gps : opened' = [opened EXCEPT ![i].gps = a]
    BY <1>2 DEF GpsAnswers, Gps
  <2>2. opened[i] \in Openings
    BY <1>1
  <2>3. [opened[i] EXCEPT !.gps = a] \in Openings
    BY <2>1, <2>2 DEF Openings
  <2> QED
    BY <1>1, <1>2, <2>1, <2>2, <2>3 DEF Due, Openings
<1>3. CASE /\ opened[i].imu = "due"
           /\ \E a \in ImuAnswers(opened[i].file) :
                opened' = [opened EXCEPT ![i].imu = a]
  <2>1. PICK a \in Imu : opened' = [opened EXCEPT ![i].imu = a]
    BY <1>3 DEF ImuAnswers, Imu
  <2>2. opened[i] \in Openings
    BY <1>1
  <2>3. [opened[i] EXCEPT !.imu = a] \in Openings
    BY <2>1, <2>2 DEF Openings
  <2> QED
    BY <1>1, <1>3, <2>1, <2>2, <2>3 DEF Due, Openings
<1> QED
  BY <1>2, <1>3 DEF AnswerArrives

(* The details on show change by the answers of one opening, which become  *)
(* those shown, or end the play where its map is due without Leaflet.      *)
LEMMA ShowingIsWhole ==
  ASSUME NEW i \in DOMAIN opened, NEW gps, ViewerTypeOK, MapKnown,
         ShowAnswers(i, gps)
  PROVE  /\ IF ~leaflet /\ HasCoordinates(gps)
            THEN player' = Nobody /\ UNCHANGED <<mapVars, imuPreview>>
            ELSE mapContainer' = i /\ imuPreview' = i /\ UNCHANGED player
         /\ MapKnown'
         /\ mapInstance' \in {mapInstance, i}
         /\ initialised' \in {initialised, TRUE}
<1>1. Throws(gps) <=> ~leaflet /\ HasCoordinates(gps)
  BY DEF Throws, Refused, MapKnown
<1>2. CASE Throws(gps)
  BY <1>1, <1>2 DEF ShowAnswers, MapKnown, mapVars
<1>3. CASE ~Throws(gps)
  <2>1. mapContainer' = i /\ imuPreview' = i /\ UNCHANGED player
    BY <1>3 DEF ShowAnswers, InitMap, Preview
  <2>2. CASE ~HasCoordinates(gps) /\ UNCHANGED <<mapInstance, initialised>>
    BY <1>1, <1>3, <2>1, <2>2 DEF MapKnown
  <2>3. CASE mapInstance' = i /\ initialised' = TRUE
    <3>1. i # 0
      BY DEF ViewerTypeOK
    <3> QED
      BY <1>1, <1>3, <2>1, <2>3, <3>1 DEF MapKnown
  <2> QED
    BY <1>3, <2>2, <2>3 DEF ShowAnswers, InitMap
<1> QED
  BY <1>2, <1>3

-----------------------------------------------------------------------------
(* The map of the page and Leaflet's are known to agree at every step, so  *)
(* that an answer is never refused.                                        *)
LEMMA MapStep ==
  ViewerTypeOK /\ MapKnown /\ [ViewerNext]_viewerVars => ViewerTypeOK' /\ MapKnown'
<1> SUFFICES ASSUME ViewerTypeOK, MapKnown, UNCHANGED leaflet,
                    ViewerStep \/ UNCHANGED viewerVars
             PROVE  ViewerTypeOK' /\ MapKnown'
  BY DEF ViewerNext, viewerVars
<1> USE DEF Openings, Gps, Imu
<1>1. ASSUME NEW tab \in {"device", "video"}, ShowTab(tab)
      PROVE  ViewerTypeOK' /\ MapKnown'
  BY <1>1 DEF ShowTab, ViewerTypeOK, MapKnown, detailVars, mapVars
<1>2. CASE FileListArrives
  BY <1>2 DEF FileListArrives, ViewerTypeOK, MapKnown, detailVars, mapVars
<1>3. CASE FileListFails
  BY <1>3 DEF FileListFails, ViewerTypeOK, MapKnown, detailVars, mapVars
<1>4. ASSUME NEW file \in AllFiles, HandleFileClick(file)
      PROVE  ViewerTypeOK' /\ MapKnown'
  <2>1. /\ opened' \in Seq(Openings)
        /\ Len(opened') = Len(opened) + 1
    BY <1>4 DEF HandleFileClick, ViewerTypeOK
  <2> QED
    BY <1>4, <2>1 DEF HandleFileClick, ViewerTypeOK, MapKnown, listVars, mapVars
<1>5. ASSUME NEW i \in DOMAIN opened, AnswerArrives(i)
      PROVE  ViewerTypeOK' /\ MapKnown'
  <2>1. opened' \in Seq(Openings) /\ Len(opened') = Len(opened)
    BY <1>5, AnswerKeepsFiles
  <2>2. UNCHANGED <<listVars, view, currentFileData, overlapped>>
    BY <1>5 DEF AnswerArrives
  <2>3. CASE UNCHANGED detailVars
    BY <2>1, <2>2, <2>3 DEF ViewerTypeOK, MapKnown, detailVars, mapVars, listVars
  <2>4. CASE ShowAnswers(i, opened'[i].gps)
    <3>1. PICK gps : gps = opened'[i].gps
      OBVIOUS
    <3>2. ShowAnswers(i, gps)
      BY <2>4, <3>1
    <3>3. /\ mapContainer' \in {mapContainer, i}
          /\ imuPreview' \in {imuPreview, i}
          /\ player' \in {player, Nobody}
          /\ MapKnown'
          /\ mapInstance' \in {mapInstance, i}
          /\ initialised' \in {initialised, TRUE}
      BY <3>2, ShowingIsWhole DEF mapVars
    <3>4. i \in 0..Len(opened')
      BY <2>1 DEF ViewerTypeOK
    <3> QED
      BY <2>1, <2>2, <3>3, <3>4 DEF ViewerTypeOK, listVars
  <2> QED
    BY <1>5, <2>3, <2>4 DEF AnswerArrives
<1>6. CASE BackToList
  <2>1. /\ view' = "list" /\ player' = Nobody
        /\ UNCHANGED <<listVars, currentFileData, opened, imuPreview, overlapped>>
    BY <1>6 DEF BackToList
  <2>2. CASE UNCHANGED mapVars
    BY <2>1, <2>2 DEF ViewerTypeOK, MapKnown, listVars, mapVars
  <2>3. CASE /\ mapInstance' = 0 /\ initialised' = FALSE
             /\ mapContainer' \in {0, mapContainer}
    <3>1. 0 \in 0..Len(opened)
      BY DEF ViewerTypeOK
    <3> QED
      BY <2>1, <2>3, <3>1 DEF ViewerTypeOK, MapKnown, listVars
  <2> QED
    BY <1>6, <2>2, <2>3 DEF BackToList, RemoveMap
<1>7. CASE UNCHANGED viewerVars
  BY <1>7 DEF ViewerTypeOK, MapKnown, viewerVars, listVars, detailVars, mapVars
<1> QED
  BY <1>1, <1>2, <1>3, <1>4, <1>5, <1>6, <1>7 DEF ViewerStep

LEMMA ViewerStart == ViewerInit => ViewerTypeOK /\ MapKnown
<1>1. ASSUME ViewerInit PROVE ViewerTypeOK
  <2>1. opened \in Seq(Openings) /\ 0 \in 0..Len(opened)
    BY <1>1 DEF ViewerInit
  <2>2. initialised \in BOOLEAN /\ overlapped \in BOOLEAN /\ fileListLoaded \in BOOLEAN
    BY <1>1 DEF ViewerInit
  <2> QED
    BY <1>1, <2>1, <2>2 DEF ViewerInit, ViewerTypeOK, Openings, Gps, Imu
<1>2. ViewerInit => MapKnown
  BY DEF ViewerInit, MapKnown
<1> QED
  BY <1>1, <1>2

(* Leaflet never refuses a map, for any recordings and any number of       *)
(* openings, whatever answers come when.                                   *)
THEOREM MapStaysKnown == ViewerSpec => [](ViewerTypeOK /\ MapKnown)
BY ViewerStart, MapStep, PTL DEF ViewerSpec
-----------------------------------------------------------------------------
(* Every step keeps what the details on show are about.                    *)
LEMMA DetailStep ==
  ViewerTypeOK /\ MapKnown /\ DetailInv /\ [ViewerNext]_viewerVars => DetailInv'
<1> SUFFICES ASSUME ViewerTypeOK, MapKnown, DetailInv, UNCHANGED leaflet,
                    ViewerStep \/ UNCHANGED viewerVars
             PROVE  DetailInv'
  BY DEF ViewerNext, viewerVars
<1> USE DEF DetailInv, NewestChosen, OnlyNewestDue, DetailPlays, NewestShown
<1>0. opened \in Seq(Openings)
  BY DEF ViewerTypeOK, Openings, Gps, Imu
<1>1. ASSUME NEW tab \in {"device", "video"}, ShowTab(tab)
      PROVE  DetailInv'
  BY <1>1 DEF ShowTab, detailVars, mapVars, Due, NoMapToShow
<1>2. CASE FileListArrives
  BY <1>2 DEF FileListArrives, detailVars, mapVars, Due, NoMapToShow
<1>3. CASE FileListFails
  BY <1>3 DEF FileListFails, detailVars, mapVars, Due, NoMapToShow
<1>4. ASSUME NEW file \in AllFiles, HandleFileClick(file)
      PROVE  DetailInv'
  <2> DEFINE new == [file |-> file, gps |-> "due", imu |-> "due"]
  <2>1. /\ Len(opened') = Len(opened) + 1
        /\ opened'[Len(opened')] = new
        /\ \A j \in DOMAIN opened : opened'[j] = opened[j]
        /\ DOMAIN opened' = 1..Len(opened')
        /\ DOMAIN opened = 1..Len(opened)
        /\ Len(opened) \in Nat
        /\ opened' # <<>>
    BY <1>0, <1>4 DEF HandleFileClick
  <2>2. /\ currentFileData' = file /\ player' = file
        /\ overlapped' = (overlapped \/ ~Settled)
    BY <1>4 DEF HandleFileClick
  <2>3. Due(Len(opened))'
    BY <2>1 DEF Due
  <2>4. NewestChosen' /\ DetailPlays'
    BY <2>1, <2>2, <2>3
  <2>5. ASSUME ~overlapped', NEW j \in DOMAIN opened', Due(j)'
        PROVE  j = Len(opened')
    <3>1. \A k \in DOMAIN opened : ~Due(k)
      BY <2>2, <2>5 DEF Settled
    <3>2. CASE j \in DOMAIN opened
      BY <2>1, <2>5, <3>1, <3>2 DEF Due
    <3> QED
      BY <2>1, <3>2
  <2> QED
    BY <2>3, <2>4, <2>5
<1>5. ASSUME NEW i \in DOMAIN opened, AnswerArrives(i)
      PROVE  DetailInv'
  <2>1. /\ Len(opened') = Len(opened)
        /\ \A j \in DOMAIN opened : opened'[j].file = opened[j].file
        /\ \A j \in DOMAIN opened : j # i => opened'[j] = opened[j]
        /\ Due(i)
        /\ opened' \in Seq(Openings)
    BY <1>5, AnswerKeepsFiles
  <2>2. UNCHANGED <<view, currentFileData, overlapped>>
    BY <1>5 DEF AnswerArrives
  <2>3. /\ DOMAIN opened = 1..Len(opened) /\ DOMAIN opened' = 1..Len(opened)
        /\ Len(opened) \in Nat /\ i \in 1..Len(opened)
        /\ opened # <<>> /\ opened' # <<>> /\ Len(opened) \in DOMAIN opened
    BY <1>0, <1>5, <2>1
  <2>4. NewestChosen'
    BY <2>1, <2>2, <2>3
  <2>5. ~overlapped => i = Len(opened)
    BY <2>1, <2>3
  <2>6. OnlyNewestDue'
    BY <2>1, <2>2, <2>3, <2>5 DEF Due
  <2>7. CASE UNCHANGED detailVars /\ Due(i)'
    <3>1. ~overlapped' => Due(Len(opened)) /\ Due(Len(opened))'
      BY <2>1, <2>2, <2>5, <2>7
    <3>2. DetailPlays' /\ NewestShown'
      BY <2>2, <2>3, <2>7, <3>1 DEF detailVars, mapVars
    <3> QED
      BY <2>4, <2>6, <3>2
  <2>8. CASE ShowAnswers(i, opened'[i].gps) /\ ~Due(i)'
    <3>1. PICK gps : gps = opened'[i].gps
      OBVIOUS
    <3>2. IF ~leaflet /\ HasCoordinates(gps)
          THEN player' = Nobody
          ELSE mapContainer' = i /\ imuPreview' = i /\ UNCHANGED player
      BY <2>8, <3>1, ShowingIsWhole
    <3>3. ~overlapped' => (NoMapToShow' <=> ~leaflet /\ HasCoordinates(gps))
      BY <2>1, <2>2, <2>5, <3>1 DEF NoMapToShow
    <3>4. ~overlapped => Due(Len(opened))
      BY <2>1, <2>5
    <3>5. ~overlapped' /\ view' = "detail" => ~Due(Len(opened))'
      BY <2>1, <2>2, <2>5, <2>8
    <3>6. DetailPlays' /\ NewestShown'
      BY <2>1, <2>2, <2>3, <2>5, <3>2, <3>3, <3>4, <3>5
    <3> QED
      BY <2>4, <2>6, <3>6
  <2> QED
    BY <1>5, <2>7, <2>8 DEF AnswerArrives, Due
<1>6. CASE BackToList
  BY <1>6 DEF BackToList, Due
<1>7. CASE UNCHANGED viewerVars
  BY <1>7 DEF viewerVars, detailVars, mapVars, Due, NoMapToShow
<1> QED
  BY <1>1, <1>2, <1>3, <1>4, <1>5, <1>6, <1>7 DEF ViewerStep

(* The details on show are those of the file that plays, for any           *)
(* recordings, any number of openings and any order of the answers, as     *)
(* long as no file is opened while answers for another are due; without    *)
(* Leaflet an opening that has a place to show is no longer played.        *)
THEOREM DetailsAgree == ViewerSpec => []DetailAgrees
<1>1. ViewerInit => DetailInv
  BY DEF ViewerInit, DetailInv, NewestChosen, OnlyNewestDue, DetailPlays,
         NewestShown
<1>2. ViewerTypeOK /\ DetailInv => DetailAgrees
  <2> SUFFICES ASSUME ViewerTypeOK, DetailInv, view = "detail", Settled,
                      ~overlapped
               PROVE  IF NoMapToShow
                      THEN player = Nobody
                      ELSE /\ player = currentFileData
                           /\ \A i \in {mapContainer, imuPreview} :
                                i # 0 /\ opened[i].file = currentFileData
    BY DEF DetailAgrees
  <2>1. opened # <<>> /\ opened[Len(opened)].file = currentFileData
    BY DEF DetailInv, DetailPlays, NewestChosen
  <2>2. Len(opened) \in DOMAIN opened /\ Len(opened) # 0
    BY <2>1 DEF ViewerTypeOK
  <2>3. player = IF NoMapToShow THEN Nobody ELSE currentFileData
    BY <2>2 DEF Settled, DetailInv, DetailPlays
  <2>4. ~NoMapToShow => mapContainer = Len(opened) /\ imuPreview = Len(opened)
    BY <2>2 DEF Settled, DetailInv, NewestShown
  <2> QED
    BY <2>1, <2>2, <2>3, <2>4
<1> QED
  BY <1>1, <1>2, DetailStep, MapStaysKnown, PTL DEF ViewerSpec
=============================================================================
