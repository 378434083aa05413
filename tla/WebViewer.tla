------------------------------ MODULE WebViewer ------------------------------
(***************************************************************************)
(* The page that lists and plays the recordings (app/web/index.html).      *)
(* Opening a file from the list starts the video and asks the server for   *)
(* the GNSS file and the IMU file of the same second; when both answers    *)
(* are there, or have failed, the page shows a map and a preview.  The     *)
(* answers come in any order, and the user goes back and opens another     *)
(* file without waiting for them: nothing is cancelled.                    *)
(*                                                                         *)
(* The map is a Leaflet map in one element of the page, which refuses a    *)
(* second map until the first is removed.  The library comes from a server *)
(* in the Internet and may not be there.  An answer shown is named by the  *)
(* number of the opening that asked for it.                                *)
(***************************************************************************)
EXTENDS Naturals, Sequences

CONSTANTS
  Recordings,  \* video files on the card
  Example,     \* the example shown when there are none
  Nobody,      \* no file
  MaxVisits    \* bound of the model: openings of a file

ASSUME ViewerAssumption ==
  /\ Example \notin Recordings /\ Nobody \notin Recordings \cup {Example}
  /\ MaxVisits \in Nat

VARIABLES
  leaflet,          \* has the page got the Leaflet library?
  currentTab,       \* "device" or "video"
  fileListLoaded,
  fileList,         \* what the list shows: "nothing", "loading", or names
  view,             \* "list" or "detail"
  currentFileData,  \* file opened last
  player,           \* file given to the video player
  opened,           \* every opening: its file and the answers so far
  mapInstance,      \* opening whose map it is, 0 if there is none
  initialised,      \* does the page's element hold a Leaflet map?
  mapContainer,     \* opening whose map or error message it shows, or 0
  imuPreview        \* opening whose rows or error message it shows, or 0

(* History of the run, read by the properties only.                        *)
VARIABLE overlapped  \* was a file opened while answers were still due?

mapVars    == <<mapInstance, initialised, mapContainer>>
detailVars == <<player, mapVars, imuPreview>>
listVars   == <<currentTab, fileListLoaded, fileList>>
viewerVars == <<leaflet, listVars, view, currentFileData, opened, detailVars,
                overlapped>>

AllFiles == Recordings \cup {Example}

(* What loadGPSData and loadIMUPreview may return.  The GNSS files of the  *)
(* recorder hold an array of records; without a file a default place is    *)
(* taken.                                                                  *)
GpsAnswers(file) == IF file = Example THEN {"example"} ELSE {"array", "default"}
ImuAnswers(file) == IF file = Example THEN {"example"} ELSE {"rows", "error"}

(* initMap wants an object with a latitude and a longitude.                *)
HasCoordinates(gps) == gps \in {"example", "default"}

Due(i)  == opened[i].gps = "due" \/ opened[i].imu = "due"
Settled == \A i \in DOMAIN opened : ~Due(i)

ViewerInit ==
  /\ leaflet \in BOOLEAN
  /\ currentTab = "device" /\ fileListLoaded = FALSE /\ fileList = "nothing"
  /\ view = "list" /\ currentFileData = Nobody /\ player = Nobody
  /\ opened = <<>>
  /\ mapInstance = 0 /\ initialised = FALSE /\ mapContainer = 0
  /\ imuPreview = 0
  /\ overlapped = FALSE
-----------------------------------------------------------------------------
(* showTab: the list is asked for the first time the tab is shown, and     *)
(* counts as loaded from then on.                                          *)
ShowTab(tab) ==
  /\ tab # currentTab
  /\ currentTab' = tab
  /\ IF tab = "video" /\ ~fileListLoaded
     THEN fileListLoaded' = TRUE /\ fileList' = "loading"
     ELSE UNCHANGED <<fileListLoaded, fileList>>
  /\ UNCHANGED <<view, currentFileData, opened, detailVars, overlapped>>

(* The rest of loadVideoFiles: names of the right form, or, if there are   *)
(* none or the request fails, the example.                                 *)
FileListArrives ==
  /\ fileList = "loading"
  /\ fileList' \in {"recordings", "example"}
  /\ UNCHANGED <<currentTab, fileListLoaded, view, currentFileData, opened,
                 detailVars, overlapped>>

FileListFails ==
  /\ fileList = "loading"
  /\ fileList' = "example"
  /\ UNCHANGED <<currentTab, fileListLoaded, view, currentFileData, opened,
                 detailVars, overlapped>>

Listed == CASE fileList = "recordings" -> Recordings
            [] fileList = "example" -> {Example}
            [] OTHER -> {}

(* handleFileClick and showVideoDetail up to its await.                    *)
HandleFileClick(file) ==
  /\ currentTab = "video" /\ view = "list" /\ Len(opened) < MaxVisits
  /\ file \in Listed
  /\ currentFileData' = file
  /\ view' = "detail"
  /\ player' = file
  /\ opened' = Append(opened, [file |-> file, gps |-> "due", imu |-> "due"])
  /\ overlapped' = (overlapped \/ ~Settled)
  /\ UNCHANGED <<listVars, mapVars, imuPreview>>
-----------------------------------------------------------------------------
(* initMap for opening i.  The element keeps an error message until a map  *)
(* covers it; a map that is there is removed before the next is made.      *)
InitMap(i, gps) ==
  \/ /\ ~HasCoordinates(gps)
     /\ mapContainer' = i
     /\ UNCHANGED <<mapInstance, initialised>>
  \/ /\ HasCoordinates(gps)
     /\ mapInstance' = i /\ initialised' = TRUE /\ mapContainer' = i

(* Leaflet refuses the page's element if it holds a map nobody removed.    *)
Refused == initialised /\ mapInstance = 0

(* initMap throws: Leaflet refuses, or L is not defined at all.            *)
Throws(gps) == HasCoordinates(gps) /\ (~leaflet \/ Refused)

PreviewUnlessError(i) == IF opened'[i].imu = "error" THEN imuPreview ELSE i
Preview(i) == i

(* showVideoDetail after its await: the map, then the preview.  If initMap *)
(* throws the player is emptied and the user told that the video failed.   *)
ShowAnswers(i, gps) ==
  \/ /\ ~Throws(gps)
     /\ InitMap(i, gps)
     /\ imuPreview' = Preview(i)
     /\ UNCHANGED player
  \/ /\ Throws(gps)
     /\ player' = Nobody
     /\ UNCHANGED <<mapVars, imuPreview>>

(* loadGPSData or loadIMUPreview of an opening returns.  The second of the *)
(* two resolves Promise.all.                                               *)
AnswerArrives(i) ==
  /\ \/ /\ opened[i].gps = "due"
        /\ \E a \in GpsAnswers(opened[i].file) :
             opened' = [opened EXCEPT ![i].gps = a]
     \/ /\ opened[i].imu = "due"
        /\ \E a \in ImuAnswers(opened[i].file) :
             opened' = [opened EXCEPT ![i].imu = a]
  /\ IF opened'[i].gps # "due" /\ opened'[i].imu # "due"
     THEN ShowAnswers(i, opened'[i].gps)
     ELSE UNCHANGED detailVars
  /\ UNCHANGED <<listVars, view, currentFileData, overlapped>>

(* backToList: the player is emptied and the map removed.                  *)
ForgetMap ==
  /\ mapInstance' = 0
  /\ UNCHANGED <<initialised, mapContainer>>
RemoveMap ==
  IF mapInstance = 0 THEN UNCHANGED mapVars
  ELSE /\ mapInstance' = 0 /\ initialised' = FALSE
       /\ mapContainer' = IF mapContainer = mapInstance THEN 0 ELSE mapContainer

BackToList ==
  /\ currentTab = "video" /\ view = "detail"
  /\ view' = "list"
  /\ player' = Nobody
  /\ RemoveMap
  /\ UNCHANGED <<listVars, currentFileData, opened, imuPreview, overlapped>>

ViewerStep ==
  \/ \E tab \in {"device", "video"} : ShowTab(tab)
  \/ FileListArrives \/ FileListFails
  \/ \E file \in AllFiles : HandleFileClick(file)
  \/ \E i \in DOMAIN opened : AnswerArrives(i)
  \/ BackToList

ViewerNext == ViewerStep /\ UNCHANGED leaflet

ViewerSpec == ViewerInit /\ [][ViewerNext]_viewerVars
-----------------------------------------------------------------------------
(* Types of all variables.                                                 *)
ViewerTypeOK ==
  /\ leaflet \in BOOLEAN
  /\ currentTab \in {"device", "video"} /\ fileListLoaded \in BOOLEAN
  /\ fileList \in {"nothing", "loading", "recordings", "example"}
  /\ view \in {"list", "detail"}
  /\ {currentFileData, player} \subseteq AllFiles \cup {Nobody}
  /\ opened \in Seq([file : AllFiles,
                     gps : {"due", "example", "array", "default"},
                     imu : {"due", "example", "rows", "error"}])
  /\ {mapInstance, mapContainer, imuPreview} \subseteq 0..Len(opened)
  /\ initialised \in BOOLEAN /\ overlapped \in BOOLEAN

(* The newest opening was given a place to show, and no library to do so.  *)
NoMapToShow == ~leaflet /\ HasCoordinates(opened[Len(opened)].gps)

(* When all answers are there, map and preview are those of the file that  *)
(* plays, and it does play; but where a map is due and Leaflet is missing  *)
(* the video is taken away too.  This needs a user who never opens a file  *)
(* with answers due for another; a file may be opened, left and reopened,  *)
(* and its answers may come when it has been left.                         *)
DetailAgrees ==
  view = "detail" /\ Settled /\ ~overlapped =>
    IF NoMapToShow
    THEN player = Nobody
    ELSE /\ player = currentFileData
         /\ \A i \in {mapContainer, imuPreview} :
              i # 0 /\ opened[i].file = currentFileData

(* Leaflet never refuses a map: mapInstance knows the map that the page    *)
(* holds, whatever answers come when.                                      *)
MapKnown == initialised = (mapInstance # 0)
=============================================================================
