-------------------------------- MODULE MCParts --------------------------------
(* Parts of the app that share no state, each with its own environment: the  *)
(* webcam's frames, its media source, its switch and what is drawn for it,   *)
(* the main window, the RTMP server and its feed, the Bluetooth link and the *)
(* two parsers.                                                              *)
(* One of them is in focus in a behaviour, and the others rest where they    *)
(* began.                                                                    *)
EXTENDS SharedFrames, MediaSource, Window, BluetoothLink, Duml, AccessUnits,
        Picture, Webcam, RtmpServer, NetworkStream

CONSTANTS r1, t1, t2, b1, b2

VARIABLE focus

firstVars  == <<vars, sourceVars, windowVars>>
secondVars == <<bleVars, dumlVars, unitVars>>
thirdVars  == <<pictureVars, webcamVars, rtmpVars, networkVars>>
partsVars  == <<firstVars, secondVars, thirdVars, focus>>

Parts == {"frames", "source", "window", "bluetooth", "duml", "units", "picture", "webcam", "rtmp",
          "network"}

PartsInit ==
    /\ focus \in Parts
    /\ Init /\ SourceInit
    /\ (IF focus = "window" THEN TRUE ELSE rtmpFeed = FALSE /\ alongside = FALSE) /\ WindowInit
    /\ (IF focus = "bluetooth" THEN TRUE ELSE scan = NewScan(NoCamera)) /\ BleInit
    /\ (IF focus = "units" THEN TRUE ELSE video = StartCode \o <<Slice>>) /\ UnitInit
    /\ (IF focus = "duml" THEN TRUE ELSE wire = [i \in 1 .. WireBytes |-> PlainByte]) /\ DumlInit
    /\ (IF focus = "picture" THEN TRUE ELSE preference = "Auto") /\ PictureInit
    /\ (IF focus = "webcam" THEN TRUE ELSE component = FALSE /\ webcams = {}) /\ WebcamInit
    /\ RtmpInit
    /\ (IF focus = "network" THEN TRUE ELSE description = [h264 |-> TRUE, sets |-> "none"]) /\ NetworkInit

OthersRest(others) == UNCHANGED <<others, focus>>

PartsNext ==
    \/ /\ focus = "frames" /\ OthersRest(<<sourceVars, windowVars, secondVars, thirdVars>>)
       /\ Next
    \/ /\ focus = "source" /\ OthersRest(<<vars, windowVars, secondVars, thirdVars>>)
       /\ SourceNext
    \/ /\ focus = "window" /\ OthersRest(<<vars, sourceVars, secondVars, thirdVars>>)
       /\ WindowNext
    \/ /\ focus = "bluetooth" /\ OthersRest(<<firstVars, dumlVars, unitVars, thirdVars>>)
       /\ BleNext
    \/ /\ focus = "duml" /\ OthersRest(<<firstVars, bleVars, unitVars, thirdVars>>)
       /\ DumlNext
    \/ /\ focus = "units" /\ OthersRest(<<firstVars, bleVars, dumlVars, thirdVars>>)
       /\ UnitNext
    \/ /\ focus = "picture" /\ OthersRest(<<firstVars, secondVars, webcamVars, rtmpVars, networkVars>>)
       /\ PictureNext
    \/ /\ focus = "webcam" /\ OthersRest(<<firstVars, secondVars, pictureVars, rtmpVars, networkVars>>)
       /\ WebcamNext
    \/ /\ focus = "rtmp" /\ OthersRest(<<firstVars, secondVars, pictureVars, webcamVars, networkVars>>)
       /\ RtmpNext
    \/ /\ focus = "network" /\ OthersRest(<<firstVars, secondVars, pictureVars, webcamVars, rtmpVars>>)
       /\ NetworkNext

PartsSpec == PartsInit /\ [][PartsNext]_partsVars

PartsTypeOK ==
    CASE focus = "frames" -> TypeOK
      [] focus = "source" -> SourceTypeOK
      [] focus = "window" -> WindowTypeOK
      [] focus = "bluetooth" -> BleTypeOK
      [] focus = "duml" -> DumlTypeOK
      [] focus = "units" -> UnitTypeOK
      [] focus = "picture" -> PictureTypeOK
      [] focus = "webcam" -> WebcamTypeOK
      [] focus = "rtmp" -> RtmpTypeOK
      [] focus = "network" -> NetworkTypeOK

(* Wherever datagrams, notifications and the pieces of a file cut the two  *)
(* streams, what is found in them is the same.                             *)
CutAnywhere == SplitAnywhere /\ UnitsUnsplit

(* The decoder is on the backend it says, its frames lie in the webcam's   *)
(* picture with black around them, and the feed gives it keyframes that it *)
(* can start at.                                                           *)
PictureIsRight == BackendIsTrue /\ PictureFits /\ DecoderCanStart

(* What the app tells of Windows' webcam, of the server's process and of   *)
(* the end of the feed is so.                                              *)
ToldIsTrue == BoxTellsWebcam /\ ListedOnce /\ PublisherIsTrue /\ SilentWhenStopped
=============================================================================
