-------------------------------- MODULE MCCamera -------------------------------
(* How the app steers the camera: CameraLink over Bluetooth (the mode, the   *)
(* network, the push) and CameraController over the video session (the       *)
(* settings).  They share no state: of the settings that the window sends    *)
(* over Bluetooth, CameraLink has a controller of its own, which it sees as  *)
(* a queue.  So one of them is in focus in a behaviour and the other rests.  *)
EXTENDS MCCameraController, CameraLink

VARIABLE focus

cameraVars == <<vars, controllerVars, focus>>

CameraInit ==
    /\ focus \in {"link", "controller"}
    /\ (IF focus = "link" THEN TRUE ELSE chosen = None) /\ Init
    /\ ControllerInit

CameraNext ==
    \/ /\ focus = "link" /\ UNCHANGED <<controllerVars, focus>>
       /\ Next
    \/ /\ focus = "controller" /\ UNCHANGED <<vars, focus>>
       /\ ControllerNext

CameraSpec == CameraInit /\ [][CameraNext]_cameraVars

\* One network is as good as another.
NetworkSymmetry == Permutations(Networks)
=============================================================================
