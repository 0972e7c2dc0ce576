------------------------- MODULE MCCameraController -------------------------
(* Two settings: one the camera keeps as a parameter (read back after a    *)
(* change) and the mode, after which the parameters are read again.        *)
EXTENDS CameraController

MCSettings     == {"fov", "mode"}
MCParameters   == {"fov"}
MCReadSettings == <<"fov">>
MCRereads      == {"mode"}
MCStatusTopics == <<"cam_status">>
=============================================================================
