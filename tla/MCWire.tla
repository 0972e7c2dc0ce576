--------------------------------- MODULE MCWire ---------------------------------
(* What crosses between the camera and the app: Datalink keeps the window of *)
(* the video open, VideoReassembler puts its datagrams in order,             *)
(* CameraSettings reads and writes the settings, and Neighbors finds the     *)
(* address that all of them talk to.  What Datalink assumes of the           *)
(* reassembler (the last datagram delivered may be any) and the reassembler  *)
(* of Datalink (any datagram may come) is all they share, so one of them is  *)
(* in focus in a behaviour and the others rest.                              *)
EXTENDS VideoReassembler, Datalink, CameraSettings, Neighbors

VARIABLE focus

wireVars == <<vars, datalinkVars, settingsVars, neighborVars, focus>>

WireInit ==
    /\ focus \in {"reassembler", "datalink", "settings", "neighbors"}
    /\ Init
    /\ (IF focus = "datalink" THEN TRUE ELSE camera = [sent |-> 0, acked |-> 0]) /\ DatalinkInit
    /\ (IF focus = "settings" THEN TRUE ELSE subject = {"storage"}) /\ SettingsInit
    /\ (IF focus = "neighbors" THEN TRUE
        ELSE adapters = {} /\ mac = <<"digit">> /\ table = [p \in Places |-> "none"] /\ opened = TRUE)
    /\ NeighborInit

InReassembler == focus = "reassembler" /\ UNCHANGED <<datalinkVars, settingsVars, neighborVars, focus>>
InDatalink    == focus = "datalink" /\ UNCHANGED <<vars, settingsVars, neighborVars, focus>>
InSettings    == focus = "settings" /\ UNCHANGED <<vars, datalinkVars, neighborVars, focus>>
InNeighbors   == focus = "neighbors" /\ UNCHANGED <<vars, datalinkVars, settingsVars, focus>>

WireNext ==
    \/ InReassembler /\ Next
    \/ InDatalink /\ DatalinkNext
    \/ InSettings /\ SettingsNext
    \/ InNeighbors /\ NeighborNext

\* The session's loop runs and time passes; not every status frame and not every
\* acknowledgement is lost.
WireSpec ==
    /\ WireInit /\ [][WireNext]_wireVars
    /\ WF_wireVars((Pass \/ \E n \in Datagrams : Push(n)) /\ InReassembler)
    /\ WF_wireVars(GapExpires /\ InReassembler)
    /\ WF_wireVars(VideoStalls /\ InDatalink)
    /\ WF_wireVars(phase = "live" /\ ReceiveStatus /\ InDatalink)
    /\ WF_wireVars(SendAck(FALSE) /\ InDatalink)

WireTypeOK == TypeOK /\ DatalinkTypeOK /\ SettingsTypeOK /\ NeighborTypeOK
=============================================================================
