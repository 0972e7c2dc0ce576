-------------------------------- MODULE Webcam --------------------------------
(***************************************************************************)
(* The webcam's switch (MainWindow::enableVirtualCamera), what it installs *)
(* and registers with Windows (vcam/windows/virtual_camera.cpp), and the   *)
(* installer, which does the same through the command line tool.           *)
(*                                                                         *)
(* Windows is the environment: any of its calls may fail, and an install   *)
(* that nobody waits for any more may still end.  The frames themselves    *)
(* are SharedFrames.                                                       *)
(***************************************************************************)
EXTENDS Naturals

CONSTANTS MaxUses     \* bound: switches, starts of the app and calls of the installer

ASSUME WebcamAssumption == MaxUses \in Nat

VARIABLES
    step,         \* the app: off; its switch: idle, ask, install or list; register and removed: its worker's
    checked, sending,     \* vcam_action_ and VirtualCamera::running()
    wish,         \* the setting vcam/enabled
    outcome,      \* how the last switching on ended: none, declined, warned, on (history)
    component,    \* source_registered()
    late,         \* an install goes on, though the app has given up
    webcams,      \* the webcams that Windows lists: for all users, for this user
    installer,    \* the command line tool: idle, register or removeUser
    troubles,     \* what may leave two webcams: a call that failed, two programs at once (history)
    uses

webcamVars == <<step, checked, sending, wish, outcome, component, late, webcams, installer, troubles,
                uses>>

Use == uses < MaxUses /\ uses' = uses + 1

WebcamInit ==
    /\ step = "off" /\ checked = FALSE /\ sending = FALSE /\ wish = TRUE /\ outcome = "none"
    /\ component \in BOOLEAN /\ late = FALSE /\ webcams \in SUBSET {"all"} /\ installer = "idle"
    /\ troubles = {} /\ uses = 0

\* source_registered() decides whether the user is asked; a modal question keeps the box from
\* another click.
SwitchOn ==
    /\ checked' = TRUE /\ outcome' = "none"
    /\ step' = IF component THEN "list" ELSE "ask"

\* The window opens, and switches on what was on: the setting is TRUE where there is none.
AppStarts ==
    /\ step = "off" /\ Use
    /\ IF wish THEN SwitchOn ELSE step' = "idle" /\ UNCHANGED <<checked, outcome>>
    /\ UNCHANGED <<sending, wish, component, late, webcams, installer, troubles>>

ToggleOn ==
    /\ step = "idle" /\ ~checked /\ Use /\ SwitchOn
    /\ UNCHANGED <<sending, wish, component, late, webcams, installer, troubles>>

ToggleOff ==
    /\ step = "idle" /\ checked /\ Use
    /\ checked' = FALSE /\ sending' = FALSE /\ wish' = FALSE
    /\ UNCHANGED <<step, outcome, component, late, webcams, installer, troubles>>

\* Mutant of GivesUp: the box is left as the user set it.
GivesUpSilently(how) == step' = "idle" /\ outcome' = how /\ UNCHANGED checked

\* The box goes back, without another call of the handler.
GivesUp(how) == step' = "idle" /\ outcome' = how /\ checked' = FALSE

Answer(yes) ==
    /\ step = "ask"
    /\ IF yes THEN step' = "install" /\ UNCHANGED <<checked, outcome>> ELSE GivesUp("declined")
    /\ UNCHANGED <<sending, wish, component, late, webcams, installer, troubles, uses>>

\* install_source(): declined, failed, or longer than it is waited for.
InstallSource ==
    /\ step = "install"
    /\ \/ /\ component' = TRUE /\ step' = "list" /\ UNCHANGED <<checked, outcome, late>>
       \/ GivesUp("warned") /\ late' \in BOOLEAN /\ UNCHANGED component
    /\ UNCHANGED <<sending, wish, webcams, installer, troubles, uses>>

InstallEnds ==
    /\ late /\ late' = FALSE /\ component' \in {component, TRUE}
    /\ UNCHANGED <<step, checked, sending, wish, outcome, webcams, installer, troubles, uses>>

SwitchedOn == step' = "idle" /\ sending' = TRUE /\ wish' = TRUE /\ outcome' = "on" /\ UNCHANGED checked

\* camera_registered(): a list that cannot be had is empty.
CameraRegistered ==
    /\ step = "list"
    /\ \E listed \in BOOLEAN :
          /\ IF listed /\ webcams # {} THEN SwitchedOn
             ELSE step' = "register" /\ UNCHANGED <<checked, sending, wish, outcome>>
          /\ troubles' = troubles \cup (IF ~listed /\ webcams # {} THEN {"unlisted"} ELSE {})
    /\ UNCHANGED <<component, late, webcams, installer, uses>>

\* register_camera(false): the webcam of this user, for good.
RegisterCamera ==
    /\ step = "register"
    /\ \/ webcams' = webcams \cup {"user"} /\ SwitchedOn
       \/ GivesUp("warned") /\ UNCHANGED <<sending, wish, webcams>>
    /\ troubles' = troubles \cup (IF installer = "register" THEN {"overlap"} ELSE {})
    /\ UNCHANGED <<component, late, installer, uses>>

\* The app ends or crashes; its webcam stays listed.
AppEnds ==
    /\ step # "off" /\ Use
    /\ step' = "off" /\ checked' = FALSE /\ sending' = FALSE /\ outcome' = "none"
    /\ late' = (late \/ step = "install")
    /\ UNCHANGED <<wish, component, webcams, installer, troubles>>

-----------------------------------------------------------------------------
(* dji-vcam-cli --vcam-register and --vcam-unregister (cli/main.cpp). *)

\* unregister_camera(): fails also where there is nothing to remove.
Unregister(who) ==
    /\ webcams' \in {webcams, webcams \ {who}}
    /\ troubles' = troubles \cup (IF who \in webcams' THEN {"unremoved"} ELSE {})

CliRegister ==
    /\ installer = "idle" /\ Use
    /\ installer' = "register" /\ Unregister("user")
    /\ UNCHANGED <<step, checked, sending, wish, outcome, component, late>>

CliRegisters ==
    /\ installer = "register" /\ installer' = "idle"
    /\ webcams' \in {webcams, webcams \cup {"all"}}
    /\ troubles' = troubles \cup (IF step = "register" THEN {"overlap"} ELSE {})
    /\ UNCHANGED <<step, checked, sending, wish, outcome, component, late, uses>>

CliUnregister ==
    /\ installer = "idle" /\ Use
    /\ installer' = "removeUser" /\ Unregister("all")
    /\ UNCHANGED <<step, checked, sending, wish, outcome, component, late>>

CliUnregisters ==
    /\ installer = "removeUser" /\ installer' = "idle" /\ Unregister("user")
    /\ UNCHANGED <<step, checked, sending, wish, outcome, component, late, uses>>

WebcamNext ==
    \/ AppStarts \/ ToggleOn \/ ToggleOff \/ \E yes \in BOOLEAN : Answer(yes)
    \/ InstallSource \/ InstallEnds \/ CameraRegistered \/ RegisterCamera \/ AppEnds
    \/ CliRegister \/ CliRegisters \/ CliUnregister \/ CliUnregisters

-----------------------------------------------------------------------------
WebcamTypeOK ==
    /\ step \in {"off", "idle", "ask", "install", "list", "register"}
    /\ {checked, sending, wish, component, late} \subseteq BOOLEAN
    /\ webcams \subseteq {"all", "user"} /\ installer \in {"idle", "register", "removeUser"}

(* Between two clicks the box tells what the webcam does, whatever failed on *)
(* the way; what runs comes back at the next start; and one that does not    *)
(* run although it was asked for was declined or explained.                  *)
BoxTellsWebcam ==
    /\ step = "idle" => (checked <=> sending)
    /\ sending => wish /\ outcome = "on"
    /\ step = "idle" /\ ~sending /\ wish => outcome \in {"declined", "warned"}

(* Windows lists the webcam twice only after a call that failed or two       *)
(* programs that registered it at the same time: not after any order of      *)
(* portable runs, installs and removals.                                     *)
ListedOnce == webcams = {"all", "user"} => troubles # {}
=============================================================================
