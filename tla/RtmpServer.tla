------------------------------ MODULE RtmpServer ------------------------------
(***************************************************************************)
(* The RTMP server that the camera pushes to (gui/rtmp_server.cpp): a      *)
(* process that the app starts and kills, and the polls of its status,     *)
(* whose answers come later, if at all.                                    *)
(*                                                                         *)
(* The window handles one event at a time; the process, the camera and the *)
(* answers are the environment.  kill() is taken to end the process within *)
(* the three seconds that stop() waits.                                    *)
(***************************************************************************)
EXTENDS Naturals, FiniteSets

CONSTANTS MaxStarts,    \* bound: starts of the server
          MaxPolls      \* bound: polls that wait for an answer at once

ASSUME RtmpAssumption == MaxStarts \in Nat /\ MaxPolls \in Nat

VARIABLES
    process,      \* the number of the process that runs, 0 for none
    stopping,     \* stopping_
    pushing,      \* a camera pushes to the process
    publisher,    \* publisher_: 0, or the process that was said to have one
    statusShown,  \* the last of publisherChanged's messages: "none", "pushes", "stopped"
    polls,        \* of each that waits: the process that was asked, and how it answered, if it has
    toldFailed,     \* processes whose end was told as a failure (history)
    deaths,       \* processes that ended by themselves (history)
    lateReply,    \* the last answer was of a process that had ended by then (history)
    starts

rtmpVars == <<process, stopping, pushing, publisher, statusShown, polls, toldFailed, deaths,
              lateReply, starts>>

RtmpInit ==
    /\ process = 0 /\ stopping = FALSE /\ pushing = FALSE /\ publisher = 0 /\ statusShown = "none"
    /\ polls = {} /\ toldFailed = {} /\ deaths = {} /\ lateReply = FALSE /\ starts = 0

Told(now) == statusShown' = IF now # 0 THEN "pushes" ELSE "stopped"

\* start(): nothing if it runs; a program that does not start leaves stopping_ FALSE.
ServerStart ==
    /\ process = 0 /\ starts < MaxStarts /\ starts' = starts + 1 /\ stopping' = FALSE
    /\ process' \in {0, starts + 1}
    /\ UNCHANGED <<pushing, publisher, statusShown, polls, toldFailed, deaths, lateReply>>

\* poll(): the timer runs while the process does.
Poll ==
    /\ process # 0 /\ Cardinality(polls) < MaxPolls
    /\ polls' = polls \cup {[asked |-> process, from |-> p] : p \in {IF pushing THEN process ELSE 0}}
    /\ UNCHANGED <<process, stopping, pushing, publisher, statusShown, toldFailed, deaths, lateReply, starts>>

\* The answer, or none in time.
PollFinished ==
    \E poll \in polls, answered \in BOOLEAN :
        LET from == IF answered THEN poll.from ELSE 0
        IN /\ polls' = polls \ {poll}
           /\ publisher' = from
           /\ IF (from # 0) # (publisher # 0) THEN Told(from) ELSE UNCHANGED statusShown
           /\ lateReply' = (poll.asked # process)
           /\ UNCHANGED <<process, stopping, pushing, toldFailed, deaths, starts>>

\* What the slot of finished() does first.
ForgetsPublisher ==
    /\ publisher' = 0
    /\ IF publisher # 0 THEN Told(0) ELSE UNCHANGED statusShown

ProcessFinished ==
    /\ process # 0 /\ process' = 0 /\ pushing' = FALSE
    /\ ForgetsPublisher
    /\ toldFailed' = IF stopping' THEN toldFailed ELSE toldFailed \cup {process}
    /\ lateReply' = FALSE
    /\ UNCHANGED <<polls, starts>>

ServerStop == stopping' = TRUE /\ ProcessFinished /\ UNCHANGED deaths
ServerDies == stopping' = stopping /\ ProcessFinished /\ deaths' = deaths \cup {process}

CameraPushes ==
    /\ process # 0 /\ pushing' = ~pushing
    /\ UNCHANGED <<process, stopping, publisher, statusShown, polls, toldFailed, deaths, lateReply, starts>>

RtmpNext ==
    ServerStart \/ Poll \/ PollFinished \/ ServerStop \/ ServerDies \/ CameraPushes

-----------------------------------------------------------------------------
RtmpTypeOK ==
    /\ process \in 0 .. MaxStarts /\ publisher \in 0 .. MaxStarts
    /\ \A poll \in polls : poll.asked \in 1 .. MaxStarts /\ poll.from \in {0, poll.asked}
    /\ Cardinality(polls) <= MaxPolls /\ starts \in 0 .. MaxStarts

(* What the window was last told of the camera's push agrees with           *)
(* publisher_, which is a process that runs: but for an answer that was on  *)
(* its way when its process ended, and that only until the next answer.  A  *)
(* process is told to have failed if it ended by itself, and only then.     *)
PublisherIsTrue ==
    /\ statusShown = "pushes" <=> publisher # 0
    /\ publisher # 0 /\ ~lateReply => publisher = process
    /\ toldFailed = deaths
=============================================================================
