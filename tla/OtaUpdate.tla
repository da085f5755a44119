------------------------------ MODULE OtaUpdate ------------------------------
(***************************************************************************)
(* What an over-the-air update promises, without pages, sectors and flags:  *)
(* a node replaces its image in steps that may be interrupted anywhere, has *)
(* always something to run, and keeps an image to return to until the new   *)
(* one has found the network.  Module OtaBoot implements it.                *)
(*                                                                          *)
(* One weakness is part of it, because the code has it: the image that a    *)
(* node has decided to install may be spoilt before it is installed.  Then  *)
(* the node installs whatever is left, and only the trial brings it back.   *)
(***************************************************************************)
EXTENDS Naturals

CONSTANTS
  Image,     \* firmware images
  Factory,   \* the one a node is shipped with
  NoImage    \* not an image

VARIABLES
  runs,      \* the image that the node can run now; NoImage while it is replaced
  offered,   \* the image that an update under way will install
  fallback,  \* the image that a failed update returns to
  stage,     \* how far the update is
  spoilt,    \* what is being installed was changed after the decision
  failures   \* power failures and resets from outside

vars == <<runs, offered, fallback, stage, spoilt, failures>>

Init ==
  /\ runs = Factory
  /\ offered = NoImage
  /\ fallback = NoImage
  /\ stage = "stable"
  /\ spoilt = FALSE
  /\ failures = 0

\* An image that works becomes the one to return to, once and for all.
Backup ==
  /\ stage = "stable"
  /\ fallback = NoImage
  /\ runs # NoImage
  /\ fallback' = runs
  /\ UNCHANGED <<runs, offered, stage, spoilt, failures>>

\* No update without an image that runs and one to return to; a node that still
\* has to install or to try an image may decide for another one.
Commit ==
  /\ stage # "trial"
  /\ runs # NoImage /\ fallback # NoImage
  /\ offered' \in Image
  /\ stage' = "install"
  /\ spoilt' = FALSE
  /\ UNCHANGED <<runs, fallback, failures>>

\* What was decided for is overwritten.
Spoil ==
  /\ stage = "install"
  /\ runs # NoImage
  /\ offered' \in Image \cup {NoImage}
  /\ spoilt' = TRUE
  /\ UNCHANGED <<runs, fallback, stage, failures>>

\* The image is torn, or complete, at any step of a copy; nothing is certain
\* about it when its source was spoilt.
Copy ==
  /\ \/ stage = "install" /\ runs' \in {NoImage, offered}
     \/ stage = "install" /\ spoilt /\ runs' \in Image
     \/ stage = "trial" /\ runs' \in {NoImage, fallback}
  /\ UNCHANGED <<offered, fallback, stage, spoilt, failures>>

Installed ==
  /\ stage = "install"
  /\ runs' = offered
  /\ offered' = NoImage
  /\ stage' = "ready"
  /\ UNCHANGED <<fallback, spoilt, failures>>

StartTrial ==
  /\ stage = "ready"
  /\ stage' = "trial"
  /\ UNCHANGED <<runs, offered, fallback, spoilt, failures>>

Confirm ==
  /\ stage = "trial"
  /\ runs # NoImage
  /\ stage' = "stable"
  /\ spoilt' = FALSE
  /\ UNCHANGED <<runs, offered, fallback, failures>>

RolledBack ==
  /\ stage = "trial"
  /\ runs' = fallback
  /\ stage' = "stable"
  /\ spoilt' = FALSE
  /\ UNCHANGED <<offered, fallback, failures>>

\* A power failure may make the node forget the update, never the image, unless
\* what was installed had been spoilt.
PowerFails ==
  /\ failures' = failures + 1
  /\ \/ UNCHANGED <<offered, stage, spoilt>>
     \/ /\ runs # NoImage \/ spoilt
        /\ offered' = NoImage
        /\ stage' = "stable"
        /\ spoilt' = (spoilt /\ runs = NoImage)
  /\ UNCHANGED <<runs, fallback>>

Next ==
  \/ Backup \/ Commit \/ Spoil \/ Copy \/ Installed \/ StartTrial \/ Confirm
  \/ RolledBack \/ PowerFails

Spec == Init /\ [][Next]_vars
=============================================================================
