-------------------------- MODULE DocumentFollower --------------------------
(***************************************************************************)
(* What the architecture service promises of the documents it is given,    *)
(* without signals, blocks, links or the order of its calls.  A document   *)
(* that is stored falls due.  The service reads the stored one, which      *)
(* takes down the one it shows, and works on it; then it either shows the  *)
(* document it has read, whole, or gives up.  Nothing but an error excuses *)
(* it from the document that is stored.                                    *)
(***************************************************************************)

CONSTANTS Docs, NoDoc

VARIABLES
  source,   \* the stored document
  due,      \* the service is still to read what is stored
  work,     \* the document it works on
  shown,    \* the document that is shown, whole and announced
  excused   \* an error ended the last attempt

vars == <<source, due, work, shown, excused>>

Init ==
  /\ source = NoDoc
  /\ due = FALSE
  /\ work = NoDoc
  /\ shown = NoDoc
  /\ excused = FALSE

Store(d) ==
  /\ source' = d
  /\ due' = TRUE
  /\ UNCHANGED <<work, shown, excused>>

\* Something that was due is lost on an error; it may have been the last.
Lose ==
  /\ due
  /\ due' \in BOOLEAN
  /\ excused' = TRUE
  /\ UNCHANGED <<source, work, shown>>

\* More than one announcement may have been due.
Read ==
  /\ due
  /\ work = NoDoc
  /\ due' \in BOOLEAN
  /\ work' = source
  /\ shown' = NoDoc
  /\ excused' = FALSE
  /\ UNCHANGED source

Install ==
  /\ work # NoDoc
  /\ work' = NoDoc
  /\ shown' = work
  /\ UNCHANGED <<source, due, excused>>

GiveUp ==
  /\ work # NoDoc
  /\ work' = NoDoc
  /\ excused' = TRUE
  /\ UNCHANGED <<source, due, shown>>

Next == (\E d \in Docs : Store(d)) \/ Lose \/ Read \/ Install \/ GiveUp

Spec == Init /\ [][Next]_vars

-----------------------------------------------------------------------------
\* Safety: the stored document will be read, is worked on or is shown, unless
\* an error ended the last attempt.
LatestIsFollowed ==
  \/ source = NoDoc
  \/ due
  \/ work = source
  \/ work = NoDoc /\ shown = source
  \/ excused
=============================================================================
