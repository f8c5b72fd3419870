----------------------------- MODULE FastSamPage -----------------------------
(***************************************************************************)
(* The page that segments an image with FastSAM                            *)
(* (frontend/src/app/(app)/detection/fastsam/page.tsx): the code of the    *)
(* YOLO page, over its own list of checkpoints, and a warning.  The two    *)
(* pages are never mounted together, so that they share the variables.     *)
(***************************************************************************)
EXTENDS DetectionPage

VARIABLE
  sam    \* fastsamAvailable, and the query for it
samVars == <<detVars, sam>>

SamTypeOK == DetTypeOK /\ sam \in [available : BOOLEAN, query : BOOLEAN]

SamBlank == [available |-> TRUE, query |-> FALSE]

(* What is shown: the same, under the warning.                             *)
SamWarns == ~sam.available
SamShows == [warning |-> SamWarns, below |-> DetShows]

(* The page is mounted: the capabilities are asked for beside the list.    *)
SamMounted == [SamBlank EXCEPT !.query = TRUE]

(* Whether the library is missing or the query fails, the page gives the   *)
(* same warning, which hinders nothing, and does not ask again.            *)
CapabilitiesArrive ==
  /\ sam.query
  /\ \E available \in BOOLEAN : sam' = [available |-> available, query |-> FALSE]
  /\ UNCHANGED detVars

SamFetchCheckpoints == FetchCheckpoints /\ UNCHANGED sam
SamCheckpoints      ==
  (\E c \in Closure : CheckpointsArrive(c) \/ CheckpointsFail(c))
  /\ UNCHANGED sam

SamSelectOne(m)        == SelectOne(m) /\ UNCHANGED sam
SamToggleCheckpoint(m) == ToggleCheckpoint(m) /\ UNCHANGED sam
SamSelectAll           == SelectAll /\ UNCHANGED sam
SamSetMultiMode(on)    == SetMultiMode(on) /\ UNCHANGED sam

SamHandleFile(image) == HandleFile(image) /\ UNCHANGED sam
SamRunInference      == RunInference /\ UNCHANGED sam
SamHandleClear       == HandleClear /\ UNCHANGED sam
SamAnswer(r)         == (DetectionArrives(r) \/ InferenceFails(r)) /\ UNCHANGED sam

SamNext ==
  \/ CapabilitiesArrive \/ SamFetchCheckpoints \/ SamCheckpoints
  \/ \E m \in Model : SamSelectOne(m) \/ SamToggleCheckpoint(m)
  \/ SamSelectAll
  \/ \E on \in BOOLEAN : SamSetMultiMode(on)
  \/ \E image \in Image : SamHandleFile(image)
  \/ SamRunInference \/ SamHandleClear
  \/ \E r \in Request : SamAnswer(r)
=============================================================================
