---------------------------- MODULE DetectionPage ----------------------------
(***************************************************************************)
(* The page that detects objects in an image                               *)
(* (frontend/src/app/(app)/detection/yolo/page.tsx, and the same code in   *)
(* the FastSAM page): the image, the models that are listed and chosen,    *)
(* and the requests to the server, which carry no number: an answer is     *)
(* shown when it comes.  What changes the image waits for the request      *)
(* before; what loads the list of models again does not.                   *)
(*                                                                         *)
(* Abstractions.  What is found in an image is the request it answers: its *)
(* image and models.  The two requests of single mode, which Promise.all   *)
(* joins, are one.  The confidence threshold goes along like the models    *)
(* and is left out.  Nothing is clicked while the dialog is open in which  *)
(* another image is chosen.                                                *)
(***************************************************************************)
EXTENDS Naturals, FiniteSets

CONSTANTS
  Image, NoImage,
  Model, NoModel,   \* the checkpoints the server may list
  MaxRequests,      \* bound: requests under way at a time
  MaxClicks,        \* bound: images chosen, runs, clears
  MaxPicks          \* bound: changes of the mode and of the models

ASSUME DetectionAssumption ==
  /\ NoImage \notin Image /\ NoModel \notin Model
  /\ {MaxRequests, MaxClicks} \subseteq Nat \ {0} /\ MaxPicks \in Nat

VARIABLES
  det,      \* the state of the page
  asked,    \* asked[r]: the requests under way
  list,     \* the list of checkpoints: on the page, and the queries for it
  crossed,  \* history: has the list been asked for while it was asked for?
  detCount  \* numbers of bounded events

detVars == <<det, asked, list, crossed, detCount>>

Request  == 1 .. MaxRequests
Args     == [image : Image, multi : BOOLEAN, models : SUBSET (Model \cup {NoModel})]
Nothing  == <<>>                       \* no request, no result
Found    == {Nothing} \cup Args

DetState == [multi : BOOLEAN, one : Model \cup {NoModel}, chosen : SUBSET Model,
             file : Image \cup {NoImage}, single : Found, compared : Found,
             loading : BOOLEAN, error : BOOLEAN]

(* What a query's closure saw of the choice of a model.                    *)
Closure == {"chosen", "unchosen"}

ListState == [shown   : SUBSET Model,
              loading : BOOLEAN,             \* ckptLoading
              queries : [Closure -> Nat]]    \* those under way

DetTypeOK ==
  /\ det \in DetState
  /\ asked \in [Request -> Found]
  /\ list \in ListState
  /\ crossed \in BOOLEAN
  /\ detCount \in [clicks : 0 .. MaxClicks, picks : 0 .. MaxPicks]

DetBlank == [multi |-> FALSE, one |-> NoModel, chosen |-> {}, file |-> NoImage,
             single |-> Nothing, compared |-> Nothing, loading |-> FALSE, error |-> FALSE]

NoneAsked == [r \in Request |-> Nothing]

(* The page is mounted, and asks for the checkpoints.                      *)
ListMounted == [shown |-> {}, loading |-> TRUE,
                queries |-> [c \in Closure |-> IF c = "unchosen" THEN 1 ELSE 0]]

DetInit ==
  /\ det = DetBlank /\ asked = NoneAsked /\ list = ListMounted /\ crossed = FALSE
  /\ detCount = [clicks |-> 0, picks |-> 0]

Click == detCount.clicks < MaxClicks /\ detCount' = [detCount EXCEPT !.clicks = @ + 1]
Pick  == detCount.picks < MaxPicks /\ detCount' = [detCount EXCEPT !.picks = @ + 1]

-----------------------------------------------------------------------------
(* What is shown.                                                          *)

HasResults == det.file # NoImage

(* The zone to drop an image in, or the area under the action bar.         *)
ShownNow == IF det.multi THEN det.compared ELSE det.single
DetShows ==
  CASE ~HasResults         -> "drop zone"
    [] det.loading         -> "spinner"
    [] ShownNow # Nothing  -> "results"
    [] OTHER               -> "nothing"

(* The selector of models: none before the list is there.                  *)
SingleSelector == ~det.multi /\ ~list.loading
MultiSelector  == det.multi /\ ~list.loading

-----------------------------------------------------------------------------
(* The checkpoints.                                                        *)

Querying == \E c \in Closure : list.queries[c] > 0
SeesNow  == IF det.one = NoModel THEN "unchosen" ELSE "chosen"

(* The reload button, which is there while the list is loaded, too; the    *)
(* closure has the choice of the render it is from.                        *)
FetchCheckpoints ==
  /\ Pick
  /\ list' = [list EXCEPT !.loading = TRUE, !.queries[SeesNow] = @ + 1]
  /\ crossed' = (crossed \/ Querying)
  /\ UNCHANGED <<det, asked>>

Answered(c) == [list EXCEPT !.loading = FALSE, !.queries[c] = @ - 1]

(* Mutation of CheckpointsArrive: the model of single mode is set again.   *)
CheckpointsArriveSetting(c) ==
  /\ list.queries[c] > 0
  /\ \E existing \in SUBSET Model, first \in Model :
       /\ existing # {} => first \in existing
       /\ list' = [Answered(c) EXCEPT !.shown = existing]
       /\ det' = [det EXCEPT !.chosen = existing, !.one = IF existing # {} THEN first ELSE @]
  /\ UNCHANGED <<asked, crossed, detCount>>

(* All that exist are chosen again; the model of single mode is set if the *)
(* closure saw none.                                                       *)
CheckpointsArrive(c) ==
  /\ list.queries[c] > 0
  /\ \E existing \in SUBSET Model, first \in Model :
       /\ existing # {} => first \in existing
       /\ list' = [Answered(c) EXCEPT !.shown = existing]
       /\ det' = [det EXCEPT !.chosen = existing,
                             !.one = IF existing # {} /\ c = "unchosen" THEN first ELSE @]
  /\ UNCHANGED <<asked, crossed, detCount>>

CheckpointsFail(c) ==
  /\ list.queries[c] > 0 /\ Pick
  /\ list' = Answered(c)
  /\ UNCHANGED <<det, asked, crossed>>

(* Both modes' selectors; a checkpoint that does not exist is disabled.    *)
SelectOne(m) ==
  /\ SingleSelector /\ m \in list.shown /\ m # det.one
  /\ Pick
  /\ det' = [det EXCEPT !.one = m]
  /\ UNCHANGED <<asked, list, crossed>>

ToggleCheckpoint(m) ==
  /\ MultiSelector /\ m \in list.shown
  /\ Pick
  /\ det' = [det EXCEPT !.chosen = IF m \in @ THEN @ \ {m} ELSE @ \cup {m}]
  /\ UNCHANGED <<asked, list, crossed>>

(* "Select All" and "Clear All" tell themselves apart by numbers.          *)
SelectAll ==
  /\ MultiSelector
  /\ Pick
  /\ det' = [det EXCEPT !.chosen = IF Cardinality(@) = Cardinality(list.shown)
                                   THEN {} ELSE list.shown]
  /\ UNCHANGED <<asked, list, crossed>>

SetMultiMode(on) ==
  /\ on # det.multi
  /\ Pick
  /\ det' = [det EXCEPT !.multi = on]
  /\ UNCHANGED <<asked, list, crossed>>

-----------------------------------------------------------------------------
(* Inference.                                                              *)

(* Mutation of Cleared: the results of the other mode stay.                *)
ClearedOfMode(d) == IF d.multi THEN [d EXCEPT !.compared = Nothing, !.error = FALSE]
                               ELSE [d EXCEPT !.single = Nothing, !.error = FALSE]

Cleared(d) == [d EXCEPT !.single = Nothing, !.compared = Nothing, !.error = FALSE]

(* executeInference(image) up to its await, the state being d.             *)
ExecuteInference(d, image) ==
  LET models == IF d.multi THEN d.chosen ELSE {d.one}
  IN  IF models = {}
      THEN /\ det' = [Cleared(d) EXCEPT !.loading = FALSE, !.error = TRUE]
           /\ UNCHANGED asked
      ELSE /\ det' = [Cleared(d) EXCEPT !.loading = TRUE]
           /\ \E r \in Request :
                /\ asked[r] = Nothing /\ \A q \in 1 .. r - 1 : asked[q] # Nothing
                /\ asked' = [asked EXCEPT ![r] = [image |-> image, multi |-> d.multi,
                                                  models |-> models]]

(* The image is dropped or chosen where there is none (line 312), or       *)
(* changed by a button that is disabled while loading (line 354).          *)
HandleFile(image) ==
  /\ HasResults => ~det.loading
  /\ Click
  /\ ExecuteInference([det EXCEPT !.file = image], image)
  /\ UNCHANGED <<list, crossed>>

RunInference ==
  /\ HasResults /\ ~det.loading
  /\ Click
  /\ ExecuteInference(det, det.file)
  /\ UNCHANGED <<list, crossed>>

(* Mutation of HandleClear: the button is not disabled.                    *)
HandleClearAnytime ==
  /\ HasResults
  /\ Click
  /\ det' = [Cleared(det) EXCEPT !.file = NoImage]
  /\ UNCHANGED <<asked, list, crossed>>

(* The button is disabled while loading (line 357).                        *)
HandleClear ==
  /\ HasResults /\ ~det.loading
  /\ Click
  /\ det' = [Cleared(det) EXCEPT !.file = NoImage]
  /\ UNCHANGED <<asked, list, crossed>>

DetectionArrives(r) ==
  /\ asked[r] # Nothing
  /\ det' = IF asked[r].multi THEN [det EXCEPT !.compared = asked[r], !.loading = FALSE]
                              ELSE [det EXCEPT !.single = asked[r], !.loading = FALSE]
  /\ asked' = [asked EXCEPT ![r] = Nothing]
  /\ UNCHANGED <<list, crossed, detCount>>

InferenceFails(r) ==
  /\ asked[r] # Nothing
  /\ det' = [det EXCEPT !.error = TRUE, !.loading = FALSE]
  /\ asked' = [asked EXCEPT ![r] = Nothing]
  /\ UNCHANGED <<list, crossed, detCount>>

DetNext ==
  \/ FetchCheckpoints
  \/ \E c \in Closure : CheckpointsArrive(c) \/ CheckpointsFail(c)
  \/ \E m \in Model : SelectOne(m) \/ ToggleCheckpoint(m)
  \/ SelectAll
  \/ \E on \in BOOLEAN : SetMultiMode(on)
  \/ \E image \in Image : HandleFile(image)
  \/ RunInference \/ HandleClear
  \/ \E r \in Request : DetectionArrives(r) \/ InferenceFails(r)
DetSpec == DetInit /\ [][DetNext]_detVars

-----------------------------------------------------------------------------
(* Properties.                                                             *)

(* What was found in one image is never shown with another image, though   *)
(* answers carry no number and the mode and the models may be changed      *)
(* while one is awaited: all that changes the image, and Run, are disabled *)
(* meanwhile.                                                              *)
ResultsOfImage == DetShows = "results" => ShownNow.image = det.file

(* The model that is chosen in single mode is replaced by an answer with   *)
(* the list only if the list was asked for again before it had arrived: a  *)
(* closure from before the choice takes it for missing.                    *)
PickNeedsOverlap ==
  [][det.one # NoModel /\ det'.one \notin {NoModel, det.one} => crossed \/ UNCHANGED list]_detVars

(* Only models in the list are chosen, so that comparing numbers is enough *)
(* for "Select All", also when the list has been loaded again.             *)
ChosenAreListed == det.chosen \subseteq list.shown
=============================================================================
