------------------------------ MODULE MapView ------------------------------
(***************************************************************************)
(* The map of spots on the home screen and on My page's food map           *)
(* (collection-spot-map-view, map-api-provider): the coordinates of the    *)
(* spots, the script and the tiles of Google Maps, which fail in their own *)
(* ways and are retried, and the camera, which the spots, the position of  *)
(* the user and the user's hand move.                                      *)
(*                                                                         *)
(* One step is an event and the renders and effects it leads to.           *)
(***************************************************************************)
EXTENDS FiniteSets

CONSTANT Spots    \* spots that may be shown, each at a place of its own

VARIABLES
    board,        \* the page around the map
    spots,        \* the spots it gives to the map
    located,      \* usePlaceLocations: coordinates, and whose request they answer
    script,       \* the script of Google Maps, one for the page
    map,          \* the map on the screen
    failure,      \* mapsLoadError, its ref, and whether the map did fail
    position      \* the user's position, and where the camera is

vars == <<board, spots, located, script, map, failure, position>>

NoMap == [mounted |-> FALSE, made |-> FALSE, watched |-> FALSE, painted |-> FALSE]
FreshMap == [NoMap EXCEPT !.mounted = TRUE]
NoFailure == [shown |-> FALSE, ref |-> FALSE, broken |-> FALSE]

\* A set of spots is the key of a request; {} stands for none.
NothingLocated == [found |-> {}, resolved |-> {}, error |-> {}, awaited |-> {}, from |-> {}]
NoPosition == [known |-> FALSE, asked |-> FALSE, error |-> FALSE, focus |-> FALSE,
               camera |-> "none"]

Hosts == {"home", "mypage"}
Scripts == {"loading", "loaded", "failed", "refused"}
BadScripts == {"failed", "refused"}

-----------------------------------------------------------------------------
(***************************************************************************)
(* What is shown.                                                          *)
(***************************************************************************)
Loading(s, l) == s # {} /\ l.resolved # s /\ l.error # s
Markers(s, l) == s \cap l.found

\* Without a key of the API there is no map.
Empty(s, l) == ~board.hasKey \/ Markers(s, l) = {}
MapShown(s, l, f) == ~Empty(s, l) /\ ~Loading(s, l) /\ ~f.shown
ButtonShown == MapShown(spots, located, failure) /\ ~position.asked

\* Each failure is reported once to the view, which keeps the first until a retry.
HandleMapsLoadError(f) ==
    IF f.ref THEN [f EXCEPT !.broken = TRUE]
    ELSE [shown |-> TRUE, ref |-> TRUE, broken |-> TRUE]

\* My page is told whether the map failed.
TellsParent(f) ==
    board' = IF board.host = "mypage" THEN [board EXCEPT !.failed = f.shown \/ ~board.hasKey]
             ELSE board

FitMapViewport == ~position.focus
PanMapToTarget == position.focus

\* The camera after the effects of a map that has new points or was made.
Aimed == IF PanMapToTarget THEN "user" ELSE IF FitMapViewport THEN "spots" ELSE "none"

\* A map that comes onto the screen asks for the script again, which may be as it was, and
\* one whose script is known to fail is reported at once.
MapMounts(f) ==
    \/ /\ script \in BadScripts
       /\ failure' = HandleMapsLoadError(f) /\ map' = NoMap
       /\ TellsParent(failure') /\ UNCHANGED script
    \/ /\ script' = IF script \in BadScripts THEN "loading" ELSE script
       /\ failure' = f /\ map' = FreshMap /\ TellsParent(f)

\* The view after its spots or their coordinates changed to s and l.
Rendered(s, l) ==
    IF ~MapShown(s, l, failure)
    THEN /\ map' = NoMap /\ position' = [position EXCEPT !.camera = "none"]
         /\ UNCHANGED <<script, failure>> /\ TellsParent(failure)
    ELSE IF ~map.mounted
    THEN MapMounts(failure) /\ UNCHANGED position
    ELSE /\ position' = IF map.made /\ FitMapViewport
                        THEN [position EXCEPT !.camera = Aimed] ELSE position
         /\ UNCHANGED <<script, map, failure, board>>

-----------------------------------------------------------------------------
(***************************************************************************)
(* The spots and their coordinates.                                        *)
(***************************************************************************)
\* The effect of usePlaceLocations: a request per key; the one before is cancelled.
UsePlaceLocations(s) ==
    IF s = spots THEN located ELSE [located EXCEPT !.awaited = s]

\* Home: the feed goes on, is filtered, or is rendered with one of its items changed.
ItemsChange(s) ==
    /\ board.host = "home" /\ board.at = "ready"
    /\ spots' = s /\ located' = UsePlaceLocations(s)
    /\ Rendered(s, located')

\* My page: the collections, then the details of each; those that come are enough, and
\* none at all is a failure.  Spots may be none for want of collections.
LoadAllMySpots(s) ==
    /\ board.host = "mypage" /\ board.at = "loading"
    /\ board' = [board EXCEPT !.at = "ready", !.failed = s # {} /\ ~board.hasKey]
    /\ spots' = s /\ located' = UsePlaceLocations(s)
    /\ UNCHANGED <<script, map, failure, position>>
LoadFails ==
    /\ board.host = "mypage" /\ board.at = "loading"
    /\ board' = [board EXCEPT !.at = "failed"]
    /\ UNCHANGED <<spots, located, script, map, failure, position>>
Reload ==
    /\ board.at = "failed"
    /\ board' = [board EXCEPT !.at = "loading"]
    /\ UNCHANGED <<spots, located, script, map, failure, position>>

\* Places that Google does not locate are left out.
LocationsArrive(found) ==
    /\ located.awaited # {} /\ found \subseteq located.awaited
    /\ located' = [found |-> found, error |-> {}, resolved |-> located.awaited,
                   awaited |-> {}, from |-> located.awaited]
    /\ UNCHANGED spots /\ Rendered(spots, located')

\* The coordinates of an earlier request stay.
LocationsFail ==
    /\ located.awaited # {}
    /\ located' = [located EXCEPT !.error = located.awaited, !.resolved = located.awaited,
                                  !.awaited = {}]
    /\ UNCHANGED spots /\ Rendered(spots, located')

-----------------------------------------------------------------------------
(***************************************************************************)
(* The script and the tiles.                                               *)
(***************************************************************************)
Breaks ==
    /\ failure' = HandleMapsLoadError(failure) /\ TellsParent(failure')
    /\ map' = IF failure'.shown THEN NoMap ELSE map
    /\ position' = IF failure'.shown THEN [position EXCEPT !.camera = "none"] ELSE position
    /\ UNCHANGED <<spots, located>>

\* The status of the script (useApiLoadingStatus), and the error of its loading (onError).
ScriptLoads ==
    /\ script = "loading" /\ map.mounted /\ script' = "loaded"
    /\ UNCHANGED <<board, spots, located, map, failure, position>>
ScriptFails ==
    /\ script = "loading" /\ map.mounted
    /\ script' = "failed" /\ Breaks
AuthFailure ==
    /\ script = "loaded" /\ map.mounted
    /\ script' = "refused" /\ Breaks

\* An error of the window about the referrer, or the overlay that Google puts on the map.
HandleWindowError == map.mounted /\ Breaks /\ UNCHANGED script
InspectDom == map.made /\ Breaks /\ UNCHANGED script

\* The map is made; it is watched until its tiles are late.
MapMade ==
    /\ map.mounted /\ ~map.made /\ script = "loaded"
    /\ map' = [map EXCEPT !.made = TRUE, !.watched = TRUE]
    /\ position' = [position EXCEPT !.camera = Aimed]
    /\ UNCHANGED <<board, spots, located, script, failure>>
TilesLoaded ==
    /\ map.made /\ ~map.painted
    /\ map' = [map EXCEPT !.painted = TRUE]
    /\ UNCHANGED <<board, spots, located, script, failure, position>>
TilesTimeout ==
    /\ map.watched
    /\ UNCHANGED script
    /\ IF map.painted
       THEN /\ map' = [map EXCEPT !.watched = FALSE]
            /\ UNCHANGED <<board, spots, located, failure, position>>
       ELSE Breaks

HandleRetryMap ==
    /\ failure.shown /\ ~Loading(spots, located) /\ ~Empty(spots, located)
    /\ MapMounts(NoFailure)
    /\ UNCHANGED <<spots, located, position>>

-----------------------------------------------------------------------------
(***************************************************************************)
(* The user's position.                                                    *)
(***************************************************************************)
PanToLocation(p) ==
    [p EXCEPT !.focus = TRUE, !.camera = IF map.made THEN "user" ELSE "none"]

\* The button of the current position, when it is known and when it is not.
HandleRequestCurrentLocation ==
    /\ ButtonShown
    /\ position' = IF position.known THEN PanToLocation(position)
                   ELSE [position EXCEPT !.asked = TRUE, !.error = FALSE]
    /\ UNCHANGED <<board, spots, located, script, map, failure>>
PositionFound ==
    /\ position.asked
    /\ position' = PanToLocation([position EXCEPT !.asked = FALSE, !.known = TRUE, !.error = FALSE])
    /\ UNCHANGED <<board, spots, located, script, map, failure>>
PositionFails ==
    /\ position.asked
    /\ position' = [position EXCEPT !.asked = FALSE, !.error = TRUE]
    /\ UNCHANGED <<board, spots, located, script, map, failure>>

\* The user moves the map.
Drag ==
    /\ map.made
    /\ position' = [position EXCEPT !.camera = "hand"]
    /\ UNCHANGED <<board, spots, located, script, map, failure>>

\* Home goes to the list and back: the view is a new one.
Reopen ==
    /\ board.host = "home"
    /\ map' = NoMap /\ failure' = NoFailure /\ position' = NoPosition
    /\ located' = [NothingLocated EXCEPT !.awaited = spots]
    /\ UNCHANGED <<board, spots, script>>

Init ==
    /\ board \in [host : Hosts, at : {"ready", "loading"}, failed : {FALSE}, hasKey : BOOLEAN]
    /\ board.host = "home" <=> board.at = "ready"
    /\ spots = {} /\ located = NothingLocated /\ script = "loading"
    /\ map = NoMap /\ failure = NoFailure /\ position = NoPosition

Next ==
    \/ \E s \in SUBSET Spots : ItemsChange(s) \/ LoadAllMySpots(s) \/ LocationsArrive(s)
    \/ LoadFails \/ Reload \/ LocationsFail
    \/ ScriptLoads \/ ScriptFails \/ AuthFailure \/ HandleWindowError \/ InspectDom
    \/ MapMade \/ TilesLoaded \/ TilesTimeout \/ HandleRetryMap
    \/ HandleRequestCurrentLocation \/ PositionFound \/ PositionFails \/ Drag \/ Reopen

Spec == Init /\ [][Next]_vars

-----------------------------------------------------------------------------
\* The values the variables take.
TypeOK ==
    /\ board.host \in Hosts /\ board.at \in {"ready", "loading", "failed"}
    /\ spots \subseteq Spots /\ located.found \subseteq Spots /\ script \in Scripts
    /\ map.made => map.mounted
    /\ position.camera \in {"none", "spots", "user", "hand"}

\* A map that failed is never left blank without a word, and a working one never
\* replaced by an error, across retries, new spots and the three places that watch it; My
\* page counts pins only beside a map; the coordinates shown without an error were
\* answered for the spots that are shown, and who waits for them is answered; and once
\* the user asked where they are, new spots do not take the camera away.
MapIsHonest ==
    /\ failure.broken = failure.shown
    /\ board.host = "mypage" /\ spots # {} => board.failed = (failure.shown \/ ~board.hasKey)
    /\ map.mounted = MapShown(spots, located, failure)
    /\ spots # {} /\ ~Loading(spots, located) /\ located.error # spots => located.from = spots
    /\ Loading(spots, located) => located.awaited = spots
    /\ position.focus => position.camera # "spots"
=============================================================================
