----------------------------- MODULE PhotoImage -----------------------------
(***************************************************************************)
(* The photo of a spot in apps/web (components/places/spot-thumbnail): the *)
(* spot's own from the app's storage or else the first of its place, read  *)
(* with the user's token into a blob that an <img> shows                   *)
(* (lib/ui/use-authenticated-image-blob).  The spot and its place change   *)
(* under the component, which starts a new load each time; a blob's URL    *)
(* has to be revoked by the load that made it.                             *)
(*                                                                         *)
(* Whether a photo may be seen and whether storage and Google answer is a  *)
(* choice; so is whether a blob is an image the browser can decode.        *)
(***************************************************************************)
EXTENDS Naturals, FiniteSets

CONSTANTS
    SpotPhotos, PlaceURLs,       \* URLs of photos
    None,
    Numbers                      \* what tells blobs of a photo apart

Photos == SpotPhotos \cup PlaceURLs

PhotoConstants == SpotPhotos \cap PlaceURLs = {} /\ None \notin Photos

Blobs == [photo : Photos, number : Numbers]
NoBlob == [photo |-> None, number |-> 0]

VARIABLES
    thumb,      \* the photo of the spot, and of its place
    image,      \* state of useAuthenticatedImageBlob
    running,    \* loads that have not ended: asked, or with a response whose body is read
    made,       \* the blob that the load of the present photo has made
    alive,      \* blob URLs that are not revoked
    painted     \* the blob that the <img> has loaded

vars == <<thumb, image, running, made, alive, painted>>

\* resolveSpotHeroPhoto
Hero(t) == IF t.spot # None THEN t.spot ELSE t.place

LoadingState(photo) ==
    [forKey |-> photo, status |-> "loading", src |-> NoBlob, visible |-> FALSE]
ErrorState(photo) == [LoadingState(photo) EXCEPT !.status = "error"]

Init ==
    /\ thumb = [spot |-> None, place |-> None]
    /\ image = LoadingState(None)
    /\ running = {} /\ alive = {} /\ made = NoBlob /\ painted = NoBlob

\* What is rendered: a state of another photo counts for nothing.
Active == IF image.forKey = Hero(thumb) THEN image ELSE LoadingState(Hero(thumb))

\* AuthImage and PlacePhotoImage are different components: a photo of the other kind is
\* shown by a new one.
Remains(t) ==
    \/ {Hero(t), Hero(thumb)} \subseteq SpotPhotos
    \/ {Hero(t), Hero(thumb)} \subseteq PlaceURLs

Revoked == alive \ {made}

Abandoned == {[l EXCEPT !.cancelled = TRUE] : l \in running}
Started(photo) ==
    IF photo = None THEN {} ELSE {[photo |-> photo, cancelled |-> FALSE, at |-> "asked"]}

\* The spot or its place changes, or is gone: if the photo does, the effect is cleaned up
\* and starts anew.  The <img> goes with its source.
SpotChanges(t) ==
    /\ t # thumb /\ thumb' = t
    /\ IF Hero(t) = Hero(thumb) THEN UNCHANGED <<image, running, made, alive, painted>>
       ELSE /\ image' = IF Remains(t) THEN image ELSE LoadingState(Hero(t))
            /\ running' = Abandoned \cup Started(Hero(t))
            /\ alive' = Revoked
            /\ made' = NoBlob /\ painted' = NoBlob

\* fetchResponse
Responds(l) ==
    /\ l.at = "asked"
    /\ running' = (running \ {l}) \cup {[l EXCEPT !.at = "body"]}
    /\ UNCHANGED <<thumb, image, made, alive, painted>>

Stops(l) == l.cancelled

\* Refused, not found, or failed on the way.
LoadFails(l) ==
    /\ running' = running \ {l}
    /\ IF Stops(l) THEN UNCHANGED <<image, painted>>
       ELSE image' = ErrorState(l.photo) /\ painted' = NoBlob
    /\ UNCHANGED <<thumb, made, alive>>

BlobIsRead(l) ==
    /\ l.at = "body"
    /\ running' = running \ {l}
    /\ IF Stops(l) THEN UNCHANGED <<image, made, alive, painted>>
       ELSE \E b \in Blobs :
              /\ b.photo = l.photo /\ b \notin alive /\ b \notin {image.src, painted}
              /\ alive' = alive \cup {b} /\ made' = b
              /\ image' = [LoadingState(l.photo) EXCEPT !.src = b]
              /\ painted' = NoBlob
    /\ UNCHANGED thumb

\* The <img> has loaded its source, or cannot: a revoked one never loads.
OnImageLoad ==
    /\ Active.src \in alive /\ painted # Active.src
    /\ painted' = Active.src
    /\ image' = [image EXCEPT !.status = "loaded", !.visible = TRUE]
    /\ UNCHANGED <<thumb, running, made, alive>>

OnImageError ==
    /\ Active.src # NoBlob /\ painted # Active.src
    /\ image' = ErrorState(Hero(thumb))
    /\ UNCHANGED <<thumb, running, made, alive, painted>>

Next ==
    \/ \E t \in [spot : SpotPhotos \cup {None}, place : PlaceURLs \cup {None}] : SpotChanges(t)
    \/ \E l \in running : Responds(l) \/ LoadFails(l) \/ BlobIsRead(l)
    \/ OnImageLoad \/ OnImageError

Spec == Init /\ [][Next]_vars

-----------------------------------------------------------------------------
\* The values the variables take.
TypeOK ==
    /\ thumb \in [spot : SpotPhotos \cup {None}, place : PlaceURLs \cup {None}]
    /\ image \in [forKey : Photos \cup {None}, status : {"loading", "loaded", "error"},
                  src : Blobs \cup {NoBlob}, visible : BOOLEAN]
    /\ running \subseteq [photo : Photos, cancelled : BOOLEAN, at : {"asked", "body"}]
    /\ {made, painted} \subseteq Blobs \cup {NoBlob}
    /\ alive \subseteq Blobs

Loading == \E l \in running : ~l.cancelled

\* No blob outlives the photo it was made for; only a blob of the present photo is shown;
\* once its load is over, the blob shown can be loaded and a photo that counts as loaded
\* is; and the shimmer shows only while something is to come that ends it.
PhotoIsTrue ==
    /\ alive \subseteq {made}
    /\ Active.src # NoBlob => Active.src.photo = Hero(thumb)
    /\ Active.src # NoBlob /\ ~Loading => Active.src \in alive
    /\ Active.visible /\ ~Loading => painted = Active.src
    /\ Active.status = "loading" /\ Hero(thumb) # None =>
          Loading \/ (Active.src \in alive /\ painted # Active.src)
=============================================================================
