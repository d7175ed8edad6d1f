------------------------------ MODULE WebProofs ------------------------------
(***************************************************************************)
(* Theorems about the specification of MCWeb, for any constants that its   *)
(* modules allow.  What WebPartsProofs and LibraryProofs say of each module *)
(* is cited through an instance of them.                                   *)
(***************************************************************************)
EXTENDS MCWeb, FiniteSetTheorems, SequenceTheorems, TLAPS

PP == INSTANCE WebPartsProofs WITH flags <- unread, raised <- flags, Pending <- "pending"

LP == INSTANCE LibraryProofs WITH
    Users <- LibraryUsers, Places <- LibraryPlaces, Watchers <- LibraryWatchers,
    Start <- LibraryStart, MaxCollections <- LibraryCollections, MaxSpots <- LibrarySpots,
    MaxTx <- LibraryTx, Viewer <- Nobody, Saveable <- {}

SP == INSTANCE LibraryProofs WITH
    Users <- SaveUsers, Places <- SavePlaces, Watchers <- SaveWatchers, Start <- SaveStart,
    Viewer <- SaveViewer, MaxCollections <- SaveCollections, MaxSpots <- SaveSpots,
    MaxTx <- SaveTx

-----------------------------------------------------------------------------
(* The steps of a part are those of its module.                            *)

LEMMA PartStays == [Next]_webVars => part' = part
  BY DEF Next, webVars

\* The module that WebPartsProofs extends is the one that MCWeb instances.
LEMMA SameFriends ==
    /\ F!FriendsConstants <=> PP!FriendsConstants
    /\ F!Init <=> PP!Init
    /\ F!Next <=> PP!Next
    /\ F!vars = PP!vars
    /\ F!UnfriendingEnds <=> PP!UnfriendingEnds
    /\ F!FriendshipIsMutual <=> PP!FriendshipIsMutual
    /\ F!FriendshipInvariant <=> PP!FriendshipInvariant
    /\ F!ReadWasShown <=> PP!ReadWasShown
    /\ F!TypeOK <=> PP!TypeOK
  BY DEF F!FriendsConstants, PP!FriendsConstants, F!Pairs, PP!Pairs, F!NoRow, PP!NoRow,
          F!RowRecords, PP!RowRecords, F!vars, PP!vars, F!Ops, PP!Ops, F!CallIds, PP!CallIds,
          F!CallRecords, PP!CallRecords, F!NoCall, PP!NoCall, F!NoLists, PP!NoLists, F!Opened,
          PP!Opened, F!Closed, PP!Closed, F!Init, PP!Init, F!Guard, PP!Guard, F!Deletable,
          PP!Deletable, F!Classified, PP!Classified, F!Awaited, PP!Awaited, F!Answered,
          PP!Answered, F!At, PP!At, F!Calls, PP!Calls, F!RowOf, PP!RowOf, F!Asks, PP!Asks,
          F!SendReads, PP!SendReads, F!StillAccepts, PP!StillAccepts, F!SendInserts,
          PP!SendInserts, F!AcceptVerdict, PP!AcceptVerdict, F!AcceptReads, PP!AcceptReads,
          F!AcceptUpdates, PP!AcceptUpdates, F!Deletes, PP!Deletes, F!DeleteClassified,
          PP!DeleteClassified, F!FriendsOf, PP!FriendsOf, F!IncomingOf, PP!IncomingOf,
          F!OutgoingOf, PP!OutgoingOf, F!Free, PP!Free, F!NextCall, PP!NextCall, F!Starts,
          PP!Starts, F!PostRequest, PP!PostRequest, F!PostAccept, PP!PostAccept, F!PostReject,
          PP!PostReject, F!DeleteRequest, PP!DeleteRequest, F!DeleteFriend, PP!DeleteFriend,
          F!CallsApi, PP!CallsApi, F!Load, PP!Load, F!Open, PP!Open, F!Leave, PP!Leave, F!Page,
          PP!Page, F!ListAnswered, PP!ListAnswered, F!Ends, PP!Ends, F!Marked, PP!Marked,
          F!LoadEnds, PP!LoadEnds, F!MarkRead, PP!MarkRead, F!LoadFails, PP!LoadFails,
          F!RetryLoad, PP!RetryLoad, F!ListsShown, PP!ListsShown, F!SendOffered, PP!SendOffered,
          F!RequestOffered, PP!RequestOffered, F!WithdrawalOffered, PP!WithdrawalOffered,
          F!UnfriendOffered, PP!UnfriendOffered, F!Pressed, PP!Pressed, F!HandleSendRequest,
          PP!HandleSendRequest, F!HandleAccept, PP!HandleAccept, F!HandleReject, PP!HandleReject,
          F!HandleCancel, PP!HandleCancel, F!RequestUnfriend, PP!RequestUnfriend,
          F!CancelUnfriend, PP!CancelUnfriend, F!HandleConfirmUnfriend, PP!HandleConfirmUnfriend,
          F!Reloads, PP!Reloads, F!AnswerArrives, PP!AnswerArrives, F!FlagEmitted, PP!FlagEmitted,
          F!Database, PP!Database, F!Lists, PP!Lists, F!Screens, PP!Screens, F!Next, PP!Next,
          F!TypeOK, PP!TypeOK, F!FriendshipIsMutual, PP!FriendshipIsMutual, F!AskedBy, PP!AskedBy,
          F!RowIsAsked, PP!RowIsAsked, F!AcceptsAnother, PP!AcceptsAnother, F!FriendshipInvariant,
          PP!FriendshipInvariant, F!Runs, PP!Runs, F!UnfriendingEnds, PP!UnfriendingEnds,
          F!ReadWasShown, PP!ReadWasShown

LEMMA SameLibrary ==
    /\ L!LibraryConstants <=> LP!LibraryConstants
    /\ L!LibraryInit <=> LP!LibraryInit
    /\ L!LibraryNext <=> LP!LibraryNext
    /\ L!libraryVars = LP!libraryVars
    /\ L!LibraryHolds <=> LP!LibraryHolds
    /\ L!LibraryTypeOK <=> LP!LibraryTypeOK
  BY DEF L!Collections, LP!Collections, L!Spots, LP!Spots, L!TxIds, LP!TxIds, L!tables,
          LP!tables, L!libraryVars, LP!libraryVars, L!Unused, LP!Unused, L!Deleted, LP!Deleted,
          L!CollectionRecords, LP!CollectionRecords, L!NoSpot, LP!NoSpot, L!GoneSpot, LP!GoneSpot,
          L!SpotRecords, LP!SpotRecords, L!NoTx, LP!NoTx, L!Over, LP!Over, L!LibraryInit,
          LP!LibraryInit, L!AreFriends, LP!AreFriends, L!IsCollection, LP!IsCollection, L!IsSpot,
          LP!IsSpot, L!CollectionVisible, LP!CollectionVisible, L!SpotVisible, LP!SpotVisible,
          L!OwnedBy, LP!OwnedBy, L!SpotsIn, LP!SpotsIn, L!CopiesOf, LP!CopiesOf, L!SavedByMe,
          LP!SavedByMe, L!FreeTx, LP!FreeTx, L!NextTx, LP!NextTx, L!Begins, LP!Begins, L!At,
          LP!At, L!Answers, LP!Answers, L!GoesOn, LP!GoesOn, L!Refuses, LP!Refuses, L!Reads,
          LP!Reads, L!SpotVerdict, LP!SpotVerdict, L!CollectionVerdict, LP!CollectionVerdict,
          L!UnusedSpots, LP!UnusedSpots, L!UnusedCollections, LP!UnusedCollections, L!Insertable,
          LP!Insertable, L!Removed, LP!Removed, L!SpotsDeleted, LP!SpotsDeleted, L!CreateSpot,
          LP!CreateSpot, L!UpdateSpot, LP!UpdateSpot, L!DeleteSpot, LP!DeleteSpot, L!FlagOf,
          LP!FlagOf, L!CopyOf, LP!CopyOf, L!RecollectSpot, LP!RecollectSpot, L!UnrecollectSpot,
          LP!UnrecollectSpot, L!LikeSpot, LP!LikeSpot, L!UnlikeSpot, LP!UnlikeSpot, L!Inserted,
          LP!Inserted, L!CreateCollection, LP!CreateCollection, L!EnsureDefaultCollection,
          LP!EnsureDefaultCollection, L!UpdateCollection, LP!UpdateCollection,
          L!ReorderCollections, LP!ReorderCollections, L!DeleteCollection, LP!DeleteCollection,
          L!PostSpot, LP!PostSpot, L!PatchSpot, LP!PatchSpot, L!DeleteSpotRoute,
          LP!DeleteSpotRoute, L!PostRecollect, LP!PostRecollect, L!DeleteRecollect,
          LP!DeleteRecollect, L!PostLike, LP!PostLike, L!DeleteLike, LP!DeleteLike,
          L!PostCollection, LP!PostCollection, L!PatchCollection, LP!PatchCollection,
          L!PatchReorder, LP!PatchReorder, L!DeleteCollectionRoute, LP!DeleteCollectionRoute,
          L!PostOnboarding, LP!PostOnboarding, L!KnownSpots, LP!KnownSpots, L!KnownCollections,
          LP!KnownCollections, L!AnyCall, LP!AnyCall, L!Statement, LP!Statement, L!CircleChanges,
          LP!CircleChanges, L!LibraryNext, LP!LibraryNext, L!LibraryTypeOK, LP!LibraryTypeOK,
          L!RowsFit, LP!RowsFit, L!LibraryConstants, LP!LibraryConstants, L!SpotsHold,
          LP!SpotsHold, L!FlagsNameFriends, LP!FlagsNameFriends, L!LibraryHolds, LP!LibraryHolds,
          L!Cardinality, LP!Cardinality, L!IsFiniteSet, LP!IsFiniteSet, L!SetToSeqs, LP!SetToSeqs,
          L!Min, LP!Min, L!Max, LP!Max, L!ToSet, LP!ToSet, L!IsInjective, LP!IsInjective, L!Range,
          LP!Range, L!Injection, LP!Injection, L!Bijection, LP!Bijection

-----------------------------------------------------------------------------
(* Friendships.                                                            *)

FriendsInv == part = "friends" => PP!IInv /\ PP!FlagsInv /\ PP!FriendsTyped

LEMMA FriendsStart == Init => FriendsInv
  <1> SUFFICES ASSUME part = "friends", F!Init
               PROVE  PP!IInv /\ PP!FlagsInv /\ PP!FriendsTyped
    BY DEF Init, FriendsInv
  <1>1. PP!Init
    BY SameFriends
  <1>2. PP!FlagsInv
    BY <1>1 DEF PP!Init, PP!FlagsInv, PP!ReadWasShown
  <1> QED BY <1>1, <1>2, PP!InitHolds, PP!FriendsTypedAtStart

LEMMA FriendsStep ==
    ASSUME part = "friends", [Next]_webVars
    PROVE  [PP!Next]_PP!vars
  BY SameFriends DEF Next, webVars, friendsVars, PP!vars

LEMMA FriendsKeep == ASSUME FriendsInv, [Next]_webVars PROVE FriendsInv'
  <1> SUFFICES ASSUME part = "friends"
               PROVE  PP!IInv' /\ PP!FlagsInv' /\ PP!FriendsTyped'
    BY PartStays DEF FriendsInv
  <1>1. /\ PP!FriendsConstants /\ PP!IInv /\ PP!FlagsInv /\ PP!FriendsTyped
        /\ [PP!Next]_PP!vars
    BY WebAssumption, SameFriends, FriendsStep DEF FriendsInv
  <1> QED BY <1>1, PP!NextKeeps, PP!NextFlags, PP!NextTyped

\* docs/spec.md: nobody becomes a friend who did not ask for it, whatever the transactions
\* of any number of accounts do between each other's statements.
THEOREM FriendsAreMutual == Spec => []FriendshipIsMutual
  <1>1. FriendsInv => FriendshipIsMutual
    BY SameFriends DEF FriendsInv, FriendshipIsMutual, PP!IInv, PP!FriendshipInvariant
  <1> QED BY <1>1, FriendsStart, FriendsKeep, PTL DEF Spec

\* A flag is read only after a notifications screen has shown it, whatever arrives between
\* the load of a page, its end and the mark.
THEOREM FlagsReadWereShown == Spec => []ReadWasShown
  <1>1. FriendsInv => ReadWasShown
    BY SameFriends DEF FriendsInv, ReadWasShown, PP!FlagsInv
  <1> QED BY <1>1, FriendsStart, FriendsKeep, PTL DEF Spec

\* docs/spec.md: only an unfriending ends a friendship; no request, acceptance, rejection or
\* cancellation does, in whatever order they run.
THEOREM FriendshipsEndByUnfriending == Spec => OnlyUnfriendingEnds
  <1>1. ASSUME FriendsInv, [Next]_webVars
        PROVE  [part = "friends" => F!UnfriendingEnds]_webVars
    <2> SUFFICES ASSUME part = "friends", Next PROVE PP!UnfriendingEnds
      BY <1>1, SameFriends
    <2>1. PP!IInv /\ PP!Next
      BY <1>1, SameFriends DEF FriendsInv, Next
    <2> QED BY <2>1, PP!EndsInDeletion DEF PP!UnfriendingEnds
  <1> QED BY <1>1, FriendsStart, FriendsKeep, PTL DEF Spec, OnlyUnfriendingEnds

-----------------------------------------------------------------------------
(* Collections and spots.                                                  *)

LibraryInv == part = "library" => LP!LibraryInvariant

LEMMA LibraryBegins == Init => LibraryInv
  BY WebAssumption, SameLibrary, LP!LibraryStarts DEF Init, LibraryInv

LEMMA LibraryStep ==
    ASSUME part = "library", [Next]_webVars
    PROVE  [LP!LibraryNext]_LP!libraryVars
  BY SameLibrary DEF Next, webVars, libraryVars, LP!libraryVars

LEMMA LibraryKeep == ASSUME LibraryInv, [Next]_webVars PROVE LibraryInv'
  <1> SUFFICES ASSUME part = "library" PROVE LP!LibraryInvariant'
    BY PartStays DEF LibraryInv
  <1>1. LP!LibraryConstants /\ LP!LibraryInvariant /\ [LP!LibraryNext]_LP!libraryVars
    BY WebAssumption, SameLibrary, LibraryStep DEF LibraryInv
  <1> QED BY <1>1, LP!LibraryKeeps

\* A spot stays in a collection of its author, a copy one step farther from the same author
\* than its source, a like on a spot, and a flag names nobody who was never a friend,
\* whatever is moved or deleted between the statements of a transaction.
THEOREM LibraryHoldsTogether == Spec => []LibraryHolds
  <1>1. LibraryInv => LibraryHolds
    BY SameLibrary DEF LibraryInv, LibraryHolds, LP!LibraryInvariant, LP!TablesFit
  <1> QED BY <1>1, LibraryBegins, LibraryKeep, PTL DEF Spec

-----------------------------------------------------------------------------
(* The save button.                                                        *)

LEMMA SameSave ==
    /\ S!SaveConstants <=> SP!SaveConstants
    /\ S!Init <=> SP!Init
    /\ S!Next <=> SP!Next
    /\ S!vars = SP!vars
    /\ S!TypeOK <=> SP!TypeOK
    /\ S!SavedIsTrue <=> SP!SavedIsTrue
  BY DEF S!screenVars, SP!screenVars, S!vars, SP!vars, S!Button, SP!Button, S!ClosedPicker,
         SP!ClosedPicker, S!Init, SP!Init, S!Flight, SP!Flight, S!Awaited, SP!Awaited, S!Saves,
         SP!Saves, S!Running, SP!Running, S!Overlaps, SP!Overlaps, S!Opens, SP!Opens,
         S!OpenPicker, SP!OpenPicker, S!Cancelled, SP!Cancelled, S!ClosePicker, SP!ClosePicker,
         S!ListArrives, SP!ListArrives, S!QuickSave, SP!QuickSave, S!Requests, SP!Requests,
         S!TapTaken, SP!TapTaken, S!Tap, SP!Tap, S!SelectOffered, SP!SelectOffered,
         S!HandleSelectCollection, SP!HandleSelectCollection, S!HandleCreateCollection,
         SP!HandleCreateCollection, S!Created, SP!Created, S!Follows, SP!Follows, S!Told, SP!Told,
         S!Stored, SP!Stored, S!Current, SP!Current, S!Landed, SP!Landed, S!Consumed, SP!Consumed,
         S!SaveAnswered, SP!SaveAnswered, S!UnsaveAnswered, SP!UnsaveAnswered, S!PickAnswered,
         SP!PickAnswered, S!CreateFails, SP!CreateFails, S!OrphanAnswered, SP!OrphanAnswered,
         S!Answered, SP!Answered, S!AnswerArrives, SP!AnswerArrives, S!RequestFails,
         SP!RequestFails, S!Navigate, SP!Navigate, S!Remount, SP!Remount, S!Server, SP!Server,
         S!Next, SP!Next, S!TypeOK, SP!TypeOK, S!SaveConstants, SP!SaveConstants, S!SavedIsTrue,
         SP!SavedIsTrue, S!Collections, SP!Collections, S!Spots, SP!Spots, S!TxIds, SP!TxIds,
         S!tables, SP!tables, S!libraryVars, SP!libraryVars, S!Unused, SP!Unused, S!Deleted,
         SP!Deleted, S!CollectionRecords, SP!CollectionRecords, S!NoSpot, SP!NoSpot, S!GoneSpot,
         SP!GoneSpot, S!SpotRecords, SP!SpotRecords, S!NoTx, SP!NoTx, S!Over, SP!Over,
         S!LibraryInit, SP!LibraryInit, S!AreFriends, SP!AreFriends, S!IsCollection,
         SP!IsCollection, S!IsSpot, SP!IsSpot, S!CollectionVisible, SP!CollectionVisible,
         S!SpotVisible, SP!SpotVisible, S!OwnedBy, SP!OwnedBy, S!SpotsIn, SP!SpotsIn, S!CopiesOf,
         SP!CopiesOf, S!SavedByMe, SP!SavedByMe, S!FreeTx, SP!FreeTx, S!NextTx, SP!NextTx,
         S!Begins, SP!Begins, S!At, SP!At, S!Answers, SP!Answers, S!GoesOn, SP!GoesOn, S!Refuses,
         SP!Refuses, S!Reads, SP!Reads, S!SpotVerdict, SP!SpotVerdict, S!CollectionVerdict,
         SP!CollectionVerdict, S!UnusedSpots, SP!UnusedSpots, S!UnusedCollections,
         SP!UnusedCollections, S!Insertable, SP!Insertable, S!Removed, SP!Removed, S!SpotsDeleted,
         SP!SpotsDeleted, S!CreateSpot, SP!CreateSpot, S!UpdateSpot, SP!UpdateSpot, S!DeleteSpot,
         SP!DeleteSpot, S!FlagOf, SP!FlagOf, S!CopyOf, SP!CopyOf, S!RecollectSpot,
         SP!RecollectSpot, S!UnrecollectSpot, SP!UnrecollectSpot, S!LikeSpot, SP!LikeSpot,
         S!UnlikeSpot, SP!UnlikeSpot, S!Inserted, SP!Inserted, S!CreateCollection,
         SP!CreateCollection, S!EnsureDefaultCollection, SP!EnsureDefaultCollection,
         S!UpdateCollection, SP!UpdateCollection, S!ReorderCollections, SP!ReorderCollections,
         S!DeleteCollection, SP!DeleteCollection, S!PostRecollect, SP!PostRecollect,
         S!DeleteRecollect, SP!DeleteRecollect, S!PostCollection, SP!PostCollection, S!Statement,
         SP!Statement, S!LibraryTypeOK, SP!LibraryTypeOK, S!RowsFit, SP!RowsFit,
         S!LibraryConstants, SP!LibraryConstants, S!OneCopyPerSpot, SP!OneCopyPerSpot, S!Min,
         SP!Min, S!Cardinality, SP!Cardinality, S!IsFiniteSet, SP!IsFiniteSet, S!Max, SP!Max,
         S!ToSet, SP!ToSet

SaveInv == part = "save" => SP!SaveInvariant

LEMMA SaveBegins == Init => SaveInv
  BY WebAssumption, SameSave, SP!SaveStarts DEF Init, SaveInv

LEMMA SaveStep ==
    ASSUME part = "save", [Next]_webVars
    PROVE  [SP!Next]_SP!vars
  BY SameSave DEF Next, webVars, libraryVars, saveVars, SP!vars, SP!libraryVars, SP!screenVars

LEMMA SaveKeep == ASSUME SaveInv, [Next]_webVars PROVE SaveInv'
  <1> SUFFICES ASSUME part = "save" PROVE SP!SaveInvariant'
    BY PartStays DEF SaveInv
  <1>1. SP!SaveConstants /\ SP!SaveInvariant /\ [SP!Next]_SP!vars
    BY WebAssumption, SameSave, SaveStep DEF SaveInv
  <1> QED BY <1>1, SP!SaveKeeps

-----------------------------------------------------------------------------
(* A card of the feed and its sheet.                                       *)

LEMMA SameCard ==
    /\ FC!CardConstants <=> PP!FC!CardConstants
    /\ FC!Init <=> PP!FC!Init
    /\ FC!Next <=> PP!FC!Next
    /\ FC!vars = PP!FC!vars
    /\ FC!TypeOK <=> PP!FC!TypeOK
    /\ FC!HeartIsTrue <=> PP!FC!HeartIsTrue
    /\ FC!SheetIsFree <=> PP!FC!SheetIsFree
  BY DEF FC!CardConstants, PP!FC!CardConstants, FC!cardVars, PP!FC!cardVars, FC!vars, PP!FC!vars,
          FC!Idle, PP!FC!Idle, FC!Init, PP!FC!Init, FC!DetailShown, PP!FC!DetailShown,
          FC!PhotoReached, PP!FC!PhotoReached, FC!HeartOffered, PP!FC!HeartOffered, FC!ToggleLike,
          PP!FC!ToggleLike, FC!Serve, PP!FC!Serve, FC!RolledBack, PP!FC!RolledBack, FC!Answered,
          PP!FC!Answered, FC!AnswerArrives, PP!FC!AnswerArrives, FC!RequestFails,
          PP!FC!RequestFails, FC!SpotLost, PP!FC!SpotLost, FC!OpenDetail, PP!FC!OpenDetail,
          FC!HandlePhotoTouchStart, PP!FC!HandlePhotoTouchStart, FC!HandlePhotoTouchMove,
          PP!FC!HandlePhotoTouchMove, FC!HandlePhotoActivate, PP!FC!HandlePhotoActivate,
          FC!FollowAuthor, PP!FC!FollowAuthor, FC!Next, PP!FC!Next, FC!TypeOK, PP!FC!TypeOK,
          FC!HeartIsTrue, PP!FC!HeartIsTrue, FC!sheetVars, PP!FC!sheetVars, FC!Drags, PP!FC!Drags,
          FC!SheetInit, PP!FC!SheetInit, FC!Effect, PP!FC!Effect, FC!Opened, PP!FC!Opened,
          FC!ClosedByParent, PP!FC!ClosedByParent, FC!ParentOpens, PP!FC!ParentOpens,
          FC!ParentCloses, PP!FC!ParentCloses, FC!MountFrame, PP!FC!MountFrame, FC!ShowFrame,
          PP!FC!ShowFrame, FC!HideFrame, PP!FC!HideFrame, FC!Timer, PP!FC!Timer, FC!RequestClose,
          PP!FC!RequestClose, FC!Dismiss, PP!FC!Dismiss, FC!PointerDown, PP!FC!PointerDown,
          FC!PointerMove, PP!FC!PointerMove, FC!ResetDrag, PP!FC!ResetDrag, FC!FinishDrag,
          PP!FC!FinishDrag, FC!PointerCancel, PP!FC!PointerCancel, FC!SheetNext, PP!FC!SheetNext,
          FC!SheetTypeOK, PP!FC!SheetTypeOK, FC!SheetIsFree, PP!FC!SheetIsFree

CardInv == part = "card" => PP!CardInvariant

LEMMA CardBegins == Init => CardInv
  BY WebAssumption, SameCard, PP!CardStarts DEF Init, CardInv

LEMMA CardStep ==
    ASSUME part = "card", [Next]_webVars
    PROVE  [PP!FC!Next]_PP!FC!vars
  BY SameCard DEF Next, webVars, cardVars, PP!FC!vars, PP!FC!sheetVars, PP!FC!cardVars

LEMMA CardKeep == ASSUME CardInv, [Next]_webVars PROVE CardInv'
  <1> SUFFICES ASSUME part = "card" PROVE PP!CardInvariant'
    BY PartStays DEF CardInv
  <1>1. PP!FC!CardConstants /\ PP!CardInvariant /\ [PP!FC!Next]_PP!FC!vars
    BY WebAssumption, SameCard, CardStep DEF CardInv
  <1> QED BY <1>1, PP!CardKeeps

-----------------------------------------------------------------------------
(* The search for users.                                                   *)

LEMMA SameSearch ==
    /\ FS!SearchConstants <=> PP!FS!SearchConstants
    /\ FS!Init <=> PP!FS!Init
    /\ FS!Next <=> PP!FS!Next
    /\ FS!vars = PP!FS!vars
    /\ FS!TypeOK <=> PP!FS!TypeOK
    /\ FS!SearchIsTrue <=> PP!FS!SearchIsTrue
  BY DEF FS!SearchConstants, PP!FS!SearchConstants, FS!vars, PP!FS!vars, FS!NoSearch,
          PP!FS!NoSearch, FS!Requests, PP!FS!Requests, FS!Init, PP!FS!Init, FS!Cancelled,
          PP!FS!Cancelled, FS!Cleared, PP!FS!Cleared, FS!HandleSearchQueryChange,
          PP!FS!HandleSearchQueryChange, FS!TimerFires, PP!FS!TimerFires, FS!SearchUsers,
          PP!FS!SearchUsers, FS!SearchFails, PP!FS!SearchFails, FS!Heard, PP!FS!Heard,
          FS!AnswerArrives, PP!FS!AnswerArrives, FS!Leave, PP!FS!Leave, FS!NamesChange,
          PP!FS!NamesChange, FS!Next, PP!FS!Next, FS!TypeOK, PP!FS!TypeOK, FS!Awaited,
          PP!FS!Awaited, FS!SearchIsTrue, PP!FS!SearchIsTrue

SearchInv == part = "search" => PP!SearchInvariant

LEMMA SearchBegins == Init => SearchInv
  BY WebAssumption, SameSearch, PP!SearchStarts DEF Init, SearchInv

LEMMA SearchStep ==
    ASSUME part = "search", [Next]_webVars
    PROVE  [PP!FS!Next]_PP!FS!vars
  BY SameSearch DEF Next, webVars, searchVars, PP!FS!vars

LEMMA SearchKeep == ASSUME SearchInv, [Next]_webVars PROVE SearchInv'
  <1> SUFFICES ASSUME part = "search" PROVE PP!SearchInvariant'
    BY PartStays DEF SearchInv
  <1>1. PP!FS!SearchConstants /\ PP!SearchInvariant /\ [PP!FS!Next]_PP!FS!vars
    BY WebAssumption, SameSearch, SearchStep DEF SearchInv
  <1> QED BY <1>1, PP!SearchKeeps

-----------------------------------------------------------------------------
(* The photo of a spot.                                                    *)

LEMMA SamePhoto ==
    /\ PI!PhotoConstants <=> PP!PI!PhotoConstants
    /\ PI!Init <=> PP!PI!Init
    /\ PI!Next <=> PP!PI!Next
    /\ PI!vars = PP!PI!vars
    /\ PI!TypeOK <=> PP!PI!TypeOK
    /\ PI!PhotoIsTrue <=> PP!PI!PhotoIsTrue
  BY DEF PI!Photos, PP!PI!Photos, PI!PhotoConstants, PP!PI!PhotoConstants, PI!Blobs, PP!PI!Blobs,
          PI!NoBlob, PP!PI!NoBlob, PI!vars, PP!PI!vars, PI!Hero, PP!PI!Hero, PI!LoadingState,
          PP!PI!LoadingState, PI!ErrorState, PP!PI!ErrorState, PI!Init, PP!PI!Init, PI!Active,
          PP!PI!Active, PI!Remains, PP!PI!Remains, PI!Revoked, PP!PI!Revoked, PI!Abandoned,
          PP!PI!Abandoned, PI!Started, PP!PI!Started, PI!SpotChanges, PP!PI!SpotChanges,
          PI!Responds, PP!PI!Responds, PI!Stops, PP!PI!Stops, PI!LoadFails, PP!PI!LoadFails,
          PI!BlobIsRead, PP!PI!BlobIsRead, PI!OnImageLoad, PP!PI!OnImageLoad, PI!OnImageError,
          PP!PI!OnImageError, PI!Next, PP!PI!Next, PI!TypeOK, PP!PI!TypeOK, PI!Loading,
          PP!PI!Loading, PI!PhotoIsTrue, PP!PI!PhotoIsTrue

PhotoInv == part = "photo" => PP!PhotoInvariant

LEMMA PhotoBegins == Init => PhotoInv
  BY WebAssumption, SamePhoto, PP!PhotoStarts DEF Init, PhotoInv

LEMMA PhotoStep ==
    ASSUME part = "photo", [Next]_webVars
    PROVE  [PP!PI!Next]_PP!PI!vars
  BY SamePhoto DEF Next, webVars, photoVars, PP!PI!vars

LEMMA PhotoKeep == ASSUME PhotoInv, [Next]_webVars PROVE PhotoInv'
  <1> SUFFICES ASSUME part = "photo" PROVE PP!PhotoInvariant'
    BY PartStays DEF PhotoInv
  <1>1. PP!PI!PhotoConstants /\ PP!PhotoInvariant /\ [PP!PI!Next]_PP!PI!vars
    BY WebAssumption, SamePhoto, PhotoStep DEF PhotoInv
  <1> QED BY <1>1, PP!PhotoKeeps

-----------------------------------------------------------------------------
(* The map of spots.                                                       *)

LEMMA SameMap ==
    /\ MV!Init <=> PP!MV!Init
    /\ MV!Next <=> PP!MV!Next
    /\ MV!vars = PP!MV!vars
    /\ MV!TypeOK <=> PP!MV!TypeOK
    /\ MV!MapIsHonest <=> PP!MV!MapIsHonest
  BY DEF MV!vars, PP!MV!vars, MV!NoMap, PP!MV!NoMap, MV!FreshMap, PP!MV!FreshMap, MV!NoFailure,
          PP!MV!NoFailure, MV!NothingLocated, PP!MV!NothingLocated, MV!NoPosition,
          PP!MV!NoPosition, MV!Hosts, PP!MV!Hosts, MV!Scripts, PP!MV!Scripts, MV!BadScripts,
          PP!MV!BadScripts, MV!Loading, PP!MV!Loading, MV!Markers, PP!MV!Markers, MV!Empty,
          PP!MV!Empty, MV!MapShown, PP!MV!MapShown, MV!ButtonShown, PP!MV!ButtonShown,
          MV!HandleMapsLoadError, PP!MV!HandleMapsLoadError, MV!TellsParent, PP!MV!TellsParent,
          MV!FitMapViewport, PP!MV!FitMapViewport, MV!PanMapToTarget, PP!MV!PanMapToTarget,
          MV!Aimed, PP!MV!Aimed, MV!MapMounts, PP!MV!MapMounts, MV!Rendered, PP!MV!Rendered,
          MV!UsePlaceLocations, PP!MV!UsePlaceLocations, MV!ItemsChange, PP!MV!ItemsChange,
          MV!LoadAllMySpots, PP!MV!LoadAllMySpots, MV!LoadFails, PP!MV!LoadFails, MV!Reload,
          PP!MV!Reload, MV!LocationsArrive, PP!MV!LocationsArrive, MV!LocationsFail,
          PP!MV!LocationsFail, MV!Breaks, PP!MV!Breaks, MV!ScriptLoads, PP!MV!ScriptLoads,
          MV!ScriptFails, PP!MV!ScriptFails, MV!AuthFailure, PP!MV!AuthFailure,
          MV!HandleWindowError, PP!MV!HandleWindowError, MV!InspectDom, PP!MV!InspectDom,
          MV!MapMade, PP!MV!MapMade, MV!TilesLoaded, PP!MV!TilesLoaded, MV!TilesTimeout,
          PP!MV!TilesTimeout, MV!HandleRetryMap, PP!MV!HandleRetryMap, MV!PanToLocation,
          PP!MV!PanToLocation, MV!HandleRequestCurrentLocation,
          PP!MV!HandleRequestCurrentLocation, MV!PositionFound, PP!MV!PositionFound,
          MV!PositionFails, PP!MV!PositionFails, MV!Drag, PP!MV!Drag, MV!Reopen, PP!MV!Reopen,
          MV!Init, PP!MV!Init, MV!Next, PP!MV!Next, MV!TypeOK, PP!MV!TypeOK, MV!MapIsHonest,
          PP!MV!MapIsHonest

MapInv == part = "map" => PP!MapInvariant

LEMMA MapBegins == Init => MapInv
  BY SameMap, PP!MapStarts DEF Init, MapInv

LEMMA MapStep ==
    ASSUME part = "map", [Next]_webVars
    PROVE  [PP!MV!Next]_PP!MV!vars
  BY SameMap DEF Next, webVars, mapVars, PP!MV!vars

LEMMA MapKeep == ASSUME MapInv, [Next]_webVars PROVE MapInv'
  <1> SUFFICES ASSUME part = "map" PROVE PP!MapInvariant'
    BY PartStays DEF MapInv
  <1>1. PP!MapInvariant /\ [PP!MV!Next]_PP!MV!vars
    BY SameMap, MapStep DEF MapInv
  <1> QED BY <1>1, PP!MapKeeps

-----------------------------------------------------------------------------
(* A tab from the entrance to the protected pages.                         *)

LEMMA SameSession ==
    /\ SE!SessionConstants <=> PP!SE!SessionConstants
    /\ SE!Init <=> PP!SE!Init
    /\ SE!Next <=> PP!SE!Next
    /\ SE!vars = PP!SE!vars
    /\ SE!TypeOK <=> PP!SE!TypeOK
    /\ SE!NeverStuck <=> PP!SE!NeverStuck
    /\ SE!OnlyTheirOwn <=> PP!SE!OnlyTheirOwn
  BY DEF SE!SessionConstants, PP!SE!SessionConstants, SE!vars, PP!SE!vars, SE!Entrances,
          PP!SE!Entrances, SE!Protected, PP!SE!Protected, SE!Pages, PP!SE!Pages, SE!Accounts,
          PP!SE!Accounts, SE!IsOnboardingComplete, PP!SE!IsOnboardingComplete, SE!Fresh,
          PP!SE!Fresh, SE!Ask, PP!SE!Ask, SE!Nothing, PP!SE!Nothing, SE!Init, PP!SE!Init,
          SE!Inside, PP!SE!Inside, SE!Ready, PP!SE!Ready, SE!Landing, PP!SE!Landing, SE!Deaf,
          PP!SE!Deaf, SE!Loads, PP!SE!Loads, SE!MoveTo, PP!SE!MoveTo, SE!SigningOut,
          PP!SE!SigningOut, SE!Goes, PP!SE!Goes, SE!Heard, PP!SE!Heard, SE!Browse, PP!SE!Browse,
          SE!Reload, PP!SE!Reload, SE!AuthStateReady, PP!SE!AuthStateReady, SE!Elsewhere,
          PP!SE!Elsewhere, SE!LoginReached, PP!SE!LoginReached, SE!SignupReached,
          PP!SE!SignupReached, SE!Submits, PP!SE!Submits, SE!HandleSignIn, PP!SE!HandleSignIn,
          SE!HandleSignUp, PP!SE!HandleSignUp, SE!SignedIn, PP!SE!SignedIn, SE!Provisioned,
          PP!SE!Provisioned, SE!SignInFails, PP!SE!SignInFails, SE!Logout, PP!SE!Logout,
          SE!SignedOut, PP!SE!SignedOut, SE!Failed, PP!SE!Failed, SE!GateLoads, PP!SE!GateLoads,
          SE!RetryGate, PP!SE!RetryGate, SE!FormLoads, PP!SE!FormLoads, SE!FormReached,
          PP!SE!FormReached, SE!HandleSubmit, PP!SE!HandleSubmit, SE!Created, PP!SE!Created,
          SE!TargetEnds, PP!SE!TargetEnds, SE!LoadFails, PP!SE!LoadFails, SE!MeArrives,
          PP!SE!MeArrives, SE!BadgesArrive, PP!SE!BadgesArrive, SE!Stashed, PP!SE!Stashed,
          SE!StashPendingRecommendation, PP!SE!StashPendingRecommendation,
          SE!StashPendingCollectionConsult, PP!SE!StashPendingCollectionConsult, SE!CommitPending,
          PP!SE!CommitPending, SE!Answered, PP!SE!Answered, SE!GetMe, PP!SE!GetMe,
          SE!ProvisionUser, PP!SE!ProvisionUser, SE!UpsertOnboardingUser,
          PP!SE!UpsertOnboardingUser, SE!EnsureDefaultCollection, PP!SE!EnsureDefaultCollection,
          SE!Next, PP!SE!Next, SE!TypeOK, PP!SE!TypeOK, SE!NeverStuck, PP!SE!NeverStuck,
          SE!OnlyTheirOwn, PP!SE!OnlyTheirOwn

SessionInv == part = "session" => PP!SessionInvariant

LEMMA SessionBegins == Init => SessionInv
  BY WebAssumption, SameSession, PP!SessionStarts DEF Init, SessionInv

LEMMA SessionStep ==
    ASSUME part = "session", [Next]_webVars
    PROVE  [PP!SE!Next]_PP!SE!vars
  BY SameSession DEF Next, webVars, sessionVars, viewVars, PP!SE!vars

LEMMA SessionKeep == ASSUME SessionInv, [Next]_webVars PROVE SessionInv'
  <1> SUFFICES ASSUME part = "session" PROVE PP!SessionInvariant'
    BY PartStays DEF SessionInv
  <1>1. PP!SE!SessionConstants /\ PP!SessionInvariant /\ [PP!SE!Next]_PP!SE!vars
    BY WebAssumption, SameSession, SessionStep DEF SessionInv
  <1> QED BY <1>1, PP!SessionKeeps

-----------------------------------------------------------------------------
(* The pages behind shared links.                                          *)

LEMMA SameShare ==
    /\ SH!LibraryConstants <=> PP!SH!LibraryConstants
    /\ SH!Init <=> PP!SH!Init
    /\ SH!Next <=> PP!SH!Next
    /\ SH!vars = PP!SH!vars
    /\ SH!TypeOK <=> PP!SH!TypeOK
    /\ SH!ShownWasDue <=> PP!SH!ShownWasDue
  <1>1. SH!LibraryConstants <=> PP!SH!LibraryConstants
    BY DEF SH!Collections, PP!SH!Collections, SH!Spots, PP!SH!Spots, SH!Unused, PP!SH!Unused,
           SH!Deleted, PP!SH!Deleted, SH!CollectionRecords, PP!SH!CollectionRecords, SH!NoSpot,
           PP!SH!NoSpot, SH!GoneSpot, PP!SH!GoneSpot, SH!SpotRecords, PP!SH!SpotRecords,
           SH!RowsFit, PP!SH!RowsFit, SH!LibraryConstants, PP!SH!LibraryConstants, SH!Cardinality,
           PP!SH!Cardinality, SH!IsFiniteSet, PP!SH!IsFiniteSet
  <1>2. SH!Init <=> PP!SH!Init
    BY DEF SH!Routes, PP!SH!Routes, SH!Access, PP!SH!Access, SH!Truth, PP!SH!Truth, SH!Blank,
           PP!SH!Blank, SH!Absent, PP!SH!Absent, SH!Load, PP!SH!Load, SH!Init, PP!SH!Init,
           SH!Collections, PP!SH!Collections, SH!Spots, PP!SH!Spots, SH!TxIds, PP!SH!TxIds,
           SH!NoTx, PP!SH!NoTx, SH!LibraryInit, PP!SH!LibraryInit, SH!AreFriends,
           PP!SH!AreFriends, SH!IsCollection, PP!SH!IsCollection, SH!IsSpot, PP!SH!IsSpot,
           SH!CollectionVisible, PP!SH!CollectionVisible, SH!SpotVisible, PP!SH!SpotVisible,
           SH!Gated, PP!SH!Gated, SH!CollectionGate, PP!SH!CollectionGate, SH!SpotGate,
           PP!SH!SpotGate, SH!UserGate, PP!SH!UserGate, SH!SpotDetail, PP!SH!SpotDetail,
           SH!Profile, PP!SH!Profile
  <1>3. SH!Next <=> PP!SH!Next
    <2>1. SH!Changes <=> PP!SH!Changes
      BY DEF SH!Access, PP!SH!Access, SH!Truth, PP!SH!Truth, SH!Changes, PP!SH!Changes,
             SH!Collections, PP!SH!Collections, SH!Spots, PP!SH!Spots, SH!TxIds, PP!SH!TxIds,
             SH!tables, PP!SH!tables, SH!Unused, PP!SH!Unused, SH!Deleted, PP!SH!Deleted,
             SH!NoSpot, PP!SH!NoSpot, SH!GoneSpot, PP!SH!GoneSpot, SH!NoTx, PP!SH!NoTx, SH!Over,
             PP!SH!Over, SH!AreFriends, PP!SH!AreFriends, SH!IsCollection, PP!SH!IsCollection,
             SH!IsSpot, PP!SH!IsSpot, SH!CollectionVisible, PP!SH!CollectionVisible,
             SH!SpotVisible, PP!SH!SpotVisible, SH!Gated, PP!SH!Gated, SH!CollectionGate,
             PP!SH!CollectionGate, SH!SpotGate, PP!SH!SpotGate, SH!UserGate, PP!SH!UserGate,
             SH!OwnedBy, PP!SH!OwnedBy, SH!SpotsIn, PP!SH!SpotsIn, SH!SpotDetail,
             PP!SH!SpotDetail, SH!Profile, PP!SH!Profile, SH!CopiesOf, PP!SH!CopiesOf,
             SH!SavedByMe, PP!SH!SavedByMe, SH!FreeTx, PP!SH!FreeTx, SH!NextTx, PP!SH!NextTx,
             SH!Begins, PP!SH!Begins, SH!At, PP!SH!At, SH!Answers, PP!SH!Answers, SH!GoesOn,
             PP!SH!GoesOn, SH!Refuses, PP!SH!Refuses, SH!Reads, PP!SH!Reads, SH!SpotVerdict,
             PP!SH!SpotVerdict, SH!CollectionVerdict, PP!SH!CollectionVerdict, SH!UnusedSpots,
             PP!SH!UnusedSpots, SH!UnusedCollections, PP!SH!UnusedCollections, SH!Insertable,
             PP!SH!Insertable, SH!Removed, PP!SH!Removed, SH!SpotsDeleted, PP!SH!SpotsDeleted,
             SH!CreateSpot, PP!SH!CreateSpot, SH!UpdateSpot, PP!SH!UpdateSpot, SH!DeleteSpot,
             PP!SH!DeleteSpot, SH!FlagOf, PP!SH!FlagOf, SH!CopyOf, PP!SH!CopyOf, SH!RecollectSpot,
             PP!SH!RecollectSpot, SH!UnrecollectSpot, PP!SH!UnrecollectSpot, SH!LikeSpot,
             PP!SH!LikeSpot, SH!UnlikeSpot, PP!SH!UnlikeSpot, SH!Inserted, PP!SH!Inserted,
             SH!CreateCollection, PP!SH!CreateCollection, SH!EnsureDefaultCollection,
             PP!SH!EnsureDefaultCollection, SH!UpdateCollection, PP!SH!UpdateCollection,
             SH!ReorderCollections, PP!SH!ReorderCollections, SH!DeleteCollection,
             PP!SH!DeleteCollection, SH!PostSpot, PP!SH!PostSpot, SH!PatchSpot, PP!SH!PatchSpot,
             SH!DeleteSpotRoute, PP!SH!DeleteSpotRoute, SH!PostRecollect, PP!SH!PostRecollect,
             SH!DeleteRecollect, PP!SH!DeleteRecollect, SH!PostLike, PP!SH!PostLike,
             SH!DeleteLike, PP!SH!DeleteLike, SH!PostCollection, PP!SH!PostCollection,
             SH!PatchCollection, PP!SH!PatchCollection, SH!PatchReorder, PP!SH!PatchReorder,
             SH!DeleteCollectionRoute, PP!SH!DeleteCollectionRoute, SH!PostOnboarding,
             PP!SH!PostOnboarding, SH!KnownSpots, PP!SH!KnownSpots, SH!KnownCollections,
             PP!SH!KnownCollections, SH!AnyCall, PP!SH!AnyCall, SH!Statement, PP!SH!Statement,
             SH!CircleChanges, PP!SH!CircleChanges, SH!LibraryNext, PP!SH!LibraryNext,
             SH!SetToSeqs, PP!SH!SetToSeqs, SH!Min, PP!SH!Min, SH!Max, PP!SH!Max, SH!Cardinality,
             PP!SH!Cardinality, SH!ToSet, PP!SH!ToSet, SH!IsInjective, PP!SH!IsInjective,
             SH!Range, PP!SH!Range, SH!Injection, PP!SH!Injection, SH!Bijection, PP!SH!Bijection,
             SH!IsFiniteSet, PP!SH!IsFiniteSet
    <2>2. SH!RefreshMe <=> PP!SH!RefreshMe
      BY DEF SH!Load, PP!SH!Load, SH!Cancel, PP!SH!Cancel, SH!RefreshMe, PP!SH!RefreshMe,
             SH!libraryVars, PP!SH!libraryVars
    <2>3. SH!HandleRequest <=> PP!SH!HandleRequest
      BY DEF SH!InnerShown, PP!SH!InnerShown, SH!CollectionShown, PP!SH!CollectionShown,
             SH!SpotShown, PP!SH!SpotShown, SH!ProfileShown, PP!SH!ProfileShown, SH!Shown,
             PP!SH!Shown, SH!HandleRequest, PP!SH!HandleRequest, SH!libraryVars, PP!SH!libraryVars
    <2>4. SH!RetryCollection <=> PP!SH!RetryCollection
      BY DEF SH!Load, PP!SH!Load, SH!Cancel, PP!SH!Cancel, SH!InnerShown, PP!SH!InnerShown,
             SH!CollectionShown, PP!SH!CollectionShown, SH!SpotShown, PP!SH!SpotShown,
             SH!ProfileShown, PP!SH!ProfileShown, SH!Shown, PP!SH!Shown, SH!Again, PP!SH!Again,
             SH!PageAgain, PP!SH!PageAgain, SH!RetryCollection, PP!SH!RetryCollection,
             SH!libraryVars, PP!SH!libraryVars
    <2>5. SH!RetrySpot <=> PP!SH!RetrySpot
      BY DEF SH!Load, PP!SH!Load, SH!Cancel, PP!SH!Cancel, SH!InnerShown, PP!SH!InnerShown,
             SH!CollectionShown, PP!SH!CollectionShown, SH!SpotShown, PP!SH!SpotShown,
             SH!ProfileShown, PP!SH!ProfileShown, SH!Shown, PP!SH!Shown, SH!Again, PP!SH!Again,
             SH!PageAgain, PP!SH!PageAgain, SH!RetrySpot, PP!SH!RetrySpot, SH!libraryVars,
             PP!SH!libraryVars
    <2>6. SH!RetryProfile <=> PP!SH!RetryProfile
      BY DEF SH!Load, PP!SH!Load, SH!Cancel, PP!SH!Cancel, SH!InnerShown, PP!SH!InnerShown,
             SH!CollectionShown, PP!SH!CollectionShown, SH!SpotShown, PP!SH!SpotShown,
             SH!ProfileShown, PP!SH!ProfileShown, SH!Shown, PP!SH!Shown, SH!Again, PP!SH!Again,
             SH!PageAgain, PP!SH!PageAgain, SH!RetryProfile, PP!SH!RetryProfile, SH!libraryVars,
             PP!SH!libraryVars
    <2>7. SH!RetryInner <=> PP!SH!RetryInner
      BY DEF SH!Load, PP!SH!Load, SH!Cancel, PP!SH!Cancel, SH!InnerShown, PP!SH!InnerShown,
             SH!CollectionShown, PP!SH!CollectionShown, SH!SpotShown, PP!SH!SpotShown,
             SH!ProfileShown, PP!SH!ProfileShown, SH!Shown, PP!SH!Shown, SH!Again, PP!SH!Again,
             SH!RetryInner, PP!SH!RetryInner, SH!libraryVars, PP!SH!libraryVars
    <2>8. \A ok \in BOOLEAN : SH!MeArrives(ok) <=> PP!SH!MeArrives(ok)
      BY DEF SH!Load, PP!SH!Load, SH!WaitsForMe, PP!SH!WaitsForMe, SH!MeArrives, PP!SH!MeArrives,
             SH!libraryVars, PP!SH!libraryVars
    <2>9. \A ok \in BOOLEAN : SH!RequestEnds(ok) <=> PP!SH!RequestEnds(ok)
      BY DEF SH!RequestEnds, PP!SH!RequestEnds, SH!libraryVars, PP!SH!libraryVars
    <2>10. \A r \in SH!Routes : SH!Navigate(r) <=> PP!SH!Navigate(r)
      BY DEF SH!Routes, PP!SH!Routes, SH!Access, PP!SH!Access, SH!Truth, PP!SH!Truth, SH!Blank,
             PP!SH!Blank, SH!Absent, PP!SH!Absent, SH!Load, PP!SH!Load, SH!Cancel, PP!SH!Cancel,
             SH!WaitsForMe, PP!SH!WaitsForMe, SH!Entered, PP!SH!Entered, SH!Navigate,
             PP!SH!Navigate, SH!Collections, PP!SH!Collections, SH!Spots, PP!SH!Spots,
             SH!libraryVars, PP!SH!libraryVars, SH!AreFriends, PP!SH!AreFriends, SH!IsCollection,
             PP!SH!IsCollection, SH!IsSpot, PP!SH!IsSpot, SH!CollectionVisible,
             PP!SH!CollectionVisible, SH!SpotVisible, PP!SH!SpotVisible, SH!Gated, PP!SH!Gated,
             SH!CollectionGate, PP!SH!CollectionGate, SH!SpotGate, PP!SH!SpotGate, SH!UserGate,
             PP!SH!UserGate, SH!SpotDetail, PP!SH!SpotDetail, SH!Profile, PP!SH!Profile
    <2>11. \A l \in loads : SH!LoadCollectionPage(l) <=> PP!SH!LoadCollectionPage(l)
      BY DEF SH!Access, PP!SH!Access, SH!Truth, PP!SH!Truth, SH!Goes, PP!SH!Goes, SH!Sees,
             PP!SH!Sees, SH!Asked, PP!SH!Asked, SH!OrGate, PP!SH!OrGate, SH!LoadCollectionPage,
             PP!SH!LoadCollectionPage, SH!Collections, PP!SH!Collections, SH!Spots, PP!SH!Spots,
             SH!libraryVars, PP!SH!libraryVars, SH!AreFriends, PP!SH!AreFriends, SH!IsCollection,
             PP!SH!IsCollection, SH!IsSpot, PP!SH!IsSpot, SH!CollectionVisible,
             PP!SH!CollectionVisible, SH!SpotVisible, PP!SH!SpotVisible, SH!Gated, PP!SH!Gated,
             SH!CollectionGate, PP!SH!CollectionGate, SH!SpotGate, PP!SH!SpotGate, SH!UserGate,
             PP!SH!UserGate, SH!SpotDetail, PP!SH!SpotDetail, SH!Profile, PP!SH!Profile
    <2>12. \A l \in loads : SH!LoadSpotPage(l) <=> PP!SH!LoadSpotPage(l)
      BY DEF SH!Access, PP!SH!Access, SH!Truth, PP!SH!Truth, SH!Goes, PP!SH!Goes, SH!Sees,
             PP!SH!Sees, SH!Asked, PP!SH!Asked, SH!OrGate, PP!SH!OrGate, SH!LoadSpotPage,
             PP!SH!LoadSpotPage, SH!Collections, PP!SH!Collections, SH!Spots, PP!SH!Spots,
             SH!libraryVars, PP!SH!libraryVars, SH!AreFriends, PP!SH!AreFriends, SH!IsCollection,
             PP!SH!IsCollection, SH!IsSpot, PP!SH!IsSpot, SH!CollectionVisible,
             PP!SH!CollectionVisible, SH!SpotVisible, PP!SH!SpotVisible, SH!Gated, PP!SH!Gated,
             SH!CollectionGate, PP!SH!CollectionGate, SH!SpotGate, PP!SH!SpotGate, SH!UserGate,
             PP!SH!UserGate, SH!SpotDetail, PP!SH!SpotDetail, SH!Profile, PP!SH!Profile
    <2>13. \A l \in loads : SH!FetchFriendProfile(l) <=> PP!SH!FetchFriendProfile(l)
      BY DEF SH!Access, PP!SH!Access, SH!Truth, PP!SH!Truth, SH!Goes, PP!SH!Goes, SH!Sees,
             PP!SH!Sees, SH!Asked, PP!SH!Asked, SH!OrGate, PP!SH!OrGate, SH!FetchFriendProfile,
             PP!SH!FetchFriendProfile, SH!Collections, PP!SH!Collections, SH!Spots, PP!SH!Spots,
             SH!libraryVars, PP!SH!libraryVars, SH!AreFriends, PP!SH!AreFriends, SH!IsCollection,
             PP!SH!IsCollection, SH!IsSpot, PP!SH!IsSpot, SH!CollectionVisible,
             PP!SH!CollectionVisible, SH!SpotVisible, PP!SH!SpotVisible, SH!Gated, PP!SH!Gated,
             SH!CollectionGate, PP!SH!CollectionGate, SH!SpotGate, PP!SH!SpotGate, SH!UserGate,
             PP!SH!UserGate, SH!SpotDetail, PP!SH!SpotDetail, SH!Profile, PP!SH!Profile
    <2>14. \A l \in loads : SH!ListFriendCollections(l) <=> PP!SH!ListFriendCollections(l)
      BY DEF SH!Goes, PP!SH!Goes, SH!ListFriendCollections, PP!SH!ListFriendCollections,
             SH!libraryVars, PP!SH!libraryVars
    <2>15. \A l \in loads : SH!GetCollectionDetail(l) <=> PP!SH!GetCollectionDetail(l)
      BY DEF SH!Access, PP!SH!Access, SH!Truth, PP!SH!Truth, SH!Goes, PP!SH!Goes, SH!Sees,
             PP!SH!Sees, SH!Asked, PP!SH!Asked, SH!GetCollectionDetail, PP!SH!GetCollectionDetail,
             SH!Collections, PP!SH!Collections, SH!Spots, PP!SH!Spots, SH!libraryVars,
             PP!SH!libraryVars, SH!AreFriends, PP!SH!AreFriends, SH!IsCollection,
             PP!SH!IsCollection, SH!IsSpot, PP!SH!IsSpot, SH!CollectionVisible,
             PP!SH!CollectionVisible, SH!SpotVisible, PP!SH!SpotVisible, SH!Gated, PP!SH!Gated,
             SH!CollectionGate, PP!SH!CollectionGate, SH!SpotGate, PP!SH!SpotGate, SH!UserGate,
             PP!SH!UserGate, SH!SpotDetail, PP!SH!SpotDetail, SH!Profile, PP!SH!Profile
    <2>16. \A l \in loads : SH!GetCollectionGate(l) <=> PP!SH!GetCollectionGate(l)
      BY DEF SH!Goes, PP!SH!Goes, SH!Gate, PP!SH!Gate, SH!GetCollectionGate,
             PP!SH!GetCollectionGate, SH!Collections, PP!SH!Collections, SH!libraryVars,
             PP!SH!libraryVars, SH!AreFriends, PP!SH!AreFriends, SH!IsCollection,
             PP!SH!IsCollection, SH!Gated, PP!SH!Gated, SH!CollectionGate, PP!SH!CollectionGate
    <2>17. \A l \in loads : SH!GetSpotGate(l) <=> PP!SH!GetSpotGate(l)
      BY DEF SH!Goes, PP!SH!Goes, SH!Gate, PP!SH!Gate, SH!GetSpotGate, PP!SH!GetSpotGate,
             SH!Collections, PP!SH!Collections, SH!Spots, PP!SH!Spots, SH!libraryVars,
             PP!SH!libraryVars, SH!AreFriends, PP!SH!AreFriends, SH!IsCollection,
             PP!SH!IsCollection, SH!IsSpot, PP!SH!IsSpot, SH!Gated, PP!SH!Gated, SH!SpotGate,
             PP!SH!SpotGate
    <2>18. \A l \in loads : SH!GetUserGate(l) <=> PP!SH!GetUserGate(l)
      BY DEF SH!Goes, PP!SH!Goes, SH!Gate, PP!SH!Gate, SH!GetUserGate, PP!SH!GetUserGate,
             SH!libraryVars, PP!SH!libraryVars, SH!AreFriends, PP!SH!AreFriends, SH!UserGate,
             PP!SH!UserGate
    <2>19. \A l \in loads : SH!Arrives(l) <=> PP!SH!Arrives(l)
      BY DEF SH!Blank, PP!SH!Blank, SH!Absent, PP!SH!Absent, SH!Load, PP!SH!Load, SH!Heard,
             PP!SH!Heard, SH!Cancel, PP!SH!Cancel, SH!CollectionPageLoads,
             PP!SH!CollectionPageLoads, SH!PageLoads, PP!SH!PageLoads, SH!SpotPageLoads,
             PP!SH!SpotPageLoads, SH!ProfileLoads, PP!SH!ProfileLoads, SH!InnerLoads,
             PP!SH!InnerLoads, SH!Arrives, PP!SH!Arrives, SH!libraryVars, PP!SH!libraryVars
    <2>20. \A l \in loads : SH!LoadFails(l) <=> PP!SH!LoadFails(l)
      BY DEF SH!Heard, PP!SH!Heard, SH!Failed, PP!SH!Failed, SH!LoadFails, PP!SH!LoadFails,
             SH!libraryVars, PP!SH!libraryVars
    <2>21. SH!Routes = PP!SH!Routes
      BY DEF SH!Routes, PP!SH!Routes, SH!Collections, PP!SH!Collections, SH!Spots, PP!SH!Spots
    <2> QED BY ONLY <2>1, <2>2, <2>3, <2>4, <2>5, <2>6, <2>7, <2>8, <2>9, <2>10, <2>11, <2>12,
             <2>13, <2>14, <2>15, <2>16, <2>17, <2>18, <2>19, <2>20, <2>21 DEF SH!Next,
             PP!SH!Next
  <1>4. SH!vars = PP!SH!vars
    BY DEF SH!shareVars, PP!SH!shareVars, SH!vars, PP!SH!vars, SH!libraryVars, PP!SH!libraryVars
  <1>5. SH!TypeOK <=> PP!SH!TypeOK
    BY DEF SH!Routes, PP!SH!Routes, SH!TypeOK, PP!SH!TypeOK, SH!Collections, PP!SH!Collections,
           SH!Spots, PP!SH!Spots, SH!TxIds, PP!SH!TxIds, SH!Unused, PP!SH!Unused, SH!Deleted,
           PP!SH!Deleted, SH!CollectionRecords, PP!SH!CollectionRecords, SH!NoSpot, PP!SH!NoSpot,
           SH!GoneSpot, PP!SH!GoneSpot, SH!SpotRecords, PP!SH!SpotRecords, SH!LibraryTypeOK,
           PP!SH!LibraryTypeOK, SH!Cardinality, PP!SH!Cardinality, SH!IsFiniteSet,
           PP!SH!IsFiniteSet
  <1>6. SH!ShownWasDue <=> PP!SH!ShownWasDue
    BY DEF SH!InnerShown, PP!SH!InnerShown, SH!CollectionShown, PP!SH!CollectionShown,
           SH!SpotShown, PP!SH!SpotShown, SH!ProfileShown, PP!SH!ProfileShown, SH!Shown,
           PP!SH!Shown, SH!ShownWasDue, PP!SH!ShownWasDue
  <1> QED BY ONLY <1>1, <1>2, <1>3, <1>4, <1>5, <1>6

ShareInv == part = "share" => PP!ShareInvariant

LEMMA ShareBegins == Init => ShareInv
  BY WebAssumption, SameShare, PP!ShareStarts DEF Init, ShareInv

LEMMA ShareStep ==
    ASSUME part = "share", [Next]_webVars
    PROVE  [PP!SH!Next]_PP!SH!vars
  BY SameShare DEF Next, webVars, shareVars, libraryVars, PP!SH!vars, PP!SH!libraryVars, PP!SH!shareVars

LEMMA ShareKeep == ASSUME ShareInv, [Next]_webVars PROVE ShareInv'
  <1> SUFFICES ASSUME part = "share" PROVE PP!ShareInvariant'
    BY PartStays DEF ShareInv
  <1>1. PP!SH!LibraryConstants /\ PP!ShareInvariant /\ [PP!SH!Next]_PP!SH!vars
    BY WebAssumption, SameShare, ShareStep DEF ShareInv
  <1> QED BY <1>1, PP!ShareKeeps

-----------------------------------------------------------------------------
(* The budget notifier.                                                    *)

LEMMA SameBudget ==
    /\ BN!BudgetConstants <=> PP!BN!BudgetConstants
    /\ BN!Init <=> PP!BN!Init
    /\ BN!Next <=> PP!BN!Next
    /\ BN!vars = PP!BN!vars
    /\ BN!TypeOK <=> PP!BN!TypeOK
    /\ BN!BudgetIsTold <=> PP!BN!BudgetIsTold
  BY DEF BN!Null, PP!BN!Null, BN!Levels, PP!BN!Levels, BN!Contents, PP!BN!Contents,
          BN!BudgetConstants, PP!BN!BudgetConstants, BN!vars, PP!BN!vars, BN!Marks, PP!BN!Marks,
          BN!NothingSent, PP!BN!NothingSent, BN!Idle, PP!BN!Idle, BN!At, PP!BN!At, BN!MessageOf,
          PP!BN!MessageOf, BN!PeriodOf, PP!BN!PeriodOf, BN!Works, PP!BN!Works, BN!Init,
          PP!BN!Init, BN!Ends, PP!BN!Ends, BN!Acked, PP!BN!Acked, BN!Skipped, PP!BN!Skipped,
          BN!Overlaps, PP!BN!Overlaps, BN!Deliver, PP!BN!Deliver, BN!Raised, PP!BN!Raised,
          BN!EvaluateNotification, PP!BN!EvaluateNotification, BN!PostToSlack, PP!BN!PostToSlack,
          BN!Unrecorded, PP!BN!Unrecorded, BN!PostIsLost, PP!BN!PostIsLost, BN!Saved, PP!BN!Saved,
          BN!CommitDedupeState, PP!BN!CommitDedupeState, BN!CommitIsLost, PP!BN!CommitIsLost,
          BN!Failed, PP!BN!Failed, BN!Fails, PP!BN!Fails, BN!Next, PP!BN!Next, BN!TypeOK,
          PP!BN!TypeOK, BN!Posted, PP!BN!Posted, BN!ActualPosted, PP!BN!ActualPosted,
          BN!ForecastPosted, PP!BN!ForecastPosted, BN!AnsweredIsPosted, PP!BN!AnsweredIsPosted,
          BN!NothingTwice, PP!BN!NothingTwice, BN!BudgetIsTold, PP!BN!BudgetIsTold

BudgetInv == part = "budget" => PP!BudgetInvariant

LEMMA BudgetBegins == Init => BudgetInv
  BY WebAssumption, SameBudget, PP!BudgetStarts DEF Init, BudgetInv

LEMMA BudgetStep ==
    ASSUME part = "budget", [Next]_webVars
    PROVE  [PP!BN!Next]_PP!BN!vars
  BY SameBudget DEF Next, webVars, budgetVars, PP!BN!vars

LEMMA BudgetKeep == ASSUME BudgetInv, [Next]_webVars PROVE BudgetInv'
  <1> SUFFICES ASSUME part = "budget" PROVE PP!BudgetInvariant'
    BY PartStays DEF BudgetInv
  <1>1. PP!BN!BudgetConstants /\ PP!BudgetInvariant /\ [PP!BN!Next]_PP!BN!vars
    BY WebAssumption, SameBudget, BudgetStep DEF BudgetInv
  <1> QED BY <1>1, PP!BudgetKeeps

\* dedupe.js: "prefer a rare duplicate over a lost cost alert".  A message that the function
\* answered without an error was posted or had been told, whatever requests overlap, fail
\* or lose an answer; and a period whose requests do not overlap is told nothing twice.
THEOREM BudgetsAreTold == Spec => []BudgetIsTold
  <1>1. BudgetInv => BudgetIsTold
    BY SameBudget DEF BudgetInv, BudgetIsTold, PP!BudgetInvariant
  <1> QED BY <1>1, BudgetBegins, BudgetKeep, PTL DEF Spec

-----------------------------------------------------------------------------
(* What is shown, and the types.                                           *)

\* The parts that are proved; of the others, what MCWeb says stays with TLC.
ProvedParts ==
    {"friends", "library", "save", "card", "session", "map", "share", "search", "photo",
     "budget"}
ProvedScreens == {"save", "card", "session", "map", "share", "search", "photo"}

ProvedInv ==
    /\ FriendsInv /\ LibraryInv /\ SaveInv /\ CardInv /\ SessionInv /\ ShareInv
    /\ MapInv /\ SearchInv /\ PhotoInv /\ BudgetInv

LEMMA ProvedHolds == Spec => []ProvedInv
  BY FriendsStart, FriendsKeep, LibraryBegins, LibraryKeep, SaveBegins, SaveKeep, CardBegins,
     CardKeep, SessionBegins, SessionKeep, ShareBegins, ShareKeep, MapBegins, MapKeep,
     SearchBegins, SearchKeep, PhotoBegins, PhotoKeep, BudgetBegins, BudgetKeep,
     PTL DEF Spec, ProvedInv

\* What a save button shows as saved is saved, once; the heart of a card shows what it asked
\* for or the server said, the list of a search what the query found, the image of a spot a
\* blob of its photo, the map what it was given, a shared page what was due since it was
\* opened, and a tab the profile of whoever is signed in; and no spinner, sheet or redirect
\* outlasts what it waits for.
THEOREM ScreensProved == Spec => [](part \in ProvedScreens => ScreensAreTrue)
  <1>1. ASSUME ProvedInv PROVE part \in ProvedScreens => ScreensAreTrue
    <2>1. part = "save" => S!SavedIsTrue
      BY <1>1, WebAssumption, SameSave, SP!SaveShown DEF SaveInv, ProvedInv
    <2>2. part = "card" => FC!HeartIsTrue /\ FC!SheetIsFree
      BY <1>1, WebAssumption, SameCard, PP!CardHolds DEF ProvedInv, CardInv
    <2>3. part = "search" => FS!SearchIsTrue
      BY <1>1, SameSearch DEF ProvedInv, SearchInv, PP!SearchInvariant
    <2>4. part = "photo" => PI!PhotoIsTrue
      BY <1>1, WebAssumption, SamePhoto, PP!PhotoIsSettled DEF ProvedInv, PhotoInv
    <2>5. part = "session" => SE!NeverStuck /\ SE!OnlyTheirOwn
      BY <1>1, SameSession, PP!SessionHolds DEF ProvedInv, SessionInv
    <2>6. part = "map" => MV!MapIsHonest
      BY <1>1, SameMap, PP!MapIsTrue DEF ProvedInv, MapInv
    <2>7. part = "share" => SH!ShownWasDue
      BY <1>1, SameShare, PP!ShareHolds DEF ProvedInv, ShareInv
    <2> QED BY <2>1, <2>2, <2>3, <2>4, <2>5, <2>6, <2>7 DEF ScreensAreTrue, ProvedScreens
  <1> QED BY <1>1, ProvedHolds, PTL

\* The values of the variables of these parts.
THEOREM TypesProved == Spec => [](part \in ProvedParts => WebTypeOK)
  <1>1. ASSUME ProvedInv PROVE part \in ProvedParts => WebTypeOK
    <2>1. part = "save" => S!TypeOK
      BY <1>1, WebAssumption, SameSave, SP!SaveShown DEF SaveInv, ProvedInv
    <2>2. part = "library" => L!LibraryTypeOK
      BY <1>1, SameLibrary
      DEF ProvedInv, LibraryInv, LP!LibraryInvariant, LP!TablesFit, LP!Shaped, LP!Under, LP!IsTx,
          LP!LibraryTypeOK
    <2>3. part = "card" => FC!TypeOK
      BY <1>1, WebAssumption, SameCard, PP!CardHolds DEF ProvedInv, CardInv
    <2>4. part = "search" => FS!TypeOK
      BY <1>1, SameSearch DEF ProvedInv, SearchInv, PP!SearchInvariant
    <2>5. part = "photo" => PI!TypeOK
      BY <1>1, SamePhoto DEF ProvedInv, PhotoInv, PP!PhotoInvariant
    <2>6. part = "budget" => BN!TypeOK
      BY <1>1, SameBudget DEF ProvedInv, BudgetInv, PP!BudgetInvariant
    <2>7. part = "session" => SE!TypeOK
      BY <1>1, SameSession, PP!SessionHolds DEF ProvedInv, SessionInv
    <2>8. part = "map" => MV!TypeOK
      BY <1>1, SameMap, PP!MapIsTrue DEF ProvedInv, MapInv
    <2>9. part = "share" => SH!TypeOK
      BY <1>1, SameShare, PP!ShareHolds DEF ProvedInv, ShareInv
    <2>10. part = "friends" => F!TypeOK
      BY <1>1, SameFriends, PP!FriendsFit DEF ProvedInv, FriendsInv
    <2> QED BY <2>1, <2>2, <2>3, <2>4, <2>5, <2>6, <2>7, <2>8, <2>9, <2>10
      DEF WebTypeOK, ProvedParts
  <1> QED BY <1>1, ProvedHolds, PTL
=============================================================================
