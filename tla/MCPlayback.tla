----------------------------- MODULE MCPlayback -----------------------------
(***************************************************************************)
(* Playback on four files: closed; left by a crash, with packets behind    *)
(* its blobs; with a damaged blob; and a 3DS file as its recorder writes   *)
(* it.                                                                     *)
(***************************************************************************)
EXTENDS Playback

Short == <<Key(0, 0), Other, Frame, Frame>>
First == <<Key(0, 0), Other, Delta(0, 1, 0), Frame, Delta(1, 2, 1), Frame, Delta(2, 3, 2)>>
Second == <<Key(2, 3), Frame, Delta(3, 4, 3), Frame>>
Third == <<Key(4, 5), Frame, Delta(5, 6, 5), Other, Key(5, 7)>>

Closed == <<Blob(First, 7, TRUE), Blob(Second, 4, FALSE), Blob(Third, 5, TRUE)>>
Crashed == <<Blob(First, 7, FALSE), Blob(Second, 4, TRUE)>> \o Third \o <<Frame, Other>>
Damaged == <<Blob(Short, 4, TRUE), Blob(Second, 2, TRUE), Blob(Third, 5, TRUE)>>
Console3DS == RecordedStored(4, {3}, <<3, 1>>)

TheFiles == {Closed, Crashed, Damaged, Console3DS}
OneOrTwo == <<1, 2>>
=============================================================================
