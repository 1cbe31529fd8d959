------------------------------- MODULE MCCloud -------------------------------
(***************************************************************************)
(* Three small instances of Cloud.  Every bound is named here or in the    *)
(* cfg: how many frames a peer sends, which kinds, with which "to", which  *)
(* other events happen to its connection, and the channel capacity.        *)
(***************************************************************************)
EXTENDS CloudBroadcast, TLC

CONSTANTS c1, c2, c3, c4, ann, bob, cyd, math, art

To(head, sep, tail) == [head |-> head, sep |-> sep, tail |-> tail]
ToAll == To(<<"A">>, "none", {})

(***************************************************************************)
(* Relogin: one user opens two connections, for two units, while two       *)
(* students are in the first unit, so that a message has two receivers:    *)
(* one of them may be evicted or drop out while it is on its way.          *)
(***************************************************************************)
ReloginIdOf == (c1 :> ann) @@ (c2 :> ann) @@ (c3 :> bob) @@ (c4 :> cyd)
ReloginUnitOf == (c1 :> math) @@ (c2 :> art) @@ (c3 :> math) @@ (c4 :> math)
ReloginKindOf ==
    (c1 :> "teacher") @@ (c2 :> "guest") @@ (c3 :> "student") @@ (c4 :> "student")
ReloginFrames == (c1 :> 1) @@ (c2 :> 0) @@ (c3 :> 1) @@ (c4 :> 0)
ReloginEvents == (c1 :> {"drop"}) @@ (c2 :> {}) @@ (c3 :> {"timeout"}) @@ (c4 :> {})
ReloginTos == {NoTo, ToAll}

(***************************************************************************)
(* Room: a teacher and a device in one unit, all kinds of messages, and    *)
(* all shapes of the field "to".                                           *)
(***************************************************************************)
RoomIdOf == (c1 :> ann) @@ (c2 :> bob)
RoomUnitOf == (c1 :> math) @@ (c2 :> math)
RoomKindOf == (c1 :> "teacher") @@ (c2 :> "device")
RoomFrames == (c1 :> 2) @@ (c2 :> 1)
RoomEvents == (c1 :> {"timeout", "drop"}) @@ (c2 :> {"timeout"})
RoomTos == {NoTo, ToAll, To(<<"T">>, "none", {bob}), To(<<"T", "D">>, "|", {}),
            To(<<bob>>, "none", {}), To(<<ann, bob>>, ",", {})}

(***************************************************************************)
(* Live: a listener who stays silent and whose peer may stop answering     *)
(* pings, and a student who sends more than the listener's channel holds.  *)
(***************************************************************************)
LiveKindOf == (c1 :> "teacher") @@ (c2 :> "student")
LiveFrames == (c1 :> 0) @@ (c2 :> 2)
LiveEvents == (c1 :> {"timeout", "ping"}) @@ (c2 :> {"timeout"})
LiveTos == {NoTo, ToAll}
=============================================================================
