---------------------------- MODULE CloudBroadcast ----------------------------
(***************************************************************************)
(* The cloud control server implements the specification Broadcast.  The   *)
(* number of a message is that of the frame it came with: one that waits    *)
(* to be handed to the hub is still to come, one that is handed over or was *)
(* dropped is not.                                                          *)
(***************************************************************************)
EXTENDS Cloud

NextNumber ==
    [c \in Conn |-> IF pending[c] = None THEN frames[c] + 1 ELSE frames[c]]

B == INSTANCE Broadcast WITH next <- NextNumber, waiting <- Range(todo)

\* Whatever the goroutines of the connections and the hub do, in whatever order,
\* is a behaviour of Broadcast: logins and evictions, forced logins and late
\* registrations never mix up, duplicate or echo messages, and no channel is
\* closed in the middle of a message's way.
ImplementsBroadcast == B!Spec
=============================================================================
