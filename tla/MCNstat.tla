------------------------------- MODULE MCNstat -------------------------------
(***************************************************************************)
(* Instances of Nstat: three logs, channels of one item, batches of two.   *)
(* Contents lets all types of messages and both errors occur, a few at a   *)
(* time.                                                                   *)
(***************************************************************************)
EXTENDS Nstat, TLC

CONSTANTS ann, x

Msg(mtype, act, num, valid) ==
    [mtype |-> mtype, act |-> act, uid |-> ann, sid |-> x, num |-> num, valid |-> valid,
     dated |-> TRUE]
Good(mtype, act) == Msg(mtype, act, 2, TRUE)
Undated(log) == [log EXCEPT !.dated = FALSE]

SmallContents ==
    {<<Good("userBind", "add"), Good("userBind", "del"), Good("login", "")>>,
     <<Good("courseware", "add"), Msg("order", "done", 0, FALSE), Good("courseware", "del")>>,
     <<Good("course", "add"), Good("courseUser", ""), Good("course", "del")>>,
     <<Nil, Good("order", "add"), Good("order", "done")>>,
     <<Undated(Good("course", "")), Good("login", ""), Undated(Good("order", "add"))>>}
SmallRosters == {{}, {ann}}
=============================================================================
