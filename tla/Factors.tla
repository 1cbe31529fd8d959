------------------------------- MODULE Factors -------------------------------
(***************************************************************************)
(* What the statistics pipeline counts: processor.handle turns one log     *)
(* message into factors, each of which adds a value to one counter of the  *)
(* statistics service.  src/nstat/processor.go, protocol/struct.go.        *)
(*                                                                         *)
(* Organisation, subkey and date are the same in all factors of a message  *)
(* and left out.  The factors of one message go to different counters, so  *)
(* they are a set.                                                         *)
(***************************************************************************)
EXTENDS Integers, FiniteSets

CONSTANTS
    Uid,     \* users
    Sid,     \* what a counter is divided by: districts, file types, courses
    Nil      \* a message that is no JSON object; the sid of an undivided counter

Mtype == {"userBind", "login", "course", "courseUser", "courseware", "order"}

Stype == {"user", "newUser", "login", "loginDistrict", "loginTeacher",
          "loginStudent", "course", "courseUser", "ratingCourse", "courseware",
          "sizeCourseware", "coursewareType", "sizeCoursewareType", "order",
          "incomeOrder", "incomeNewOrder"}

\* valid: the ip address is in the database, or the number is one; dated: the
\* message has a created_at.
LogMsg == [mtype : Mtype, act : {"add", "del", "done", ""}, uid : Uid, sid : Sid,
           num : Nat, valid : BOOLEAN, dated : BOOLEAN]

\* In the code an order is divided by the texts "1" (created) and "2" (paid).
StatFactor == [stype : Stype, sid : Sid \cup {Nil, "created", "paid"}, value : Int]

Factor(stype, sid, value) == [stype |-> stype, sid |-> sid, value |-> value]

\* Mutant: the deleted courseware's type is not counted down.
CoursewareFactorsAddOnly(log, sign) ==
    {Factor("courseware", Nil, sign), Factor("sizeCourseware", Nil, sign * log.num),
     Factor("coursewareType", log.sid, 1),
     Factor("sizeCoursewareType", log.sid, sign * log.num)}

CoursewareFactors(log, sign) ==
    {Factor("courseware", Nil, sign), Factor("sizeCourseware", Nil, sign * log.num),
     Factor("coursewareType", log.sid, sign),
     Factor("sizeCoursewareType", log.sid, sign * log.num)}

LoginFactors(log, teachers) ==
    {Factor("login", Nil, 1), Factor("loginDistrict", log.sid, 1),
     Factor(IF log.uid \in teachers THEN "loginTeacher" ELSE "loginStudent", Nil, 1)}

OrderFactors(log) ==
    IF log.act = "add"
      THEN {Factor("order", "created", 1)}
      ELSE {Factor("order", "paid", 1), Factor("incomeOrder", Nil, log.num),
            Factor("incomeNewOrder", Nil, log.num)}

\* processor.handle without its error.  teachers is the cache's set.
FactorsOf(log, teachers) ==
    LET sign == IF log.act = "add" THEN 1 ELSE -1
        two  == log.act \in {"add", "del"}
    IN  CASE log.mtype = "userBind" /\ two ->
               {Factor("user", Nil, sign)}
                 \cup (IF sign = 1 THEN {Factor("newUser", Nil, 1)} ELSE {})
          [] log.mtype = "login" -> LoginFactors(log, teachers)
          [] log.mtype = "course" /\ two ->
               {Factor("course", log.sid, sign), Factor("ratingCourse", log.sid, sign)}
          [] log.mtype = "courseUser" /\ two -> {Factor("courseUser", log.sid, sign)}
          [] log.mtype = "courseware" /\ two -> CoursewareFactors(log, sign)
          [] log.mtype = "order" /\ log.act \in {"add", "done"} -> OrderFactors(log)
          [] OTHER -> {}

\* handle returns an error: the address is unknown, or the text no number.
Refused(log) ==
    ~log.valid /\ ( \/ log.mtype \in {"login", "courseware"}
                    \/ log.mtype = "order" /\ log.act = "done" )

\* Every factor takes its date from CreatedAt before handle can return: without
\* one, the first Format dereferences a nil pointer.
Panics(log) == ~log.dated /\ FactorsOf(log, {}) # {}
=============================================================================
