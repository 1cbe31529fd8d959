------------------------------- MODULE MCUnits --------------------------------
(***************************************************************************)
(* Small units, each of which brings together what meets in one hazard:     *)
(* instructions to a module, the ends of scenes, chat and a query that      *)
(* pages back, the job and a teacher, a local control, the clean-up.        *)
(***************************************************************************)
EXTENDS Units, TLC

CONSTANTS c1, c2, c3, j1, j2, m, a, b, f, g, ann, bob, tv, math, art

Op(op) == [op |-> op]
Status(mod, nm, fields) == [op |-> "status", mod |-> mod, nm |-> nm, fields |-> fields]

ModulePlan == (c1 :> <<Status(m, a, {f}), Status(NoMod, None, {g})>>) @@
              (c2 :> <<Status(NoMod, None, {f}), Status(m, NotMap, {}), Status(m, b, {g})>>)
EndPlan == (c1 :> <<Op("start"), Op("end")>>) @@ (c2 :> <<Op("end")>>) @@
           (c3 :> <<Op("end")>>)
ChatPlan == (c1 :> <<Op("chat"), Op("chat"), Op("end")>>) @@
            (c2 :> <<Op("chat"), Op("chat")>>)
JobPlan == (c1 :> <<Op("start")>>) @@ (j1 :> <<Op("end")>>) @@ (j2 :> <<Op("end")>>)
TeacherPlan == (c1 :> <<Op("start"), Op("end")>>) @@ (j1 :> <<Op("end")>>)

Reported(op, items) == [op |-> op, items |-> items]
LocalReports == <<Reported("report", <<ann, tv>>), Reported("offline", <<tv>>),
                  Reported("report", <<bob, tv>>), Reported("offline", <<ann>>),
                  Reported("reportAll", <<>>), Reported("report", <<ann>>)>>
FullReport == <<Reported("report", <<ann>>), Reported("reportAll", <<bob, tv>>)>>

NoPlan == [c \in {} |-> <<>>]
Instance(plan_, job, ask, reps) ==
    [plan |-> plan_, job |-> job, ask |-> ask, reports |-> reps, keys |-> <<>>]

\* What SCAN finds: keys of the histories and of other things between those of
\* the units, at most one page of them or more.
K(unit) == [of |-> unit]
SmallKeyspaces == {<<K(math), K("his"), K(art)>>, <<K(math), K("other"), K(math), K(art)>>,
                   <<K("his"), K("off")>>}
AllKeyspaces == SmallKeyspaces \cup {<<>>}

AllInstances ==
    {Instance(ModulePlan, FALSE, None, <<>>), Instance(EndPlan, FALSE, None, <<>>),
     Instance(ChatPlan, FALSE, 0, <<>>), Instance(ChatPlan, FALSE, 3, <<>>),
     Instance(JobPlan, TRUE, None, <<>>), Instance(TeacherPlan, TRUE, None, <<>>),
     Instance(NoPlan, FALSE, None, LocalReports),
     Instance(NoPlan, FALSE, None, FullReport)} \cup
    {[Instance(NoPlan, FALSE, None, <<>>) EXCEPT !.keys = ks] : ks \in SmallKeyspaces}

AllPlans == {i.plan : i \in AllInstances}
AllReports == {i.reports : i \in AllInstances}
=============================================================================
