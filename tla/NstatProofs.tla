------------------------------ MODULE NstatProofs ------------------------------
(***************************************************************************)
(* Theorems about the statistics pipeline, for any messages and rosters,   *)
(* any number of logs, and any channel, batch and attempt limits.          *)
(***************************************************************************)
EXTENDS Nstat, DataLemmas

(***************************************************************************)
(* What a message yields                                                   *)
(***************************************************************************)

LEMMA FactorsType ==
    ASSUME NEW log \in LogMsg, NEW teachers PROVE FactorsOf(log, teachers) \subseteq StatFactor
<1>1. log.num \in Nat /\ log.sid \in Sid
  BY DEF LogMsg
<1> DEFINE sign == IF log.act = "add" THEN 1 ELSE -1
<1>2. sign \in Int /\ sign * log.num \in Int
  <2>1. sign \in {1, -1} /\ 1 * log.num = log.num /\ (-1) * log.num = -log.num
    BY <1>1
  <2> QED BY <1>1, <2>1
<1> HIDE DEF sign
<1> USE DEF Factor, StatFactor, Stype
<1>3. CoursewareFactors(log, sign) \subseteq StatFactor
  BY <1>1, <1>2 DEF CoursewareFactors
<1>4. LoginFactors(log, teachers) \subseteq StatFactor
  BY <1>1 DEF LoginFactors
<1>5. OrderFactors(log) \subseteq StatFactor
  BY <1>1 DEF OrderFactors
<1>6. {Factor("user", Nil, sign), Factor("newUser", Nil, 1), Factor("course", log.sid, sign),
       Factor("ratingCourse", log.sid, sign), Factor("courseUser", log.sid, sign)}
        \subseteq StatFactor
  BY <1>1, <1>2
<1> QED BY <1>3, <1>4, <1>5, <1>6 DEF FactorsOf, sign

\* Who is a teacher decides on a factor, never on whether there is one.
LEMMA FactorsByRoster ==
    ASSUME NEW log, NEW s, NEW t
    PROVE  FactorsOf(log, s) = {} <=> FactorsOf(log, t) = {}
<1>1. \A teachers : LoginFactors(log, teachers) # {}
  BY DEF LoginFactors
<1>2. CASE log.mtype = "login"
  BY <1>1, <1>2 DEF FactorsOf
<1>3. CASE log.mtype # "login"
  BY <1>3 DEF FactorsOf
<1> QED BY <1>2, <1>3

(***************************************************************************)
(* Sums                                                                    *)
(***************************************************************************)

Some(s) == CHOOSE x \in s : TRUE

\* g is the sum of f over each subset of S.
Sums(g, f, S) ==
    g = [s \in SUBSET S |-> IF s = {} THEN 0 ELSE f[Some(s)] + g[s \ {Some(s)}]]

LEMMA SumIsTaken ==
    ASSUME NEW S, IsFiniteSet(S), NEW f \in [S -> Int]
    PROVE  \E g : Sums(g, f, S) /\ SumFunction(f) = g[S]
<1>1. SumFunction(f) = (CHOOSE g : Sums(g, f, S))[S]
  BY DEF SumFunction, SumFunctionOnSet, FoldFunctionOnSet, MapThenFoldSet, Sums, Some
<1>2. \E g : Sums(g, f, S)
  <2> DEFINE C == [s \in SUBSET S |-> Some(s)]
             F == [p \in S \X Int |-> f[p[1]] + p[2]]
  <2>1. \A s \in SUBSET S : s # {} => C[s] \in s
    <3>1. ASSUME NEW s \in SUBSET S, s # {} PROVE Some(s) \in s
      <4>1. PICK x \in s : TRUE
        BY <3>1
      <4> QED BY <4>1 DEF Some
    <3> QED BY <3>1
  <2>2. F \in [S \X Int -> Int]
    OBVIOUS
  <2>3. \A s \in SUBSET S : C[s] = Some(s)
    OBVIOUS
  <2>4. \A x \in S, i \in Int : F[<<x, i>>] = f[x] + i
    OBVIOUS
  <2> HIDE DEF C, F
  <2>5. 0 \in Int
    OBVIOUS
  <2>6. PICK g \in [SUBSET S -> Int] : \A s \in SUBSET S :
            g[s] = IF s = {} THEN 0 ELSE F[<<C[s], g[s \ {C[s]}]>>]
    <3>1. \E g \in [SUBSET S -> Int] : FoldsAll(g, S, 0, F, C)
      BY <2>1, <2>2, <2>5, FoldExists
    <3> QED BY <3>1 DEF FoldsAll
  <2>7. ASSUME NEW s \in SUBSET S, s # {}
        PROVE  g[s] = f[Some(s)] + g[s \ {Some(s)}]
    <3>1. C[s] = Some(s) /\ Some(s) \in S /\ g[s \ {Some(s)}] \in Int
      BY <2>1, <2>3, <2>7
    <3>2. g[s] = F[<<C[s], g[s \ {C[s]}]>>]
      BY <2>6, <2>7
    <3>3. g[s] = F[<<Some(s), g[s \ {Some(s)}]>>]
      BY <3>1, <3>2
    <3> QED BY <2>4, <3>1, <3>3
  <2>8. g = [s \in SUBSET S |-> IF s = {} THEN 0 ELSE f[Some(s)] + g[s \ {Some(s)}]]
    BY <2>6, <2>7
  <2> QED BY <2>8 DEF Sums
<1> QED BY <1>1, <1>2

LEMMA SumType ==
    ASSUME NEW S, IsFiniteSet(S), NEW A \in {Int, Nat}, NEW f \in [S -> A]
    PROVE  SumFunction(f) \in A
<1>0. A \subseteq Int /\ 0 \in A /\ \A i, j \in A : i + j \in A
  <2>1. CASE A = Int
    BY <2>1
  <2>2. CASE A = Nat
    BY <2>2
  <2> QED BY <2>1, <2>2
<1>1. f \in [S -> Int] /\ \A x \in S : f[x] \in A
  BY <1>0
<1>2. PICK g : Sums(g, f, S) /\ SumFunction(f) = g[S]
  BY <1>1, SumIsTaken
<1> DEFINE Done == {s \in SUBSET S : g[s] \in A}
<1>3. {} \in Done
  BY <1>0, <1>2 DEF Sums
<1>4. ASSUME NEW s \in SUBSET S, s # {} PROVE \E x \in s : s \ {x} \in Done => s \in Done
  <2>1. Some(s) \in s
    BY <1>4 DEF Some
  <2>2. g[s] = f[Some(s)] + g[s \ {Some(s)}]
    BY <1>2, <1>4 DEF Sums
  <2>3. s \ {Some(s)} \in Done => s \in Done
    BY <1>0, <1>1, <2>1, <2>2
  <2> QED BY <2>1, <2>3
<1> HIDE DEF Done
<1>5. SUBSET S \subseteq Done
  BY <1>3, <1>4, FromSetToSet
<1>6. S \in Done
  BY <1>5
<1> QED BY <1>2, <1>6 DEF Done

\* The sum of nothing, and of one value.
LEMMA SumSmall ==
    ASSUME NEW S, NEW f \in [S -> Int]
    PROVE  /\ S = {} => SumFunction(f) = 0
           /\ \A x : S = {x} => SumFunction(f) = f[x]
<1>1. ASSUME S = {} PROVE SumFunction(f) = 0
  <2>1. PICK g : Sums(g, f, S) /\ SumFunction(f) = g[S]
    BY <1>1, FS_EmptySet, SumIsTaken
  <2> QED BY <1>1, <2>1 DEF Sums
<1>2. ASSUME NEW x, S = {x} PROVE SumFunction(f) = f[x]
  <2>1. PICK g : Sums(g, f, S) /\ SumFunction(f) = g[S]
    BY <1>2, FS_Singleton, SumIsTaken
  <2>2. Some(S) = x /\ S \ {x} = {} /\ S # {}
    BY <1>2 DEF Some
  <2>3. g[S] = f[x] + g[{}] /\ g[{}] = 0
    BY <2>1, <2>2 DEF Sums
  <2> QED BY <1>2, <2>1, <2>3
<1> QED BY <1>1, <1>2

\* Each value of f is the sum of those of g and h, and so are the sums.
AddUp(f, g, h, S) ==
    f \in [S -> Int] /\ g \in [S -> Int] /\ h \in [S -> Int] /\ \A x \in S : f[x] = g[x] + h[x]

LEMMA SumsAdd ==
    ASSUME NEW S, IsFiniteSet(S), NEW f, NEW g, NEW h, AddUp(f, g, h, S)
    PROVE  SumFunction(f) = SumFunction(g) + SumFunction(h)
<1>0. /\ f \in [S -> Int] /\ g \in [S -> Int] /\ h \in [S -> Int]
      /\ \A x \in S : f[x] = g[x] + h[x]
  BY DEF AddUp
<1>1. PICK ff : Sums(ff, f, S) /\ SumFunction(f) = ff[S]
  BY <1>0, SumIsTaken
<1>2. PICK gg : Sums(gg, g, S) /\ SumFunction(g) = gg[S]
  BY <1>0, SumIsTaken
<1>3. PICK hh : Sums(hh, h, S) /\ SumFunction(h) = hh[S]
  BY <1>0, SumIsTaken
<1> DEFINE Done == {s \in SUBSET S : gg[s] \in Int /\ hh[s] \in Int /\ ff[s] = gg[s] + hh[s]}
<1>4. {} \in Done
  BY <1>1, <1>2, <1>3 DEF Sums
<1>5. ASSUME NEW s \in SUBSET S, s # {} PROVE \E x \in s : s \ {x} \in Done => s \in Done
  <2> DEFINE x == Some(s)
  <2>1. x \in s /\ x \in S /\ s \ {x} \in SUBSET S
    BY <1>5 DEF Some
  <2>2. /\ ff[s] = f[x] + ff[s \ {x}] /\ gg[s] = g[x] + gg[s \ {x}] /\ hh[s] = h[x] + hh[s \ {x}]
    BY <1>1, <1>2, <1>3, <1>5 DEF Sums
  <2>3. f[x] = g[x] + h[x] /\ g[x] \in Int /\ h[x] \in Int
    BY <1>0, <2>1
  <2> HIDE DEF x
  <2>4. s \ {x} \in Done => s \in Done
    BY <2>2, <2>3
  <2> QED BY <2>1, <2>4
<1> HIDE DEF Done
<1>6. SUBSET S \subseteq Done
  BY <1>4, <1>5, FromSetToSet
<1>7. S \in Done
  BY <1>6
<1> QED BY <1>1, <1>2, <1>3, <1>7 DEF Done

(***************************************************************************)
(* What a log adds to the counters                                         *)
(***************************************************************************)

\* The factors for one counter
Of(factors, stype) == {f \in factors : f.stype = stype}

LEMMA AddsNone ==
    ASSUME NEW factors, NEW stype, \A f \in factors : f.stype # stype
    PROVE  Adds(factors, stype) = 0
<1>1. Of(factors, stype) = {}
  BY DEF Of
<1>2. [f \in Of(factors, stype) |-> f.value] \in [Of(factors, stype) -> Int]
  BY <1>1
<1> QED BY <1>1, <1>2, SumSmall DEF Adds, Of

LEMMA AddsOne ==
    ASSUME NEW factors, NEW x \in factors, x.value \in Int,
           \A f \in factors : f.stype = x.stype => f = x
    PROVE  Adds(factors, x.stype) = x.value
<1> DEFINE S == Of(factors, x.stype)
           v == [f \in S |-> f.value]
<1>1. S = {x}
  BY DEF Of
<1>2. v \in [S -> Int] /\ v[x] = x.value
  BY <1>1
<1>3. Adds(factors, x.stype) = SumFunction(v)
  BY DEF Adds, Of
<1> HIDE DEF S, v
<1> QED BY <1>1, <1>2, <1>3, SumSmall

Compared == {"login", "loginDistrict", "loginTeacher", "loginStudent", "course", "ratingCourse",
             "courseware", "coursewareType", "sizeCourseware", "sizeCoursewareType",
             "incomeOrder", "incomeNewOrder", "user", "newUser"}

\* What the factors of one log add to counters of the same thing
Agree(factors) ==
    /\ \A stype \in Compared : Adds(factors, stype) \in Int
    /\ Adds(factors, "login") = Adds(factors, "loginDistrict")
    /\ Adds(factors, "login") = Adds(factors, "loginTeacher") + Adds(factors, "loginStudent")
    /\ Adds(factors, "course") = Adds(factors, "ratingCourse")
    /\ Adds(factors, "courseware") = Adds(factors, "coursewareType")
    /\ Adds(factors, "sizeCourseware") = Adds(factors, "sizeCoursewareType")
    /\ Adds(factors, "incomeOrder") = Adds(factors, "incomeNewOrder")
    /\ Adds(factors, "user") <= Adds(factors, "newUser")

LEMMA FactorsAgree ==
    ASSUME NEW log \in LogMsg, NEW teachers PROVE Agree(FactorsOf(log, teachers))
<1> DEFINE sign == IF log.act = "add" THEN 1 ELSE -1
           two == log.act \in {"add", "del"}
<1> SUFFICES ASSUME NEW fs, fs = FactorsOf(log, teachers) PROVE Agree(fs)
  OBVIOUS
<1>1. log.num \in Nat /\ sign \in Int /\ sign * log.num \in Int /\ sign \in {1, -1}
  <2>1. log.num \in Nat
    BY DEF LogMsg
  <2>2. sign \in {1, -1} /\ 1 * log.num = log.num /\ (-1) * log.num = -log.num
    BY <2>1
  <2> QED BY <2>1, <2>2
<1> HIDE DEF sign
<1>o. /\ \A stype \in Compared : (\A f \in fs : f.stype # stype) => Adds(fs, stype) = 0
      /\ \A x \in fs : x.value \in Int /\ (\A f \in fs : f.stype = x.stype => f = x) =>
             Adds(fs, x.stype) = x.value
  BY AddsNone, AddsOne
<1>2. CASE log.mtype = "login"
  <2>1. fs = LoginFactors(log, teachers)
    BY <1>2 DEF FactorsOf
  <2>2. \A stype \in Compared \ {"login", "loginDistrict", "loginTeacher", "loginStudent"} :
            Adds(fs, stype) = 0
    BY <1>o, <2>1 DEF LoginFactors, Factor, Compared
  <2>3. Adds(fs, "login") = 1 /\ Adds(fs, "loginDistrict") = 1
    BY <1>o, <2>1 DEF LoginFactors, Factor
  <2>4. IF log.uid \in teachers THEN Adds(fs, "loginTeacher") = 1 /\ Adds(fs, "loginStudent") = 0
                                ELSE Adds(fs, "loginStudent") = 1 /\ Adds(fs, "loginTeacher") = 0
    BY <1>o, <2>1 DEF LoginFactors, Factor, Compared
  <2> QED BY <1>1, <2>2, <2>3, <2>4 DEF Agree, Compared
<1>3. CASE log.mtype = "userBind" /\ two
  <2>1. fs = {Factor("user", Nil, sign)} \cup
                 (IF sign = 1 THEN {Factor("newUser", Nil, 1)} ELSE {})
    BY <1>3 DEF FactorsOf, sign
  <2>2. \A stype \in Compared \ {"user", "newUser"} : Adds(fs, stype) = 0
    BY <1>o, <2>1 DEF Factor, Compared
  <2>3. CASE sign = 1
    <3>1. fs = {Factor("user", Nil, 1), Factor("newUser", Nil, 1)}
      BY <2>1, <2>3
    <3>2. Adds(fs, "user") = 1 /\ Adds(fs, "newUser") = 1
      BY <1>o, <3>1 DEF Factor
    <3> QED BY <2>2, <3>2 DEF Agree, Compared
  <2>4. CASE sign = -1
    <3>1. fs = {Factor("user", Nil, -1)}
      BY <2>1, <2>4
    <3>2. Adds(fs, "user") = -1 /\ Adds(fs, "newUser") = 0
      BY <1>o, <3>1 DEF Factor, Compared
    <3> QED BY <2>2, <3>2 DEF Agree, Compared
  <2> QED BY <1>1, <2>3, <2>4
<1>4. CASE log.mtype = "course" /\ two
  <2>1. fs = {Factor("course", log.sid, sign), Factor("ratingCourse", log.sid, sign)}
    BY <1>4 DEF FactorsOf, sign
  <2>2. \A stype \in Compared \ {"course", "ratingCourse"} : Adds(fs, stype) = 0
    BY <1>o, <2>1 DEF Factor, Compared
  <2>3. Adds(fs, "course") = sign /\ Adds(fs, "ratingCourse") = sign
    BY <1>1, <1>o, <2>1 DEF Factor
  <2> QED BY <1>1, <2>2, <2>3 DEF Agree, Compared
<1>5. CASE log.mtype = "courseware" /\ two
  <2>1. fs = CoursewareFactors(log, sign)
    BY <1>5 DEF FactorsOf, sign
  <2> DEFINE Counters == {"courseware", "coursewareType", "sizeCourseware", "sizeCoursewareType"}
  <2>2. \A stype \in Compared \ Counters : Adds(fs, stype) = 0
    BY <1>o, <2>1 DEF CoursewareFactors, Factor, Compared
  <2>3. Adds(fs, "courseware") = sign /\ Adds(fs, "coursewareType") = sign
    BY <1>1, <1>o, <2>1 DEF CoursewareFactors, Factor
  <2>4. /\ Adds(fs, "sizeCourseware") = sign * log.num
        /\ Adds(fs, "sizeCoursewareType") = sign * log.num
    <3> DEFINE size == sign * log.num
    <3>1. size \in Int /\ fs = {Factor("courseware", Nil, sign), Factor("sizeCourseware", Nil, size),
              Factor("coursewareType", log.sid, sign), Factor("sizeCoursewareType", log.sid, size)}
      BY <1>1, <2>1 DEF CoursewareFactors
    <3> HIDE DEF size
    <3>2. Adds(fs, "sizeCourseware") = size /\ Adds(fs, "sizeCoursewareType") = size
      BY <1>o, <3>1 DEF Factor
    <3> QED BY <3>2 DEF size
  <2> QED BY <1>1, <2>2, <2>3, <2>4 DEF Agree, Compared
<1>6. CASE log.mtype = "order" /\ log.act \in {"add", "done"}
  <2>1. fs = OrderFactors(log)
    BY <1>6 DEF FactorsOf
  <2>2. \A stype \in Compared \ {"incomeOrder", "incomeNewOrder"} : Adds(fs, stype) = 0
    BY <1>o, <2>1 DEF OrderFactors, Factor, Compared
  <2>3. Adds(fs, "incomeOrder") = Adds(fs, "incomeNewOrder") /\ Adds(fs, "incomeOrder") \in Int
    <3>1. CASE log.act = "add"
      <4>1. fs = {Factor("order", "created", 1)}
        BY <2>1, <3>1 DEF OrderFactors
      <4> QED BY <1>o, <4>1 DEF Factor, Compared
    <3>2. CASE log.act # "add"
      <4>1. fs = {Factor("order", "paid", 1), Factor("incomeOrder", Nil, log.num),
                  Factor("incomeNewOrder", Nil, log.num)}
        BY <2>1, <3>2 DEF OrderFactors
      <4>2. Adds(fs, "incomeOrder") = log.num /\ Adds(fs, "incomeNewOrder") = log.num
        BY <1>1, <1>o, <4>1 DEF Factor
      <4> QED BY <1>1, <4>2
    <3> QED BY <3>1, <3>2
  <2> QED BY <1>1, <2>2, <2>3 DEF Agree, Compared
<1>7. CASE fs = {} \/ fs = {Factor("courseUser", log.sid, sign)}
  <2>1. \A stype \in Compared : Adds(fs, stype) = 0
    BY <1>7, <1>o DEF Factor, Compared
  <2> QED BY <2>1 DEF Agree, Compared
<1>8. fs = {} \/ fs = {Factor("courseUser", log.sid, sign)} \/ log.mtype = "login"
        \/ (log.mtype \in {"userBind", "course", "courseware"} /\ two)
        \/ (log.mtype = "order" /\ log.act \in {"add", "done"})
  BY DEF FactorsOf, sign
<1> QED BY <1>2, <1>3, <1>4, <1>5, <1>6, <1>7, <1>8

\* What counters agree on log by log they agree on in the service.
LEMMA TotalsAgree ==
    ASSUME NEW D, applied \in Seq(D), \A d \in D : Agree(d.factors) PROVE CountersAgree
<1> DEFINE S == DOMAIN applied
           V(stype) == [i \in S |-> Adds(applied[i].factors, stype)]
<1>1. IsFiniteSet(S)
  BY LenProperties, FS_Interval
<1>2. \A i \in S : Agree(applied[i].factors)
  BY ElementOfSeq, LenProperties
<1>3. \A stype : Total(stype) = SumFunction(V(stype))
  BY DEF Total
<1>4. \A stype \in Compared : V(stype) \in [S -> Int]
  BY <1>2 DEF Agree
<1>5. \A stype : \A i \in S : V(stype)[i] = Adds(applied[i].factors, stype)
  OBVIOUS
<1>6. ASSUME NEW s, NEW t, \A i \in S : Adds(applied[i].factors, s) = Adds(applied[i].factors, t)
      PROVE  Total(s) = Total(t)
  <2>1. V(s) = V(t)
    BY <1>6
  <2> HIDE DEF V
  <2> QED BY <1>3, <2>1
<1> HIDE DEF S, V
<1>7. /\ Total("login") = Total("loginDistrict") /\ Total("course") = Total("ratingCourse")
      /\ Total("courseware") = Total("coursewareType")
      /\ Total("sizeCourseware") = Total("sizeCoursewareType")
      /\ Total("incomeOrder") = Total("incomeNewOrder")
  BY <1>2, <1>6 DEF Agree
<1>8. Total("login") = Total("loginTeacher") + Total("loginStudent")
  <2>1. /\ V("login") \in [S -> Int] /\ V("loginTeacher") \in [S -> Int]
        /\ V("loginStudent") \in [S -> Int]
        /\ \A i \in S : V("login")[i] = V("loginTeacher")[i] + V("loginStudent")[i]
    <3>1. {"login", "loginTeacher", "loginStudent"} \subseteq Compared
      BY DEF Compared
    <3>2. \A i \in S : Adds(applied[i].factors, "login")
              = Adds(applied[i].factors, "loginTeacher") + Adds(applied[i].factors, "loginStudent")
      BY <1>2 DEF Agree
    <3> QED BY <1>4, <1>5, <3>1, <3>2
  <2>2. SumFunction(V("login")) = SumFunction(V("loginTeacher")) + SumFunction(V("loginStudent"))
    <3>1. AddUp(V("login"), V("loginTeacher"), V("loginStudent"), S)
      BY <2>1 DEF AddUp
    <3> QED BY <1>1, <3>1, SumsAdd
  <2> QED BY <1>3, <2>2
<1>9. Total("user") <= Total("newUser")
  <2> DEFINE Excess == [i \in S |-> V("newUser")[i] - V("user")[i]]
  <2>1. V("user") \in [S -> Int] /\ V("newUser") \in [S -> Int]
    BY <1>4 DEF Compared
  <2>2. \A i \in S : V("user")[i] <= V("newUser")[i]
    <3>1. \A i \in S : Adds(applied[i].factors, "user") <= Adds(applied[i].factors, "newUser")
      BY <1>2 DEF Agree
    <3> QED BY <1>5, <3>1
  <2>3. Excess \in [S -> Nat] /\ Excess \in [S -> Int]
    BY <2>1, <2>2
  <2>4. \A i \in S : V("newUser")[i] = V("user")[i] + Excess[i]
    BY <2>1
  <2> HIDE DEF Excess
  <2>5. SumFunction(V("newUser")) = SumFunction(V("user")) + SumFunction(Excess)
    <3>1. AddUp(V("newUser"), V("user"), Excess, S)
      BY <2>1, <2>3, <2>4 DEF AddUp
    <3> QED BY <1>1, <3>1, SumsAdd
  <2>6. SumFunction(V("user")) \in Int /\ SumFunction(Excess) \in Nat
    BY <1>1, <2>1, <2>3, SumType
  <2> QED BY <1>3, <2>5, <2>6
<1> QED BY <1>7, <1>8, <1>9 DEF CountersAgree

\* The logs that hold a message, and what the processor makes of those it does
\* not refuse.  Neither changes while the program runs.
MessageNo == {n \in LogNo : content[n] # Nil}

Handled ==
    {d \in StatData : /\ content[d.n] # Nil /\ ~Refused(content[d.n])
                      /\ d.factors = {} <=> FactorsOf(content[d.n], {}) = {}
                      /\ Agree(d.factors)}

LEMMA CountsFixed ==
    ASSUME NEW n
    PROVE  Counts(n) <=> /\ content[n] # Nil /\ ~Refused(content[n]) /\ content[n].dated
                         /\ FactorsOf(content[n], {}) # {}
  BY FactorsByRoster DEF Counts

(***************************************************************************)
(* Sequences                                                               *)
(***************************************************************************)
LEMMA NumbersType ==
    ASSUME NEW s \in Seq(StatData)
    PROVE  /\ Numbers(s) \in Seq(LogNo) /\ Len(Numbers(s)) = Len(s)
           /\ DOMAIN Numbers(s) = 1..Len(s) /\ DOMAIN s = 1..Len(s)
           /\ \A i \in 1..Len(s) : Numbers(s)[i] = s[i].n
           /\ Range(Numbers(s)) = {s[i].n : i \in 1..Len(s)}
<1>1. /\ DOMAIN s = 1..Len(s) /\ Len(s) \in Nat
      /\ \A i \in 1..Len(s) : s[i].n \in LogNo
  <2>1. \A d \in StatData : d.n \in LogNo
    BY DEF StatData
  <2> QED BY <2>1, LenProperties, ElementOfSeq
<1>2. Numbers(s) \in [1..Len(s) -> LogNo]
  BY <1>1 DEF Numbers
<1>3. Numbers(s) \in Seq(LogNo) /\ Len(Numbers(s)) = Len(s)
  BY <1>1, <1>2
<1> QED BY <1>1, <1>2, <1>3 DEF Numbers, Range

LEMMA NumbersConcat ==
    ASSUME NEW s \in Seq(StatData), NEW t \in Seq(StatData)
    PROVE  Numbers(s \o t) = Numbers(s) \o Numbers(t)
<1> DEFINE u == s \o t
           v == Numbers(s) \o Numbers(t)
<1>1. /\ u \in Seq(StatData) /\ Len(u) = Len(s) + Len(t)
      /\ \A i \in 1 .. Len(s) : u[i] = s[i]
      /\ \A i \in 1 .. Len(t) : u[i + Len(s)] = t[i]
      /\ Len(s) \in Nat /\ Len(t) \in Nat
  BY ConcatParts
<1>2. /\ Numbers(s) \in Seq(LogNo) /\ Len(Numbers(s)) = Len(s)
      /\ \A i \in 1..Len(s) : Numbers(s)[i] = s[i].n
      /\ Numbers(t) \in Seq(LogNo) /\ Len(Numbers(t)) = Len(t)
      /\ \A i \in 1..Len(t) : Numbers(t)[i] = t[i].n
  BY NumbersType
<1>3. /\ v \in Seq(LogNo) /\ Len(v) = Len(s) + Len(t)
      /\ \A i \in 1 .. Len(s) : v[i] = Numbers(s)[i]
      /\ \A i \in 1 .. Len(t) : v[i + Len(s)] = Numbers(t)[i]
  <2> DEFINE a == Numbers(s)
             b == Numbers(t)
  <2> HIDE DEF a, b
  <2>1. a \in Seq(LogNo) /\ b \in Seq(LogNo)
    BY <1>2 DEF a, b
  <2>2. /\ a \o b \in Seq(LogNo) /\ Len(a \o b) = Len(a) + Len(b)
        /\ \A i \in 1 .. Len(a) : (a \o b)[i] = a[i]
        /\ \A i \in 1 .. Len(b) : (a \o b)[i + Len(a)] = b[i]
    BY <2>1, ConcatParts
  <2> QED BY <1>2, <2>2 DEF a, b
<1> HIDE DEF u, v
<1>4. /\ Numbers(u) \in Seq(LogNo) /\ Len(Numbers(u)) = Len(u)
      /\ \A i \in 1..Len(u) : Numbers(u)[i] = u[i].n
  BY <1>1, NumbersType
<1>5. ASSUME NEW i \in 1 .. (Len(s) + Len(t)) PROVE Numbers(u)[i] = v[i]
  <2>1. CASE i \in 1..Len(s)
    BY <1>1, <1>2, <1>3, <1>4, <2>1
  <2>2. ASSUME NEW j \in 1..Len(t), i = j + Len(s) PROVE Numbers(u)[i] = v[i]
    BY <1>1, <1>2, <1>3, <1>4, <2>2
  <2> QED BY <1>1, <2>1, <2>2, PlaceInParts
<1>6. Numbers(u) = v
  BY <1>1, <1>3, <1>4, <1>5, SeqEqual
<1> QED BY <1>6 DEF u, v

LEMMA NumbersSmall ==
    /\ Numbers(<<>>) = <<>> /\ Range(Numbers(<<>>)) = {}
    /\ \A d \in StatData : Numbers(<<d>>) = <<d.n>>
  BY DEF Numbers, Range

(***************************************************************************)
(* Types, and where a log can be while a goroutine is where.               *)
(***************************************************************************)

\* The collector and the processor hold something exactly while they are to
\* send it; only a processor that has stopped has closed its channel.
Places ==
    /\ held # Nil <=> at.collector = "send"
    /\ stat # <<>> <=> at.processor = "send"
    /\ outClosed <=> at.processor = "done"
    /\ outClosed => stopped

\* Only messages enter the pipeline, and only what handle returned leaves the
\* processor.
Flow ==
    /\ inbound \in Seq(MessageNo) /\ held \in MessageNo \cup {Nil}
    /\ stat \in Seq(Handled) /\ outbound \in Seq(Handled)
    /\ batch \in Seq(Handled) /\ applied \in Seq(Handled)

\* Between two batches the consumer holds nothing that counts; it commits and
\* reports a batch only.  When it is done without one, the channel is closed and
\* drained.
AtRest ==
    /\ at.consumer \in {"select", "drain"} => Empty(batch)
    /\ at.consumer \in {"commit", "drainCommit", "report"} => batch # <<>>
    /\ Drained => outClosed /\ outbound = <<>>

TypeInv == TypeOK /\ Places /\ Flow /\ AtRest /\ NilOnlyInShutdown

LEMMA ContentFixed ==
    ASSUME UNCHANGED content
    PROVE  MessageNo' = MessageNo /\ Handled' = Handled
  BY DEF MessageNo, Handled

LEMMA PlaceType ==
    ASSUME TypeOK, NEW g \in {"collector", "processor", "consumer", "moderator", "loader"},
           NEW place \in {"start", "select", "send", "take", "commit", "drain", "drainCommit",
                          "hung", "report", "done"},
           place \in CASE g = "collector" -> {"start", "select", "send", "report", "done"}
                       [] g = "processor" -> {"select", "send", "done"}
                       [] g = "consumer" -> {"select", "take", "commit", "drain",
                                             "drainCommit", "hung", "report", "done"}
                       [] g = "loader" -> {"select", "hung", "done"}
                       [] OTHER -> {"select", "done"},
           Goes(g, place)
    PROVE  /\ at' \in Place
           /\ at'.collector = IF g = "collector" THEN place ELSE at.collector
           /\ at'.processor = IF g = "processor" THEN place ELSE at.processor
           /\ at'.consumer = IF g = "consumer" THEN place ELSE at.consumer
  BY DEF TypeOK, Place, Goes

LEMMA CollectorType ==
    ASSUME TypeInv,
           \/ CollectorStarts \/ CollectorTakes \/ CollectorSends \/ CollectorEof
           \/ CollectorStops \/ Reports("collector")
    PROVE  TypeInv'
<1> USE NstatAssumption DEF TypeInv, LogNo, At, collectorRest
<1>1. UNCHANGED collectorRest /\ crashed = "no"
  BY DEF CollectorStarts, CollectorTakes, CollectorSends, CollectorEof, CollectorStops, Reports
<1>2. MessageNo' = MessageNo /\ Handled' = Handled
  BY <1>1, ContentFixed
<1>3. ASSUME NEW place \in {"select", "report", "done"}, Goes("collector", place),
             UNCHANGED <<taken, inbound, held>>, at.collector # "send", toStop' \in 0..1
      PROVE  TypeInv'
  <2>1. /\ at' \in Place /\ at'.collector = place /\ at'.processor = at.processor
        /\ at'.consumer = at.consumer
    BY <1>3, PlaceType
  <2> QED BY <1>1, <1>2, <1>3, <2>1 DEF TypeOK, Places, Flow, AtRest, Drained, Empty, NilOnlyInShutdown
<1>4. CASE CollectorStarts \/ CollectorEof \/ CollectorStops \/ Reports("collector")
  BY <1>3, <1>4 DEF CollectorStarts, CollectorEof, CollectorStops, Reports, TypeOK
<1>5. CASE CollectorTakes
  <2>1. taken' = taken + 1 /\ taken' \in LogNo /\ UNCHANGED <<inbound, toStop>>
    BY <1>5 DEF CollectorTakes, TypeOK
  <2>2. CASE content[taken + 1] = Nil
    BY <1>1, <1>2, <1>5, <2>1, <2>2
    DEF CollectorTakes, TypeOK, Places, Flow, AtRest, Drained, Empty, NilOnlyInShutdown
  <2>3. CASE content[taken + 1] # Nil
    <3>1. held' = taken + 1 /\ Goes("collector", "send")
      BY <1>5, <2>3 DEF CollectorTakes
    <3>2. /\ at' \in Place /\ at'.collector = "send" /\ at'.processor = at.processor
          /\ at'.consumer = at.consumer
      BY <3>1, PlaceType
    <3>3. held' \in MessageNo /\ held' # Nil
      BY <2>1, <2>3, <3>1 DEF MessageNo
    <3>4. TypeOK' /\ Places' /\ Flow'
      BY <1>1, <1>2, <2>1, <3>2, <3>3 DEF TypeOK, Places, Flow, MessageNo
    <3>5. AtRest' /\ NilOnlyInShutdown'
      BY <1>1, <3>2 DEF AtRest, Drained, Empty, NilOnlyInShutdown
    <3> QED BY <3>4, <3>5
  <2> QED BY <2>2, <2>3
<1>6. CASE CollectorSends
  <2>1. /\ at' \in Place /\ at'.collector = "select" /\ at'.processor = at.processor
        /\ at'.consumer = at.consumer
    BY <1>6, PlaceType DEF CollectorSends
  <2>2. held \in MessageNo
    BY <1>6 DEF CollectorSends, Places, Flow
  <2>3. inbound' = Append(inbound, held) /\ held' = Nil /\ Len(inbound) < InCap
    BY <1>6 DEF CollectorSends
  <2>4. inbound' \in Seq(MessageNo) /\ Len(inbound') = Len(inbound) + 1
    BY <2>2, <2>3, AppendProperties DEF Flow
  <2>5. inbound' \in Seq(LogNo)
    BY <2>4, SeqMonotonic DEF MessageNo
  <2>6. Len(inbound') <= InCap
    BY <2>3, <2>4 DEF TypeOK
  <2> QED
    BY <1>1, <1>2, <1>6, <2>1, <2>3, <2>4, <2>5, <2>6
    DEF CollectorSends, TypeOK, Places, Flow, AtRest, Drained, Empty, NilOnlyInShutdown
<1> QED BY <1>4, <1>5, <1>6

LEMMA ProcessorType ==
    ASSUME TypeInv, ProcessorHandles \/ ProcessorPanics \/ ProcessorSends \/ ProcessorStops
    PROVE  TypeInv'
<1> USE NstatAssumption DEF TypeInv, At, processorRest
<1>1. /\ UNCHANGED <<content, taken, toStop, stopped, cache, held, batch, attempt, applied>>
      /\ crashed = "no" /\ (UNCHANGED crashed \/ ProcessorPanics)
  BY DEF ProcessorHandles, ProcessorPanics, ProcessorSends, ProcessorStops
<1>2. MessageNo' = MessageNo /\ Handled' = Handled
  BY <1>1, ContentFixed
<1>3. CASE ProcessorHandles
  <2> DEFINE n == Head(inbound)
  <2>1. n \in MessageNo /\ inbound' = Tail(inbound) /\ inbound' \in Seq(MessageNo)
    BY <1>3, HeadTailProperties DEF ProcessorHandles, Flow
  <2>2. inbound' \in Seq(LogNo) /\ Len(inbound') <= InCap
    BY <1>3, <2>1, HeadTailProperties DEF ProcessorHandles, TypeOK
  <2>3. CASE Refused(content[n])
    BY <1>1, <1>2, <1>3, <2>1, <2>2, <2>3
    DEF ProcessorHandles, TypeOK, Places, Flow, AtRest, Drained, Empty, NilOnlyInShutdown
  <2>4. CASE ~Refused(content[n])
    <3> DEFINE d == [n |-> n, factors |-> FactorsOf(content[n], cache)]
    <3>1. stat' = <<d>> /\ Goes("processor", "send") /\ UNCHANGED <<outbound, outClosed>>
      BY <1>3, <2>4 DEF ProcessorHandles
    <3>2. content[n] \in LogMsg /\ n \in LogNo
      BY <2>1 DEF MessageNo, TypeOK
    <3>3. d \in StatData
      BY <3>2, FactorsType DEF StatData
    <3>4. d \in Handled
      BY <2>1, <2>4, <3>2, <3>3, FactorsByRoster, FactorsAgree DEF Handled, MessageNo
    <3> HIDE DEF d
    <3>5. stat' \in Seq(Handled) /\ stat' \in Seq(StatData) /\ Len(stat') = 1 /\ stat' # <<>>
      BY <3>1, <3>3, <3>4
    <3>6. /\ at' \in Place /\ at'.collector = at.collector /\ at'.processor = "send"
          /\ at'.consumer = at.consumer
      BY <3>1, PlaceType
    <3>7. at.processor = "select"
      BY <1>3 DEF ProcessorHandles
    <3>0. UNCHANGED crashed
      BY <1>3 DEF ProcessorHandles
    <3>8. TypeOK' /\ Places' /\ Flow'
      BY <1>1, <1>2, <2>1, <2>2, <3>0, <3>1, <3>5, <3>6, <3>7 DEF TypeOK, Places, Flow
    <3>9. AtRest' /\ NilOnlyInShutdown'
      BY <1>1, <3>0, <3>1, <3>6 DEF AtRest, Drained, Empty, NilOnlyInShutdown
    <3> QED BY <3>8, <3>9
  <2> QED BY <2>3, <2>4
<1>4. CASE ProcessorSends
  <2>1. /\ at' \in Place /\ at'.collector = at.collector /\ at'.processor = "select"
        /\ at'.consumer = at.consumer
    BY <1>4, PlaceType DEF ProcessorSends
  <2>2. outbound' = outbound \o stat /\ stat' = <<>> /\ Len(outbound) < OutCap
    BY <1>4 DEF ProcessorSends
  <2>3. outbound' \in Seq(Handled)
    BY <2>2, ConcatProperties DEF Flow
  <2>4. outbound' \in Seq(StatData) /\ Len(outbound') = Len(outbound) + Len(stat)
    BY <2>2, ConcatProperties DEF TypeOK
  <2>5. Len(outbound') <= OutCap
    BY <2>2, <2>4, LenProperties DEF TypeOK
  <2>6. <<>> \in Seq(StatData) /\ <<>> \in Seq(Handled) /\ Len(<<>>) = 0
    BY EmptySeq
  <2>7. at.processor = "send"
    BY <1>4 DEF ProcessorSends
  <2> QED
    BY <1>1, <1>2, <1>4, <2>1, <2>2, <2>3, <2>4, <2>5, <2>6, <2>7
    DEF ProcessorSends, TypeOK, Places, Flow, AtRest, Drained, Empty, NilOnlyInShutdown
<1>5. CASE ProcessorStops
  <2>1. /\ at' \in Place /\ at'.collector = at.collector /\ at'.processor = "done"
        /\ at'.consumer = at.consumer
    BY <1>5, PlaceType DEF ProcessorStops
  <2> QED
    BY <1>1, <1>2, <1>5, <2>1
    DEF ProcessorStops, TypeOK, Places, Flow, AtRest, Drained, Empty, NilOnlyInShutdown
<1>6. CASE ProcessorPanics
  <2>1. inbound' \in Seq(MessageNo)
    BY <1>6, HeadTailProperties DEF ProcessorPanics, Flow
  <2>2. inbound' \in Seq(LogNo) /\ Len(inbound') <= InCap
    BY <1>6, HeadTailProperties DEF ProcessorPanics, TypeOK
  <2> QED
    BY <1>1, <1>2, <1>6, <2>1, <2>2
    DEF ProcessorPanics, TypeOK, Places, Flow, AtRest, Drained, Empty, NilOnlyInShutdown
<1> QED BY <1>3, <1>4, <1>5, <1>6

LEMMA ServerType ==
    ASSUME TypeInv, ModeratorIsTold \/ Interrupt \/ LoaderReloads \/ LoaderHangs \/ LoaderStops
    PROVE  TypeInv'
<1>1. /\ UNCHANGED serverRest /\ toStop' \in 0..1 /\ cache' \in Rosters
      /\ crashed' \in {"no", "reload"}
  BY DEF ModeratorIsTold, Interrupt, LoaderReloads, LoaderHangs, LoaderStops, At, TypeInv, TypeOK
<1>s. stopped' \in BOOLEAN /\ (stopped => stopped')
  <2>1. stopped' = TRUE \/ stopped' = stopped
    BY Zenon DEF ModeratorIsTold, Interrupt, LoaderReloads, LoaderHangs, LoaderStops
  <2> QED BY <2>1, Zenon DEF TypeInv, TypeOK
<1>2. MessageNo' = MessageNo /\ Handled' = Handled
  BY <1>1, ContentFixed DEF serverRest
<1>3. /\ at' \in Place /\ at'.collector = at.collector /\ at'.processor = at.processor
      /\ at'.consumer = at.consumer
  BY PlaceType DEF TypeInv, TypeOK, ModeratorIsTold, Interrupt, LoaderReloads, LoaderHangs, LoaderStops
<1> QED
  BY <1>1, <1>s, <1>2, <1>3
  DEF TypeInv, TypeOK, Places, Flow, AtRest, Drained, Empty, NilOnlyInShutdown, serverRest

LEMMA ConsumerType ==
    ASSUME TypeInv,
           \/ ConsumerTicks \/ ConsumerTakes \/ ConsumerTakesNil \/ ConsumerTaken
           \/ CommitSucceeds \/ CommitFails \/ CommitHangs \/ Reports("consumer")
           \/ ConsumerStops \/ ConsumerDrains \/ ConsumerDrained
    PROVE  TypeInv'
<1> USE NstatAssumption DEF TypeInv, At, consumerRest
<1>c. content' = content
  BY DEF ConsumerTicks, ConsumerTakes, ConsumerTakesNil, ConsumerTaken, CommitSucceeds,
     CommitFails, CommitHangs, Reports, collectorRest, ConsumerStops, ConsumerDrains, ConsumerDrained
<1>h. MessageNo' = MessageNo /\ Handled' = Handled
  BY <1>c, ContentFixed
<1>e. <<>> \in Seq(StatData) /\ <<>> \in Seq(Handled) /\ Len(<<>>) = 0 /\ Empty(<<>>)
  BY EmptySeq DEF Empty
<1>a. ASSUME NEW place \in {"select", "take", "commit", "drain", "drainCommit", "hung", "report",
                           "done"},
             Goes("consumer", place),
             UNCHANGED <<content, taken, inbound, outClosed, stopped, cache, held, stat>>,
             UNCHANGED crashed, crashed = "no", toStop' \in 0..1,
             outbound' \in Seq(Handled), outbound' \in Seq(StatData), Len(outbound') <= OutCap,
             batch' \in Seq(Handled), batch' \in Seq(StatData), Len(batch') <= Batch,
             applied' \in Seq(Handled), applied' \in Seq(StatData), attempt' \in 1..Attempts,
             place \in {"select", "drain"} => Empty(batch'),
             place \in {"commit", "drainCommit", "report"} => batch' # <<>>,
             place = "done" /\ batch' = <<>> => outClosed /\ outbound' = <<>>
      PROVE  TypeInv'
  <2>1. /\ at' \in Place /\ at'.collector = at.collector /\ at'.processor = at.processor
        /\ at'.consumer = place
    BY <1>a, PlaceType
  <2> QED BY <1>h, <1>a, <2>1 DEF TypeOK, Places, Flow, AtRest, Drained, Empty, NilOnlyInShutdown
<1>d. outbound # <<>> =>
        /\ Head(outbound) \in Handled /\ Head(outbound) \in StatData
        /\ Tail(outbound) \in Seq(Handled) /\ Tail(outbound) \in Seq(StatData)
        /\ Len(Tail(outbound)) <= OutCap
  <2> SUFFICES ASSUME outbound # <<>>
               PROVE  /\ Head(outbound) \in Handled /\ Head(outbound) \in StatData
                      /\ Tail(outbound) \in Seq(Handled) /\ Tail(outbound) \in Seq(StatData)
                      /\ Len(Tail(outbound)) <= OutCap
    OBVIOUS
  <2>1. Head(outbound) \in Handled /\ Tail(outbound) \in Seq(Handled)
    BY HeadTailProperties DEF Flow
  <2>2. /\ Head(outbound) \in StatData /\ Tail(outbound) \in Seq(StatData)
        /\ Len(Tail(outbound)) = Len(outbound) - 1 /\ Len(outbound) \in Nat
    BY HeadTailProperties, LenProperties DEF TypeOK
  <2> QED BY <2>1, <2>2 DEF TypeOK
<1>1. CASE ConsumerTicks
  BY <1>1, <1>a, <1>e DEF ConsumerTicks, TypeOK, Flow
<1>2. CASE ConsumerStops
  BY <1>2, <1>a, <1>e DEF ConsumerStops, TypeOK, Flow
<1>11. CASE ConsumerDrained
  BY <1>11, <1>a, <1>e DEF ConsumerDrained, TypeOK, Flow
<1>3. CASE Reports("consumer")
  BY <1>3, <1>a DEF Reports, collectorRest, TypeOK, Flow, AtRest
<1>4. CASE ConsumerTaken
  <2>1. CASE Empty(batch)
    BY <1>4, <1>a, <2>1 DEF ConsumerTaken, TypeOK, Flow
  <2>2. CASE ~Empty(batch)
    <3>1. batch # <<>>
      BY <1>e, <2>2
    <3> QED BY <1>4, <1>a, <2>2, <3>1 DEF ConsumerTaken, TypeOK, Flow
  <2> QED BY <2>1, <2>2
<1>5. CASE ConsumerTakes
  <2>1. /\ outbound # <<>> /\ outbound' = Tail(outbound) /\ batch' = Append(batch, Head(outbound))
        /\ Len(batch) < Batch /\ at' = at /\ UNCHANGED <<consumerRest, attempt, applied, crashed>>
        /\ crashed = "no" /\ at.consumer = "take"
    BY <1>5 DEF ConsumerTakes
  <2>2. batch' \in Seq(Handled)
    BY <1>d, <2>1, AppendProperties DEF Flow
  <2>3. batch' \in Seq(StatData) /\ Len(batch') = Len(batch) + 1 /\ Len(batch) \in Nat
    BY <1>d, <2>1, AppendProperties, LenProperties DEF TypeOK
  <2> QED
    BY <1>d, <1>h, <2>1, <2>2, <2>3
    DEF TypeOK, Places, Flow, AtRest, Drained, Empty, NilOnlyInShutdown
<1>6. CASE ConsumerTakesNil
  BY <1>6, <1>h DEF ConsumerTakesNil, TypeOK, Places, Flow, AtRest, Drained, Empty, NilOnlyInShutdown
<1>7. applied \o batch \in Seq(Handled) /\ applied \o batch \in Seq(StatData)
  BY ConcatProperties DEF TypeOK, Flow
<1>8. CASE CommitSucceeds
  BY <1>8, <1>a, <1>e, <1>7 DEF CommitSucceeds, Back, TypeOK, Flow
<1>9. CASE CommitFails
  <2>1. /\ UNCHANGED <<consumerRest, outbound, batch, crashed>> /\ crashed = "no"
        /\ at.consumer \in {"commit", "drainCommit"}
        /\ applied' \in Seq(Handled) /\ applied' \in Seq(StatData)
    BY <1>9, <1>7 DEF CommitFails, TypeOK, Flow
  <2>2. CASE attempt < Attempts
    <3>1. attempt' = attempt + 1 /\ at' = at /\ attempt' \in 1..Attempts
      BY <1>9, <2>2 DEF CommitFails, Fails, TypeOK
    <3> QED BY <1>h, <2>1, <3>1 DEF TypeOK, Places, Flow, AtRest, Drained, Empty, NilOnlyInShutdown
  <2>3. CASE ~(attempt < Attempts)
    BY <1>9, <1>a, <2>1, <2>3 DEF CommitFails, Fails, TypeOK, Flow, AtRest
  <2> QED BY <2>2, <2>3
<1>12. CASE CommitHangs
  BY <1>12, <1>a, <1>7 DEF CommitHangs, TypeOK, Flow
<1>10. CASE ConsumerDrains
  <2>1. /\ outbound # <<>> /\ outbound' = Tail(outbound) /\ batch' = <<Head(outbound)>>
        /\ attempt' = 1 /\ UNCHANGED <<consumerRest, applied, crashed>> /\ crashed = "no"
        /\ Goes("consumer", IF Empty(batch') THEN "drain" ELSE "drainCommit")
    BY <1>10 DEF ConsumerDrains
  <2>2. batch' \in Seq(Handled) /\ batch' \in Seq(StatData) /\ Len(batch') = 1
    BY <1>d, <2>1
  <2>3. 1 <= Batch /\ 1 \in 1..Attempts
    OBVIOUS
  <2>4. CASE Empty(batch')
    BY <1>a, <1>d, <2>1, <2>2, <2>3, <2>4 DEF TypeOK, Flow
  <2>5. CASE ~Empty(batch')
    BY <1>a, <1>d, <2>1, <2>2, <2>3, <2>5 DEF TypeOK, Flow
  <2> QED BY <2>4, <2>5
<1> QED BY <1>1, <1>2, <1>3, <1>4, <1>5, <1>6, <1>8, <1>9, <1>10, <1>11, <1>12

LEMMA TypeInit == Init => TypeInv
<1> SUFFICES ASSUME Init PROVE TypeInv
  OBVIOUS
<1>1. \A S : <<>> \in Seq(S) /\ Len(<<>>) = 0
  BY EmptySeq
<1>2. TypeOK
  <2>1. at \in Place
    BY DEF Init, Place
  <2>2. outClosed \in BOOLEAN /\ stopped \in BOOLEAN
    BY Zenon DEF Init
  <2>3. held \in LogNo \cup {Nil} /\ taken \in 0..Logs /\ attempt \in 1..Attempts
    BY NstatAssumption DEF Init
  <2> QED BY <1>1, <2>1, <2>2, <2>3, NstatAssumption DEF Init, TypeOK
<1> QED BY <1>1, <1>2 DEF Init, TypeInv, Places, Flow, AtRest, Drained, Empty, NilOnlyInShutdown

LEMMA TypeStep == ASSUME TypeInv, [Next]_vars PROVE TypeInv'
<1>1. CASE UNCHANGED vars
  <2>1. MessageNo' = MessageNo /\ Handled' = Handled
    BY <1>1, ContentFixed DEF vars
  <2> QED
    BY <1>1, <2>1
    DEF vars, TypeInv, TypeOK, Places, Flow, AtRest, Drained, Empty, NilOnlyInShutdown
<1> QED BY <1>1, CollectorType, ProcessorType, ConsumerType, ServerType DEF Next

LEMMA Typed == Spec => []TypeInv
  BY TypeInit, TypeStep, PTL DEF Spec

\* Every variable keeps to its type; no channel, batch or counter of attempts
\* exceeds its limit.
THEOREM TypeCorrect == Spec => []TypeOK
<1>1. TypeInv => TypeOK
  BY DEF TypeInv
<1> QED BY <1>1, Typed, PTL

\* Whatever was logged, refused, retried or lost, counters of the same thing
\* agree: the service has got whole logs' factors, and those of one log agree.
THEOREM ServiceCountersAgree == Spec => []CountersAgree
<1>1. TypeInv => CountersAgree
  <2> SUFFICES ASSUME TypeInv PROVE CountersAgree
    OBVIOUS
  <2>1. applied \in Seq(Handled) /\ \A d \in Handled : Agree(d.factors)
    BY DEF TypeInv, Flow, Handled
  <2> QED BY <2>1, TotalsAgree
<1> QED BY <1>1, Typed, PTL

\* The consumer meets a closed channel in its inner loop only after stopCh was
\* closed and the channel drained.
THEOREM NilPanicsOnlyInShutdown == Spec => []NilOnlyInShutdown
<1>1. TypeInv => NilOnlyInShutdown
  BY DEF TypeInv
<1> QED BY <1>1, Typed, PTL

(***************************************************************************)
(* The pipeline.  Ahead are the logs that the consumer has not taken yet.  *)
(* What goes on upstream can add the next log to them and remove one that  *)
(* does not count; the consumer takes the first of them.                   *)
(***************************************************************************)
Holding == IF held = Nil THEN <<>> ELSE <<held>>

Ahead == Numbers(outbound) \o Numbers(stat) \o inbound \o Holding

LEMMA AheadType ==
    ASSUME TypeInv
    PROVE  /\ Numbers(outbound) \in Seq(LogNo) /\ Numbers(stat) \in Seq(LogNo)
           /\ inbound \in Seq(LogNo) /\ Holding \in Seq(LogNo)
           /\ Ahead \in Seq(LogNo) /\ Ahead \in Seq(Nat)
           /\ Numbers(batch) \in Seq(LogNo) /\ Numbers(batch) \in Seq(Nat)
           /\ InFlight = Numbers(batch) \o Ahead
<1> DEFINE b == Numbers(batch)
           o == Numbers(outbound)
           s == Numbers(stat)
           h == Holding
<1>1. b \in Seq(LogNo) /\ o \in Seq(LogNo) /\ s \in Seq(LogNo) /\ inbound \in Seq(LogNo)
  BY NumbersType DEF TypeInv, TypeOK
<1>2. h \in Seq(LogNo)
  BY DEF Holding, TypeInv, TypeOK
<1>3. InFlight = b \o o \o s \o inbound \o h
  BY DEF InFlight, Holding
<1> HIDE DEF b, o, s, h
<1>4. o \o s \in Seq(LogNo) /\ o \o s \o inbound \in Seq(LogNo)
  BY <1>1, ConcatProperties
<1>5. o \o s \o inbound \o h \in Seq(LogNo)
  BY <1>1, <1>2, <1>4, ConcatProperties
<1>6. b \o o \o s \o inbound \o h = b \o (o \o s \o inbound \o h)
  <2>1. b \o o \o s = b \o (o \o s)
    BY <1>1, ConcatAssociative
  <2>2. (b \o (o \o s)) \o inbound = b \o (o \o s \o inbound)
    BY <1>1, <1>4, ConcatAssociative
  <2>3. (b \o (o \o s \o inbound)) \o h = b \o (o \o s \o inbound \o h)
    <3> DEFINE w == o \o s \o inbound
    <3>1. w \in Seq(LogNo) /\ b \in Seq(LogNo) /\ h \in Seq(LogNo)
      BY <1>1, <1>2, <1>4
    <3> HIDE DEF w
    <3>2. (b \o w) \o h = b \o (w \o h)
      BY <3>1, ConcatAssociative
    <3> QED BY <3>2 DEF w
  <2> QED BY <2>1, <2>2, <2>3
<1>7. LogNo \subseteq Nat
  BY DEF LogNo
<1>8. b \in Seq(Nat) /\ (o \o s \o inbound \o h) \in Seq(Nat)
  BY <1>1, <1>5, <1>7, SeqMonotonic
<1> QED BY <1>1, <1>2, <1>3, <1>5, <1>6, <1>8 DEF b, o, s, h, Ahead

\* What upstream does to the logs ahead of the consumer.
LEMMA UpstreamFlow ==
    ASSUME TypeInv,
           \/ CollectorStarts \/ CollectorTakes \/ CollectorSends \/ CollectorEof
           \/ CollectorStops \/ Reports("collector")
           \/ ProcessorHandles \/ ProcessorPanics \/ ProcessorSends \/ ProcessorStops
    PROVE  \/ taken' = taken /\ Ahead' = Ahead
           \/ taken' = taken + 1 /\ content[taken + 1] = Nil /\ Ahead' = Ahead
           \/ taken' = taken + 1 /\ Ahead' = Ahead \o <<taken + 1>>
           \/ /\ taken' = taken
              /\ \E u, v \in Seq(LogNo), n \in LogNo :
                    ~Counts(n) /\ Ahead = u \o (<<n>> \o v) /\ Ahead' = u \o v
<1> DEFINE o == Numbers(outbound)
           s == Numbers(stat)
           h == Holding
<1>1. o \in Seq(LogNo) /\ s \in Seq(LogNo) /\ inbound \in Seq(LogNo) /\ h \in Seq(LogNo)
  BY AheadType
<1>2. Ahead = o \o s \o inbound \o h
  BY DEF Ahead
<1>3. o \o s \in Seq(LogNo) /\ o \o s \o inbound \in Seq(LogNo)
  <2> HIDE DEF o, s
  <2> QED BY <1>1, ConcatProperties
<1>4. ASSUME UNCHANGED <<outbound, stat, inbound, held, taken>>
      PROVE  taken' = taken /\ Ahead' = Ahead
  BY <1>4 DEF Ahead, Holding
<1>5. CASE CollectorStarts \/ CollectorEof \/ CollectorStops \/ Reports("collector")
             \/ ProcessorStops
  BY <1>4, <1>5 DEF CollectorStarts, CollectorEof, CollectorStops, Reports, ProcessorStops,
     collectorRest, processorRest
<1>6. CASE CollectorTakes
  <2>1. UNCHANGED <<outbound, stat, inbound>> /\ taken' = taken + 1 /\ held = Nil
        /\ taken + 1 \in LogNo
    <3>1. at.collector = "select" /\ UNCHANGED <<outbound, stat, inbound>> /\ taken' = taken + 1
          /\ taken < Logs
      BY <1>6 DEF CollectorTakes, collectorRest, At
    <3>2. held = Nil
      BY <3>1 DEF TypeInv, Places
    <3>3. taken \in 0..Logs /\ Logs \in Nat
      BY NstatAssumption DEF TypeInv, TypeOK
    <3> QED BY <3>1, <3>2, <3>3 DEF LogNo
  <2>2. CASE content[taken + 1] = Nil
    BY <1>6, <2>1, <2>2 DEF CollectorTakes, Ahead, Holding
  <2>3. CASE content[taken + 1] # Nil
    <3>1. held' = taken + 1 /\ held' # Nil
      BY <1>6, <2>1, <2>3, NstatAssumption DEF CollectorTakes, LogNo
    <3>2. h = <<>> /\ h' = <<taken + 1>>
      BY <2>1, <3>1 DEF Holding
    <3>3. Ahead = o \o s \o inbound
      <4> HIDE DEF o, s, h
      <4> QED BY <1>2, <1>3, <3>2, ConcatEmptySeq
    <3>4. Ahead' = o \o s \o inbound \o <<taken + 1>>
      BY <2>1, <3>2 DEF Ahead
    <3> QED BY <2>1, <3>3, <3>4
  <2> QED BY <2>2, <2>3
<1>7. CASE CollectorSends
  <2>1. /\ UNCHANGED <<outbound, stat, taken>> /\ inbound' = Append(inbound, held)
        /\ held' = Nil /\ held # Nil /\ held \in LogNo
    BY <1>7 DEF CollectorSends, collectorRest, At, TypeInv, TypeOK, Places
  <2>2. h = <<held>> /\ h' = <<>> /\ h' \in Seq(LogNo)
    BY <2>1 DEF Holding
  <2>3. inbound' = inbound \o h
    BY <1>1, <2>1, <2>2, AppendIsConcat
  <2>4. Ahead' = o \o s \o (inbound \o h) \o <<>>
    BY <2>1, <2>2, <2>3 DEF Ahead
  <2> HIDE DEF o, s, h
  <2>5. inbound \o h \in Seq(LogNo)
    BY <1>1, ConcatProperties
  <2>6. o \o s \o (inbound \o h) \in Seq(LogNo)
    BY <1>3, <2>5, ConcatProperties
  <2>7. Ahead' = o \o s \o (inbound \o h)
    BY <2>4, <2>6, ConcatEmptySeq
  <2>8. o \o s \o (inbound \o h) = o \o s \o inbound \o h
    <3> DEFINE w == o \o s
    <3>1. w \in Seq(LogNo) /\ inbound \in Seq(LogNo) /\ h \in Seq(LogNo)
      BY <1>1, <1>3
    <3> HIDE DEF w
    <3>2. (w \o inbound) \o h = w \o (inbound \o h)
      BY <3>1, ConcatAssociative
    <3> QED BY <3>2 DEF w
  <2> QED BY <1>2, <2>1, <2>7, <2>8
<1>8. CASE ProcessorHandles \/ ProcessorPanics
  <2> DEFINE n == Head(inbound)
             v == Tail(inbound) \o h
  <2>1. /\ UNCHANGED <<outbound, taken, held>> /\ inbound' = Tail(inbound) /\ inbound # <<>>
        /\ stat = <<>>
    BY <1>8 DEF ProcessorHandles, ProcessorPanics, processorRest, At, TypeInv, Places
  <2>2. n \in LogNo /\ Tail(inbound) \in Seq(LogNo) /\ inbound = <<n>> \o Tail(inbound)
        /\ <<n>> \in Seq(LogNo)
    BY <1>1, <2>1, HeadTailProperties, HeadTailConcat
  <2>3. s = <<>> /\ h' = h
    BY <2>1, NumbersSmall DEF Holding
  <2>4. Ahead' = o \o Numbers(stat)' \o Tail(inbound) \o h
    BY <2>1, <2>3 DEF Ahead
  <2> HIDE DEF o, s, h, n
  <2>5. o \o s = o /\ v \in Seq(LogNo)
    BY <1>1, <2>2, <2>3, ConcatEmptySeq, ConcatProperties
  <2>6. Ahead = o \o (<<n>> \o v)
    <3>1. <<n>> \o Tail(inbound) \o h = <<n>> \o v
      BY <1>1, <2>2, ConcatAssociative
    <3>2. o \o inbound \o h = o \o (inbound \o h)
      BY <1>1, ConcatAssociative
    <3> QED BY <1>2, <2>2, <2>5, <3>1, <3>2
  <2>7. CASE ProcessorPanics \/ Refused(content[n])
    <3>0. ~Counts(n)
      BY <2>7 DEF ProcessorPanics, Panics, Counts, n
    <3>1. Numbers(stat)' = <<>>
      BY <1>8, <2>1, <2>7, NumbersSmall DEF ProcessorHandles, ProcessorPanics, n
    <3>2. Ahead' = o \o Tail(inbound) \o h
      BY <1>1, <2>4, <3>1, ConcatEmptySeq
    <3>3. o \o Tail(inbound) \o h = o \o v
      BY <1>1, <2>2, ConcatAssociative
    <3> QED BY <1>1, <2>1, <2>2, <2>5, <2>6, <3>0, <3>2, <3>3
  <2>8. CASE ProcessorHandles /\ ~Refused(content[n])
    <3> DEFINE d == [n |-> n, factors |-> FactorsOf(content[n], cache)]
    <3>1. stat' = <<d>>
      BY <2>8 DEF ProcessorHandles, n
    <3>2. d \in StatData /\ d.n = n
      <4>1. stat' \in Seq(StatData)
        BY <2>8, ProcessorType DEF TypeInv, TypeOK
      <4>2. stat'[1] \in StatData
        BY <3>1, <4>1, ElementOfSeq
      <4> QED BY <3>1, <4>2
    <3>3. Numbers(stat)' = <<n>>
      BY <3>1, <3>2, NumbersSmall
    <3>4. Ahead' = o \o <<n>> \o Tail(inbound) \o h
      BY <2>4, <3>3
    <3> HIDE DEF d
    <3>5. o \o <<n>> \o Tail(inbound) = o \o inbound
      BY <1>1, <2>2, ConcatAssociative
    <3> QED BY <1>2, <2>1, <2>5, <3>4, <3>5
  <2> QED BY <1>8, <2>7, <2>8
<1>9. CASE ProcessorSends
  <2>1. UNCHANGED <<inbound, held, taken>> /\ outbound' = outbound \o stat /\ stat' = <<>>
    BY <1>9 DEF ProcessorSends, processorRest
  <2>2. Numbers(outbound)' = o \o s /\ Numbers(stat)' = <<>>
    BY <2>1, NumbersConcat, NumbersSmall DEF TypeInv, TypeOK
  <2>3. Ahead' = o \o s \o <<>> \o inbound \o h
    BY <2>1, <2>2 DEF Ahead, Holding
  <2> HIDE DEF o, s, h
  <2> QED BY <1>2, <1>3, <2>1, <2>3, ConcatEmptySeq
<1> QED BY <1>5, <1>6, <1>7, <1>8, <1>9

(***************************************************************************)
(* Order and accounting.  Logs are ahead of the consumer, in its batch or  *)
(* counted by the service, and a batch is counted as a whole or not at all.*)
(***************************************************************************)
Waiting == Range(Ahead)
InBatch == Range(Numbers(batch))
Counted == Range(Numbers(applied))

OrderInv ==
    /\ Rising(Ahead) /\ Rising(Numbers(batch))
    /\ Waiting \subseteq 1..taken /\ InBatch \subseteq 1..taken /\ Counted \subseteq 1..taken
    /\ Below(InBatch, Waiting)
    /\ Below(Counted, Waiting)
    /\ at.consumer = "take" => Below(Counted, InBatch)
    /\ Below(Counted, InBatch) \/ InBatch \subseteq Counted

Accounted == \A n \in 1..taken : Counts(n) => n \in Counted \cup InBatch \cup Waiting

FlowInv == TypeInv /\ OrderInv /\ Accounted /\ CountedPerAttempt

\* What goes on upstream adds the newest log or removes one that does not count.
LEMMA UpstreamOrder ==
    ASSUME TypeInv, Rising(Ahead), Waiting \subseteq 1..taken,
           \/ CollectorStarts \/ CollectorTakes \/ CollectorSends \/ CollectorEof
           \/ CollectorStops \/ Reports("collector")
           \/ ProcessorHandles \/ ProcessorPanics \/ ProcessorSends \/ ProcessorStops
    PROVE  /\ taken' \in {taken, taken + 1}
           /\ Rising(Ahead')
           /\ Waiting' \subseteq 1..taken'
           /\ \A n \in Waiting' : n \in Waiting \/ n = taken + 1
           /\ \A n \in 1..taken' : Counts(n) => n \in Waiting' \/ (n <= taken /\ n \notin Waiting)
<1>1. taken \in Nat /\ Ahead \in Seq(Nat) /\ Ahead \in Seq(LogNo) /\ LogNo \subseteq Nat
  BY AheadType DEF TypeInv, TypeOK, LogNo
<1>2. CASE taken' = taken /\ Ahead' = Ahead
  BY <1>1, <1>2 DEF Waiting
<1>3. CASE taken' = taken + 1 /\ content[taken + 1] = Nil /\ Ahead' = Ahead
  <2>1. ~Counts(taken + 1)
    BY <1>3 DEF Counts
  <2>2. \A n \in 1 .. (taken + 1) : n = taken + 1 \/ n \in 1..taken
    BY <1>1
  <2>3. 1..taken \subseteq 1 .. (taken + 1)
    BY <1>1
  <2> QED BY <1>1, <1>3, <2>1, <2>2, <2>3 DEF Waiting
<1>4. CASE taken' = taken + 1 /\ Ahead' = Ahead \o <<taken + 1>>
  <2> DEFINE one == <<taken + 1>>
  <2>1. one \in Seq(Nat) /\ Rising(one) /\ Range(one) = {taken + 1}
    BY <1>1, RisingOne
  <2> HIDE DEF one
  <2>2. Waiting' = Waiting \cup {taken + 1}
    <3>1. Range(Ahead \o one) = Range(Ahead) \cup Range(one)
      BY <1>1, <2>1, RangeConcatenation
    <3>2. Ahead' = Ahead \o one
      BY <1>4 DEF one
    <3> QED BY <2>1, <3>1, <3>2, Zenon DEF Waiting
  <2>3. Below(Waiting, {taken + 1})
    BY <1>1 DEF Below
  <2>4. Rising(Ahead')
    BY <1>1, <1>4, <2>1, <2>3, RisingConcat DEF Waiting, one
  <2>5. \A n \in 1 .. (taken + 1) : n = taken + 1 \/ n \in 1..taken
    BY <1>1
  <2>6. 1..taken \subseteq 1 .. (taken + 1) /\ taken + 1 \in 1 .. (taken + 1)
    BY <1>1
  <2> QED BY <1>1, <1>4, <2>2, <2>4, <2>5, <2>6
<1>5. ASSUME taken' = taken, NEW u \in Seq(LogNo), NEW v \in Seq(LogNo), NEW n \in LogNo,
             ~Counts(n), Ahead = u \o (<<n>> \o v), Ahead' = u \o v
      PROVE  /\ Rising(Ahead')
             /\ Waiting' \subseteq Waiting
             /\ Waiting \subseteq Waiting' \cup {n}
  <2> DEFINE one == <<n>>
  <2>1. u \in Seq(Nat) /\ v \in Seq(Nat) /\ n \in Nat
    BY <1>1, <1>5, SeqMonotonic
  <2>2. one \in Seq(Nat) /\ Rising(one) /\ Range(one) = {n}
    BY <2>1, RisingOne
  <2> HIDE DEF one
  <2>3. one \o v \in Seq(Nat) /\ Range(one \o v) = {n} \cup Range(v)
    BY <2>1, <2>2, ConcatProperties, RangeConcatenation
  <2>4. Ahead = u \o (one \o v)
    BY <1>5 DEF one
  <2>5. /\ Waiting = Range(u) \cup ({n} \cup Range(v))
        /\ Rising(u) /\ Rising(one \o v) /\ Below(Range(u), {n} \cup Range(v))
    <3> DEFINE w == one \o v
    <3>1. w \in Seq(Nat) /\ Range(w) = {n} \cup Range(v)
      BY <2>3
    <3>2. Ahead = u \o w
      BY <2>4
    <3> HIDE DEF w
    <3>3. Range(u \o w) = Range(u) \cup Range(w)
      BY <2>1, <3>1, RangeConcatenation
    <3>4. Rising(u) /\ Rising(w) /\ Below(Range(u), Range(w))
      BY <2>1, <3>1, <3>2, RisingConcat
    <3>5. Waiting = Range(u) \cup Range(w)
      BY <3>2, <3>3 DEF Waiting
    <3> QED BY <3>1, <3>4, <3>5 DEF w
  <2>6. Rising(v) /\ Below(Range(u), Range(v))
    BY <2>1, <2>2, <2>3, <2>5, RisingConcat DEF Below
  <2>7. Rising(u \o v) /\ Range(u \o v) = Range(u) \cup Range(v)
    BY <2>1, <2>5, <2>6, RangeConcatenation, RisingConcat
  <2>8. Waiting' = Range(u) \cup Range(v)
    BY <1>5, <2>7 DEF Waiting
  <2> QED BY <1>5, <2>5, <2>7, <2>8
<1>6. CASE /\ taken' = taken
           /\ \E u, v \in Seq(LogNo), n \in LogNo :
                 ~Counts(n) /\ Ahead = u \o (<<n>> \o v) /\ Ahead' = u \o v
  <2>1. PICK n \in LogNo : /\ Rising(Ahead') /\ Waiting' \subseteq Waiting
                           /\ Waiting \subseteq Waiting' \cup {n} /\ ~Counts(n)
    BY <1>5, <1>6
  <2> QED BY <1>1, <1>6, <2>1
<1> QED BY <1>2, <1>3, <1>4, <1>6, UpstreamFlow

\* Whether a log counts does not change while the program runs.
LEMMA CountsStay ==
    ASSUME content' = content, NEW n PROVE Counts(n)' <=> Counts(n)
  BY FactorsByRoster DEF Counts

\* The places at which the service was given log n.
Times(n) == {i \in DOMAIN applied : applied[i].n = n}

LEMMA TimesAre ==
    ASSUME NEW s \in Seq(StatData), NEW n
    PROVE  {i \in DOMAIN s : s[i].n = n} = Occurs(Numbers(s), n)
<1>1. /\ DOMAIN Numbers(s) = 1..Len(s) /\ DOMAIN s = 1..Len(s)
      /\ \A i \in 1..Len(s) : Numbers(s)[i] = s[i].n
  BY NumbersType
<1> QED BY <1>1 DEF Occurs

LEMMA TimesType ==
    ASSUME TypeInv, NEW n
    PROVE  /\ IsFiniteSet(Times(n)) /\ Cardinality(Times(n)) \in Nat
           /\ n \notin Counted => Cardinality(Times(n)) = 0
<1>1. Numbers(applied) \in Seq(LogNo) /\ Times(n) = Occurs(Numbers(applied), n)
  BY NumbersType, TimesAre DEF TypeInv, TypeOK, Times
<1> QED BY <1>1, OccursType DEF Counted

\* A commit adds one to the times a log of the batch was counted.
LEMMA CommitTimes ==
    ASSUME TypeInv, Rising(Numbers(batch)), applied' = applied \o batch, NEW n
    PROVE  /\ Cardinality(Times(n)') \in Nat
           /\ Cardinality(Times(n)') <= Cardinality(Times(n)) + 1
           /\ n \notin InBatch => Times(n)' = Times(n)
<1> DEFINE a == Numbers(applied)
           b == Numbers(batch)
<1>1. /\ applied \in Seq(StatData) /\ batch \in Seq(StatData)
      /\ Numbers(applied \o batch) = a \o b
  BY NumbersConcat DEF TypeInv, TypeOK
<1>t. Times(n)' = Occurs(a \o b, n)
  <2> DEFINE u == applied \o batch
  <2>1. u \in Seq(StatData)
    BY <1>1, ConcatProperties
  <2>2. Times(n)' = {i \in DOMAIN u : u[i].n = n}
    BY DEF Times
  <2> HIDE DEF u
  <2>3. Times(n)' = Occurs(Numbers(u), n)
    BY <2>1, <2>2, TimesAre
  <2> QED BY <1>1, <2>3 DEF u
<1>2. a \in Seq(LogNo) /\ b \in Seq(LogNo)
  BY NumbersType DEF TypeInv, TypeOK
<1> HIDE DEF a, b
<1>3. DOMAIN b = 1..Len(b) /\ Len(b) \in Nat /\ \A i \in 1..Len(b) : b[i] \in Nat
  <2>1. LogNo \subseteq Nat
    BY DEF LogNo
  <2>2. DOMAIN b = 1..Len(b) /\ Len(b) \in Nat /\ \A i \in 1..Len(b) : b[i] \in LogNo
    BY <1>2, LenProperties, ElementOfSeq
  <2> QED BY <2>1, <2>2
<1>4. \A i, j \in DOMAIN b : b[i] = n /\ b[j] = n => i = j
  <2>1. Rising(b)
    BY DEF b
  <2> SUFFICES ASSUME NEW i \in DOMAIN b, NEW j \in DOMAIN b, b[i] = n, b[j] = n PROVE i = j
    OBVIOUS
  <2>2. (i < j => b[i] < b[j]) /\ (j < i => b[j] < b[i])
    BY <2>1 DEF Rising
  <2> QED BY <1>3, <2>2
<1>5. /\ Cardinality(Occurs(a \o b, n)) \in Nat
      /\ Cardinality(Occurs(a \o b, n)) <= Cardinality(Occurs(a, n)) + 1
      /\ n \notin Range(b) => Occurs(a \o b, n) = Occurs(a, n)
  BY <1>2, <1>4, OccursConcat
<1>6. Times(n)' = Occurs(a \o b, n) /\ Times(n) = Occurs(a, n) /\ InBatch = Range(b)
  <2>1. Times(n) = Occurs(a, n)
    BY <1>1, TimesAre DEF Times, a
  <2> QED BY <1>t, <2>1 DEF InBatch, b
<1> QED BY <1>5, <1>6

\* The consumer's place, batch and attempt as CountedPerAttempt reads them.
Bound(n) ==
    IF n \in InBatch /\ at.consumer \notin {"hung", "report", "done"}
      THEN attempt - 1 ELSE Attempts

LEMMA CountedAs ==
    CountedPerAttempt <=> \A n \in 1..taken : Cardinality(Times(n)) <= Bound(n)
  BY DEF CountedPerAttempt, Times, Bound, InBatch

LEMMA BoundType ==
    ASSUME TypeInv, NEW n
    PROVE  Bound(n) \in Nat /\ attempt - 1 \in Nat /\ attempt - 1 <= Attempts /\ Attempts \in Nat
  BY NstatAssumption DEF Bound, TypeInv, TypeOK

\* A batch of which nothing is to be sent holds no log that counts.
LEMMA EmptyBatch ==
    ASSUME TypeInv, Empty(batch), NEW n \in InBatch
    PROVE  ~Counts(n)
<1>t. batch \in Seq(StatData)
  BY DEF TypeInv, TypeOK
<1>n. DOMAIN batch = 1..Len(batch) /\ Range(Numbers(batch)) = {batch[i].n : i \in 1..Len(batch)}
  BY <1>t, NumbersType
<1>1. PICK i \in 1..Len(batch) : batch[i].n = n
  BY <1>n DEF InBatch
<1>2. batch[i] \in Handled
  BY ElementOfSeq DEF TypeInv, Flow
<1>3. batch[i].factors = {}
  BY <1>n DEF Empty
<1> QED BY <1>1, <1>2, <1>3, CountsFixed DEF Handled

\* What the consumer takes is the first log ahead of it.
LEMMA FirstAhead ==
    ASSUME TypeInv, Rising(Ahead), outbound # <<>>, outbound' = Tail(outbound),
           UNCHANGED <<stat, inbound, held>>
    PROVE  /\ Head(outbound) \in StatData /\ Head(outbound).n \in Nat
           /\ Rising(Ahead')
           /\ Waiting = {Head(outbound).n} \cup Waiting'
           /\ Below({Head(outbound).n}, Waiting')
<1> DEFINE d == Head(outbound)
           one == <<d.n>>
           t == Numbers(Tail(outbound))
           s == Numbers(stat)
           h == Holding
<1>1. d \in StatData /\ Tail(outbound) \in Seq(StatData) /\ outbound = <<d>> \o Tail(outbound)
      /\ <<d>> \in Seq(StatData)
  BY HeadTailProperties, HeadTailConcat DEF TypeInv, TypeOK
<1>2. d.n \in LogNo /\ LogNo \subseteq Nat
  BY <1>1 DEF StatData, LogNo
<1>3. Numbers(outbound) = one \o t
  <2>1. Numbers(<<d>> \o Tail(outbound)) = Numbers(<<d>>) \o t
    BY <1>1, NumbersConcat
  <2>2. Numbers(<<d>>) = one
    BY <1>1, NumbersSmall
  <2> QED BY <1>1, <2>1, <2>2
<1>4. t \in Seq(LogNo)
  BY <1>1, NumbersType
<1>5. one \in Seq(LogNo)
  BY <1>2
<1>6. s \in Seq(LogNo)
  BY AheadType
<1>7. inbound \in Seq(LogNo)
  BY AheadType
<1>8. h \in Seq(LogNo)
  BY AheadType
<1>9. Ahead = one \o t \o s \o inbound \o h /\ Ahead' = t \o s \o inbound \o h
  <2>1. Numbers(outbound)' = t /\ Numbers(stat)' = s /\ Holding' = h /\ inbound' = inbound
    BY DEF Holding
  <2> QED BY <1>3, <2>1 DEF Ahead
<1>o. one \in Seq(Nat) /\ Range(one) = {d.n}
  BY <1>2, RisingOne
<1> HIDE DEF d, one, t, s, h
<1>10. Ahead = one \o Ahead' /\ Ahead' \in Seq(Nat)
  <2> DEFINE ts == t \o s
             tsi == ts \o inbound
             tsih == tsi \o h
  <2>1. ts \in Seq(LogNo)
    BY <1>4, <1>6, ConcatProperties
  <2>2. one \o t \o s = one \o ts
    BY <1>4, <1>5, <1>6, ConcatAssociative
  <2> HIDE DEF ts
  <2>3. tsi \in Seq(LogNo)
    BY <1>7, <2>1, ConcatProperties
  <2>4. one \o ts \o inbound = one \o tsi
    BY <1>5, <1>7, <2>1, ConcatAssociative
  <2> HIDE DEF tsi
  <2>5. tsih \in Seq(LogNo)
    BY <1>8, <2>3, ConcatProperties
  <2>6. one \o tsi \o h = one \o tsih
    BY <1>5, <1>8, <2>3, ConcatAssociative
  <2> HIDE DEF tsih
  <2>7. tsih \in Seq(Nat)
    BY <1>2, <2>5, SeqMonotonic
  <2> QED BY <1>9, <2>2, <2>4, <2>6, <2>7 DEF ts, tsi, tsih
<1>11. /\ Rising(Ahead') /\ Below(Range(one), Range(Ahead'))
       /\ Range(Ahead) = Range(one) \cup Range(Ahead')
  BY <1>o, <1>10, RisingConcat, RangeConcatenation
<1> QED BY <1>1, <1>2, <1>o, <1>11 DEF d, Waiting

LEMMA UpstreamStep ==
    ASSUME FlowInv,
           \/ CollectorStarts \/ CollectorTakes \/ CollectorSends \/ CollectorEof
           \/ CollectorStops \/ Reports("collector")
           \/ ProcessorHandles \/ ProcessorPanics \/ ProcessorSends \/ ProcessorStops
    PROVE  FlowInv'
<1>1. TypeInv /\ OrderInv /\ Accounted /\ CountedPerAttempt /\ taken \in Nat
  BY DEF FlowInv, TypeInv, TypeOK
<1>2. TypeInv'
  BY <1>1, CollectorType, ProcessorType
<1>3. UNCHANGED <<content, batch, applied, attempt>> /\ at'.consumer = at.consumer
  <2>1. UNCHANGED <<content, batch, applied, attempt>>
    BY DEF CollectorStarts, CollectorTakes, CollectorSends, CollectorEof, CollectorStops, Reports,
       ProcessorHandles, ProcessorPanics, ProcessorSends, ProcessorStops, collectorRest,
       processorRest
  <2>2. \/ at' = at
        \/ \E place : at' = [at EXCEPT !["collector"] = place]
        \/ \E place : at' = [at EXCEPT !["processor"] = place]
    BY DEF CollectorStarts, CollectorTakes, CollectorSends, CollectorEof, CollectorStops, Reports,
       ProcessorHandles, ProcessorPanics, ProcessorSends, ProcessorStops, Goes
  <2>3. at \in Place
    BY <1>1 DEF TypeInv, TypeOK
  <2>4. at'.consumer = at.consumer
    BY <2>2, <2>3 DEF Place
  <2> QED BY <2>1, <2>4
<1>4. /\ taken' \in {taken, taken + 1}
      /\ Rising(Ahead')
      /\ Waiting' \subseteq 1..taken'
      /\ \A n \in Waiting' : n \in Waiting \/ n = taken + 1
      /\ \A n \in 1..taken' : Counts(n) => n \in Waiting' \/ (n <= taken /\ n \notin Waiting)
  BY <1>1, UpstreamOrder DEF OrderInv
<1>5. InBatch' = InBatch /\ Counted' = Counted /\ Numbers(batch)' = Numbers(batch)
  BY <1>3 DEF InBatch, Counted
<1>6. OrderInv'
  <2>1. 1..taken \subseteq 1..taken'
    BY <1>1, <1>4
  <2>2. Below(InBatch, Waiting') /\ Below(Counted, Waiting')
    BY <1>1, <1>4 DEF OrderInv, Below
  <2>3. InBatch \subseteq 1..taken' /\ Counted \subseteq 1..taken'
    BY <1>1, <2>1 DEF OrderInv
  <2> QED BY <1>1, <1>3, <1>4, <1>5, <2>2, <2>3 DEF OrderInv
<1>7. Accounted'
  <2>1. ASSUME NEW n \in 1..taken', Counts(n)' PROVE n \in Counted \cup InBatch \cup Waiting'
    <3>1. Counts(n)
      BY <1>3, <2>1, CountsStay
    <3>2. CASE n <= taken /\ n \notin Waiting
      <4>1. n \in 1..taken
        BY <1>1, <1>4, <3>2
      <4> QED BY <1>1, <3>1, <3>2, <4>1 DEF Accounted
    <3> QED BY <1>4, <3>1, <3>2
  <2> QED BY <1>5, <2>1 DEF Accounted
<1>8. CountedPerAttempt'
  <2>1. \A n : Times(n)' = Times(n)
    BY <1>3 DEF Times
  <2>2. \A n : Bound(n)' = Bound(n)
    BY <1>3, <1>5 DEF Bound
  <2>3. ASSUME NEW n \in 1..taken' PROVE Cardinality(Times(n)) <= Bound(n)
    <3>1. CASE n \in 1..taken
      BY <1>1, <3>1, CountedAs
    <3>2. CASE n = taken + 1
      <4>1. n \notin Counted
        BY <1>1, <3>2 DEF OrderInv
      <4>2. Cardinality(Times(n)) = 0 /\ Bound(n) \in Nat
        BY <1>1, <4>1, TimesType, BoundType
      <4> QED BY <4>2
    <3> QED BY <1>1, <1>4, <3>1, <3>2
  <2>4. \A n \in 1..taken' : Cardinality(Times(n))' <= Bound(n)'
    BY <2>1, <2>2, <2>3
  <2> QED BY <1>3, <2>4 DEF CountedPerAttempt, Times, Bound, InBatch
<1> QED BY <1>2, <1>6, <1>7, <1>8 DEF FlowInv

LEMMA ServerStep ==
    ASSUME FlowInv, ModeratorIsTold \/ Interrupt \/ LoaderReloads \/ LoaderHangs \/ LoaderStops
    PROVE  FlowInv'
<1>1. TypeInv /\ OrderInv /\ Accounted /\ CountedPerAttempt
  BY DEF FlowInv
<1>2. TypeInv'
  BY <1>1, ServerType
<1>3. UNCHANGED serverRest
  BY DEF ModeratorIsTold, Interrupt, LoaderReloads, LoaderHangs, LoaderStops
<1>4. at'.consumer = at.consumer
  <2>1. at \in Place
    BY <1>1 DEF TypeInv, TypeOK
  <2> QED BY <2>1 DEF Place, Goes, ModeratorIsTold, Interrupt, LoaderReloads, LoaderHangs, LoaderStops
<1>5. Ahead' = Ahead /\ Numbers(batch)' = Numbers(batch) /\ taken' = taken
  BY <1>3 DEF serverRest, Ahead, Holding
<1>6. InBatch' = InBatch /\ Counted' = Counted /\ Waiting' = Waiting
  BY <1>3, <1>5 DEF serverRest, InBatch, Counted, Waiting
<1>7. OrderInv'
  BY <1>1, <1>4, <1>5, <1>6 DEF OrderInv
<1>8. Accounted'
  <2>1. \A n : Counts(n)' => Counts(n)
    BY <1>3, CountsStay DEF serverRest
  <2> QED BY <1>1, <1>5, <1>6, <2>1 DEF Accounted
<1>9. CountedPerAttempt'
  BY <1>1, <1>3, <1>4 DEF serverRest, CountedPerAttempt
<1> QED BY <1>2, <1>7, <1>8, <1>9 DEF FlowInv

LEMMA Accounts ==
    ASSUME FlowInv, UNCHANGED <<content, taken>>,
           \A n \in Waiting : n \in Waiting' \cup InBatch',
           Counted \subseteq Counted',
           \A n \in InBatch : Counts(n) => n \in InBatch' \cup Counted'
    PROVE  Accounted'
<1>1. \A n : Counts(n)' => Counts(n)
  BY CountsStay
<1> QED BY <1>1 DEF FlowInv, Accounted

\* A step that leaves the logs ahead alone and puts the batch down: it is empty,
\* or nothing of it counts.
LEMMA BatchDropped ==
    ASSUME FlowInv, Empty(batch), batch' = <<>>,
           UNCHANGED <<content, taken, applied, attempt, outbound, stat, inbound, held>>
    PROVE  OrderInv' /\ Accounted' /\ CountedPerAttempt'
<1>1. TypeInv /\ OrderInv /\ CountedPerAttempt
  BY DEF FlowInv
<1>2. Waiting' = Waiting /\ Ahead' = Ahead /\ Counted' = Counted
  BY DEF Waiting, Ahead, Holding, Counted
<1>3. InBatch' = {} /\ Rising(Numbers(batch))'
  <2>1. Numbers(batch)' = <<>>
    BY NumbersSmall
  <2>2. Range(<<>>) = {} /\ Rising(<<>>)
    BY DEF Range, Rising
  <2> QED BY <2>1, <2>2 DEF InBatch
<1>4. OrderInv'
  BY <1>1, <1>2, <1>3 DEF OrderInv, Below
<1>5. Accounted'
  <2>1. \A n \in InBatch : ~Counts(n)
    BY <1>1, EmptyBatch
  <2> QED BY <1>2, <2>1, Accounts
<1>6. CountedPerAttempt'
  <2>1. ASSUME NEW n \in 1..taken PROVE Cardinality(Times(n)) <= Attempts
    <3>1. Cardinality(Times(n)) <= Bound(n) /\ Cardinality(Times(n)) \in Nat
      BY <1>1, CountedAs, TimesType
    <3>2. Bound(n) = Attempts \/ Bound(n) = attempt - 1
      BY DEF Bound
    <3>3. attempt - 1 \in Nat /\ attempt - 1 <= Attempts /\ Attempts \in Nat
      BY <1>1, BoundType
    <3> QED BY <3>1, <3>2, <3>3
  <2>2. \A n : Bound(n)' = Attempts
    BY <1>3 DEF Bound
  <2>3. \A n : Times(n)' = Times(n)
    BY DEF Times
  <2>4. \A n \in 1..taken' : Cardinality(Times(n))' <= Bound(n)'
    BY <2>1, <2>2, <2>3
  <2> QED BY <2>4 DEF CountedPerAttempt, Times, Bound, InBatch
<1> QED BY <1>4, <1>5, <1>6

\* The loop over the channel ends; nothing of the batch was sent so far.
LEMMA BatchTaken ==
    ASSUME FlowInv, ConsumerTaken
    PROVE  OrderInv' /\ Accounted' /\ CountedPerAttempt'
<1>1. TypeInv /\ OrderInv /\ CountedPerAttempt
  BY DEF FlowInv
<1>2. /\ UNCHANGED <<content, taken, applied, batch, outbound, stat, inbound, held>>
      /\ at.consumer = "take" /\ attempt' = 1
  BY DEF ConsumerTaken, consumerRest, At
<1>3. at'.consumer \in {"select", "commit"}
  BY <1>1 DEF ConsumerTaken, Goes, TypeInv, TypeOK, Place
<1>4. Waiting' = Waiting /\ Ahead' = Ahead /\ Counted' = Counted /\ InBatch' = InBatch
      /\ Numbers(batch)' = Numbers(batch)
  BY <1>2 DEF Waiting, Ahead, Holding, Counted, InBatch
<1>5. OrderInv'
  BY <1>1, <1>2, <1>3, <1>4 DEF OrderInv
<1>6. Accounted'
  BY <1>2, <1>4, Accounts
<1>7. CountedPerAttempt'
  <2>1. ASSUME NEW n \in 1..taken PROVE Cardinality(Times(n)) <= Bound(n)'
    <3>1. CASE n \in InBatch
      <4>1. n \notin Counted
        BY <1>1, <1>2, <3>1 DEF OrderInv, Below
      <4>2. Cardinality(Times(n)) = 0
        BY <1>1, <4>1, TimesType
      <4>3. Bound(n)' = 0
        BY <1>2, <1>3, <1>4, <3>1 DEF Bound
      <4> QED BY <4>2, <4>3
    <3>2. CASE n \notin InBatch
      <4>1. Bound(n)' = Bound(n)
        BY <1>4, <3>2 DEF Bound
      <4> QED BY <1>1, <4>1, CountedAs
    <3> QED BY <3>1, <3>2
  <2>2. \A n : Times(n)' = Times(n)
    BY <1>2 DEF Times
  <2>3. \A n \in 1..taken' : Cardinality(Times(n))' <= Bound(n)'
    BY <1>2, <2>1, <2>2
  <2> QED BY <2>3 DEF CountedPerAttempt, Times, Bound, InBatch
<1> QED BY <1>5, <1>6, <1>7

\* The consumer puts the first log ahead of it behind, or in place of, a batch
\* of which the service has nothing.
LEMMA FirstTaken ==
    ASSUME FlowInv, outbound # <<>>, outbound' = Tail(outbound),
           UNCHANGED <<content, taken, applied, stat, inbound, held>>,
           \/ /\ at.consumer = "take" /\ batch' = Append(batch, Head(outbound))
              /\ UNCHANGED <<at, attempt>>
           \/ /\ at.consumer = "drain" /\ batch' = <<Head(outbound)>> /\ attempt' = 1
              /\ at'.consumer \in {"drain", "drainCommit"}
    PROVE  OrderInv' /\ Accounted' /\ CountedPerAttempt'
<1> DEFINE d == Head(outbound)
<1>1. TypeInv /\ OrderInv /\ CountedPerAttempt /\ batch \in Seq(StatData) /\ taken \in Nat
  BY DEF FlowInv, TypeInv, TypeOK
<1>2. /\ d \in StatData /\ d.n \in Nat
      /\ Rising(Ahead') /\ Waiting = {d.n} \cup Waiting' /\ Below({d.n}, Waiting')
  BY <1>1, FirstAhead DEF OrderInv
<1>3. Counted' = Counted
  BY DEF Counted
<1> HIDE DEF d
<1>4. CASE at.consumer = "take"
  <2>1. batch' = batch \o <<d>> /\ <<d>> \in Seq(StatData) /\ UNCHANGED <<at, attempt>>
    BY <1>1, <1>2, <1>4, AppendIsConcat DEF d
  <2>2. Numbers(batch)' = Numbers(batch) \o <<d.n>>
    <3>1. Numbers(batch \o <<d>>) = Numbers(batch) \o Numbers(<<d>>)
      BY <1>1, <2>1, NumbersConcat
    <3> QED BY <1>2, <2>1, <3>1, NumbersSmall
  <2> DEFINE b == Numbers(batch)
             one == <<d.n>>
  <2>3. b \in Seq(Nat)
    BY <1>1, AheadType
  <2>4. one \in Seq(Nat) /\ Rising(one) /\ Range(one) = {d.n}
    BY <1>2, RisingOne
  <2>5. Below(Range(b), {d.n}) /\ Below(InBatch, Waiting') /\ Rising(b)
    BY <1>1, <1>2 DEF OrderInv, Below, InBatch
  <2> HIDE DEF b, one
  <2>6. Rising(b \o one) /\ Range(b \o one) = Range(b) \cup {d.n}
    <3>1. Rising(b \o one)
      BY <2>3, <2>4, <2>5, RisingConcat
    <3>2. Range(b \o one) = Range(b) \cup Range(one)
      BY <2>3, <2>4, RangeConcatenation
    <3> QED BY <2>4, <3>1, <3>2
  <2>7. InBatch' = InBatch \cup {d.n} /\ Rising(Numbers(batch)')
    BY <2>2, <2>6 DEF InBatch, b, one
  <2>8. Below(Counted, InBatch) /\ Below(Counted, Waiting)
    BY <1>1, <1>4 DEF OrderInv
  <2>9. Below(Counted, InBatch') /\ Below(Counted, Waiting') /\ Below(InBatch', Waiting')
    BY <1>2, <2>5, <2>7, <2>8 DEF Below
  <2>10. OrderInv'
    BY <1>1, <1>2, <1>3, <2>7, <2>9 DEF OrderInv
  <2>11. Accounted'
    BY <1>2, <1>3, <2>7, Accounts
  <2>12. ASSUME NEW n \in 1..taken PROVE Cardinality(Times(n)) <= Bound(n)'
    <3>1. CASE n \in InBatch'
      <4>1. n \notin Counted
        BY <2>9, <3>1 DEF Below
      <4>2. Cardinality(Times(n)) = 0
        BY <1>1, <4>1, TimesType
      <4>3. Bound(n)' = attempt - 1 /\ attempt - 1 \in Nat
        BY <1>1, <1>4, <2>1, <3>1, BoundType DEF Bound
      <4> QED BY <4>2, <4>3
    <3>2. CASE n \notin InBatch'
      <4>1. Bound(n)' = Attempts /\ Bound(n) = Attempts
        BY <2>7, <3>2 DEF Bound
      <4> QED BY <1>1, <4>1, CountedAs
    <3> QED BY <3>1, <3>2
  <2>13. \A n : Times(n)' = Times(n)
    BY DEF Times
  <2>14. \A n \in 1..taken' : Cardinality(Times(n))' <= Bound(n)'
    BY <2>12, <2>13
  <2>15. CountedPerAttempt'
    BY <2>14 DEF CountedPerAttempt, Times, Bound, InBatch
  <2> QED BY <2>10, <2>11, <2>15
<1>5. CASE at.consumer = "drain"
  <2>1. batch' = <<d>> /\ attempt' = 1 /\ at'.consumer \in {"drain", "drainCommit"}
    BY <1>5 DEF d
  <2>2. Numbers(batch)' = <<d.n>>
    BY <1>2, <2>1, NumbersSmall
  <2>3. InBatch' = {d.n} /\ Rising(Numbers(batch)')
    BY <1>2, <2>2, RisingOne DEF InBatch
  <2>4. Below(Counted, InBatch') /\ Below(Counted, Waiting') /\ Below(InBatch', Waiting')
    BY <1>1, <1>2, <2>3 DEF OrderInv, Below
  <2>5. OrderInv'
    BY <1>1, <1>2, <1>3, <2>1, <2>3, <2>4 DEF OrderInv
  <2>6. Accounted'
    <3>1. Empty(batch)
      BY <1>1, <1>5 DEF TypeInv, AtRest
    <3>2. \A n \in InBatch : ~Counts(n)
      BY <1>1, <3>1, EmptyBatch
    <3> QED BY <1>2, <1>3, <2>3, <3>2, Accounts
  <2>7. ASSUME NEW n \in 1..taken PROVE Cardinality(Times(n)) <= Bound(n)'
    <3>1. CASE n = d.n
      <4>1. n \notin Counted
        BY <2>3, <2>4, <3>1, <1>2 DEF Below
      <4>2. Cardinality(Times(n)) = 0
        BY <1>1, <4>1, TimesType
      <4>3. Bound(n)' = 0
        BY <2>1, <2>3, <3>1 DEF Bound
      <4> QED BY <4>2, <4>3
    <3>2. CASE n # d.n
      <4>1. Bound(n)' = Attempts
        BY <2>3, <3>2 DEF Bound
      <4>2. Cardinality(Times(n)) <= Bound(n) /\ Cardinality(Times(n)) \in Nat
        BY <1>1, CountedAs, TimesType
      <4>3. Bound(n) = Attempts \/ Bound(n) = attempt - 1
        BY DEF Bound
      <4>4. attempt - 1 \in Nat /\ attempt - 1 <= Attempts /\ Attempts \in Nat
        BY <1>1, BoundType
      <4> QED BY <4>1, <4>2, <4>3, <4>4
    <3> QED BY <3>1, <3>2
  <2>8. \A n : Times(n)' = Times(n)
    BY DEF Times
  <2>9. \A n \in 1..taken' : Cardinality(Times(n))' <= Bound(n)'
    BY <2>7, <2>8
  <2>10. CountedPerAttempt'
    BY <2>9 DEF CountedPerAttempt, Times, Bound, InBatch
  <2> QED BY <2>5, <2>6, <2>10
<1> QED BY <1>4, <1>5

\* The service adds a batch to its counters, whatever becomes of its answer.
LEMMA BatchApplied ==
    ASSUME FlowInv, applied' = applied \o batch, at.consumer \in {"commit", "drainCommit"}
    PROVE  /\ Counted' = Counted \cup InBatch
           /\ \A n \in 1..taken :
                 /\ Cardinality(Times(n)') \in Nat /\ Cardinality(Times(n)') <= Attempts
                 /\ n \in InBatch => Cardinality(Times(n)') <= attempt
<1>1. TypeInv /\ OrderInv /\ CountedPerAttempt /\ Rising(Numbers(batch))
      /\ batch \in Seq(StatData) /\ applied \in Seq(StatData)
  BY DEF FlowInv, TypeInv, TypeOK, OrderInv
<1>2. Counted' = Counted \cup InBatch
  <2> DEFINE a == Numbers(applied)
             b == Numbers(batch)
  <2>1. Numbers(applied)' = a \o b
    BY <1>1, NumbersConcat
  <2>2. a \in Seq(LogNo) /\ b \in Seq(LogNo)
    BY <1>1, NumbersType
  <2> HIDE DEF a, b
  <2>3. Range(a \o b) = Range(a) \cup Range(b)
    BY <2>2, RangeConcatenation
  <2> QED BY <2>1, <2>3 DEF Counted, InBatch, a, b
<1>3. ASSUME NEW n \in 1..taken
      PROVE  /\ Cardinality(Times(n)') \in Nat /\ Cardinality(Times(n)') <= Attempts
             /\ n \in InBatch => Cardinality(Times(n)') <= attempt
  <2>1. Cardinality(Times(n)) <= Bound(n) /\ Cardinality(Times(n)) \in Nat
    BY <1>1, CountedAs, TimesType
  <2>2. /\ Cardinality(Times(n)') \in Nat /\ Cardinality(Times(n)') <= Cardinality(Times(n)) + 1
        /\ n \notin InBatch => Times(n)' = Times(n)
    BY <1>1, CommitTimes
  <2>3. attempt - 1 \in Nat /\ attempt - 1 <= Attempts /\ Attempts \in Nat
        /\ attempt \in 1..Attempts
    BY <1>1, BoundType DEF TypeInv, TypeOK
  <2>4. Bound(n) = IF n \in InBatch THEN attempt - 1 ELSE Attempts
    BY DEF Bound
  <2>5. CASE n \in InBatch
    BY <2>1, <2>2, <2>3, <2>4, <2>5
  <2>6. CASE n \notin InBatch
    BY <2>1, <2>2, <2>4, <2>6
  <2> QED BY <2>5, <2>6
<1> QED BY <1>2, <1>3

LEMMA CommitStep ==
    ASSUME FlowInv, CommitSucceeds \/ CommitFails \/ CommitHangs
    PROVE  OrderInv' /\ Accounted' /\ CountedPerAttempt'
<1>1. TypeInv /\ OrderInv /\ CountedPerAttempt /\ attempt \in 1..Attempts /\ Attempts \in Nat
      /\ attempt \in Nat /\ at \in Place
  BY NstatAssumption DEF FlowInv, TypeInv, TypeOK
<1>2. /\ UNCHANGED <<content, taken, outbound, stat, inbound, held>>
      /\ at.consumer \in {"commit", "drainCommit"}
  BY DEF CommitSucceeds, CommitFails, CommitHangs, consumerRest
<1>3. Waiting' = Waiting /\ Ahead' = Ahead
  BY <1>2 DEF Waiting, Ahead, Holding
<1>4. at'.consumer # "take"
  BY <1>1, <1>2 DEF CommitSucceeds, CommitFails, CommitHangs, Fails, Goes, Back, Place
<1>5. ASSUME UNCHANGED batch, CommitFails \/ CommitHangs PROVE \A n \in 1..taken :
             Bound(n)' \in {attempt, Attempts} /\ (n \notin InBatch => Bound(n)' = Attempts)
  <2>1. InBatch' = InBatch
    BY <1>5 DEF InBatch
  <2>2. CASE CommitFails /\ attempt < Attempts
    <3>1. attempt' = attempt + 1 /\ at' = at
      BY <2>2 DEF CommitFails, Fails
    <3> QED BY <1>1, <1>2, <2>1, <3>1 DEF Bound
  <2>3. CASE CommitHangs \/ (CommitFails /\ ~(attempt < Attempts))
    <3>1. at'.consumer \in {"hung", "report"}
      BY <1>1, <2>3 DEF CommitFails, CommitHangs, Fails, Goes, Place
    <3> QED BY <2>1, <3>1 DEF Bound
  <2> QED BY <1>5, <2>2, <2>3
<1>6. CASE applied' = applied \o batch
  <2>1. Counted' = Counted \cup InBatch
    BY <1>2, <1>6, BatchApplied
  <2>2. \A n \in 1..taken : /\ Cardinality(Times(n)') \in Nat /\ Cardinality(Times(n)') <= Attempts
                            /\ n \in InBatch => Cardinality(Times(n)') <= attempt
    BY <1>2, <1>6, BatchApplied
  <2>3. Below(Counted', Waiting') /\ Counted' \subseteq 1..taken'
    BY <1>1, <1>2, <1>3, <2>1 DEF OrderInv, Below
  <2>4. CASE batch' = <<>>
    <3>1. InBatch' = {} /\ Rising(Numbers(batch))'
      <4>1. Numbers(batch)' = <<>>
        BY <2>4, NumbersSmall
      <4>2. Range(<<>>) = {} /\ Rising(<<>>)
        BY DEF Range, Rising
      <4> QED BY <4>1, <4>2 DEF InBatch
    <3>2. OrderInv'
      BY <1>1, <1>2, <1>3, <2>3, <3>1 DEF OrderInv, Below
    <3>3. Accounted'
      BY <1>2, <1>3, <2>1, Accounts
    <3>4. \A n \in 1..taken' : Cardinality(Times(n))' <= Bound(n)'
      BY <1>2, <2>2, <3>1 DEF Bound
    <3>5. CountedPerAttempt'
      BY <3>4 DEF CountedPerAttempt, Times, Bound, InBatch
    <3> QED BY <3>2, <3>3, <3>5
  <2>5. CASE UNCHANGED batch /\ (CommitFails \/ CommitHangs)
    <3>1. InBatch' = InBatch /\ Numbers(batch)' = Numbers(batch)
      BY <2>5 DEF InBatch
    <3>2. OrderInv'
      BY <1>1, <1>2, <1>3, <1>4, <2>1, <2>3, <3>1 DEF OrderInv
    <3>3. Accounted'
      BY <1>2, <1>3, <2>1, Accounts
    <3>4. \A n \in 1..taken' : Cardinality(Times(n))' <= Bound(n)'
      BY <1>2, <1>5, <2>2, <2>5
    <3>5. CountedPerAttempt'
      BY <3>4 DEF CountedPerAttempt, Times, Bound, InBatch
    <3> QED BY <3>2, <3>3, <3>5
  <2> QED BY <2>4, <2>5 DEF CommitSucceeds, CommitFails, CommitHangs
<1>7. CASE applied' = applied /\ (CommitFails \/ CommitHangs)
  <2>1. UNCHANGED batch
    BY <1>7 DEF CommitFails, CommitHangs
  <2>2. InBatch' = InBatch /\ Numbers(batch)' = Numbers(batch) /\ Counted' = Counted
    BY <1>7, <2>1 DEF InBatch, Counted
  <2>3. OrderInv'
    BY <1>1, <1>2, <1>3, <1>4, <2>2 DEF OrderInv
  <2>4. Accounted'
    BY <1>2, <1>3, <2>2, Accounts
  <2>5. ASSUME NEW n \in 1..taken PROVE Cardinality(Times(n)) <= Bound(n)'
    <3>1. Cardinality(Times(n)) <= Bound(n) /\ Cardinality(Times(n)) \in Nat
      BY <1>1, CountedAs, TimesType
    <3>2. Bound(n) = IF n \in InBatch THEN attempt - 1 ELSE Attempts
      BY <1>2 DEF Bound
    <3>3. Bound(n)' \in {attempt, Attempts} /\ (n \notin InBatch => Bound(n)' = Attempts)
      BY <1>5, <1>7, <2>1
    <3> QED BY <1>1, <3>1, <3>2, <3>3
  <2>6. \A n : Times(n)' = Times(n)
    BY <1>7 DEF Times
  <2>7. \A n \in 1..taken' : Cardinality(Times(n))' <= Bound(n)'
    BY <1>2, <2>5, <2>6
  <2>8. CountedPerAttempt'
    BY <2>7 DEF CountedPerAttempt, Times, Bound, InBatch
  <2> QED BY <2>3, <2>4, <2>8
<1> QED BY <1>6, <1>7 DEF CommitSucceeds, CommitFails, CommitHangs

LEMMA ConsumerStep ==
    ASSUME FlowInv,
           \/ ConsumerTicks \/ ConsumerTakes \/ ConsumerTakesNil \/ ConsumerTaken
           \/ CommitSucceeds \/ CommitFails \/ CommitHangs \/ Reports("consumer")
           \/ ConsumerStops \/ ConsumerDrains \/ ConsumerDrained
    PROVE  FlowInv'
<1>1. TypeInv /\ OrderInv /\ Accounted /\ CountedPerAttempt /\ at \in Place
  BY DEF FlowInv, TypeInv, TypeOK
<1>2. TypeInv'
  BY <1>1, ConsumerType
<1> SUFFICES OrderInv' /\ Accounted' /\ CountedPerAttempt'
  BY <1>2 DEF FlowInv
<1>3. CASE ConsumerTicks \/ ConsumerStops \/ ConsumerDrained
  <2>1. /\ batch' = <<>> /\ at.consumer \in {"select", "drain"}
        /\ UNCHANGED <<content, taken, applied, attempt, outbound, stat, inbound, held>>
    BY <1>3 DEF ConsumerTicks, ConsumerStops, ConsumerDrained, consumerRest, At
  <2>2. Empty(batch)
    BY <1>1, <2>1 DEF TypeInv, AtRest
  <2> QED BY <2>1, <2>2, BatchDropped
<1>4. CASE ConsumerTakes
  BY <1>4, FirstTaken DEF ConsumerTakes, consumerRest, At
<1>5. CASE ConsumerDrains
  <2>1. at'.consumer \in {"drain", "drainCommit"}
    BY <1>1, <1>5 DEF ConsumerDrains, Goes, Place
  <2> QED BY <1>5, <2>1, FirstTaken DEF ConsumerDrains, consumerRest, At
<1>6. CASE ConsumerTaken
  BY <1>6, BatchTaken
<1>7. CASE CommitSucceeds \/ CommitFails \/ CommitHangs
  BY <1>7, CommitStep
<1>8. CASE ConsumerTakesNil \/ Reports("consumer")
  <2>1. UNCHANGED <<content, taken, applied, batch, attempt, outbound, stat, inbound, held>>
    BY <1>8 DEF ConsumerTakesNil, Reports, consumerRest, collectorRest
  <2>2. at' = at \/ (at.consumer = "report" /\ at'.consumer = "done")
    <3>1. CASE ConsumerTakesNil
      <4>1. at' = at
        BY <3>1 DEF ConsumerTakesNil, consumerRest
      <4> QED BY <4>1
    <3>2. CASE Reports("consumer")
      <4>1. at.consumer = "report" /\ at' = [at EXCEPT !["consumer"] = "done"]
        BY <3>2 DEF Reports, At, Goes
      <4> QED BY <1>1, <4>1 DEF Place
    <3> QED BY <1>8, <3>1, <3>2
  <2>3. /\ Ahead' = Ahead /\ Waiting' = Waiting /\ InBatch' = InBatch /\ Counted' = Counted
        /\ Numbers(batch)' = Numbers(batch)
    BY <2>1 DEF Ahead, Holding, Waiting, InBatch, Counted
  <2>4. OrderInv'
    BY <1>1, <2>1, <2>2, <2>3 DEF OrderInv
  <2>5. Accounted'
    BY <2>1, <2>3, Accounts
  <2>6. CountedPerAttempt'
    <3>1. \A n : Times(n)' = Times(n) /\ Bound(n)' = Bound(n)
      BY <2>1, <2>2, <2>3 DEF Times, Bound
    <3>2. \A n \in 1..taken' : Cardinality(Times(n))' <= Bound(n)'
      BY <1>1, <2>1, <3>1, CountedAs
    <3> QED BY <3>2 DEF CountedPerAttempt, Times, Bound, InBatch
  <2> QED BY <2>4, <2>5, <2>6
<1> QED BY <1>3, <1>4, <1>5, <1>6, <1>7, <1>8

LEMMA FlowInit == Init => FlowInv
<1> SUFFICES ASSUME Init PROVE FlowInv
  OBVIOUS
<1>1. TypeInv
  BY TypeInit
<1>2. /\ inbound = <<>> /\ outbound = <<>> /\ stat = <<>> /\ held = Nil /\ batch = <<>>
      /\ applied = <<>> /\ taken = 0
  BY DEF Init
<1>3. Numbers(outbound) = <<>> /\ Numbers(stat) = <<>> /\ Numbers(batch) = <<>>
      /\ Numbers(applied) = <<>> /\ Holding = <<>>
  BY <1>2, NumbersSmall DEF Holding
<1>4. Ahead = <<>>
  BY <1>2, <1>3 DEF Ahead
<1>5. Range(<<>>) = {} /\ Rising(<<>>)
  BY DEF Range, Rising
<1>6. Waiting = {} /\ InBatch = {} /\ Counted = {}
  BY <1>3, <1>4, <1>5 DEF Waiting, InBatch, Counted
<1>7. OrderInv
  BY <1>3, <1>4, <1>5, <1>6 DEF OrderInv, Below
<1>8. 1..taken = {}
  BY <1>2
<1> QED BY <1>1, <1>7, <1>8 DEF FlowInv, Accounted, CountedPerAttempt

LEMMA FlowStep == ASSUME FlowInv, [Next]_vars PROVE FlowInv'
<1>1. CASE UNCHANGED vars
  <2>1. TypeInv'
    BY <1>1, TypeStep DEF FlowInv
  <2>2. Ahead' = Ahead /\ Waiting' = Waiting /\ InBatch' = InBatch /\ Counted' = Counted
        /\ Numbers(batch)' = Numbers(batch)
    BY <1>1 DEF vars, Ahead, Holding, Waiting, InBatch, Counted
  <2>3. \A n : Counts(n)' <=> Counts(n)
    BY <1>1 DEF vars, Counts
  <2>4. OrderInv' /\ Accounted'
    BY <1>1, <2>2, <2>3 DEF vars, FlowInv, OrderInv, Accounted
  <2>5. CountedPerAttempt'
    BY <1>1 DEF vars, FlowInv, CountedPerAttempt
  <2> QED BY <2>1, <2>4, <2>5 DEF FlowInv
<1> QED BY <1>1, UpstreamStep, ServerStep, ConsumerStep DEF Next

LEMMA Flows == Spec => []FlowInv
  BY FlowInit, FlowStep, PTL DEF Spec

\* Over two channels, three goroutines and batches no log overtakes another and
\* none is in two places.
THEOREM NoOvertaking == Spec => []PipelineInOrder
<1>1. FlowInv => PipelineInOrder
  <2> SUFFICES ASSUME FlowInv PROVE PipelineInOrder
    OBVIOUS
  <2>1. TypeInv /\ OrderInv
    BY DEF FlowInv
  <2>2. InFlight = Numbers(batch) \o Ahead /\ Numbers(batch) \in Seq(Nat) /\ Ahead \in Seq(Nat)
    BY <2>1, AheadType
  <2>3. Rising(Numbers(batch) \o Ahead)
    BY <2>1, <2>2, RisingConcat DEF OrderInv, InBatch, Waiting
  <2> QED BY <2>2, <2>3 DEF Rising, PipelineInOrder
<1> QED BY <1>1, Flows, PTL

\* What Kafka handed over and is to be counted has reached the service or is in
\* the process's hands; once the consumer has drained its channel, only what the
\* processor has not handled is missing.
THEOREM NothingIsLost == Spec => []AllAccounted
<1>1. FlowInv => AllAccounted
  <2> SUFFICES ASSUME FlowInv, NEW n \in 1..taken, Counts(n), n \notin Counted
               PROVE  \/ n \in Range(InFlight) /\ ~Drained
                      \/ n = held \/ n \in Range(inbound)
    BY DEF AllAccounted, Counted
  <2>1. TypeInv /\ Accounted
    BY DEF FlowInv
  <2>2. InFlight = Numbers(batch) \o Ahead /\ Numbers(batch) \in Seq(Nat) /\ Ahead \in Seq(Nat)
    BY <2>1, AheadType
  <2>3. Range(InFlight) = InBatch \cup Waiting
    BY <2>2, RangeConcatenation DEF InBatch, Waiting
  <2>4. n \in InBatch \cup Waiting
    BY <2>1 DEF Accounted
  <2>5. CASE Drained
    <3>1. batch = <<>> /\ outbound = <<>> /\ stat = <<>>
      BY <2>1, <2>5 DEF TypeInv, AtRest, Places, Drained
    <3>2. Numbers(batch) = <<>> /\ Numbers(outbound) = <<>> /\ Numbers(stat) = <<>>
          /\ Range(<<>>) = {}
      BY <3>1, NumbersSmall
    <3>3. InBatch = {} /\ Ahead = inbound \o Holding
      <4>1. inbound \in Seq(LogNo) /\ <<>> \in Seq(LogNo)
        BY <2>1, AheadType, EmptySeq
      <4> QED BY <3>2, <4>1, ConcatEmptySeq DEF Ahead, InBatch
    <3>4. Waiting = Range(inbound) \cup Range(Holding)
      <4>1. inbound \in Seq(LogNo) /\ Holding \in Seq(LogNo)
        BY <2>1, AheadType
      <4> QED BY <3>3, <4>1, RangeConcatenation DEF Waiting
    <3>5. Range(Holding) \subseteq {held}
      BY DEF Holding, Range
    <3> QED BY <2>4, <3>3, <3>4, <3>5
  <2> QED BY <2>3, <2>4, <2>5
<1> QED BY <1>1, Flows, PTL

\* The service has counted a prefix of what it is to count: the logs of failed
\* batches, and those drained at the end, are behind it.
THEOREM PrefixIsCommitted == Spec => []CommittedIsPrefix
<1>1. FlowInv => CommittedIsPrefix
  <2> SUFFICES ASSUME FlowInv, NEW i \in DOMAIN applied, NEW n \in 1..applied[i].n, Counts(n)
               PROVE  n \in Counted
    BY DEF CommittedIsPrefix, Counted
  <2>1. TypeInv /\ OrderInv /\ Accounted /\ taken \in Nat /\ applied \in Seq(StatData)
    BY DEF FlowInv, TypeInv, TypeOK
  <2>2. applied[i].n \in Counted
    <3>1. DOMAIN applied = 1..Len(applied)
          /\ Range(Numbers(applied)) = {applied[j].n : j \in 1..Len(applied)}
      BY <2>1, NumbersType
    <3> QED BY <3>1 DEF Counted
  <2>3. applied[i].n \in 1..taken /\ n \in 1..taken
    <3>1. applied[i].n \in 1..taken
      BY <2>1, <2>2 DEF OrderInv
    <3> DEFINE m == applied[i].n
    <3>2. m \in 1..taken /\ n \in 1..m
      BY <3>1
    <3> HIDE DEF m
    <3>3. n \in 1..taken
      BY <2>1, <3>2
    <3> QED BY <3>1, <3>3
  <2>4. n \notin Waiting
    BY <2>1, <2>2, <2>3 DEF OrderInv, Below
  <2>5. n \in Counted \/ n \in InBatch
    BY <2>1, <2>3, <2>4 DEF Accounted
  <2>6. ~(n \in InBatch /\ Below(Counted, InBatch))
    BY <2>2, <2>3 DEF Below
  <2> QED BY <2>1, <2>5, <2>6 DEF OrderInv
<1> QED BY <1>1, Flows, PTL

\* A log is counted again only by the attempts to commit its batch.
THEOREM RecountsAreAttempts == Spec => []CountedPerAttempt
<1>1. FlowInv => CountedPerAttempt
  BY DEF FlowInv
<1> QED BY <1>1, Flows, PTL
=============================================================================
