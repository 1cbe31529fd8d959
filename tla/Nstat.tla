-------------------------------- MODULE Nstat --------------------------------
(***************************************************************************)
(* The statistics pipeline: src/nstat.  Goroutines and channels:           *)
(*                                                                         *)
(*   Kafka -> collector -inbound-> processor -outbound-> consumer -> HTTP  *)
(*                                                                         *)
(* A moderator closes stopCh when one of them asks for it over toStop, or  *)
(* on an interrupt; a timing loader refreshes the set of teachers.  A      *)
(* panic in any goroutine ends the process.                                *)
(*                                                                         *)
(* Logs are numbered in the order in which Kafka hands them over.          *)
(***************************************************************************)
EXTENDS Factors, Sequences, SequencesExt

CONSTANTS
    Logs,      \* bound: how many log messages Kafka holds
    Contents,  \* bound: what the messages may be
    Rosters,   \* the sets of teachers the database may answer with
    InCap,     \* capacity of inbound: 10
    OutCap,    \* capacity of outbound: 10
    Batch,     \* how many items one tick takes at most: 10
    Attempts   \* how often a batch is committed at most: 3

LogNo == 1..Logs

ASSUME NstatAssumption ==
    /\ Logs \in Nat
    /\ Contents \subseteq [LogNo -> LogMsg \cup {Nil}]
    /\ Rosters \subseteq SUBSET Uid
    /\ {InCap, OutCap, Batch, Attempts} \subseteq Nat \ {0}
    /\ Nil \notin LogMsg /\ Nil \notin Nat

\* What the processor makes of a message: its place in Kafka and its factors.
StatData == [n : LogNo, factors : SUBSET StatFactor]

VARIABLES
    content,   \* the messages in Kafka
    taken,     \* how many of them the collector has taken
    inbound,   \* processor.inbound: numbers of logs
    outbound,  \* processor.outbound: StatData
    outClosed, \* outbound was closed
    toStop,    \* how many values lie in toStop, whose capacity is 1
    stopped,   \* stopCh was closed
    cache,     \* cache.Teachers
    at,        \* where each goroutine is
    held,      \* the log the collector is about to send, or Nil
    stat,      \* what the processor is about to send: at most one StatData
    batch,     \* what the consumer is committing
    attempt,   \* its number of attempts
    applied,   \* the StatData the service has added to its counters (external)
    crashed    \* why the process ended, "no" while it runs

vars == <<content, taken, inbound, outbound, outClosed, toStop, stopped, cache,
          at, held, stat, batch, attempt, applied, crashed>>

Place == [collector : {"start", "select", "send", "report", "done"},
          processor : {"select", "send", "done"},
          consumer  : {"select", "take", "commit", "drain", "drainCommit", "hung",
                       "report", "done"},
          moderator : {"select", "done"},
          loader    : {"select", "hung", "done"}]

TypeOK ==
    /\ content \in Contents
    /\ taken \in 0..Logs
    /\ inbound \in Seq(LogNo) /\ Len(inbound) <= InCap
    /\ outbound \in Seq(StatData) /\ Len(outbound) <= OutCap
    /\ outClosed \in BOOLEAN
    /\ toStop \in 0..1
    /\ stopped \in BOOLEAN
    /\ cache \in Rosters
    /\ at \in Place
    /\ held \in LogNo \cup {Nil}
    /\ stat \in Seq(StatData) /\ Len(stat) <= 1
    /\ batch \in Seq(StatData) /\ Len(batch) <= Batch
    /\ attempt \in 1..Attempts
    /\ applied \in Seq(StatData)
    /\ crashed \in {"no", "nil", "date", "reload"}

Init ==
    /\ content \in Contents
    /\ taken = 0
    /\ inbound = <<>> /\ outbound = <<>> /\ outClosed = FALSE
    /\ toStop = 0 /\ stopped = FALSE
    /\ cache \in Rosters
    /\ at = [collector |-> "start", processor |-> "select", consumer |-> "select",
             moderator |-> "select", loader |-> "select"]
    /\ held = Nil /\ stat = <<>> /\ batch = <<>> /\ attempt = 1
    /\ applied = <<>>
    /\ crashed = "no"

At(g, place) == crashed = "no" /\ at[g] = place
Goes(g, place) == at' = [at EXCEPT ![g] = place]

(***************************************************************************)
(* collector                                                               *)
(***************************************************************************)
collectorRest == <<content, outbound, outClosed, stopped, cache, stat, batch,
                   attempt, applied, crashed>>

\* kafka.NewConsumer fails, or the collector subscribes.
CollectorStarts ==
    /\ At("collector", "start")
    /\ \E place \in {"select", "report"} : Goes("collector", place)
    /\ UNCHANGED <<collectorRest, taken, inbound, toStop, held>>

\* case m := <-consumer.Events(), a message; one that is no JSON is dropped.
CollectorTakes ==
    /\ At("collector", "select") /\ taken < Logs
    /\ taken' = taken + 1
    /\ IF content[taken + 1] = Nil
         THEN UNCHANGED <<at, held>>
         ELSE Goes("collector", "send") /\ held' = taken + 1
    /\ UNCHANGED <<collectorRest, inbound, toStop>>

\* c.p.inbound <- logMsg.  It does not look at stopCh.
CollectorSends ==
    /\ At("collector", "send") /\ Len(inbound) < InCap
    /\ inbound' = Append(inbound, held)
    /\ held' = Nil
    /\ Goes("collector", "select")
    /\ UNCHANGED <<collectorRest, taken, toStop>>

\* The channel of events is closed: "unexpected eof".
CollectorEof ==
    /\ At("collector", "select")
    /\ Goes("collector", "report")
    /\ UNCHANGED <<collectorRest, taken, inbound, toStop, held>>

\* case <-stopCh
CollectorStops ==
    /\ At("collector", "select") /\ stopped
    /\ Goes("collector", "done")
    /\ UNCHANGED <<collectorRest, taken, inbound, toStop, held>>

\* toStop <- "stop", by the collector or the consumer, which then return.
Reports(g) ==
    /\ At(g, "report") /\ toStop = 0
    /\ toStop' = 1
    /\ Goes(g, "done")
    /\ UNCHANGED <<collectorRest, taken, inbound, held>>

(***************************************************************************)
(* processor                                                               *)
(***************************************************************************)
processorRest == <<content, taken, toStop, stopped, cache, held, batch, attempt,
                   applied, crashed>>

\* Mutant: break leaves the loop, and the channel is closed.
ProcessorHandlesOrQuits ==
    /\ At("processor", "select") /\ inbound # <<>> /\ ~Panics(content[Head(inbound)])
    /\ inbound' = Tail(inbound)
    /\ LET n == Head(inbound)
       IN  IF Refused(content[n])
             THEN /\ Goes("processor", "done") /\ outClosed' = TRUE
                  /\ UNCHANGED stat
             ELSE /\ Goes("processor", "send") /\ UNCHANGED outClosed
                  /\ stat' = <<[n |-> n, factors |-> FactorsOf(content[n], cache)]>>
    /\ UNCHANGED <<processorRest, outbound>>

\* case logMsg := <-p.inbound.  A message handle refuses is only logged.
ProcessorHandles ==
    /\ At("processor", "select") /\ inbound # <<>> /\ ~Panics(content[Head(inbound)])
    /\ inbound' = Tail(inbound)
    /\ LET n == Head(inbound)
       IN  IF Refused(content[n])
             THEN UNCHANGED <<at, stat>>
             ELSE /\ Goes("processor", "send")
                  /\ stat' = <<[n |-> n, factors |-> FactorsOf(content[n], cache)]>>
    /\ UNCHANGED <<processorRest, outbound, outClosed>>

\* A message without a date panics in handle.
ProcessorPanics ==
    /\ At("processor", "select") /\ inbound # <<>> /\ Panics(content[Head(inbound)])
    /\ inbound' = Tail(inbound)
    /\ crashed' = "date"
    /\ UNCHANGED <<content, taken, outbound, outClosed, toStop, stopped, cache, at,
                   held, stat, batch, attempt, applied>>

\* Mutant: outbound is a list without a limit.
ProcessorSendsUnbounded ==
    /\ At("processor", "send")
    /\ outbound' = outbound \o stat
    /\ stat' = <<>>
    /\ Goes("processor", "select")
    /\ UNCHANGED <<processorRest, inbound, outClosed>>

\* p.outbound <- statData.  The collector has filled in topic and offset.
ProcessorSends ==
    /\ At("processor", "send") /\ Len(outbound) < OutCap
    /\ outbound' = outbound \o stat
    /\ stat' = <<>>
    /\ Goes("processor", "select")
    /\ UNCHANGED <<processorRest, inbound, outClosed>>

\* Mutant: close(p.outbound) is missing.
ProcessorStopsOnly ==
    /\ At("processor", "select") /\ stopped
    /\ Goes("processor", "done")
    /\ UNCHANGED <<processorRest, inbound, outbound, outClosed, stat>>

\* case <-stopCh, with whatever is left in inbound.
ProcessorStops ==
    /\ At("processor", "select") /\ stopped
    /\ outClosed' = TRUE
    /\ Goes("processor", "done")
    /\ UNCHANGED <<processorRest, inbound, outbound, stat>>

(***************************************************************************)
(* consumer                                                                *)
(***************************************************************************)
consumerRest == <<content, taken, inbound, outClosed, toStop, stopped, cache,
                  held, stat>>

\* CommitFactors sends no request for no factors at all.
Empty(b) == \A i \in DOMAIN b : b[i].factors = {}

\* case <-ticker.C
ConsumerTicks ==
    /\ At("consumer", "select")
    /\ Goes("consumer", "take") /\ batch' = <<>>
    /\ UNCHANGED <<consumerRest, outbound, attempt, applied, crashed>>

\* Mutant: the factors taken last replace the others.
ConsumerTakesLast ==
    /\ At("consumer", "take") /\ Len(batch) < Batch /\ outbound # <<>>
    /\ batch' = <<Head(outbound)>>
    /\ outbound' = Tail(outbound)
    /\ UNCHANGED <<consumerRest, at, attempt, applied, crashed>>

\* Mutant: the new item's factors are put before the others'.
ConsumerTakesReversed ==
    /\ At("consumer", "take") /\ Len(batch) < Batch /\ outbound # <<>>
    /\ batch' = <<Head(outbound)>> \o batch
    /\ outbound' = Tail(outbound)
    /\ UNCHANGED <<consumerRest, at, attempt, applied, crashed>>

\* One turn of the inner loop, with something in the channel.
ConsumerTakes ==
    /\ At("consumer", "take") /\ Len(batch) < Batch /\ outbound # <<>>
    /\ batch' = Append(batch, Head(outbound))
    /\ outbound' = Tail(outbound)
    /\ UNCHANGED <<consumerRest, at, attempt, applied, crashed>>

\* A closed and drained channel yields nil: statData.Factors panics.
ConsumerTakesNil ==
    /\ At("consumer", "take") /\ Len(batch) < Batch
    /\ outbound = <<>> /\ outClosed
    /\ crashed' = "nil"
    /\ UNCHANGED <<consumerRest, outbound, at, batch, attempt, applied>>

\* Mutant: the receive blocks until there are ten items.
ConsumerTakenFull ==
    /\ At("consumer", "take")
    /\ Len(batch) = Batch
    /\ Goes("consumer", IF Empty(batch) THEN "select" ELSE "commit")
    /\ attempt' = 1
    /\ UNCHANGED <<consumerRest, outbound, batch, applied, crashed>>

\* The inner loop is over: ten items, or nothing more in the channel.
ConsumerTaken ==
    /\ At("consumer", "take")
    /\ Len(batch) = Batch \/ (outbound = <<>> /\ ~outClosed)
    /\ Goes("consumer", IF Empty(batch) THEN "select" ELSE "commit")
    /\ attempt' = 1
    /\ UNCHANGED <<consumerRest, outbound, batch, applied, crashed>>

\* The loop a batch came from: what follows when it is committed.
Back == IF at.consumer = "commit" THEN "select" ELSE "drain"

\* CommitFactors returns nil.
CommitSucceeds ==
    /\ crashed = "no" /\ at.consumer \in {"commit", "drainCommit"}
    /\ applied' = applied \o batch
    /\ Goes("consumer", Back) /\ batch' = <<>>
    /\ UNCHANGED <<consumerRest, outbound, attempt, crashed>>

\* Mutant: after the last attempt the consumer goes on with the next batch.
FailsAndGoesOn ==
    IF attempt < Attempts
      THEN attempt' = attempt + 1 /\ UNCHANGED at
      ELSE Goes("consumer", Back) /\ UNCHANGED attempt

\* Mutant: the number of attempts is not counted.
FailsForever == UNCHANGED <<at, attempt>>

\* It returned an error: try again, or give up, report it and return.
Fails ==
    IF attempt < Attempts
      THEN attempt' = attempt + 1 /\ UNCHANGED at
      ELSE Goes("consumer", "report") /\ UNCHANGED attempt

\* An error: the service has the factors all the same if only its answer was
\* lost.
CommitFails ==
    /\ crashed = "no" /\ at.consumer \in {"commit", "drainCommit"}
    /\ applied' \in {applied, applied \o batch}
    /\ Fails
    /\ UNCHANGED <<consumerRest, outbound, batch, crashed>>

\* No answer comes, whether the service has counted the batch or not: the
\* http.Client has no Timeout.
CommitHangs ==
    /\ crashed = "no" /\ at.consumer \in {"commit", "drainCommit"}
    /\ applied' \in {applied, applied \o batch}
    /\ Goes("consumer", "hung")
    /\ UNCHANGED <<consumerRest, outbound, batch, attempt, crashed>>

\* case <-stopCh
ConsumerStops ==
    /\ At("consumer", "select") /\ stopped
    /\ Goes("consumer", "drain") /\ batch' = <<>>
    /\ UNCHANGED <<consumerRest, outbound, attempt, applied, crashed>>

\* range c.p.outbound: one item after the other.
ConsumerDrains ==
    /\ At("consumer", "drain") /\ outbound # <<>>
    /\ batch' = <<Head(outbound)>>
    /\ outbound' = Tail(outbound)
    /\ Goes("consumer", IF Empty(batch') THEN "drain" ELSE "drainCommit")
    /\ attempt' = 1
    /\ UNCHANGED <<consumerRest, applied, crashed>>

ConsumerDrained ==
    /\ At("consumer", "drain") /\ outbound = <<>> /\ outClosed
    /\ Goes("consumer", "done") /\ batch' = <<>>
    /\ UNCHANGED <<consumerRest, outbound, attempt, applied, crashed>>

Commit == CommitSucceeds \/ CommitFails \/ CommitHangs

(***************************************************************************)
(* moderator and timing loader                                             *)
(***************************************************************************)
serverRest == <<content, taken, inbound, outbound, outClosed, held, stat, batch,
                attempt, applied>>

\* case <-toStop
ModeratorIsTold ==
    /\ At("moderator", "select") /\ toStop = 1
    /\ toStop' = 0 /\ stopped' = TRUE
    /\ Goes("moderator", "done")
    /\ UNCHANGED <<serverRest, cache, crashed>>

\* case <-interrupt
Interrupt ==
    /\ At("moderator", "select")
    /\ stopped' = TRUE
    /\ Goes("moderator", "done")
    /\ UNCHANGED <<serverRest, toStop, cache, crashed>>

\* case <-ticker.C: cache.Reload, which panics when the database fails.
LoaderReloads ==
    /\ At("loader", "select")
    /\ \/ cache' \in Rosters \ {cache} /\ UNCHANGED crashed
       \/ crashed' = "reload" /\ UNCHANGED cache
    /\ UNCHANGED <<serverRest, toStop, stopped, at>>

\* The database does not answer: the connection has no timeout either.
LoaderHangs ==
    /\ At("loader", "select")
    /\ Goes("loader", "hung")
    /\ UNCHANGED <<serverRest, toStop, stopped, cache, crashed>>

LoaderStops ==
    /\ At("loader", "select") /\ stopped
    /\ Goes("loader", "done")
    /\ UNCHANGED <<serverRest, toStop, stopped, cache, crashed>>

Next ==
    \/ CollectorStarts \/ CollectorTakes \/ CollectorSends \/ CollectorEof
    \/ CollectorStops \/ Reports("collector")
    \/ ProcessorHandles \/ ProcessorPanics \/ ProcessorSends \/ ProcessorStops
    \/ ConsumerTicks \/ ConsumerTakes \/ ConsumerTakesNil \/ ConsumerTaken
    \/ CommitSucceeds \/ CommitFails \/ CommitHangs \/ Reports("consumer")
    \/ ConsumerStops \/ ConsumerDrains \/ ConsumerDrained
    \/ ModeratorIsTold \/ Interrupt
    \/ LoaderReloads \/ LoaderHangs \/ LoaderStops

Spec == Init /\ [][Next]_vars

(***************************************************************************)
(* Fairness.  A goroutine that can run does; a select picks at random, so a*)
(* case that is ready again and again is taken.  A request to the service  *)
(* is answered, fails or hangs for good, whichever the service likes.  Of  *)
(* Kafka it is assumed that creating and closing a client returns; nothing *)
(* is assumed of the database and the operator.                            *)
(***************************************************************************)
Fairness ==
    /\ WF_vars(CollectorStarts) /\ WF_vars(CollectorSends)
    /\ WF_vars(Reports("collector"))
    /\ SF_vars(CollectorStops)
    /\ WF_vars(ProcessorHandles \/ ProcessorPanics) /\ WF_vars(ProcessorSends)
    /\ SF_vars(ProcessorStops)
    /\ WF_vars(ConsumerTicks)
    /\ WF_vars(ConsumerTakes \/ ConsumerTakesNil \/ ConsumerTaken)
    /\ WF_vars(Commit) /\ WF_vars(Reports("consumer"))
    /\ SF_vars(ConsumerStops) /\ WF_vars(ConsumerDrains \/ ConsumerDrained)
    /\ WF_vars(ModeratorIsTold) /\ WF_vars(LoaderStops)

FairSpec == Spec /\ Fairness

(***************************************************************************)
(* Properties                                                              *)
(***************************************************************************)

Numbers(s) == [i \in DOMAIN s |-> s[i].n]

\* The logs the process has in its hands, in the order of the pipeline.
InFlight ==
    Numbers(batch) \o Numbers(outbound) \o Numbers(stat) \o inbound
        \o (IF held = Nil THEN <<>> ELSE <<held>>)

\* The logs that must reach the service: their messages yield factors.
Counts(n) ==
    /\ content[n] # Nil /\ ~Refused(content[n]) /\ content[n].dated
    /\ FactorsOf(content[n], cache) # {}

\* The consumer has ended and no batch has failed.
Drained == at.consumer = "done" /\ batch = <<>>

\* No log is lost on the way: what Kafka handed over and is to be counted has
\* reached the service or is still in the process's hands.  A stop loses what
\* the processor has not handled, and nothing behind it: the consumer ends only
\* when all of that is counted, or with a batch that has failed.
AllAccounted ==
    \A n \in 1..taken : Counts(n) =>
        \/ n \in Range(Numbers(applied))
        \/ n \in Range(InFlight) /\ ~Drained
        \/ n = held \/ n \in Range(inbound)

\* Logs do not overtake each other and none is in two places, over two
\* channels, three goroutines and batches.
PipelineInOrder ==
    LET s == InFlight IN \A i, j \in DOMAIN s : i < j => s[i] < s[j]

\* What the service has counted is a prefix of what it is to count, failed
\* batches and the draining at the end included: one offset would do to start
\* again from.
CommittedIsPrefix ==
    \A i \in DOMAIN applied : \A n \in 1..applied[i].n :
        Counts(n) => n \in Range(Numbers(applied))

\* A log is counted again only by the attempts to commit its batch, and never
\* more often than there are attempts.
CountedPerAttempt ==
    \A n \in 1..taken :
        Cardinality({i \in DOMAIN applied : applied[i].n = n}) <=
            IF n \in Range(Numbers(batch)) /\ at.consumer \notin {"hung", "report", "done"}
              THEN attempt - 1 ELSE Attempts

\* The panic over the closed channel happens during a stop only, and when the
\* channel has been emptied: a tick that is served before stopCh.
NilOnlyInShutdown ==
    crashed = "nil" => stopped /\ at.processor = "done" /\ outbound = <<>>

\* What a log's factors add to the counter stype, and the service's counter,
\* over all sids or of one.
Adds(factors, stype) ==
    SumFunction([f \in {f \in factors : f.stype = stype} |-> f.value])
Total(stype) == SumFunction([i \in DOMAIN applied |-> Adds(applied[i].factors, stype)])

\* Counters that count the same thing in two ways agree, whatever was logged,
\* added and deleted, refused, retried or lost.
CountersAgree ==
    /\ Total("login") = Total("loginDistrict")
    /\ Total("login") = Total("loginTeacher") + Total("loginStudent")
    /\ Total("course") = Total("ratingCourse")
    /\ Total("courseware") = Total("coursewareType")
    /\ Total("sizeCourseware") = Total("sizeCoursewareType")
    /\ Total("incomeOrder") = Total("incomeNewOrder")
    /\ Total("user") <= Total("newUser")

AllDone == \A g \in {"collector", "processor", "consumer", "loader"} : at[g] = "done"

\* A goroutine waits for ever: for an answer that does not come, to report to a
\* moderator that has taken its one report, or for room in a full channel whose
\* reader has returned or waits for ever itself.
ReportStuck(g) == at[g] = "report" /\ toStop = 1 /\ at.moderator = "done"
ConsumerStuck == at.consumer = "hung" \/ ReportStuck("consumer")
ProcessorStuck ==
    /\ at.processor = "send" /\ Len(outbound) = OutCap
    /\ at.consumer = "done" \/ ConsumerStuck
CollectorStuck ==
    \/ ReportStuck("collector")
    \/ /\ at.collector = "send" /\ Len(inbound) = InCap
       /\ at.processor = "done" \/ ProcessorStuck

\* Once stopCh is closed every goroutine that Run waits for ends, unless it is
\* stuck for good or a panic ends the process.
StopEndsAll ==
    stopped ~> \/ crashed # "no"
               \/ /\ at.collector = "done" \/ CollectorStuck
                  /\ at.processor = "done" \/ ProcessorStuck
                  /\ at.consumer = "done" \/ ConsumerStuck
                  /\ at.loader \in {"done", "hung"}

\* Every log that counts reaches the service: no log waits for ever, and three
\* failures stop everything.  Only a stop, a panic or a request that is never
\* answered keep it from there.
LogsAreCounted ==
    \A n \in LogNo : (n <= taken /\ Counts(n)) ~>
        (n \in Range(Numbers(applied)) \/ stopped \/ crashed # "no" \/ at.consumer = "hung")
=============================================================================
