------------------------------- MODULE MCCloud -------------------------------
(* Instances of Cloud for TLC. *)
EXTENDS Cloud

CONSTANTS r1, r2, r3

MCNeeds ==
  [small |-> [cores |-> 1, disk |-> 1, mem |-> 1],
   large |-> [cores |-> 2, disk |-> 1, mem |-> 2]]

\* Centres 1 and 2 are in the default zone, 3 is a fog node in zone 2.  The
\* cores of 1 and 2 would do for requests their memory or their nodes do not.
MCNodeZone == [d \in Topic |-> IF d = 3 THEN 2 ELSE 1]
Blade(cores, mem) == [cores |-> cores, disk |-> 4, mem |-> mem, vms |-> 2, users |-> 1]
MCCapacity ==
  [d \in Topic |-> CASE d = 1 -> <<Blade(2, 2)>>
                     [] d = 2 -> <<Blade(1, 4), Blade(2, 4)>>
                     [] d = 3 -> <<Blade(2, 2)>>]

\* One data centre with cores to spare.
MCOneCentre == [d \in Topic |-> <<[Blade(4, 2) EXCEPT !.vms = 4]>>]

\* r1 is an EdgeUser's and asks for zone 2; r2 and r3 are those of users of a
\* generator, which name no zone: the empty name, first in the order.
MCRequestZone == [r \in Request |-> IF r \in Generated THEN 0 ELSE 2]
MCVms == r1 :> <<"large">> @@ r2 :> <<"small">> @@ r3 :> <<"small", "large">>

\* Requests of one VM each.
MCOneVm == r1 :> <<"large">> @@ r2 :> <<"small">> @@ r3 :> <<"large">>

\* Parameters: one user after another, in any order; users of two cycles;
\* users at once, some before the start; a trace; a user with too many
\* applications; a manager with a forecast; no generated user.  Times in half seconds.
Base == [intervalBetweenUsers |-> TRUE, activeCycles |-> FALSE, isolateCycle |-> TRUE,
         shuffleUsers |-> FALSE, startDelay |-> 2, distribution |-> {3}, numberOfCycles |-> 1,
         durationOfCycle |-> 4, jobs |-> {}, traceStartTime |-> 0, traceEndTime |-> 9,
         garbage |-> {FALSE}, forecastActiveMachines |-> FALSE, activeMachinesThreshold |-> 0,
         edgeUsers |-> Request \ Generated, users |-> Generated,
         apps |-> [r \in Generated |-> IF r = r2 THEN 1 ELSE 0]]
Alone == [Base EXCEPT !.edgeUsers = {}]
NoApps == [r \in Generated |-> 0]
Job == [size |-> 1, runtime |-> 5, submit |-> 3]
MCSetups ==
  {Base, [Base EXCEPT !.users = {}],
   [Alone EXCEPT !.startDelay = 0, !.shuffleUsers = TRUE, !.apps = NoApps, !.garbage = {TRUE}],
   [Alone EXCEPT !.intervalBetweenUsers = FALSE, !.numberOfCycles = 2, !.distribution = {-1, 1, 5}],
   [Alone EXCEPT !.intervalBetweenUsers = FALSE, !.activeCycles = TRUE, !.startDelay = 3,
                 !.distribution = {-2, 2}],
   [Alone EXCEPT !.startDelay = 1],
   [Base EXCEPT !.jobs = {Job, [Job EXCEPT !.runtime = 0]}],
   [Alone EXCEPT !.jobs = {[Job EXCEPT !.size = 0], [Job EXCEPT !.submit = 10]},
                 !.apps = [r \in Generated |-> IF r = r2 THEN 6 ELSE 0]],
   [Alone EXCEPT !.forecastActiveMachines = TRUE, !.activeMachinesThreshold = 1]}
MCOneSetup == {Base}
MCTime == 0..20
=============================================================================
