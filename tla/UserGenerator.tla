---------------------------- MODULE UserGenerator ----------------------------
(***************************************************************************)
(* The generator of cloud users (UserGeneratorBase, UserGenerator_simple), *)
(* the state it keeps of each (CloudUserInstance), and what a response     *)
(* does to it (BaseUserModel).                                             *)
(*                                                                         *)
(* Time is counted in half seconds, so that a time loses its fraction      *)
(* where the code keeps whole seconds.  The instances' times are left out, *)
(* but for the arrival.  A response to the applications of a user and the  *)
(* extension of a VM never get here: see Cloud.                            *)
(***************************************************************************)
EXTENDS Integers, SequencesExt

CONSTANTS Generated,    \* the users a configuration may ask for
          Vms,          \* user -> its VMs
          Setups,       \* the parameters of the module; users are those asked for
          Time          \* bound: arrival times to choose from

VARIABLES par, userInstances, arrival2Cloud, generatorTimer, nUserIndex,
          nUserInstancesFinished, instance,
          stopped       \* "no", or why the simulation ended

generatorVars == <<par, userInstances, arrival2Cloud, generatorTimer, nUserIndex,
                   nUserInstancesFinished, instance>>

(* ---- before the simulation ---------------------------------------------- *)

m_dInitSim == par.startDelay
inSeconds(t) == (t \div 2) * 2

Cycles == 0..(par.numberOfCycles - 1)
FitsCycle(next, cycle) ==
  LET offset == cycle * par.durationOfCycle
  IN /\ (par.isolateCycle \/ cycle = 0) => next >= 0
     /\ (par.isolateCycle \/ cycle = par.numberOfCycles - 1) => next <= par.durationOfCycle
     /\ next + offset \in 0..(par.durationOfCycle * par.numberOfCycles)

getNextTime(last) ==
  CASE par.intervalBetweenUsers ->
         IF last > 0 THEN {draw + last : draw \in par.distribution} ELSE {m_dInitSim}
    [] ~par.intervalBetweenUsers /\ par.activeCycles ->
         {draw + m_dInitSim : draw \in par.distribution}
    [] OTHER ->
         {m_dInitSim + x[1] + x[2] * par.durationOfCycle :
            x \in {y \in par.distribution \X Cycles : FitsCycle(y[1], y[2])}}

Swapped(s, i, j) == [s EXCEPT ![i] = s[j], ![j] = s[i]]
Shuffled(users, nRandom) ==
  LET after[i \in 0..Len(users)] ==
        IF i = 0 THEN users ELSE Swapped(after[i - 1], i, nRandom[i])
  IN after[Len(users)]
generateShuffledUsers(users) ==
  {Shuffled(users, nRandom) : nRandom \in [DOMAIN users -> DOMAIN users]}

(* The next time is drawn from the last one; what an instance keeps has    *)
(* lost its fraction.                                                      *)
generateUserArrivalTimes(users) ==
  LET Drawn == {t \in [DOMAIN users -> Time] :
                  \A i \in DOMAIN users : t[i] \in getNextTime(IF i = 1 THEN 0 ELSE t[i - 1])}
  IN {[r \in ToSet(users) |-> inSeconds(t[CHOOSE i \in DOMAIN users : users[i] = r])] : t \in Drawn}

(* The jobs of the trace that are kept.                                    *)
parse_swf(jobs) == {job \in jobs : job.runtime >= 0 /\ job.size > 0}
parseTraceFile(jobs) ==
  {job \in parse_swf(jobs) :
     job.runtime > 0 /\ job.submit \in par.traceStartTime..par.traceEndTime}

(* The VMs of the user made of a job: whatever its size, none is inserted. *)
CloudUserInstanceTrace(job) == <<>>

(* A request of a user without VMs: "Collection or User-ID malformed!".    *)
createVmRequestFails ==
  \/ \E job \in parseTraceFile(par.jobs) : CloudUserInstanceTrace(job) = <<>>
  \/ \E r \in par.users : Vms[r] = <<>>

(* bSubscribe is not initialized.                                          *)
CloudUserInstance(r, bSubscribe) ==
  [state |-> [i \in DOMAIN Vms[r] |-> "vmIdle"], numFinishedVMs |-> 0,
   numActiveSubscriptions |-> 0, bSubscribe |-> bSubscribe, bTimeout_t4 |-> FALSE,
   bFinished |-> FALSE]

initialize ==
  /\ par \in Setups
  /\ userInstances \in IF par.shuffleUsers THEN generateShuffledUsers(SetToSeq(par.users))
                                           ELSE {SetToSeq(par.users)}
  /\ arrival2Cloud \in generateUserArrivalTimes(userInstances)
  /\ generatorTimer = "WaitToExecute"
  /\ nUserIndex = 0 /\ nUserInstancesFinished = 0
  /\ instance \in {[r \in Generated |-> CloudUserInstance(r, garbage[r])] :
                     garbage \in [Generated -> par.garbage]}
  /\ stopped = IF createVmRequestFails THEN "malformed" ELSE "no"

(* ---- timers ------------------------------------------------------------- *)

isSorted(users) ==
  \A i \in 1..(Len(users) - 1) : arrival2Cloud[users[i]] <= arrival2Cloud[users[i + 1]]

scheduleNextReqGenMessage(users, index, simTime) ==
  IF index = Len(users)
    THEN generatorTimer' = "none" /\ UNCHANGED stopped
    ELSE /\ generatorTimer' = "USER_REQ_GEN"
         /\ stopped' = IF arrival2Cloud[users[index + 1]] < simTime THEN "not sorted" ELSE "no"

(* std::sort need not keep the order of users that arrive together.        *)
handleWaitToExecuteMessage ==
  /\ generatorTimer = "WaitToExecute"
  /\ userInstances' \in {users \in SetToSeqs(par.users) : isSorted(users)}
  /\ scheduleNextReqGenMessage(userInstances', 0, m_dInitSim)
  /\ UNCHANGED <<par, arrival2Cloud, nUserIndex, nUserInstancesFinished, instance>>

handleUserReqGenMessage(r) ==
  /\ generatorTimer = "USER_REQ_GEN"
  /\ r = userInstances[nUserIndex + 1]
  /\ nUserIndex' = nUserIndex + 1
  /\ scheduleNextReqGenMessage(userInstances, nUserIndex + 1, arrival2Cloud[r])
  /\ UNCHANGED <<par, userInstances, arrival2Cloud, nUserInstancesFinished, instance>>

(* ---- what a response does to an instance -------------------------------- *)

allVmsFinished(u) == Len(u.state) <= u.numFinishedVMs

(* Every VM of the user; the count follows those that become vmFinished or *)
(* stop being it.                                                          *)
Finished(u) == {i \in DOMAIN u.state : u.state[i] = "vmFinished"}
setState(u, new) ==
  [u EXCEPT !.state = [i \in DOMAIN @ |-> new],
            !.numFinishedVMs = @ + IF new = "vmFinished"
              THEN Cardinality(DOMAIN u.state \ Finished(u)) ELSE -Cardinality(Finished(u))]
finishIfAll(u) == IF allVmsFinished(u) THEN [u EXCEPT !.bFinished = TRUE] ELSE u
updateVmInstanceStatus(u, new) == finishIfAll(setState(u, new))

startSubscription(u) ==
  [u EXCEPT !.numActiveSubscriptions = @ + 1, !.bSubscribe = @ \/ u.numActiveSubscriptions < 1]
endSubscriptionNever(u) == u                            \* mutant
endSubscription(u) == [u EXCEPT !.numActiveSubscriptions = @ - 1]

(* deployApps ends by marking the VMs as finished, one by one.             *)
deployApps(u) == updateVmInstanceStatus(u, "vmFinished")

handleResponseVmRequest(u, accepted) ==
  IF accepted THEN deployApps(updateVmInstanceStatus(u, "vmAccepted"))
              ELSE startSubscription(updateVmInstanceStatus(u, "vmIdle"))

handleResponseSubscription(u, accepted) ==
  IF accepted
    THEN deployApps(endSubscription(updateVmInstanceStatus(u, "vmAccepted")))
    ELSE [endSubscription(updateVmInstanceStatus(u, "vmFinished")) EXCEPT !.bTimeout_t4 = TRUE]

(* The simulation ends with the response to the last user.                 *)
processResponseMessage(r, op, accepted) ==
  \E u \in {IF op = "VM_Req" THEN handleResponseVmRequest(instance[r], accepted)
                               ELSE handleResponseSubscription(instance[r], accepted)} :
     /\ instance' = [instance EXCEPT ![r] = u]
     /\ nUserInstancesFinished' = nUserInstancesFinished + IF u.bFinished THEN 1 ELSE 0
     /\ stopped' = IF u.bFinished /\ nUserInstancesFinished' >= Len(userInstances)
                     THEN "end" ELSE "no"
     /\ UNCHANGED <<par, userInstances, arrival2Cloud, generatorTimer, nUserIndex>>

(* The statistics written at the end.                                      *)
finish ==
  [nTotalTimeouts |-> Cardinality({r \in par.users : instance[r].bTimeout_t4}),
   dWaitUsers |-> Cardinality({r \in par.users : instance[r].bSubscribe}),
   dNoWaitUsers |-> Cardinality({r \in par.users : ~instance[r].bSubscribe})]
=============================================================================
