----------------------------- MODULE HttpBroker -----------------------------
(***************************************************************************)
(* The http broker of broker/http.go: connecting, subscribing and the      *)
(* registration of subscribers.  HttpInbox models publishing.              *)
(*                                                                         *)
(* Connect starts a `run' goroutine that registers every subscriber again  *)
(* at each tick.  Disconnect holds the write lock while it hands its       *)
(* channel to run; run then needs the lock to deregister the subscribers,  *)
(* and again to restore the address, so both may happen after the next     *)
(* Connect.  A run goroutine whose tick waits for the lock never takes the *)
(* channel: Disconnect and run then wait for each other.                   *)
(*                                                                         *)
(* All subscribers of a topic on one broker register one node, whose id is *)
(* the topic and the broker's id; their queues are versions of one         *)
(* service.  The registry is external: it forgets a node whose time to     *)
(* live ends, and it may refuse to register or to deregister one, which    *)
(* the broker ignores.                                                     *)
(***************************************************************************)
EXTENDS Naturals, Sequences, SequencesExt, FiniteSets

CONSTANTS HttpSubs,        \* httpSubscriber objects of one topic
          Groupings,       \* SubscribeOptions.Queue, "" being broadcast
          MaxConnects,     \* bound: calls of Connect that listen
          MaxRefusals      \* bound: calls that the registry refuses

Runs == 1..MaxConnects

VARIABLES hsSubs,          \* httpBroker.subscribers of the topic
          hsSub,           \* subscriber -> its version and place
          hsReg,           \* versions under which the registry has the node
          hsRunning,       \* httpBroker.running
          hsUser,          \* where the user of Connect and Disconnect is
          hsRun,           \* the run goroutine of each Connect
          hsConnects,      \* Connects so far
          hsRefusals       \* refusals so far

hsVars == <<hsSubs, hsSub, hsReg, hsRunning, hsUser, hsRun, hsConnects, hsRefusals>>

(* The type invariant of the http broker.                                  *)
HttpBrokerTypeOK ==
  /\ Range(hsSubs) \subseteq HttpSubs
  /\ hsSub \in [HttpSubs -> [pc : {"none", "in", "out"}, version : Groupings]]
  /\ hsReg \subseteq Groupings
  /\ hsRunning \in BOOLEAN
  /\ hsUser \in {"idle", "connecting", "disconnecting", "exit"}
  /\ hsRun \in [Runs -> {"none", "select", "tick", "leaving", "reset", "ended"}]
  /\ hsConnects \in 0..MaxConnects
  /\ hsRefusals \in 0..MaxRefusals

HttpBrokerInit ==
  /\ hsSubs = <<>>
  /\ hsSub = [s \in HttpSubs |-> [pc |-> "none",
                                  version |-> CHOOSE v \in Groupings : TRUE]]
  /\ hsReg = {}
  /\ hsRunning = FALSE
  /\ hsUser = "idle"
  /\ hsRun = [r \in Runs |-> "none"]
  /\ hsConnects = 0
  /\ hsRefusals = 0

(* The only step that keeps the lock is Disconnect while it waits for run. *)
Unlocked == hsUser # "exit"

SubscribedVersions == {hsSub[s].version : s \in Range(hsSubs)}

(* The registry is called for versions vs and refuses some of them: the    *)
(* errors are ignored.                                                     *)
Refuses(refused) ==
  /\ hsRefusals' = hsRefusals + (IF refused = {} THEN 0 ELSE 1)
  /\ hsRefusals' <= MaxRefusals

RegisterAll(vs) ==
  \E refused \in SUBSET vs :
    Refuses(refused) /\ hsReg' = hsReg \cup (vs \ refused)

DeregisterAll(vs) ==
  \E refused \in SUBSET vs :
    Refuses(refused) /\ hsReg' = hsReg \ (vs \ refused)

(* Connect: the look at `running', then the rest under the lock, which may *)
(* fail to listen.                                                         *)
HttpConnectCheck ==
  /\ hsUser = "idle"
  /\ ~ hsRunning
  /\ hsUser' = "connecting"
  /\ UNCHANGED <<hsSubs, hsSub, hsReg, hsRunning, hsRun, hsConnects, hsRefusals>>

HttpConnect ==
  /\ hsUser = "connecting"
  /\ hsUser' = "idle"
  /\ \/ /\ hsConnects < MaxConnects
        /\ hsConnects' = hsConnects + 1
        /\ hsRun' = [hsRun EXCEPT ![hsConnects + 1] = "select"]
        /\ hsRunning' = TRUE
     \/ UNCHANGED <<hsRunning, hsRun, hsConnects>>
  /\ UNCHANGED <<hsSubs, hsSub, hsReg, hsRefusals>>

(* Disconnect: the look at `running', the lock, and the hand-over to run,  *)
(* which closes the listener and answers.                                  *)
HttpDisconnectCheck ==
  /\ hsUser = "idle"
  /\ hsRunning
  /\ hsUser' = "disconnecting"
  /\ UNCHANGED <<hsSubs, hsSub, hsReg, hsRunning, hsRun, hsConnects, hsRefusals>>

HttpDisconnectLock ==
  /\ hsUser = "disconnecting"
  /\ hsUser' = "exit"
  /\ UNCHANGED <<hsSubs, hsSub, hsReg, hsRunning, hsRun, hsConnects, hsRefusals>>

HttpDisconnectExit(r) ==
  /\ hsUser = "exit"
  /\ hsRun[r] = "select"
  /\ hsRun' = [hsRun EXCEPT ![r] = "leaving"]
  /\ hsRunning' = FALSE
  /\ hsUser' = "idle"
  /\ UNCHANGED <<hsSubs, hsSub, hsReg, hsConnects, hsRefusals>>

(* run: a tick, the heartbeat under the read lock, and after the exit the  *)
(* deregistration and the reset of the address.                            *)
HttpTick(r) ==
  /\ hsRun[r] = "select"
  /\ hsRun' = [hsRun EXCEPT ![r] = "tick"]
  /\ UNCHANGED <<hsSubs, hsSub, hsReg, hsRunning, hsUser, hsConnects, hsRefusals>>

(* Mutant: the heartbeat registers only the newest subscriber.             *)
HeartbeatNewest(r) ==
  /\ hsRun[r] = "tick"
  /\ Unlocked
  /\ hsRun' = [hsRun EXCEPT ![r] = "select"]
  /\ RegisterAll(IF hsSubs = <<>> THEN {} ELSE {hsSub[Last(hsSubs)].version})
  /\ UNCHANGED <<hsSubs, hsSub, hsRunning, hsUser, hsConnects>>

Heartbeat(r) ==
  /\ hsRun[r] = "tick"
  /\ Unlocked
  /\ hsRun' = [hsRun EXCEPT ![r] = "select"]
  /\ RegisterAll(SubscribedVersions)
  /\ UNCHANGED <<hsSubs, hsSub, hsRunning, hsUser, hsConnects>>

HttpRunLeaves(r) ==
  /\ hsRun[r] = "leaving"
  /\ Unlocked
  /\ hsRun' = [hsRun EXCEPT ![r] = "reset"]
  /\ DeregisterAll(SubscribedVersions)
  /\ UNCHANGED <<hsSubs, hsSub, hsRunning, hsUser, hsConnects>>

HttpRunResets(r) ==
  /\ hsRun[r] = "reset"
  /\ Unlocked
  /\ hsRun' = [hsRun EXCEPT ![r] = "ended"]
  /\ UNCHANGED <<hsSubs, hsSub, hsReg, hsRunning, hsUser, hsConnects, hsRefusals>>

(* Subscribe and Unsubscribe, under the lock.  Subscribe looks at the      *)
(* error of Register and then changes nothing.  Deregister removes the     *)
(* node from its version, whoever else registered it there.                *)
HttpSubscribe(s, v) ==
  /\ hsSub[s].pc = "none"
  /\ Unlocked
  /\ hsSub' = [hsSub EXCEPT ![s] = [pc |-> "in", version |-> v]]
  /\ hsSubs' = Append(hsSubs, s)
  /\ hsReg' = hsReg \cup {v}
  /\ UNCHANGED <<hsRunning, hsUser, hsRun, hsConnects, hsRefusals>>

HttpUnsubscribe(s) ==
  /\ hsSub[s].pc = "in"
  /\ Unlocked
  /\ hsSub' = [hsSub EXCEPT ![s].pc = "out"]
  /\ hsSubs' = SelectSeq(hsSubs, LAMBDA sub : sub # s)
  /\ DeregisterAll({hsSub[s].version})
  /\ UNCHANGED <<hsRunning, hsUser, hsRun, hsConnects>>

(* External: the time to live of a registration ends.                      *)
RegistrationExpires(v) ==
  /\ v \in hsReg
  /\ hsReg' = hsReg \ {v}
  /\ UNCHANGED <<hsSubs, hsSub, hsRunning, hsUser, hsRun, hsConnects, hsRefusals>>

RunStep(r) == Heartbeat(r) \/ HttpRunLeaves(r) \/ HttpRunResets(r)

HttpBrokerNext ==
  \/ HttpConnectCheck \/ HttpConnect \/ HttpDisconnectCheck \/ HttpDisconnectLock
  \/ \E r \in Runs : HttpDisconnectExit(r) \/ HttpTick(r) \/ RunStep(r)
  \/ \E s \in HttpSubs : HttpUnsubscribe(s) \/ \E v \in Groupings : HttpSubscribe(s, v)
  \/ \E v \in Groupings : RegistrationExpires(v)

(* Goroutines run and tickers tick; select takes neither case for ever.    *)
HttpBrokerFairness ==
  /\ WF_hsVars(HttpConnect) /\ WF_hsVars(HttpDisconnectLock)
  /\ \A r \in Runs : /\ WF_hsVars(HttpTick(r))
                     /\ SF_hsVars(HttpDisconnectExit(r))
                     /\ SF_hsVars(RunStep(r))

-----------------------------------------------------------------------------
(* Deregistration of one subscriber, of an earlier connection or by expiry *)
(* may take the node that other subscribers of the topic need.  While the  *)
(* broker is connected each subscriber is registered again, once the       *)
(* registry no longer refuses it, unless the broker is being disconnected  *)
(* (and may be stuck in that).                                             *)
SubscriberRegisteredAgain ==
  \A s \in HttpSubs :
    (hsRunning /\ hsSub[s].pc = "in") ~>
      (hsSub[s].version \in hsReg \/ hsSub[s].pc = "out" \/ hsUser # "idle" \/ ~ hsRunning)

(* Disconnect returns, unless the tick of run waits for the lock that      *)
(* Disconnect holds.                                                       *)
DisconnectReturnsUnlessTick ==
  hsUser = "exit" ~> (hsUser # "exit" \/ \E r \in Runs : hsRun[r] = "tick")

=============================================================================
