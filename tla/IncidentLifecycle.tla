-------------------------- MODULE IncidentLifecycle --------------------------
(***************************************************************************)
(* What the watchdog promises of one outage, whatever the goroutines, maps *)
(* and tables it is made of: an incident is logged, then its alert is      *)
(* broadcast, then the incident is closed, then its end is broadcast - in  *)
(* this order, each once.  What was broadcast is under way for a while, if *)
(* there is anybody to tell, and arrives or gets lost: the end of an       *)
(* outage may well arrive before its alert.  A process that ends leaves    *)
(* behind the incidents it has not closed, and drops the messages under    *)
(* way; its successor knows nothing of them and starts afresh.             *)
(***************************************************************************)
EXTENDS Naturals

CONSTANT Monitors

VARIABLES
  phase,     \* how far the current outage of a monitor has been reported
  mail,      \* the texts about a monitor that are under way
  abandoned  \* incidents of a monitor that nobody will close

report == <<phase, mail, abandoned>>

Phase == {"calm", "logged", "alerted", "closed"}

LifecycleTypeOK ==
  /\ phase \in [Monitors -> Phase]
  /\ mail \in [Monitors -> SUBSET {"alert", "recovery"}]
  /\ abandoned \in [Monitors -> Nat]

LifecycleInit ==
  /\ phase = [m \in Monitors |-> "calm"]
  /\ mail = [m \in Monitors |-> {}]
  /\ abandoned = [m \in Monitors |-> 0]

Advance(m, from, to) ==
  /\ phase[m] = from
  /\ phase' = [phase EXCEPT ![m] = to]
  /\ UNCHANGED abandoned

Record(m, from, to) == Advance(m, from, to) /\ UNCHANGED mail

Broadcast(m, from, to, text) ==
  /\ Advance(m, from, to)
  /\ mail' = [mail EXCEPT ![m] = @ \cup {text}] \/ UNCHANGED mail

LogIncident(m) == Record(m, "calm", "logged")
BroadcastAlert(m) == Broadcast(m, "logged", "alerted", "alert")
CloseIncident(m) == Record(m, "alerted", "closed")
BroadcastRecovery(m) == Broadcast(m, "closed", "calm", "recovery")

\* It arrived, or it never will.
MessageEnds(m, text) ==
  /\ text \in mail[m]
  /\ mail' = [mail EXCEPT ![m] = @ \ {text}]
  /\ UNCHANGED <<phase, abandoned>>

\* The incident of an outage that is not closed yet is left behind.
Abandon ==
  /\ abandoned' = [m \in Monitors |->
                     IF phase[m] \in {"logged", "alerted"} THEN abandoned[m] + 1
                                                           ELSE abandoned[m]]
  /\ phase' = [m \in Monitors |-> "calm"]
  /\ mail' = [m \in Monitors |-> {}]

LifecycleNext ==
  \/ \E m \in Monitors :
       \/ LogIncident(m) \/ BroadcastAlert(m) \/ CloseIncident(m) \/ BroadcastRecovery(m)
       \/ \E text \in mail[m] : MessageEnds(m, text)
  \/ Abandon

LifecycleSafety == LifecycleInit /\ [][LifecycleNext]_report

\* A logged incident is broadcast and a closed one too, unless the process ends first, and
\* no message stays under way for good.
LifecycleSpec ==
  /\ LifecycleSafety
  /\ \A m \in Monitors :
       /\ WF_report(BroadcastAlert(m) \/ BroadcastRecovery(m))
       /\ \A text \in {"alert", "recovery"} : WF_report(MessageEnds(m, text))
=============================================================================
