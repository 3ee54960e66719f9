------------------------------- MODULE MCSpeech -------------------------------
(***************************************************************************)
(* Five parts of the daemon that share no state: the stream manager with   *)
(* speech to text, the barge-in coordinator, audio ingress, the intent     *)
(* router, and the notification service.  In a behaviour one of them is at *)
(* work, and the others stay as they began.                                *)
(***************************************************************************)
EXTENDS StreamManager, BargeIn, AudioIngress, IntentRouter, Notification, TLC

CONSTANTS key1, key2    \* playbacks, keys, sessions: one part is at work at a time

VARIABLE part

MCPlaybacks == {key1, key2}
MCSubscriptions == {{key1}, {key2}}
Symmetry == Permutations(MCPlaybacks)

Parts == {"streams", "barge", "ingress", "router", "notices"}

SpeechInit ==
    /\ part \in Parts
    /\ Init /\ BargeInit /\ IngressInit /\ RouterInit /\ NotifyInit

\* Bound: streams opened, timers set and Shutdown, all told.
StreamBound == streams + timers + (IF shutdown = "no" THEN 0 ELSE 1) <= 4

speechVars == <<part, vars, bargeVars, ingressVars, routerVars, notifyVars>>

SpeechNext ==
    /\ UNCHANGED part
    /\ \/ /\ part = "streams" /\ Next /\ StreamBound'
          /\ UNCHANGED <<bargeVars, ingressVars, routerVars, notifyVars>>
       \/ /\ part = "barge" /\ BargeNext
          /\ UNCHANGED <<vars, ingressVars, routerVars, notifyVars>>
       \/ /\ part = "ingress" /\ IngressNext
          /\ UNCHANGED <<vars, bargeVars, routerVars, notifyVars>>
       \/ /\ part = "router" /\ RouterNext
          /\ UNCHANGED <<vars, bargeVars, ingressVars, notifyVars>>
       \/ /\ part = "notices" /\ NotifyNext
          /\ UNCHANGED <<vars, bargeVars, ingressVars, routerVars>>

SpeechSpec == SpeechInit /\ [][SpeechNext]_speechVars

\* The states of the part at work have their types; the others keep their first.
SpeechTypeOK ==
    CASE part = "streams" -> TypeOK
      [] part = "barge" -> BargeTypeOK
      [] part = "ingress" -> IngressTypeOK
      [] part = "router" -> RouterTypeOK
      [] part = "notices" -> NotifyTypeOK
=============================================================================
