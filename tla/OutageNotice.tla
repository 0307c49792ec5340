---------------------------- MODULE OutageNotice ----------------------------
(***************************************************************************)
(* What the alerts of scripts/proxy-auto-switch.py promise to whoever      *)
(* reads them ("same mode does not re-alert"): each one is news, and a     *)
(* recovery is only announced to somebody who was told of an outage.       *)
(* Nothing is promised any more once the alerts have been disturbed.       *)
(***************************************************************************)
VARIABLES
    told,       \* the last alert, or "nothing" yet
    bell,       \* flips with every alert
    disturbed   \* something happened that the promise excludes

notice == <<told, bell, disturbed>>

Outage == {"B", "C"}

NoticeInit == told = "nothing" /\ bell = FALSE /\ disturbed = FALSE

NoticeOutage(mode) ==
    /\ mode \in Outage \ {told}
    /\ told' = mode
    /\ bell' = ~bell
    /\ UNCHANGED disturbed

NoticeRecovery ==
    /\ told \in Outage
    /\ told' = "A_recovered"
    /\ bell' = ~bell
    /\ UNCHANGED disturbed

\* The disturbance itself, and whatever comes after it.
Disturbance == disturbed' = TRUE

NoticeNext ==
    \/ NoticeRecovery
    \/ \E mode \in Outage : NoticeOutage(mode)
    \/ Disturbance

NoticeSpec == NoticeInit /\ [][NoticeNext]_notice
=============================================================================
