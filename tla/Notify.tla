------------------------------- MODULE Notify -------------------------------
(***************************************************************************)
(* The wake-up channels of internal/store/notify.go. Every subscriber has a *)
(* channel with room for one signal; a signal to a full channel is dropped, *)
(* because the one that is pending already makes its reader query again.    *)
(***************************************************************************)

VARIABLES
    notifySubs,   \* Store.notifySubs: subscribers
    wake          \* those of them with a signal in their channel

notifyVars == <<notifySubs, wake>>

NotifyInit == notifySubs = {} /\ wake = {}

SubscribeNotifications(s) == notifySubs' = notifySubs \cup {s} /\ UNCHANGED wake

Unsubscribe(s) == notifySubs' = notifySubs \ {s} /\ wake' = wake \ {s}

notifyChanged == wake' = notifySubs /\ UNCHANGED notifySubs

TakeSignal(s) == s \in wake /\ wake' = wake \ {s} /\ UNCHANGED notifySubs
=============================================================================
