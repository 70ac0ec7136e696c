----------------------------- MODULE Lifecycle -----------------------------
(***************************************************************************)
(* What the delivery side promises, without the workers, the requests, the  *)
(* tables and the process that keep the promise: a delivery waits, is sent  *)
(* at most once per attempt and while nothing else to the same resource is  *)
(* unaccounted for, is followed to the deployment it was bound to, ends,    *)
(* and is started over or forgotten only when that cannot do harm.          *)
(***************************************************************************)
EXTENDS Naturals

CONSTANTS
    Deliveries,
    MaxAttempts,      \* bound: attempts of one delivery
    Apart(_, _),      \* deliveries whose sends are kept apart
    NULL              \* no deployment

VARIABLES
    accepted,   \* deliveries ever accepted
    life,       \* the current attempt of a delivery: its number, stage and deployment
    posts,      \* requests sent for an attempt
    taken       \* attempts whose request the remote server took

vars == <<accepted, life, posts, taken>>

(* "doubtful": nobody knows whether the request arrived; "ended": it is over  *)
(* without success, or nobody knows how.                                     *)
Unborn == [number |-> 0, stage |-> "none", bound |-> NULL]
Waiting(k) == [number |-> k, stage |-> "waiting", bound |-> NULL]

Att(d) == <<d, life[d].number>>
InFlight(d) == life[d].stage \in {"sending", "doubtful", "following"} /\ life[d].bound = NULL
At(d, stages) == life[d].stage \in stages
Becomes(d, new) == life' = [life EXCEPT ![d] = new]
Enters(d, stage) == Becomes(d, [life[d] EXCEPT !.stage = stage])

Init ==
    /\ accepted = {}
    /\ life = [d \in Deliveries |-> Unborn]
    /\ posts = [a \in Deliveries \X (1..MaxAttempts) |-> 0]
    /\ taken = {}

Accept(d) ==
    /\ d \notin accepted
    /\ accepted' = accepted \cup {d}
    /\ Becomes(d, Waiting(1))
    /\ UNCHANGED <<posts, taken>>

(* It is sent only while nothing that it could be confused with is under way. *)
Claim(d) ==
    /\ At(d, {"waiting"})
    /\ \A e \in Deliveries \ {d} : Apart(e, d) => ~InFlight(e)
    /\ Enters(d, "sending")
    /\ UNCHANGED <<accepted, posts, taken>>

Send(d) ==
    /\ At(d, {"sending"})
    /\ posts[Att(d)] = 0
    /\ posts' = [posts EXCEPT ![Att(d)] = 1]
    /\ taken' \in {taken, taken \cup {Att(d)}}
    /\ UNCHANGED <<accepted, life>>

(* What is followed arrived, what failed did not, and what is done was sent. *)
Conclude(d, stage) ==
    /\ At(d, {"sending"})
    /\ CASE stage = "failed" -> Att(d) \notin taken
         [] stage = "following" -> Att(d) \in taken
         [] OTHER -> posts[Att(d)] = 1
    /\ Enters(d, stage)
    /\ UNCHANGED <<accepted, posts, taken>>

(* The deployment is looked up, also that of an attempt that was given up.   *)
(* It is the same one each time, and whatever goes on or succeeds has one.   *)
Follow(d) ==
    /\ At(d, {"doubtful", "following", "ended"})
    /\ \E stage \in {"following", "done", "ended"} :
        /\ Becomes(d, [number |-> life[d].number, stage |-> stage, bound |-> life'[d].bound])
        /\ life[d].bound # NULL => life'[d].bound = life[d].bound
        /\ stage # "ended" => life'[d].bound # NULL
    /\ UNCHANGED <<accepted, posts, taken>>

(* An operator starts over, never beside what is followed or done.           *)
Retry(d) ==
    /\ At(d, {"doubtful", "failed", "ended"})
    /\ life[d].number < MaxAttempts
    /\ Becomes(d, Waiting(life[d].number + 1))
    /\ UNCHANGED <<accepted, posts, taken>>

(* A restart gives up what its configuration no longer resolves ...          *)
Withdraw(d) ==
    /\ \/ At(d, {"waiting"}) /\ Att(d) \notin taken /\ Enters(d, "failed")
       \/ At(d, {"sending", "doubtful", "following"}) /\ Enters(d, "ended")
    /\ UNCHANGED <<accepted, posts, taken>>

(* ... and never repeats a send that it interrupted.                         *)
Recover ==
    /\ life' = [d \in Deliveries |->
                  IF At(d, {"sending"}) THEN [life[d] EXCEPT !.stage = "doubtful"] ELSE life[d]]
    /\ UNCHANGED <<accepted, posts, taken>>

(* Only what is over is forgotten, and it does not come back.                *)
Forget(D) ==
    /\ \A d \in D : At(d, {"failed", "done", "ended"})
    /\ life' = [d \in Deliveries |-> IF d \in D THEN Unborn ELSE life[d]]
    /\ UNCHANGED <<accepted, posts, taken>>

Next ==
    \/ \E d \in Deliveries :
        \/ Accept(d) \/ Claim(d) \/ Send(d)
        \/ \E stage \in {"failed", "doubtful", "following", "done", "ended"} : Conclude(d, stage)
        \/ Follow(d) \/ Retry(d) \/ Withdraw(d)
    \/ Recover
    \/ \E D \in SUBSET Deliveries : Forget(D)

Spec == Init /\ [][Next]_vars
=============================================================================
