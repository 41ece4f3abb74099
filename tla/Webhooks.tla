------------------------------ MODULE Webhooks ------------------------------
(***************************************************************************)
(* Webhook deliveries (webhooks/services.py, tasks.py): each is sent by a  *)
(* task of its own, and again by the five-minute task until it succeeds or *)
(* has been tried max_retries times.                                       *)
(*                                                                         *)
(* A task reads a delivery once, posts, and saves the whole row it read.   *)
(* The five-minute task reads every due delivery at its start and posts    *)
(* them one after the other, each for up to timeout_seconds, so one run of *)
(* it can overlap the next.                                                *)
(***************************************************************************)
EXTENDS Naturals, FiniteSets

CONSTANTS
    Delivery,     \* WebhookDelivery rows
    Retrier,      \* runs of retry_failed_webhooks that may overlap
    MaxRetries,   \* Webhook.max_retries
    MaxLost       \* bound: tasks the broker refuses, and workers killed

ASSUME RetriesAssumption == MaxRetries \in Nat \ {0}
ASSUME BoundsAssumption == MaxLost \in Nat

VARIABLES
    row,      \* status and attempts of each delivery
    due,      \* next_retry_at has passed
    sender,   \* its send_webhook task
    run,      \* the runs: what each read and has not sent yet, the one it posts
    lost,     \* tasks lost so far
    posts,    \* history: requests that reached the receiver
    took,     \* history: deliveries the receiver answered 2xx
    dropped,  \* history: deliveries whose task was lost
    crossed   \* history: deliveries two tasks had read at the same time

vars == <<row, due, sender, run, lost, posts, took, dropped, crossed>>

Status == {"none", "pending", "success", "failed", "retrying"}
Row == [st : Status, tries : 0 .. MaxRetries]
Settled == {"success", "failed"}
NoRow == [st |-> "none", tries |-> 0]
Idle == [todo |-> {}, seen |-> [d \in Delivery |-> NoRow]]

Init ==
    /\ row = [d \in Delivery |-> NoRow]
    /\ due = [d \in Delivery |-> FALSE]
    /\ sender = [d \in Delivery |-> [pc |-> "none", seen |-> NoRow]]
    /\ run = [r \in Retrier |-> Idle]
    /\ lost = 0
    /\ posts = [d \in Delivery |-> 0]
    /\ took = {} /\ dropped = {} /\ crossed = {}

-----------------------------------------------------------------------------
(* WebhookService.enqueue: the row, then the task; when the broker cannot  *)
(* be reached the error is logged and the row stays Pending.               *)
Enqueue(d) ==
    /\ row[d].st = "none"
    /\ row' = [row EXCEPT ![d].st = "pending"]
    /\ \/ sender' = [sender EXCEPT ![d].pc = "queued"] /\ UNCHANGED <<lost, dropped>>
       \/ lost < MaxLost /\ lost' = lost + 1 /\ dropped' = dropped \cup {d} /\ UNCHANGED sender
    /\ UNCHANGED <<due, run, posts, took, crossed>>

SenderRead(d) ==
    /\ sender[d].pc = "queued"
    /\ sender' = [sender EXCEPT ![d] = [pc |-> "post", seen |-> row[d]]]
    /\ UNCHANGED <<row, due, run, lost, posts, took, dropped, crossed>>

(* Mutant: one try too many. *)
AfterPostOneMore(seen, ok) ==
    [st |-> IF ok THEN "success" ELSE IF seen.tries < MaxRetries THEN "retrying" ELSE "failed",
     tries |-> seen.tries + 1]

(* What _send makes of the row it was given, after a 2xx answer or none.   *)
AfterPost(seen, ok) ==
    [st |-> IF ok THEN "success" ELSE IF seen.tries + 1 < MaxRetries THEN "retrying" ELSE "failed",
     tries |-> seen.tries + 1]

(* _send: the request, then the save of the row as it was read.            *)
Send(d, seen) ==
    \E ok \in BOOLEAN :
       /\ row' = [row EXCEPT ![d] = AfterPost(seen, ok)]
       /\ due' = [due EXCEPT ![d] = @ /\ row'[d].st # "retrying"]
       /\ posts' = [posts EXCEPT ![d] = @ + 1]
       /\ took' = IF ok THEN took \cup {d} ELSE took

SenderPost(d) ==
    /\ sender[d].pc = "post"
    /\ Send(d, sender[d].seen)
    /\ sender' = [sender EXCEPT ![d] = [pc |-> "done", seen |-> NoRow]]
    /\ UNCHANGED <<run, lost, dropped, crossed>>

-----------------------------------------------------------------------------
(* Five minutes after a try that failed. *)
ComesDue(d) ==
    /\ row[d].st = "retrying" /\ ~due[d]
    /\ due' = [due EXCEPT ![d] = TRUE]
    /\ UNCHANGED <<row, sender, run, lost, posts, took, dropped, crossed>>

(* Mutants: the status is not in the filter; the wrong one is. *)
DueNowAny == {d \in Delivery : due[d]}
DueNowFailed == {d \in Delivery : row[d].st = "failed" /\ due[d]}

DueNow == {d \in Delivery : row[d].st = "retrying" /\ due[d]}

Held(d) == sender[d].pc = "post" \/ \E r \in Retrier : d \in run[r].todo

RetryScan(r) ==
    /\ run[r].todo = {} /\ DueNow # {}
    /\ run' = [run EXCEPT ![r] = [todo |-> DueNow,
                                  seen |-> [d \in Delivery |-> IF d \in DueNow THEN row[d] ELSE NoRow]]]
    /\ crossed' = crossed \cup {d \in DueNow : Held(d)}
    /\ UNCHANGED <<row, due, sender, lost, posts, took, dropped>>

RetryPost(r) ==
    \E d \in run[r].todo :
       /\ Send(d, run[r].seen[d])
       /\ run' = [run EXCEPT ![r].todo = @ \ {d}, ![r].seen[d] = NoRow]
       /\ UNCHANGED <<sender, lost, dropped, crossed>>

(* The request went out, and nothing of it was saved. *)
PostOnly(d) ==
    /\ posts' = [posts EXCEPT ![d] = @ + 1]
    /\ took' \in {took, took \cup {d}}

(* A Celery worker is killed: its task is not run again. *)
SenderKilled(d) ==
    /\ sender[d].pc \in {"queued", "post"}
    /\ lost < MaxLost /\ lost' = lost + 1
    /\ sender' = [sender EXCEPT ![d] = [pc |-> "done", seen |-> NoRow]]
    /\ dropped' = dropped \cup {d}
    /\ \/ UNCHANGED <<posts, took>>
       \/ sender[d].pc = "post" /\ PostOnly(d)
    /\ UNCHANGED <<row, due, run, crossed>>

RetryKilled(r) ==
    /\ run[r].todo # {}
    /\ lost < MaxLost /\ lost' = lost + 1
    /\ run' = [run EXCEPT ![r] = Idle]
    /\ \/ UNCHANGED <<posts, took, dropped>>
       \/ \E d \in run[r].todo : PostOnly(d) /\ dropped' = dropped \cup {d}
    /\ UNCHANGED <<row, due, sender, crossed>>

-----------------------------------------------------------------------------
Next ==
    \/ \E d \in Delivery :
          Enqueue(d) \/ SenderRead(d) \/ SenderPost(d) \/ ComesDue(d) \/ SenderKilled(d)
    \/ \E r \in Retrier : RetryScan(r) \/ RetryPost(r) \/ RetryKilled(r)

(* A worker runs what is queued, time passes, and the beat starts the      *)
(* five-minute task again and again.                                       *)
Fairness ==
    /\ \A d \in Delivery : WF_vars(SenderRead(d)) /\ WF_vars(SenderPost(d)) /\ WF_vars(ComesDue(d))
    /\ \A r \in Retrier : WF_vars(RetryScan(r)) /\ WF_vars(RetryPost(r))

Spec == Init /\ [][Next]_vars /\ Fairness

TypeOK ==
    /\ row \in [Delivery -> Row]
    /\ due \in [Delivery -> BOOLEAN]
    /\ sender \in [Delivery -> [pc : {"none", "queued", "post", "done"}, seen : Row]]
    /\ \A r \in Retrier : run[r].todo \subseteq Delivery /\ run[r].seen \in [Delivery -> Row]
    /\ lost \in 0 .. MaxLost
    /\ took \cup dropped \cup crossed \subseteq Delivery

(* What the receiver took is never sent again, nor shown as failed: only a *)
(* run that overlaps, or a worker killed before its save, does either.     *)
TakenStays ==
    [][\A d \in took \ (crossed' \cup dropped') : row'[d].st = "success" /\ posts'[d] = posts[d]]_vars

(* A delivery that waits for another try is settled in the end, whatever   *)
(* runs overlap and however a stale save sets it back.                     *)
RetryingSettles == \A d \in Delivery : row[d].st = "retrying" ~> row[d].st \in Settled
=============================================================================
