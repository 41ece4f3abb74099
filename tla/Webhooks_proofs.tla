--------------------------- MODULE Webhooks_proofs ---------------------------
(***************************************************************************)
(* Types of the webhook deliveries, and what keeps a delivery that was     *)
(* taken from being sent again, for any deliveries, overlapping runs,      *)
(* retries and lost tasks.                                                 *)
(*                                                                         *)
(* Neither is inductive: the tries of a row stay within MaxRetries only    *)
(* because a row is held for another try only below the limit (Bounded),   *)
(* and a delivery is sent once because, until two tasks have read it, one  *)
(* task at most holds it, and none does once it was taken (Sole).  That no *)
(* run ever holds a delivery together with its own task is Senders.        *)
(***************************************************************************)
EXTENDS Webhooks, TLAPS

(* The types, with those of the history and of the runs. *)
Types ==
    /\ TypeOK
    /\ run \in [Retrier -> [todo : SUBSET Delivery, seen : [Delivery -> Row]]]
    /\ posts \in [Delivery -> Nat]

(* What waits for another try, or is about to be tried, has a try left. *)
Bounded(d) ==
    /\ row[d].st = "retrying" => row[d].tries < MaxRetries
    /\ \A r \in Retrier : d \in run[r].todo => run[r].seen[d].tries < MaxRetries

(* Until its own task has posted, a delivery is untouched and no run has it. *)
Senders(d) ==
    /\ row[d].st = "none" => sender[d].pc = "none"
    /\ sender[d].pc # "done" => /\ row[d].st \in {"none", "pending"} /\ row[d].tries = 0 /\ d \notin took
                                /\ \A r \in Retrier : d \notin run[r].todo
    /\ sender[d].pc = "post" => sender[d].seen.tries = 0

(* A delivery no two tasks have read at once, and of which none was lost,  *)
(* is with one run at most, and with none once it was taken.               *)
Sole(d) ==
    d \notin crossed \cup dropped =>
        /\ \A r, s \in Retrier : d \in run[r].todo /\ d \in run[s].todo => r = s
        /\ d \in took => row[d].st = "success" /\ \A r \in Retrier : d \notin run[r].todo

(* The inductive invariant. *)
IInv == Types /\ \A d \in Delivery : Bounded(d) /\ Senders(d) /\ Sole(d)

(* _send: the row is settled, or below the limit; it is Success when the   *)
(* delivery was taken.                                                     *)
LEMMA Sent ==
    ASSUME Types, NEW d \in Delivery, NEW seen \in Row, seen.tries < MaxRetries, Send(d, seen)
    PROVE  /\ \E w \in Row : /\ row' = [row EXCEPT ![d] = w]
                             /\ w.st \in {"success", "failed", "retrying"}
                             /\ w.st = "retrying" => w.tries < MaxRetries
                             /\ took' = took \/ (took' = took \cup {d} /\ w.st = "success")
           /\ due' \in [Delivery -> BOOLEAN]
           /\ posts' = [posts EXCEPT ![d] = @ + 1]
<1>1. PICK ok \in BOOLEAN : /\ row' = [row EXCEPT ![d] = AfterPost(seen, ok)]
                            /\ due' = [due EXCEPT ![d] = @ /\ row'[d].st # "retrying"]
                            /\ posts' = [posts EXCEPT ![d] = @ + 1]
                            /\ took' = IF ok THEN took \cup {d} ELSE took
    BY DEF Send
<1>t. seen.tries \in Nat /\ MaxRetries \in Nat
    BY RetriesAssumption DEF Row
<1> DEFINE w == AfterPost(seen, ok)
<1>2. /\ w.st = IF ok THEN "success" ELSE IF seen.tries + 1 < MaxRetries THEN "retrying" ELSE "failed"
      /\ w.tries = seen.tries + 1
      /\ w = [st |-> w.st, tries |-> w.tries]
    BY DEF AfterPost
<1>3. w.tries \in 0 .. MaxRetries /\ w.st \in {"success", "failed", "retrying"}
    BY <1>2, <1>t
<1>4. w \in Row
    BY <1>2, <1>3 DEF Row, Status
<1>5. w.st = "retrying" => w.tries < MaxRetries
    BY <1>2
<1>6. took' = took \/ (took' = took \cup {d} /\ w.st = "success")
    BY <1>1, <1>2
<1>7. row' = [row EXCEPT ![d] = w]
    BY <1>1
<1>8. due' \in [Delivery -> BOOLEAN]
  <2>1. due' = [due EXCEPT ![d] = due[d] /\ row'[d].st # "retrying"]
      BY <1>1
  <2>2. (due[d] /\ row'[d].st # "retrying") \in BOOLEAN
      OBVIOUS
  <2>3. due \in [Delivery -> BOOLEAN]
      BY DEF Types, TypeOK
  <2> QED BY <2>1, <2>2, <2>3
<1> HIDE DEF w
<1> QED BY <1>1, <1>3, <1>4, <1>5, <1>6, <1>7, <1>8

(* The row a task is about to post has a try left. *)
LEMMA SeenLeft ==
    ASSUME IInv, NEW d \in Delivery
    PROVE  /\ sender[d].pc = "post" => sender[d].seen \in Row /\ sender[d].seen.tries < MaxRetries
           /\ \A r \in Retrier : d \in run[r].todo => run[r].seen[d] \in Row /\ run[r].seen[d].tries < MaxRetries
<1>1. 0 < MaxRetries
    BY RetriesAssumption
<1> QED BY <1>1 DEF IInv, Types, TypeOK, Senders, Bounded

(* Types and the invariant are kept by a step that posts nothing. *)
LEMMA QuietStep ==
    ASSUME IInv, NEW c \in Delivery, Enqueue(c) \/ SenderRead(c) \/ ComesDue(c)
    PROVE  IInv'
<1>t. /\ Types /\ row \in [Delivery -> Row] /\ due \in [Delivery -> BOOLEAN] /\ lost \in 0 .. MaxLost
      /\ sender \in [Delivery -> [pc : {"none", "queued", "post", "done"}, seen : Row]]
      /\ took \cup dropped \cup crossed \subseteq Delivery /\ MaxLost \in Nat
    BY BoundsAssumption DEF IInv, Types, TypeOK
<1>d. \A d \in Delivery : Bounded(d) /\ Senders(d) /\ Sole(d)
    BY DEF IInv
<1>1. CASE Enqueue(c)
  <2>1. /\ row[c].st = "none" /\ row' = [row EXCEPT ![c].st = "pending"]
        /\ sender' = [sender EXCEPT ![c].pc = "queued"] \/ sender' = sender
        /\ UNCHANGED <<due, run, posts, took, crossed>>
        /\ dropped' = dropped \/ dropped' = dropped \cup {c}
        /\ lost' = lost \/ (lost < MaxLost /\ lost' = lost + 1)
      BY <1>1 DEF Enqueue
  <2>2. Types'
    <3>1. row' \in [Delivery -> Row]
      <4>1. [row[c] EXCEPT !.st = "pending"] \in Row
          BY <1>t DEF Row, Status
      <4> QED BY <2>1, <4>1, <1>t
    <3>2. sender' \in [Delivery -> [pc : {"none", "queued", "post", "done"}, seen : Row]]
      <4>1. [sender[c] EXCEPT !.pc = "queued"] \in [pc : {"none", "queued", "post", "done"}, seen : Row]
          BY <1>t
      <4> QED BY <2>1, <4>1, <1>t
    <3>3. lost' \in 0 .. MaxLost /\ took' \cup dropped' \cup crossed' \subseteq Delivery
        BY <2>1, <1>t
    <3> QED BY <2>1, <3>1, <3>2, <3>3, <1>t DEF Types, TypeOK
  <2>3. ASSUME NEW d \in Delivery PROVE Bounded(d)' /\ Senders(d)' /\ Sole(d)'
    <3>1. CASE d = c
      <4>1. row'[d].st = "pending" /\ row'[d].tries = row[d].tries
          BY <2>1, <3>1, <1>t DEF Row
      <4>2. sender[d].pc = "none" /\ sender'[d].pc \in {"none", "queued"}
          BY <2>1, <3>1, <1>d, <1>t DEF Senders
      <4>3. row[d].tries = 0 /\ d \notin took /\ \A r \in Retrier : d \notin run[r].todo
          BY <4>2, <1>d DEF Senders
      <4> QED BY <2>1, <4>1, <4>2, <4>3 DEF Bounded, Senders, Sole
    <3>2. CASE d # c
      <4>1. row'[d] = row[d] /\ sender'[d] = sender[d] /\ (d \in dropped <=> d \in dropped')
          BY <2>1, <3>2, <1>t
      <4> QED BY <2>1, <4>1, <1>d DEF Bounded, Senders, Sole
    <3> QED BY <3>1, <3>2
  <2> QED BY <2>2, <2>3 DEF IInv
<1>2. CASE SenderRead(c)
  <2>1. /\ sender[c].pc = "queued" /\ sender' = [sender EXCEPT ![c] = [pc |-> "post", seen |-> row[c]]]
        /\ UNCHANGED <<row, due, run, lost, posts, took, dropped, crossed>>
      BY <1>2 DEF SenderRead
  <2>2. Types'
      BY <2>1, <1>t DEF Types, TypeOK
  <2>3. ASSUME NEW d \in Delivery PROVE Bounded(d)' /\ Senders(d)' /\ Sole(d)'
    <3>1. sender'[d] = IF d = c THEN [pc |-> "post", seen |-> row[c]] ELSE sender[d]
        BY <2>1, <1>t
    <3> QED BY <2>1, <3>1, <1>d DEF Bounded, Senders, Sole
  <2> QED BY <2>2, <2>3 DEF IInv
<1>3. CASE ComesDue(c)
  <2>1. due' = [due EXCEPT ![c] = TRUE] /\ UNCHANGED <<row, sender, run, lost, posts, took, dropped, crossed>>
      BY <1>3 DEF ComesDue
  <2>2. Types'
      BY <2>1, <1>t DEF Types, TypeOK
  <2> QED BY <2>1, <2>2, <1>d DEF IInv, Bounded, Senders, Sole
<1> QED BY <1>1, <1>2, <1>3

(* A delivery's own task posts: no run holds the delivery. *)
LEMMA SenderPostStep == ASSUME IInv, NEW c \in Delivery, SenderPost(c) PROVE IInv'
<1>t. /\ Types /\ row \in [Delivery -> Row] /\ posts \in [Delivery -> Nat]
      /\ sender \in [Delivery -> [pc : {"none", "queued", "post", "done"}, seen : Row]]
      /\ took \cup dropped \cup crossed \subseteq Delivery
    BY DEF IInv, Types, TypeOK
<1>d. \A d \in Delivery : Bounded(d) /\ Senders(d) /\ Sole(d)
    BY DEF IInv
<1>1. /\ sender[c].pc = "post" /\ Send(c, sender[c].seen)
      /\ sender' = [sender EXCEPT ![c] = [pc |-> "done", seen |-> NoRow]]
      /\ UNCHANGED <<run, lost, dropped, crossed>>
    BY DEF SenderPost
<1>2. sender[c].seen \in Row /\ sender[c].seen.tries < MaxRetries
    BY <1>1, SeenLeft
<1>3. /\ \E w \in Row : /\ row' = [row EXCEPT ![c] = w]
                        /\ w.st \in {"success", "failed", "retrying"}
                        /\ w.st = "retrying" => w.tries < MaxRetries
                        /\ took' = took \/ (took' = took \cup {c} /\ w.st = "success")
      /\ due' \in [Delivery -> BOOLEAN]
      /\ posts' = [posts EXCEPT ![c] = @ + 1]
    BY <1>1, <1>2, <1>t, Sent
<1>4. PICK w \in Row : /\ row' = [row EXCEPT ![c] = w]
                       /\ w.st \in {"success", "failed", "retrying"}
                       /\ w.st = "retrying" => w.tries < MaxRetries
                       /\ took' = took \/ (took' = took \cup {c} /\ w.st = "success")
    BY <1>3
<1>5. Types'
  <2>1. NoRow \in Row
      BY RetriesAssumption DEF NoRow, Row, Status
  <2>2. row' \in [Delivery -> Row] /\ sender' \in [Delivery -> [pc : {"none", "queued", "post", "done"}, seen : Row]]
      BY <2>1, <1>1, <1>4, <1>t
  <2>3. posts' \in [Delivery -> Nat] /\ took' \cup dropped' \cup crossed' \subseteq Delivery
      BY <1>1, <1>3, <1>4, <1>t
  <2> QED BY <2>2, <2>3, <1>1, <1>3, <1>t DEF Types, TypeOK
<1>6. ASSUME NEW d \in Delivery PROVE Bounded(d)' /\ Senders(d)' /\ Sole(d)'
  <2>1. CASE d = c
    <3>1. row'[d] = w /\ sender'[d].pc = "done"
        BY <2>1, <1>1, <1>4, <1>t
    <3>2. d \notin took /\ \A r \in Retrier : d \notin run[r].todo
        BY <2>1, <1>1, <1>d DEF Senders
    <3> QED BY <3>1, <3>2, <2>1, <1>1, <1>4 DEF Bounded, Senders, Sole
  <2>2. CASE d # c
    <3>1. row'[d] = row[d] /\ sender'[d] = sender[d] /\ (d \in took' <=> d \in took)
        BY <2>2, <1>1, <1>4, <1>t
    <3> QED BY <3>1, <1>1, <1>d DEF Bounded, Senders, Sole
  <2> QED BY <2>1, <2>2
<1> QED BY <1>5, <1>6 DEF IInv

(* A run reads what is due: what another task holds is crossed from now on. *)
LEMMA ScanStep == ASSUME IInv, NEW s \in Retrier, RetryScan(s) PROVE IInv'
<1>t. /\ Types /\ row \in [Delivery -> Row] /\ run \in [Retrier -> [todo : SUBSET Delivery, seen : [Delivery -> Row]]]
      /\ took \cup dropped \cup crossed \subseteq Delivery
    BY DEF IInv, Types, TypeOK
<1>d. \A d \in Delivery : Bounded(d) /\ Senders(d) /\ Sole(d)
    BY DEF IInv
<1> DEFINE now == DueNow
           seen == [d \in Delivery |-> IF d \in now THEN row[d] ELSE NoRow]
<1>1. /\ run[s].todo = {} /\ run' = [run EXCEPT ![s] = [todo |-> now, seen |-> seen]]
      /\ crossed' = crossed \cup {d \in now : Held(d)}
      /\ UNCHANGED <<row, due, sender, lost, posts, took, dropped>>
    BY DEF RetryScan
<1>2. now \subseteq Delivery /\ \A d \in now : row[d].st = "retrying"
    BY DEF DueNow
<1>3. NoRow \in Row
    BY RetriesAssumption DEF NoRow, Row, Status
<1>4. seen \in [Delivery -> Row] /\ \A d \in now : seen[d] = row[d]
    BY <1>2, <1>3, <1>t
<1> HIDE DEF now, seen
<1>5. Types'
  <2>1. run' \in [Retrier -> [todo : SUBSET Delivery, seen : [Delivery -> Row]]]
      BY <1>1, <1>2, <1>4, <1>t
  <2> QED BY <2>1, <1>1, <1>2, <1>t DEF Types, TypeOK
<1>6. ASSUME NEW d \in Delivery PROVE Bounded(d)' /\ Senders(d)' /\ Sole(d)'
  <2>1. \A r \in Retrier : run'[r] = IF r = s THEN [todo |-> now, seen |-> seen] ELSE run[r]
      BY <1>1, <1>t
  <2>2. Bounded(d)'
      BY <2>1, <1>1, <1>2, <1>4, <1>d DEF Bounded
  <2>3. Senders(d)'
      BY <2>1, <1>1, <1>2, <1>d DEF Senders
  <2>4. Sole(d)'
    <3>1. CASE d \notin now
        BY <3>1, <2>1, <1>1, <1>d DEF Sole
    <3>2. CASE d \in now
      <4> SUFFICES ASSUME d \notin crossed' \cup dropped'
                   PROVE  /\ \A r, q \in Retrier : d \in run'[r].todo /\ d \in run'[q].todo => r = q
                          /\ d \notin took'
          BY DEF Sole
      <4>1. \A r \in Retrier : d \notin run[r].todo
          BY <3>2, <1>1 DEF Held
      <4>2. d \notin took
          BY <3>2, <1>1, <1>2, <1>d DEF Sole
      <4> QED BY <4>1, <4>2, <2>1, <1>1
    <3> QED BY <3>1, <3>2
  <2> QED BY <2>2, <2>3, <2>4
<1> QED BY <1>5, <1>6 DEF IInv

(* A run posts one of its deliveries and lets go of it. *)
LEMMA RetryPostStep == ASSUME IInv, NEW s \in Retrier, RetryPost(s) PROVE IInv'
<1>t. /\ Types /\ row \in [Delivery -> Row] /\ run \in [Retrier -> [todo : SUBSET Delivery, seen : [Delivery -> Row]]]
      /\ took \cup dropped \cup crossed \subseteq Delivery /\ posts \in [Delivery -> Nat]
    BY DEF IInv, Types, TypeOK
<1>d. \A d \in Delivery : Bounded(d) /\ Senders(d) /\ Sole(d)
    BY DEF IInv
<1>1. PICK c \in run[s].todo : /\ Send(c, run[s].seen[c])
                               /\ run' = [run EXCEPT ![s].todo = @ \ {c}, ![s].seen[c] = NoRow]
                               /\ UNCHANGED <<sender, lost, dropped, crossed>>
    BY DEF RetryPost
<1>2. c \in Delivery /\ run[s].seen[c] \in Row /\ run[s].seen[c].tries < MaxRetries
    BY <1>t, SeenLeft
<1>3. /\ \E w \in Row : /\ row' = [row EXCEPT ![c] = w]
                        /\ w.st \in {"success", "failed", "retrying"}
                        /\ w.st = "retrying" => w.tries < MaxRetries
                        /\ took' = took \/ (took' = took \cup {c} /\ w.st = "success")
      /\ due' \in [Delivery -> BOOLEAN]
      /\ posts' = [posts EXCEPT ![c] = @ + 1]
    BY <1>1, <1>2, <1>t, Sent
<1>4. PICK w \in Row : /\ row' = [row EXCEPT ![c] = w]
                       /\ w.st \in {"success", "failed", "retrying"}
                       /\ w.st = "retrying" => w.tries < MaxRetries
                       /\ took' = took \/ (took' = took \cup {c} /\ w.st = "success")
    BY <1>3
<1>5. NoRow \in Row
    BY RetriesAssumption DEF NoRow, Row, Status
<1>6. /\ run'[s].todo = run[s].todo \ {c} /\ \A d \in Delivery : d # c => run'[s].seen[d] = run[s].seen[d]
      /\ \A r \in Retrier : r # s => run'[r] = run[r]
      /\ run' \in [Retrier -> [todo : SUBSET Delivery, seen : [Delivery -> Row]]]
  <2> DEFINE left == [todo |-> run[s].todo \ {c}, seen |-> [run[s].seen EXCEPT ![c] = NoRow]]
  <2>1. run' = [run EXCEPT ![s] = left]
    <3> DEFINE half == [run EXCEPT ![s].todo = @ \ {c}]
    <3>1. run' = [half EXCEPT ![s].seen[c] = NoRow]
        BY <1>1
    <3>2. half \in [Retrier -> [todo : SUBSET Delivery, seen : [Delivery -> Row]]]
        BY <1>t
    <3>3. half[s] = [todo |-> run[s].todo \ {c}, seen |-> run[s].seen]
        BY <1>t
    <3>4. \A r \in Retrier : r # s => half[r] = run[r]
        BY <1>t
    <3> HIDE DEF half
    <3>5. run' = [half EXCEPT ![s] = [half[s] EXCEPT !.seen = [half[s].seen EXCEPT ![c] = NoRow]]]
        BY <3>1
    <3>6. [half[s] EXCEPT !.seen = [half[s].seen EXCEPT ![c] = NoRow]] = left
        BY <3>3
    <3> QED BY <3>2, <3>4, <3>5, <3>6, <1>t
  <2>2. /\ left \in [todo : SUBSET Delivery, seen : [Delivery -> Row]]
        /\ left.todo = run[s].todo \ {c} /\ \A d \in Delivery : d # c => left.seen[d] = run[s].seen[d]
      BY <1>5, <1>t
  <2> HIDE DEF left
  <2> QED BY <2>1, <2>2, <1>t
<1>7. Types'
  <2>1. row' \in [Delivery -> Row] /\ posts' \in [Delivery -> Nat]
      BY <1>2, <1>3, <1>4, <1>t
  <2>2. took' \cup dropped' \cup crossed' \subseteq Delivery
      BY <1>1, <1>2, <1>4, <1>t
  <2> QED BY <2>1, <2>2, <1>1, <1>3, <1>6, <1>t DEF Types, TypeOK
<1>8. ASSUME NEW d \in Delivery PROVE Bounded(d)' /\ Senders(d)' /\ Sole(d)'
  <2>1. \A r \in Retrier : d \in run'[r].todo => d \in run[r].todo /\ (d # c \/ r # s)
      BY <1>6
  <2>2. CASE d = c
    <3>1. row'[d] = w
        BY <2>2, <1>2, <1>4, <1>t
    <3>2. Bounded(d)'
        BY <2>1, <2>2, <3>1, <1>4, <1>6, <1>d DEF Bounded
    <3>3. sender'[d].pc = "done"
        BY <2>2, <1>1, <1>2, <1>d, <1>t DEF Senders
    <3>4. Senders(d)'
        BY <3>1, <3>3, <1>4 DEF Senders
    <3>5. Sole(d)'
      <4> SUFFICES ASSUME d \notin crossed \cup dropped
                   PROVE  /\ \A r \in Retrier : d \notin run'[r].todo
                          /\ d \in took' => row'[d].st = "success"
          BY <1>1 DEF Sole
      <4>1. \A r \in Retrier : d \in run[r].todo => r = s
          BY <2>2, <1>1, <1>d DEF Sole
      <4>2. d \notin took
          BY <2>2, <1>1, <1>d DEF Sole
      <4> QED BY <4>1, <4>2, <2>1, <2>2, <3>1, <1>4
    <3> QED BY <3>2, <3>4, <3>5
  <2>3. CASE d # c
    <3>1. row'[d] = row[d] /\ sender'[d] = sender[d] /\ (d \in took' <=> d \in took)
        BY <2>3, <1>1, <1>4, <1>t
    <3>2. \A r \in Retrier : d \in run'[r].todo => run'[r].seen[d] = run[r].seen[d]
        BY <2>3, <1>6
    <3> QED BY <2>1, <3>1, <3>2, <1>1, <1>d DEF Bounded, Senders, Sole
  <2> QED BY <2>2, <2>3
<1> QED BY <1>7, <1>8 DEF IInv

(* A killed worker lets go of what it held; what it had already sent of it *)
(* counts as lost.                                                         *)
LEMMA KilledStep ==
    ASSUME IInv, \/ \E c \in Delivery : SenderKilled(c)
                 \/ \E s \in Retrier : RetryKilled(s)
    PROVE  IInv'
<1>t. /\ Types /\ row \in [Delivery -> Row] /\ run \in [Retrier -> [todo : SUBSET Delivery, seen : [Delivery -> Row]]]
      /\ took \cup dropped \cup crossed \subseteq Delivery /\ posts \in [Delivery -> Nat] /\ lost \in 0 .. MaxLost
      /\ sender \in [Delivery -> [pc : {"none", "queued", "post", "done"}, seen : Row]] /\ MaxLost \in Nat
    BY BoundsAssumption DEF IInv, Types, TypeOK
<1>d. \A d \in Delivery : Bounded(d) /\ Senders(d) /\ Sole(d)
    BY DEF IInv
<1>n. NoRow \in Row
    BY RetriesAssumption DEF NoRow, Row, Status
<1>1. ASSUME NEW c \in Delivery, SenderKilled(c) PROVE IInv'
  <2>1. /\ sender[c].pc \in {"queued", "post"} /\ lost < MaxLost /\ lost' = lost + 1
        /\ sender' = [sender EXCEPT ![c] = [pc |-> "done", seen |-> NoRow]]
        /\ dropped' = dropped \cup {c} /\ UNCHANGED <<row, due, run, crossed>>
        /\ took \subseteq took' /\ took' \subseteq took \cup {c}
        /\ posts' = posts \/ posts' = [posts EXCEPT ![c] = @ + 1]
      BY <1>1 DEF SenderKilled, PostOnly
  <2>2. Types'
    <3>1. sender' \in [Delivery -> [pc : {"none", "queued", "post", "done"}, seen : Row]] /\ posts' \in [Delivery -> Nat]
        BY <2>1, <1>t, <1>n
    <3>2. lost' \in 0 .. MaxLost /\ took' \cup dropped' \cup crossed' \subseteq Delivery
        BY <2>1, <1>t
    <3> QED BY <2>1, <3>1, <3>2, <1>t DEF Types, TypeOK
  <2>3. ASSUME NEW d \in Delivery PROVE Bounded(d)' /\ Senders(d)' /\ Sole(d)'
    <3>1. CASE d = c
      <4>1. sender'[d].pc = "done" /\ d \in dropped' /\ row[d].st # "none"
          BY <3>1, <2>1, <1>d, <1>t DEF Senders
      <4> QED BY <4>1, <2>1, <1>d DEF Bounded, Senders, Sole
    <3>2. CASE d # c
      <4>1. sender'[d] = sender[d] /\ (d \in took' <=> d \in took) /\ (d \in dropped' <=> d \in dropped)
          BY <3>2, <2>1, <1>t
      <4> QED BY <4>1, <2>1, <1>d DEF Bounded, Senders, Sole
    <3> QED BY <3>1, <3>2
  <2> QED BY <2>2, <2>3 DEF IInv
<1>2. ASSUME NEW s \in Retrier, RetryKilled(s) PROVE IInv'
  <2>1. /\ lost < MaxLost /\ lost' = lost + 1 /\ run' = [run EXCEPT ![s] = Idle]
        /\ UNCHANGED <<row, due, sender, crossed>>
        /\ \/ UNCHANGED <<posts, took, dropped>>
           \/ \E c \in run[s].todo : PostOnly(c) /\ dropped' = dropped \cup {c}
      BY <1>2 DEF RetryKilled
  <2>2. Idle \in [todo : SUBSET Delivery, seen : [Delivery -> Row]] /\ Idle.todo = {}
      BY <1>n DEF Idle
  <2>3. /\ run' \in [Retrier -> [todo : SUBSET Delivery, seen : [Delivery -> Row]]]
        /\ \A r \in Retrier : run'[r] = IF r = s THEN Idle ELSE run[r]
      BY <2>1, <2>2, <1>t
  <2>4. /\ dropped \subseteq dropped' /\ took \subseteq took' /\ dropped' \subseteq Delivery
        /\ \A d \in took' \ took : d \in dropped' /\ \E r \in Retrier : d \in run[r].todo
        /\ posts' \in [Delivery -> Nat]
    <3>1. CASE UNCHANGED <<posts, took, dropped>>
        BY <3>1, <1>t
    <3>2. ASSUME NEW c \in run[s].todo, PostOnly(c), dropped' = dropped \cup {c}
          PROVE  /\ dropped \subseteq dropped' /\ took \subseteq took' /\ dropped' \subseteq Delivery
                 /\ \A d \in took' \ took : d \in dropped' /\ \E r \in Retrier : d \in run[r].todo
                 /\ posts' \in [Delivery -> Nat]
      <4>1. c \in Delivery
          BY <1>t
      <4>2. posts' = [posts EXCEPT ![c] = @ + 1] /\ (took' = took \/ took' = took \cup {c})
          BY <3>2 DEF PostOnly
      <4> QED BY <3>2, <4>1, <4>2, <1>t
    <3> QED BY <2>1, <3>1, <3>2
  <2>5. Types'
    <3>1. lost' \in 0 .. MaxLost /\ took' \cup dropped' \cup crossed' \subseteq Delivery
        BY <2>1, <2>4, <1>t
    <3> QED BY <2>1, <2>3, <2>4, <3>1, <1>t DEF Types, TypeOK
  <2>6. ASSUME NEW d \in Delivery PROVE Bounded(d)' /\ Senders(d)' /\ Sole(d)'
    <3>1. \A r \in Retrier : d \in run'[r].todo => run'[r] = run[r]
        BY <2>2, <2>3
    <3>2. Bounded(d)'
        BY <3>1, <2>1, <1>d DEF Bounded
    <3>3. Senders(d)'
      <4>1. sender[d].pc # "done" => d \notin took'
          BY <2>4, <1>d DEF Senders
      <4> QED BY <3>1, <4>1, <2>1, <1>d DEF Senders
    <3>4. Sole(d)'
        BY <3>1, <2>1, <2>4, <1>d DEF Sole
    <3> QED BY <3>2, <3>3, <3>4
  <2> QED BY <2>5, <2>6 DEF IInv
<1> QED BY <1>1, <1>2

(* The invariant holds in every reachable state. *)
LEMMA IInvHolds == Spec => []IInv
<1>1. Init => IInv
  <2> SUFFICES ASSUME Init PROVE IInv
      OBVIOUS
  <2>1. NoRow \in Row /\ NoRow.st = "none" /\ NoRow.tries = 0 /\ 0 \in 0 .. MaxLost /\ 0 \in Nat
      BY RetriesAssumption, BoundsAssumption DEF NoRow, Row, Status
  <2>2. Idle \in [todo : SUBSET Delivery, seen : [Delivery -> Row]] /\ Idle.todo = {}
      BY <2>1 DEF Idle
  <2>3. Types
      BY <2>1, <2>2 DEF Init, Types, TypeOK
  <2>4. \A d \in Delivery : Bounded(d) /\ Senders(d) /\ Sole(d)
      BY <2>1, <2>2 DEF Init, Bounded, Senders, Sole
  <2> QED BY <2>3, <2>4 DEF IInv
<1>2. IInv /\ [Next]_vars => IInv'
  <2> SUFFICES ASSUME IInv, [Next]_vars PROVE IInv'
      OBVIOUS
  <2>1. CASE UNCHANGED vars
      BY <2>1 DEF vars, IInv, Types, TypeOK, Bounded, Senders, Sole
  <2> QED BY <2>1, QuietStep, SenderPostStep, ScanStep, RetryPostStep, KilledStep DEF Next
<1> QED BY <1>1, <1>2, PTL DEF Spec

(* Type correctness: no delivery is ever tried more than MaxRetries times. *)
THEOREM TypesHold == Spec => []TypeOK
<1>1. IInv => TypeOK
    BY DEF IInv, Types
<1> QED BY <1>1, IInvHolds, PTL

(* _send, retry_failed_webhooks: what the receiver took is never sent      *)
(* again and stays Success, for any overlap of the runs, unless two tasks  *)
(* had read the delivery at the same time or one was lost with it.         *)
THEOREM TakenStaysTaken == Spec => TakenStays
<1>1. IInv /\ [Next]_vars
         => [\A d \in took \ (crossed' \cup dropped') : row'[d].st = "success" /\ posts'[d] = posts[d]]_vars
  <2> SUFFICES ASSUME IInv, Next, NEW d \in took, d \notin crossed' \cup dropped'
               PROVE  row'[d].st = "success" /\ posts'[d] = posts[d]
      BY DEF vars
  <2>t. /\ d \in Delivery /\ row \in [Delivery -> Row] /\ posts \in [Delivery -> Nat]
        /\ Types
      BY DEF IInv, Types, TypeOK
  <2>1. d \notin crossed /\ d \notin dropped
      BY DEF Next, Enqueue, SenderRead, SenderPost, ComesDue, SenderKilled, RetryScan, RetryPost, RetryKilled
  <2>2. /\ row[d].st = "success" /\ sender[d].pc = "done" /\ \A r \in Retrier : d \notin run[r].todo
      BY <2>1, <2>t DEF IInv, Sole, Senders
  <2>3. ASSUME NEW c \in Delivery, NEW seen, Send(c, seen), c # d PROVE row'[d] = row[d] /\ posts'[d] = posts[d]
      BY <2>3, <2>t DEF Send
  <2>4. ASSUME NEW c \in Delivery, PostOnly(c), c # d PROVE posts'[d] = posts[d]
      BY <2>4, <2>t DEF PostOnly
  <2>5. ASSUME NEW c \in Delivery, \/ Enqueue(c) \/ SenderRead(c) \/ SenderPost(c) \/ ComesDue(c) \/ SenderKilled(c)
        PROVE  row'[d] = row[d] /\ posts'[d] = posts[d]
    <3>1. CASE Enqueue(c)
        BY <3>1, <2>2, <2>t DEF Enqueue
    <3>2. CASE SenderRead(c) \/ ComesDue(c)
        BY <3>2 DEF SenderRead, ComesDue
    <3>3. CASE SenderPost(c)
        BY <3>3, <2>2, <2>3 DEF SenderPost
    <3>4. CASE SenderKilled(c)
        BY <3>4, <2>2, <2>4 DEF SenderKilled
    <3> QED BY <2>5, <3>1, <3>2, <3>3, <3>4
  <2>6. ASSUME NEW s \in Retrier, RetryScan(s) \/ RetryPost(s) \/ RetryKilled(s)
        PROVE  row'[d] = row[d] /\ posts'[d] = posts[d]
    <3>1. run[s].todo \subseteq Delivery
        BY <2>t DEF Types, TypeOK
    <3>2. CASE RetryScan(s)
        BY <3>2 DEF RetryScan
    <3>3. CASE RetryPost(s)
        BY <3>1, <3>3, <2>2, <2>3 DEF RetryPost
    <3>4. CASE RetryKilled(s)
        BY <3>1, <3>4, <2>2, <2>4 DEF RetryKilled
    <3> QED BY <2>6, <3>2, <3>3, <3>4
  <2> QED BY <2>2, <2>5, <2>6 DEF Next
<1> QED BY <1>1, IInvHolds, PTL DEF Spec, TakenStays
=============================================================================
