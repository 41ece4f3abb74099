------------------------ MODULE FallbackSync_proofs ------------------------
(***************************************************************************)
(* Safety of the fallback and its synchronisation, for any calls, lines,   *)
(* posts of the sync, timeouts and restarts.                               *)
(*                                                                         *)
(* A report is held until B knows the call because the marker is only ever *)
(* taken away after B has said so (Handed); a call is counted once because *)
(* B's late handler and A's record_call meet at the unique sid, and the    *)
(* one that comes second sees the other's row (Single).                    *)
(***************************************************************************)
EXTENDS FallbackSync, TLAPS

(* B has A's row of the call, or has skipped the call for good. *)
Known(c) == Exists(c, "a") \/ c \in gone

(* What is posted is in the journal; what B has taken, what is unmarked    *)
(* and what is reported, it knows.                                         *)
Handed(c) ==
    /\ \A p \in Post : rec[c][p].pc # "none" => jour[c] # "none"
    /\ c \in synced => Known(c)
    /\ \A p \in Post : rec[c][p].pc = "ok" => Known(c)
    /\ sw[c] \in {"marked", "journaled", "up_a", "down_a"} /\ c \notin marked => Known(c)
    /\ sw[c] = "down_a" /\ rep[c].st \in {"posted", "done", "dropped"} => Known(c)

(* B's own row is made once, by its route handler, which is asked once and *)
(* goes on with a row that is there; and record_call inserts beside it     *)
(* only when it has hidden it.                                             *)
Single(c) ==
    /\ Exists(c, "a") /\ Exists(c, "b") => rows[c]["b"].hidden
    /\ sw[c] = "idle" => route[c].pc = "none"
    /\ route[c].pc \in {"none", "sent"} => ~Exists(c, "b")
    /\ route[c].pc = "decide" => Exists(c, route[c].on)
    /\ \A p \in Post : rec[c][p].pc = "insert" /\ rec[c][p].suffix => Exists(c, "b") /\ rows[c]["b"].hidden

(* The inductive invariant. *)
IInv == TypeOK /\ \A c \in Call : Handed(c) /\ Single(c)

-----------------------------------------------------------------------------
(* A row of a call on B. *)
RowType == [st : Status, line : Line \cup {NoLine}, ended : BOOLEAN, hidden : BOOLEAN]

(* A row with another status, line or end is a row, as hidden as it was. *)
LEMMA Rewritten ==
    ASSUME NEW w \in RowType, NEW s \in Status, NEW l \in Line \cup {NoLine}
    PROVE  /\ [w EXCEPT !.st = s] \in RowType
           /\ [w EXCEPT !.st = s].st = s /\ [w EXCEPT !.st = s].hidden = w.hidden
           /\ [w EXCEPT !.st = s, !.line = l] \in RowType
           /\ [w EXCEPT !.st = s, !.line = l].st = s /\ [w EXCEPT !.st = s, !.line = l].hidden = w.hidden
           /\ [w EXCEPT !.st = s, !.ended = TRUE] \in RowType
           /\ [w EXCEPT !.st = s, !.ended = TRUE].st = s /\ [w EXCEPT !.st = s, !.ended = TRUE].hidden = w.hidden
BY DEF RowType

(* A row that is set aside is a hidden row. *)
LEMMA SetAside ==
    ASSUME NEW w \in RowType, w.st # "none"
    PROVE  Aside(w) \in RowType /\ Aside(w).st # "none" /\ Aside(w).hidden = TRUE
<1>1. "failed" \in Status
    BY DEF Status
<1>2. CASE w.st \in Live
  <2>1. Aside(w) = [w EXCEPT !.st = "failed", !.ended = TRUE, !.hidden = TRUE]
      BY <1>2 DEF Aside
  <2> QED BY <1>1, <2>1 DEF RowType
<1>3. CASE w.st \notin Live
  <2>1. Aside(w) = [w EXCEPT !.hidden = TRUE]
      BY <1>3 DEF Aside
  <2> QED BY <2>1 DEF RowType
<1> QED BY <1>2, <1>3

(* A row is written on, never unmade nor shown again; the only new rows    *)
(* are the route handler's, when A's is not there, and record_call's, when *)
(* B's is not there or has been set aside.                                 *)
LEMMA RowWrites ==
    ASSUME TypeOK, \A c \in Call : Single(c), [Next]_vars
    PROVE  \/ rows' = rows
           \/ \E c \in Call, o \in Owner, r \in RowType :
                 /\ rows' = [rows EXCEPT ![c][o] = r]
                 /\ r.st # "none" /\ (Exists(c, o) /\ rows[c][o].hidden => r.hidden)
                 /\ \/ Exists(c, o)
                    \/ o = "b" /\ RouteCreate(c) /\ ~Exists(c, "a")
                    \/ /\ o = "a"
                       /\ \E p \in Post : /\ RecordInsert(c, p)
                                          /\ rec[c][p].suffix \/ ~Exists(c, "b")
<1> DEFINE Write(c, o, r) ==
              /\ rows' = [rows EXCEPT ![c][o] = r]
              /\ r.st # "none" /\ (Exists(c, o) /\ rows[c][o].hidden => r.hidden)
              /\ \/ Exists(c, o)
                 \/ o = "b" /\ RouteCreate(c) /\ ~Exists(c, "a")
                 \/ /\ o = "a"
                    /\ \E p \in Post : /\ RecordInsert(c, p)
                                       /\ rec[c][p].suffix \/ ~Exists(c, "b")
<1> SUFFICES rows' = rows \/ \E c \in Call, o \in Owner, r \in RowType : Write(c, o, r)
    OBVIOUS
<1>t. /\ rows \in [Call -> [Owner -> RowType]]
      /\ route \in [Call -> [pc : {"none", "sent", "decide", "dial", "hangup"}, on : Owner]]
      /\ placed \in [Call -> Line \cup {NoLine}] /\ "a" \in Owner /\ "b" \in Owner
    BY DEF TypeOK, RowType, Owner
<1>s. \A x \in {"ringing", "in_progress", "failed", "finished"} : x \in Status
    BY DEF Status, Live
<1>n. NoLine \in Line \cup {NoLine}
    OBVIOUS
<1>r. \A c \in Call, o \in Owner : rows[c][o] \in RowType
    BY <1>t
<1>1. ASSUME NEW c \in Call, RouteCreate(c) PROVE rows' = rows \/ \E o \in Owner, r \in RowType : Write(c, o, r)
  <2>1. CASE Exists(c, "a")
      BY <1>1, <2>1 DEF RouteCreate
  <2>2. CASE ~Exists(c, "a")
    <3> DEFINE r == [rows[c]["b"] EXCEPT !.st = "ringing"]
    <3>1. rows' = [rows EXCEPT ![c]["b"] = r]
        BY <1>1, <2>2 DEF RouteCreate
    <3>2. r \in RowType /\ r.st = "ringing" /\ r.hidden = rows[c]["b"].hidden
        BY <1>r, <1>n, <1>t, <1>s, Rewritten
    <3> HIDE DEF r
    <3>3. Write(c, "b", r)
        BY <1>1, <2>2, <3>1, <3>2
    <3> QED BY <3>2, <3>3, <1>t
  <2> QED BY <2>1, <2>2
<1>2. ASSUME NEW c \in Call, RouteSend(c) PROVE \E o \in Owner, r \in RowType : Write(c, o, r)
  <2> DEFINE o == route[c].on
  <2>1. PICK l \in Line : rows' = [rows EXCEPT ![c][o].st = "in_progress", ![c][o].line = l]
      BY <1>2 DEF RouteSend
  <2>2. o \in Owner /\ Exists(c, o)
      BY <1>2, <1>t DEF RouteSend, Single
  <2> HIDE DEF o
  <2> DEFINE r == [rows[c][o] EXCEPT !.st = "in_progress", !.line = l]
  <2>3. rows' = [rows EXCEPT ![c][o] = r]
      BY <2>1, <2>2, <1>t DEF RowType
  <2>l. l \in Line \cup {NoLine} /\ rows[c][o] \in RowType /\ "in_progress" \in Status
      BY <2>1, <2>2, <1>r, <1>s
  <2>4. r \in RowType /\ r.st = "in_progress" /\ r.hidden = rows[c][o].hidden
      BY <2>l, Rewritten DEF RowType
  <2> HIDE DEF r
  <2> QED BY <2>2, <2>3, <2>4
<1>3. ASSUME NEW c \in Call, RouteRefuse(c) PROVE \E o \in Owner, r \in RowType : Write(c, o, r)
  <2> DEFINE o == route[c].on
  <2>1. rows' = [rows EXCEPT ![c][o].st = "failed", ![c][o].ended = TRUE]
      BY <1>3 DEF RouteRefuse
  <2>2. o \in Owner /\ Exists(c, o)
      BY <1>3, <1>t DEF RouteRefuse, Single
  <2> HIDE DEF o
  <2> DEFINE r == [rows[c][o] EXCEPT !.st = "failed", !.ended = TRUE]
  <2>3. rows' = [rows EXCEPT ![c][o] = r]
      BY <2>1, <2>2, <1>t DEF RowType
  <2>4. r \in RowType /\ r.st = "failed" /\ r.hidden = rows[c][o].hidden
      BY <2>2, <1>r, <1>n, <1>s, Rewritten
  <2> HIDE DEF r
  <2> QED BY <2>2, <2>3, <2>4
<1>4. ASSUME NEW c \in Call, NEW o \in Owner, Exists(c, o), Settle(c, o)
      PROVE  \E r \in RowType : Write(c, o, r)
  <2> DEFINE r == [rows[c][o] EXCEPT !.st = "finished", !.ended = TRUE]
  <2>1. rows' = [rows EXCEPT ![c][o].st = "finished", ![c][o].ended = TRUE]
      BY <1>4 DEF Settle
  <2>2. rows' = [rows EXCEPT ![c][o] = r]
      BY <2>1, <1>t DEF RowType
  <2>3. r \in RowType /\ r.st = "finished" /\ r.hidden = rows[c][o].hidden
      BY <1>r, <1>n, <1>s, Rewritten
  <2> HIDE DEF r
  <2> QED BY <1>4, <2>2, <2>3
<1>5. ASSUME NEW c \in Call, EndById(c) PROVE rows' = rows \/ \E o \in Owner, r \in RowType : Write(c, o, r)
    BY <1>4, <1>5, <1>t DEF EndById
<1>6. ASSUME NEW c \in Call, EndBlind(c) PROVE rows' = rows \/ \E o \in Owner, r \in RowType : Write(c, o, r)
  <2>1. rows' = rows \/ \E o \in Owner : rows[c][o].st \in {"in_progress", "ringing"} /\ Settle(c, o)
      BY <1>6 DEF EndBlind
  <2> QED BY <1>4, <2>1 DEF Exists
<1>7. ASSUME NEW c \in Call, NEW p \in Post, RecordCheck(c, p)
      PROVE  rows' = rows \/ \E o \in Owner, r \in RowType : Write(c, o, r)
  <2> DEFINE r == Aside(rows[c]["b"])
  <2>1. rows' = rows \/ rows' = [rows EXCEPT ![c]["b"] = IF Exists(c, "b") THEN r ELSE @]
      BY <1>7 DEF RecordCheck
  <2>2. CASE Exists(c, "b")
    <3>1. r \in RowType /\ r.st # "none" /\ r.hidden
        BY <2>2, <1>r, <1>t, SetAside DEF Exists
    <3> HIDE DEF r
    <3> QED BY <2>1, <2>2, <3>1, <1>t
  <2>3. CASE ~Exists(c, "b")
    <3>1. [rows EXCEPT ![c]["b"] = rows[c]["b"]] = rows
        BY <1>t
    <3> QED BY <2>1, <2>3, <3>1
  <2> QED BY <2>2, <2>3
<1>8. ASSUME NEW c \in Call, NEW p \in Post, RecordInsert(c, p)
      PROVE  rows' = rows \/ \E o \in Owner, r \in RowType : Write(c, o, r)
  <2> DEFINE r == IF jour[c] = "dial" THEN [NoRow EXCEPT !.st = "in_progress", !.line = placed[c]]
                                      ELSE [NoRow EXCEPT !.st = "failed", !.ended = TRUE]
  <2>1. CASE Exists(c, "a") \/ (~rec[c][p].suffix /\ Exists(c, "b"))
      BY <1>8, <2>1 DEF RecordInsert
  <2>2. CASE ~(Exists(c, "a") \/ (~rec[c][p].suffix /\ Exists(c, "b")))
    <3>1. rows' = [rows EXCEPT ![c]["a"] = r]
        BY <1>8, <2>2 DEF RecordInsert
    <3>2. r \in RowType /\ r.st # "none"
        BY <1>t, <1>s DEF RowType, NoRow
    <3> HIDE DEF r
    <3> QED BY <1>8, <2>2, <3>1, <3>2, <1>t
  <2> QED BY <2>1, <2>2
<1>9. ASSUME \/ \E c \in Call : \/ Ask(c) \/ Unreachable(c) \/ AskStep(c) \/ DecideStep(c) \/ Deliver(c) \/ CampaignGone(c)
             \/ SyncStep \/ PushTimeout \/ Restart
             \/ \E p \in Post : Forget(p)
             \/ UNCHANGED vars
      PROVE  rows' = rows
    BY <1>9 DEF Ask, Unreachable, AskStep, NoAnswer, Answered, Ends, DecideStep, DecideRefuse, DecideMark, DecideJournal,
       JournalFails, Dial, Hangup, Deliver, CampaignGone, SyncStep, Push, PushAccepted, Release, PushTimeout, Restart,
       Forget, vars, bVars
<1> HIDE DEF Write
<1> QED BY <1>1, <1>2, <1>3, <1>5, <1>6, <1>7, <1>8, <1>9 DEF Next, RouteStep, ReportStep, RecordStep

(* A row that is there stays, and stays hidden when it is. *)
LEMMA RowStays ==
    ASSUME TypeOK, \A c \in Call : Single(c), [Next]_vars,
           NEW d \in Call, NEW q \in Owner, Exists(d, q)
    PROVE  Exists(d, q)' /\ (rows[d][q].hidden => rows'[d][q].hidden)
<1>t. rows \in [Call -> [Owner -> RowType]]
    BY DEF TypeOK, RowType
<1>1. CASE rows' = rows
    BY <1>1 DEF Exists
<1>2. ASSUME NEW c \in Call, NEW o \in Owner, NEW r \in RowType,
             rows' = [rows EXCEPT ![c][o] = r], r.st # "none",
             Exists(c, o) /\ rows[c][o].hidden => r.hidden
      PROVE  Exists(d, q)' /\ (rows[d][q].hidden => rows'[d][q].hidden)
  <2>1. CASE d = c /\ q = o
    <3>1. rows'[d][q] = r
        BY <1>2, <2>1, <1>t
    <3> QED BY <1>2, <2>1, <3>1 DEF Exists
  <2>2. CASE ~(d = c /\ q = o)
    <3>1. rows'[d][q] = rows[d][q]
        BY <1>2, <2>2, <1>t
    <3> QED BY <3>1 DEF Exists
  <2> QED BY <2>1, <2>2
<1> QED BY <1>1, <1>2, RowWrites

(* The only new rows of a call, and when they may be made. *)
LEMMA RowMade ==
    ASSUME TypeOK, \A c \in Call : Single(c), [Next]_vars,
           NEW d \in Call, NEW q \in Owner, ~Exists(d, q), Exists(d, q)'
    PROVE  \/ q = "b" /\ RouteCreate(d) /\ ~Exists(d, "a")
           \/ /\ q = "a"
              /\ \E p \in Post : RecordInsert(d, p) /\ (rec[d][p].suffix \/ ~Exists(d, "b"))
<1>t. rows \in [Call -> [Owner -> RowType]]
    BY DEF TypeOK, RowType
<1>1. PICK c \in Call, o \in Owner, r \in RowType :
         /\ rows' = [rows EXCEPT ![c][o] = r]
         /\ \/ Exists(c, o)
            \/ o = "b" /\ RouteCreate(c) /\ ~Exists(c, "a")
            \/ /\ o = "a"
               /\ \E p \in Post : /\ RecordInsert(c, p)
                                  /\ rec[c][p].suffix \/ ~Exists(c, "b")
  <2>1. rows' # rows
      BY DEF Exists
  <2> QED BY <2>1, RowWrites
<1>2. d = c /\ q = o
  <2>1. CASE ~(d = c /\ q = o)
    <3>1. rows'[d][q] = rows[d][q]
        BY <1>1, <2>1, <1>t
    <3> QED BY <3>1 DEF Exists
  <2> QED BY <2>1
<1> QED BY <1>1, <1>2

(* B does not forget a call. *)
LEMMA KnownStays ==
    ASSUME TypeOK, \A c \in Call : Single(c), [Next]_vars, NEW d \in Call, Known(d)
    PROVE  Known(d)'
<1>1. ASSUME NEW c \in Call, CampaignGone(c) PROVE gone \subseteq gone'
    BY <1>1 DEF CampaignGone
<1>2. ASSUME \/ \E c \in Call : Ask(c) \/ Unreachable(c) \/ AskStep(c) \/ DecideStep(c) \/ ReportStep(c) \/ RouteStep(c)
             \/ RecordStep \/ SyncStep \/ PushTimeout \/ Restart \/ \E p \in Post : Forget(p)
             \/ UNCHANGED vars
      PROVE  gone' = gone
    BY <1>2 DEF Ask, Unreachable, AskStep, NoAnswer, Answered, Ends, DecideStep, DecideRefuse, DecideMark, DecideJournal,
       JournalFails, Dial, Hangup, ReportStep, Deliver, EndById, EndBlind, RouteStep, RouteCreate, RouteSend, RouteRefuse,
       RecordStep, RecordCheck, RecordInsert, SyncStep, Push, PushAccepted, Release, PushTimeout, Restart, Forget,
       vars, bVars
<1>3. gone \subseteq gone'
    BY <1>1, <1>2 DEF Next
<1>4. Exists(d, "a") => Exists(d, "a")'
    BY RowStays DEF Owner
<1> QED BY <1>3, <1>4 DEF Known

(* A post of the sync moves one call of it on at a time, or is sent, or is *)
(* forgotten.                                                              *)
LEMMA RecMoves ==
    ASSUME TypeOK, [Next]_vars, NEW d \in Call, NEW p \in Post
    PROVE  \/ rec'[d][p] = rec[d][p]
           \/ rec'[d][p].pc = "none"
           \/ Push /\ d \in Waiting /\ rec'[d][p].pc = "queued"
           \/ RecordCheck(d, p)
           \/ RecordInsert(d, p)
<1>t. rec \in [Call -> [Post -> [pc : {"none", "queued", "insert", "ok", "error"}, suffix : BOOLEAN]]]
    BY DEF TypeOK
<1>1. ASSUME Push
      PROVE  rec'[d][p] = rec[d][p] \/ (d \in Waiting /\ rec'[d][p].pc = "queued")
  <2>1. PICK q \in Post :
           rec' = [c \in Call |-> [rec[c] EXCEPT ![q].pc = IF c \in Waiting THEN "queued" ELSE @]]
      BY <1>1 DEF Push
  <2>2. rec'[d] = [rec[d] EXCEPT ![q].pc = IF d \in Waiting THEN "queued" ELSE @]
      BY <2>1
  <2>3. rec[d] \in [Post -> [pc : {"none", "queued", "insert", "ok", "error"}, suffix : BOOLEAN]]
      BY <1>t
  <2>4. CASE d \in Waiting /\ p = q
      BY <2>2, <2>3, <2>4
  <2>5. CASE d \notin Waiting /\ p = q
    <3>1. rec'[d][p] = [rec[d][p] EXCEPT !.pc = rec[d][p].pc]
        BY <2>2, <2>3, <2>5
    <3> QED BY <3>1, <2>3
  <2>6. CASE p # q
      BY <2>2, <2>3, <2>6
  <2> QED BY <2>4, <2>5, <2>6
<1>2. ASSUME NEW q \in Post, rec' = Without(q) PROVE rec'[d][p] = rec[d][p] \/ rec'[d][p].pc = "none"
  <2>1. rec'[d] = [rec[d] EXCEPT ![q] = NoJob]
      BY <1>2 DEF Without
  <2> QED BY <2>1, <1>t DEF NoJob
<1>3. ASSUME Release PROVE rec'[d][p] = rec[d][p] \/ rec'[d][p].pc = "none"
  <2>1. sync.post \in Post
      BY <1>3 DEF Release, TypeOK
  <2> QED BY <1>2, <1>3, <2>1 DEF Release
<1>4. ASSUME NEW c \in Call, NEW q \in Post, RecordCheck(c, q) \/ RecordInsert(c, q)
      PROVE  rec'[d][p] = rec[d][p] \/ (c = d /\ q = p)
  <2>1. \E j : rec' = [rec EXCEPT ![c][q] = j]
      BY <1>4 DEF RecordCheck, RecordInsert, RecordDone
  <2> QED BY <2>1, <1>t
<1>5. ASSUME \/ \E c \in Call : Ask(c) \/ Unreachable(c) \/ AskStep(c) \/ DecideStep(c) \/ ReportStep(c) \/ RouteStep(c)
                               \/ CampaignGone(c)
             \/ PushAccepted \/ PushTimeout \/ Restart \/ UNCHANGED vars
      PROVE  rec' = rec
    BY <1>5 DEF Ask, Unreachable, AskStep, NoAnswer, Answered, Ends, DecideStep, DecideRefuse, DecideMark, DecideJournal,
       JournalFails, Dial, Hangup, ReportStep, Deliver, EndById, EndBlind, RouteStep, RouteCreate, RouteSend, RouteRefuse,
       CampaignGone, PushAccepted, PushTimeout, Restart, vars, syncVars
<1>6. ASSUME NEW q \in Post, Forget(q) PROVE rec'[d][p] = rec[d][p] \/ rec'[d][p].pc = "none"
    BY <1>2, <1>6 DEF Forget
<1>7. ASSUME RecordStep
      PROVE  rec'[d][p] = rec[d][p] \/ RecordCheck(d, p) \/ RecordInsert(d, p)
    BY <1>4, <1>7 DEF RecordStep
<1> QED BY <1>1, <1>3, <1>5, <1>6, <1>7 DEF Next, SyncStep

-----------------------------------------------------------------------------
(* A call is counted once. *)

LEMMA SingleStep ==
    ASSUME TypeOK, \A c \in Call : Single(c), [Next]_vars, NEW d \in Call
    PROVE  Single(d)'
<1>t. /\ route \in [Call -> [pc : {"none", "sent", "decide", "dial", "hangup"}, on : Owner]]
      /\ sw \in [Call -> {"idle", "asking", "deciding", "marked", "journaled", "up_a", "up_b",
                          "down", "down_a", "down_b"}]
      /\ rows \in [Call -> [Owner -> RowType]]
      /\ rec \in [Call -> [Post -> [pc : {"none", "queued", "insert", "ok", "error"}, suffix : BOOLEAN]]]
      /\ "a" \in Owner /\ "b" \in Owner
    BY DEF TypeOK, RowType, Owner
<1>s. Single(d)
    OBVIOUS
(* The route handler is asked once, and works on one row. *)
<1>r. \/ route'[d] = route[d]
      \/ sw[d] = "idle" /\ sw'[d] = "asking" /\ route'[d] = [route[d] EXCEPT !.pc = "sent"]
      \/ RouteCreate(d)
      \/ route[d].pc = "decide" /\ route'[d].pc \in {"dial", "hangup"}
  <2>1. ASSUME NEW c \in Call, Ask(c)
        PROVE  \/ route'[d] = route[d]
               \/ sw[d] = "idle" /\ sw'[d] = "asking" /\ route'[d] = [route[d] EXCEPT !.pc = "sent"]
      BY <2>1, <1>t DEF Ask, Goes
  <2>2. ASSUME NEW c \in Call, RouteCreate(c) PROVE route'[d] = route[d] \/ c = d
      BY <2>2, <1>t DEF RouteCreate
  <2>3. ASSUME NEW c \in Call, RouteSend(c) \/ RouteRefuse(c)
        PROVE  \/ route'[d] = route[d]
               \/ route[d].pc = "decide" /\ route'[d].pc \in {"dial", "hangup"}
      BY <2>3, <1>t DEF RouteSend, RouteRefuse
  <2>4. ASSUME \/ \E c \in Call : \/ Unreachable(c) \/ AskStep(c) \/ DecideStep(c) \/ ReportStep(c) \/ CampaignGone(c)
               \/ RecordStep \/ SyncStep \/ PushTimeout \/ Restart \/ \E p \in Post : Forget(p)
               \/ UNCHANGED vars
        PROVE  route' = route
      BY <2>4 DEF Unreachable, AskStep, NoAnswer, Answered, Ends, DecideStep, DecideRefuse, DecideMark, DecideJournal,
         JournalFails, Dial, Hangup, ReportStep, Deliver, EndById, EndBlind, CampaignGone,
         RecordStep, RecordCheck, RecordInsert, SyncStep, Push, PushAccepted, Release, PushTimeout, Restart, Forget,
         vars, bVars
  <2> QED BY <2>1, <2>2, <2>3, <2>4 DEF Next, RouteStep
<1>1. Exists(d, "a")' /\ Exists(d, "b")' => rows'[d]["b"].hidden
  <2> SUFFICES ASSUME Exists(d, "a")', Exists(d, "b")' PROVE rows'[d]["b"].hidden
      OBVIOUS
  <2>1. CASE Exists(d, "a") /\ Exists(d, "b")
      BY <2>1, <1>s, <1>t, RowStays DEF Single
  <2>2. CASE ~Exists(d, "b")
    <3>1. RouteCreate(d) /\ ~Exists(d, "a")
        BY <2>2, <1>t, RowMade
    <3>2. \A p \in Post : ~RecordInsert(d, p)
        BY <3>1, <1>t DEF RouteCreate, RecordInsert
    <3> QED BY <3>1, <3>2, <1>t, RowMade
  <2>3. CASE ~Exists(d, "a") /\ Exists(d, "b")
    <3>1. PICK p \in Post : RecordInsert(d, p) /\ (rec[d][p].suffix \/ ~Exists(d, "b"))
        BY <2>3, <1>t, RowMade
    <3>2. rows[d]["b"].hidden
        BY <2>3, <3>1, <1>s DEF Single, RecordInsert
    <3> QED BY <2>3, <3>2, <1>t, RowStays
  <2> QED BY <2>1, <2>2, <2>3
<1>2. sw'[d] = "idle" => route'[d].pc = "none"
  <2>1. sw'[d] = sw[d] \/ sw'[d] # "idle"
    <3>1. ASSUME NEW c \in Call, NEW x, x # "idle", Goes(c, x) PROVE sw'[d] = sw[d] \/ sw'[d] # "idle"
        BY <3>1, <1>t DEF Goes
    <3>2. ASSUME NEW c \in Call, Ask(c) \/ Unreachable(c) \/ AskStep(c) \/ DecideStep(c)
          PROVE  \E x : x # "idle" /\ Goes(c, x)
      <4>1. Goes(c, "asking") \/ Goes(c, "deciding") \/ Goes(c, "up_b") \/ Goes(c, "down") \/ Goes(c, "marked")
            \/ Goes(c, "journaled") \/ Goes(c, "up_a") \/ Goes(c, "down_a") \/ Goes(c, "down_b")
          BY <3>2 DEF Ask, Unreachable, AskStep, NoAnswer, Answered, Ends, DecideStep, DecideRefuse, DecideMark,
             DecideJournal, JournalFails, Dial, Hangup
      <4> QED BY <4>1
    <3>3. ASSUME \/ \E c \in Call : ReportStep(c) \/ RouteStep(c) \/ CampaignGone(c)
                 \/ RecordStep \/ SyncStep \/ PushTimeout \/ Restart \/ \E p \in Post : Forget(p)
                 \/ UNCHANGED vars
          PROVE  sw' = sw
        BY <3>3 DEF ReportStep, Deliver, EndById, EndBlind, RouteStep, RouteCreate, RouteSend, RouteRefuse, CampaignGone,
           RecordStep, RecordCheck, RecordInsert, SyncStep, Push, PushAccepted, Release, PushTimeout, Restart, Forget,
           vars, aVars
    <3> QED BY <3>1, <3>2, <3>3 DEF Next
  <2>2. ASSUME sw[d] = "idle", sw'[d] = "idle" PROVE route'[d].pc = "none"
    <3>1. route[d].pc = "none"
        BY <2>2, <1>s DEF Single
    <3>2. ~RouteCreate(d)
        BY <3>1 DEF RouteCreate
    <3> QED BY <3>1, <3>2, <2>2, <1>r
  <2> QED BY <2>1, <2>2
<1>3. route'[d].pc \in {"none", "sent"} => ~Exists(d, "b")'
  <2> SUFFICES ASSUME route'[d].pc \in {"none", "sent"} PROVE ~Exists(d, "b")'
      OBVIOUS
  <2>1. ~RouteCreate(d)
      BY <1>t DEF RouteCreate
  <2>2. route[d].pc \in {"none", "sent"}
      BY <1>r, <2>1, <1>s DEF Single
  <2>3. ~Exists(d, "b")
      BY <2>2, <1>s DEF Single
  <2> QED BY <2>1, <2>3, <1>t, RowMade
<1>4. ASSUME route'[d].pc = "decide" PROVE rows'[d][route'[d].on].st # "none"
  <2>1. CASE route'[d] = route[d]
      BY <1>4, <2>1, <1>s, <1>t, RowStays DEF Single, Exists
  <2>2. CASE RouteCreate(d) /\ Exists(d, "a")
    <3>1. route'[d].on = "a"
        BY <2>2, <1>t DEF RouteCreate
    <3> QED BY <2>2, <3>1, <1>t, RowStays DEF Exists
  <2>3. CASE RouteCreate(d) /\ ~Exists(d, "a")
    <3>1. route'[d].on = "b" /\ rows' = [rows EXCEPT ![d]["b"].st = "ringing"]
        BY <2>3, <1>t DEF RouteCreate
    <3>2. rows'[d]["b"].st = "ringing"
        BY <3>1, <1>t DEF RowType
    <3> QED BY <3>1, <3>2
  <2>4. CASE route'[d] = [route[d] EXCEPT !.pc = "sent"]
      BY <1>4, <2>4, <1>t
  <2> QED BY <1>4, <1>r, <2>1, <2>2, <2>3, <2>4
<1>6. ASSUME NEW p \in Post, rec'[d][p].pc = "insert", rec'[d][p].suffix
      PROVE  Exists(d, "b")' /\ rows'[d]["b"].hidden
  <2>1. CASE rec'[d][p] = rec[d][p]
      BY <1>6, <2>1, <1>s, <1>t, RowStays DEF Single
  <2>2. CASE RecordCheck(d, p)
    <3>1. Exists(d, "b") /\ rows' = [rows EXCEPT ![d]["b"] = Aside(rows[d]["b"])]
        BY <1>6, <2>2, <1>t DEF RecordCheck, RecordDone
    <3>2. rows'[d]["b"] = Aside(rows[d]["b"])
        BY <3>1, <1>t
    <3>3. rows[d]["b"] \in RowType /\ rows[d]["b"].st # "none"
        BY <3>1, <1>t DEF Exists
    <3>4. Aside(rows[d]["b"]).st # "none" /\ Aside(rows[d]["b"]).hidden
        BY <3>3, SetAside
    <3> QED BY <3>2, <3>4 DEF Exists
  <2>3. CASE RecordInsert(d, p)
      BY <1>6, <2>3, <1>t DEF RecordInsert, RecordDone
  <2> QED BY <1>6, <2>1, <2>2, <2>3, RecMoves
<1> QED BY <1>1, <1>2, <1>3, <1>4, <1>6 DEF Single, Exists

-----------------------------------------------------------------------------
(* A report is held until B knows the call. *)

(* How the call moves on A: what a marked call goes through, the marker    *)
(* that is written for it, and the marker that goes with a hang-up.        *)
LEMMA SwitchMoves ==
    ASSUME TypeOK, [Next]_vars, NEW d \in Call
    PROVE  \/ sw'[d] = sw[d]
           \/ sw'[d] \in {"asking", "deciding", "up_b", "down", "down_b"}
           \/ sw'[d] = "marked" /\ d \in marked'
           \/ sw[d] \in {"marked", "journaled", "up_a"} /\ sw'[d] \in {"journaled", "up_a"}
           \/ sw[d] = "up_a" /\ sw'[d] = "down_a" /\ rep'[d].st = "due"
<1>t. /\ sw \in [Call -> {"idle", "asking", "deciding", "marked", "journaled", "up_a", "up_b",
                          "down", "down_a", "down_b"}]
      /\ rep \in [Call -> [st : {"none", "due", "posted", "done", "dropped"}, id : BOOLEAN]]
    BY DEF TypeOK
<1>1. ASSUME NEW c \in Call, Ask(c) \/ Unreachable(c) \/ AskStep(c) \/ DecideRefuse(c) \/ JournalFails(c)
      PROVE  sw'[d] = sw[d] \/ sw'[d] \in {"asking", "deciding", "up_b", "down"}
    BY <1>1, <1>t DEF Ask, Unreachable, AskStep, NoAnswer, Answered, Ends, DecideRefuse, JournalFails, Goes
<1>2. ASSUME NEW c \in Call, DecideMark(c) PROVE sw'[d] = sw[d] \/ (sw'[d] = "marked" /\ d \in marked')
    BY <1>2, <1>t DEF DecideMark, Goes
<1>3. ASSUME NEW c \in Call, DecideJournal(c) \/ Dial(c)
      PROVE  \/ sw'[d] = sw[d]
             \/ sw[d] \in {"marked", "journaled", "up_a"} /\ sw'[d] \in {"journaled", "up_a"}
    BY <1>3, <1>t DEF DecideJournal, Dial, Goes
<1>4. ASSUME NEW c \in Call, Hangup(c)
      PROVE  \/ sw'[d] = sw[d]
             \/ sw'[d] = "down_b"
             \/ sw[d] = "up_a" /\ sw'[d] = "down_a" /\ rep'[d].st = "due"
  <2>1. CASE c # d
      BY <1>4, <2>1, <1>t DEF Hangup, Goes
  <2>2. CASE c = d
    <3>1. \E id \in BOOLEAN : rep' = [rep EXCEPT ![d] = [st |-> "due", id |-> id]]
        BY <1>4, <2>2 DEF Hangup, Reports
    <3>2. rep'[d].st = "due"
        BY <3>1, <1>t
    <3> QED BY <1>4, <2>2, <3>2, <1>t DEF Hangup, Goes
  <2> QED BY <2>1, <2>2
<1>5. ASSUME \/ \E c \in Call : ReportStep(c) \/ RouteStep(c) \/ CampaignGone(c)
             \/ RecordStep \/ SyncStep \/ PushTimeout \/ Restart \/ \E p \in Post : Forget(p)
             \/ UNCHANGED vars
      PROVE  sw' = sw
    BY <1>5 DEF ReportStep, Deliver, EndById, EndBlind, RouteStep, RouteCreate, RouteSend, RouteRefuse, CampaignGone,
       RecordStep, RecordCheck, RecordInsert, SyncStep, Push, PushAccepted, Release, PushTimeout, Restart, Forget,
       vars, aVars
<1> QED BY <1>1, <1>2, <1>3, <1>4, <1>5 DEF Next, DecideStep

(* What the journal holds, what is synced and what is reported only grows  *)
(* through B's answer, and a marker goes only with it or with a hang-up.   *)
LEMMA HandedMoves ==
    ASSUME TypeOK, [Next]_vars, NEW d \in Call
    PROVE  /\ jour[d] # "none" => jour'[d] # "none"
           /\ d \in synced' => d \in synced \/ \E p \in Post : rec[d][p].pc = "ok"
           /\ d \in marked /\ d \notin marked' => sw'[d] = "down" \/ d \in synced
           /\ \/ rep'[d] = rep[d]
              \/ rep'[d].st = "due"
              \/ sw' = sw /\ rep[d].st \in {"posted", "done", "dropped"}
              \/ sw' = sw /\ d \notin marked
<1>t. /\ sw \in [Call -> {"idle", "asking", "deciding", "marked", "journaled", "up_a", "up_b",
                          "down", "down_a", "down_b"}]
      /\ jour \in [Call -> {"none", "dial", "refused"}]
      /\ rep \in [Call -> [st : {"none", "due", "posted", "done", "dropped"}, id : BOOLEAN]]
    BY DEF TypeOK
<1>1. jour[d] # "none" => jour'[d] # "none"
  <2>1. ASSUME NEW c \in Call, DecideRefuse(c) \/ DecideJournal(c) PROVE jour[d] # "none" => jour'[d] # "none"
      BY <2>1, <1>t DEF DecideRefuse, DecideJournal
  <2>2. ASSUME \/ \E c \in Call : \/ Ask(c) \/ Unreachable(c) \/ AskStep(c) \/ DecideMark(c) \/ JournalFails(c) \/ Dial(c)
                                  \/ Hangup(c) \/ ReportStep(c) \/ RouteStep(c) \/ CampaignGone(c)
               \/ RecordStep \/ SyncStep \/ PushTimeout \/ Restart \/ \E p \in Post : Forget(p)
               \/ UNCHANGED vars
        PROVE  jour' = jour
      BY <2>2 DEF Ask, Unreachable, AskStep, NoAnswer, Answered, Ends, DecideMark, JournalFails, Dial, Hangup,
         ReportStep, Deliver, EndById, EndBlind, RouteStep, RouteCreate, RouteSend, RouteRefuse, CampaignGone,
         RecordStep, RecordCheck, RecordInsert, SyncStep, Push, PushAccepted, Release, PushTimeout, Restart, Forget,
         vars, aVars
  <2> QED BY <2>1, <2>2 DEF Next, DecideStep
<1>2. d \in synced' => d \in synced \/ \E p \in Post : rec[d][p].pc = "ok"
  <2>1. ASSUME PushAccepted PROVE d \in synced' => d \in synced \/ \E p \in Post : rec[d][p].pc = "ok"
    <3>1. sync.post \in Post
        BY <2>1 DEF PushAccepted, TypeOK
    <3> QED BY <2>1, <3>1 DEF PushAccepted, Taken
  <2>2. ASSUME \/ \E c \in Call : \/ Ask(c) \/ Unreachable(c) \/ AskStep(c) \/ DecideStep(c)
                                  \/ ReportStep(c) \/ RouteStep(c) \/ CampaignGone(c)
               \/ RecordStep \/ Push \/ Release \/ PushTimeout \/ Restart \/ \E p \in Post : Forget(p)
               \/ UNCHANGED vars
        PROVE  synced' = synced
      BY <2>2 DEF Ask, Unreachable, AskStep, NoAnswer, Answered, Ends, DecideStep, DecideRefuse, DecideMark, DecideJournal,
         JournalFails, Dial, Hangup, ReportStep, Deliver, EndById, EndBlind, RouteStep, RouteCreate, RouteSend, RouteRefuse,
         CampaignGone, RecordStep, RecordCheck, RecordInsert, Push, Release, PushTimeout, Restart, Forget,
         vars, syncVars
  <2> QED BY <2>1, <2>2 DEF Next, SyncStep
<1>3. d \in marked /\ d \notin marked' => sw'[d] = "down" \/ d \in synced
  <2>1. ASSUME NEW c \in Call, DecideMark(c) PROVE marked \subseteq marked'
      BY <2>1 DEF DecideMark
  <2>2. ASSUME NEW c \in Call, JournalFails(c) PROVE d \in marked /\ d \notin marked' => sw'[d] = "down"
      BY <2>2, <1>t DEF JournalFails, Goes
  <2>3. ASSUME Release PROVE d \in marked /\ d \notin marked' => d \in synced
      BY <2>3 DEF Release
  <2>4. ASSUME \/ \E c \in Call : \/ Ask(c) \/ Unreachable(c) \/ AskStep(c) \/ DecideRefuse(c) \/ DecideJournal(c) \/ Dial(c)
                                  \/ Hangup(c) \/ ReportStep(c) \/ RouteStep(c) \/ CampaignGone(c)
               \/ RecordStep \/ Push \/ PushAccepted \/ PushTimeout \/ Restart \/ \E p \in Post : Forget(p)
               \/ UNCHANGED vars
        PROVE  marked' = marked
      BY <2>4 DEF Ask, Unreachable, AskStep, NoAnswer, Answered, Ends, DecideRefuse, DecideJournal, Dial, Hangup,
         ReportStep, Deliver, EndById, EndBlind, RouteStep, RouteCreate, RouteSend, RouteRefuse, CampaignGone,
         RecordStep, RecordCheck, RecordInsert, Push, PushAccepted, PushTimeout, Restart, Forget, vars, aVars
  <2> QED BY <2>1, <2>2, <2>3, <2>4 DEF Next, DecideStep, SyncStep
<1>4. \/ rep'[d] = rep[d]
      \/ rep'[d].st = "due"
      \/ sw' = sw /\ rep[d].st \in {"posted", "done", "dropped"}
      \/ sw' = sw /\ d \notin marked
  <2>1. ASSUME NEW c \in Call, \E id \in BOOLEAN : Reports(c, id)
        PROVE  rep'[d] = rep[d] \/ rep'[d].st = "due"
      BY <2>1, <1>t DEF Reports
  <2>2. ASSUME NEW c \in Call, Ends(c) \/ DecideRefuse(c) \/ JournalFails(c) \/ Hangup(c)
        PROVE  \E id \in BOOLEAN : Reports(c, id)
      BY <2>2 DEF Ends, DecideRefuse, JournalFails, Hangup
  <2>3. ASSUME NEW c \in Call, Deliver(c) PROVE rep'[d] = rep[d] \/ (sw' = sw /\ d \notin marked)
      BY <2>3, <1>t DEF Deliver
  <2>4. ASSUME NEW c \in Call, EndById(c) PROVE rep'[d] = rep[d] \/ (sw' = sw /\ rep[d].st \in {"posted", "done", "dropped"})
      BY <2>4, <1>t DEF EndById
  <2>5. ASSUME NEW c \in Call, EndBlind(c) PROVE rep'[d] = rep[d] \/ (sw' = sw /\ rep[d].st \in {"posted", "done", "dropped"})
      BY <2>5, <1>t DEF EndBlind
  <2>6. ASSUME \/ \E c \in Call : \/ Ask(c) \/ Unreachable(c) \/ NoAnswer(c) \/ Answered(c) \/ DecideMark(c) \/ DecideJournal(c)
                                  \/ Dial(c) \/ RouteStep(c) \/ CampaignGone(c)
               \/ RecordStep \/ SyncStep \/ PushTimeout \/ Restart \/ \E p \in Post : Forget(p)
               \/ UNCHANGED vars
        PROVE  rep' = rep
      BY <2>6 DEF Ask, Unreachable, NoAnswer, Answered, DecideMark, DecideJournal, Dial,
         RouteStep, RouteCreate, RouteSend, RouteRefuse, CampaignGone,
         RecordStep, RecordCheck, RecordInsert, SyncStep, Push, PushAccepted, Release, PushTimeout, Restart, Forget,
         vars, aVars
  <2> QED BY <2>1, <2>2, <2>3, <2>4, <2>5, <2>6 DEF Next, AskStep, DecideStep, ReportStep
<1> QED BY <1>1, <1>2, <1>3, <1>4

LEMMA HandedStep ==
    ASSUME IInv, [Next]_vars, NEW d \in Call
    PROVE  Handed(d)'
<1>t. /\ TypeOK /\ \A c \in Call : Single(c)
      /\ rec \in [Call -> [Post -> [pc : {"none", "queued", "insert", "ok", "error"}, suffix : BOOLEAN]]]
      /\ rows \in [Call -> [Owner -> RowType]]
      /\ "a" \in Owner
    BY DEF IInv, TypeOK, RowType, Owner
<1>h. Handed(d)
    BY DEF IInv
<1>k. Known(d) => Known(d)'
    BY <1>t, KnownStays
<1>1. ASSUME NEW p \in Post, rec'[d][p].pc # "none" PROVE jour'[d] # "none"
  <2>1. rec[d][p].pc # "none" => jour[d] # "none"
      BY <1>h DEF Handed
  <2>2. jour[d] # "none"
      BY <1>1, <1>t, <2>1, RecMoves DEF Waiting, RecordCheck, RecordInsert
  <2> QED BY <2>2, <1>t, HandedMoves
<1>2. d \in synced' => Known(d)'
    BY <1>h, <1>k, <1>t, HandedMoves DEF Handed
<1>3. ASSUME NEW p \in Post, rec'[d][p].pc = "ok" PROVE Known(d)'
  <2>1. CASE rec'[d][p] = rec[d][p]
      BY <1>3, <2>1, <1>h, <1>k DEF Handed
  <2>2. CASE RecordCheck(d, p)
    <3>1. Exists(d, "a") \/ d \in gone
        BY <1>3, <2>2, <1>t DEF RecordCheck, RecordDone
    <3> QED BY <3>1, <1>k DEF Known
  <2>3. CASE RecordInsert(d, p) /\ Exists(d, "a")
      BY <2>3, <1>k DEF Known
  <2>4. CASE RecordInsert(d, p) /\ ~Exists(d, "a")
    <3> DEFINE r == IF jour[d] = "dial" THEN [NoRow EXCEPT !.st = "in_progress", !.line = placed[d]]
                                        ELSE [NoRow EXCEPT !.st = "failed", !.ended = TRUE]
    <3>1. rows' = [rows EXCEPT ![d]["a"] = r]
        BY <1>3, <2>4, <1>t DEF RecordInsert, RecordDone
    <3>2. r.st # "none"
        BY DEF NoRow
    <3> HIDE DEF r
    <3>3. rows'[d]["a"].st # "none"
        BY <3>1, <3>2, <1>t
    <3> QED BY <3>3 DEF Known, Exists
  <2> QED BY <1>3, <1>t, <2>1, <2>2, <2>3, <2>4, RecMoves
<1>4. sw'[d] \in {"marked", "journaled", "up_a", "down_a"} /\ d \notin marked' => Known(d)'
  <2> SUFFICES ASSUME sw'[d] \in {"marked", "journaled", "up_a", "down_a"}, d \notin marked' PROVE Known(d)
      BY <1>k
  <2>1. sw[d] \in {"marked", "journaled", "up_a", "down_a"}
      BY <1>t, SwitchMoves
  <2>2. d \notin marked \/ d \in synced
      BY <1>t, HandedMoves
  <2> QED BY <2>1, <2>2, <1>h DEF Handed
<1>5. sw'[d] = "down_a" /\ rep'[d].st \in {"posted", "done", "dropped"} => Known(d)'
  <2> SUFFICES ASSUME sw'[d] = "down_a", rep'[d].st \in {"posted", "done", "dropped"} PROVE Known(d)
      BY <1>k
  <2>1. sw[d] = "down_a"
      BY <1>t, SwitchMoves
  <2>2. rep[d].st \in {"posted", "done", "dropped"} \/ d \notin marked
      BY <1>t, HandedMoves
  <2> QED BY <2>1, <2>2, <1>h DEF Handed
<1> QED BY <1>1, <1>2, <1>3, <1>4, <1>5 DEF Handed

-----------------------------------------------------------------------------
(* Types. *)

(* The variables of A. *)
LEMMA SwitchTypes ==
    ASSUME TypeOK, [Next]_vars
    PROVE  /\ sw' \in [Call -> {"idle", "asking", "deciding", "marked", "journaled", "up_a", "up_b",
                                "down", "down_a", "down_b"}]
           /\ placed' \in [Call -> Line \cup {NoLine}]
           /\ marked' \subseteq Call
           /\ jour' \in [Call -> {"none", "dial", "refused"}]
           /\ rep' \in [Call -> [st : {"none", "due", "posted", "done", "dropped"}, id : BOOLEAN]]
           /\ talked' \subseteq Call
<1> DEFINE Ok == /\ sw' \in [Call -> {"idle", "asking", "deciding", "marked", "journaled", "up_a", "up_b",
                                      "down", "down_a", "down_b"}]
                 /\ placed' \in [Call -> Line \cup {NoLine}]
                 /\ marked' \subseteq Call
                 /\ jour' \in [Call -> {"none", "dial", "refused"}]
                 /\ rep' \in [Call -> [st : {"none", "due", "posted", "done", "dropped"}, id : BOOLEAN]]
                 /\ talked' \subseteq Call
<1> SUFFICES Ok
    OBVIOUS
<1>t. /\ sw \in [Call -> {"idle", "asking", "deciding", "marked", "journaled", "up_a", "up_b",
                          "down", "down_a", "down_b"}]
      /\ placed \in [Call -> Line \cup {NoLine}]
      /\ marked \subseteq Call
      /\ jour \in [Call -> {"none", "dial", "refused"}]
      /\ rep \in [Call -> [st : {"none", "due", "posted", "done", "dropped"}, id : BOOLEAN]]
      /\ talked \subseteq Call
      /\ route \in [Call -> [pc : {"none", "sent", "decide", "dial", "hangup"}, on : Owner]]
      /\ rows \in [Call -> [Owner -> RowType]]
    BY DEF TypeOK, RowType
<1>1. ASSUME NEW c \in Call, Ask(c) \/ Unreachable(c) \/ NoAnswer(c) \/ Dial(c) PROVE Ok
    BY <1>1, <1>t DEF Ask, Unreachable, NoAnswer, Dial, Goes
<1>2. ASSUME NEW c \in Call, Answered(c) PROVE Ok
  <2>1. rows[c][route[c].on].line \in Line \cup {NoLine}
      BY <1>t DEF RowType
  <2> QED BY <1>2, <1>t, <2>1 DEF Answered, Goes
<1>3. ASSUME NEW c \in Call, Ends(c) \/ DecideRefuse(c) \/ JournalFails(c) PROVE Ok
  <2>1. Reports(c, FALSE) /\ Goes(c, "down") /\ placed' = placed /\ talked' = talked
      BY <1>3 DEF Ends, DecideRefuse, JournalFails
  <2>2. rep' \in [Call -> [st : {"none", "due", "posted", "done", "dropped"}, id : BOOLEAN]]
      BY <2>1, <1>t DEF Reports
  <2>3. marked' \subseteq Call /\ jour' \in [Call -> {"none", "dial", "refused"}]
      BY <1>3, <1>t DEF Ends, DecideRefuse, JournalFails
  <2> QED BY <2>1, <2>2, <2>3, <1>t DEF Goes
<1>4. ASSUME NEW c \in Call, DecideMark(c) \/ DecideJournal(c) PROVE Ok
  <2>1. Goes(c, "marked") \/ Goes(c, "journaled")
      BY <1>4 DEF DecideMark, DecideJournal
  <2>2. placed' = placed \/ \E l \in Line : placed' = [placed EXCEPT ![c] = l]
      BY <1>4 DEF DecideMark, DecideJournal
  <2>3. jour' = jour \/ jour' = [jour EXCEPT ![c] = "dial"]
      BY <1>4 DEF DecideMark, DecideJournal
  <2>4. placed' \in [Call -> Line \cup {NoLine}] /\ jour' \in [Call -> {"none", "dial", "refused"}]
    <3>1. ASSUME NEW l \in Line, placed' = [placed EXCEPT ![c] = l] PROVE placed' \in [Call -> Line \cup {NoLine}]
        BY <3>1, <1>t
    <3>2. jour' \in [Call -> {"none", "dial", "refused"}]
        BY <2>3, <1>t
    <3> QED BY <2>2, <3>1, <3>2, <1>t
  <2>5. marked' \subseteq Call /\ rep' = rep /\ talked' = talked
      BY <1>4, <1>t DEF DecideMark, DecideJournal
  <2> QED BY <2>1, <2>4, <2>5, <1>t DEF Goes
<1>5. ASSUME NEW c \in Call, Hangup(c) PROVE Ok
  <2>1. PICK id \in BOOLEAN : Reports(c, id)
      BY <1>5 DEF Hangup
  <2>2. rep' \in [Call -> [st : {"none", "due", "posted", "done", "dropped"}, id : BOOLEAN]]
      BY <2>1, <1>t DEF Reports
  <2>3. talked' \subseteq Call
      BY <1>5, <1>t DEF Hangup
  <2> QED BY <1>5, <2>2, <2>3, <1>t DEF Hangup, Goes
<1>6. ASSUME NEW c \in Call, ReportStep(c) PROVE Ok
  <2>1. rep' = rep \/ \E x \in {"posted", "done", "dropped"} : rep' = [rep EXCEPT ![c].st = x]
      BY <1>6 DEF ReportStep, Deliver, EndById, EndBlind
  <2>2. rep' \in [Call -> [st : {"none", "due", "posted", "done", "dropped"}, id : BOOLEAN]]
    <3>1. ASSUME NEW x \in {"posted", "done", "dropped"}, rep' = [rep EXCEPT ![c].st = x]
          PROVE  rep' \in [Call -> [st : {"none", "due", "posted", "done", "dropped"}, id : BOOLEAN]]
        BY <3>1, <1>t
    <3> QED BY <2>1, <3>1, <1>t
  <2>3. UNCHANGED <<sw, placed, marked, jour, talked>>
      BY <1>6 DEF ReportStep, Deliver, EndById, EndBlind
  <2> QED BY <2>2, <2>3, <1>t
<1>7. ASSUME Release PROVE Ok
    BY <1>7, <1>t DEF Release
<1>8. ASSUME \/ \E c \in Call : RouteStep(c) \/ CampaignGone(c)
             \/ RecordStep \/ Push \/ PushAccepted \/ PushTimeout \/ Restart \/ \E p \in Post : Forget(p)
             \/ UNCHANGED vars
      PROVE  UNCHANGED aVars
    BY <1>8 DEF RouteStep, RouteCreate, RouteSend, RouteRefuse, CampaignGone,
       RecordStep, RecordCheck, RecordInsert, Push, PushAccepted, PushTimeout, Restart, Forget, vars
<1>9. UNCHANGED aVars => Ok
    BY <1>t DEF aVars
<1> HIDE DEF Ok
<1> QED BY <1>1, <1>2, <1>3, <1>4, <1>5, <1>6, <1>7, <1>8, <1>9 DEF Next, AskStep, DecideStep, SyncStep

(* The variables of B. *)
LEMMA ServerTypes ==
    ASSUME TypeOK, \A c \in Call : Single(c), [Next]_vars
    PROVE  /\ route' \in [Call -> [pc : {"none", "sent", "decide", "dial", "hangup"}, on : Owner]]
           /\ rows' \in [Call -> [Owner -> RowType]]
           /\ gone' \subseteq Call /\ billed' \subseteq Call
<1>t. /\ route \in [Call -> [pc : {"none", "sent", "decide", "dial", "hangup"}, on : Owner]]
      /\ rows \in [Call -> [Owner -> RowType]]
      /\ gone \subseteq Call /\ billed \subseteq Call
      /\ "a" \in Owner /\ "b" \in Owner
    BY DEF TypeOK, RowType, Owner
<1>1. rows' \in [Call -> [Owner -> RowType]]
  <2>1. ASSUME NEW c \in Call, NEW o \in Owner, NEW r \in RowType, rows' = [rows EXCEPT ![c][o] = r]
        PROVE  rows' \in [Call -> [Owner -> RowType]]
      BY <2>1, <1>t
  <2> QED BY <2>1, <1>t, RowWrites
<1>2. route' \in [Call -> [pc : {"none", "sent", "decide", "dial", "hangup"}, on : Owner]]
  <2>1. ASSUME NEW c \in Call, Ask(c) \/ RouteStep(c)
        PROVE  route' \in [Call -> [pc : {"none", "sent", "decide", "dial", "hangup"}, on : Owner]]
      BY <2>1, <1>t DEF Ask, RouteStep, RouteCreate, RouteSend, RouteRefuse
  <2>2. ASSUME \/ \E c \in Call : \/ Unreachable(c) \/ AskStep(c) \/ DecideStep(c) \/ ReportStep(c) \/ CampaignGone(c)
               \/ RecordStep \/ SyncStep \/ PushTimeout \/ Restart \/ \E p \in Post : Forget(p)
               \/ UNCHANGED vars
        PROVE  route' = route
      BY <2>2 DEF Unreachable, AskStep, NoAnswer, Answered, Ends, DecideStep, DecideRefuse, DecideMark, DecideJournal,
         JournalFails, Dial, Hangup, ReportStep, Deliver, EndById, EndBlind, CampaignGone,
         RecordStep, RecordCheck, RecordInsert, SyncStep, Push, PushAccepted, Release, PushTimeout, Restart, Forget,
         vars, bVars
  <2> QED BY <2>1, <2>2, <1>t DEF Next
<1>3. gone' \subseteq Call /\ billed' \subseteq Call
  <2>1. ASSUME NEW c \in Call, NEW o \in Owner, Settle(c, o) PROVE billed' \subseteq Call
      BY <2>1, <1>t DEF Settle
  <2>2. ASSUME NEW c \in Call, EndById(c) \/ EndBlind(c) PROVE gone' = gone /\ billed' \subseteq Call
      BY <2>1, <2>2, <1>t DEF EndById, EndBlind
  <2>3. ASSUME NEW c \in Call, CampaignGone(c) PROVE gone' \subseteq Call /\ billed' = billed
      BY <2>3, <1>t DEF CampaignGone
  <2>4. ASSUME \/ \E c \in Call : \/ Ask(c) \/ Unreachable(c) \/ AskStep(c) \/ DecideStep(c) \/ Deliver(c) \/ RouteStep(c)
               \/ RecordStep \/ SyncStep \/ PushTimeout \/ Restart \/ \E p \in Post : Forget(p)
               \/ UNCHANGED vars
        PROVE  gone' = gone /\ billed' = billed
      BY <2>4 DEF Ask, Unreachable, AskStep, NoAnswer, Answered, Ends, DecideStep, DecideRefuse, DecideMark, DecideJournal,
         JournalFails, Dial, Hangup, Deliver, RouteStep, RouteCreate, RouteSend, RouteRefuse,
         RecordStep, RecordCheck, RecordInsert, SyncStep, Push, PushAccepted, Release, PushTimeout, Restart, Forget,
         vars, bVars
  <2> QED BY <2>2, <2>3, <2>4, <1>t DEF Next, ReportStep
<1> QED BY <1>1, <1>2, <1>3

(* The variables of the sync service.  The post it waits for is one B has: *)
(* only the sync itself takes that one away.                               *)
LEMMA SyncTypes ==
    ASSUME IInv, [Next]_vars
    PROVE  /\ rec' \in [Call -> [Post -> [pc : {"none", "queued", "insert", "ok", "error"}, suffix : BOOLEAN]]]
           /\ synced' \subseteq {c \in Call : jour'[c] # "none"}
           /\ \/ sync' = [pc |-> "idle", post |-> NoPost]
              \/ sync' \in [pc : {"posted", "release"}, post : {p \in Post : Batch(p)' # {}}]
           /\ timeouts' \in 0 .. MaxTimeouts
           /\ restarts' \in 0 .. MaxRestarts
           /\ leaked' \subseteq Call
<1> DEFINE Jobs == [pc : {"none", "queued", "insert", "ok", "error"}, suffix : BOOLEAN]
<1>t. /\ TypeOK
      /\ rec \in [Call -> [Post -> Jobs]]
      /\ synced \subseteq Call
      /\ timeouts \in 0 .. MaxTimeouts /\ restarts \in 0 .. MaxRestarts /\ leaked \subseteq Call
    BY DEF IInv, TypeOK
<1>p. sync = [pc |-> "idle", post |-> NoPost] \/ sync \in [pc : {"posted", "release"}, post : {p \in Post : Batch(p) # {}}]
    BY DEF IInv, TypeOK
<1>1. rec' \in [Call -> [Post -> Jobs]]
  <2>1. ASSUME NEW q \in Post, rec' = Without(q) PROVE rec' \in [Call -> [Post -> Jobs]]
    <3>1. NoJob \in Jobs
        BY DEF NoJob
    <3>2. \A c \in Call : [rec[c] EXCEPT ![q] = NoJob] \in [Post -> Jobs]
        BY <3>1, <1>t
    <3> QED BY <2>1, <3>2 DEF Without
  <2>2. ASSUME Release PROVE rec' \in [Call -> [Post -> Jobs]]
    <3>1. sync.post \in Post
        BY <2>2, <1>p DEF Release
    <3> QED BY <2>1, <2>2, <3>1 DEF Release
  <2>3. ASSUME Push PROVE rec' \in [Call -> [Post -> Jobs]]
    <3>1. PICK q \in Post :
             rec' = [c \in Call |-> [rec[c] EXCEPT ![q].pc = IF c \in Waiting THEN "queued" ELSE @]]
        BY <2>3 DEF Push
    <3>2. \A c \in Call : [rec[c] EXCEPT ![q].pc = IF c \in Waiting THEN "queued" ELSE @] \in [Post -> Jobs]
        BY <1>t
    <3> QED BY <3>1, <3>2
  <2>4. ASSUME NEW c \in Call, NEW p \in Post, RecordCheck(c, p) \/ RecordInsert(c, p)
        PROVE  rec' \in [Call -> [Post -> Jobs]]
    <3>1. \E j \in Jobs : rec' = [rec EXCEPT ![c][p] = j]
        BY <2>4 DEF RecordCheck, RecordInsert, RecordDone, Exists
    <3> QED BY <3>1, <1>t
  <2>5. ASSUME \/ \E c \in Call : Ask(c) \/ Unreachable(c) \/ AskStep(c) \/ DecideStep(c) \/ ReportStep(c) \/ RouteStep(c)
                                 \/ CampaignGone(c)
               \/ PushAccepted \/ PushTimeout \/ Restart \/ UNCHANGED vars
        PROVE  rec' = rec
      BY <2>5 DEF Ask, Unreachable, AskStep, NoAnswer, Answered, Ends, DecideStep, DecideRefuse, DecideMark, DecideJournal,
         JournalFails, Dial, Hangup, ReportStep, Deliver, EndById, EndBlind, RouteStep, RouteCreate, RouteSend, RouteRefuse,
         CampaignGone, PushAccepted, PushTimeout, Restart, vars, syncVars
  <2> HIDE DEF Jobs
  <2> QED BY <2>1, <2>2, <2>3, <2>4, <2>5, <1>t DEF Next, SyncStep, RecordStep, Forget
<1>2. synced' \subseteq {c \in Call : jour'[c] # "none"}
  <2>1. synced' \subseteq Call
    <3>1. ASSUME PushAccepted PROVE synced' \subseteq Call
        BY <3>1, <1>t DEF PushAccepted, Taken
    <3>2. ASSUME \/ \E c \in Call : \/ Ask(c) \/ Unreachable(c) \/ AskStep(c) \/ DecideStep(c)
                                    \/ ReportStep(c) \/ RouteStep(c) \/ CampaignGone(c)
                 \/ RecordStep \/ Push \/ Release \/ PushTimeout \/ Restart \/ \E p \in Post : Forget(p)
                 \/ UNCHANGED vars
          PROVE  synced' = synced
        BY <3>2 DEF Ask, Unreachable, AskStep, NoAnswer, Answered, Ends, DecideStep, DecideRefuse, DecideMark, DecideJournal,
           JournalFails, Dial, Hangup, ReportStep, Deliver, EndById, EndBlind, RouteStep, RouteCreate, RouteSend, RouteRefuse,
           CampaignGone, RecordStep, RecordCheck, RecordInsert, Push, Release, PushTimeout, Restart, Forget,
           vars, syncVars
    <3> QED BY <3>1, <3>2, <1>t DEF Next, SyncStep
  <2>2. ASSUME NEW d \in Call, d \in synced' PROVE jour'[d] # "none"
    <3>1. d \in synced \/ \E p \in Post : rec[d][p].pc = "ok"
        BY <2>2, <1>t, HandedMoves
    <3>2. jour[d] # "none"
        BY <3>1 DEF IInv, Handed, TypeOK
    <3> QED BY <3>2, <1>t, HandedMoves
  <2> QED BY <2>1, <2>2
<1>3. \/ sync' = [pc |-> "idle", post |-> NoPost]
      \/ sync' \in [pc : {"posted", "release"}, post : {p \in Post : Batch(p)' # {}}]
  <2>1. ASSUME Push PROVE \E p \in Post : sync' = [pc |-> "posted", post |-> p] /\ Batch(p)' # {}
    <3>1. PICK q \in Post :
             /\ sync' = [pc |-> "posted", post |-> q]
             /\ rec' = [c \in Call |-> [rec[c] EXCEPT ![q].pc = IF c \in Waiting THEN "queued" ELSE @]]
        BY <2>1 DEF Push
    <3>2. PICK c \in Call : c \in Waiting
        BY <2>1 DEF Push, Waiting
    <3>3. rec'[c][q].pc = "queued"
      <4>1. rec'[c] = [rec[c] EXCEPT ![q].pc = "queued"]
          BY <3>1, <3>2
      <4> QED BY <4>1, <1>t
    <3> QED BY <3>1, <3>2, <3>3 DEF Batch
  (* A post B still has when another is taken away, or one of its calls is *)
  (* worked on.                                                            *)
  <2>2. ASSUME NEW p \in Post, Batch(p) # {}, NEW q \in Post, q # p, rec' = Without(q) PROVE Batch(p)' # {}
    <3>1. \A c \in Call : rec'[c] = [rec[c] EXCEPT ![q] = NoJob]
        BY <2>2 DEF Without
    <3>2. \A c \in Call : rec'[c][p] = rec[c][p]
        BY <2>2, <3>1, <1>t
    <3> QED BY <2>2, <3>2 DEF Batch
  <2>3. ASSUME NEW p \in Post, Batch(p) # {}, RecordStep PROVE Batch(p)' # {}
    <3>1. PICK c \in Call, q \in Post : RecordCheck(c, q) \/ RecordInsert(c, q)
        BY <2>3 DEF RecordStep
    <3>2. \E j \in Jobs : j.pc # "none" /\ rec' = [rec EXCEPT ![c][q] = j]
        BY <3>1 DEF RecordCheck, RecordInsert, RecordDone, Exists
    <3>3. \A d \in Call : rec[d][p].pc # "none" => rec'[d][p].pc # "none"
        BY <3>2, <1>t
    <3> QED BY <2>3, <3>3 DEF Batch
  <2>4. ASSUME \/ \E c \in Call : Ask(c) \/ Unreachable(c) \/ AskStep(c) \/ DecideStep(c) \/ ReportStep(c) \/ RouteStep(c)
                                 \/ CampaignGone(c)
               \/ UNCHANGED vars
        PROVE  rec' = rec /\ sync' = sync
      BY <2>4 DEF Ask, Unreachable, AskStep, NoAnswer, Answered, Ends, DecideStep, DecideRefuse, DecideMark, DecideJournal,
         JournalFails, Dial, Hangup, ReportStep, Deliver, EndById, EndBlind, RouteStep, RouteCreate, RouteSend, RouteRefuse,
         CampaignGone, vars, syncVars
  <2>5. rec' = rec => \A p \in Post : Batch(p)' = Batch(p)
      BY DEF Batch
  <2>6. ASSUME PushAccepted PROVE sync' \in [pc : {"posted", "release"}, post : {p \in Post : Batch(p)' # {}}]
    <3>1. sync \in [pc : {"posted", "release"}, post : {p \in Post : Batch(p) # {}}]
        BY <2>6, <1>p DEF PushAccepted
    <3>2. rec' = rec /\ sync' = [sync EXCEPT !.pc = "release"]
        BY <2>6 DEF PushAccepted
    <3> QED BY <3>1, <3>2, <2>5
  <2>7. ASSUME Release \/ PushTimeout \/ Restart PROVE sync' = [pc |-> "idle", post |-> NoPost]
      BY <2>7 DEF Release, PushTimeout, Restart
  <2>8. ASSUME NEW q \in Post, Forget(q)
        PROVE  \/ sync' = [pc |-> "idle", post |-> NoPost]
               \/ sync' \in [pc : {"posted", "release"}, post : {p \in Post : Batch(p)' # {}}]
    <3>1. sync' = sync /\ sync.post # q /\ rec' = Without(q)
        BY <2>8 DEF Forget
    <3> QED BY <3>1, <2>2, <1>p
  <2>9. ASSUME RecordStep
        PROVE  \/ sync' = [pc |-> "idle", post |-> NoPost]
               \/ sync' \in [pc : {"posted", "release"}, post : {p \in Post : Batch(p)' # {}}]
    <3>1. sync' = sync
        BY <2>9 DEF RecordStep, RecordCheck, RecordInsert
    <3> QED BY <3>1, <2>3, <2>9, <1>p
  <2>10. (rec' = rec /\ sync' = sync) =>
           \/ sync' = [pc |-> "idle", post |-> NoPost]
           \/ sync' \in [pc : {"posted", "release"}, post : {p \in Post : Batch(p)' # {}}]
      BY <2>5, <1>p
  <2> QED BY <2>1, <2>4, <2>6, <2>7, <2>8, <2>9, <2>10 DEF Next, SyncStep
<1>4. timeouts' \in 0 .. MaxTimeouts /\ restarts' \in 0 .. MaxRestarts /\ leaked' \subseteq Call
  <2>1. ASSUME PushTimeout PROVE timeouts' \in 0 .. MaxTimeouts /\ restarts' = restarts /\ leaked' = leaked
      BY <2>1, <1>t, BoundsAssumption DEF PushTimeout
  <2>2. ASSUME Restart PROVE timeouts' = timeouts /\ restarts' \in 0 .. MaxRestarts /\ leaked' \subseteq Call
      BY <2>2, <1>t, BoundsAssumption DEF Restart, Taken
  <2>3. ASSUME \/ \E c \in Call : \/ Ask(c) \/ Unreachable(c) \/ AskStep(c) \/ DecideStep(c)
                                  \/ ReportStep(c) \/ RouteStep(c) \/ CampaignGone(c)
               \/ RecordStep \/ SyncStep \/ \E p \in Post : Forget(p)
               \/ UNCHANGED vars
        PROVE  UNCHANGED <<timeouts, restarts, leaked>>
      BY <2>3 DEF Ask, Unreachable, AskStep, NoAnswer, Answered, Ends, DecideStep, DecideRefuse, DecideMark, DecideJournal,
         JournalFails, Dial, Hangup, ReportStep, Deliver, EndById, EndBlind, RouteStep, RouteCreate, RouteSend, RouteRefuse,
         CampaignGone, RecordStep, RecordCheck, RecordInsert, SyncStep, Push, PushAccepted, Release, Forget,
         vars, syncVars
  <2> QED BY <2>1, <2>2, <2>3, <1>t DEF Next
<1> QED BY <1>1, <1>2, <1>3, <1>4

-----------------------------------------------------------------------------
(* The invariant, and the properties the runs check. *)

LEMMA IInvHolds == Spec => []IInv
<1>1. Init => IInv
  <2> SUFFICES ASSUME Init PROVE IInv
      OBVIOUS
  <2>1. TypeOK
      BY BoundsAssumption DEF Init, TypeOK, NoRow, NoJob, Status, Live, Owner
  <2>2. ASSUME NEW c \in Call PROVE Handed(c) /\ Single(c)
      BY DEF Init, Handed, Single, Exists, NoRow, NoJob, Owner
  <2> QED BY <2>1, <2>2 DEF IInv
<1>2. IInv /\ [Next]_vars => IInv'
  <2> SUFFICES ASSUME IInv, [Next]_vars PROVE IInv'
      OBVIOUS
  <2>1. TypeOK /\ \A c \in Call : Single(c)
      BY DEF IInv
  <2>2. TypeOK'
    <3>1. rows' \in [Call -> [Owner -> [st : Status, line : Line \cup {NoLine}, ended : BOOLEAN, hidden : BOOLEAN]]]
        BY <2>1, ServerTypes DEF RowType
    <3> QED BY <2>1, <3>1, SwitchTypes, ServerTypes, SyncTypes DEF TypeOK, Batch
  <2>3. ASSUME NEW c \in Call PROVE Handed(c)' /\ Single(c)'
      BY <2>1, HandedStep, SingleStep
  <2> QED BY <2>2, <2>3 DEF IInv
<1> QED BY <1>1, <1>2, PTL DEF Spec

(* Every variable stays in its type; above all, the sync service waits     *)
(* only for a post B still has, and marks only journaled calls as synced.  *)
THEOREM TypesHold == Spec => []TypeOK
<1>1. IInv => TypeOK
    BY DEF IInv
<1> QED BY <1>1, IInvHolds, PTL

(* call_ended.sh, mark_pending and release_reports: B never gets a hang-up *)
(* report of a call A placed before it has the call, for any number of     *)
(* posts, lost answers and restarts of the sync service.                   *)
THEOREM ReportsHeld == Spec => []ReportNotEarly
<1>1. IInv => ReportNotEarly
    BY DEF IInv, Handed, Known, ReportNotEarly
<1> QED BY <1>1, IInvHolds, PTL

(* _set_aside_phantom and the unique sid: however late B's route handler   *)
(* writes, and however often a call is posted, no call is shown twice.     *)
THEOREM CountedOnceAlways == Spec => []CountedOnce
<1>1. IInv => CountedOnce
    BY DEF IInv, Single, CountedOnce
<1> QED BY <1>1, IInvHolds, PTL
=============================================================================
