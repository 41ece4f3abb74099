------------------------ MODULE CallLifecycle_proofs ------------------------
(***************************************************************************)
(* Safety of CallLifecycle, for any number of calls, lines, attempts,      *)
(* strikes, restarts and timeouts:                                         *)
(*   - types.  TypeOK alone is not inductive: a hidden "#try" row and a    *)
(*     line that rings are lines only because a line is filled in before   *)
(*     it is used, which is what Dials says;                               *)
(*   - money.  Told ties the report to the way the last dial ended, Money  *)
(*     puts an answered call's charge in the hands of one of its attempts  *)
(*     until it is made; Settlement is implemented step by step;           *)
(*   - lines.  Stage, Fresh, Spared and Rings: what rang is hidden, is in  *)
(*     the request's list or is still on the row, and what a list that     *)
(*     misses a call can do while the call is up;                          *)
(*   - the row.  Shows: what an answered call's row and the rows its       *)
(*     attempts are about to save say.                                     *)
(***************************************************************************)
EXTENDS CallLifecycle, TLAPS

(* A reply to dial, a missed line and a line about to ring are never empty. *)
DialsOf(c) == /\ route[c].pc = "dial" => route[c].line \in Line
              /\ next[c].pc \in {"decide", "save", "dial"} => next[c].dest \in Line
              /\ sw[c].pc \in {"ready", "ringing"} => sw[c].line \in Line
Dials == \A c \in Call : DialsOf(c)

(* Moving a hang-up handler on to its next statement keeps its type. *)
LEMMA EndMoves ==
    ASSUME ends \in [Call -> [Attempt -> EndJob]], NEW c \in Call, NEW i \in Attempt,
           NEW j \in EndJob, ends' = [ends EXCEPT ![c][i] = j]
    PROVE  ends' \in [Call -> [Attempt -> EndJob]]
<1>1. [ends[c] EXCEPT ![i] = j] \in [Attempt -> EndJob]
    OBVIOUS
<1> QED BY <1>1

(* call_ended: what a report makes of a row is again a row, whose status   *)
(* and block_reason are among the ones the code writes.                    *)
LEMMA OutcomeType ==
    ASSUME NEW r \in Row, NEW p \in Report, NEW assumed \in BOOLEAN, NEW took \in BOOLEAN
    PROVE  /\ Outcome(r, p, assumed, took).out \in Row
           /\ Outcome(r, p, assumed, took).pays \in BOOLEAN
<1> DEFINE o == Outcome(r, p, assumed, took)
<1>1. o.pays \in BOOLEAN
    BY DEF Outcome
<1>2. /\ o.out.status \in Status /\ o.out.reason \in Reason /\ o.out.ended \in BOOLEAN
      /\ o.out.dest \in Line \cup {NoLine}
    BY DEF Outcome, Row, Status, Reason, Swept
<1>3. o.out \in Row
    BY <1>2 DEF Outcome, Row
<1> QED BY <1>1, <1>3

(* call_ended: whichever row a report is matched to, the handler's state,   *)
(* the cache key of the held answer and the history keep their types.       *)
LEMMA EndReads ==
    ASSUME TypeOK, NEW c \in Call, NEW i \in Attempt, EndRead(c, i)
    PROVE  /\ ends' \in [Call -> [Attempt -> EndJob]]
           /\ held' \in [Call -> BOOLEAN]
           /\ blind' \in [Call -> {"no", "hit", "assumed"}]
<1>0. /\ ends \in [Call -> [Attempt -> EndJob]] /\ row \in [Call -> Row] /\ rep \in [Call -> Report]
      /\ held \in [Call -> BOOLEAN] /\ blind \in [Call -> {"no", "hit", "assumed"}]
    BY DEF TypeOK
<1>1. EndUnmatched(c, i) => \E j \in EndJob : ends' = [ends EXCEPT ![c][i] = j]
  <2>1. ends[c][i] \in EndJob
      BY <1>0
  <2>2. [ends[c][i] EXCEPT !.pc = "ack"] \in EndJob
      BY <2>1 DEF EndJob
  <2> QED BY <2>2 DEF EndUnmatched
<1>2. ASSUME NEW d \in Call, NEW old \in BOOLEAN, EndMatched(c, i, d, old)
      PROVE  \E j \in EndJob : ends' = [ends EXCEPT ![c][i] = j]
  <2>1. PICK assumed \in BOOLEAN, took \in BOOLEAN :
            ends' = [ends EXCEPT ![c][i] = [pc |-> "save", of |-> d,
                                            out |-> Outcome(row[d], rep[c], assumed, took).out,
                                            pays |-> Outcome(row[d], rep[c], assumed, took).pays]]
      BY <1>2 DEF EndMatched, Assumes
  <2> DEFINE o == Outcome(row[d], rep[c], assumed, took)
             job == [pc |-> "save", of |-> d, out |-> o.out, pays |-> o.pays]
  <2>2. o.out \in Row /\ o.pays \in BOOLEAN
      BY <1>0, OutcomeType
  <2> HIDE DEF o
  <2>3. job \in EndJob
      BY <2>2 DEF EndJob
  <2>4. ends' = [ends EXCEPT ![c][i] = job]
      BY <2>1 DEF o
  <2> QED BY <2>3, <2>4
<1>3. {c} \in SUBSET Call /\ BlindMatches \in SUBSET Call
    BY DEF BlindMatches
<1>4. EndUnmatched(c, i) \/ \E d \in Call, old \in BOOLEAN : EndMatched(c, i, d, old)
    BY <1>3 DEF EndRead
<1>5. PICK j \in EndJob : ends' = [ends EXCEPT ![c][i] = j]
    BY <1>1, <1>2, <1>4
<1>6. ends' \in [Call -> [Attempt -> EndJob]]
    BY <1>0, <1>5
<1>7. ASSUME NEW d \in Call, NEW old \in BOOLEAN, EndMatched(c, i, d, old)
      PROVE  held' \in [Call -> BOOLEAN] /\ blind' \in [Call -> {"no", "hit", "assumed"}]
  <2>1. PICK h \in BOOLEAN : held' = [held EXCEPT ![d] = h]
      BY <1>0, <1>7 DEF EndMatched
  <2>2. PICK b \in {"no", "hit", "assumed"} : blind' = [blind EXCEPT ![d] = b]
      BY <1>0, <1>7 DEF EndMatched
  <2> QED BY <1>0, <2>1, <2>2
<1>8. held' \in [Call -> BOOLEAN] /\ blind' \in [Call -> {"no", "hit", "assumed"}]
    BY <1>0, <1>4, <1>7 DEF EndUnmatched
<1> QED BY <1>6, <1>8

(* What a settlement leaves under a sid: a fee or minutes that are there   *)
(* stay, and after the charge of an answered call something is.            *)
LEMMA ChargedType ==
    ASSUME NEW had \in Charge, NEW pays \in BOOLEAN
    PROVE  /\ Charged(had, pays) \subseteq Charge
           /\ \A p \in Charged(had, pays) :
                 /\ p = "minutes" => had = "minutes" \/ pays
                 /\ p = "forgiven" => had = "forgiven" \/ pays
                 /\ p = "fee" => had = "fee" \/ ~pays
                 /\ p = "no" => had = "no" /\ ~pays
                 /\ had = "minutes" => p = "minutes"
                 /\ had = "fee" => p = "fee"
    BY DEF Charged, Charge

(* No step of any handler, sweep or of the switch leaves the types. *)
LEMMA TypeStep == ASSUME TypeOK, Dials, [Next]_vars PROVE TypeOK'
<1>dials. Dials
    OBVIOUS
<1>row. row \in [Call -> Row]
    BY DEF TypeOK
<1>older. older \in [Call -> SUBSET Call]
    BY DEF TypeOK
<1>tries. tries \in [Call -> SUBSET Line]
    BY DEF TypeOK
<1>held. held \in [Call -> BOOLEAN]
    BY DEF TypeOK
<1>misses. misses \in [Call -> 0 .. Strikes]
    BY DEF TypeOK
<1>paid. paid \in [Call -> Charge]
    BY DEF TypeOK
<1>sw. sw \in [Call -> Channel]
    BY DEF TypeOK
<1>rep. rep \in [Call -> Report]
    BY DEF TypeOK
<1>route. route \in [Call -> RouteJob]
    BY DEF TypeOK
<1>next. next \in [Call -> NextJob]
    BY DEF TypeOK
<1>ends. ends \in [Call -> [Attempt -> EndJob]]
    BY DEF TypeOK
<1>relay. relay \in [Call -> RelayJob]
    BY DEF TypeOK
<1>sweep. sweep \in [Call -> [Sweeper -> {"idle", "close"}]]
    BY DEF TypeOK
<1>crashes. crashes \in 0 .. MaxCrashes
    BY DEF TypeOK
<1>timeouts. timeouts \in 0 .. MaxTimeouts
    BY DEF TypeOK
<1>odd. odd \in 0 .. MaxOdd
    BY DEF TypeOK
<1>truth. truth \in [Call -> {"none", "talk", "zero", "cancel", "late", "miss"}]
    BY DEF TypeOK
<1>rang. rang \in [Call -> SUBSET Line]
    BY DEF TypeOK
<1>blind. blind \in [Call -> {"no", "hit", "assumed"}]
    BY DEF TypeOK
<1>1. ASSUME NEW c \in Call, RouteCreate(c) PROVE TypeOK'
  <2>1. row' \in [Call -> Row]
      BY <1>1, <1>row, <1>route DEF RouteCreate, Row, Status, Live, Reason, Swept
  <2>2. older' \in [Call -> SUBSET Call]
      BY <1>1, <1>older, <1>row, <1>route DEF RouteCreate
  <2>3. route' \in [Call -> RouteJob]
      BY <1>1, <1>route, <1>row DEF RouteCreate, RouteJob, IdleRoute
  <2> QED BY <1>1, <2>1, <2>2, <2>3 DEF RouteCreate, TypeOK, bVars, aVars, jobs, bounds
<1>2. ASSUME NEW c \in Call, RouteDecide(c) PROVE TypeOK'
  <2>1. row' \in [Call -> Row]
    <3>1. PICK l \in Line : row' = [row EXCEPT ![c].status = "in_progress", ![c].dest = l]
        BY <1>2 DEF RouteDecide, SendTo
    <3> QED BY <3>1, <1>row DEF Row, Status, Live
  <2>2. route' \in [Call -> RouteJob]
      BY <1>2, <1>route DEF RouteDecide, RouteJob, IdleRoute
  <2> QED BY <1>2, <2>1, <2>2 DEF RouteDecide, TypeOK, bVars, aVars, jobs, bounds
<1>3. ASSUME NEW c \in Call, RouteRefuse(c) PROVE TypeOK'
  <2>1. row' \in [Call -> Row]
    <3>1. PICK y \in {"failed", "no_answer"} :
              row' = [row EXCEPT ![c].status = y, ![c].reason = "refused", ![c].ended = TRUE]
        BY <1>3 DEF RouteRefuse
    <3>2. y \in Status /\ "refused" \in Reason
        BY DEF Status, Reason
    <3> QED BY <3>1, <3>2, <1>row DEF Row
  <2>2. route' \in [Call -> RouteJob]
      BY <1>3, <1>route, <1>row DEF RouteRefuse, RouteJob, IdleRoute
  <2> QED BY <1>3, <2>1, <2>2 DEF RouteRefuse, TypeOK, bVars, aVars, jobs, bounds
<1>4. ASSUME NEW c \in Call, NextRead(c) PROVE TypeOK'
  <2>1. next' \in [Call -> NextJob]
    <3>1. PICK j \in {[next[c] EXCEPT !.pc = "hangup"],
                      [pc |-> "decide", tried |-> (tries[c] \cup {row[c].dest}) \ {NoLine}, dest |-> row[c].dest]} :
              next' = [next EXCEPT ![c] = j]
        BY <1>4 DEF NextRead
    <3>2. (tries[c] \cup {row[c].dest}) \ {NoLine} \in SUBSET Line /\ row[c].dest \in Line \cup {NoLine}
        BY <1>tries, <1>row DEF Row
    <3>3. j \in NextJob
        BY <3>1, <3>2, <1>next DEF NextJob
    <3> QED BY <3>1, <3>3, <1>next
  <2> QED BY <1>4, <2>1 DEF NextRead, TypeOK, bVars, aVars, jobs, bounds
<1>5. ASSUME NEW c \in Call, NextRefuse(c) PROVE TypeOK'
  <2>1. next' \in [Call -> NextJob]
      BY <1>5, <1>next DEF NextRefuse, NextJob, IdleNext
  <2> QED BY <1>5, <2>1 DEF NextRefuse, TypeOK, bVars, aVars, jobs, bounds
<1>6. ASSUME NEW c \in Call, NextRecord(c) PROVE TypeOK'
  <2>1. tries' \in [Call -> SUBSET Line]
    <3>1. tries' = [tries EXCEPT ![c] = @ \cup {next[c].dest}]
        BY <1>6 DEF NextRecord
    <3>2. next[c].dest \in Line
        BY <1>6, <1>dials DEF NextRecord, Dials, DialsOf
    <3> QED BY <3>1, <3>2, <1>tries
  <2>2. next' \in [Call -> NextJob]
      BY <1>6, <1>next DEF NextRecord, NextJob, IdleNext
  <2> QED BY <1>6, <2>1, <2>2 DEF NextRecord, TypeOK, bVars, aVars, jobs, bounds
<1>7. ASSUME NEW c \in Call, NextSave(c) PROVE TypeOK'
  <2>1. row' \in [Call -> Row]
    <3>1. PICK l \in Line : row' = [row EXCEPT ![c].status = "in_progress", ![c].dest = l]
        BY <1>7 DEF NextSave, SendTo
    <3> QED BY <3>1, <1>row DEF Row, Status, Live
  <2>2. next' \in [Call -> NextJob]
    <3>1. PICK l \in Line : next' = [next EXCEPT ![c].pc = "dial", ![c].dest = l]
        BY <1>7 DEF NextSave
    <3> QED BY <3>1, <1>next DEF NextJob
  <2> QED BY <1>7, <2>1, <2>2 DEF NextSave, TypeOK, bVars, aVars, jobs, bounds
<1>8. ASSUME NEW c \in Call, NEW i \in Attempt, EndRead(c, i) PROVE TypeOK'
  <2>1. held' \in [Call -> BOOLEAN]
    BY <1>8, EndReads
  <2>2. rep' \in [Call -> Report]
    <3>1. rep' = [rep EXCEPT ![c].st = "posted", ![c].try = i]
        BY <1>8 DEF EndRead
    <3> QED BY <3>1, <1>rep DEF Report
  <2>3. ends' \in [Call -> [Attempt -> EndJob]]
    BY <1>8, EndReads
  <2>4. blind' \in [Call -> {"no", "hit", "assumed"}]
    BY <1>8, EndReads
  <2> QED BY <1>8, <2>1, <2>2, <2>3, <2>4 DEF EndRead, TypeOK, bVars, aVars, jobs, bounds
<1>9. ASSUME NEW c \in Call, NEW i \in Attempt, EndSave(c, i) PROVE TypeOK'
  <2>1. row' \in [Call -> Row]
    <3>1. ends[c][i] \in EndJob
        BY <1>ends
    <3>2. ends[c][i].of \in Call /\ ends[c][i].out \in Row
        BY <3>1 DEF EndJob
    <3>3. row' = [row EXCEPT ![ends[c][i].of] = ends[c][i].out]
        BY <1>9 DEF EndSave
    <3> QED BY <3>2, <3>3, <1>row
  <2>2. ends' \in [Call -> [Attempt -> EndJob]]
    <3> DEFINE job == [ends[c][i] EXCEPT !.pc = "charge", !.out = NoRow]
    <3>1. ends' = [ends EXCEPT ![c][i] = job]
        BY <1>9 DEF EndSave
    <3>2. ends[c][i] \in EndJob
        BY <1>ends
    <3>3. job \in EndJob
        BY <3>2 DEF EndJob, NoRow, Row, Status, Live, Reason, Swept
    <3> HIDE DEF job
    <3> QED BY <3>1, <3>3, <1>ends, EndMoves
  <2> QED BY <1>9, <2>1, <2>2 DEF EndSave, TypeOK, bVars, aVars, jobs, bounds
<1>10. ASSUME NEW c \in Call, NEW i \in Attempt, EndCharge(c, i) PROVE TypeOK'
  <2>1. paid' \in [Call -> Charge]
    <3>1. ends[c][i].of \in Call /\ ends[c][i].pays \in BOOLEAN
        BY <1>ends DEF EndJob
    <3>2. Charged(paid[ends[c][i].of], ends[c][i].pays) \subseteq Charge
        BY <3>1, <1>paid, ChargedType
    <3> QED BY <1>10, <3>1, <3>2, <1>paid DEF EndCharge
  <2>2. ends' \in [Call -> [Attempt -> EndJob]]
    <3>1. ends' = [ends EXCEPT ![c][i] = [IdleEnd(c) EXCEPT !.pc = "ack"]]
        BY <1>10 DEF EndCharge
    <3>2. [IdleEnd(c) EXCEPT !.pc = "ack"] \in EndJob
        BY DEF EndJob, IdleEnd, NoRow, Row, Status, Live, Reason, Swept
    <3> QED BY <3>1, <3>2, <1>ends, EndMoves
  <2> QED BY <1>10, <2>1, <2>2 DEF EndCharge, TypeOK, bVars, aVars, jobs, bounds
<1>11. ASSUME NEW c \in Call, NEW i \in Attempt, EndAck(c, i) PROVE TypeOK'
  <2>1. rep' \in [Call -> Report]
    <3>1. PICK p \in {"none", "due", "posted", "acked"} : rep' = [rep EXCEPT ![c].st = p]
        BY <1>11, <1>rep DEF EndAck, Report
    <3> QED BY <3>1, <1>rep DEF Report
  <2>2. ends' \in [Call -> [Attempt -> EndJob]]
      BY <1>11, <1>ends DEF EndAck, EndJob, IdleEnd, NoRow, Row, Status, Live, Reason, Swept
  <2> QED BY <1>11, <2>1, <2>2 DEF EndAck, TypeOK, bVars, aVars, jobs, bounds
<1>12. ASSUME NEW c \in Call, HeldRead(c) PROVE TypeOK'
  <2>1. relay' \in [Call -> RelayJob]
    <3> DEFINE out == [row[c] EXCEPT !.status = "completed", !.reason = ""]
    <3>1. \/ relay' = [relay EXCEPT ![c] = [pc |-> "mark", out |-> out]]
          \/ \E p \in {"remember", "done"} : relay' = [relay EXCEPT ![c] = [IdleRelay EXCEPT !.pc = p]]
        BY <1>12 DEF HeldRead
    <3>2. out \in Row
        BY <1>row DEF Row, Status, Reason
    <3> HIDE DEF out
    <3>3. /\ [pc |-> "mark", out |-> out] \in RelayJob
          /\ \A p \in {"remember", "done"} : [IdleRelay EXCEPT !.pc = p] \in RelayJob
        BY <3>2 DEF RelayJob, IdleRelay, NoRow, Row, Status, Live, Reason, Swept
    <3> QED BY <3>1, <3>3, <1>relay
  <2> QED BY <1>12, <2>1 DEF HeldRead, TypeOK, bVars, aVars, jobs, bounds
<1>13. ASSUME NEW c \in Call, HeldRemember(c) PROVE TypeOK'
  <2>1. held' \in [Call -> BOOLEAN]
      BY <1>13, <1>held DEF HeldRemember
  <2>2. relay' \in [Call -> RelayJob]
      BY <1>13, <1>relay
         DEF HeldRemember, RelayJob, IdleRelay, NoRow, Row, Status, Live, Reason, Swept
  <2> QED BY <1>13, <2>1, <2>2 DEF HeldRemember, TypeOK, bVars, aVars, jobs, bounds
<1>14. ASSUME NEW c \in Call, HeldMark(c) PROVE TypeOK'
  <2>1. row' \in [Call -> Row]
    <3>1. relay[c].out \in Row
        BY <1>relay DEF RelayJob
    <3>2. row' = [row EXCEPT ![c] = relay[c].out]
        BY <1>14 DEF HeldMark
    <3> QED BY <3>1, <3>2, <1>row
  <2>2. relay' \in [Call -> RelayJob]
    <3>1. relay' = [relay EXCEPT ![c] = [IdleRelay EXCEPT !.pc = "charge"]]
        BY <1>14 DEF HeldMark
    <3>2. [IdleRelay EXCEPT !.pc = "charge"] \in RelayJob
        BY DEF RelayJob, IdleRelay, NoRow, Row, Status, Live, Reason, Swept
    <3> QED BY <3>1, <3>2, <1>relay
  <2> QED BY <1>14, <2>1, <2>2 DEF HeldMark, TypeOK, bVars, aVars, jobs, bounds
<1>15. ASSUME NEW c \in Call, HeldCharge(c) PROVE TypeOK'
  <2>1. paid' \in [Call -> Charge]
    <3>1. Charged(paid[c], TRUE) \subseteq Charge
        BY <1>paid, ChargedType
    <3> QED BY <1>15, <3>1, <1>paid DEF HeldCharge
  <2>2. relay' \in [Call -> RelayJob]
      BY <1>15, <1>relay
         DEF HeldCharge, RelayJob, IdleRelay, NoRow, Row, Status, Live, Reason, Swept
  <2> QED BY <1>15, <2>1, <2>2 DEF HeldCharge, TypeOK, bVars, aVars, jobs, bounds
<1>16. ASSUME NEW c \in Call, HeldExpire(c) PROVE TypeOK'
  <2>1. held' \in [Call -> BOOLEAN]
      BY <1>16, <1>held DEF HeldExpire
  <2> QED BY <1>16, <2>1 DEF HeldExpire, TypeOK, bVars, aVars, jobs, bounds
<1>17. ASSUME NEW c \in Call, SyncSeen(c) PROVE TypeOK'
  <2>1. misses' \in [Call -> 0 .. Strikes]
      BY <1>17, <1>misses, <1>row, BoundsAssumption DEF SyncSeen
  <2> QED BY <1>17, <2>1 DEF SyncSeen, TypeOK, bVars, aVars, jobs, bounds
<1>18. ASSUME NEW c \in Call, SyncMissing(c) PROVE TypeOK'
  <2>1. misses' \in [Call -> 0 .. Strikes]
      BY <1>18, <1>misses, <1>row, BoundsAssumption DEF SyncMissing
  <2>2. sweep' \in [Call -> [Sweeper -> {"idle", "close"}]]
      BY <1>18, <1>sweep, <1>row DEF SyncMissing, Sweeper
  <2>3. odd' \in 0 .. MaxOdd
      BY <1>18, <1>odd, BoundsAssumption DEF SyncMissing, NotListed
  <2> QED BY <1>18, <2>1, <2>2, <2>3 DEF SyncMissing, TypeOK, bVars, aVars, jobs, bounds
<1>19. ASSUME NEW c \in Call, StaleRead(c) PROVE TypeOK'
  <2>1. sweep' \in [Call -> [Sweeper -> {"idle", "close"}]]
      BY <1>19, <1>sweep, <1>row DEF StaleRead, Sweeper
  <2> QED BY <1>19, <2>1 DEF StaleRead, TypeOK, bVars, aVars, jobs, bounds
<1>20. ASSUME NEW c \in Call, NEW s \in Sweeper, SweepSave(c, s) PROVE TypeOK'
  <2>1. row' \in [Call -> Row]
    <3>1. PICK y \in Swept : row' = [row EXCEPT ![c].status = "no_answer", ![c].ended = TRUE, ![c].reason = y]
        BY <1>20 DEF SweepSave, Swept
    <3>2. "no_answer" \in Status /\ y \in Reason
        BY DEF Status, Reason
    <3> QED BY <3>1, <3>2, <1>row DEF Row
  <2>2. misses' \in [Call -> 0 .. Strikes]
      BY <1>20, <1>misses, <1>row, BoundsAssumption DEF SweepSave
  <2>3. sweep' \in [Call -> [Sweeper -> {"idle", "close"}]]
      BY <1>20, <1>sweep, <1>row DEF SweepSave, Sweeper
  <2> QED BY <1>20, <2>1, <2>2, <2>3 DEF SweepSave, TypeOK, bVars, aVars, jobs, bounds
<1>21. ASSUME NEW c \in Call, Arrive(c) PROVE TypeOK'
  <2>1. sw' \in [Call -> Channel]
      BY <1>21, <1>sw, <1>route DEF Arrive, Goes, Channel, Up
  <2>2. route' \in [Call -> RouteJob]
      BY <1>21, <1>route, <1>sw DEF Arrive, RouteJob, IdleRoute
  <2> QED BY <1>21, <2>1, <2>2 DEF Arrive, TypeOK, bVars, aVars, jobs, bounds
<1>22. ASSUME NEW c \in Call, GetLine(c) PROVE TypeOK'
  <2>1. sw' \in [Call -> Channel]
    <3>1. sw' = [sw EXCEPT ![c] = [pc |-> "ready", line |-> route[c].line]]
        BY <1>22 DEF GetLine
    <3>2. route[c].line \in Line
        BY <1>22, <1>dials DEF GetLine, Dials, DialsOf
    <3> QED BY <3>1, <3>2, <1>sw DEF Channel, Up
  <2> QED BY <1>22, <2>1 DEF GetLine, TypeOK, bVars, aVars, jobs, bounds
<1>23. ASSUME NEW c \in Call, GetRefusal(c) PROVE TypeOK'
  <2>1. sw' \in [Call -> Channel]
      BY <1>23, <1>sw, <1>route DEF GetRefusal, Goes, Channel, Up
  <2>2. rep' \in [Call -> Report]
      BY <1>23, <1>rep, <1>sw, <1>route DEF GetRefusal, Reports, Report, NoReport
  <2> QED BY <1>23, <2>1, <2>2 DEF GetRefusal, TypeOK, bVars, aVars, jobs, bounds
<1>24. ASSUME NEW c \in Call, LeaveAsking(c) PROVE TypeOK'
  <2>1. sw' \in [Call -> Channel]
      BY <1>24, <1>sw DEF LeaveAsking, Goes, Channel, Up
  <2>2. rep' \in [Call -> Report]
      BY <1>24, <1>rep, <1>sw DEF LeaveAsking, Reports, Report, NoReport
  <2> QED BY <1>24, <2>1, <2>2 DEF LeaveAsking, TypeOK, bVars, aVars, jobs, bounds
<1>25. ASSUME NEW c \in Call, LeaveReady(c) PROVE TypeOK'
  <2>1. sw' \in [Call -> Channel]
      BY <1>25, <1>sw DEF LeaveReady, Goes, Channel, Up
  <2>2. rep' \in [Call -> Report]
      BY <1>25, <1>rep, <1>sw DEF LeaveReady, Reports, Report, NoReport
  <2> QED BY <1>25, <2>1, <2>2 DEF LeaveReady, TypeOK, bVars, aVars, jobs, bounds
<1>26. ASSUME NEW c \in Call, Ring(c) PROVE TypeOK'
  <2>1. sw' \in [Call -> Channel]
      BY <1>26, <1>sw DEF Ring, Goes, Channel, Up
  <2> QED BY <1>26, <2>1 DEF Ring, TypeOK, bVars, aVars, jobs, bounds
<1>27. ASSUME NEW c \in Call, Answer(c) PROVE TypeOK'
  <2>1. sw' \in [Call -> Channel]
      BY <1>27, <1>sw DEF Answer, Goes, Channel, Up
  <2>2. truth' \in [Call -> {"none", "talk", "zero", "cancel", "late", "miss"}]
      BY <1>27, <1>truth, <1>sw DEF Answer
  <2> QED BY <1>27, <2>1, <2>2 DEF Answer, TypeOK, bVars, aVars, jobs, bounds
<1>28. ASSUME NEW c \in Call, AnswerZero(c) PROVE TypeOK'
  <2>1. sw' \in [Call -> Channel]
      BY <1>28, <1>sw DEF AnswerZero, Goes, Channel, Up
  <2>2. rep' \in [Call -> Report]
      BY <1>28, <1>rep, <1>sw DEF AnswerZero, Reports, Report, NoReport
  <2>3. truth' \in [Call -> {"none", "talk", "zero", "cancel", "late", "miss"}]
      BY <1>28, <1>truth, <1>sw DEF AnswerZero
  <2> QED BY <1>28, <2>1, <2>2, <2>3 DEF AnswerZero, TypeOK, bVars, aVars, jobs, bounds
<1>29. ASSUME NEW c \in Call, Cancel(c) PROVE TypeOK'
  <2>1. sw' \in [Call -> Channel]
      BY <1>29, <1>sw DEF Cancel, Goes, Channel, Up
  <2>2. rep' \in [Call -> Report]
      BY <1>29, <1>rep, <1>sw DEF Cancel, Reports, Report, NoReport
  <2>3. truth' \in [Call -> {"none", "talk", "zero", "cancel", "late", "miss"}]
      BY <1>29, <1>truth, <1>sw DEF Cancel
  <2> QED BY <1>29, <2>1, <2>2, <2>3 DEF Cancel, TypeOK, bVars, aVars, jobs, bounds
<1>30. ASSUME NEW c \in Call, CancelHeld(c) PROVE TypeOK'
  <2>1. sw' \in [Call -> Channel]
      BY <1>30, <1>sw DEF CancelHeld, Goes, Channel, Up
  <2>2. rep' \in [Call -> Report]
      BY <1>30, <1>rep, <1>sw DEF CancelHeld, Reports, Report, NoReport
  <2>3. relay' \in [Call -> RelayJob]
      BY <1>30, <1>relay, <1>sw
         DEF CancelHeld, RelayJob, IdleRelay, NoRow, Row, Status, Live, Reason, Swept
  <2>4. truth' \in [Call -> {"none", "talk", "zero", "cancel", "late", "miss"}]
      BY <1>30, <1>truth, <1>sw DEF CancelHeld
  <2> QED BY <1>30, <2>1, <2>2, <2>3, <2>4 DEF CancelHeld, TypeOK, bVars, aVars, jobs, bounds
<1>31. ASSUME NEW c \in Call, Miss(c) PROVE TypeOK'
  <2>1. sw' \in [Call -> Channel]
    <3>1. PICK p \in {"nextask", "down"} : sw' = [sw EXCEPT ![c].pc = p]
        BY <1>31 DEF Miss, Goes
    <3> QED BY <3>1, <1>sw DEF Channel, Up
  <2>2. rep' \in [Call -> Report]
    <3>1. CASE Failover
        BY <1>31, <1>rep, <3>1 DEF Miss
    <3>2. CASE ~Failover
      <4>1. rep' = [rep EXCEPT ![c] = [st |-> "due", id |-> TRUE, ds |-> "MISS", secs |-> FALSE, try |-> 0]]
          BY <1>31, <3>2 DEF Miss, Reports
      <4> QED BY <4>1, <1>rep DEF Report
    <3> QED BY <3>1, <3>2
  <2>3. next' \in [Call -> NextJob]
      BY <1>31, <1>next, <1>sw DEF Miss, NextJob, IdleNext
  <2>4. truth' \in [Call -> {"none", "talk", "zero", "cancel", "late", "miss"}]
      BY <1>31, <1>truth, <1>sw, <1>next DEF Miss
  <2>5. rang' \in [Call -> SUBSET Line]
    <3>1. rang' = [rang EXCEPT ![c] = @ \cup {sw[c].line}]
        BY <1>31 DEF Miss, RingsOut
    <3>2. sw[c].line \in Line
        BY <1>31, <1>dials DEF Miss, Dials, DialsOf
    <3> QED BY <3>1, <3>2, <1>rang
  <2> QED BY <1>31, <2>1, <2>2, <2>3, <2>4, <2>5 DEF Miss, TypeOK, bVars, aVars, jobs, bounds
<1>32. ASSUME NEW c \in Call, NextDial(c) PROVE TypeOK'
  <2>1. sw' \in [Call -> Channel]
    <3>1. sw' = [sw EXCEPT ![c] = [pc |-> "ringing", line |-> next[c].dest]]
        BY <1>32 DEF NextDial
    <3>2. next[c].dest \in Line
        BY <1>32, <1>dials DEF NextDial, Dials, DialsOf
    <3> QED BY <3>1, <3>2, <1>sw DEF Channel, Up
  <2>2. next' \in [Call -> NextJob]
      BY <1>32, <1>next, <1>sw DEF NextDial, NextJob, IdleNext
  <2> QED BY <1>32, <2>1, <2>2 DEF NextDial, TypeOK, bVars, aVars, jobs, bounds
<1>33. ASSUME NEW c \in Call, NextEnds(c) PROVE TypeOK'
  <2>1. sw' \in [Call -> Channel]
      BY <1>33, <1>sw DEF NextEnds, Goes, Channel, Up
  <2>2. rep' \in [Call -> Report]
      BY <1>33, <1>rep, <1>sw DEF NextEnds, Reports, Report, NoReport
  <2> QED BY <1>33, <2>1, <2>2 DEF NextEnds, TypeOK, bVars, aVars, jobs, bounds
<1>34. ASSUME NEW c \in Call, Hangup(c) PROVE TypeOK'
  <2>1. sw' \in [Call -> Channel]
      BY <1>34, <1>sw DEF Hangup, Goes, Channel, Up
  <2>2. rep' \in [Call -> Report]
      BY <1>34, <1>rep, <1>sw DEF Hangup, Reports, Report, NoReport
  <2> QED BY <1>34, <2>1, <2>2 DEF Hangup, TypeOK, bVars, aVars, jobs, bounds
<1>35. ASSUME NEW c \in Call, Transfer(c) PROVE TypeOK'
  <2>1. sw' \in [Call -> Channel]
      BY <1>35, <1>sw DEF Transfer, Goes, Channel, Up
  <2> QED BY <1>35, <2>1 DEF Transfer, TypeOK, bVars, aVars, jobs, bounds
<1>36. ASSUME NEW c \in Call, HangupMoved(c) PROVE TypeOK'
  <2>1. sw' \in [Call -> Channel]
      BY <1>36, <1>sw DEF HangupMoved, Goes, Channel, Up
  <2>2. rep' \in [Call -> Report]
      BY <1>36, <1>rep, <1>sw DEF HangupMoved, Reports, Report, NoReport
  <2> QED BY <1>36, <2>1, <2>2 DEF HangupMoved, TypeOK, bVars, aVars, jobs, bounds
<1>37. ASSUME NEW c \in Call, ReportTimeout(c) PROVE TypeOK'
  <2>1. rep' \in [Call -> Report]
      BY <1>37, <1>rep DEF ReportTimeout, Report, NoReport
  <2>2. timeouts' \in 0 .. MaxTimeouts
      BY <1>37, <1>timeouts, BoundsAssumption DEF ReportTimeout
  <2> QED BY <1>37, <2>1, <2>2 DEF ReportTimeout, TypeOK, bVars, aVars, jobs, bounds
<1>38. ASSUME Crash PROVE TypeOK'
  <2>1. rep' \in [Call -> Report]
      BY <1>38, <1>rep, <1>route, <1>next DEF Crash, Report, NoReport
  <2>2. route' \in [Call -> RouteJob]
      BY <1>38, <1>route, <1>next DEF Crash, RouteJob, IdleRoute
  <2>3. next' \in [Call -> NextJob]
      BY <1>38, <1>next, <1>route DEF Crash, NextJob, IdleNext
  <2>4. ends' \in [Call -> [Attempt -> EndJob]]
      BY <1>38, <1>ends, <1>route, <1>next
         DEF Crash, EndJob, IdleEnd, NoRow, Row, Status, Live, Reason, Swept
  <2>5. relay' \in [Call -> RelayJob]
      BY <1>38, <1>relay, <1>route, <1>next
         DEF Crash, RelayJob, IdleRelay, NoRow, Row, Status, Live, Reason, Swept
  <2>6. sweep' \in [Call -> [Sweeper -> {"idle", "close"}]]
      BY <1>38, <1>sweep, <1>route, <1>next DEF Crash, Sweeper
  <2>7. crashes' \in 0 .. MaxCrashes
      BY <1>38, <1>crashes, <1>route, <1>next, BoundsAssumption DEF Crash
  <2> QED BY <1>38, <2>1, <2>2, <2>3, <2>4, <2>5, <2>6, <2>7 DEF Crash, TypeOK, bVars, aVars, jobs, bounds
<1>39. ASSUME UNCHANGED vars PROVE TypeOK'
    BY <1>39 DEF TypeOK, vars, bVars, aVars, jobs, bounds
<1> QED BY <1>1, <1>2, <1>3, <1>4, <1>5, <1>6, <1>7, <1>8, <1>9, <1>10, <1>11, <1>12, <1>13,
           <1>14, <1>15, <1>16, <1>17, <1>18, <1>19, <1>20, <1>21, <1>22, <1>23, <1>24,
           <1>25, <1>26, <1>27, <1>28, <1>29, <1>30, <1>31, <1>32, <1>33, <1>34, <1>35,
           <1>36, <1>37, <1>38, <1>39
       DEF Next, RouteStep, NextStep, EndStep, HeldStep, SyncStep, StaleStep, SwitchEnds,
           Sweeper

(* No step of any handler, sweep or of the switch breaks Dials. *)
LEMMA DialsStep == ASSUME TypeOK, Dials, [Next]_vars PROVE Dials'
<1> SUFFICES ASSUME NEW d \in Call PROVE DialsOf(d)'
    BY DEF Dials
<1>d. DialsOf(d)
    BY DEF Dials
<1>t. route \in [Call -> RouteJob] /\ next \in [Call -> NextJob] /\ sw \in [Call -> Channel] /\ row \in [Call -> Row]
    BY DEF TypeOK
<1>1. ASSUME NEW c \in Call, RouteCreate(c) PROVE DialsOf(d)'
    BY <1>1, <1>d, <1>t
       DEF RouteCreate, DialsOf, Goes, RouteJob, NextJob, Channel, IdleNext, aVars, jobs
<1>2. ASSUME NEW c \in Call, RouteDecide(c) PROVE DialsOf(d)'
    BY <1>2, <1>d, <1>t
       DEF RouteDecide, DialsOf, Goes, RouteJob, NextJob, Channel, IdleNext, aVars, jobs
<1>3. ASSUME NEW c \in Call, RouteRefuse(c) PROVE DialsOf(d)'
    BY <1>3, <1>d, <1>t
       DEF RouteRefuse, DialsOf, Goes, RouteJob, NextJob, Channel, IdleNext, aVars, jobs
<1>4. ASSUME NEW c \in Call, NextRefuse(c) PROVE DialsOf(d)'
    BY <1>4, <1>d, <1>t
       DEF NextRefuse, DialsOf, Goes, RouteJob, NextJob, Channel, IdleNext, aVars, jobs
<1>5. ASSUME NEW c \in Call, NextRecord(c) PROVE DialsOf(d)'
    BY <1>5, <1>d, <1>t
       DEF NextRecord, DialsOf, Goes, RouteJob, NextJob, Channel, IdleNext, aVars, jobs
<1>6. ASSUME NEW c \in Call, NextSave(c) PROVE DialsOf(d)'
    BY <1>6, <1>d, <1>t
       DEF NextSave, DialsOf, Goes, RouteJob, NextJob, Channel, IdleNext, aVars, jobs
<1>7. ASSUME NEW c \in Call, Arrive(c) PROVE DialsOf(d)'
    BY <1>7, <1>d, <1>t DEF Arrive, DialsOf, Goes, RouteJob, NextJob, Channel, IdleNext, aVars, jobs
<1>8. ASSUME NEW c \in Call, GetLine(c) PROVE DialsOf(d)'
    BY <1>8, <1>d, <1>t
       DEF GetLine, DialsOf, Goes, RouteJob, NextJob, Channel, IdleNext, aVars, jobs
<1>9. ASSUME NEW c \in Call, GetRefusal(c) PROVE DialsOf(d)'
    BY <1>9, <1>d, <1>t
       DEF GetRefusal, DialsOf, Goes, RouteJob, NextJob, Channel, IdleNext, aVars, jobs
<1>10. ASSUME NEW c \in Call, LeaveAsking(c) PROVE DialsOf(d)'
    BY <1>10, <1>d, <1>t
       DEF LeaveAsking, DialsOf, Goes, RouteJob, NextJob, Channel, IdleNext, aVars, jobs
<1>11. ASSUME NEW c \in Call, LeaveReady(c) PROVE DialsOf(d)'
    BY <1>11, <1>d, <1>t
       DEF LeaveReady, DialsOf, Goes, RouteJob, NextJob, Channel, IdleNext, aVars, jobs
<1>12. ASSUME NEW c \in Call, Ring(c) PROVE DialsOf(d)'
    BY <1>12, <1>d, <1>t DEF Ring, DialsOf, Goes, RouteJob, NextJob, Channel, IdleNext, aVars, jobs
<1>13. ASSUME NEW c \in Call, Answer(c) PROVE DialsOf(d)'
    BY <1>13, <1>d, <1>t
       DEF Answer, DialsOf, Goes, RouteJob, NextJob, Channel, IdleNext, aVars, jobs
<1>14. ASSUME NEW c \in Call, AnswerZero(c) PROVE DialsOf(d)'
    BY <1>14, <1>d, <1>t
       DEF AnswerZero, DialsOf, Goes, RouteJob, NextJob, Channel, IdleNext, aVars, jobs
<1>15. ASSUME NEW c \in Call, Cancel(c) PROVE DialsOf(d)'
    BY <1>15, <1>d, <1>t
       DEF Cancel, DialsOf, Goes, RouteJob, NextJob, Channel, IdleNext, aVars, jobs
<1>16. ASSUME NEW c \in Call, CancelHeld(c) PROVE DialsOf(d)'
    BY <1>16, <1>d, <1>t
       DEF CancelHeld, DialsOf, Goes, RouteJob, NextJob, Channel, IdleNext, aVars, jobs
<1>17. ASSUME NEW c \in Call, Miss(c) PROVE DialsOf(d)'
  <2>1. UNCHANGED route /\ sw'[d].line = sw[d].line /\ (sw'[d].pc = sw[d].pc \/ sw'[d].pc \in {"nextask", "down"})
    <3>1. PICK p \in {"nextask", "down"} : sw' = [sw EXCEPT ![c].pc = p]
        BY <1>17 DEF Miss, Goes
    <3>2. UNCHANGED route
        BY <1>17 DEF Miss
    <3> QED BY <3>1, <3>2, <1>t DEF Channel
  <2>2. next'[d] = next[d] \/ next'[d].pc = "sent"
    <3>1. CASE Failover
      <4>1. next' = [next EXCEPT ![c] = [IdleNext EXCEPT !.pc = "sent"]]
          BY <1>17, <3>1 DEF Miss
      <4> QED BY <4>1, <1>t DEF NextJob, IdleNext
    <3>2. CASE ~Failover
        BY <1>17, <3>2 DEF Miss
    <3> QED BY <3>1, <3>2
  <2> QED BY <2>1, <2>2, <1>d DEF DialsOf
<1>18. ASSUME NEW c \in Call, NextDial(c) PROVE DialsOf(d)'
    BY <1>18, <1>d, <1>t
       DEF NextDial, DialsOf, Goes, RouteJob, NextJob, Channel, IdleNext, aVars, jobs
<1>19. ASSUME NEW c \in Call, NextEnds(c) PROVE DialsOf(d)'
    BY <1>19, <1>d, <1>t
       DEF NextEnds, DialsOf, Goes, RouteJob, NextJob, Channel, IdleNext, aVars, jobs
<1>20. ASSUME NEW c \in Call, Hangup(c) PROVE DialsOf(d)'
    BY <1>20, <1>d, <1>t
       DEF Hangup, DialsOf, Goes, RouteJob, NextJob, Channel, IdleNext, aVars, jobs
<1>21. ASSUME NEW c \in Call, Transfer(c) PROVE DialsOf(d)'
    BY <1>21, <1>d, <1>t
       DEF Transfer, DialsOf, Goes, RouteJob, NextJob, Channel, IdleNext, aVars, jobs
<1>22. ASSUME NEW c \in Call, HangupMoved(c) PROVE DialsOf(d)'
    BY <1>22, <1>d, <1>t
       DEF HangupMoved, DialsOf, Goes, RouteJob, NextJob, Channel, IdleNext, aVars, jobs
<1>23. ASSUME NEW c \in Call, NextRead(c) PROVE DialsOf(d)'
  <2>1. row[c].dest # NoLine => row[c].dest \in Line
      BY <1>t DEF Row
  <2>2. UNCHANGED <<route, sw>>
      BY <1>23 DEF NextRead, aVars
  <2>3. CASE d = c
    <3>1. next'[c].pc = "hangup" \/ (row[c].dest # NoLine /\ next'[c].dest = row[c].dest)
        BY <1>23, <1>t DEF NextRead, NextJob
    <3> QED BY <2>1, <2>2, <2>3, <3>1, <1>d DEF DialsOf
  <2>4. CASE d # c
      BY <1>23, <2>2, <2>4, <1>d, <1>t DEF NextRead, DialsOf
  <2> QED BY <2>3, <2>4
<1>24. ASSUME Crash PROVE DialsOf(d)'
    BY <1>24, <1>d, <1>t DEF DialsOf, Crash, IdleRoute, IdleNext
<1>25. ASSUME UNCHANGED <<route, next, sw>> PROVE DialsOf(d)'
    BY <1>25, <1>d DEF DialsOf
<1>26. ASSUME NEW c \in Call, \/ EndStep(c) \/ HeldStep(c) \/ HeldExpire(c) \/ SyncSeen(c)
                             \/ SyncStep(c) \/ StaleStep(c) \/ ReportTimeout(c)
       PROVE  DialsOf(d)'
  <2>1. UNCHANGED <<route, next, sw>>
      BY <1>26
         DEF EndStep, HeldStep, SyncStep, StaleStep, EndRead, EndSave, EndCharge, EndAck, HeldRead,
         HeldRemember, HeldMark, HeldCharge, HeldExpire, SyncSeen, SyncMissing, StaleRead, SweepSave, ReportTimeout,
         aVars, jobs
  <2> QED BY <2>1, <1>25
<1>27. ASSUME UNCHANGED vars PROVE DialsOf(d)'
    BY <1>27, <1>25 DEF vars, aVars, jobs
<1> QED BY <1>1, <1>2, <1>3, <1>4, <1>5, <1>6, <1>7, <1>8, <1>9, <1>10, <1>11, <1>12, <1>13,
           <1>14, <1>15, <1>16, <1>17, <1>18, <1>19, <1>20, <1>21, <1>22, <1>23, <1>24,
           <1>25, <1>26, <1>27
       DEF Next, RouteStep, NextStep, SwitchEnds

(* Type correctness: in every reachable state each row, cache entry, report *)
(* and handler is in its type, and the strikes never exceed Strikes.        *)
THEOREM TypesHold == Spec => []TypeOK
<1>1. Init => TypeOK /\ Dials
  <2> SUFFICES ASSUME Init PROVE TypeOK /\ Dials
      OBVIOUS
  <2>1. NoRow \in Row
      BY DEF NoRow, Row, Status, Reason
  <2>2. NoReport \in Report
      BY DEF NoReport, Report
  <2>3. IdleRoute \in RouteJob /\ IdleNext \in NextJob
      BY DEF IdleRoute, RouteJob, IdleNext, NextJob
  <2>4. IdleRelay \in RelayJob /\ \A c \in Call : IdleEnd(c) \in EndJob
      BY <2>1 DEF IdleRelay, RelayJob, IdleEnd, EndJob
  <2>5. [pc |-> "idle", line |-> NoLine] \in Channel
      BY DEF Channel
  <2>6. Dials
      BY DEF Init, Dials, DialsOf, IdleRoute, IdleNext
  <2>7. 0 \in 0 .. Strikes /\ 0 \in 0 .. MaxCrashes /\ 0 \in 0 .. MaxTimeouts /\ 0 \in 0 .. MaxOdd
      BY BoundsAssumption
  <2>8. "no" \in Charge
      BY DEF Charge
  <2> QED BY <2>1, <2>2, <2>3, <2>4, <2>5, <2>6, <2>7, <2>8 DEF Init, TypeOK
<1>2. TypeOK /\ Dials /\ [Next]_vars => (TypeOK /\ Dials)'
    BY TypeStep, DialsStep
<1> QED BY <1>1, <1>2, PTL DEF Spec

-----------------------------------------------------------------------------
(* What the switch tells, and the money of a call. *)

(* What the switch has told of call c: a report is there exactly from the  *)
(* end of the call on, it says ANSWER and carries the id only when the     *)
(* last dial was answered, and only a late answer reaches the relay.       *)
Told(c) ==
    /\ rep[c].st # "none" => sw[c].pc = "down"
    /\ rep[c].st = "none" => sw[c].pc # "down" /\ rep[c].ds = "" /\ \A i \in Attempt : ends[c][i].pc = "idle"
    /\ sw[c].pc \in {"talking", "moved"} => truth[c] = "talk"
    /\ truth[c] = "talk" => sw[c].pc \in {"talking", "moved", "down"}
    /\ truth[c] \in {"late", "zero"} => sw[c].pc = "down"
    /\ rep[c].ds = "ANSWER" => rep[c].id /\ (rep[c].secs => truth[c] = "talk") /\ (~rep[c].secs => truth[c] = "zero")
    /\ Answered(c) => rep[c].ds = "ANSWER"
    /\ held[c] \/ relay[c].pc # "none" => truth[c] = "late"

(* Every step keeps what the switch has told of a call. *)
LEMMA ToldStep == ASSUME TypeOK, NEW d \in Call, Told(d), [Next]_vars PROVE Told(d)'
<1>d. Told(d)
    OBVIOUS
<1>t. /\ sw \in [Call -> Channel] /\ rep \in [Call -> Report] /\ relay \in [Call -> RelayJob]
      /\ ends \in [Call -> [Attempt -> EndJob]] /\ held \in [Call -> BOOLEAN]
      /\ truth \in [Call -> {"none", "talk", "zero", "cancel", "late", "miss"}]
    BY DEF TypeOK
<1>1. ASSUME NEW c \in Call, NEW i \in Attempt, EndSave(c, i) PROVE Told(d)'
    BY <1>1, <1>d, <1>t DEF EndSave, Told, Answered, EndJob, aVars, bVars, jobs
<1>2. ASSUME NEW c \in Call, NEW i \in Attempt, EndCharge(c, i) PROVE Told(d)'
    BY <1>2, <1>d, <1>t DEF EndCharge, Told, Answered, EndJob, aVars, bVars, jobs
<1>3. ASSUME NEW c \in Call, NEW i \in Attempt, EndAck(c, i) PROVE Told(d)'
    BY <1>3, <1>d, <1>t DEF EndAck, Told, Answered, Report, EndJob, IdleEnd, aVars, bVars, jobs
<1>4. ASSUME NEW c \in Call, HeldRead(c) PROVE Told(d)'
    BY <1>4, <1>d, <1>t DEF HeldRead, Told, Answered, RelayJob, aVars, bVars, jobs
<1>5. ASSUME NEW c \in Call, HeldRemember(c) PROVE Told(d)'
    BY <1>5, <1>d, <1>t DEF HeldRemember, Told, Answered, RelayJob, aVars, bVars, jobs
<1>6. ASSUME NEW c \in Call, HeldMark(c) PROVE Told(d)'
    BY <1>6, <1>d, <1>t DEF HeldMark, Told, Answered, RelayJob, aVars, bVars, jobs
<1>7. ASSUME NEW c \in Call, HeldCharge(c) PROVE Told(d)'
    BY <1>7, <1>d, <1>t DEF HeldCharge, Told, Answered, RelayJob, aVars, bVars, jobs
<1>8. ASSUME NEW c \in Call, HeldExpire(c) PROVE Told(d)'
    BY <1>8, <1>d, <1>t DEF HeldExpire, Told, Answered, RelayJob, aVars, bVars, jobs
<1>9. ASSUME NEW c \in Call, Arrive(c) PROVE Told(d)'
    BY <1>9, <1>d, <1>t DEF Arrive, Told, Answered, Goes, Reports, Channel, aVars, bVars, jobs
<1>10. ASSUME NEW c \in Call, GetLine(c) PROVE Told(d)'
    BY <1>10, <1>d, <1>t DEF GetLine, Told, Answered, Goes, Reports, Channel, aVars, bVars, jobs
<1>11. ASSUME NEW c \in Call, GetRefusal(c) PROVE Told(d)'
    BY <1>11, <1>d, <1>t DEF GetRefusal, Told, Answered, Goes, Reports, Channel, aVars, bVars, jobs
<1>12. ASSUME NEW c \in Call, LeaveAsking(c) PROVE Told(d)'
    BY <1>12, <1>d, <1>t DEF LeaveAsking, Told, Answered, Goes, Reports, Channel, aVars, bVars, jobs
<1>13. ASSUME NEW c \in Call, LeaveReady(c) PROVE Told(d)'
    BY <1>13, <1>d, <1>t DEF LeaveReady, Told, Answered, Goes, Reports, Channel, aVars, bVars, jobs
<1>14. ASSUME NEW c \in Call, Ring(c) PROVE Told(d)'
    BY <1>14, <1>d, <1>t DEF Ring, Told, Answered, Goes, Reports, Channel, aVars, bVars, jobs
<1>15. ASSUME NEW c \in Call, Answer(c) PROVE Told(d)'
    BY <1>15, <1>d, <1>t DEF Answer, Told, Answered, Goes, Reports, Channel, aVars, bVars, jobs
<1>16. ASSUME NEW c \in Call, AnswerZero(c) PROVE Told(d)'
    BY <1>16, <1>d, <1>t DEF AnswerZero, Told, Answered, Goes, Reports, Channel, aVars, bVars, jobs
<1>17. ASSUME NEW c \in Call, Cancel(c) PROVE Told(d)'
    BY <1>17, <1>d, <1>t DEF Cancel, Told, Answered, Goes, Reports, Channel, aVars, bVars, jobs
<1>18. ASSUME NEW c \in Call, CancelHeld(c) PROVE Told(d)'
    BY <1>18, <1>d, <1>t DEF CancelHeld, Told, Answered, Goes, Reports, Channel, RelayJob, aVars, bVars, jobs
<1>19. ASSUME NEW c \in Call, Miss(c) PROVE Told(d)'
  <2>1. sw[c].pc = "ringing" /\ truth' = [truth EXCEPT ![c] = "miss"] /\ UNCHANGED <<held, relay, ends>>
      BY <1>19 DEF Miss, bVars
  <2>2. CASE Failover
    <3>1. sw' = [sw EXCEPT ![c].pc = "nextask"] /\ rep' = rep
        BY <1>19, <2>2 DEF Miss, Goes
    <3> QED BY <2>1, <3>1, <1>d, <1>t DEF Told, Answered, Channel
  <2>3. CASE ~Failover
    <3>1. /\ sw' = [sw EXCEPT ![c].pc = "down"]
          /\ rep' = [rep EXCEPT ![c] = [st |-> "due", id |-> TRUE, ds |-> "MISS", secs |-> FALSE, try |-> 0]]
        BY <1>19, <2>3 DEF Miss, Goes, Reports
    <3> QED BY <2>1, <3>1, <1>d, <1>t DEF Told, Answered, Channel
  <2> QED BY <2>2, <2>3
<1>20. ASSUME NEW c \in Call, NextDial(c) PROVE Told(d)'
    BY <1>20, <1>d, <1>t DEF NextDial, Told, Answered, Goes, Reports, Channel, aVars, bVars, jobs
<1>21. ASSUME NEW c \in Call, NextEnds(c) PROVE Told(d)'
    BY <1>21, <1>d, <1>t DEF NextEnds, Told, Answered, Goes, Reports, Channel, aVars, bVars, jobs
<1>22. ASSUME NEW c \in Call, Hangup(c) PROVE Told(d)'
    BY <1>22, <1>d, <1>t DEF Hangup, Told, Answered, Goes, Reports, Channel, aVars, bVars, jobs
<1>23. ASSUME NEW c \in Call, Transfer(c) PROVE Told(d)'
    BY <1>23, <1>d, <1>t DEF Transfer, Told, Answered, Goes, Reports, Channel, aVars, bVars, jobs
<1>24. ASSUME NEW c \in Call, HangupMoved(c) PROVE Told(d)'
    BY <1>24, <1>d, <1>t DEF HangupMoved, Told, Answered, Goes, Reports, Channel, aVars, bVars, jobs
<1>25. ASSUME NEW c \in Call, ReportTimeout(c) PROVE Told(d)'
    BY <1>25, <1>d, <1>t DEF ReportTimeout, Told, Answered, Report, aVars, bVars, jobs
<1>26. ASSUME NEW c \in Call, NEW i \in Attempt, EndRead(c, i) PROVE Told(d)'
  <2>1. UNCHANGED <<sw, truth, relay>>
      BY <1>26 DEF EndRead
  <2>2. rep[c].st = "due" /\ rep' = [rep EXCEPT ![c].st = "posted", ![c].try = i]
      BY <1>26 DEF EndRead
  <2>3. held'[d] => held[d]
    <3>1. ASSUME NEW e \in Call, NEW old \in BOOLEAN, EndMatched(c, i, e, old) PROVE held'[d] => held[d]
        BY <3>1, <1>t DEF EndMatched
    <3> QED BY <1>26, <3>1 DEF EndRead, EndUnmatched, BlindMatches
  <2>4. d # c => ends'[d] = ends[d]
    <3>1. ASSUME NEW e \in Call, NEW old \in BOOLEAN, EndMatched(c, i, e, old) PROVE d # c => ends'[d] = ends[d]
        BY <3>1, <1>t DEF EndMatched
    <3>2. EndUnmatched(c, i) => (d # c => ends'[d] = ends[d])
        BY <1>t DEF EndUnmatched
    <3> QED BY <1>26, <3>1, <3>2 DEF EndRead, BlindMatches
  <2>5. /\ rep'[d].id = rep[d].id /\ rep'[d].ds = rep[d].ds /\ rep'[d].secs = rep[d].secs
        /\ rep[d].st = "none" <=> rep'[d].st = "none"
        /\ rep[d].st = "none" => d # c
      BY <2>2, <1>t DEF Report
  <2> QED BY <2>1, <2>2, <2>3, <2>4, <2>5,  <1>d DEF Told, Answered
<1>27. ASSUME Crash PROVE Told(d)'
    BY <1>27, <1>d, <1>t DEF Crash, Told, Answered, IdleRelay, IdleEnd, Channel, Report, RelayJob, EndJob, aVars, bVars, jobs
<1>28. ASSUME UNCHANGED <<sw, rep, truth, held, relay, ends>> PROVE Told(d)'
    BY <1>28, <1>d DEF Told, Answered
<1>29. ASSUME NEW c \in Call, RouteStep(c) \/ NextStep(c) \/ SyncSeen(c) \/ SyncStep(c) \/ StaleStep(c)
      PROVE  Told(d)'
  <2>1. UNCHANGED <<sw, rep, truth, held, relay, ends>>
      BY <1>29 DEF RouteStep, RouteCreate, RouteDecide, RouteRefuse, NextStep, NextRead, NextRefuse, NextRecord,
         NextSave, SyncSeen, SyncStep, SyncMissing, StaleStep, StaleRead, SweepSave, aVars, bVars, jobs
  <2> QED BY <2>1, <1>28
<1>30. ASSUME UNCHANGED vars PROVE Told(d)'
    BY <1>30, <1>28 DEF vars, aVars, bVars, jobs
<1> QED BY <1>1, <1>2, <1>3, <1>4, <1>5, <1>6, <1>7, <1>8, <1>9, <1>10, <1>11, <1>12, <1>13, <1>14, <1>15, <1>16, <1>17, <1>18, <1>19, <1>20, <1>21, <1>22, <1>23, <1>24, <1>25, <1>26, <1>27, <1>28, <1>29, <1>30
       DEF Next, EndStep, HeldStep, SwitchEnds

(* What the money of a call hangs on, and the steps that end a call. *)
moneyVars == <<rep, truth, blind, paid, ends>>
CallEnds(c) == \/ GetRefusal(c) \/ LeaveAsking(c) \/ LeaveReady(c) \/ AnswerZero(c) \/ Cancel(c)
               \/ CancelHeld(c) \/ NextEnds(c) \/ Hangup(c) \/ HangupMoved(c)
               \/ Miss(c) /\ ~Failover

(* Every other step of a handler, a sweep or the switch leaves them alone. *)
LEMMA MoneySteps ==
    ASSUME [Next]_vars
    PROVE  \/ UNCHANGED moneyVars
           \/ Crash
           \/ \E c \in Call : \/ CallEnds(c) \/ Answer(c) \/ HeldCharge(c) \/ ReportTimeout(c)
                              \/ Miss(c) /\ Failover
                              \/ \E i \in Attempt : \/ EndRead(c, i) \/ EndSave(c, i)
                                                    \/ EndCharge(c, i) \/ EndAck(c, i)
<1>1. ASSUME NEW c \in Call,
             \/ RouteStep(c) \/ NextStep(c) \/ SyncSeen(c) \/ SyncStep(c) \/ StaleStep(c)
      PROVE  UNCHANGED moneyVars
    BY <1>1 DEF RouteStep, RouteCreate, RouteDecide, RouteRefuse, NextStep, NextRead, NextRefuse, NextRecord,
       NextSave, SyncSeen, SyncStep, SyncMissing, StaleStep, StaleRead, SweepSave, moneyVars, aVars, bVars, jobs
<1>2. ASSUME NEW c \in Call,
             HeldRead(c) \/ HeldRemember(c) \/ HeldMark(c) \/ HeldExpire(c)
      PROVE  UNCHANGED moneyVars
    BY <1>2 DEF HeldRead, HeldRemember, HeldMark, HeldExpire, moneyVars, aVars, bVars, jobs
<1>3. ASSUME NEW c \in Call,
             Arrive(c) \/ Ring(c) \/ Transfer(c) \/ GetLine(c) \/ NextDial(c)
      PROVE  UNCHANGED moneyVars
    BY <1>3 DEF Arrive, Ring, Transfer, GetLine, NextDial, Goes, moneyVars, bVars, jobs
<1>4. ASSUME UNCHANGED vars PROVE UNCHANGED moneyVars
    BY <1>4 DEF vars, moneyVars, aVars, bVars, jobs
<1>5. ASSUME NEW c \in Call, HeldStep(c) \/ SwitchEnds(c)
      PROVE  \/ UNCHANGED moneyVars
             \/ CallEnds(c) \/ Answer(c) \/ HeldCharge(c)
             \/ Miss(c) /\ Failover
    BY <1>2, <1>3, <1>5 DEF HeldStep, SwitchEnds, CallEnds
<1> QED BY <1>1, <1>2, <1>3, <1>4, <1>5 DEF Next, EndStep

(* The end of a call makes its report due; the call becomes one that has   *)
(* to be paid only if it was answered before, and stays chargeable.        *)
LEMMA CallEnding ==
    ASSUME TypeOK, NEW c \in Call, Told(c), CallEnds(c)
    PROVE  /\ rep[c].st = "none" /\ rep'[c].st = "due"
           /\ \A d \in Call : d # c => rep'[d] = rep[d] /\ truth'[d] = truth[d]
           /\ UNCHANGED <<blind, paid, ends>>
           /\ Chargeable(c) => Chargeable(c)'
           /\ Answered(c)' => Chargeable(c)
<1>t. /\ sw \in [Call -> Channel] /\ rep \in [Call -> Report]
      /\ truth \in [Call -> {"none", "talk", "zero", "cancel", "late", "miss"}]
    BY DEF TypeOK
<1>1. sw[c].pc # "down"
    BY DEF CallEnds, GetRefusal, LeaveAsking, LeaveReady, AnswerZero, Cancel, CancelHeld, Miss, NextEnds, Hangup,
       HangupMoved
<1>2. rep[c].st = "none"
    BY <1>1 DEF Told
<1>3. /\ UNCHANGED <<blind, paid, ends>>
      /\ \E id \in BOOLEAN, ds \in {"", "ANSWER", "CANCEL", "MISS"}, secs \in BOOLEAN :
            /\ Reports(c, id, ds, secs)
            /\ id /\ secs => sw[c].pc = "talking"
            /\ id => sw[c].pc # "moved"
      /\ \/ UNCHANGED truth
         \/ sw[c].pc = "ringing" /\ \E t \in {"zero", "cancel", "late", "miss"} : truth' = [truth EXCEPT ![c] = t]
    BY DEF CallEnds, GetRefusal, LeaveAsking, LeaveReady, AnswerZero, Cancel, CancelHeld, Miss, NextEnds, Hangup,
       HangupMoved, bVars, aVars, jobs
<1>4. rep'[c].st = "due" /\ \A d \in Call : d # c => rep'[d] = rep[d]
  <2>1. PICK id, ds, secs : Reports(c, id, ds, secs)
      BY <1>3
  <2>2. rep' = [rep EXCEPT ![c] = [st |-> "due", id |-> id, ds |-> ds, secs |-> secs, try |-> 0]]
      BY <2>1 DEF Reports
  <2> QED BY <2>2, <1>t
<1>5. \A d \in Call : d # c => truth'[d] = truth[d]
    BY <1>3, <1>t
<1>6. truth'[c] = truth[c] \/ (truth[c] \notin {"talk", "late", "zero"} /\ truth'[c] # "talk")
    BY <1>3, <1>t DEF Told
<1>7. Chargeable(c) => Chargeable(c)'
    BY <1>3, <1>6 DEF Chargeable
<1>8. Answered(c)' => Chargeable(c)
    BY <1>6 DEF Answered, Chargeable
<1> QED BY <1>2, <1>3, <1>4, <1>5, <1>7, <1>8

(* What may be charged once may be charged for ever. *)
LEMMA ChargeableStays ==
    ASSUME TypeOK, NEW d \in Call, Told(d), [Next]_vars, Chargeable(d)
    PROVE  Chargeable(d)'
<1>t. /\ sw \in [Call -> Channel] /\ blind \in [Call -> {"no", "hit", "assumed"}]
      /\ truth \in [Call -> {"none", "talk", "zero", "cancel", "late", "miss"}]
    BY DEF TypeOK
<1>1. ASSUME truth'[d] = truth[d], blind[d] = "assumed" => blind'[d] = "assumed"
      PROVE  Chargeable(d)'
    BY <1>1 DEF Chargeable
<1>2. ASSUME UNCHANGED <<truth, blind>> PROVE Chargeable(d)'
    BY <1>1, <1>2
<1>3. ASSUME NEW c \in Call, CallEnds(c) PROVE Chargeable(d)'
  <2>1. CASE d = c
      BY <1>3, <2>1, CallEnding
  <2>2. CASE d # c
    <3>1. UNCHANGED blind
        BY <1>3 DEF CallEnds, GetRefusal, LeaveAsking, LeaveReady, AnswerZero, Cancel, CancelHeld, Miss, NextEnds,
           Hangup, HangupMoved
    <3>2. truth'[d] = truth[d]
        BY <1>3, <2>2, <1>t DEF CallEnds, GetRefusal, LeaveAsking, LeaveReady, AnswerZero, Cancel, CancelHeld, Miss,
           NextEnds, Hangup, HangupMoved
    <3> QED BY <3>1, <3>2, <1>1
  <2> QED BY <2>1, <2>2
<1>4. ASSUME NEW c \in Call, Answer(c) \/ Miss(c) PROVE Chargeable(d)'
  <2>1. UNCHANGED blind /\ sw[c].pc = "ringing" /\ \E t \in {"talk", "miss"} : truth' = [truth EXCEPT ![c] = t]
      BY <1>4 DEF Answer, Miss
  <2>2. d = c => truth[d] \notin {"talk", "late", "zero"}
      BY <2>1 DEF Told
  <2> QED BY <2>1, <2>2, <1>t DEF Chargeable
<1>5. ASSUME NEW c \in Call, NEW i \in Attempt, EndRead(c, i) PROVE Chargeable(d)'
  <2>1. UNCHANGED truth
      BY <1>5 DEF EndRead
  <2>2. ASSUME NEW e \in Call, NEW old \in BOOLEAN, EndMatched(c, i, e, old)
        PROVE  blind[d] = "assumed" => blind'[d] = "assumed"
      BY <2>2, <1>t DEF EndMatched
  <2> QED BY <1>1, <1>5, <2>1, <2>2 DEF EndRead, EndUnmatched, BlindMatches
<1>6. ASSUME NEW c \in Call, \/ HeldCharge(c) \/ ReportTimeout(c)
                             \/ \E i \in Attempt : EndSave(c, i) \/ EndCharge(c, i) \/ EndAck(c, i)
      PROVE  Chargeable(d)'
    BY <1>6, <1>2 DEF HeldCharge, ReportTimeout, EndSave, EndCharge, EndAck, aVars
<1>7. ASSUME Crash PROVE Chargeable(d)'
    BY <1>7, <1>2 DEF Crash
<1> QED BY <1>2, <1>3, <1>4, <1>5, <1>6, <1>7, MoneySteps DEF moneyVars

(* Call c may be taken for missed: its own report tells of no answer, or a *)
(* report that names no call was matched to it.                            *)
Missable(c) == blind[c] # "no" \/ (rep[c].st # "none" /\ ~Answered(c))

(* Where the money of call c stands: minutes are charged, or about to be,  *)
(* only for what was answered or taken for an answer, a fee only for what  *)
(* may be taken for missed, and from the reading of an answered call's     *)
(* report to its acknowledgement the charge is in the hands of the attempt *)
(* that will make it before it answers.                                    *)
AttemptPays(c, i) ==
    /\ ends[c][i].pc \in {"save", "charge"} => IF ends[c][i].pays THEN Chargeable(ends[c][i].of)
                                                               ELSE Missable(ends[c][i].of)
    /\ Answered(c) => /\ ends[c][i].pc \in {"save", "charge"} => ends[c][i].pays /\ ends[c][i].of = c
                      /\ ends[c][i].pc = "ack" => paid[c] # "no"
Money(c) ==
    /\ paid[c] \in {"minutes", "forgiven"} => Chargeable(c)
    /\ paid[c] = "fee" => Missable(c)
    /\ rep[c].st = "acked" /\ Answered(c) => paid[c] # "no"
    /\ \A i \in Attempt : AttemptPays(c, i)

(* What a report makes of an answered call is a charge of its minutes; it  *)
(* makes one of no call that was not answered or assumed to be, and takes  *)
(* for missed only a call that may be.                                     *)
LEMMA MatchedPays ==
    ASSUME TypeOK, NEW c \in Call, NEW d \in Call, NEW i \in Attempt, NEW old \in BOOLEAN,
           Told(c), Told(d), rep[c].id => d = c, EndMatched(c, i, d, old), UNCHANGED truth
    PROVE  \E j : /\ ends' = [ends EXCEPT ![c][i] = j]
                  /\ j.pc = "save" /\ j.of = d
                  /\ IF j.pays THEN Chargeable(d)' ELSE blind'[d] # "no" \/ (d = c /\ ~Answered(c))
                  /\ Answered(c) => j.pays
<1>t. /\ rep \in [Call -> Report] /\ blind \in [Call -> {"no", "hit", "assumed"}]
      /\ truth \in [Call -> {"none", "talk", "zero", "cancel", "late", "miss"}]
      /\ rep[c].secs \in BOOLEAN /\ held[d] \in BOOLEAN
    BY DEF TypeOK, Report
<1> DEFINE assumed == Assumes(row[d], rep[c], old)
           took == held[d] /\ row[d].dest # NoLine /\ rep[c].ds # "ANSWER" /\ ~assumed
           o == Outcome(row[d], rep[c], assumed, took)
           job == [pc |-> "save", of |-> d, out |-> o.out, pays |-> o.pays]
<1>1. ends' = [ends EXCEPT ![c][i] = job]
    BY DEF EndMatched
<1>2. assumed => blind'[d] = "assumed"
    BY <1>t DEF EndMatched
<1>3. took => truth[d] = "late"
    BY DEF Told
<1>4. o.pays <=> /\ rep[c].ds = "ANSWER" \/ assumed \/ took
                 /\ ~(rep[c].ds = "ANSWER" /\ ~rep[c].secs /\ ZeroIsMissed)
    BY SwitchesAssumption, <1>t DEF Outcome
<1>5. rep[c].ds = "ANSWER" => /\ d = c
                              /\ rep[c].secs => truth[c] = "talk"
                              /\ ~rep[c].secs => truth[c] = "zero"
    BY DEF Told
<1>6. Answered(c) => rep[c].ds = "ANSWER" /\ truth[c] = "talk"
    BY DEF Told, Answered
<1> HIDE DEF assumed, took, o
<1>7. o.pays => Chargeable(d)'
    BY <1>2, <1>3, <1>4, <1>5 DEF Chargeable
<1>8. Answered(c) => o.pays
    BY <1>4, <1>5, <1>6
<1>9. ~rep[c].id => blind'[d] # "no"
    BY <1>t DEF EndMatched
<1> WITNESS job
<1> QED BY <1>1, <1>7, <1>8, <1>9

(* What may be taken for missed once may be so for ever. *)
LEMMA MissableStays ==
    ASSUME TypeOK, NEW d \in Call, Told(d), [Next]_vars, Missable(d)
    PROVE  Missable(d)'
<1>t. /\ sw \in [Call -> Channel] /\ rep \in [Call -> Report] /\ blind \in [Call -> {"no", "hit", "assumed"}]
      /\ truth \in [Call -> {"none", "talk", "zero", "cancel", "late", "miss"}]
    BY DEF TypeOK
<1>1. ASSUME blind[d] # "no" => blind'[d] # "no",
             rep[d].st # "none" => rep'[d].st # "none" /\ rep'[d].id = rep[d].id /\ truth'[d] = truth[d]
      PROVE  Missable(d)'
    BY <1>1 DEF Missable, Answered
<1>2. ASSUME UNCHANGED <<rep, truth, blind>> PROVE Missable(d)'
    BY <1>1, <1>2
<1>3. ASSUME NEW c \in Call, CallEnds(c) PROVE Missable(d)'
  <2>1. UNCHANGED blind
      BY <1>3 DEF CallEnds, GetRefusal, LeaveAsking, LeaveReady, AnswerZero, Cancel, CancelHeld, Miss, NextEnds,
         Hangup, HangupMoved
  <2>2. d = c => rep[d].st = "none"
      BY <1>3, CallEnding
  <2>3. d # c => rep'[d] = rep[d] /\ truth'[d] = truth[d]
      BY <1>3, <1>t DEF CallEnds, GetRefusal, LeaveAsking, LeaveReady, AnswerZero, Cancel, CancelHeld, Miss,
         NextEnds, Hangup, HangupMoved, Reports
  <2> QED BY <2>1, <2>2, <2>3, <1>1
<1>4. ASSUME NEW c \in Call, \/ Answer(c)
                             \/ Miss(c) /\ Failover
      PROVE  Missable(d)'
  <2>1. /\ UNCHANGED <<rep, blind>> /\ sw[c].pc = "ringing"
        /\ \E t \in {"talk", "miss"} : truth' = [truth EXCEPT ![c] = t]
      BY <1>4 DEF Answer, Miss, bVars, jobs
  <2>2. d = c => rep[d].st = "none"
      BY <2>1 DEF Told
  <2> QED BY <2>1, <2>2, <1>1, <1>t
<1>5. ASSUME NEW c \in Call, NEW i \in Attempt, EndRead(c, i) PROVE Missable(d)'
  <2>1. UNCHANGED truth /\ rep[c].st = "due" /\ rep' = [rep EXCEPT ![c].st = "posted", ![c].try = i]
      BY <1>5 DEF EndRead
  <2>2. ASSUME NEW e \in Call, NEW old \in BOOLEAN, EndMatched(c, i, e, old)
        PROVE  blind[d] # "no" => blind'[d] # "no"
      BY <2>2, <1>t DEF EndMatched
  <2>3. blind[d] # "no" => blind'[d] # "no"
      BY <1>5, <2>2 DEF EndRead, EndUnmatched, BlindMatches
  <2>4. rep'[d].id = rep[d].id /\ (rep[d].st # "none" => rep'[d].st # "none")
      BY <2>1, <1>t DEF Report
  <2> QED BY <2>1, <2>3, <2>4, <1>1
<1>6. ASSUME UNCHANGED <<truth, blind>>,
             rep'[d].id = rep[d].id /\ (rep[d].st # "none" => rep'[d].st # "none")
      PROVE  Missable(d)'
    BY <1>6, <1>1
<1>7. ASSUME NEW c \in Call, NEW i \in Attempt, EndAck(c, i) PROVE Missable(d)'
    BY <1>7, <1>6, <1>t DEF EndAck, Report
<1>8. ASSUME NEW c \in Call, ReportTimeout(c) PROVE Missable(d)'
    BY <1>8, <1>6, <1>t DEF ReportTimeout, Report
<1>9. ASSUME Crash PROVE Missable(d)'
    BY <1>9, <1>6, <1>t DEF Crash, Report
<1>10. ASSUME NEW c \in Call, HeldCharge(c) \/ \E i \in Attempt : EndSave(c, i) \/ EndCharge(c, i)
       PROVE  Missable(d)'
    BY <1>10, <1>2 DEF HeldCharge, EndSave, EndCharge, aVars
<1> QED BY <1>2, <1>3, <1>4, <1>5, <1>7, <1>8, <1>9, <1>10, MoneySteps DEF moneyVars

(* No step charges a call that is not to be charged, or acknowledges the   *)
(* report of an answered call whose charge was not tried.                  *)
LEMMA MoneyStep ==
    ASSUME TypeOK, \A c \in Call : Told(c) /\ Money(c), NEW d \in Call, [Next]_vars
    PROVE  Money(d)'
<1>t. /\ rep \in [Call -> Report] /\ ends \in [Call -> [Attempt -> EndJob]] /\ paid \in [Call -> Charge]
      /\ \A i \in Attempt : ends[d][i].of \in Call
    BY DEF TypeOK, EndJob
<1>d. Told(d) /\ Money(d)
    OBVIOUS
<1>m. \A e \in Call : (Chargeable(e) => Chargeable(e)') /\ (Missable(e) => Missable(e)')
    BY ChargeableStays, MissableStays
<1>1. ASSUME UNCHANGED <<paid, ends>>, UNCHANGED rep[d],
             Answered(d)' => Answered(d)
      PROVE  Money(d)'
    BY <1>1, <1>d, <1>m, <1>t DEF Money, AttemptPays
<1>2. ASSUME UNCHANGED moneyVars PROVE Money(d)'
    BY <1>1, <1>2 DEF moneyVars, Answered
<1>3. ASSUME NEW c \in Call, CallEnds(c) PROVE Money(d)'
  <2>1. /\ rep[c].st = "none" /\ rep'[c].st = "due" /\ UNCHANGED <<paid, ends>>
        /\ d # c => rep'[d] = rep[d] /\ truth'[d] = truth[d]
      BY <1>3, CallEnding
  <2>2. CASE d = c
    <3>1. \A i \in Attempt : ends[d][i].pc = "idle"
        BY <2>1, <2>2, <1>d DEF Told
    <3> QED BY <2>1, <2>2, <3>1, <1>d, <1>m DEF Money, AttemptPays
  <2>3. CASE d # c
      BY <2>1, <2>3, <1>1 DEF Answered
  <2> QED BY <2>2, <2>3
<1>4. ASSUME NEW c \in Call, \/ Answer(c)
                             \/ Miss(c) /\ Failover
      PROVE  Money(d)'
  <2>1. /\ UNCHANGED <<paid, ends, rep>> /\ sw[c].pc = "ringing"
        /\ \E t \in {"talk", "miss"} : truth' = [truth EXCEPT ![c] = t]
      BY <1>4 DEF Answer, Miss, bVars, jobs
  <2>2. d = c => rep[d].st = "none"
      BY <2>1, <1>d DEF Told
  <2>3. d # c => truth'[d] = truth[d]
      BY <2>1 DEF TypeOK
  <2> QED BY <2>1, <2>2, <2>3, <1>1 DEF Answered
<1>5. ASSUME NEW c \in Call, HeldCharge(c) PROVE Money(d)'
  <2>1. UNCHANGED <<rep, truth, blind, ends>> /\ relay[c].pc = "charge"
      BY <1>5 DEF HeldCharge, aVars
  <2>2. PICK p \in Charged(paid[c], TRUE) : paid' = [paid EXCEPT ![c] = p]
      BY <1>5 DEF HeldCharge
  <2>3. Chargeable(c)
      BY <2>1 DEF Told, Chargeable
  <2>4. /\ d # c => paid'[d] = paid[d]
        /\ d = c => /\ paid'[d] \in {"minutes", "forgiven"} => Chargeable(d)
                    /\ paid'[d] = "fee" => paid[d] = "fee"
        /\ paid[d] # "no" => paid'[d] # "no"
      BY <2>2, <2>3, <1>t, ChargedType
  <2>5. Answered(d)' <=> Answered(d)
      BY <2>1 DEF Answered
  <2> QED BY <2>1, <2>4, <2>5, <1>d, <1>m, <1>t DEF Money, AttemptPays
<1>6. ASSUME NEW c \in Call, ReportTimeout(c) PROVE Money(d)'
  <2>1. UNCHANGED <<paid, ends, truth>> /\ rep[c].st = "posted" /\ rep' = [rep EXCEPT ![c].st = "due"]
      BY <1>6 DEF ReportTimeout, bVars, jobs
  <2>2. /\ rep'[d].id = rep[d].id
        /\ rep'[d].st = rep[d].st \/ (rep[d].st = "posted" /\ rep'[d].st = "due")
      BY <2>1, <1>t DEF Report
  <2> QED BY <2>1, <2>2, <1>d, <1>m, <1>t DEF Money, AttemptPays, Answered
<1>7. ASSUME NEW c \in Call, NEW i \in Attempt, EndRead(c, i) PROVE Money(d)'
  <2>1. /\ rep[c].st = "due" /\ rep' = [rep EXCEPT ![c].st = "posted", ![c].try = i]
        /\ UNCHANGED <<paid, truth>>
      BY <1>7 DEF EndRead
  <2>2. /\ rep'[d].id = rep[d].id
        /\ rep'[d].st = rep[d].st \/ (rep[d].st = "due" /\ rep'[d].st = "posted")
      BY <2>1, <1>t DEF Report
  <2>3. Answered(d)' <=> Answered(d)
      BY <2>1, <2>2 DEF Answered
  <2>4. ASSUME EndUnmatched(c, i), ~rep[c].id PROVE Money(d)'
    <3>1. ends' = [ends EXCEPT ![c][i].pc = "ack"]
        BY <2>4 DEF EndUnmatched
    <3>2. \A k \in Attempt : ends'[d][k] = ends[d][k] \/ (d = c /\ ends'[d][k].pc = "ack")
        BY <3>1, <1>t DEF EndJob
    <3>3. d = c => ~Answered(d)
        BY <2>4 DEF Answered
    <3> QED BY <2>1, <2>2, <2>3, <3>2, <3>3, <1>d, <1>m, <1>t DEF Money, AttemptPays
  <2>5. ASSUME NEW e \in Call, NEW old \in BOOLEAN, rep[c].id => e = c, EndMatched(c, i, e, old) PROVE Money(d)'
    <3>1. PICK j : /\ ends' = [ends EXCEPT ![c][i] = j]
                   /\ j.pc = "save" /\ j.of = e
                   /\ IF j.pays THEN Chargeable(e)' ELSE blind'[e] # "no" \/ (e = c /\ ~Answered(c))
                   /\ Answered(c) => j.pays
        BY <2>1, <2>5, MatchedPays
    <3>2. \A k \in Attempt : ends'[d][k] = ends[d][k] \/ (d = c /\ ends'[d][k] = j)
        BY <3>1, <1>t
    <3>3. Answered(c) => e = c
        BY <2>5 DEF Answered
    <3>4. ~j.pays => Missable(e)'
        BY <2>1, <3>1, <1>t DEF Missable, Answered, Report
    <3> QED BY <2>1, <2>2, <2>3, <3>1, <3>2, <3>3, <3>4, <1>d, <1>m, <1>t DEF Money, AttemptPays
  <2> QED BY <1>7, <2>4, <2>5 DEF EndRead, BlindMatches
<1>8. ASSUME NEW c \in Call, NEW i \in Attempt, EndSave(c, i) PROVE Money(d)'
  <2>1. /\ ends[c][i].pc = "save" /\ UNCHANGED <<rep, truth, blind, paid>>
        /\ ends' = [ends EXCEPT ![c][i].pc = "charge", ![c][i].out = NoRow]
      BY <1>8 DEF EndSave, aVars
  <2>2. \A k \in Attempt :
           \/ ends'[d][k] = ends[d][k]
           \/ /\ ends[d][k].pc = "save" /\ ends'[d][k].pc = "charge"
              /\ ends'[d][k].of = ends[d][k].of /\ ends'[d][k].pays = ends[d][k].pays
      BY <2>1, <1>t DEF EndJob
  <2>3. (Answered(d)' <=> Answered(d)) /\ UNCHANGED <<rep[d], paid[d]>>
      BY <2>1 DEF Answered
  <2>4. ASSUME NEW k \in Attempt PROVE AttemptPays(d, k)'
    <3>1. AttemptPays(d, k) /\ ends[d][k].of \in Call
        BY <1>d, <1>t DEF Money
    <3> QED BY <2>2, <2>3, <3>1, <1>m DEF AttemptPays
  <2> QED BY <2>3, <2>4, <1>d, <1>m DEF Money
<1>9. ASSUME NEW c \in Call, NEW i \in Attempt, EndCharge(c, i) PROVE Money(d)'
  <2> DEFINE e == ends[c][i].of
             pays == ends[c][i].pays
  <2>1. /\ ends[c][i].pc = "charge" /\ UNCHANGED <<rep, truth, blind>>
        /\ ends' = [ends EXCEPT ![c][i] = [IdleEnd(c) EXCEPT !.pc = "ack"]]
      BY <1>9 DEF EndCharge, aVars
  <2>2. PICK p \in Charged(paid[e], pays) : paid' = [paid EXCEPT ![e] = p]
      BY <1>9 DEF EndCharge
  <2>3. e \in Call /\ pays \in BOOLEAN /\ AttemptPays(c, i)
      BY <1>t DEF Money, EndJob
  <2>4. IF pays THEN Chargeable(e) ELSE Missable(e)
      BY <2>1, <2>3 DEF AttemptPays
  <2>5. Answered(c) => pays /\ e = c
      BY <2>1, <2>3 DEF AttemptPays
  <2> HIDE DEF e, pays
  <2>6. /\ d # e => paid'[d] = paid[d]
        /\ d = e => /\ paid'[d] \in {"minutes", "forgiven"} => paid[d] = paid'[d] \/ Chargeable(d)
                    /\ paid'[d] = "fee" => paid[d] = "fee" \/ Missable(d)
                    /\ pays => paid'[d] # "no"
        /\ paid[d] # "no" => paid'[d] # "no"
      BY <2>2, <2>3, <2>4, <1>t, ChargedType
  <2>7. \A k \in Attempt : ends'[d][k] = ends[d][k] \/ (d = c /\ k = i /\ ends'[d][k].pc = "ack")
      BY <2>1, <1>t DEF EndJob, IdleEnd
  <2>8. (Answered(d)' <=> Answered(d)) /\ rep'[d] = rep[d]
      BY <2>1 DEF Answered
  <2>9. ASSUME NEW k \in Attempt PROVE AttemptPays(d, k)'
    <3>1. AttemptPays(d, k) /\ ends[d][k].of \in Call
        BY <1>d, <1>t DEF Money
    <3>2. CASE ends'[d][k] = ends[d][k]
        BY <2>6, <2>8, <3>1, <3>2, <1>m DEF AttemptPays
    <3>3. CASE d = c /\ k = i /\ ends'[d][k].pc = "ack"
        BY <2>5, <2>6, <2>8, <3>3 DEF AttemptPays
    <3> QED BY <2>7, <3>2, <3>3
  <2> QED BY <2>6, <2>8, <2>9, <1>d, <1>m DEF Money
<1>10. ASSUME NEW c \in Call, NEW i \in Attempt, EndAck(c, i) PROVE Money(d)'
  <2>1. /\ ends[c][i].pc = "ack" /\ UNCHANGED <<paid, truth, blind>>
        /\ ends' = [ends EXCEPT ![c][i] = IdleEnd(c)]
        /\ rep' = [rep EXCEPT ![c].st = IF @ = "posted" /\ rep[c].try = i THEN "acked" ELSE @]
      BY <1>10 DEF EndAck, bVars
  <2>2. \A k \in Attempt : ends'[d][k] = ends[d][k] \/ ends'[d][k].pc = "idle"
      BY <2>1, <1>t DEF IdleEnd
  <2>3. /\ rep'[d].id = rep[d].id
        /\ rep'[d].st = rep[d].st \/ (d = c /\ rep[d].st = "posted" /\ rep'[d].st = "acked")
      BY <2>1, <1>t DEF Report
  <2>4. Answered(d)' <=> Answered(d)
      BY <2>1, <2>3 DEF Answered
  <2>5. d = c /\ Answered(d) => paid[d] # "no"
      BY <2>1, <1>d DEF Money, AttemptPays
  <2> QED BY <2>1, <2>2, <2>3, <2>4, <2>5, <1>d, <1>m, <1>t DEF Money, AttemptPays
<1>11. ASSUME Crash PROVE Money(d)'
  <2>1. /\ ends'[d] = [k \in Attempt |-> IdleEnd(d)] /\ UNCHANGED <<paid, truth, blind>>
        /\ rep' = [c \in Call |-> [rep[c] EXCEPT !.st = IF @ = "posted" THEN "due" ELSE @]]
      BY <1>11 DEF Crash, bVars
  <2>2. /\ rep'[d].id = rep[d].id
        /\ rep'[d].st = rep[d].st \/ (rep[d].st = "posted" /\ rep'[d].st = "due")
      BY <2>1, <1>t DEF Report
  <2>3. \A k \in Attempt : ends'[d][k].pc = "idle"
      BY <2>1 DEF IdleEnd
  <2> QED BY <2>1, <2>2, <2>3, <1>d, <1>m DEF Money, AttemptPays, Answered
<1> QED BY <1>2, <1>3, <1>4, <1>5, <1>6, <1>7, <1>8, <1>9, <1>10, <1>11, MoneySteps

MoneyInv == \A c \in Call : Told(c) /\ Money(c)

(* It holds in every reachable state. *)
LEMMA MoneyInvHolds == Spec => [](TypeOK /\ MoneyInv)
<1>1. Init => MoneyInv
  <2> SUFFICES ASSUME Init, NEW c \in Call PROVE Told(c) /\ Money(c)
      BY DEF MoneyInv
  <2>1. /\ sw[c].pc = "idle" /\ rep[c].st = "none" /\ rep[c].ds = "" /\ truth[c] = "none"
        /\ ~held[c] /\ relay[c].pc = "none" /\ paid[c] = "no"
        /\ \A i \in Attempt : ends[c][i].pc = "idle"
      BY DEF Init, NoReport, IdleRelay, IdleEnd
  <2> QED BY <2>1 DEF Told, Money, AttemptPays, Answered
<1>2. TypeOK /\ MoneyInv /\ [Next]_vars => MoneyInv'
    BY ToldStep, MoneyStep DEF MoneyInv
<1> QED BY <1>1, <1>2, TypesHold, PTL DEF Spec

(* call_ended, call_ended.sh: with any number of calls, attempts, restarts, *)
(* timeouts and sweeps, the switch forgets the report of an answered call   *)
(* only when the charge of its minutes is booked, or was tried and          *)
(* swallowed; a fee is there in their place only if a report without an id  *)
(* was matched to the call.                                                 *)
THEOREM AnsweredPaid == Spec => []AnsweredIsPaid
<1>1. TypeOK /\ MoneyInv => AnsweredIsPaid
    BY DEF TypeOK, Charge, MoneyInv, Money, Missable, AnsweredIsPaid
<1> QED BY <1>1, MoneyInvHolds, PTL

(* call_ended, held_answer_report: whatever reports are repeated or matched *)
(* without an id, no minutes are charged, or tried to be, for a call that   *)
(* no buyer answered, unless a blind report was assumed to be answered.     *)
THEOREM ChargedAnswered == Spec => []PaidWasAnswered
<1>1. MoneyInv => PaidWasAnswered
    BY DEF MoneyInv, Money, PaidWasAnswered
<1> QED BY <1>1, MoneyInvHolds, PTL

(* Every step of the handlers and the switch is a step of Settlement or    *)
(* leaves what Settlement sees alone.                                      *)
LEMMA SettlementStep ==
    ASSUME TypeOK, MoneyInv, [Next]_vars
    PROVE  [Settled!Next]_(Settled!svars)
<1> DEFINE P == [c \in Call |-> Phase(c)]
           O == [c \in Call |-> Owed(c)]
<1>t. /\ rep \in [Call -> Report] /\ ends \in [Call -> [Attempt -> EndJob]] /\ paid \in [Call -> Charge]
      /\ truth \in [Call -> {"none", "talk", "zero", "cancel", "late", "miss"}]
      /\ blind \in [Call -> {"no", "hit", "assumed"}]
    BY DEF TypeOK
<1>i. \A c \in Call : Told(c) /\ Money(c)
    BY DEF MoneyInv
<1>m. \A c \in Call : Chargeable(c) => Chargeable(c)'
    BY ChargeableStays, <1>i
<1>0. ASSUME \A d \in Call : Phase(d)' = Phase(d) /\ Owed(d)' = Owed(d), UNCHANGED paid
      PROVE  [Settled!Next]_(Settled!svars)
    BY <1>0 DEF Settled!svars
<1>1. ASSUME UNCHANGED moneyVars PROVE [Settled!Next]_(Settled!svars)
    BY <1>1, <1>0 DEF moneyVars, Phase, Owed, Answered, Chargeable
<1>2. ASSUME NEW c \in Call, CallEnds(c) PROVE Settled!HangUp(c)
  <2>1. /\ rep[c].st = "none" /\ rep'[c].st = "due" /\ UNCHANGED <<blind, paid>>
        /\ \A d \in Call : d # c => rep'[d] = rep[d] /\ truth'[d] = truth[d]
        /\ Chargeable(c) => Chargeable(c)'
        /\ Answered(c)' => Chargeable(c)
      BY <1>2, <1>i, CallEnding
  <2>2. Phase(c) = "open" /\ Phase(c)' = "over"
      BY <2>1 DEF Phase
  <2>3. \A d \in Call : d # c => Phase(d)' = Phase(d) /\ Owed(d)' = Owed(d)
      BY <2>1 DEF Phase, Owed, Answered, Chargeable
  <2>4. Owed(c)' \in IF Owed(c) = "no" THEN {"no", "may"} ELSE {"may", "must"}
      BY <2>1 DEF Owed, Answered
  <2>5. Owed(c)' = "must" => paid[c] # "fee"
      BY <2>1, <1>i DEF Owed, Money, Missable
  <2>6. P' = [P EXCEPT ![c] = "over"] /\ O' = [O EXCEPT ![c] = Owed(c)']
      BY <2>2, <2>3
  <2> QED BY <2>1, <2>2, <2>4, <2>5, <2>6 DEF Settled!HangUp
<1>3. ASSUME NEW c \in Call, \/ Answer(c)
                             \/ Miss(c) /\ Failover
      PROVE  [Settled!Next]_(Settled!svars)
  <2>1. /\ UNCHANGED <<paid, rep, blind>> /\ sw[c].pc = "ringing"
        /\ \E t \in {"talk", "miss"} : truth' = [truth EXCEPT ![c] = t]
      BY <1>3 DEF Answer, Miss, bVars, jobs
  <2>2. rep[c].st = "none" /\ truth[c] \notin {"talk", "late", "zero"}
      BY <2>1, <1>i DEF Told
  <2>3. \A d \in Call : Phase(d)' = Phase(d) /\ (d # c => Owed(d)' = Owed(d))
      BY <2>1, <1>t DEF Phase, Owed, Answered, Chargeable
  <2>4. Owed(c)' = Owed(c) \/ (Owed(c) = "no" /\ Owed(c)' = "may")
      BY <2>1, <2>2, <1>m DEF Owed, Answered
  <2>5. CASE Owed(c)' = Owed(c)
      BY <2>1, <2>3, <2>5, <1>0
  <2>6. CASE Owed(c) = "no" /\ Owed(c)' = "may"
    <3>1. P' = P /\ O' = [O EXCEPT ![c] = "may"]
        BY <2>3, <2>6
    <3> QED BY <2>1, <2>6, <3>1 DEF Settled!Next, Settled!Claim
  <2> QED BY <2>4, <2>5, <2>6
<1>4. ASSUME NEW c \in Call, NEW pays \in BOOLEAN, IF pays THEN Chargeable(c) ELSE Missable(c),
             NEW p \in Charged(paid[c], pays), paid' = [paid EXCEPT ![c] = p],
             UNCHANGED <<rep, truth, blind>>
      PROVE  [Settled!Next]_(Settled!svars)
  <2>1. P' = P /\ O' = O /\ \A d \in Call : Phase(d)' = Phase(d) /\ Owed(d)' = Owed(d)
      BY <1>4 DEF Phase, Owed, Answered, Chargeable
  <2>2. pays => Owed(c) # "no"
      BY <1>4 DEF Owed
  <2>3. ~pays => Owed(c) # "must"
      BY <1>4 DEF Owed, Missable, Answered
  <2>4. CASE p = paid[c]
      BY <1>4, <2>1, <2>4, <1>0, <1>t
  <2>5. CASE pays /\ p = "minutes" /\ paid[c] \in {"no", "forgiven"}
      BY <1>4, <2>1, <2>2, <2>5 DEF Settled!Next, Settled!Bill, Settled!Unbilled
  <2>6. CASE pays /\ p = "forgiven" /\ paid[c] = "no"
      BY <1>4, <2>1, <2>2, <2>6 DEF Settled!Next, Settled!Forgive
  <2>7. CASE ~pays /\ p = "fee" /\ paid[c] \in {"no", "forgiven"}
      BY <1>4, <2>1, <2>3, <2>7 DEF Settled!Next, Settled!Fee, Settled!Unbilled
  <2> QED BY <1>4, <2>4, <2>5, <2>6, <2>7, <1>t DEF Charged, Charge
<1>5. ASSUME NEW c \in Call, HeldCharge(c) PROVE [Settled!Next]_(Settled!svars)
  <2>1. UNCHANGED <<rep, truth, blind>> /\ relay[c].pc = "charge"
      BY <1>5 DEF HeldCharge, aVars
  <2>2. Chargeable(c)
      BY <2>1, <1>i DEF Told, Chargeable
  <2>3. PICK p \in Charged(paid[c], TRUE) : paid' = [paid EXCEPT ![c] = p]
      BY <1>5 DEF HeldCharge
  <2> QED BY <2>1, <2>2, <2>3, <1>4
<1>6. ASSUME NEW c \in Call, NEW i \in Attempt, EndCharge(c, i) PROVE [Settled!Next]_(Settled!svars)
  <2> DEFINE e == ends[c][i].of
             pays == ends[c][i].pays
  <2>1. ends[c][i].pc = "charge" /\ UNCHANGED <<rep, truth, blind>>
      BY <1>6 DEF EndCharge, aVars
  <2>2. PICK p \in Charged(paid[e], pays) : paid' = [paid EXCEPT ![e] = p]
      BY <1>6 DEF EndCharge
  <2>3. e \in Call /\ pays \in BOOLEAN
      BY <1>t DEF EndJob
  <2>4. IF pays THEN Chargeable(e) ELSE Missable(e)
      BY <2>1, <1>i DEF Money, AttemptPays
  <2> HIDE DEF e, pays
  <2> QED BY <2>1, <2>2, <2>3, <2>4, <1>4
<1>7. ASSUME NEW c \in Call, NEW i \in Attempt, EndAck(c, i) PROVE [Settled!Next]_(Settled!svars)
  <2>1. /\ ends[c][i].pc = "ack" /\ UNCHANGED <<paid, truth, blind>>
        /\ rep' = [rep EXCEPT ![c].st = IF @ = "posted" /\ rep[c].try = i THEN "acked" ELSE @]
      BY <1>7 DEF EndAck, bVars
  <2>2. /\ \A d \in Call : d # c => rep'[d] = rep[d]
        /\ rep'[c].id = rep[c].id
        /\ rep'[c].st = rep[c].st \/ (rep[c].st = "posted" /\ rep'[c].st = "acked")
      BY <2>1, <1>t DEF Report
  <2>3. \A d \in Call : Owed(d)' = Owed(d) /\ (d # c => Phase(d)' = Phase(d))
      BY <2>1, <2>2 DEF Phase, Owed, Answered, Chargeable
  <2>4. CASE rep'[c].st = rep[c].st
      BY <2>1, <2>3, <2>4, <1>0 DEF Phase
  <2>5. CASE rep[c].st = "posted" /\ rep'[c].st = "acked"
    <3>1. P' = [P EXCEPT ![c] = "closed"] /\ O' = O /\ Phase(c) = "over"
        BY <2>3, <2>5 DEF Phase
    <3>2. Owed(c) = "must" => paid[c] \in {"minutes", "forgiven"}
      <4>1. Answered(c) => paid[c] # "no"
          BY <2>1, <1>i DEF Money, AttemptPays
      <4>2. paid[c] = "fee" => Missable(c)
          BY <1>i DEF Money
      <4> QED BY <4>1, <4>2, <1>t DEF Owed, Missable, Charge
    <3> QED BY <2>1, <3>1, <3>2 DEF Settled!Next, Settled!Close
  <2> QED BY <2>2, <2>4, <2>5
<1>8. ASSUME NEW c \in Call, NEW i \in Attempt, EndSave(c, i) PROVE [Settled!Next]_(Settled!svars)
  <2>1. UNCHANGED <<rep, truth, blind, paid>>
      BY <1>8 DEF EndSave, aVars
  <2> QED BY <2>1, <1>0 DEF Phase, Owed, Answered, Chargeable
<1>9. ASSUME NEW c \in Call, NEW i \in Attempt, EndRead(c, i) PROVE [Settled!Next]_(Settled!svars)
  <2>1. /\ rep[c].st = "due" /\ rep' = [rep EXCEPT ![c].st = "posted", ![c].try = i]
        /\ UNCHANGED <<paid, truth>>
      BY <1>9 DEF EndRead
  <2>2. \A d \in Call : /\ rep'[d].id = rep[d].id
                        /\ rep'[d].st = rep[d].st \/ (rep[d].st = "due" /\ rep'[d].st = "posted")
      BY <2>1, <1>t DEF Report
  <2>3. \A d \in Call : Phase(d)' = Phase(d) /\ (Answered(d)' <=> Answered(d))
      BY <2>1, <2>2 DEF Phase, Answered
  <2>4. ASSUME UNCHANGED blind PROVE [Settled!Next]_(Settled!svars)
    <3>1. \A d \in Call : Owed(d)' = Owed(d)
        BY <2>1, <2>3, <2>4 DEF Owed, Chargeable
    <3> QED BY <2>1, <2>3, <3>1, <1>0
  <2>5. ASSUME NEW e \in Call, NEW old \in BOOLEAN, EndMatched(c, i, e, old) PROVE [Settled!Next]_(Settled!svars)
    <3>1. \A d \in Call : d # e => blind'[d] = blind[d]
        BY <2>5, <1>t DEF EndMatched
    <3>2. \A d \in Call : d # e => Owed(d)' = Owed(d)
        BY <2>1, <2>3, <3>1 DEF Owed, Chargeable
    <3>3. \/ Owed(e)' = Owed(e)
          \/ Owed(e) = "no" /\ Owed(e)' = "may"
          \/ Owed(e) = "must" /\ Owed(e)' = "may"
      <4>1. blind[e] # "no" => blind'[e] # "no"
          BY <2>5, <1>t DEF EndMatched
      <4>2. Answered(e) => Chargeable(e)
          BY DEF Answered, Chargeable
      <4> QED BY <2>3, <1>m, <4>1, <4>2 DEF Owed
    <3>4. CASE Owed(e)' = Owed(e)
        BY <2>1, <2>3, <3>2, <3>4, <1>0
    <3>5. CASE Owed(e) \in {"no", "must"} /\ Owed(e)' = "may"
      <4>1. P' = P /\ O' = [O EXCEPT ![e] = "may"]
          BY <2>3, <3>2, <3>5
      <4> QED BY <2>1, <3>5, <4>1 DEF Settled!Next, Settled!Claim, Settled!Doubt
    <3> QED BY <3>3, <3>4, <3>5
  <2> QED BY <1>9, <2>4, <2>5 DEF EndRead, EndUnmatched, BlindMatches
<1>10. ASSUME UNCHANGED <<paid, truth, blind>>,
              \A d \in Call : /\ rep'[d].id = rep[d].id
                              /\ rep'[d].st = rep[d].st \/ (rep[d].st = "posted" /\ rep'[d].st = "due")
       PROVE  [Settled!Next]_(Settled!svars)
    BY <1>10, <1>0 DEF Phase, Owed, Answered, Chargeable
<1>11. ASSUME NEW c \in Call, ReportTimeout(c) PROVE [Settled!Next]_(Settled!svars)
    BY <1>11, <1>10, <1>t DEF ReportTimeout, bVars, jobs, Report
<1>12. ASSUME Crash PROVE [Settled!Next]_(Settled!svars)
    BY <1>12, <1>10, <1>t DEF Crash, bVars, Report
<1> QED BY <1>1, <1>2, <1>3, <1>5, <1>6, <1>7, <1>8, <1>9, <1>11, <1>12, MoneySteps DEF Settled!Next

(* The handlers, the relay's report and the switch's repetition implement  *)
(* Settlement, for any number of calls: minutes are owed before they are   *)
(* charged or forgiven, what is booked is never taken back, a missed       *)
(* call's fee never takes the place of minutes that have to be paid, and   *)
(* the switch forgets no call whose minutes are neither charged nor        *)
(* forgiven by a charge that was tried.                                    *)
THEOREM SettlementImplemented == Spec => ImplementsSettlement
<1>1. Init => Settled!Init
  <2> SUFFICES ASSUME Init PROVE Settled!Init
      OBVIOUS
  <2>1. \A c \in Call : rep[c].st = "none" /\ truth[c] = "none" /\ blind[c] = "no"
      BY DEF Init, NoReport
  <2>2. \A c \in Call : Phase(c) = "open" /\ Owed(c) = "no"
      BY <2>1 DEF Phase, Owed, Answered, Chargeable
  <2> QED BY <2>2 DEF Init, Settled!Init
<1>2. TypeOK /\ MoneyInv /\ [Next]_vars => [Settled!Next]_(Settled!svars)
    BY SettlementStep
<1> QED BY <1>1, <1>2, MoneyInvHolds, PTL DEF Spec, Settled!Spec, ImplementsSettlement

-----------------------------------------------------------------------------
(* The line of a call: what rings, what is hidden, what the sweeps close. *)

(* Where a call is on the switch and where its requests are on Server B: a *)
(* call that rings has its line and no next-buyer request, and an answered *)
(* call has no request left that could give it another line.               *)
Stage(c) ==
    /\ sw[c].pc = "idle" => route[c].pc = "none"
    /\ sw[c].pc \in {"idle", "asking", "ready"} => rang[c] = {}
    /\ sw[c].pc \in {"idle", "asking", "ready", "ringing", "talking", "moved"} => next[c].pc = "idle"
    /\ sw[c].pc \in {"ready", "ringing", "nextask", "talking", "moved"} => route[c].pc \in {"dial", "lost"}
    /\ truth[c] = "talk" => next[c].pc = "idle" /\ route[c].pc \in {"dial", "lost"}

(* Every step keeps a call's place on the switch and its requests in line. *)
LEMMA StageStep == ASSUME TypeOK, NEW d \in Call, Told(d), Stage(d), [Next]_vars PROVE Stage(d)'
<1>d. Told(d) /\ Stage(d)
    OBVIOUS
<1>t. /\ sw \in [Call -> Channel] /\ route \in [Call -> RouteJob] /\ next \in [Call -> NextJob]
      /\ rang \in [Call -> SUBSET Line]
      /\ truth \in [Call -> {"none", "talk", "zero", "cancel", "late", "miss"}]
    BY DEF TypeOK
<1>1. ASSUME NEW c \in Call, RouteCreate(c) PROVE Stage(d)'
    BY <1>1, <1>d, <1>t DEF RouteCreate, Stage, RouteJob, aVars
<1>2. ASSUME NEW c \in Call, RouteDecide(c) PROVE Stage(d)'
    BY <1>2, <1>d, <1>t DEF RouteDecide, Stage, RouteJob, aVars
<1>3. ASSUME NEW c \in Call, RouteRefuse(c) PROVE Stage(d)'
    BY <1>3, <1>d, <1>t DEF RouteRefuse, Stage, RouteJob, aVars
<1>4. ASSUME NEW c \in Call, NextRead(c) PROVE Stage(d)'
    BY <1>4, <1>d, <1>t DEF NextRead, Stage, NextJob, aVars
<1>5. ASSUME NEW c \in Call, NextRefuse(c) PROVE Stage(d)'
    BY <1>5, <1>d, <1>t DEF NextRefuse, Stage, NextJob, aVars
<1>6. ASSUME NEW c \in Call, NextRecord(c) PROVE Stage(d)'
    BY <1>6, <1>d, <1>t DEF NextRecord, Stage, NextJob, aVars
<1>7. ASSUME NEW c \in Call, NextSave(c) PROVE Stage(d)'
    BY <1>7, <1>d, <1>t DEF NextSave, Stage, NextJob, aVars
<1>8. ASSUME NEW c \in Call, Arrive(c) PROVE Stage(d)'
    BY <1>8, <1>d, <1>t DEF Arrive, Stage, Goes, Channel, RouteJob
<1>9. ASSUME NEW c \in Call, GetLine(c) PROVE Stage(d)'
    BY <1>9, <1>d, <1>t DEF GetLine, Stage, Goes, Channel, jobs
<1>10. ASSUME NEW c \in Call, GetRefusal(c) PROVE Stage(d)'
    BY <1>10, <1>d, <1>t DEF GetRefusal, Stage, Goes, Channel, jobs
<1>11. ASSUME NEW c \in Call, LeaveAsking(c) PROVE Stage(d)'
    BY <1>11, <1>d, <1>t DEF LeaveAsking, Stage, Goes, Channel, jobs
<1>12. ASSUME NEW c \in Call, LeaveReady(c) PROVE Stage(d)'
    BY <1>12, <1>d, <1>t DEF LeaveReady, Stage, Goes, Channel, jobs
<1>13. ASSUME NEW c \in Call, Ring(c) PROVE Stage(d)'
    BY <1>13, <1>d, <1>t DEF Ring, Stage, Goes, Channel, jobs
<1>14. ASSUME NEW c \in Call, Answer(c) PROVE Stage(d)'
    BY <1>14, <1>d, <1>t DEF Answer, Stage, Goes, Channel, jobs
<1>15. ASSUME NEW c \in Call, AnswerZero(c) PROVE Stage(d)'
    BY <1>15, <1>d, <1>t DEF AnswerZero, Stage, Told, Goes, Channel, jobs
<1>16. ASSUME NEW c \in Call, Cancel(c) PROVE Stage(d)'
    BY <1>16, <1>d, <1>t DEF Cancel, Stage, Told, Goes, Channel, jobs
<1>17. ASSUME NEW c \in Call, CancelHeld(c) PROVE Stage(d)'
    BY <1>17, <1>d, <1>t DEF CancelHeld, Stage, Told, Goes, Channel, jobs
<1>18. ASSUME NEW c \in Call, NextEnds(c) PROVE Stage(d)'
    BY <1>18, <1>d, <1>t DEF NextEnds, Stage, Told, Goes, Channel, jobs
<1>19. ASSUME NEW c \in Call, Hangup(c) PROVE Stage(d)'
    BY <1>19, <1>d, <1>t DEF Hangup, Stage, Goes, Channel, jobs
<1>20. ASSUME NEW c \in Call, Transfer(c) PROVE Stage(d)'
    BY <1>20, <1>d, <1>t DEF Transfer, Stage, Goes, Channel, jobs
<1>21. ASSUME NEW c \in Call, HangupMoved(c) PROVE Stage(d)'
    BY <1>21, <1>d, <1>t DEF HangupMoved, Stage, Goes, Channel, jobs
<1>22. ASSUME NEW c \in Call, NextDial(c) PROVE Stage(d)'
    BY <1>22, <1>d, <1>t DEF NextDial, Stage, Channel, IdleNext
<1>23. ASSUME NEW c \in Call, Miss(c) PROVE Stage(d)'
  <2>1. /\ sw[c].pc = "ringing" /\ truth' = [truth EXCEPT ![c] = "miss"] /\ UNCHANGED route
        /\ rang' = [rang EXCEPT ![c] = @ \cup {sw[c].line}]
        /\ sw' = [sw EXCEPT ![c].pc = IF Failover THEN "nextask" ELSE "down"]
        /\ \A e \in Call : e # c => next'[e] = next[e]
      BY <1>23, <1>t DEF Miss, Goes, RingsOut
  <2> QED BY <2>1, <1>d, <1>t DEF Stage, Channel
<1>24. ASSUME Crash PROVE Stage(d)'
  <2>1. /\ UNCHANGED <<sw, truth, rang>>
        /\ route'[d] = IF route[d].pc = "none" THEN IdleRoute ELSE [IdleRoute EXCEPT !.pc = "lost"]
        /\ next'[d] = IF next[d].pc = "idle" THEN IdleNext ELSE [IdleNext EXCEPT !.pc = "lost"]
      BY <1>24 DEF Crash
  <2>2. /\ route[d].pc = "none" => route'[d].pc = "none"
        /\ route[d].pc # "none" => route'[d].pc = "lost"
        /\ next[d].pc = "idle" => next'[d].pc = "idle"
      BY <2>1 DEF IdleRoute, IdleNext
  <2> QED BY <2>1, <2>2, <1>d DEF Stage
<1>25. ASSUME UNCHANGED <<sw, route, next, rang, truth>> PROVE Stage(d)'
    BY <1>25, <1>d DEF Stage
<1>26. ASSUME NEW c \in Call, \/ EndStep(c) \/ HeldStep(c) \/ HeldExpire(c) \/ SyncSeen(c)
                             \/ SyncStep(c) \/ StaleStep(c) \/ ReportTimeout(c)
       PROVE  Stage(d)'
  <2>1. UNCHANGED <<sw, route, next, rang, truth>>
      BY <1>26
         DEF EndStep, HeldStep, SyncStep, StaleStep, EndRead, EndSave, EndCharge, EndAck, HeldRead,
         HeldRemember, HeldMark, HeldCharge, HeldExpire, SyncSeen, SyncMissing, StaleRead, SweepSave, ReportTimeout,
         aVars, jobs
  <2> QED BY <2>1, <1>25
<1>27. ASSUME UNCHANGED vars PROVE Stage(d)'
    BY <1>27, <1>25 DEF vars, aVars, jobs
<1> QED BY <1>1, <1>2, <1>3, <1>4, <1>5, <1>6, <1>7, <1>8, <1>9, <1>10, <1>11, <1>12, <1>13, <1>14, <1>15, <1>16, <1>17, <1>18, <1>19, <1>20, <1>21, <1>22, <1>23, <1>24, <1>25, <1>26, <1>27
       DEF Next, RouteStep, NextStep, SwitchEnds

(* The statements that write the row of a call. *)
LEMMA RowSteps ==
    ASSUME TypeOK, NEW d \in Call, [Next]_vars
    PROVE  \/ row'[d] = row[d]
           \/ RouteStep(d) \/ NextSave(d) \/ HeldMark(d)
           \/ \E s \in Sweeper : SweepSave(d, s)
           \/ \E e \in Call, i \in Attempt : EndSave(e, i) /\ ends[e][i].of = d
<1>t. row \in [Call -> Row] /\ ends \in [Call -> [Attempt -> EndJob]]
    BY DEF TypeOK
<1>1. ASSUME NEW c \in Call, RouteStep(c) PROVE c = d \/ row'[d] = row[d]
    BY <1>1, <1>t DEF RouteStep, RouteCreate, RouteDecide, RouteRefuse, SendTo
<1>2. ASSUME NEW c \in Call, NextStep(c) PROVE (c = d /\ NextSave(c)) \/ row'[d] = row[d]
    BY <1>2, <1>t DEF NextStep, NextRead, NextRefuse, NextRecord, NextSave, SendTo, bVars
<1>3. ASSUME NEW c \in Call, NEW i \in Attempt, EndSave(c, i) PROVE ends[c][i].of = d \/ row'[d] = row[d]
    BY <1>3, <1>t DEF EndSave, EndJob
<1>4. ASSUME NEW c \in Call, HeldStep(c) PROVE (c = d /\ HeldMark(c)) \/ row'[d] = row[d]
    BY <1>4, <1>t DEF HeldStep, HeldRead, HeldRemember, HeldMark, HeldCharge, bVars
<1>5. ASSUME NEW c \in Call, NEW s \in Sweeper, SweepSave(c, s) PROVE c = d \/ row'[d] = row[d]
    BY <1>5, <1>t DEF SweepSave
<1>6. ASSUME NEW c \in Call, \/ HeldExpire(c) \/ SyncSeen(c) \/ SyncMissing(c) \/ StaleRead(c) \/ Arrive(c) \/ Ring(c)
                             \/ Answer(c) \/ Transfer(c) \/ SwitchEnds(c) \/ ReportTimeout(c)
                             \/ \E i \in Attempt : EndRead(c, i) \/ EndCharge(c, i) \/ EndAck(c, i)
      PROVE  UNCHANGED row
    BY <1>6 DEF HeldExpire, SyncSeen, SyncMissing, StaleRead, Arrive, Ring, Answer, Transfer, SwitchEnds, ReportTimeout,
       EndRead, EndCharge, EndAck, GetLine, GetRefusal, LeaveAsking, LeaveReady, AnswerZero, Cancel, CancelHeld, Miss,
       NextDial, NextEnds, Hangup, HangupMoved, bVars
<1>7. Crash \/ UNCHANGED vars => UNCHANGED row
    BY DEF Crash, vars, bVars
<1> QED BY <1>1, <1>2, <1>3, <1>4, <1>5, <1>6, <1>7 DEF Next, EndStep, SyncStep, StaleStep, Sweeper

(* The statements that move the sweeps of a call and its count of misses. *)
LEMMA SweepSteps ==
    ASSUME TypeOK, NEW d \in Call, [Next]_vars
    PROVE  \/ misses'[d] = misses[d] /\ sweep'[d] = sweep[d]
           \/ SyncSeen(d) \/ SyncMissing(d) \/ StaleRead(d) \/ Crash
           \/ \E s \in Sweeper : SweepSave(d, s)
<1>t. /\ misses \in [Call -> 0 .. Strikes]
      /\ sweep \in [Call -> [Sweeper -> {"idle", "close"}]]
    BY DEF TypeOK
<1>1. ASSUME NEW c \in Call, \/ SyncSeen(c) \/ SyncMissing(c) \/ StaleRead(c)
                             \/ \E s \in Sweeper : SweepSave(c, s)
      PROVE  c = d \/ (misses'[d] = misses[d] /\ sweep'[d] = sweep[d])
    BY <1>1, <1>t DEF SyncSeen, SyncMissing, StaleRead, SweepSave, bVars, jobs
<1>2. ASSUME NEW c \in Call, RouteStep(c) \/ NextStep(c) \/ EndStep(c) \/ HeldStep(c) \/ HeldExpire(c)
      PROVE  UNCHANGED <<misses, sweep>>
    BY <1>2 DEF RouteStep, NextStep, EndStep, HeldStep, RouteCreate, RouteDecide, RouteRefuse, NextRead, NextRefuse,
       NextRecord, NextSave, EndRead, EndSave, EndCharge, EndAck, HeldRead, HeldRemember, HeldMark, HeldCharge,
       HeldExpire, bVars, jobs
<1>3. ASSUME NEW c \in Call, Arrive(c) \/ Ring(c) \/ Answer(c) \/ Transfer(c) \/ SwitchEnds(c) \/ ReportTimeout(c)
      PROVE  UNCHANGED <<misses, sweep>>
    BY <1>3 DEF Arrive, Ring, Answer, Transfer, SwitchEnds, ReportTimeout, GetLine, GetRefusal, LeaveAsking, LeaveReady,
       AnswerZero, Cancel, CancelHeld, Miss, NextDial, NextEnds, Hangup, HangupMoved, bVars, jobs
<1>4. UNCHANGED vars => UNCHANGED <<misses, sweep>>
    BY DEF vars, bVars, jobs
<1> QED BY <1>1, <1>2, <1>3, <1>4 DEF Next, SyncStep, StaleStep, Sweeper

(* An attempt that is about to save a row has kept its job or has just read. *)
LEMMA SaveSteps ==
    ASSUME TypeOK, NEW d \in Call, NEW i \in Attempt, [Next]_vars, ends'[d][i].pc = "save"
    PROVE  \/ ends'[d][i] = ends[d][i]
           \/ EndRead(d, i) /\ \E e \in IF rep[d].id THEN {d} ELSE BlindMatches, old \in BOOLEAN :
                                   EndMatched(d, i, e, old)
<1>t. ends \in [Call -> [Attempt -> EndJob]]
    BY DEF TypeOK
<1>1. ASSUME NEW c \in Call, NEW k \in Attempt, EndRead(c, k)
      PROVE  \/ ends'[d][i] = ends[d][i]
             \/ c = d /\ k = i /\ \E e \in IF rep[d].id THEN {d} ELSE BlindMatches, old \in BOOLEAN :
                                     EndMatched(d, i, e, old)
  <2>1. EndUnmatched(c, k) => ends'[d][i] = ends[d][i]
      BY <1>t DEF EndUnmatched, EndJob
  <2>2. ASSUME NEW e \in Call, NEW old \in BOOLEAN, EndMatched(c, k, e, old)
        PROVE  ends'[d][i] = ends[d][i] \/ (c = d /\ k = i)
      BY <2>2, <1>t DEF EndMatched
  <2> QED BY <1>1, <2>1, <2>2 DEF EndRead, BlindMatches
<1>2. ASSUME NEW c \in Call, NEW k \in Attempt, EndSave(c, k) \/ EndCharge(c, k) \/ EndAck(c, k)
      PROVE  ends'[d][i] = ends[d][i]
  <2>1. PICK j : ends' = [ends EXCEPT ![c][k] = j] /\ j.pc # "save"
    <3>1. CASE EndAck(c, k)
      <4>1. ends' = [ends EXCEPT ![c][k] = IdleEnd(c)]
          BY <3>1 DEF EndAck
      <4>2. IdleEnd(c).pc # "save"
          BY DEF IdleEnd
      <4> QED BY <4>1, <4>2
    <3>2. CASE EndSave(c, k)
      <4> DEFINE job == [ends[c][k] EXCEPT !.pc = "charge", !.out = NoRow]
      <4>1. ends' = [ends EXCEPT ![c][k] = job]
          BY <3>2 DEF EndSave
      <4>2. job.pc = "charge"
          BY <1>t DEF EndJob
      <4> HIDE DEF job
      <4> QED BY <4>1, <4>2
    <3>3. CASE EndCharge(c, k)
      <4> DEFINE job == [IdleEnd(c) EXCEPT !.pc = "ack"]
      <4>1. ends' = [ends EXCEPT ![c][k] = job]
          BY <3>3 DEF EndCharge
      <4>2. job.pc = "ack"
          BY DEF IdleEnd
      <4> HIDE DEF job
      <4> QED BY <4>1, <4>2
    <3> QED BY <1>2, <3>1, <3>2, <3>3
  <2> QED BY <2>1, <1>t
<1>3. ASSUME NEW c \in Call, RouteStep(c) \/ NextStep(c) \/ HeldStep(c) \/ HeldExpire(c) \/ SyncSeen(c)
      PROVE  UNCHANGED ends
    BY <1>3 DEF RouteStep, NextStep, HeldStep, RouteCreate, RouteDecide, RouteRefuse, NextRead, NextRefuse,
       NextRecord, NextSave, HeldRead, HeldRemember, HeldMark, HeldCharge, HeldExpire, SyncSeen, jobs
<1>4. ASSUME NEW c \in Call, SyncStep(c) \/ StaleStep(c)
      PROVE  UNCHANGED ends
    BY <1>4 DEF SyncStep, StaleStep, SyncMissing, StaleRead, SweepSave, jobs
<1>5. ASSUME NEW c \in Call, Arrive(c) \/ Ring(c) \/ Answer(c) \/ Transfer(c) \/ SwitchEnds(c) \/ ReportTimeout(c)
      PROVE  UNCHANGED ends
    BY <1>5 DEF Arrive, Ring, Answer, Transfer, SwitchEnds, ReportTimeout, GetLine, GetRefusal, LeaveAsking, LeaveReady,
       AnswerZero, Cancel, CancelHeld, Miss, NextDial, NextEnds, Hangup, HangupMoved, jobs
<1>6. Crash => ends'[d][i].pc = "idle"
    BY DEF Crash, IdleEnd
<1>7. UNCHANGED vars => UNCHANGED ends
    BY DEF vars, jobs
<1> QED BY <1>1, <1>2, <1>3, <1>4, <1>5, <1>6, <1>7 DEF Next, EndStep

(* The row a report is about to save is never live, keeps the destination  *)
(* that was read, and is Completed for an answered call.                   *)
LEMMA MatchedSaves ==
    ASSUME TypeOK, NEW c \in Call, NEW d \in Call, NEW i \in Attempt, NEW old \in BOOLEAN, EndMatched(c, i, d, old)
    PROVE  /\ ends'[c][i].pc = "save" /\ ends'[c][i].of = d
           /\ ends'[c][i].out.dest = row[d].dest
           /\ ends'[c][i].out.status \in {"completed", "no_answer"}
           /\ rep[c].ds = "ANSWER" /\ rep[c].secs => ends'[c][i].out.status = "completed"
           /\ ~rep[c].id => blind'[d] # "no"
<1>t. ends \in [Call -> [Attempt -> EndJob]] /\ blind \in [Call -> {"no", "hit", "assumed"}]
    BY DEF TypeOK
<1> DEFINE assumed == Assumes(row[d], rep[c], old)
           took == held[d] /\ row[d].dest # NoLine /\ rep[c].ds # "ANSWER" /\ ~assumed
           o == Outcome(row[d], rep[c], assumed, took)
           job == [pc |-> "save", of |-> d, out |-> o.out, pays |-> o.pays]
<1>1. ends' = [ends EXCEPT ![c][i] = job]
    BY DEF EndMatched
<1>2. ~rep[c].id => blind'[d] # "no"
    BY <1>t DEF EndMatched
<1>3. /\ o.out.dest = row[d].dest
      /\ o.out.status \in {"completed", "no_answer"}
      /\ rep[c].ds = "ANSWER" /\ rep[c].secs => o.out.status = "completed"
    BY DEF Outcome
<1> HIDE DEF o
<1>4. ends'[c][i] = job
    BY <1>1, <1>t
<1> QED BY <1>2, <1>3, <1>4

(* The relay's report that is about to mark a row has just read it. *)
LEMMA RelaySteps ==
    ASSUME TypeOK, NEW d \in Call, [Next]_vars, relay'[d].pc = "mark"
    PROVE  relay'[d] = relay[d] \/ HeldRead(d)
<1>t. relay \in [Call -> RelayJob]
    BY DEF TypeOK
<1>1. ASSUME NEW c \in Call, HeldStep(c) PROVE c # d => relay'[d] = relay[d]
    BY <1>1, <1>t DEF HeldStep, HeldRead, HeldRemember, HeldMark, HeldCharge
<1>2. ASSUME HeldRemember(d) \/ HeldMark(d) \/ HeldCharge(d) PROVE FALSE
    BY <1>2, <1>t DEF HeldRemember, HeldMark, HeldCharge, IdleRelay, RelayJob
<1>3. ASSUME NEW c \in Call, CancelHeld(c) PROVE relay'[d] = relay[d]
    BY <1>3, <1>t DEF CancelHeld, RelayJob
<1>4. ASSUME NEW c \in Call, RouteStep(c) \/ NextStep(c) \/ EndStep(c) \/ HeldExpire(c) \/ SyncSeen(c)
      PROVE  UNCHANGED relay
    BY <1>4 DEF RouteStep, NextStep, EndStep, RouteCreate, RouteDecide, RouteRefuse, NextRead, NextRefuse,
       NextRecord, NextSave, EndRead, EndSave, EndCharge, EndAck, HeldExpire, SyncSeen, jobs
<1>5. ASSUME NEW c \in Call, SyncStep(c) \/ StaleStep(c)
      PROVE  UNCHANGED relay
    BY <1>5 DEF SyncStep, StaleStep, SyncMissing, StaleRead, SweepSave
<1>6. ASSUME NEW c \in Call, \/ Arrive(c) \/ Ring(c) \/ Answer(c) \/ Transfer(c) \/ ReportTimeout(c)
                             \/ SwitchEnds(c) /\ ~CancelHeld(c)
      PROVE  UNCHANGED relay
    BY <1>6 DEF Arrive, Ring, Answer, Transfer, SwitchEnds, ReportTimeout, GetLine, GetRefusal, LeaveAsking, LeaveReady,
       AnswerZero, Cancel, Miss, NextDial, NextEnds, Hangup, HangupMoved, jobs
<1>7. Crash => relay'[d] = relay[d] \/ relay'[d].pc # "mark"
  <2>1. Crash => \/ relay'[d] = IdleRelay
                 \/ relay'[d] = [IdleRelay EXCEPT !.pc = "done"]
      BY DEF Crash
  <2> QED BY <2>1 DEF IdleRelay
<1>8. UNCHANGED vars => UNCHANGED relay
    BY DEF vars, jobs
<1> QED BY <1>1, <1>2, <1>3, <1>4, <1>5, <1>6, <1>7, <1>8 DEF Next, HeldStep

(* A call arrives once, and one that is over stays so. *)
LEMMA SwitchMoves ==
    ASSUME TypeOK, NEW d \in Call, [Next]_vars
    PROVE  /\ sw'[d].pc = "idle" => sw[d].pc = "idle"
           /\ sw[d].pc = "down" => sw'[d] = sw[d]
<1>t. sw \in [Call -> Channel]
    BY DEF TypeOK
<1>1. ASSUME NEW c \in Call, Arrive(c) \/ Ring(c) \/ Answer(c) \/ Transfer(c) \/ SwitchEnds(c)
      PROVE  d # c => sw'[d] = sw[d]
    BY <1>1, <1>t DEF Arrive, Ring, Answer, Transfer, SwitchEnds, GetLine, GetRefusal, LeaveAsking, LeaveReady,
       AnswerZero, Cancel, CancelHeld, Miss, NextDial, NextEnds, Hangup, HangupMoved, Goes
<1>2. ASSUME Arrive(d) \/ Ring(d) \/ Answer(d) \/ Transfer(d) \/ SwitchEnds(d)
      PROVE  sw'[d].pc # "idle" /\ sw[d].pc # "down"
  <2>1. sw[d].pc # "down"
      BY <1>2 DEF Arrive, Ring, Answer, Transfer, SwitchEnds, GetLine, GetRefusal, LeaveAsking, LeaveReady,
         AnswerZero, Cancel, CancelHeld, Miss, NextDial, NextEnds, Hangup, HangupMoved
  <2>2. \/ \E p \in {"asking", "ringing", "talking", "moved", "down", "nextask"} : Goes(d, p)
        \/ \E l, p : p # "idle" /\ sw' = [sw EXCEPT ![d] = [pc |-> p, line |-> l]]
      BY <1>2 DEF Arrive, Ring, Answer, Transfer, SwitchEnds, GetLine, GetRefusal, LeaveAsking, LeaveReady,
         AnswerZero, Cancel, CancelHeld, Miss, NextDial, NextEnds, Hangup, HangupMoved
  <2> QED BY <2>1, <2>2, <1>t DEF Goes, Channel
<1>3. ASSUME NEW c \in Call, RouteStep(c) \/ NextStep(c) \/ HeldStep(c) \/ HeldExpire(c) \/ SyncSeen(c) \/ ReportTimeout(c)
      PROVE  UNCHANGED sw
    BY <1>3 DEF RouteStep, NextStep, HeldStep, RouteCreate, RouteDecide, RouteRefuse, NextRead, NextRefuse,
       NextRecord, NextSave, HeldRead, HeldRemember, HeldMark, HeldCharge, HeldExpire, SyncSeen, ReportTimeout, aVars
<1>4. ASSUME NEW c \in Call, SyncStep(c) \/ StaleStep(c) \/ EndStep(c)
      PROVE  UNCHANGED sw
    BY <1>4 DEF SyncStep, StaleStep, SyncMissing, StaleRead, SweepSave, EndStep, EndRead, EndSave, EndCharge, EndAck,
       aVars
<1>5. Crash \/ UNCHANGED vars => UNCHANGED sw
    BY DEF Crash, vars, aVars
<1> QED BY <1>1, <1>2, <1>3, <1>4, <1>5 DEF Next

(* Nothing has touched the row of a call that has not arrived; no attempt  *)
(* is about to save a row of such a call, nor a live row.                  *)
Fresh(c) ==
    /\ sw[c].pc = "idle" => /\ row[c].status = "none" /\ row[c].reason = "" /\ misses[c] = 0
                            /\ \A s \in Sweeper : sweep[c][s] = "idle"
    /\ \A i \in Attempt : ends[c][i].pc = "save" => /\ sw[ends[c][i].of].pc # "idle"
                                                   /\ ends[c][i].out.status \notin Live
    /\ relay[c].pc = "mark" => relay[c].out.status = "completed"

(* No step touches the row of a call that has not arrived. *)
LEMMA FreshStep ==
    ASSUME TypeOK, \A c \in Call : Told(c) /\ Stage(c) /\ Fresh(c), NEW d \in Call, [Next]_vars
    PROVE  Fresh(d)'
<1>t. /\ sw \in [Call -> Channel] /\ ends \in [Call -> [Attempt -> EndJob]] /\ relay \in [Call -> RelayJob]
      /\ sweep \in [Call -> [Sweeper -> {"idle", "close"}]]
    BY DEF TypeOK
<1>d. \A c \in Call : Told(c) /\ Stage(c) /\ Fresh(c)
    OBVIOUS
<1>1. ASSUME sw'[d].pc = "idle"
      PROVE  /\ row'[d].status = "none" /\ row'[d].reason = "" /\ misses'[d] = 0
             /\ \A s \in Sweeper : sweep'[d][s] = "idle"
  <2>1. sw[d].pc = "idle"
      BY <1>1, SwitchMoves
  <2>2. /\ row[d].status = "none" /\ row[d].reason = "" /\ misses[d] = 0
        /\ \A s \in Sweeper : sweep[d][s] = "idle"
      BY <2>1, <1>d DEF Fresh
  <2>3. route[d].pc = "none" /\ next[d].pc = "idle" /\ relay[d].pc = "none"
      BY <2>1, <1>d DEF Stage, Told
  <2>4. ~RouteStep(d) /\ ~NextSave(d) /\ ~HeldMark(d) /\ \A s \in Sweeper : ~SweepSave(d, s)
      BY <2>2, <2>3 DEF RouteStep, RouteCreate, RouteDecide, RouteRefuse, NextSave, HeldMark, SweepSave
  <2>5. ~SyncSeen(d) /\ ~SyncMissing(d) /\ ~StaleRead(d)
      BY <2>2 DEF SyncSeen, SyncMissing, StaleRead, Live
  <2>6. ASSUME NEW e \in Call, NEW i \in Attempt, EndSave(e, i), ends[e][i].of = d PROVE FALSE
    <3>1. ends[e][i].pc = "save" => sw[ends[e][i].of].pc # "idle"
        BY <1>d DEF Fresh
    <3> QED BY <2>1, <2>6, <3>1 DEF EndSave
  <2>7. row'[d] = row[d]
      BY <2>4, <2>6, RowSteps
  <2>8. \/ misses'[d] = misses[d] /\ sweep'[d] = sweep[d]
        \/ Crash
      BY <2>4, <2>5, SweepSteps
  <2>9. Crash => misses'[d] = misses[d] /\ \A s \in Sweeper : sweep'[d][s] = "idle"
      BY DEF Crash, bVars
  <2> QED BY <2>2, <2>7, <2>8, <2>9
<1>2. ASSUME NEW i \in Attempt, ends'[d][i].pc = "save"
      PROVE  sw'[ends'[d][i].of].pc # "idle" /\ ends'[d][i].out.status \notin Live
  <2>1. CASE ends'[d][i] = ends[d][i]
    <3>1. sw[ends[d][i].of].pc # "idle" /\ ends[d][i].out.status \notin Live
        BY <2>1, <1>2, <1>d DEF Fresh
    <3>2. ends[d][i].of \in Call
        BY <1>t DEF EndJob
    <3>3. sw'[ends[d][i].of].pc # "idle"
        BY <3>1, <3>2, SwitchMoves
    <3> QED BY <2>1, <3>1, <3>3
  <2>2. ASSUME EndRead(d, i), NEW e \in Call, rep[d].id => e = d, ~rep[d].id => e \in BlindMatches,
               NEW old \in BOOLEAN, EndMatched(d, i, e, old)
        PROVE  sw'[ends'[d][i].of].pc # "idle" /\ ends'[d][i].out.status \notin Live
    <3>1. ends'[d][i].of = e /\ ends'[d][i].out.status \notin Live
        BY <2>2, MatchedSaves DEF Live
    <3>2. UNCHANGED sw
        BY <2>2 DEF EndRead
    <3>3. CASE rep[d].id
      <4>1. rep[d].st = "due"
          BY <2>2 DEF EndRead
      <4> QED BY <2>2, <3>1, <3>2, <3>3, <4>1, <1>d DEF Told
    <3>4. CASE ~rep[d].id
      <4>1. e \in Call /\ Rank(e) > 0
          BY <2>2, <3>4 DEF BlindMatches
      <4>2. row[e].status # "none" \/ row[e].reason # ""
        <5>1. row[e].status = "none" /\ row[e].reason = "" => Rank(e) = 0
            BY DEF Rank, Live
        <5>2. ~(0 > 0)
            OBVIOUS
        <5> QED BY <4>1, <5>1, <5>2, Zenon
      <4>3. sw[e].pc # "idle"
          BY <4>1, <4>2, <1>d DEF Fresh
      <4> QED BY <3>1, <3>2, <4>3
    <3> QED BY <3>3, <3>4
  <2> QED BY <1>2, <2>1, <2>2, SaveSteps DEF BlindMatches
<1>3. ASSUME relay'[d].pc = "mark" PROVE relay'[d].out.status = "completed"
  <2>1. ASSUME HeldRead(d) PROVE relay'[d].out.status = "completed"
    <3> DEFINE out == [row[d] EXCEPT !.status = "completed", !.reason = ""]
    <3>1. out.status = "completed"
        BY DEF TypeOK, Row
    <3> HIDE DEF out
    <3>2. \/ relay' = [relay EXCEPT ![d] = [pc |-> "mark", out |-> out]]
          \/ \E p \in {"remember", "done"} : relay' = [relay EXCEPT ![d] = [IdleRelay EXCEPT !.pc = p]]
        BY <2>1 DEF HeldRead, out
    <3> QED BY <1>3, <3>1, <3>2, <1>t DEF IdleRelay
  <2>2. CASE relay'[d] = relay[d]
      BY <1>3, <2>2, <1>d DEF Fresh
  <2> QED BY <1>3, <2>1, <2>2, RelaySteps
<1> QED BY <1>1, <1>2, <1>3 DEF Fresh

(* Odd lists are only ever counted up, and only by a sync that misses a call. *)
LEMMA OddGrows ==
    ASSUME TypeOK, [Next]_vars
    PROVE  odd \in Nat /\ (odd' = odd \/ odd' = odd + 1)
<1>t. odd \in Nat
    BY BoundsAssumption DEF TypeOK
<1>1. ASSUME NEW c \in Call, SyncMissing(c) PROVE odd' = odd \/ odd' = odd + 1
    BY <1>1 DEF SyncMissing, NotListed
<1>2. ASSUME NEW c \in Call, RouteStep(c) \/ NextStep(c) \/ EndStep(c) \/ HeldStep(c) \/ HeldExpire(c)
      PROVE  UNCHANGED odd
    BY <1>2 DEF RouteStep, NextStep, EndStep, HeldStep, RouteCreate, RouteDecide, RouteRefuse, NextRead, NextRefuse,
       NextRecord, NextSave, EndRead, EndSave, EndCharge, EndAck, HeldRead, HeldRemember, HeldMark, HeldCharge,
       HeldExpire, bounds
<1>3. ASSUME NEW c \in Call, Arrive(c) \/ Ring(c) \/ Answer(c) \/ Transfer(c) \/ SwitchEnds(c) \/ ReportTimeout(c)
      PROVE  UNCHANGED odd
    BY <1>3 DEF Arrive, Ring, Answer, Transfer, SwitchEnds, ReportTimeout, GetLine, GetRefusal, LeaveAsking, LeaveReady,
       AnswerZero, Cancel, CancelHeld, Miss, NextDial, NextEnds, Hangup, HangupMoved, bounds
<1>4. ASSUME NEW c \in Call, SyncSeen(c) \/ StaleStep(c) \/ SweepSave(c, "sync") PROVE UNCHANGED odd
    BY <1>4 DEF SyncSeen, StaleStep, StaleRead, SweepSave, bounds
<1>5. Crash \/ UNCHANGED vars => UNCHANGED odd
    BY DEF Crash, vars, bounds
<1> QED BY <1>t, <1>1, <1>2, <1>3, <1>4, <1>5 DEF Next, SyncStep

(* While a call is up, every list that missed it was an odd one. *)
Spared(c) == sw[c].pc \in Up => /\ misses[c] <= odd
                                /\ MaxOdd < Strikes => sweep[c]["sync"] = "idle"

(* No list that misses a call which is up brings its row to the last strike. *)
LEMMA SparedStep ==
    ASSUME TypeOK, NEW d \in Call, Fresh(d), Spared(d), [Next]_vars
    PROVE  Spared(d)'
<1> SUFFICES ASSUME sw'[d].pc \in Up
             PROVE  misses'[d] <= odd' /\ (MaxOdd < Strikes => sweep'[d]["sync"] = "idle")
    BY DEF Spared
<1>t. /\ misses \in [Call -> 0 .. Strikes] /\ misses[d] \in Nat /\ Strikes \in Nat /\ MaxOdd \in Nat
      /\ sweep \in [Call -> [Sweeper -> {"idle", "close"}]] /\ sweep[d] \in [Sweeper -> {"idle", "close"}]
      /\ sw[d].pc \in Up \cup {"idle", "down"} /\ odd <= MaxOdd /\ odd \in Nat /\ "sync" \in Sweeper
    BY BoundsAssumption DEF TypeOK, Channel, Sweeper
<1>1. sw[d].pc \in Up \cup {"idle"}
    BY <1>t, SwitchMoves DEF Up
<1>2. misses[d] <= odd /\ (MaxOdd < Strikes => sweep[d]["sync"] = "idle")
  <2>1. CASE sw[d].pc = "idle"
    <3>1. misses[d] = 0 /\ sweep[d]["sync"] = "idle"
        BY <2>1, <1>t DEF Fresh
    <3> QED BY <3>1, <1>t
  <2>2. CASE sw[d].pc \in Up
      BY <2>2 DEF Spared
  <2> QED BY <1>1, <2>1, <2>2
<1>3. odd' \in Nat /\ odd <= odd'
    BY OddGrows
<1>4. CASE misses'[d] = misses[d] /\ sweep'[d]["sync"] = sweep[d]["sync"]
    BY <1>2, <1>3, <1>4, <1>t
<1>5. CASE SyncSeen(d)
    BY <1>2, <1>3, <1>5, <1>t DEF SyncSeen, jobs
<1>6. CASE SyncMissing(d)
  <2>1. sw[d].pc \in Up
      BY <1>1, <1>6 DEF SyncMissing, Fresh, Live
  <2>2. odd' = odd + 1 /\ odd < MaxOdd
      BY <1>6, <2>1 DEF SyncMissing, NotListed, ChannelUp
  <2>3. CASE misses[d] + 1 < Strikes
      BY <1>2, <1>6, <1>t, <2>2, <2>3 DEF SyncMissing
  <2>4. CASE ~(misses[d] + 1 < Strikes)
    <3>1. misses' = misses
        BY <1>6, <2>4 DEF SyncMissing
    <3>2. ~(MaxOdd < Strikes)
        BY <1>2, <1>t, <2>2, <2>4
    <3> QED BY <3>1, <3>2, <1>2, <1>t, <2>2
  <2> QED BY <2>3, <2>4
<1>7. CASE StaleRead(d)
  <2>1. misses' = misses /\ sweep' = [sweep EXCEPT ![d]["stale"] = "close"]
      BY <1>7 DEF StaleRead, bVars
  <2> QED BY <2>1, <1>t, <1>4
<1>8. CASE SweepSave(d, "sync")
    BY <1>8, <1>3, <1>t DEF SweepSave
<1>9. CASE SweepSave(d, "stale")
  <2>1. misses' = misses /\ sweep' = [sweep EXCEPT ![d]["stale"] = "idle"]
      BY <1>9 DEF SweepSave
  <2> QED BY <2>1, <1>t, <1>4
<1>10. CASE Crash
    BY <1>10, <1>2, <1>3, <1>t DEF Crash, bVars
<1> QED BY <1>4, <1>5, <1>6, <1>7, <1>8, <1>9, <1>10, SweepSteps DEF Sweeper

(* A live row names the line that the switch dials or is about to dial,    *)
(* and every line that rang in vain is hidden in a "#try" row, or is the   *)
(* one the next-buyer request has just read from the row.                  *)
OnRow(c, l) == row[c].status \in Live => row[c].dest = l
NextOf(c) ==
    /\ next[c].pc = "sent" => rang[c] \subseteq tries[c] \cup {sw[c].line} /\ OnRow(c, sw[c].line)
    /\ next[c].pc = "decide" => rang[c] \subseteq next[c].tried /\ rang[c] \subseteq tries[c] \cup {next[c].dest}
    /\ next[c].pc = "save" => rang[c] \subseteq next[c].tried /\ rang[c] \subseteq tries[c]
    /\ next[c].pc = "dial" => /\ next[c].dest \notin rang[c] /\ rang[c] \subseteq tries[c]
                              /\ OnRow(c, next[c].dest)
Rings(c) ==
    /\ sw[c].pc = "asking" /\ route[c].pc = "dial" => OnRow(c, route[c].line)
    /\ sw[c].pc \in {"ready", "ringing"} => OnRow(c, sw[c].line)
    /\ sw[c].pc = "ringing" => rang[c] \subseteq tries[c]
    /\ sw[c].pc = "nextask" => NextOf(c)

(* Every step keeps the lines that rang among those a next dial leaves out. *)
LEMMA RingsStep ==
    ASSUME TypeOK, \A c \in Call : Told(c) /\ Stage(c) /\ Fresh(c) /\ Rings(c), NEW d \in Call, [Next]_vars
    PROVE  Rings(d)'
<1>t. /\ row \in [Call -> Row] /\ tries \in [Call -> SUBSET Line] /\ sw \in [Call -> Channel]
      /\ route \in [Call -> RouteJob] /\ next \in [Call -> NextJob] /\ rang \in [Call -> SUBSET Line]
    BY DEF TypeOK
<1>d. Told(d) /\ Stage(d) /\ Rings(d)
    OBVIOUS
<1>1. ASSUME UNCHANGED <<tries[d], sw[d], route[d], next[d], rang[d]>>,
             row'[d] = row[d] \/ row'[d].status \notin Live
      PROVE  Rings(d)'
    BY <1>1, <1>d DEF Rings, NextOf, OnRow
<1>2. ASSUME NEW c \in Call, RouteCreate(c) PROVE Rings(d)'
  <2>1. UNCHANGED <<tries, sw, next, rang>> /\ route[c].pc = "sent" /\ route' = [route EXCEPT ![c].pc = "decide"]
        /\ row' = [row EXCEPT ![c].status = "ringing"]
      BY <1>2 DEF RouteCreate, aVars
  <2>2. CASE c = d
    <3>1. sw[d].pc \notin {"idle", "ready", "ringing", "nextask"}
        BY <2>1, <2>2, <1>d DEF Stage
    <3>2. route'[d].pc = "decide"
        BY <2>1, <2>2, <1>t DEF RouteJob
    <3> QED BY <2>1, <3>1, <3>2 DEF Rings
  <2>3. CASE c # d
      BY <2>1, <2>3, <1>1, <1>t
  <2> QED BY <2>2, <2>3
<1>3. ASSUME NEW c \in Call, RouteDecide(c) PROVE Rings(d)'
  <2>1. PICK l \in Line : /\ row' = [row EXCEPT ![c].status = "in_progress", ![c].dest = l]
                          /\ route' = [route EXCEPT ![c] = [pc |-> "dial", line |-> l]]
                          /\ UNCHANGED <<tries, sw, next, rang>> /\ route[c].pc = "decide"
      BY <1>3 DEF RouteDecide, SendTo, aVars
  <2>2. CASE c = d
      BY <2>1, <2>2, <1>d, <1>t DEF Rings, OnRow, Stage, Row
  <2>3. CASE c # d
      BY <2>1, <2>3, <1>1, <1>t
  <2> QED BY <2>2, <2>3
<1>4. ASSUME NEW c \in Call, RouteRefuse(c) PROVE Rings(d)'
  <2>1. PICK s \in {"failed", "no_answer"} :
            row' = [row EXCEPT ![c].status = s, ![c].reason = "refused", ![c].ended = TRUE]
      BY <1>4 DEF RouteRefuse
  <2>2. UNCHANGED <<tries, sw, next, rang>> /\ route[c].pc = "decide" /\ route' = [route EXCEPT ![c].pc = "hangup"]
      BY <1>4 DEF RouteRefuse, aVars
  <2>3. CASE c = d
    <3>1. row'[d].status \notin Live
        BY <2>1, <2>3, <1>t DEF Row, Live
    <3> QED BY <2>2, <2>3, <3>1, <1>d, <1>t DEF Rings, OnRow, Stage, RouteJob
  <2>4. CASE c # d
      BY <2>1, <2>2, <2>4, <1>1, <1>t
  <2> QED BY <2>3, <2>4
<1>5. ASSUME NEW c \in Call, NextRead(c) PROVE Rings(d)'
  <2>1. UNCHANGED <<row, tries, sw, route, rang>> /\ next[c].pc = "sent"
      BY <1>5 DEF NextRead, bVars, aVars
  <2> DEFINE tried == (tries[c] \cup {row[c].dest}) \ {NoLine}
  <2>2. \/ next' = [next EXCEPT ![c].pc = "hangup"]
        \/ /\ row[c].status \in Live /\ row[c].dest # NoLine
           /\ next' = [next EXCEPT ![c] = [pc |-> "decide", tried |-> tried, dest |-> row[c].dest]]
      BY <1>5 DEF NextRead
  <2>3. CASE c = d
    <3>1. sw[d].pc \notin {"idle", "asking", "ready", "ringing"}
        BY <2>1, <2>3, <1>d DEF Stage
    <3>2. CASE next' = [next EXCEPT ![c].pc = "hangup"]
        BY <2>1, <2>3, <3>1, <3>2, <1>t DEF Rings, NextOf, NextJob
    <3>3. CASE /\ row[c].status \in Live /\ row[c].dest # NoLine
               /\ next' = [next EXCEPT ![c] = [pc |-> "decide", tried |-> tried, dest |-> row[c].dest]]
      <4>1. next'[d].pc = "decide" /\ next'[d].tried = tried /\ next'[d].dest = row[d].dest
          BY <2>3, <3>3, <1>t
      <4>2. ASSUME sw[d].pc = "nextask" PROVE NextOf(d)'
        <5>1. rang[d] \subseteq tries[d] \cup {row[d].dest}
            BY <2>1, <2>3, <3>3, <4>2, <1>d DEF Rings, NextOf, OnRow
        <5>2. NoLine \notin rang[d]
            BY LineAssumption, <1>t
        <5> QED BY <2>1, <2>3, <4>1, <5>1, <5>2 DEF NextOf
      <4> QED BY <2>1, <3>1, <4>2 DEF Rings
    <3> QED BY <2>2, <3>2, <3>3
  <2>4. CASE c # d
      BY <2>1, <2>2, <2>4, <1>1, <1>t
  <2> QED BY <2>3, <2>4
<1>6. ASSUME NEW c \in Call, NextRefuse(c) PROVE Rings(d)'
  <2>1. UNCHANGED <<row, tries, sw, route, rang>> /\ next[c].pc = "decide" /\ next' = [next EXCEPT ![c].pc = "hangup"]
      BY <1>6 DEF NextRefuse, bVars, aVars
  <2>2. CASE c = d
      BY <2>1, <2>2, <1>d, <1>t DEF Rings, NextOf, OnRow, Stage, NextJob
  <2>3. CASE c # d
      BY <2>1, <2>3, <1>1, <1>t
  <2> QED BY <2>2, <2>3
<1>7. ASSUME NEW c \in Call, NextRecord(c) PROVE Rings(d)'
  <2>1. /\ UNCHANGED <<row, sw, route, rang>> /\ next[c].pc = "decide" /\ next' = [next EXCEPT ![c].pc = "save"]
        /\ tries' = [tries EXCEPT ![c] = @ \cup {next[c].dest}]
      BY <1>7 DEF NextRecord, aVars
  <2>2. CASE c = d
      BY <2>1, <2>2, <1>d, <1>t DEF Rings, NextOf, OnRow, Stage, NextJob
  <2>3. CASE c # d
      BY <2>1, <2>3, <1>1, <1>t
  <2> QED BY <2>2, <2>3
<1>8. ASSUME NEW c \in Call, NextSave(c) PROVE Rings(d)'
  <2>1. PICK l \in Line \ next[c].tried :
            /\ row' = [row EXCEPT ![c].status = "in_progress", ![c].dest = l]
            /\ next' = [next EXCEPT ![c].pc = "dial", ![c].dest = l]
            /\ UNCHANGED <<tries, sw, route, rang>> /\ next[c].pc = "save"
      BY <1>8 DEF NextSave, SendTo, aVars
  <2>2. CASE c = d
    <3>1. next'[d].pc = "dial" /\ next'[d].dest = l /\ row'[d].dest = l
        BY <2>1, <2>2, <1>t DEF NextJob, Row
    <3>2. sw[d].pc \notin {"idle", "asking", "ready", "ringing"}
        BY <2>1, <2>2, <1>d DEF Stage
    <3> QED BY <2>1, <2>2, <3>1, <3>2, <1>d DEF Rings, NextOf, OnRow
  <2>3. CASE c # d
      BY <2>1, <2>3, <1>1, <1>t
  <2> QED BY <2>2, <2>3
<1>9. ASSUME NEW c \in Call, Arrive(c) PROVE Rings(d)'
    BY <1>9, <1>d, <1>1, <1>t DEF Arrive, Goes, Rings, Channel, RouteJob, bVars, jobs
<1>10. ASSUME NEW c \in Call, GetLine(c) PROVE Rings(d)'
    BY <1>10, <1>d, <1>1, <1>t DEF GetLine, Rings, OnRow, bVars, jobs
<1>11. ASSUME NEW c \in Call, Ring(c) PROVE Rings(d)'
    BY <1>11, <1>d, <1>1, <1>t DEF Ring, Goes, Rings, OnRow, Stage, Channel, bVars, jobs
<1>12. ASSUME NEW c \in Call, Miss(c) PROVE Rings(d)'
  <2>1. /\ UNCHANGED <<row, tries, route>> /\ sw[c].pc = "ringing"
        /\ rang' = [rang EXCEPT ![c] = @ \cup {sw[c].line}]
        /\ sw' = [sw EXCEPT ![c].pc = IF Failover THEN "nextask" ELSE "down"]
        /\ Failover => next' = [next EXCEPT ![c] = [IdleNext EXCEPT !.pc = "sent"]]
        /\ ~Failover => next' = next
      BY <1>12 DEF Miss, Goes, RingsOut, bVars
  <2>2. CASE c = d
    <3>1. /\ sw'[d].line = sw[d].line /\ rang'[d] = rang[d] \cup {sw[d].line}
          /\ sw'[d].pc = IF Failover THEN "nextask" ELSE "down"
        BY <2>1, <2>2, <1>t DEF Channel
    <3>2. CASE Failover
      <4>1. next'[d].pc = "sent"
          BY <2>1, <2>2, <3>2, <1>t DEF IdleNext
      <4> QED BY <2>1, <2>2, <3>1, <3>2, <4>1, <1>d DEF Rings, NextOf, OnRow
    <3>3. CASE ~Failover
        BY <3>1, <3>3 DEF Rings
    <3> QED BY <3>2, <3>3
  <2>3. CASE c # d
    <3>1. next'[d] = next[d] /\ sw'[d] = sw[d] /\ rang'[d] = rang[d]
        BY <2>1, <2>3, <1>t
    <3> QED BY <2>1, <3>1, <1>1
  <2> QED BY <2>2, <2>3
<1>13. ASSUME NEW c \in Call, NextDial(c) PROVE Rings(d)'
  <2>1. /\ UNCHANGED <<row, tries, route, rang>> /\ sw[c].pc = "nextask" /\ next[c].pc = "dial"
        /\ sw' = [sw EXCEPT ![c] = [pc |-> "ringing", line |-> next[c].dest]]
        /\ next' = [next EXCEPT ![c] = IdleNext]
      BY <1>13 DEF NextDial, bVars
  <2>2. CASE c = d
    <3>1. sw'[d].pc = "ringing" /\ sw'[d].line = next[d].dest
        BY <2>1, <2>2, <1>t
    <3> QED BY <2>1, <2>2, <3>1, <1>d DEF Rings, NextOf, OnRow
  <2>3. CASE c # d
      BY <2>1, <2>3, <1>1, <1>t
  <2> QED BY <2>2, <2>3
<1>14. ASSUME NEW c \in Call, \/ GetRefusal(c) \/ LeaveAsking(c) \/ LeaveReady(c) \/ Answer(c) \/ AnswerZero(c)
                             \/ Cancel(c) \/ CancelHeld(c) \/ NextEnds(c) \/ Hangup(c) \/ Transfer(c)
                             \/ HangupMoved(c)
      PROVE  Rings(d)'
  <2>1. UNCHANGED <<row, tries, route, next, rang>> /\ \E p \in {"down", "talking", "moved"} : Goes(c, p)
      BY <1>14 DEF GetRefusal, LeaveAsking, LeaveReady, Answer, AnswerZero, Cancel, CancelHeld, NextEnds, Hangup,
         Transfer, HangupMoved, bVars, jobs
  <2> QED BY <2>1, <1>1, <1>d, <1>t DEF Goes, Rings, Channel
<1>15. ASSUME Crash PROVE Rings(d)'
  <2>1. /\ UNCHANGED <<row, tries, sw, rang>>
        /\ route'[d] = IF route[d].pc = "none" THEN IdleRoute ELSE [IdleRoute EXCEPT !.pc = "lost"]
        /\ next'[d] = IF next[d].pc = "idle" THEN IdleNext ELSE [IdleNext EXCEPT !.pc = "lost"]
      BY <1>15 DEF Crash, bVars
  <2>2. route'[d].pc # "dial" /\ next'[d].pc \in {"idle", "lost"}
      BY <2>1 DEF IdleRoute, IdleNext
  <2> QED BY <2>1, <2>2, <1>d DEF Rings, NextOf, OnRow
<1>16. ASSUME UNCHANGED <<tries, sw, route, next, rang>>, ~RouteStep(d), ~NextSave(d) PROVE Rings(d)'
  <2>1. CASE row'[d] = row[d]
      BY <1>16, <2>1, <1>1
  <2>2. ASSUME HeldMark(d) PROVE Rings(d)'
    <3>1. sw[d].pc = "down"
        BY <2>2, <1>d DEF HeldMark, Told
    <3> QED BY <1>16, <3>1 DEF Rings
  <2>3. ASSUME NEW s \in Sweeper, SweepSave(d, s) PROVE Rings(d)'
    <3>1. row'[d].status = "no_answer"
        BY <2>3, <1>t DEF SweepSave, Row
    <3> QED BY <1>16, <3>1, <1>1 DEF Live
  <2>4. ASSUME NEW e \in Call, NEW i \in Attempt, EndSave(e, i), ends[e][i].of = d PROVE Rings(d)'
    <3>1. ends[e][i].out.status \notin Live
        BY <2>4 DEF EndSave, Fresh
    <3>2. row' = [row EXCEPT ![d] = ends[e][i].out]
        BY <2>4 DEF EndSave
    <3>3. row'[d].status \notin Live
        BY <3>1, <3>2, <1>t
    <3> QED BY <1>16, <3>3, <1>1
  <2> QED BY <1>16, <2>1, <2>2, <2>3, <2>4, RowSteps
<1>17. ASSUME NEW c \in Call, EndStep(c) \/ HeldStep(c) \/ HeldExpire(c) \/ SyncSeen(c) \/ ReportTimeout(c)
      PROVE  UNCHANGED <<tries, sw, route, next, rang>>
    BY <1>17 DEF EndStep, HeldStep, EndRead, EndSave, EndCharge, EndAck, HeldRead, HeldRemember, HeldMark, HeldCharge,
       HeldExpire, SyncSeen, ReportTimeout, bVars, aVars, jobs
<1>18. ASSUME NEW c \in Call, SyncStep(c) \/ StaleStep(c)
      PROVE  UNCHANGED <<tries, sw, route, next, rang>>
    BY <1>18 DEF SyncStep, StaleStep, SyncMissing, StaleRead, SweepSave, bVars, aVars
<1>19. UNCHANGED vars => UNCHANGED <<tries, sw, route, next, rang>>
    BY DEF vars, bVars, aVars, jobs
<1> QED BY <1>2, <1>3, <1>4, <1>5, <1>6, <1>7, <1>8, <1>9, <1>10, <1>11, <1>12, <1>13, <1>14, <1>15, <1>16, <1>17, <1>18, <1>19
       DEF Next, RouteStep, NextStep, SwitchEnds

(* Only the dialplan's Dial, of the first line or of a next one, rings. *)
LEMMA Ringing ==
    ASSUME TypeOK, NEW d \in Call, [Next]_vars, sw'[d].pc = "ringing", sw[d].pc # "ringing"
    PROVE  Ring(d) \/ NextDial(d)
<1>t. sw \in [Call -> Channel]
    BY DEF TypeOK
<1>1. ASSUME NEW c \in Call, Ring(c) \/ NextDial(c) PROVE c = d
    BY <1>1, <1>t DEF Ring, NextDial, Goes
<1>2. ASSUME NEW c \in Call, GetLine(c) PROVE FALSE
    BY <1>2, <1>t DEF GetLine
<1>3. ASSUME NEW c \in Call, \/ Arrive(c) \/ GetRefusal(c) \/ LeaveAsking(c) \/ LeaveReady(c) \/ Answer(c)
                             \/ AnswerZero(c) \/ Cancel(c) \/ CancelHeld(c) \/ Miss(c) \/ NextEnds(c) \/ Hangup(c)
                             \/ Transfer(c) \/ HangupMoved(c)
      PROVE  FALSE
  <2>1. PICK p \in {"asking", "talking", "moved", "down", "nextask"} : Goes(c, p)
      BY <1>3 DEF Arrive, GetRefusal, LeaveAsking, LeaveReady, Answer, AnswerZero, Cancel, CancelHeld, Miss, NextEnds,
         Hangup, Transfer, HangupMoved
  <2> QED BY <2>1, <1>t DEF Goes, Channel
<1>4. ASSUME NEW c \in Call, RouteStep(c) \/ NextStep(c) \/ HeldStep(c) \/ HeldExpire(c) \/ SyncSeen(c) \/ ReportTimeout(c)
      PROVE  UNCHANGED sw
    BY <1>4 DEF RouteStep, NextStep, HeldStep, RouteCreate, RouteDecide, RouteRefuse, NextRead, NextRefuse,
       NextRecord, NextSave, HeldRead, HeldRemember, HeldMark, HeldCharge, HeldExpire, SyncSeen, ReportTimeout, aVars
<1>5. ASSUME NEW c \in Call, SyncStep(c) \/ StaleStep(c) \/ EndStep(c)
      PROVE  UNCHANGED sw
    BY <1>5 DEF SyncStep, StaleStep, SyncMissing, StaleRead, SweepSave, EndStep, EndRead, EndSave, EndCharge, EndAck,
       aVars
<1>6. Crash \/ UNCHANGED vars => UNCHANGED sw
    BY DEF Crash, vars, aVars
<1> QED BY <1>1, <1>2, <1>3, <1>4, <1>5, <1>6 DEF Next, SwitchEnds

(* The inductive invariant of a call's row and its line. *)
LineInv == \A c \in Call : Told(c) /\ Stage(c) /\ Fresh(c) /\ Spared(c) /\ Rings(c)

(* It holds in every reachable state. *)
LEMMA LineInvHolds == Spec => [](TypeOK /\ LineInv)
<1>1. Init => LineInv
  <2> SUFFICES ASSUME Init, NEW c \in Call PROVE Told(c) /\ Stage(c) /\ Fresh(c) /\ Spared(c) /\ Rings(c)
      BY DEF LineInv
  <2>1. /\ sw[c].pc = "idle" /\ rep[c].st = "none" /\ rep[c].ds = "" /\ route[c].pc = "none" /\ next[c].pc = "idle"
        /\ row[c].status = "none" /\ row[c].reason = "" /\ misses[c] = 0 /\ ~held[c] /\ relay[c].pc = "none"
        /\ truth[c] = "none" /\ rang[c] = {}
        /\ \A i \in Attempt : ends[c][i].pc = "idle"
        /\ \A s \in Sweeper : sweep[c][s] = "idle"
      BY DEF Init, NoReport, IdleRoute, IdleNext, IdleEnd, IdleRelay, NoRow
  <2>2. Told(c)
      BY <2>1 DEF Told, Answered
  <2>3. Stage(c) /\ Rings(c)
      BY <2>1 DEF Stage, Rings
  <2>4. Fresh(c)
      BY <2>1 DEF Fresh
  <2>5. Spared(c)
      BY <2>1 DEF Spared, Up
  <2> QED BY <2>2, <2>3, <2>4, <2>5
<1>2. TypeOK /\ LineInv /\ [Next]_vars => LineInv'
    BY ToldStep, StageStep, FreshStep, SparedStep, RingsStep DEF LineInv
<1> QED BY <1>1, <1>2, TypesHold, PTL DEF Spec

(* active_channels: fewer odd channel lists than strikes never make the    *)
(* sync close a row whose call is up.                                      *)
THEOREM OddListsSpare == Spec => []OddListSpares
<1>1. TypeOK /\ LineInv => OddListSpares
  <2> SUFFICES ASSUME TypeOK, LineInv, MaxOdd < Strikes, NEW c \in Call, sweep[c]["sync"] = "close", sw[c].pc \in Up
               PROVE  FALSE
      BY DEF OddListSpares
  <2> QED BY DEF LineInv, Spared
<1> QED BY <1>1, LineInvHolds, PTL

(* failover.tried_numbers: no call ever rings a line that missed it.       *)
THEOREM NoLineRungTwice == Spec => NoLineTwice
<1>1. TypeOK /\ LineInv /\ [Next]_vars
         => [\A c \in Call : sw'[c].pc = "ringing" /\ sw[c].pc # "ringing" => sw'[c].line \notin rang[c]]_vars
  <2> SUFFICES ASSUME TypeOK, LineInv, [Next]_vars, NEW d \in Call, sw'[d].pc = "ringing", sw[d].pc # "ringing"
               PROVE  sw'[d].line \notin rang[d]
      OBVIOUS
  <2>t. sw \in [Call -> Channel]
      BY DEF TypeOK
  <2>d. Stage(d) /\ Rings(d)
      BY DEF LineInv
  <2>1. Ring(d) \/ NextDial(d)
      BY <2>t, Ringing
  <2>2. CASE Ring(d)
    <3>1. rang[d] = {}
        BY <2>2, <2>d DEF Ring, Stage
    <3> QED BY <3>1
  <2>3. CASE NextDial(d)
    <3>1. sw[d].pc = "nextask" /\ next[d].pc = "dial" /\ sw'[d].line = next[d].dest
        BY <2>3, <2>t DEF NextDial
    <3> QED BY <3>1, <2>d DEF Rings, NextOf
  <2> QED BY <2>1, <2>2, <2>3
<1> QED BY <1>1, LineInvHolds, PTL DEF Spec, NoLineTwice

-----------------------------------------------------------------------------
(* What the row of an answered call shows. *)

(* Once a call has been reported, its switch side is settled. *)
LEMMA OverStays ==
    ASSUME TypeOK, \A c \in Call : Told(c), NEW d \in Call, [Next]_vars, rep[d].st # "none"
    PROVE  /\ sw'[d] = sw[d] /\ truth'[d] = truth[d]
           /\ rep'[d].st # "none" /\ rep'[d].id = rep[d].id
           /\ rep'[d].st = "acked" => rep[d].st = "acked" \/ \E i \in Attempt : EndAck(d, i)
<1>t. /\ rep \in [Call -> Report]
      /\ truth \in [Call -> {"none", "talk", "zero", "cancel", "late", "miss"}]
    BY DEF TypeOK
<1>1. sw[d].pc = "down" /\ sw'[d] = sw[d]
    BY SwitchMoves DEF Told
<1>2. truth'[d] = truth[d]
  <2>1. ASSUME NEW c \in Call, CallEnds(c) PROVE truth'[d] = truth[d]
      BY <2>1, CallEnding
  <2>2. ASSUME NEW c \in Call, Answer(c) \/ Miss(c) PROVE truth'[d] = truth[d]
    <3>1. c # d
        BY <2>2, <1>1 DEF Answer, Miss
    <3> QED BY <2>2, <3>1, <1>t DEF Answer, Miss
  <2>3. ASSUME NEW c \in Call, \/ HeldCharge(c) \/ ReportTimeout(c)
                               \/ \E i \in Attempt : EndRead(c, i) \/ EndSave(c, i) \/ EndCharge(c, i) \/ EndAck(c, i)
        PROVE  UNCHANGED truth
      BY <2>3 DEF HeldCharge, ReportTimeout, EndRead, EndSave, EndCharge, EndAck, aVars
  <2>4. Crash => UNCHANGED truth
      BY DEF Crash
  <2> QED BY <2>1, <2>2, <2>3, <2>4, MoneySteps DEF moneyVars
<1>3. /\ rep'[d].st # "none" /\ rep'[d].id = rep[d].id
      /\ rep'[d].st = "acked" => rep[d].st = "acked" \/ \E i \in Attempt : EndAck(d, i)
  <2>1. ASSUME NEW c \in Call, CallEnds(c) PROVE rep'[d] = rep[d]
      BY <2>1, CallEnding
  <2>2. ASSUME NEW c \in Call, ReportTimeout(c) PROVE rep'[d] = rep[d] \/ rep'[d] = [rep[d] EXCEPT !.st = "due"]
      BY <2>2, <1>t DEF ReportTimeout
  <2>3. ASSUME NEW c \in Call, NEW i \in Attempt, EndRead(c, i)
        PROVE  rep'[d] = rep[d] \/ rep'[d] = [rep[d] EXCEPT !.st = "posted", !.try = i]
      BY <2>3, <1>t DEF EndRead
  <2>4. ASSUME NEW c \in Call, NEW i \in Attempt, EndAck(c, i)
        PROVE  rep'[d] = rep[d] \/ (c = d /\ rep'[d] = [rep[d] EXCEPT !.st = "acked"])
      BY <2>4, <1>t DEF EndAck, Report
  <2>5. ASSUME NEW c \in Call, \/ HeldCharge(c) \/ Answer(c)
                               \/ Miss(c) /\ Failover
                               \/ \E i \in Attempt : EndSave(c, i) \/ EndCharge(c, i)
        PROVE  UNCHANGED rep
      BY <2>5 DEF HeldCharge, Answer, Miss, EndSave, EndCharge, aVars
  <2>6. Crash => rep'[d] = [rep[d] EXCEPT !.st = IF @ = "posted" THEN "due" ELSE @]
      BY DEF Crash
  <2> QED BY <2>1, <2>2, <2>3, <2>4, <2>5, <2>6, <1>t, MoneySteps DEF moneyVars, Report
<1> QED BY <1>1, <1>2, <1>3

(* A mark of a report without an id is never wiped from a call. *)
LEMMA BlindStays ==
    ASSUME TypeOK, NEW d \in Call, [Next]_vars, blind'[d] = "no"
    PROVE  blind[d] = "no"
<1>t. blind \in [Call -> {"no", "hit", "assumed"}]
    BY DEF TypeOK
<1>1. ASSUME NEW c \in Call, NEW i \in Attempt, EndRead(c, i) PROVE blind[d] = "no"
  <2>1. EndUnmatched(c, i) => UNCHANGED blind
      BY DEF EndUnmatched
  <2>2. ASSUME NEW e \in Call, NEW old \in BOOLEAN, EndMatched(c, i, e, old) PROVE blind[d] = "no"
      BY <2>2, <1>t DEF EndMatched
  <2> QED BY <1>1, <2>1, <2>2 DEF EndRead, BlindMatches
<1>2. ASSUME NEW c \in Call, \/ HeldCharge(c) \/ ReportTimeout(c) \/ CallEnds(c) \/ Answer(c) \/ Miss(c)
                             \/ \E i \in Attempt : EndSave(c, i) \/ EndCharge(c, i) \/ EndAck(c, i)
      PROVE  UNCHANGED blind
    BY <1>2 DEF HeldCharge, ReportTimeout, EndSave, EndCharge, EndAck, Answer, Miss, CallEnds, GetRefusal, LeaveAsking,
       LeaveReady, AnswerZero, Cancel, CancelHeld, NextEnds, Hangup, HangupMoved
<1>3. Crash => UNCHANGED blind
    BY DEF Crash
<1> QED BY <1>1, <1>2, <1>3, MoneySteps DEF moneyVars

(* The row of call c, while no report without an id has been matched to    *)
(* it: only its own reports save it, it names the line that is dialled or  *)
(* that answered, and from the first save of an answered call's report on  *)
(* it shows the answer.                                                    *)
Own(c) == \A e \in Call, i \in Attempt : e # c /\ ends[e][i].pc = "save" => ends[e][i].of # c
Placed(c) ==
    /\ sw[c].pc = "asking" /\ route[c].pc = "dial" => row[c].dest = route[c].line
    /\ sw[c].pc \in {"ready", "ringing"} \/ truth[c] = "talk" => row[c].dest = sw[c].line
    /\ sw[c].pc = "nextask" /\ next[c].pc = "dial" => row[c].dest = next[c].dest
AttemptShows(c, i) ==
    /\ ends[c][i].pc = "save" /\ ends[c][i].of = c /\ truth[c] = "talk" => ends[c][i].out.dest = sw[c].line
    /\ Answered(c) => /\ ends[c][i].pc = "save" => ends[c][i].out.status = "completed"
                      /\ ends[c][i].pc \in {"charge", "ack"} => ShownOf(c)
Shows(c) ==
    blind[c] = "no" => /\ Own(c) /\ Placed(c)
                       /\ \A i \in Attempt : AttemptShows(c, i)
                       /\ rep[c].st = "acked" /\ Answered(c) => ShownOf(c)

(* A report that carries its id is matched to its own call. *)
LEMMA OwnStep ==
    ASSUME TypeOK, NEW d \in Call, Own(d), [Next]_vars, blind'[d] = "no"
    PROVE  Own(d)'
<1> SUFFICES ASSUME NEW e \in Call, NEW i \in Attempt, e # d, ends'[e][i].pc = "save"
             PROVE  ends'[e][i].of # d
    BY DEF Own
<1>1. CASE ends'[e][i] = ends[e][i]
    BY <1>1 DEF Own
<1>2. ASSUME NEW x \in Call, NEW old \in BOOLEAN, rep[e].id => x = e, EndMatched(e, i, x, old)
      PROVE  ends'[e][i].of # d
    BY <1>2, MatchedSaves
<1> QED BY <1>1, <1>2, SaveSteps DEF BlindMatches

(* A row that shows an answered call goes on showing it. *)
LEMMA ShownStays ==
    ASSUME TypeOK, \A c \in Call : Told(c) /\ Stage(c) /\ Money(c) /\ Shows(c), NEW d \in Call, [Next]_vars,
           blind[d] = "no", Answered(d), ShownOf(d)
    PROVE  ShownOf(d)'
<1>t. row \in [Call -> Row]
    BY DEF TypeOK
<1>d. /\ truth[d] = "talk" /\ rep[d].st # "none"
      /\ Told(d) /\ Stage(d) /\ Money(d) /\ Shows(d)
    BY DEF Answered
<1>1. sw'[d] = sw[d]
    BY <1>d, OverStays
<1>2. ~RouteStep(d) /\ ~NextSave(d) /\ ~HeldMark(d)
    BY <1>d DEF Stage, Told, RouteStep, RouteCreate, RouteDecide, RouteRefuse, NextSave, HeldMark
<1>3. ASSUME NEW s \in Sweeper, SweepSave(d, s) PROVE ShownOf(d)'
  <2>1. /\ row'[d].dest = row[d].dest /\ row'[d].status = "no_answer"
        /\ row'[d].reason \in Swept
      BY <1>3, <1>t DEF SweepSave, Row, Swept
  <2> QED BY <2>1, <1>1 DEF ShownOf
<1>4. ASSUME NEW e \in Call, NEW i \in Attempt, EndSave(e, i), ends[e][i].of = d PROVE ShownOf(d)'
  <2>1. row'[d] = ends[e][i].out /\ ends[e][i].pc = "save"
      BY <1>4, <1>t DEF EndSave
  <2>2. e = d
      BY <1>4, <2>1, <1>d DEF Shows, Own
  <2>3. ends[d][i].out.dest = sw[d].line /\ ends[d][i].out.status = "completed"
      BY <1>4, <2>1, <2>2, <1>d DEF Shows, AttemptShows
  <2> QED BY <2>1, <2>2, <2>3, <1>1 DEF ShownOf
<1>5. CASE row'[d] = row[d]
    BY <1>5, <1>1 DEF ShownOf
<1> QED BY <1>2, <1>3, <1>4, <1>5, RowSteps

(* An attempt past its save has saved, or has found no row. *)
LEMMA DoneSteps ==
    ASSUME TypeOK, NEW d \in Call, NEW i \in Attempt, [Next]_vars, ends'[d][i].pc \in {"charge", "ack"}
    PROVE  ends[d][i].pc \in {"charge", "ack"} \/ EndSave(d, i) \/ (EndRead(d, i) /\ ~rep[d].id)
<1>t. ends \in [Call -> [Attempt -> EndJob]]
    BY DEF TypeOK
<1>1. ASSUME NEW c \in Call, NEW k \in Attempt, EndSave(c, k) \/ EndCharge(c, k) \/ EndAck(c, k)
      PROVE  ends'[d][i] = ends[d][i] \/ (c = d /\ k = i /\ ends[d][i].pc \in {"save", "charge", "ack"})
    BY <1>1, <1>t DEF EndSave, EndCharge, EndAck
<1>2. ASSUME NEW c \in Call, NEW k \in Attempt, EndRead(c, k)
      PROVE  ends'[d][i] = ends[d][i] \/ (c = d /\ k = i /\ ~rep[d].id)
  <2>1. EndUnmatched(c, k) => ends'[d][i] = ends[d][i] \/ (c = d /\ k = i)
      BY <1>t DEF EndUnmatched
  <2>2. ASSUME NEW x \in Call, NEW old \in BOOLEAN, EndMatched(c, k, x, old)
        PROVE  ends'[d][i] = ends[d][i]
    <3>1. ends'[c][k].pc = "save"
        BY <2>2, MatchedSaves
    <3>2. ends'[d][i] = ends[d][i] \/ (c = d /\ k = i)
        BY <2>2, <1>t DEF EndMatched
    <3> QED BY <3>1, <3>2
  <2>3. EndUnmatched(c, k) /\ rep[c].id => \E x \in Call, old \in BOOLEAN : EndMatched(c, k, x, old)
      BY <1>2 DEF EndRead
  <2> QED BY <1>2, <2>1, <2>2, <2>3 DEF EndRead, BlindMatches
<1>3. ASSUME NEW c \in Call, CallEnds(c) \/ Answer(c) \/ Miss(c) \/ HeldCharge(c) \/ ReportTimeout(c)
      PROVE  UNCHANGED ends
    BY <1>3 DEF CallEnds, Answer, Miss, HeldCharge, ReportTimeout, GetRefusal, LeaveAsking, LeaveReady, AnswerZero,
       Cancel, CancelHeld, NextEnds, Hangup, HangupMoved, jobs
<1>4. Crash => ends'[d][i].pc = "idle"
    BY DEF Crash, IdleEnd
<1>5. ASSUME NEW k \in Attempt, EndSave(d, k) \/ EndCharge(d, k) \/ EndAck(d, k), ends[d][i].pc = "save", k = i
      PROVE  EndSave(d, i)
    BY <1>5 DEF EndCharge, EndAck
<1> QED BY <1>1, <1>2, <1>3, <1>4, <1>5, MoneySteps DEF moneyVars

(* A report is acknowledged only after it has been due. *)
LEMMA AckedWas ==
    ASSUME TypeOK, \A c \in Call : Told(c), NEW d \in Call, [Next]_vars, rep[d].st = "none"
    PROVE  rep'[d].st # "acked"
<1>t. rep \in [Call -> Report]
    BY DEF TypeOK
<1>1. ASSUME NEW c \in Call, CallEnds(c) PROVE rep'[d].st # "acked"
  <2>1. rep'[c].st = "due" /\ (d # c => rep'[d] = rep[d])
      BY <1>1, CallEnding
  <2> QED BY <2>1
<1>2. ASSUME NEW c \in Call, ReportTimeout(c) PROVE rep'[d] = rep[d]
    BY <1>2, <1>t DEF ReportTimeout
<1>3. ASSUME NEW c \in Call, NEW i \in Attempt, EndRead(c, i) PROVE rep'[d] = rep[d]
    BY <1>3, <1>t DEF EndRead
<1>4. ASSUME NEW c \in Call, NEW i \in Attempt, EndAck(c, i) PROVE rep'[d].st = rep[d].st
    BY <1>4, <1>t DEF EndAck, Report
<1>5. ASSUME NEW c \in Call, \/ HeldCharge(c) \/ Answer(c)
                             \/ Miss(c) /\ Failover
                             \/ \E i \in Attempt : EndSave(c, i) \/ EndCharge(c, i)
      PROVE  UNCHANGED rep
    BY <1>5 DEF HeldCharge, Answer, Miss, EndSave, EndCharge, aVars
<1>6. Crash => rep'[d].st # "acked"
  <2>1. Crash => rep'[d] = [rep[d] EXCEPT !.st = IF @ = "posted" THEN "due" ELSE @]
      BY DEF Crash
  <2> QED BY <2>1, <1>t DEF Report
<1> QED BY <1>1, <1>2, <1>3, <1>4, <1>5, <1>6, MoneySteps DEF moneyVars

(* Until a report without an id is matched to it, the row of a call names  *)
(* the line its channel dials or talks on.                                 *)
LEMMA PlacedStep ==
    ASSUME TypeOK, \A c \in Call : Told(c) /\ Stage(c) /\ Shows(c), NEW d \in Call, [Next]_vars, blind[d] = "no"
    PROVE  Placed(d)'
<1>t. /\ row \in [Call -> Row] /\ sw \in [Call -> Channel] /\ route \in [Call -> RouteJob] /\ next \in [Call -> NextJob]
      /\ truth \in [Call -> {"none", "talk", "zero", "cancel", "late", "miss"}]
    BY DEF TypeOK
<1>d. Told(d) /\ Stage(d) /\ Placed(d) /\ Own(d) /\ \A i \in Attempt : AttemptShows(d, i)
    BY DEF Shows
<1>1. ASSUME UNCHANGED <<sw[d], route[d], next[d], truth[d]>>, row'[d].dest = row[d].dest PROVE Placed(d)'
    BY <1>1, <1>d DEF Placed
<1>2. ASSUME NEW c \in Call, RouteCreate(c) \/ RouteRefuse(c) PROVE Placed(d)'
  <2>1. /\ UNCHANGED <<sw, next, truth>> /\ route[c].pc \in {"sent", "decide"}
        /\ \E p \in {"decide", "hangup"} : route' = [route EXCEPT ![c].pc = p]
      BY <1>2 DEF RouteCreate, RouteRefuse, aVars
  <2>2. row'[d].dest = row[d].dest
      BY <1>2, <1>t DEF RouteCreate, RouteRefuse, Row
  <2>3. CASE c = d
    <3>1. sw[d].pc \notin {"idle", "ready", "ringing", "nextask"} /\ truth[d] # "talk"
        BY <2>1, <2>3, <1>d DEF Stage
    <3>2. route'[d].pc # "dial"
        BY <2>1, <2>3, <1>t DEF RouteJob
    <3> QED BY <2>1, <3>1, <3>2 DEF Placed
  <2>4. CASE c # d
      BY <2>1, <2>2, <2>4, <1>1, <1>t
  <2> QED BY <2>3, <2>4
<1>3. ASSUME NEW c \in Call, RouteDecide(c) PROVE Placed(d)'
  <2>1. PICK l \in Line : /\ row' = [row EXCEPT ![c].status = "in_progress", ![c].dest = l]
                          /\ route' = [route EXCEPT ![c] = [pc |-> "dial", line |-> l]]
                          /\ UNCHANGED <<sw, next, truth>> /\ route[c].pc = "decide"
      BY <1>3 DEF RouteDecide, SendTo, aVars
  <2>2. CASE c = d
    <3>1. sw[d].pc \notin {"idle", "ready", "ringing", "nextask"} /\ truth[d] # "talk"
        BY <2>1, <2>2, <1>d DEF Stage
    <3>2. row'[d].dest = l /\ route'[d].line = l
        BY <2>1, <2>2, <1>t DEF Row
    <3> QED BY <2>1, <3>1, <3>2 DEF Placed
  <2>3. CASE c # d
      BY <2>1, <2>3, <1>1, <1>t
  <2> QED BY <2>2, <2>3
<1>4. ASSUME NEW c \in Call, NextRead(c) \/ NextRefuse(c) \/ NextRecord(c) PROVE Placed(d)'
  <2>1. UNCHANGED <<row, sw, route, truth>> /\ next[c].pc \in {"sent", "decide"}
      BY <1>4 DEF NextRead, NextRefuse, NextRecord, bVars, aVars
  <2>2. c # d => next'[d] = next[d]
      BY <1>4, <1>t DEF NextRead, NextRefuse, NextRecord
  <2>3. c = d => next'[d].pc # "dial"
      BY <1>4, <1>t DEF NextRead, NextRefuse, NextRecord, NextJob
  <2> QED BY <2>1, <2>2, <2>3, <1>d DEF Placed
<1>5. ASSUME NEW c \in Call, NextSave(c) PROVE Placed(d)'
  <2>1. PICK l \in Line \ next[c].tried :
            /\ row' = [row EXCEPT ![c].status = "in_progress", ![c].dest = l]
            /\ next' = [next EXCEPT ![c].pc = "dial", ![c].dest = l]
            /\ UNCHANGED <<sw, route, truth>> /\ next[c].pc = "save"
      BY <1>5 DEF NextSave, SendTo, aVars
  <2>2. CASE c = d
    <3>1. next'[d].pc = "dial" /\ next'[d].dest = l /\ row'[d].dest = l
        BY <2>1, <2>2, <1>t DEF NextJob, Row
    <3>2. sw[d].pc \notin {"idle", "asking", "ready", "ringing"} /\ truth[d] # "talk"
        BY <2>1, <2>2, <1>d DEF Stage
    <3> QED BY <2>1, <3>1, <3>2 DEF Placed
  <2>3. CASE c # d
      BY <2>1, <2>3, <1>1, <1>t
  <2> QED BY <2>2, <2>3
<1>6. ASSUME NEW c \in Call, Arrive(c) PROVE Placed(d)'
  <2>1. /\ UNCHANGED <<row, next, truth>> /\ sw[c].pc = "idle" /\ sw' = [sw EXCEPT ![c].pc = "asking"]
        /\ route' = [route EXCEPT ![c].pc = "sent"]
      BY <1>6 DEF Arrive, Goes, bVars
  <2>2. CASE c = d
    <3>1. sw'[d].pc = "asking" /\ route'[d].pc = "sent"
        BY <2>1, <2>2, <1>t DEF Channel, RouteJob
    <3>2. truth[d] # "talk"
        BY <2>1, <2>2, <1>d DEF Told
    <3> QED BY <2>1, <3>1, <3>2 DEF Placed
  <2>3. CASE c # d
      BY <2>1, <2>3, <1>1, <1>t
  <2> QED BY <2>2, <2>3
<1>7. ASSUME NEW c \in Call, GetLine(c) PROVE Placed(d)'
  <2>1. /\ UNCHANGED <<row, route, next, truth>> /\ sw[c].pc = "asking" /\ route[c].pc = "dial"
        /\ sw' = [sw EXCEPT ![c] = [pc |-> "ready", line |-> route[c].line]]
      BY <1>7 DEF GetLine, bVars, jobs
  <2>2. CASE c = d
    <3>1. sw'[d].pc = "ready" /\ sw'[d].line = route[d].line /\ truth[d] # "talk"
        BY <2>1, <2>2, <1>d, <1>t DEF Told
    <3> QED BY <2>1, <2>2, <3>1, <1>d DEF Placed
  <2>3. CASE c # d
      BY <2>1, <2>3, <1>1, <1>t
  <2> QED BY <2>2, <2>3
<1>8. ASSUME NEW c \in Call, NextDial(c) PROVE Placed(d)'
  <2>1. /\ UNCHANGED <<row, route, truth>> /\ sw[c].pc = "nextask" /\ next[c].pc = "dial"
        /\ sw' = [sw EXCEPT ![c] = [pc |-> "ringing", line |-> next[c].dest]]
        /\ next' = [next EXCEPT ![c] = IdleNext]
      BY <1>8 DEF NextDial, bVars
  <2>2. CASE c = d
    <3>1. sw'[d].pc = "ringing" /\ sw'[d].line = next[d].dest
        BY <2>1, <2>2, <1>t
    <3> QED BY <2>1, <2>2, <3>1, <1>d DEF Placed
  <2>3. CASE c # d
      BY <2>1, <2>3, <1>1, <1>t
  <2> QED BY <2>2, <2>3
<1>9. ASSUME NEW c \in Call, Miss(c) PROVE Placed(d)'
  <2>1. /\ UNCHANGED <<row, route>> /\ truth' = [truth EXCEPT ![c] = "miss"]
        /\ \/ /\ sw' = [sw EXCEPT ![c].pc = "nextask"] /\ next' = [next EXCEPT ![c] = [IdleNext EXCEPT !.pc = "sent"]]
           \/ /\ sw' = [sw EXCEPT ![c].pc = "down"] /\ next' = next
      BY <1>9 DEF Miss, Goes, bVars
  <2>2. CASE c = d
    <3>1. truth'[d] = "miss"
        BY <2>1, <2>2, <1>t
    <3>2. sw'[d].pc = "down" \/ (sw'[d].pc = "nextask" /\ next'[d].pc = "sent")
        BY <2>1, <2>2, <1>t DEF Channel, IdleNext
    <3> QED BY <3>1, <3>2 DEF Placed
  <2>3. CASE c # d
    <3>1. next'[d] = next[d] /\ sw'[d] = sw[d] /\ truth'[d] = truth[d]
        BY <2>1, <2>3, <1>t
    <3> QED BY <2>1, <3>1, <1>1
  <2> QED BY <2>2, <2>3
<1>10. ASSUME NEW c \in Call, Ring(c) \/ Answer(c) PROVE Placed(d)'
  <2>1. /\ UNCHANGED <<row, route, next>> /\ sw[c].pc \in {"ready", "ringing"}
        /\ \/ sw' = [sw EXCEPT ![c].pc = "ringing"] /\ truth' = truth
           \/ sw' = [sw EXCEPT ![c].pc = "talking"] /\ truth' = [truth EXCEPT ![c] = "talk"]
      BY <1>10 DEF Ring, Answer, Goes, bVars, jobs
  <2>2. CASE c = d
    <3>1. sw'[d].line = sw[d].line /\ sw'[d].pc \in {"ringing", "talking"}
        BY <2>1, <2>2, <1>t DEF Channel
    <3> QED BY <2>1, <2>2, <3>1, <1>d DEF Placed
  <2>3. CASE c # d
      BY <2>1, <2>3, <1>1, <1>t
  <2> QED BY <2>2, <2>3
<1>11. ASSUME NEW c \in Call, \/ GetRefusal(c) \/ LeaveAsking(c) \/ LeaveReady(c) \/ AnswerZero(c) \/ Cancel(c)
                              \/ CancelHeld(c) \/ NextEnds(c) \/ Hangup(c) \/ Transfer(c) \/ HangupMoved(c)
      PROVE  Placed(d)'
  <2>1. UNCHANGED <<row, route, next>> /\ \E p \in {"down", "moved"} : Goes(c, p)
      BY <1>11 DEF GetRefusal, LeaveAsking, LeaveReady, AnswerZero, Cancel, CancelHeld, NextEnds, Hangup, Transfer,
         HangupMoved, bVars, jobs
  <2>2. truth' = truth \/ \E t \in {"zero", "cancel", "late"} : truth' = [truth EXCEPT ![c] = t]
      BY <1>11 DEF GetRefusal, LeaveAsking, LeaveReady, AnswerZero, Cancel, CancelHeld, NextEnds, Hangup, Transfer,
         HangupMoved
  <2>3. CASE c = d
    <3>1. sw'[d].line = sw[d].line /\ sw'[d].pc \in {"down", "moved"}
        BY <2>1, <2>3, <1>t DEF Goes, Channel
    <3>2. truth'[d] = "talk" => truth[d] = "talk"
        BY <2>2, <2>3, <1>t
    <3> QED BY <2>1, <3>1, <3>2, <1>d DEF Placed
  <2>4. CASE c # d
    <3>1. sw'[d] = sw[d] /\ truth'[d] = truth[d]
        BY <2>1, <2>2, <2>4, <1>t DEF Goes
    <3> QED BY <2>1, <3>1, <1>1
  <2> QED BY <2>3, <2>4
<1>12. ASSUME Crash PROVE Placed(d)'
  <2>1. /\ UNCHANGED <<row, sw, truth>>
        /\ route'[d] = IF route[d].pc = "none" THEN IdleRoute ELSE [IdleRoute EXCEPT !.pc = "lost"]
        /\ next'[d] = IF next[d].pc = "idle" THEN IdleNext ELSE [IdleNext EXCEPT !.pc = "lost"]
      BY <1>12 DEF Crash, bVars
  <2>2. route'[d].pc # "dial" /\ next'[d].pc # "dial"
      BY <2>1 DEF IdleRoute, IdleNext
  <2> QED BY <2>1, <2>2, <1>d DEF Placed
<1>13. ASSUME UNCHANGED <<sw, route, next, truth>>, ~RouteStep(d), ~NextSave(d) PROVE Placed(d)'
  <2>1. CASE row'[d] = row[d]
      BY <1>13, <2>1, <1>1
  <2>2. ASSUME HeldMark(d) PROVE Placed(d)'
    <3>1. sw[d].pc = "down" /\ truth[d] = "late"
        BY <2>2, <1>d DEF HeldMark, Told
    <3> QED BY <1>13, <3>1 DEF Placed
  <2>3. ASSUME NEW s \in Sweeper, SweepSave(d, s) PROVE Placed(d)'
    <3>1. row'[d].dest = row[d].dest
        BY <2>3, <1>t DEF SweepSave, Row
    <3> QED BY <1>13, <3>1, <1>1
  <2>4. ASSUME NEW e \in Call, NEW i \in Attempt, EndSave(e, i), ends[e][i].of = d PROVE Placed(d)'
    <3>1. row'[d] = ends[e][i].out /\ ends[e][i].pc = "save"
        BY <2>4, <1>t DEF EndSave
    <3>2. e = d
        BY <2>4, <3>1, <1>d DEF Own
    <3>3. sw[d].pc = "down"
        BY <3>1, <3>2, <1>d DEF Told
    <3>4. truth[d] = "talk" => row'[d].dest = sw[d].line
        BY <2>4, <3>1, <3>2, <1>d DEF AttemptShows
    <3> QED BY <1>13, <3>3, <3>4 DEF Placed
  <2> QED BY <1>13, <2>1, <2>2, <2>3, <2>4, RowSteps
<1>14. ASSUME NEW c \in Call, EndStep(c) \/ HeldStep(c) \/ HeldExpire(c) \/ SyncSeen(c) \/ ReportTimeout(c)
       PROVE  UNCHANGED <<sw, route, next, truth>>
    BY <1>14 DEF EndStep, HeldStep, EndRead, EndSave, EndCharge, EndAck, HeldRead, HeldRemember, HeldMark, HeldCharge,
       HeldExpire, SyncSeen, ReportTimeout, aVars, jobs
<1>15. ASSUME NEW c \in Call, SyncStep(c) \/ StaleStep(c)
       PROVE  UNCHANGED <<sw, route, next, truth>>
    BY <1>15 DEF SyncStep, StaleStep, SyncMissing, StaleRead, SweepSave, aVars
<1>16. UNCHANGED vars => UNCHANGED <<sw, route, next, truth>>
    BY DEF vars, aVars, jobs
<1>17. RouteStep(d) \/ NextSave(d) => Placed(d)'
    BY <1>2, <1>3, <1>5 DEF RouteStep
<1> QED BY <1>2, <1>3, <1>4, <1>5, <1>6, <1>7, <1>8, <1>9, <1>10, <1>11, <1>12, <1>13, <1>14, <1>15, <1>16, <1>17
       DEF Next, RouteStep, NextStep, SwitchEnds

(* What an attempt is about to save, or has saved, shows an answered call. *)
LEMMA AttemptShowsStep ==
    ASSUME TypeOK, \A c \in Call : Told(c) /\ Stage(c) /\ Money(c) /\ Shows(c), NEW d \in Call, NEW i \in Attempt,
           [Next]_vars, blind[d] = "no"
    PROVE  AttemptShows(d, i)'
<1>t. row \in [Call -> Row] /\ ends \in [Call -> [Attempt -> EndJob]]
    BY DEF TypeOK
<1>d. /\ Told(d) /\ Placed(d) /\ AttemptShows(d, i) /\ AttemptPays(d, i)
      /\ rep[d].st = "none" => ends[d][i].pc = "idle"
    BY DEF Shows, Money, Told
<1>s. rep[d].st # "none" => /\ sw'[d] = sw[d] /\ truth'[d] = truth[d] /\ rep'[d].id = rep[d].id
                            /\ Answered(d)' <=> Answered(d)
    BY OverStays DEF Answered
<1>1. ASSUME ends'[d][i].pc = "save"
      PROVE  /\ ends'[d][i].of = d /\ truth'[d] = "talk" => ends'[d][i].out.dest = sw'[d].line
             /\ Answered(d)' => ends'[d][i].out.status = "completed"
  <2>1. CASE ends'[d][i] = ends[d][i]
      BY <1>1, <2>1, <1>d, <1>s DEF AttemptShows
  <2>2. ASSUME EndRead(d, i), NEW x \in Call, NEW old \in BOOLEAN, EndMatched(d, i, x, old)
        PROVE  /\ ends'[d][i].of = d /\ truth'[d] = "talk" => ends'[d][i].out.dest = sw'[d].line
               /\ Answered(d)' => ends'[d][i].out.status = "completed"
    <3>1. rep[d].st # "none"
        BY <2>2 DEF EndRead
    <3>2. /\ ends'[d][i].of = x /\ ends'[d][i].out.dest = row[x].dest
          /\ rep[d].ds = "ANSWER" /\ rep[d].secs => ends'[d][i].out.status = "completed"
        BY <2>2, MatchedSaves
    <3>3. truth[d] = "talk" => row[d].dest = sw[d].line
        BY <1>d DEF Placed
    <3>4. Answered(d) => rep[d].ds = "ANSWER" /\ rep[d].secs
      <4>1. rep[d].secs \in BOOLEAN
          BY DEF TypeOK, Report
      <4> QED BY <4>1, <1>d DEF Told, Answered
    <3> QED BY <3>1, <3>2, <3>3, <3>4, <1>s
  <2> QED BY <1>1, <2>1, <2>2, SaveSteps DEF BlindMatches
<1>2. ASSUME Answered(d)', ends'[d][i].pc \in {"charge", "ack"} PROVE ShownOf(d)'
  <2>1. ASSUME ends[d][i].pc \in {"charge", "ack"} PROVE ShownOf(d)'
    <3>1. Answered(d) /\ ShownOf(d)
        BY <2>1, <1>2, <1>d, <1>s DEF AttemptShows
    <3> QED BY <3>1, ShownStays
  <2>2. ASSUME EndSave(d, i) PROVE ShownOf(d)'
    <3>1. ends[d][i].pc = "save" /\ row' = [row EXCEPT ![ends[d][i].of] = ends[d][i].out]
        BY <2>2 DEF EndSave
    <3>2. Answered(d) /\ sw'[d] = sw[d]
        BY <3>1, <1>2, <1>d, <1>s
    <3>3. ends[d][i].of = d /\ truth[d] = "talk"
        BY <3>1, <3>2, <1>d DEF AttemptPays, Answered
    <3>4. ends[d][i].out.status = "completed" /\ ends[d][i].out.dest = sw[d].line
        BY <3>1, <3>2, <3>3, <1>d DEF AttemptShows
    <3>5. row'[d] = ends[d][i].out
        BY <3>1, <3>3, <1>t
    <3> QED BY <3>2, <3>4, <3>5 DEF ShownOf
  <2>3. ASSUME EndRead(d, i), ~rep[d].id PROVE ShownOf(d)'
      BY <2>3, <1>2, <1>s DEF EndRead, Answered
  <2> QED BY <1>2, <2>1, <2>2, <2>3, DoneSteps
<1> QED BY <1>1, <1>2 DEF AttemptShows

(* Every step keeps what is said of a call no blind report was matched to. *)
LEMMA ShowsStep ==
    ASSUME TypeOK, \A c \in Call : Told(c) /\ Stage(c) /\ Money(c) /\ Shows(c), NEW d \in Call, [Next]_vars
    PROVE  Shows(d)'
<1> SUFFICES ASSUME blind'[d] = "no"
             PROVE  /\ Own(d)' /\ Placed(d)' /\ \A i \in Attempt : AttemptShows(d, i)'
                    /\ rep'[d].st = "acked" /\ Answered(d)' => ShownOf(d)'
    BY DEF Shows
<1>1. blind[d] = "no"
    BY BlindStays
<1>2. Own(d)'
    BY <1>1, OwnStep DEF Shows
<1>3. Placed(d)'
    BY <1>1, PlacedStep
<1>4. \A i \in Attempt : AttemptShows(d, i)'
    BY <1>1, AttemptShowsStep
<1>5. ASSUME rep'[d].st = "acked", Answered(d)' PROVE ShownOf(d)'
  <2>1. rep[d].st # "none"
      BY <1>5, AckedWas
  <2>2. Answered(d)
      BY <1>5, <2>1, OverStays DEF Answered
  <2>3. ShownOf(d)
    <3>1. CASE rep[d].st = "acked"
        BY <3>1, <2>2, <1>1 DEF Shows
    <3>2. ASSUME NEW i \in Attempt, EndAck(d, i) PROVE ShownOf(d)
        BY <3>2, <2>2, <1>1 DEF EndAck, Shows, AttemptShows
    <3> QED BY <1>5, <2>1, <3>1, <3>2, OverStays
  <2> QED BY <1>1, <2>2, <2>3, ShownStays
<1> QED BY <1>2, <1>3, <1>4, <1>5

(* The inductive invariant of what the rows show. *)
ShownInv == \A c \in Call : Told(c) /\ Money(c) /\ Stage(c) /\ Shows(c)

(* It holds in every reachable state. *)
LEMMA ShownInvHolds == Spec => [](TypeOK /\ ShownInv)
<1>1. Init => ShownInv
  <2> SUFFICES ASSUME Init, NEW c \in Call PROVE Told(c) /\ Money(c) /\ Stage(c) /\ Shows(c)
      BY DEF ShownInv
  <2>1. /\ sw[c].pc = "idle" /\ rep[c].st = "none" /\ rep[c].ds = "" /\ route[c].pc = "none" /\ next[c].pc = "idle"
        /\ ~held[c] /\ relay[c].pc = "none" /\ truth[c] = "none" /\ rang[c] = {} /\ paid[c] = "no"
        /\ \A e \in Call, i \in Attempt : ends[e][i].pc = "idle"
      BY DEF Init, NoReport, IdleRoute, IdleNext, IdleEnd, IdleRelay, NoRow
  <2>2. Told(c) /\ Money(c)
      BY <2>1 DEF Told, Money, AttemptPays, Answered
  <2>3. Stage(c)
      BY <2>1 DEF Stage
  <2>4. Shows(c)
      BY <2>1 DEF Shows, Own, Placed, AttemptShows
  <2> QED BY <2>2, <2>3, <2>4
<1>2. TypeOK /\ ShownInv /\ [Next]_vars => ShownInv'
    BY ToldStep, MoneyStep, StageStep, ShowsStep DEF ShownInv
<1> QED BY <1>1, <1>2, TypesHold, PTL DEF Spec

(* settle_call_money, the sweeps: from the acknowledgement of its report   *)
(* on, an answered call is shown Completed on the line that answered, or   *)
(* with the mark of a sweep on that line, unless a report without an id    *)
(* was matched to it.                                                      *)
THEOREM AnsweredShown == Spec => []AnsweredIsShown
<1>1. ShownInv => AnsweredIsShown
    BY DEF ShownInv, Shows, AnsweredIsShown
<1> QED BY <1>1, ShownInvHolds, PTL
=============================================================================
