------------------------- MODULE NumberPool_proofs -------------------------
(***************************************************************************)
(* Safety of a number pool, for any visitors, numbers, sweeps and calls.   *)
(*                                                                         *)
(* A number that has not gone astray is held by one visit at most, and     *)
(* that visit is the newest the number was ever shown to (Apart): a new    *)
(* visit takes an Available number, and as long as every release sees no   *)
(* holder an Available number has none.  So a call on the number is tied   *)
(* to the visit that holds it (Right).                                     *)
(***************************************************************************)
EXTENDS NumberPool, FiniteSetTheorems, WellFoundedInduction, TLAPS

(* The requests that have read the resting numbers: there is a row left    *)
(* for each of them.                                                       *)
Takers == {v \in Visitor : give[v].pc = "take"}
Room == IsFiniteSet(Takers) /\ used + Cardinality(Takers) <= MaxVisits

(* A number nobody set Available under a visit's feet is not Available     *)
(* while it is held, and its holder is the newest visit on it.             *)
Apart(n) ==
    n \notin stray => \A i \in Holders(n) : num[n] # "available" /\ \A j \in On(n) : j <= i

(* A call under way is on a number of the pool and marks a visit that is   *)
(* there; what it was tied to is the visit it was made from.               *)
Right(k) ==
    /\ calls[k].pc \in {"came", "read", "saved"} => calls[k].n \in Num
    /\ calls[k].mark <= used
    /\ calls[k].own # 0 => calls[k].tied = calls[k].own

(* The inductive invariant. *)
IInv == TypeOK /\ Room /\ (\A n \in Num : Apart(n)) /\ (\A k \in CallId : Right(k))

-----------------------------------------------------------------------------
(* The newest of some visits is one of them. *)
LEMMA NewestIn ==
    ASSUME NEW S \in SUBSET Visit, S # {}
    PROVE  Newest(S) \in S /\ \A j \in S : j <= Newest(S)
<1> DEFINE T == {MaxVisits - i : i \in S}
<1>m. MaxVisits \in Nat /\ \A i \in S : i \in Nat /\ i <= MaxVisits
    BY BoundsAssumption DEF Visit
<1>1. T \subseteq Nat /\ T # {}
  <2>1. \A i \in S : MaxVisits - i \in Nat
      BY <1>m
  <2>2. PICK i \in S : TRUE
      OBVIOUS
  <2> QED BY <2>1, <2>2
<1> HIDE DEF T
<1>2. PICK x \in T : \A y \in T : <<y, x>> \notin OpToRel(<, Nat)
    BY <1>1, NatLessThanWellFounded, WFMin
<1>3. \A y \in T : ~(y < x)
    BY <1>1, <1>2 DEF OpToRel
<1>4. PICK k \in S : x = MaxVisits - k
    BY DEF T
<1>5. ASSUME NEW j \in S PROVE j <= k
  <2>1. MaxVisits - j \in T
      BY DEF T
  <2> QED BY <2>1, <1>3, <1>4, <1>m
<1> QED BY <1>5 DEF Newest

(* A visit that is there has a row, and a number of the pool. *)
LEMMA Standing ==
    ASSUME TypeOK, NEW i \in Visit, visit[i].st # "none"
    PROVE  i \in 1 .. used /\ visit[i].n \in Num
<1>1. used \in Nat /\ i \in Nat /\ i >= 1
    BY DEF TypeOK, Visit
<1>2. i <= used
    BY <1>1 DEF TypeOK, NoVisit
<1> QED BY <1>1, <1>2 DEF TypeOK

(* The sets of visits a handler looks at. *)
LEMMA Looked ==
    ASSUME TypeOK
    PROVE  /\ \A v \in Visitor : Held(v) \in SUBSET Visit
           /\ \A v \in Visitor : Held(v) # {} => /\ Newest(Held(v)) \in 1 .. used
                                                 /\ visit[Newest(Held(v))].n \in Num
           /\ \A n \in Num : Holders(n) \in SUBSET Visit /\ On(n) \in SUBSET (1 .. used)
<1>1. ASSUME NEW v \in Visitor, Held(v) # {}
      PROVE  Newest(Held(v)) \in 1 .. used /\ visit[Newest(Held(v))].n \in Num
  <2>1. Held(v) \in SUBSET Visit
      BY DEF Held
  <2> DEFINE i == Newest(Held(v))
  <2>2. i \in Held(v)
      BY <1>1, <2>1, NewestIn
  <2> HIDE DEF i
  <2>3. i \in Visit /\ visit[i].st = "active"
      BY <2>2 DEF Held, Active
  <2>4. i \in 1 .. used /\ visit[i].n \in Num
      BY <2>3, Standing
  <2> QED BY <2>4 DEF i
<1>2. ASSUME NEW n \in Num, NEW i \in On(n) PROVE i \in 1 .. used
  <2>1. i \in Visit /\ visit[i].n = n
      BY <1>2 DEF On
  <2>2. i \in Nat /\ used \in Nat
      BY <2>1 DEF TypeOK, Visit
  <2>3. i <= used
      BY <2>1, <2>2, NoneAssumption DEF TypeOK, NoVisit
  <2> QED BY <2>1, <2>2, <2>3 DEF Visit
<1> QED BY <1>1, <1>2 DEF Held, Holders

-----------------------------------------------------------------------------
(* How visits change: a request makes a new one on an Available number;    *)
(* every other handler keeps each visit's number and at most ends it.      *)

Kept ==
    /\ used' = used
    /\ visit' \in [Visit -> VisitRow]
    /\ \A i \in Visit : /\ visit'[i].n = visit[i].n
                        /\ visit'[i].st = visit[i].st \/ visit'[i].st \in Ended
                        /\ i > used => visit'[i] = NoVisit
                        /\ i <= used => visit'[i].st # "none"

Took(v, n) ==
    /\ num[n] = "available" /\ num' = [num EXCEPT ![n] = "in_use"]
    /\ used' = used + 1 /\ used + 1 \in Visit
    /\ visit' = [visit EXCEPT ![used + 1] = [st |-> "active", n |-> n, by |-> v, lapsed |-> FALSE, cold |-> FALSE]]
    /\ stray' = stray

LEMMA OneKept ==
    ASSUME TypeOK, used' = used, NEW i \in 1 .. used, NEW r \in VisitRow,
           visit' = [visit EXCEPT ![i] = r], r.n = visit[i].n, r.st = visit[i].st \/ r.st \in Ended
    PROVE  Kept
<1>1. visit \in [Visit -> VisitRow] /\ used \in Nat /\ i \in Visit
    BY BoundsAssumption DEF TypeOK, Visit
<1>2. r.st # "none"
    BY <1>1 DEF TypeOK, Ended
<1>3. visit' \in [Visit -> VisitRow]
    BY <1>1
<1>4. ASSUME NEW j \in Visit
      PROVE  /\ visit'[j].n = visit[j].n
             /\ visit'[j].st = visit[j].st \/ visit'[j].st \in Ended
             /\ j > used => visit'[j] = NoVisit
             /\ j <= used => visit'[j].st # "none"
  <2>1. CASE j = i
    <3>1. visit'[j] = r /\ j <= used /\ j \in Nat
        BY <2>1, <1>1
    <3> QED BY <3>1, <2>1, <1>1, <1>2
  <2>2. CASE j # i
    <3>1. visit'[j] = visit[j]
        BY <2>2, <1>1
    <3>2. j \in Nat
        BY DEF Visit
    <3> QED BY <3>1, <3>2, <1>1 DEF TypeOK
  <2> QED BY <2>1, <2>2
<1> QED BY <1>3, <1>4 DEF Kept

LEMMA NoneKept ==
    ASSUME TypeOK, used' = used, visit' = visit
    PROVE  Kept
<1>1. \A i \in Visit : i \in Nat
    BY DEF Visit
<1> QED BY <1>1 DEF TypeOK, Kept

LEMMA VisitMoves ==
    ASSUME TypeOK, Room, [Next]_vars, \A k \in CallId : Right(k)
    PROVE  Kept \/ \E v \in Visitor, n \in Num : Took(v, n)
<1>t. /\ visit \in [Visit -> VisitRow] /\ used \in Nat
      /\ \A i \in 1 .. used : i \in Visit /\ visit[i] \in VisitRow
  <2>1. visit \in [Visit -> VisitRow] /\ used \in Nat /\ used <= MaxVisits /\ MaxVisits \in Nat
      BY BoundsAssumption DEF TypeOK
  <2>2. \A i \in 1 .. used : i \in Visit
      BY <2>1 DEF Visit
  <2> QED BY <2>1, <2>2
<1>1. ASSUME NEW i \in 1 .. used, visit' = Extended(i), used' = used PROVE Kept
  <2> DEFINE r == [visit[i] EXCEPT !.lapsed = FALSE, !.cold = FALSE]
  <2>1. visit' = [visit EXCEPT ![i] = r]
      BY <1>1, <1>t DEF Extended, VisitRow
  <2>2. r \in VisitRow /\ r.n = visit[i].n /\ r.st = visit[i].st
      BY <1>t DEF VisitRow
  <2> HIDE DEF r
  <2> QED BY <1>1, <2>1, <2>2, OneKept
<1>2. ASSUME NEW v \in Visitor, GiveHeld(v) PROVE Kept
  <2>1. Newest(Held(v)) \in 1 .. used
      BY <1>2, Looked DEF GiveHeld
  <2> QED BY <1>1, <1>2, <2>1 DEF GiveHeld, bounds
<1>3. ASSUME NEW v \in Visitor, PingSave(v) PROVE Kept
  <2>1. ping[v] \in 1 .. used /\ used' = used
      BY <1>3 DEF PingSave, TypeOK, bounds
  <2> QED BY <1>1, <1>3, <2>1 DEF PingSave
<1>4. ASSUME NEW v \in Visitor, GiveTake(v) PROVE Kept \/ \E n \in Num : Took(v, n)
  <2>1. used + 1 \in Visit
    <3>1. v \in Takers
        BY <1>4 DEF GiveTake, Takers
    <3>2. Cardinality(Takers) \in Nat /\ Cardinality(Takers) # 0
        BY <3>1, FS_CardinalityType, FS_EmptySet DEF Room
    <3> QED BY <3>2, <1>t, BoundsAssumption DEF Room, Visit
  <2>2. CASE used' = used /\ visit' = visit
      BY <2>2, NoneKept
  <2>3. ASSUME NEW n \in Free(v), num' = [num EXCEPT ![n] = "in_use"], used' = used + 1,
               visit' = [visit EXCEPT ![used + 1] = [st |-> "active", n |-> n, by |-> v, lapsed |-> FALSE, cold |-> FALSE]]
        PROVE  n \in Num /\ Took(v, n)
      BY <1>4, <2>1, <2>3 DEF Took, Free, GiveTake
  <2> QED BY <1>4, <2>2, <2>3 DEF GiveTake
<1>5. ASSUME NEW i \in Visit, Lapse(i) \/ CoolDown(i) PROVE Kept
  <2>1. i \in 1 .. used
      BY <1>5, Standing DEF Lapse, CoolDown, Ended
  <2>2. PICK x \in {[visit[i] EXCEPT !.lapsed = TRUE], [visit[i] EXCEPT !.cold = TRUE]} :
           visit' = [visit EXCEPT ![i] = x]
      BY <1>5, <1>t DEF Lapse, CoolDown
  <2>3. x \in VisitRow /\ x.n = visit[i].n /\ x.st = visit[i].st
      BY <1>t DEF VisitRow
  <2> QED BY <1>5, <2>1, <2>2, <2>3, OneKept DEF Lapse, CoolDown, bounds
<1>6. ASSUME NEW w \in Sweeper, SweepExpire(w) PROVE Kept
  <2>1. PICK i \in sweep[w].todo : visit' = [visit EXCEPT ![i].st = "expired"]
      BY <1>6 DEF SweepExpire
  <2>2. i \in 1 .. used
      BY <1>t DEF TypeOK, Sweep, Visit
  <2> DEFINE r == [visit[i] EXCEPT !.st = "expired"]
  <2>3. visit' = [visit EXCEPT ![i] = r]
      BY <2>1, <2>2, <1>t
  <2>4. r \in VisitRow /\ r.n = visit[i].n /\ r.st \in Ended
      BY <2>2, <1>t DEF VisitRow, Ended
  <2> HIDE DEF r
  <2> QED BY <1>6, <2>2, <2>3, <2>4, OneKept DEF SweepExpire, bounds
<1>7. ASSUME NEW k \in CallId, CallMarkSave(k) PROVE Kept
  <2> DEFINE i == calls[k].mark
  <2>1. visit' = [visit EXCEPT ![i].st = "called", ![i].cold = FALSE] /\ used' = used
      BY <1>7 DEF CallMarkSave, bounds
  <2>2. i \in 0 .. used
      BY <1>t DEF Right, TypeOK, CallRow
  <2> HIDE DEF i
  <2>3. CASE i = 0
    <3>1. visit' = visit
        BY <2>1, <2>3, <1>t DEF Visit
    <3> QED BY <3>1, <2>1, NoneKept
  <2>4. CASE i \in 1 .. used
    <3> DEFINE r == [visit[i] EXCEPT !.st = "called", !.cold = FALSE]
    <3>1. visit' = [visit EXCEPT ![i] = r]
        BY <2>1, <2>4, <1>t DEF VisitRow
    <3>2. r \in VisitRow /\ r.n = visit[i].n /\ r.st \in Ended
        BY <2>4, <1>t DEF VisitRow, Ended
    <3> HIDE DEF r
    <3> QED BY <2>1, <2>4, <3>1, <3>2, OneKept
  <2> QED BY <2>2, <2>3, <2>4, <1>t
<1>8. ASSUME NEW n \in Num, NEW to, PullStart(n, to) PROVE Kept
  <2>1. visit' = [i \in Visit |-> IF i \in Holders(n) THEN [visit[i] EXCEPT !.st = "released", !.cold = FALSE]
                                                      ELSE visit[i]] /\ used' = used
      BY <1>8 DEF PullStart
  <2>2. ASSUME NEW i \in Visit
        PROVE  /\ visit'[i] \in VisitRow
               /\ visit'[i].n = visit[i].n
               /\ visit'[i].st = visit[i].st \/ visit'[i].st \in Ended
               /\ i > used => visit'[i] = NoVisit
               /\ i <= used => visit'[i].st # "none"
    <3>1. visit[i] \in VisitRow /\ i \in Nat
        BY <1>t DEF Visit
    <3>2. CASE i \in Holders(n)
      <4>1. visit'[i] = [visit[i] EXCEPT !.st = "released", !.cold = FALSE]
          BY <2>1, <3>2
      <4>2. i <= used
          BY <3>2, <1>t, Standing DEF Holders, Active
      <4>3. visit'[i] \in VisitRow /\ visit'[i].n = visit[i].n /\ visit'[i].st = "released"
          BY <4>1, <3>1 DEF VisitRow, Ended
      <4> QED BY <4>2, <4>3, <3>1, <1>t DEF Ended
    <3>3. CASE i \notin Holders(n)
      <4>1. visit'[i] = visit[i]
          BY <2>1, <3>3
      <4> QED BY <4>1, <3>1, <1>t DEF TypeOK
    <3> QED BY <3>2, <3>3
  <2> QED BY <2>1, <2>2 DEF Kept
<1>9. ASSUME \/ \E v \in Visitor : GiveLook(v) \/ PingRead(v) \/ \E k \in CallId : Call(k, v)
             \/ \E w \in Sweeper : SweepRead(w) \/ SweepFree(w) \/ KillSweep(w)
             \/ \E k \in CallId : CallMarkRead(k) \/ CallMarkFree(k) \/ KillMark(k)
             \/ \E n \in Num : Flood(n) \/ Restore(n)
             \/ PullEnd \/ UNCHANGED vars
      PROVE  used' = used /\ visit' = visit
    BY <1>9 DEF GiveLook, PingRead, Call, SweepRead, SweepFree, KillSweep, CallMarkRead, CallMarkFree, KillMark,
       Flood, Restore, PullEnd, vars, bounds
<1>10. used' = used /\ visit' = visit => Kept
    BY NoneKept
<1> QED BY <1>2, <1>3, <1>4, <1>5, <1>6, <1>7, <1>8, <1>9, <1>10 DEF Next, PageStep, SweepStep, MarkStep

-----------------------------------------------------------------------------
(* A number that has not gone astray has one holder, the newest visit. *)

(* Who sets a number Available sees its holders, or marks it as astray. *)
LEMMA NumMoves ==
    ASSUME TypeOK, [Next]_vars, \A k \in CallId : Right(k), NEW n \in Num
    PROVE  /\ n \in stray => n \in stray'
           /\ num'[n] = "available" => num[n] = "available" \/ Holders(n) = {} \/ n \in stray'
<1> DEFINE Ok == /\ n \in stray => n \in stray'
                 /\ num'[n] = "available" => num[n] = "available" \/ Holders(n) = {} \/ n \in stray'
<1> SUFFICES Ok
    OBVIOUS
<1>t. num \in [Num -> NumStatus]
    BY DEF TypeOK
<1>1. ASSUME NEW m \in Num, Freed(m) PROVE Ok
  <2>1. CASE m = n
      BY <1>1, <2>1 DEF Freed
  <2>2. CASE m # n
      BY <1>1, <2>2, <1>t DEF Freed
  <2> QED BY <2>1, <2>2
<1>2. num' = num /\ stray' = stray => Ok
    OBVIOUS
<1>3. ASSUME NEW v \in Visitor, GiveTake(v) PROVE Ok
    BY <1>3, <1>t DEF GiveTake
<1>4. ASSUME NEW w \in Sweeper, SweepFree(w) PROVE Ok
  <2>1. sweep[w].at \in 1 .. used
      BY <1>4 DEF SweepFree, TypeOK, Sweep, Visit
  <2>2. sweep[w].at \in Visit
      BY <1>4 DEF SweepFree, TypeOK, Sweep
  <2>3. visit[sweep[w].at].n \in Num
      BY <2>1, <2>2 DEF TypeOK
  <2> QED BY <1>1, <1>2, <1>4, <2>3 DEF SweepFree
<1>5. ASSUME NEW k \in CallId, CallMarkFree(k) PROVE Ok
  <2>1. calls[k].n \in Num
      BY <1>5 DEF CallMarkFree, Right
  <2> QED BY <1>1, <1>2, <1>5, <2>1 DEF CallMarkFree
<1>6. ASSUME NEW m \in Num, Flood(m) \/ Restore(m) PROVE Ok
  <2>1. CASE Restore(m)
      BY <1>1, <2>1 DEF Restore
  <2>2. CASE Flood(m)
      BY <2>2, <1>t DEF Flood
  <2> QED BY <1>6, <2>1, <2>2
<1>7. ASSUME PullEnd PROVE Ok
  <2>1. pull.to \in {"quarantined", "gone"}
      BY DEF TypeOK
  <2> QED BY <1>7, <2>1, <1>t DEF PullEnd
<1>8. ASSUME \/ \E v \in Visitor : GiveHeld(v) \/ GiveLook(v) \/ PingRead(v) \/ PingSave(v) \/ \E k \in CallId : Call(k, v)
             \/ \E i \in Visit : Lapse(i) \/ CoolDown(i)
             \/ \E w \in Sweeper : SweepRead(w) \/ SweepExpire(w) \/ KillSweep(w)
             \/ \E k \in CallId : CallMarkRead(k) \/ CallMarkSave(k) \/ KillMark(k)
             \/ \E m \in Num : PullStart(m, "quarantined") \/ PullStart(m, "gone")
             \/ UNCHANGED vars
      PROVE  num' = num /\ stray' = stray
    BY <1>8 DEF GiveHeld, GiveLook, PingRead, PingSave, Call, Lapse, CoolDown, SweepRead, SweepExpire, KillSweep,
       CallMarkRead, CallMarkSave, KillMark, PullStart, vars
<1> HIDE DEF Ok
<1> QED BY <1>2, <1>3, <1>4, <1>5, <1>6, <1>7, <1>8 DEF Next, PageStep, SweepStep, MarkStep

LEMMA ApartStep ==
    ASSUME IInv, [Next]_vars, NEW n \in Num
    PROVE  Apart(n)'
<1>t. /\ TypeOK /\ Room /\ Apart(n) /\ \A k \in CallId : Right(k)
      /\ num \in [Num -> NumStatus] /\ visit \in [Visit -> VisitRow] /\ used \in Nat
    BY BoundsAssumption DEF IInv, TypeOK
<1> SUFFICES ASSUME n \notin stray', NEW i \in Holders(n)'
             PROVE  num'[n] # "available" /\ \A j \in On(n)' : j <= i
    BY DEF Apart
<1>i. i \in Visit /\ visit'[i].st = "active" /\ visit'[i].n = n
    BY DEF Holders, Active
<1>n. n \notin stray
    BY <1>t, NumMoves
<1>1. CASE Kept
  <2>1. i \in Holders(n)
      BY <1>1, <1>i DEF Kept, Holders, Active, Ended
  <2>2. On(n)' = On(n)
      BY <1>1 DEF Kept, On
  <2>3. num[n] # "available" /\ \A j \in On(n) : j <= i
      BY <2>1, <1>n, <1>t DEF Apart
  <2>4. num'[n] # "available"
      BY <2>1, <2>3, <1>t, NumMoves
  <2> QED BY <2>2, <2>3, <2>4
<1>2. ASSUME NEW v \in Visitor, NEW m \in Num, Took(v, m)
      PROVE  num'[n] # "available" /\ \A j \in On(n)' : j <= i
  <2> DEFINE new == [st |-> "active", n |-> m, by |-> v, lapsed |-> FALSE, cold |-> FALSE]
  <2>1. used + 1 \in Visit /\ visit' = [visit EXCEPT ![used + 1] = new] /\ num' = [num EXCEPT ![m] = "in_use"]
      BY <1>2 DEF Took
  <2>2. new.n = m
      OBVIOUS
  <2> HIDE DEF new
  <2>3. visit'[used + 1].n = m /\ \A j \in Visit : j # used + 1 => visit'[j] = visit[j]
      BY <2>1, <2>2, <1>t
  <2>4. On(n) \in SUBSET (1 .. used)
      BY <1>t, Looked
  <2>5. CASE i # used + 1
    <3>1. i \in Holders(n)
        BY <2>3, <2>5, <1>i DEF Holders, Active
    <3>2. num[n] # "available" /\ \A j \in On(n) : j <= i
        BY <3>1, <1>n, <1>t DEF Apart
    <3>3. m # n
        BY <3>2, <1>2 DEF Took
    <3>4. On(n)' = On(n)
        BY <2>1, <2>3, <3>3, <2>4, <1>t DEF On
    <3> QED BY <3>2, <3>3, <3>4, <2>1, <1>t
  <2>6. CASE i = used + 1
    <3>1. m = n
        BY <2>3, <2>6, <1>i
    <3>2. num'[n] = "in_use"
        BY <3>1, <2>1, <1>t
    <3>3. ASSUME NEW j \in On(n)' PROVE j <= used + 1
      <4>1. j \in Visit /\ visit'[j].n = n
          BY <3>3 DEF On
      <4>2. CASE j # used + 1
        <5>1. j \in On(n)
            BY <2>3, <4>1, <4>2 DEF On
        <5> QED BY <5>1, <2>4, <1>t
      <4> QED BY <4>1, <4>2, <1>t DEF Visit
    <3> QED BY <3>2, <3>3, <2>6
  <2> QED BY <2>5, <2>6
<1> QED BY <1>1, <1>2, <1>t, VisitMoves

-----------------------------------------------------------------------------
(* There is a row for every visit a request is about to make. *)
LEMMA RoomStep ==
    ASSUME IInv, [Next]_vars
    PROVE  Room'
<1>t. /\ IsFiniteSet(Takers) /\ used + Cardinality(Takers) <= MaxVisits
      /\ used \in Nat /\ MaxVisits \in Nat
      /\ give \in [Visitor -> Give]
      /\ Cardinality(Takers) \in Nat
    BY BoundsAssumption, FS_CardinalityType DEF IInv, TypeOK, Room
<1>1. ASSUME NEW v \in Visitor, GiveLook(v) PROVE Room'
  <2>1. v \notin Takers /\ used' = used /\ used + Cardinality(Takers) < MaxVisits
      BY <1>1 DEF GiveLook, Takers, bounds
  <2>2. Takers' = Takers \cup {v}
      BY <1>1, <1>t DEF GiveLook, Takers
  <2>3. IsFiniteSet(Takers \cup {v}) /\ Cardinality(Takers \cup {v}) = Cardinality(Takers) + 1
      BY <2>1, <1>t, FS_AddElement
  <2> QED BY <2>1, <2>2, <2>3, <1>t DEF Room
<1>2. ASSUME NEW v \in Visitor, GiveTake(v) PROVE Room'
  <2>1. v \in Takers
      BY <1>2 DEF GiveTake, Takers
  <2>2. Takers' = Takers \ {v}
      BY <1>2, <1>t DEF GiveTake, Takers, IdleGive
  <2>3. IsFiniteSet(Takers \ {v}) /\ Cardinality(Takers \ {v}) = Cardinality(Takers) - 1
      BY <2>1, <1>t, FS_RemoveElement
  <2>4. used' = used \/ used' = used + 1
      BY <1>2 DEF GiveTake
  <2> QED BY <2>2, <2>3, <2>4, <1>t DEF Room
<1>3. ASSUME \/ \E v \in Visitor : GiveHeld(v) \/ PingRead(v) \/ PingSave(v) \/ \E k \in CallId : Call(k, v)
             \/ \E i \in Visit : Lapse(i) \/ CoolDown(i)
             \/ \E w \in Sweeper : SweepStep(w) \/ KillSweep(w)
             \/ \E k \in CallId : MarkStep(k) \/ KillMark(k)
             \/ \E n \in Num : Flood(n) \/ Restore(n) \/ PullStart(n, "quarantined") \/ PullStart(n, "gone")
             \/ PullEnd \/ UNCHANGED vars
      PROVE  give' = give /\ used' = used
    BY <1>3 DEF GiveHeld, PingRead, PingSave, Call, Lapse, CoolDown, SweepStep, SweepRead, SweepExpire, SweepFree, KillSweep,
       MarkStep, CallMarkRead, CallMarkSave, CallMarkFree, KillMark, Flood, Restore, PullStart, PullEnd, vars, bounds
<1>4. give' = give /\ used' = used => Room'
    BY <1>t DEF Room, Takers
<1> QED BY <1>1, <1>2, <1>3, <1>4 DEF Next, PageStep

-----------------------------------------------------------------------------
(* A call is tied to the visit it was made from. *)

(* The row of a new call. *)
LEMMA Tied ==
    ASSUME IInv, NEW v \in Visitor, shown[v] \in Num, NEW t \in Ties(shown[v]),
           NEW own, own = (LET mine == {i \in Held(v) : visit[i].n = shown[v]}
                           IN IF mine = {} \/ shown[v] \in stray THEN 0 ELSE Newest(mine))
    PROVE  own \in 0 .. MaxVisits /\ t \in 0 .. MaxVisits /\ (own # 0 => t = own)
<1> DEFINE n == shown[v]
           mine == {i \in Held(v) : visit[i].n = n}
<1>t. TypeOK /\ Apart(n) /\ MaxVisits \in Nat
    BY BoundsAssumption DEF IInv
<1>1. own = IF mine = {} \/ n \in stray THEN 0 ELSE Newest(mine)
    OBVIOUS
<1>2. mine \subseteq Visit /\ \A i \in mine : Active(i) /\ ~visit[i].lapsed /\ visit[i].n = n
    BY DEF Held
<1>3. n \in Num /\ t \in Ties(n)
    OBVIOUS
<1>4. t \in 0 .. MaxVisits
    BY <1>3, <1>t DEF Ties, On, Visit
<1> HIDE DEF mine, n
<1>5. CASE mine = {} \/ n \in stray
    BY <1>1, <1>4, <1>5, <1>t
<1>6. CASE ~(mine = {} \/ n \in stray)
  <2>1. own \in mine
      BY <1>1, <1>2, <1>6, NewestIn
  <2>2. own \in Visit /\ own \in Holders(n) /\ own \in On(n) /\ ~visit[own].lapsed
      BY <1>2, <2>1 DEF Holders, On
  <2>3. \A j \in On(n) : j <= own
      BY <1>6, <1>t, <2>2 DEF Apart
  <2>4. t \in On(n) /\ \A j \in On(n) : j > t => visit[j].lapsed
      BY <1>3, <2>2 DEF Ties
  <2>5. t <= own /\ ~(own > t)
      BY <2>2, <2>3, <2>4
  <2>6. own \in 0 .. MaxVisits
      BY <2>2, <1>t DEF Visit
  <2> QED BY <1>4, <2>5, <2>6
<1> QED BY <1>5, <1>6

LEMMA CallsStep ==
    ASSUME IInv, [Next]_vars
    PROVE  calls' \in [CallId -> CallRow] /\ \A k \in CallId : Right(k)'
<1>t. /\ TypeOK /\ calls \in [CallId -> CallRow] /\ used \in 0 .. MaxVisits /\ MaxVisits \in Nat
      /\ \A k \in CallId : Right(k) /\ calls[k] \in CallRow
    BY BoundsAssumption DEF IInv, TypeOK
<1>u. used' \in Nat /\ used <= used'
  <2>1. used' = used \/ used' = used + 1
      BY <1>t, VisitMoves DEF IInv, Kept, Took
  <2> QED BY <2>1, <1>t
(* A row that is written has to be right by itself. *)
<1>1. ASSUME NEW k \in CallId, NEW r \in CallRow, calls' = [calls EXCEPT ![k] = r],
             r.pc \in {"came", "read", "saved"} => r.n \in Num, r.mark <= used, r.own # 0 => r.tied = r.own
      PROVE  calls' \in [CallId -> CallRow] /\ \A j \in CallId : Right(j)'
  <2>1. calls' \in [CallId -> CallRow]
      BY <1>1, <1>t
  <2>2. ASSUME NEW j \in CallId PROVE Right(j)'
    <3>1. CASE j = k
      <4>1. calls'[j] = r /\ r.mark \in Nat
          BY <1>1, <1>t, <3>1 DEF CallRow
      <4> QED BY <4>1, <1>1, <1>t, <1>u DEF Right
    <3>2. CASE j # k
      <4>1. calls'[j] = calls[j] /\ calls[j].mark \in Nat
          BY <1>1, <1>t, <3>2 DEF CallRow
      <4> QED BY <4>1, <1>t, <1>u DEF Right
    <3> QED BY <3>1, <3>2
  <2> QED BY <2>1, <2>2
<1>2. calls' = calls => calls' \in [CallId -> CallRow] /\ \A j \in CallId : Right(j)'
  <2>1. \A j \in CallId : calls[j].mark \in Nat
      BY <1>t DEF CallRow
  <2> QED BY <2>1, <1>t, <1>u DEF Right
<1>3. ASSUME NEW k \in CallId, calls' = [calls EXCEPT ![k] = Done(k)]
      PROVE  calls' \in [CallId -> CallRow] /\ \A j \in CallId : Right(j)'
  <2> DEFINE r == Done(k)
  <2>1. calls[k].own \in 0 .. MaxVisits /\ calls[k].tied \in 0 .. MaxVisits
      BY <1>t DEF CallRow
  <2>2. r \in CallRow
    <3>1. NoCall \in CallRow
        BY <1>t DEF NoCall, CallRow
    <3> QED BY <2>1, <3>1 DEF Done, CallRow
  <2>3. r.pc = "done" /\ r.mark = 0 /\ r.own = calls[k].own /\ r.tied = calls[k].tied
      BY DEF Done, NoCall
  <2>4. calls' = [calls EXCEPT ![k] = r]
      BY <1>3
  <2> HIDE DEF r
  <2>5. r.mark <= used /\ r.pc \notin {"came", "read", "saved"} /\ (r.own # 0 => r.tied = r.own)
      BY <2>3, <1>t DEF Right
  <2> QED BY <1>1, <2>2, <2>4, <2>5
<1>4. ASSUME NEW k \in CallId, NEW v \in Visitor, Call(k, v)
      PROVE  calls' \in [CallId -> CallRow] /\ \A j \in CallId : Right(j)'
  <2> DEFINE own == LET mine == {i \in Held(v) : visit[i].n = shown[v]}
                    IN IF mine = {} \/ shown[v] \in stray THEN 0 ELSE Newest(mine)
             open == {i \in On(shown[v]) : ~visit[i].lapsed}
  <2>1. PICK t \in Ties(shown[v]) :
           calls' = [calls EXCEPT ![k] = [pc |-> "came", n |-> shown[v], last |-> used, tied |-> t, mark |-> 0,
                                          open |-> open, own |-> own]]
      BY <1>4 DEF Call
  <2>2. shown[v] \in Num
      BY <1>4 DEF Call
  <2>3. own \in 0 .. MaxVisits /\ t \in 0 .. MaxVisits /\ (own # 0 => t = own)
      BY <2>2, Tied
  <2>4. open \subseteq Visit
      BY DEF On
  <2> HIDE DEF own, open
  <2> DEFINE r == [pc |-> "came", n |-> shown[v], last |-> used, tied |-> t, mark |-> 0, open |-> open, own |-> own]
  <2>5. r \in CallRow
      BY <2>2, <2>3, <2>4, <1>t DEF CallRow
  <2>6. r.n \in Num /\ r.mark <= used /\ calls' = [calls EXCEPT ![k] = r]
      BY <2>1, <2>2, <1>t
  <2>7. r.own # 0 => r.tied = r.own
      BY <2>3
  <2> HIDE DEF r
  <2> QED BY <1>1, <2>5, <2>6, <2>7
<1>5. ASSUME NEW k \in CallId, CallMarkRead(k)
      PROVE  calls' \in [CallId -> CallRow] /\ \A j \in CallId : Right(j)'
  <2> DEFINE S == {i \in Holders(calls[k].n) : i <= calls[k].last /\ (i \in calls[k].open \/ ~visit[i].lapsed)}
             m == Newest(S)
             r == [calls[k] EXCEPT !.pc = "read", !.mark = m]
  <2>1. CASE S = {}
      BY <1>3, <1>5, <2>1 DEF CallMarkRead
  <2>2. CASE S # {}
    <3>1. calls' = [calls EXCEPT ![k] = r]
        BY <1>5, <2>2, <1>t DEF CallMarkRead
    <3>2. S \in SUBSET Visit /\ \A i \in S : visit[i].st = "active"
        BY DEF Holders, Active
    <3> HIDE DEF S
    <3>3. m \in Visit /\ visit[m].st = "active"
        BY <2>2, <3>2, NewestIn
    <3> HIDE DEF m
    <3>4. m \in 1 .. used /\ m \in 0 .. MaxVisits
        BY <3>3, <1>t, Standing
    <3>5. r \in CallRow /\ r.pc = "read" /\ r.mark = m /\ r.n = calls[k].n /\ r.own = calls[k].own
          /\ r.tied = calls[k].tied
        BY <3>4, <1>t DEF CallRow
    <3>6. calls[k].n \in Num
        BY <1>5, <1>t DEF CallMarkRead, Right
    <3>7. r.own # 0 => r.tied = r.own
        BY <3>5, <1>t DEF Right
    <3>8. r.mark <= used
        BY <3>4, <3>5, <1>t
    <3>9. r.n \in Num
        BY <3>5, <3>6
    <3> HIDE DEF r
    <3> QED BY <1>1, <3>1, <3>5, <3>7, <3>8, <3>9
  <2> QED BY <2>1, <2>2
<1>6. ASSUME NEW k \in CallId, CallMarkSave(k)
      PROVE  calls' \in [CallId -> CallRow] /\ \A j \in CallId : Right(j)'
  <2> DEFINE r == [calls[k] EXCEPT !.pc = "saved"]
  <2>1. calls' = [calls EXCEPT ![k] = r]
      BY <1>6, <1>t DEF CallMarkSave
  <2>2. r \in CallRow /\ r.mark = calls[k].mark /\ r.n = calls[k].n /\ r.own = calls[k].own /\ r.tied = calls[k].tied
      BY <1>t DEF CallRow
  <2>3. calls[k].n \in Num /\ calls[k].mark <= used /\ (calls[k].own # 0 => calls[k].tied = calls[k].own)
      BY <1>6, <1>t DEF CallMarkSave, Right
  <2> HIDE DEF r
  <2> QED BY <1>1, <2>1, <2>2, <2>3
<1>7. ASSUME NEW k \in CallId, CallMarkFree(k) \/ KillMark(k)
      PROVE  calls' \in [CallId -> CallRow] /\ \A j \in CallId : Right(j)'
    BY <1>3, <1>7 DEF CallMarkFree, KillMark
<1>8. ASSUME \/ \E v \in Visitor : PageStep(v)
             \/ \E i \in Visit : Lapse(i) \/ CoolDown(i)
             \/ \E w \in Sweeper : SweepStep(w) \/ KillSweep(w)
             \/ \E n \in Num : Flood(n) \/ Restore(n) \/ PullStart(n, "quarantined") \/ PullStart(n, "gone")
             \/ PullEnd \/ UNCHANGED vars
      PROVE  calls' = calls
    BY <1>8 DEF PageStep, GiveHeld, GiveLook, GiveTake, PingRead, PingSave, Lapse, CoolDown, SweepStep, SweepRead,
       SweepExpire, SweepFree, KillSweep, Flood, Restore, PullStart, PullEnd, vars
<1> QED BY <1>2, <1>4, <1>5, <1>6, <1>7, <1>8 DEF Next, MarkStep

-----------------------------------------------------------------------------
(* Types. *)

(* The numbers, and what is remembered of them. *)
LEMMA NumTypes ==
    ASSUME IInv, [Next]_vars
    PROVE  /\ num' \in [Num -> NumStatus]
           /\ stray' \subseteq Num /\ orphan' \subseteq Num
           /\ pull' \in [n : Num \cup {None}, to : {"quarantined", "gone"}]
<1> DEFINE Ok == /\ num' \in [Num -> NumStatus]
                 /\ stray' \subseteq Num /\ orphan' \subseteq Num
                 /\ pull' \in [n : Num \cup {None}, to : {"quarantined", "gone"}]
<1> SUFFICES Ok
    OBVIOUS
<1>t. /\ TypeOK /\ num \in [Num -> NumStatus] /\ stray \subseteq Num /\ orphan \subseteq Num
      /\ pull \in [n : Num \cup {None}, to : {"quarantined", "gone"}]
    BY DEF IInv, TypeOK
<1>n. \A x \in {"available", "in_use", "quarantined", "gone"} : x \in NumStatus
    BY DEF NumStatus
(* The number a sweep is about to release is one of the pool. *)
<1>w. \A w \in Sweeper : sweep[w].at # 0 => visit[sweep[w].at].n \in Num
  <2> SUFFICES ASSUME NEW w \in Sweeper, sweep[w].at # 0 PROVE visit[sweep[w].at].n \in Num
      OBVIOUS
  <2>1. sweep[w].at \in Visit /\ sweep[w].at \in 1 .. used
      BY <1>t DEF TypeOK, Sweep, Visit
  <2> QED BY <2>1, <1>t DEF TypeOK
<1>k. \A k \in CallId : calls[k].pc \in {"came", "read", "saved"} => calls[k].n \in Num
    BY DEF IInv, Right
<1>1. ASSUME NEW m \in Num, Freed(m) PROVE num' \in [Num -> NumStatus] /\ stray' \subseteq Num
    BY <1>1, <1>t, <1>n DEF Freed
<1>2. ASSUME NEW v \in Visitor, GiveTake(v) PROVE Ok
  <2>1. UNCHANGED <<stray, orphan, pull>>
      BY <1>2 DEF GiveTake
  <2>2. num' = num \/ \E n \in Num : num' = [num EXCEPT ![n] = "in_use"]
      BY <1>2 DEF GiveTake, Free
  <2>3. num' \in [Num -> NumStatus]
      BY <2>2, <1>t, <1>n
  <2> QED BY <2>1, <2>3, <1>t
<1>3. ASSUME NEW w \in Sweeper, SweepFree(w) PROVE Ok
  <2>1. UNCHANGED <<orphan, pull>> /\ (UNCHANGED <<num, stray>> \/ Freed(visit[sweep[w].at].n))
      BY <1>3 DEF SweepFree
  <2>2. visit[sweep[w].at].n \in Num
      BY <1>3, <1>w DEF SweepFree
  <2> QED BY <2>1, <2>2, <1>1, <1>t
<1>4. ASSUME NEW w \in Sweeper, KillSweep(w) PROVE Ok
    BY <1>4, <1>t, <1>w DEF KillSweep
<1>5. ASSUME NEW k \in CallId, CallMarkFree(k) PROVE Ok
  <2>1. UNCHANGED <<orphan, pull>> /\ (UNCHANGED <<num, stray>> \/ Freed(calls[k].n))
      BY <1>5 DEF CallMarkFree
  <2>2. calls[k].n \in Num
      BY <1>5, <1>k DEF CallMarkFree
  <2> QED BY <2>1, <2>2, <1>1, <1>t
<1>6. ASSUME NEW k \in CallId, KillMark(k) PROVE Ok
    BY <1>6, <1>t, <1>k DEF KillMark
<1>7. ASSUME NEW m \in Num, Flood(m) \/ Restore(m) PROVE Ok
  <2>1. UNCHANGED <<orphan, pull>>
      BY <1>7 DEF Flood, Restore
  <2>2. CASE Restore(m)
      BY <2>1, <2>2, <1>1, <1>t DEF Restore
  <2>3. CASE Flood(m)
      BY <2>1, <2>3, <1>t, <1>n DEF Flood
  <2> QED BY <1>7, <2>2, <2>3
<1>8. ASSUME NEW m \in Num, PullStart(m, "quarantined") \/ PullStart(m, "gone") PROVE Ok
  <2>1. UNCHANGED <<num, stray, orphan>> /\ \E to \in {"quarantined", "gone"} : pull' = [n |-> m, to |-> to]
      BY <1>8 DEF PullStart
  <2> QED BY <2>1, <1>t
<1>9. ASSUME PullEnd PROVE Ok
  <2>1. pull.n \in Num /\ pull.to \in NumStatus
      BY <1>9, <1>t, <1>n DEF PullEnd
  <2>2. num' = [num EXCEPT ![pull.n] = pull.to] /\ pull' = [pull EXCEPT !.n = None] /\ UNCHANGED <<stray, orphan>>
      BY <1>9 DEF PullEnd
  <2> QED BY <2>1, <2>2, <1>t
<1>10. ASSUME \/ \E v \in Visitor : GiveHeld(v) \/ GiveLook(v) \/ PingRead(v) \/ PingSave(v) \/ \E k \in CallId : Call(k, v)
              \/ \E i \in Visit : Lapse(i) \/ CoolDown(i)
              \/ \E w \in Sweeper : SweepRead(w) \/ SweepExpire(w)
              \/ \E k \in CallId : CallMarkRead(k) \/ CallMarkSave(k)
              \/ UNCHANGED vars
       PROVE  UNCHANGED <<num, stray, orphan, pull>>
    BY <1>10 DEF GiveHeld, GiveLook, PingRead, PingSave, Call, Lapse, CoolDown, SweepRead, SweepExpire,
       CallMarkRead, CallMarkSave, vars
<1>11. UNCHANGED <<num, stray, orphan, pull>> => Ok
    BY <1>t
<1> HIDE DEF Ok
<1> QED BY <1>2, <1>3, <1>4, <1>5, <1>6, <1>7, <1>8, <1>9, <1>10, <1>11 DEF Next, PageStep, SweepStep, MarkStep

(* The visitors' pages. *)
LEMMA PageTypes ==
    ASSUME IInv, [Next]_vars
    PROVE  /\ give' \in [Visitor -> Give]
           /\ shown' \in [Visitor -> Num \cup {None}]
           /\ ping' \in [Visitor -> 0 .. used']
<1> DEFINE Ok == /\ give' \in [Visitor -> Give]
                 /\ shown' \in [Visitor -> Num \cup {None}]
                 /\ ping' \in [Visitor -> 0 .. used']
<1> SUFFICES Ok
    OBVIOUS
<1>t. /\ TypeOK /\ give \in [Visitor -> Give] /\ shown \in [Visitor -> Num \cup {None}]
      /\ ping \in [Visitor -> 0 .. used] /\ used \in Nat
    BY BoundsAssumption DEF IInv, TypeOK
<1>u. used' = used \/ used' = used + 1
    BY VisitMoves DEF IInv, Kept, Took
<1>p. ping \in [Visitor -> 0 .. used']
  <2>1. \A v \in Visitor : ping[v] \in 0 .. used'
      BY <1>t, <1>u
  <2> QED BY <2>1, <1>t
<1>1. ASSUME NEW v \in Visitor, GiveHeld(v) PROVE Ok
  <2>1. visit[Newest(Held(v))].n \in Num
      BY <1>1, <1>t, Looked DEF GiveHeld
  <2> QED BY <1>1, <2>1, <1>t, <1>p DEF GiveHeld
<1>2. ASSUME NEW v \in Visitor, GiveLook(v) PROVE Ok
  <2>1. [pc |-> "take", resting |-> Cooling \cap Num] \in Give
      BY DEF Give
  <2> QED BY <1>2, <2>1, <1>t, <1>p DEF GiveLook
<1>3. ASSUME NEW v \in Visitor, GiveTake(v) PROVE Ok
  <2>1. IdleGive \in Give
      BY DEF IdleGive, Give
  <2>2. give' = [give EXCEPT ![v] = IdleGive] /\ ping' = ping
      BY <1>3 DEF GiveTake
  <2>3. \E n \in Num \cup {None} : shown' = [shown EXCEPT ![v] = n]
      BY <1>3 DEF GiveTake, Free
  <2>4. shown' \in [Visitor -> Num \cup {None}]
      BY <2>3, <1>t
  <2> QED BY <2>1, <2>2, <2>4, <1>t, <1>p
<1>4. ASSUME NEW v \in Visitor, PingRead(v) PROVE Ok
  <2>1. Newest(Held(v)) \in 1 .. used /\ used' = used
      BY <1>4, <1>t, Looked DEF PingRead
  <2>2. ping' = [ping EXCEPT ![v] = Newest(Held(v))] /\ UNCHANGED <<give, shown>>
      BY <1>4 DEF PingRead
  <2>3. Newest(Held(v)) \in 0 .. used'
      BY <2>1, <1>t
  <2> QED BY <2>2, <2>3, <1>t, <1>p
<1>5. ASSUME NEW v \in Visitor, PingSave(v) PROVE Ok
  <2>1. ping' = [ping EXCEPT ![v] = 0] /\ UNCHANGED <<give, shown>>
      BY <1>5 DEF PingSave
  <2>2. 0 \in 0 .. used'
      BY <1>t, <1>u
  <2> QED BY <2>1, <2>2, <1>t, <1>p
<1>6. ASSUME \/ \E v \in Visitor, k \in CallId : Call(k, v)
             \/ \E i \in Visit : Lapse(i) \/ CoolDown(i)
             \/ \E w \in Sweeper : SweepStep(w) \/ KillSweep(w)
             \/ \E k \in CallId : MarkStep(k) \/ KillMark(k)
             \/ \E n \in Num : Flood(n) \/ Restore(n) \/ PullStart(n, "quarantined") \/ PullStart(n, "gone")
             \/ PullEnd \/ UNCHANGED vars
      PROVE  UNCHANGED <<give, shown, ping>>
    BY <1>6 DEF Call, Lapse, CoolDown, SweepStep, SweepRead, SweepExpire, SweepFree, KillSweep,
       MarkStep, CallMarkRead, CallMarkSave, CallMarkFree, KillMark, Flood, Restore, PullStart, PullEnd, vars
<1>7. UNCHANGED <<give, shown, ping>> => Ok
    BY <1>t, <1>p
<1> HIDE DEF Ok
<1> QED BY <1>1, <1>2, <1>3, <1>4, <1>5, <1>6, <1>7 DEF Next, PageStep

(* The sweeps. *)
LEMMA SweepTypes ==
    ASSUME IInv, [Next]_vars
    PROVE  /\ sweep' \in [Sweeper -> Sweep]
           /\ \A w \in Sweeper : sweep'[w].todo \cup {sweep'[w].at} \subseteq 0 .. used'
<1> DEFINE Ok == /\ sweep' \in [Sweeper -> Sweep]
                 /\ \A w \in Sweeper : sweep'[w].todo \cup {sweep'[w].at} \subseteq 0 .. used'
<1> SUFFICES Ok
    OBVIOUS
<1>t. /\ TypeOK /\ sweep \in [Sweeper -> Sweep] /\ used \in Nat
      /\ \A w \in Sweeper : sweep[w].todo \cup {sweep[w].at} \subseteq 0 .. used
    BY BoundsAssumption DEF IInv, TypeOK
<1>u. used' = used \/ used' = used + 1
    BY VisitMoves DEF IInv, Kept, Took
<1>s. \A w \in Sweeper : sweep[w].todo \cup {sweep[w].at} \subseteq 0 .. used'
    BY <1>t, <1>u
<1>1. ASSUME NEW w \in Sweeper, NEW T \in SUBSET Visit, NEW a \in Visit \cup {0}, T \cup {a} \subseteq 0 .. used',
             sweep' = [sweep EXCEPT ![w] = [todo |-> T, at |-> a]]
      PROVE  Ok
  <2> DEFINE r == [todo |-> T, at |-> a]
  <2>1. r \in Sweep /\ r.todo = T /\ r.at = a
      BY DEF Sweep
  <2>2. sweep' = [sweep EXCEPT ![w] = r]
      BY <1>1
  <2> HIDE DEF r
  <2>3. sweep' \in [Sweeper -> Sweep]
      BY <2>1, <2>2, <1>t
  <2>4. ASSUME NEW x \in Sweeper PROVE sweep'[x].todo \cup {sweep'[x].at} \subseteq 0 .. used'
    <3>1. CASE x = w
      <4>1. sweep'[x] = r
          BY <2>2, <3>1, <1>t
      <4> QED BY <4>1, <2>1, <1>1
    <3>2. CASE x # w
      <4>1. sweep'[x] = sweep[x]
          BY <2>2, <3>2, <1>t
      <4> QED BY <4>1, <1>s
    <3> QED BY <3>1, <3>2
  <2> QED BY <2>3, <2>4
<1>2. ASSUME NEW w \in Sweeper, SweepRead(w) PROVE Ok
  <2> DEFINE T == {i \in Visit : Active(i) /\ visit[i].lapsed}
  <2>1. sweep' = [sweep EXCEPT ![w].todo = T] /\ sweep[w].at = 0 /\ used' = used
      BY <1>2 DEF SweepRead, IdleSweep, bounds
  <2>2. \A i \in T : i \in 0 .. used
      BY <1>t, Standing DEF Active
  <2>3. T \in SUBSET Visit
      OBVIOUS
  <2> HIDE DEF T
  <2>4. sweep' = [sweep EXCEPT ![w] = [todo |-> T, at |-> 0]]
    <3>1. sweep[w] \in Sweep
        BY <1>t
    <3>2. [sweep[w] EXCEPT !.todo = T] = [todo |-> T, at |-> 0]
        BY <2>1, <3>1 DEF Sweep
    <3> QED BY <2>1, <3>2, <1>t
  <2>5. T \cup {0} \subseteq 0 .. used'
      BY <2>1, <2>2, <1>t
  <2> QED BY <1>1, <2>3, <2>4, <2>5
<1>3. ASSUME NEW w \in Sweeper, SweepExpire(w) PROVE Ok
  <2>1. PICK i \in sweep[w].todo : sweep' = [sweep EXCEPT ![w] = [todo |-> sweep[w].todo \ {i}, at |-> i]]
      BY <1>3, <1>t DEF SweepExpire
  <2>2. sweep[w].todo \in SUBSET Visit
      BY <1>t DEF Sweep
  <2>3. (sweep[w].todo \ {i}) \cup {i} \subseteq 0 .. used'
      BY <1>s
  <2>4. i \in Visit \cup {0}
      BY <2>2
  <2> DEFINE T == sweep[w].todo \ {i}
  <2>5. T \in SUBSET Visit
      BY <2>2
  <2>6. T \cup {i} \subseteq 0 .. used' /\ sweep' = [sweep EXCEPT ![w] = [todo |-> T, at |-> i]]
      BY <2>1, <2>3
  <2> HIDE DEF T, Ok
  <2> QED BY <1>1, <2>4, <2>5, <2>6
<1>4. ASSUME NEW w \in Sweeper, SweepFree(w) \/ KillSweep(w) PROVE Ok
  <2>1. sweep' = [sweep EXCEPT ![w].at = 0] \/ sweep' = [sweep EXCEPT ![w] = IdleSweep]
      BY <1>4 DEF SweepFree, KillSweep
  <2>2. CASE sweep' = [sweep EXCEPT ![w].at = 0]
    <3>1. sweep[w] \in Sweep
        BY <1>t
    <3>2. [sweep[w] EXCEPT !.at = 0] = [todo |-> sweep[w].todo, at |-> 0] /\ sweep[w].todo \in SUBSET Visit
        BY <3>1 DEF Sweep
    <3>3. sweep' = [sweep EXCEPT ![w] = [todo |-> sweep[w].todo, at |-> 0]]
        BY <2>2, <3>2, <1>t
    <3>4. sweep[w].todo \cup {0} \subseteq 0 .. used'
        BY <1>s, <1>t, <1>u
    <3> QED BY <3>2, <3>3, <3>4, <1>1
  <2>3. CASE sweep' = [sweep EXCEPT ![w] = IdleSweep]
    <3>1. {} \cup {0} \subseteq 0 .. used'
        BY <1>t, <1>u
    <3> QED BY <2>3, <3>1, <1>1 DEF IdleSweep
  <2> QED BY <2>1, <2>2, <2>3
<1>5. ASSUME \/ \E v \in Visitor : PageStep(v) \/ \E k \in CallId : Call(k, v)
             \/ \E i \in Visit : Lapse(i) \/ CoolDown(i)
             \/ \E k \in CallId : MarkStep(k) \/ KillMark(k)
             \/ \E n \in Num : Flood(n) \/ Restore(n) \/ PullStart(n, "quarantined") \/ PullStart(n, "gone")
             \/ PullEnd \/ UNCHANGED vars
      PROVE  sweep' = sweep
    BY <1>5 DEF PageStep, GiveHeld, GiveLook, GiveTake, PingRead, PingSave, Call, Lapse, CoolDown,
       MarkStep, CallMarkRead, CallMarkSave, CallMarkFree, KillMark, Flood, Restore, PullStart, PullEnd, vars
<1>6. sweep' = sweep => Ok
    BY <1>t, <1>s
<1> HIDE DEF Ok
<1> QED BY <1>2, <1>3, <1>4, <1>5, <1>6 DEF Next, SweepStep

(* The visits, and the bounds. *)
LEMMA VisitTypes ==
    ASSUME IInv, [Next]_vars
    PROVE  /\ visit' \in [Visit -> VisitRow]
           /\ \A i \in Visit : IF i <= used' THEN visit'[i].st # "none" /\ visit'[i].n \in Num ELSE visit'[i] = NoVisit
           /\ used' \in 0 .. MaxVisits
<1>t. /\ TypeOK /\ visit \in [Visit -> VisitRow] /\ used \in Nat /\ used <= MaxVisits /\ MaxVisits \in Nat
      /\ \A i \in Visit : i \in Nat
    BY BoundsAssumption DEF IInv, TypeOK, Visit
<1>1. CASE Kept
  <2>1. \A i \in Visit : i <= used => visit'[i].st # "none" /\ visit'[i].n \in Num
      BY <1>1, <1>t DEF Kept, TypeOK
  <2> QED BY <1>1, <2>1, <1>t DEF Kept
<1>2. ASSUME NEW v \in Visitor, NEW n \in Num, Took(v, n)
      PROVE  /\ visit' \in [Visit -> VisitRow]
             /\ \A i \in Visit : IF i <= used' THEN visit'[i].st # "none" /\ visit'[i].n \in Num
                                               ELSE visit'[i] = NoVisit
             /\ used' \in 0 .. MaxVisits
  <2> DEFINE new == [st |-> "active", n |-> n, by |-> v, lapsed |-> FALSE, cold |-> FALSE]
  <2>1. used' = used + 1 /\ used + 1 \in Visit /\ visit' = [visit EXCEPT ![used + 1] = new]
      BY <1>2 DEF Took
  <2>2. new \in VisitRow /\ new.st = "active" /\ new.n = n
      BY DEF VisitRow
  <2> HIDE DEF new
  <2>3. used' \in 0 .. MaxVisits
      BY <2>1, <1>t DEF Visit
  <2>4. ASSUME NEW i \in Visit
        PROVE  IF i <= used' THEN visit'[i].st # "none" /\ visit'[i].n \in Num ELSE visit'[i] = NoVisit
    <3>1. CASE i = used + 1
      <4>1. visit'[i] = new /\ i <= used'
          BY <2>1, <3>1, <1>t
      <4> QED BY <4>1, <2>2
    <3>2. CASE i # used + 1
      <4>1. visit'[i] = visit[i] /\ (i <= used' <=> i <= used)
          BY <2>1, <3>2, <1>t
      <4> QED BY <4>1, <1>t DEF TypeOK
    <3> QED BY <3>1, <3>2
  <2> QED BY <2>1, <2>2, <2>3, <2>4, <1>t
<1> QED BY <1>1, <1>2, VisitMoves DEF IInv

LEMMA BoundTypes ==
    ASSUME IInv, [Next]_vars
    PROVE  pings' \in 0 .. MaxPings /\ ops' \in 0 .. MaxOps /\ crashes' \in 0 .. MaxCrashes
<1>t. /\ pings \in 0 .. MaxPings /\ ops \in 0 .. MaxOps /\ crashes \in 0 .. MaxCrashes
      /\ MaxPings \in Nat /\ MaxOps \in Nat /\ MaxCrashes \in Nat
    BY BoundsAssumption DEF IInv, TypeOK
<1>1. ASSUME \E v \in Visitor : GiveHeld(v) \/ PingRead(v)
      PROVE  pings' = pings + 1 /\ pings < MaxPings /\ ops' = ops /\ crashes' = crashes
    BY <1>1 DEF GiveHeld, PingRead
<1>2. ASSUME \E n \in Num : Flood(n) \/ Restore(n) \/ PullStart(n, "quarantined") \/ PullStart(n, "gone")
      PROVE  pings' = pings /\ ops' = ops + 1 /\ ops < MaxOps /\ crashes' = crashes
    BY <1>2 DEF Flood, Restore, PullStart
<1>3. ASSUME (\E w \in Sweeper : KillSweep(w)) \/ (\E k \in CallId : KillMark(k))
      PROVE  pings' = pings /\ ops' = ops /\ crashes' = crashes + 1 /\ crashes < MaxCrashes
    BY <1>3 DEF KillSweep, KillMark
<1>4. ASSUME \/ \E v \in Visitor : GiveLook(v) \/ GiveTake(v) \/ PingSave(v) \/ \E k \in CallId : Call(k, v)
             \/ \E i \in Visit : Lapse(i) \/ CoolDown(i)
             \/ \E w \in Sweeper : SweepStep(w)
             \/ \E k \in CallId : MarkStep(k)
             \/ PullEnd \/ UNCHANGED vars
      PROVE  UNCHANGED <<pings, ops, crashes>>
    BY <1>4 DEF GiveLook, GiveTake, PingSave, Call, Lapse, CoolDown, SweepStep, SweepRead, SweepExpire, SweepFree,
       MarkStep, CallMarkRead, CallMarkSave, CallMarkFree, PullEnd, vars, bounds
<1> QED BY <1>1, <1>2, <1>3, <1>4, <1>t DEF Next, PageStep

-----------------------------------------------------------------------------
(* The invariant, and the properties the runs check. *)

LEMMA IInvHolds == Spec => []IInv
<1>1. Init => IInv
  <2> SUFFICES ASSUME Init PROVE IInv
      OBVIOUS
  <2>0. MaxVisits \in Nat /\ MaxPings \in Nat /\ MaxOps \in Nat /\ MaxCrashes \in Nat
      BY BoundsAssumption
  <2>1. NoVisit \in VisitRow /\ IdleGive \in Give /\ IdleSweep \in Sweep /\ NoCall \in CallRow
      BY <2>0 DEF NoVisit, VisitRow, IdleGive, Give, IdleSweep, Sweep, NoCall, CallRow
  <2>2. IdleSweep.todo \cup {IdleSweep.at} = {0}
      BY DEF IdleSweep
  <2>3. \A i \in Visit : ~(i <= 0)
      BY <2>0 DEF Visit
  <2>4. TypeOK
      BY <2>0, <2>1, <2>2, <2>3 DEF Init, TypeOK, NumStatus
  <2>5. Room
    <3>1. Takers = {}
        BY DEF Init, Takers, IdleGive
    <3>2. IsFiniteSet({}) /\ Cardinality({}) = 0
        BY FS_EmptySet
    <3>3. used = 0
        BY DEF Init
    <3> QED BY <3>1, <3>2, <3>3, <2>0 DEF Room
  <2>6. \A n \in Num : Holders(n) = {}
      BY DEF Init, Holders, Active, NoVisit
  <2>7. \A k \in CallId : Right(k)
      BY DEF Init, Right, NoCall
  <2> QED BY <2>4, <2>5, <2>6, <2>7 DEF IInv, Apart
<1>2. IInv /\ [Next]_vars => IInv'
  <2> SUFFICES ASSUME IInv, [Next]_vars PROVE IInv'
      OBVIOUS
  <2>1. TypeOK'
      BY NumTypes, PageTypes, SweepTypes, VisitTypes, BoundTypes, CallsStep DEF TypeOK
  <2> QED BY <2>1, RoomStep, ApartStep, CallsStep DEF IInv
<1> QED BY <1>1, <1>2, PTL DEF Spec

(* Every variable stays in its type; above all, every visit up to the last *)
(* has a number of the pool, and no request needs a row that is not there. *)
THEOREM TypesHold == Spec => []TypeOK
<1>1. IInv => TypeOK
    BY DEF IInv
<1> QED BY <1>1, IInvHolds, PTL

(* DNINumber: each number is assigned to one active session at a time,     *)
(* unless the sweep, mark_called or a restore by hand has set it Available *)
(* while a visit held it: for any number of visitors, sweeps and calls.    *)
THEOREM NumbersApart == Spec => []SharedOnlyIfStray
<1>1. ASSUME IInv PROVE SharedOnlyIfStray
  <2> SUFFICES ASSUME NEW n \in Num, Cardinality(Holders(n)) > 1, n \notin stray PROVE FALSE
      BY DEF SharedOnlyIfStray
  <2>1. \A i, j \in Holders(n) : i \in Nat /\ j \in Nat /\ j <= i
      BY <1>1 DEF IInv, Apart, Holders, On, Visit
  <2>2. \A i, j \in Holders(n) : i = j
      BY <2>1
  <2>3. CASE Holders(n) = {}
      BY <2>3, FS_EmptySet
  <2>4. CASE Holders(n) # {}
    <3>1. PICK i \in Holders(n) : Holders(n) = {i}
        BY <2>2, <2>4
    <3>2. Cardinality({i}) = 1
        BY FS_Singleton
    <3> QED BY <3>1, <3>2
  <2> QED BY <2>3, <2>4
<1> QED BY <1>1, IInvHolds, PTL

(* visit_for_call: a call from the page of a standing visit is tied to     *)
(* that visit, unless its number went astray before.                       *)
THEOREM VisitsRight == Spec => []RightVisit
<1>1. IInv => RightVisit
    BY DEF IInv, Right, RightVisit
<1> QED BY <1>1, IInvHolds, PTL
=============================================================================
